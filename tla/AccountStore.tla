------------------------------ MODULE AccountStore ------------------------------
(***************************************************************************)
(* One player account of the data service (sow-data): the record in Valkey *)
(* that every request reads, changes and puts back with a compare-and-set, *)
(* and its copy in the redb file that seeds Valkey when the service boots. *)
(*                                                                         *)
(* A request is a slot that runs one operation after another, each in the  *)
(* steps the code awaits: the ownership check, the GET, the SET guarded by *)
(* a comparison with what was read (at most Attempts times), the write of  *)
(* the copy, the answer.  What the closure given to update_account_atomic  *)
(* notes on the side (failure, granted, revealed) outlives a lost race.    *)
(* Accounts do not share keys, so one is enough.  A request made in the    *)
(* owner's name presents the right secret or is turned away.  An internal  *)
(* caller may also save a profile, which replaces all of the account but   *)
(* its secret by what that caller has got before; it holds a slot from     *)
(* then on.  Left out: names, the public id, the leader in use, linked     *)
(* identities, experience, the other career counters and analytics.        *)
(***************************************************************************)
EXTENDS Naturals, FiniteSets, Functions

CONSTANTS
    Requests,   \* bound: requests served at one time
    Attempts,   \* the 5 of update_account_atomic
    Skins,      \* skins of the catalogue, sold for gems
    Leaders,    \* leaders outside the free rotation, sold for either purse
    Free,       \* leaders of the free rotation
    Secrets,    \* bound: ownership secrets the service draws
    Absent,     \* no record under the key
    NoSecret,   \* auth_secret_hash is None
    Bare,       \* selected_skin is None
    Grants,     \* ids of purchase events
    Refunds,    \* ids of refund events
    Worth,      \* gems of each event's product
    Price,      \* price of each item
    Gift,       \* laurels of the tutorial
    Reward,     \* laurels of a match
    MaxMatches, \* bound: matches recorded
    Faults      \* bound: what may fail

Items  == Skins \cup Leaders \cup Free
Events == Grants \cup Refunds

Accounts ==
    [gems : Nat, laurels : Nat, owned : SUBSET Items, worn : Skins \cup {Bare},
     events : SUBSET Events, secret : Secrets \cup {NoSecret}, intro : BOOLEAN,
     matches : Nat]

ASSUME AccountAssumption ==
    /\ Attempts \in Nat \ {0}
    /\ Absent \notin Accounts
    /\ NoSecret \notin Secrets
    /\ Bare \notin Skins
    /\ Free \cap (Skins \cup Leaders) = {} /\ Skins \cap Leaders = {}
    /\ Grants \cap Refunds = {}
    /\ Worth \in [Events -> Nat]
    /\ Price \in [Skins \cup Leaders -> Nat]
    /\ Gift \in Nat /\ Reward \in Nat /\ MaxMatches \in Nat
    /\ Faults \subseteq {"call", "mirror", "reboot", "ram"}

VARIABLES
    store,      \* sow:player:account:{id} in Valkey
    mirror,     \* the row of PLAYERS_TABLE in redb
    slot,       \* what each request is doing
    drawn,      \* history: secrets drawn so far
    life,       \* history: unborn, alive, or erased: a deletion was confirmed
    stale       \* history: a deletion missed the record or its copy, or the copy was
                \* written after it

accountVars == <<store, mirror, slot, drawn, life, stale>>

-----------------------------------------------------------------------------
\* The calls that go through update_account_atomic, but for the saves: there is
\* one for each profile.
Updates ==
    [kind : {"unlock"}, item : Skins, purse : {"gems"}]
    \cup [kind : {"unlock"}, item : Leaders \cup Free, purse : {"gems", "laurels"}]
    \cup [kind : {"equip"}, item : Skins \cup {Bare}]
    \cup [kind : {"grant"}, event : Grants]
    \cup [kind : {"revoke"}, event : Refunds]
    \cup [kind : {"mint"}, secret : Secrets]
    \cup [kind : {"tutorial", "outcome"}]

Saves == [kind : {"save"}, profile : Accounts]

Deletion == [kind |-> "delete"]

\* Requests that present the ownership secret first (verify_anonymous_secret).
ByOwner(o) == o.kind \in {"unlock", "equip", "tutorial", "delete"}

NewAccount ==
    [gems |-> 0, laurels |-> 0, owned |-> {}, worn |-> Bare, events |-> {},
     secret |-> NoSecret, intro |-> FALSE, matches |-> 0]

-----------------------------------------------------------------------------
(* The closures.  Each leaves the account alone or changes it as a whole.   *)

Unlockable(o, a) ==
    /\ o.item \notin a.owned
    /\ o.item \notin Free
    /\ a[o.purse] >= Price[o.item]

Unlock(o, a) ==
    IF Unlockable(o, a)
    THEN [a EXCEPT ![o.purse] = @ - Price[o.item], !.owned = @ \cup {o.item}]
    ELSE a

Wearable(o, a) == o.item = Bare \/ o.item \in a.owned

Equip(o, a) == IF Wearable(o, a) THEN [a EXCEPT !.worn = o.item] ELSE a

\* Mutant: an event that was handled before counts again.
GrantAgain(o, a) ==
    [a EXCEPT !.events = @ \cup {o.event}, !.gems = @ + Worth[o.event]]

Grant(o, a) ==
    IF o.event \in a.events THEN a
    ELSE [a EXCEPT !.events = @ \cup {o.event}, !.gems = @ + Worth[o.event]]

\* Deducts with a floor of zero.
Revoke(o, a) ==
    IF o.event \in a.events THEN a
    ELSE [a EXCEPT !.events = @ \cup {o.event},
                   !.gems = IF @ > Worth[o.event] THEN @ - Worth[o.event] ELSE 0]

Mint(o, a) == IF a.secret = NoSecret THEN [a EXCEPT !.secret = o.secret] ELSE a

Tutorial(a) ==
    IF a.intro THEN a ELSE [a EXCEPT !.intro = TRUE, !.laurels = @ + Gift]

Outcome(a) == [a EXCEPT !.matches = @ + 1, !.laurels = @ + Reward]

\* The secret is no part of the profile.
Profile(a) == [a EXCEPT !.secret = NoSecret]

Save(o, a) == [o.profile EXCEPT !.secret = a.secret]

Effect(o, a) ==
    CASE o.kind = "unlock"   -> Unlock(o, a)
      [] o.kind = "equip"    -> Equip(o, a)
      [] o.kind = "grant"    -> Grant(o, a)
      [] o.kind = "revoke"   -> Revoke(o, a)
      [] o.kind = "mint"     -> Mint(o, a)
      [] o.kind = "tutorial" -> Tutorial(a)
      [] o.kind = "outcome"  -> Outcome(a)
      [] o.kind = "save"     -> Save(o, a)

\* The closure sets failure.
Refuses(o, a) ==
    \/ o.kind = "unlock" /\ ~Unlockable(o, a)
    \/ o.kind = "equip" /\ ~Wearable(o, a)

\* The closure sets granted, revoked or revealed.
Claims(o, a) ==
    \/ o.kind \in {"grant", "revoke"} /\ o.event \notin a.events
    \/ o.kind = "mint" /\ a.secret = NoSecret

-----------------------------------------------------------------------------
Idle == [pc |-> "idle", op |-> Deletion, seen |-> Absent, refused |-> FALSE,
         claimed |-> FALSE, tries |-> 0]

AccountInit ==
    /\ store = Absent
    /\ mirror = Absent
    /\ slot = [r \in Requests |-> Idle]
    /\ drawn = {}
    /\ life = "unborn"
    /\ stale = FALSE

\* A request is answered, with its account or an error, and its slot is free.
Answer(r) == slot' = [slot EXCEPT ![r] = Idle]

Begin(r, o, pc) ==
    slot' = [slot EXCEPT ![r] = [Idle EXCEPT !.pc = pc, !.op = o]]

\* A new anonymous or platform account; its id is drawn, never used before.
Create(r) ==
    /\ slot[r].pc = "idle"
    /\ life = "unborn"
    /\ store' = NewAccount
    /\ life' = "alive"
    /\ slot' = [slot EXCEPT ![r] = [Idle EXCEPT !.pc = "mirror", !.seen = NewAccount,
                                                !.op = [kind |-> "outcome"]]]
    /\ UNCHANGED <<mirror, drawn, stale>>

\* The ownership proof of a self-service request holds.
Proven(o) == ByOwner(o) => store # Absent /\ store.secret # NoSecret

Start(r, o) ==
    /\ slot[r].pc = "idle"
    /\ life # "unborn"
    /\ Proven(o)
    /\ o.kind = "mint" => store # Absent /\ o.secret \notin drawn
    /\ o.kind = "outcome" => store # Absent
    /\ Begin(r, o, IF o = Deletion THEN "delete" ELSE "read")
    /\ drawn' = IF o.kind = "mint" THEN drawn \cup {o.secret} ELSE drawn
    /\ UNCHANGED <<store, mirror, life, stale>>

\* The caller of POST /internal/save gets the account's profile.
Fetch(r) ==
    /\ slot[r].pc = "idle"
    /\ store # Absent
    /\ Begin(r, [kind |-> "save", profile |-> Profile(store)], "held")
    /\ UNCHANGED <<store, mirror, drawn, life, stale>>

\* It posts what it holds, if it ever does.
PostSave(r) ==
    /\ slot[r].pc = "held"
    /\ \/ slot' = [slot EXCEPT ![r].pc = "read"]
       \/ Answer(r)
    /\ UNCHANGED <<store, mirror, drawn, life, stale>>

\* The GET of an attempt, and the closure on what it returned.
Read(r) ==
    /\ slot[r].pc = "read"
    /\ store # Absent /\ slot[r].op.kind = "outcome" => store.matches < MaxMatches
    /\ IF store = Absent
       THEN Answer(r)
       ELSE slot' = [slot EXCEPT ![r].pc = "swap", ![r].seen = store,
                       ![r].refused = @ \/ Refuses(slot[r].op, store),
                       ![r].claimed = @ \/ Claims(slot[r].op, store)]
    /\ UNCHANGED <<store, mirror, drawn, life, stale>>

\* What follows a successful compare-and-set.
Settled(r) ==
    LET s == slot[r] IN
    CASE s.refused -> Answer(r)
      [] s.op.kind \in {"grant", "revoke", "mint"} /\ ~s.claimed -> Answer(r)
      [] OTHER -> slot' = [slot EXCEPT ![r] =
                              [Idle EXCEPT !.pc = "mirror", !.op = s.op,
                                           !.seen = Effect(s.op, s.seen)]]

\* Mutant: a SET that compares nothing.
UnchangedAlways(r) == TRUE

Unchanged(r) == store = slot[r].seen

Swap(r) ==
    /\ slot[r].pc = "swap"
    /\ IF Unchanged(r)
       THEN /\ store' = Effect(slot[r].op, slot[r].seen)
            /\ Settled(r)
       ELSE /\ UNCHANGED store
            /\ IF slot[r].tries + 1 = Attempts
               THEN Answer(r)
               ELSE slot' = [slot EXCEPT ![r].pc = "read", ![r].seen = Absent,
                                     ![r].tries = @ + 1]
    /\ UNCHANGED <<mirror, drawn, life, stale>>

\* save_player_account_to_redb, then the answer.  The write is best effort.
Mirror(r) ==
    /\ slot[r].pc = "mirror"
    /\ \/ mirror' = slot[r].seen /\ stale' = (stale \/ life = "erased")
       \/ "mirror" \in Faults /\ UNCHANGED <<mirror, stale>>
    /\ Answer(r)
    /\ UNCHANGED <<store, drawn, life>>

\* A call to Valkey fails: the request ends, and if the call was the SET it may
\* have been carried out.
CallFails(r) ==
    /\ "call" \in Faults
    /\ slot[r].pc \in {"read", "swap"}
    /\ store' \in {store} \cup
          (IF slot[r].pc = "swap" /\ Unchanged(r)
           THEN {Effect(slot[r].op, slot[r].seen)} ELSE {})
    /\ Answer(r)
    /\ UNCHANGED <<mirror, drawn, life, stale>>

\* A DEL that fails is taken for one that found nothing.
DeleteKey(r) ==
    /\ slot[r].pc = "delete"
    /\ \/ store' = Absent /\ UNCHANGED stale
       \/ "call" \in Faults /\ UNCHANGED store /\ stale' = TRUE
    /\ slot' = [slot EXCEPT ![r].pc = "unmirror"]
    /\ UNCHANGED <<mirror, drawn, life>>

\* Mutant: only the key in Valkey is deleted.
DeleteMirrorForgotten(r) ==
    /\ slot[r].pc = "unmirror"
    /\ life' = "erased"
    /\ Answer(r)
    /\ UNCHANGED <<store, mirror, drawn, stale>>

\* The copy goes too, best effort, and the deletion is confirmed unless a call of
\* the scan that follows fails.
DeleteMirror(r) ==
    /\ slot[r].pc = "unmirror"
    /\ \/ mirror' = Absent /\ UNCHANGED stale
       \/ "mirror" \in Faults /\ mirror' = mirror /\ stale' = TRUE
    /\ life' \in {"erased"} \cup (IF "call" \in Faults THEN {life} ELSE {})
    /\ Answer(r)
    /\ UNCHANGED <<store, drawn>>

\* The service restarts: its requests are gone, but not what a caller holds.
\* Valkey has its contents or, if it went down too, none, and is seeded with what
\* it lacks.
Seeded(kept) == IF kept = Absent THEN mirror ELSE kept

Reboot(kept) ==
    /\ "reboot" \in Faults
    /\ kept = store \/ ("ram" \in Faults /\ kept = Absent)
    /\ store' = Seeded(kept)
    /\ mirror' = IF store' = Absent THEN mirror ELSE store'
    /\ slot' = [r \in Requests |-> IF slot[r].pc = "held" THEN slot[r] ELSE Idle]
    /\ UNCHANGED <<drawn, life, stale>>

AccountStep(r) ==
    \/ Create(r)
    \/ \E o \in Updates \cup {Deletion} : Start(r, o)
    \/ Fetch(r)
    \/ PostSave(r)
    \/ Read(r)
    \/ Swap(r)
    \/ Mirror(r)
    \/ CallFails(r)
    \/ DeleteKey(r)
    \/ DeleteMirror(r)

AccountNext ==
    \/ \E r \in Requests : AccountStep(r)
    \/ \E kept \in {store, Absent} : Reboot(kept)

AccountSpec == AccountInit /\ [][AccountNext]_accountVars

-----------------------------------------------------------------------------
(* Properties.                                                             *)

Pcs == {"idle", "held", "read", "swap", "mirror", "delete", "unmirror"}

\* Every variable has its type (sow-data/src/db.rs, PlayerAccount).
AccountTypeOK ==
    /\ store \in Accounts \cup {Absent}
    /\ mirror \in Accounts \cup {Absent}
    /\ slot \in [Requests -> [pc : Pcs, op : Updates \cup Saves \cup {Deletion},
                              seen : Accounts \cup {Absent}, refused : BOOLEAN,
                              claimed : BOOLEAN, tries : 0..Attempts - 1]]
    /\ drawn \subseteq Secrets
    /\ life \in {"unborn", "alive", "erased"}
    /\ stale \in BOOLEAN

\* What an operation on the account a leaves of what was gained before: nothing
\* owned, handled or played is taken back.
Lasts(a, b) ==
    /\ a.owned \subseteq b.owned /\ a.events \subseteq b.events
    /\ a.matches <= b.matches /\ (a.intro => b.intro)

\* Nothing is lost between a request's GET and its SET: each change of the live
\* account is one whole operation of a request, applied to the account as it is by
\* then and not as it was read, and takes back nothing gained before.  Excepted are
\* the account's creation, its deletion, a restart, and in its second half the save
\* of a profile: that one replaces the account as it is by what its caller got any
\* time before, and so undoes what the others did since (update_account_atomic and
\* update_profile, sow-data/src/db.rs:1165 and 2229).
WholeUpdates ==
    [][\/ store' = store
       \/ store = Absent \/ store' = Absent
       \/ \E r \in Requests :
              /\ slot[r].pc = "swap"
              /\ store' = Effect(slot[r].op, store)
              /\ slot[r].op.kind # "save" => Lasts(store, store')
       \/ store' = mirror /\ \A r \in Requests : slot'[r].pc \in {"idle", "held"}]_accountVars

Cost(S)   == SumFunctionOnSet(Price, S)
Valued(S) == SumFunctionOnSet(Worth, S)

\* The owned items split into those bought for gems and those bought for
\* laurels, so that the purses come out: a purchase event counts once, a refund
\* takes back no more than it gave, and nothing is owned that was not paid for.
Balanced(a) ==
    \E bought \in SUBSET a.owned :
        LET out == a.gems + Cost(bought)
            in  == Valued(a.events \cap Grants)
        IN /\ a.owned \cap Skins \subseteq bought
           /\ out <= in /\ in <= out + Valued(a.events \cap Refunds)
           /\ a.laurels + Cost(a.owned \ bought)
                = (IF a.intro THEN Gift ELSE 0) + a.matches * Reward

\* The books balance in Valkey and in redb, through retries, duplicate events,
\* refunds, matches, lost answers and restarts (grant_revenuecat_gems,
\* unlock_leader).  A saved profile puts the books of an earlier day in their place;
\* they balance if its caller saves what it got, all of it and of this account,
\* which the code does not check (update_profile, sow-data/src/db.rs:2239).
BooksBalance == \A a \in {store, mirror} \ {Absent} : Balanced(a)

\* A confirmed deletion is final, restarts included, unless a request that had
\* already changed the account wrote its copy afterwards, or the record or its copy
\* could not be removed (delete_account, seed_valkey_from_redb).
ErasedStaysErased == life = "erased" /\ ~stale => store = Absent /\ mirror = Absent

=============================================================================
