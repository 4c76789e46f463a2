----------------------------- MODULE BridgeProofs -----------------------------
(* Theorems about Bridge, for any number of peers, fds, slots and commands: its    *)
(* types, why a connection is closed, its counters, and the order of its bytes in *)
(* both directions.                                                               *)
(*                                                                                *)
(* Basic is the invariant the others rest on.  Owes is what a connection owes:    *)
(* what is in the ring and in its backlog.  WireInv follows a byte from the task  *)
(* through ring and backlog to the wire, HeardInv an event from the socket through*)
(* the RX ring and the events kept back (Q) to the channel of its task.           *)
EXTENDS Bridge, Sums, SequenceTheorems, FiniteSetTheorems, WellFoundedInduction, TLAPS

-------------------------------------------------------------------------------
(* The records, the types and the invariants.                                    *)

\* What a ring or a backlog holds: writes, commands, events, and what a poll returns.
Write == {p \in [kind : {"send"}, fd : Fd, gen : Gen, from : Nat, upto : Nat] :
              1 <= p.from /\ p.from <= p.upto}

Cmds == Write \cup [kind : {"close"}, fd : Fd, gen : Gen]

Evs == [kind : {"accept"}, fd : Fd, gen : Gen] \cup [kind : {"closed"}, fd : Fd]
       \cup [kind : {"data"}, fd : Fd, unit : Gen \X Nat]

Polled == {e \in [filter : {"read", "write", "accept"}, fd : 0..MaxFd, eof : BOOLEAN] :
               IF e.filter = "accept" THEN ~e.eof ELSE e.fd \in Fd}

OpenFds == {f \in Fd : owner[f] # 0}

SocketTypes ==
    /\ owner \in [Fd -> 0..MaxPeers] /\ accepts \in 0..MaxPeers
    /\ slots = Cardinality(OpenFds) /\ slots <= MaxSlots

InwardTypes ==
    /\ rx \in Seq(Evs) /\ Len(rx) <= RxCap
    /\ late \in Seq(Evs) /\ Len(late) <= RxCap
    /\ overrun \in BOOLEAN

OutwardTypes ==
    /\ parked \in [Fd -> Seq(Write)]
    /\ owed \in [Gen -> Int]
    /\ wire \in [Gen -> Seq(Gen \X Nat)]
    /\ taken \in [Gen -> Nat]

LoopTypes ==
    /\ phase \in {"drain", "flush", "events"}
    /\ batch \in Seq(Polled)
    /\ phase = "drain" => batch = <<>>

TaskStates == {"none", "idle", "counting", "parked", "shut", "ended"}

TokioTypes ==
    /\ conns \in [Fd -> 0..MaxPeers]
    /\ inbox \in [Gen -> Seq(Gen \X Nat)] /\ \A g \in Gen : Len(inbox[g]) <= InboxCap
    /\ task \in [Gen -> TaskStates]
    /\ fdOf \in [Gen -> 0..MaxFd]
    /\ writes \in [Gen -> Nat]
    /\ heard \in [Gen -> Seq(Gen \X Nat)]

RingTypes ==
    /\ tx \in Seq(Cmds) /\ Len(tx) <= TxCap
    /\ waker \in 0..MaxPeers

\* Each connection has one fd, and each open fd one connection.
Owned ==
    /\ \A f \in Fd : owner[f] <= accepts
    /\ \A e, f \in Fd : owner[e] = owner[f] /\ owner[f] # 0 => e = f

\* What is parked for a fd is of the connection that has it, whose task has begun.
Backed ==
    \A f \in Fd : \A i \in DOMAIN parked[f] :
        /\ parked[f][i].fd = f /\ parked[f][i].gen = owner[f]
        /\ task[owner[f]] # "none"

\* A connection whose task has not begun, and one whose task has.
Begun ==
    \A g \in Gen :
        IF task[g] = "none"
        THEN owed[g] = 0 /\ writes[g] = 0 /\ wire[g] = <<>> /\ inbox[g] = <<>> /\ heard[g] = <<>>
        ELSE g <= accepts /\ fdOf[g] \in Fd /\ \A f \in Fd : owner[f] = g => f = fdOf[g]

\* A command is of a task that has begun; one that closes, of a task that is done.
Asked ==
    \A i \in DOMAIN tx :
        /\ task[tx[i].gen] # "none" /\ tx[i].fd = fdOf[tx[i].gen]
        /\ tx[i].kind = "close" => task[tx[i].gen] \in {"shut", "ended"}

\* An accept on its way is of a task that has not begun, and of no other accept.
Due(e) ==
    e.kind = "accept" =>
        /\ e.gen <= accepts /\ task[e.gen] = "none"
        /\ \A f \in Fd : owner[f] = e.gen => f = e.fd

SameAccept(a, b) == a.kind = "accept" /\ b.kind = "accept" /\ a.gen = b.gen

Announced ==
    /\ \A i \in DOMAIN rx : Due(rx[i])
    /\ \A i \in DOMAIN late : Due(late[i])
    /\ \A i, j \in DOMAIN rx : SameAccept(rx[i], rx[j]) => i = j
    /\ \A i, j \in DOMAIN late : SameAccept(late[i], late[j]) => i = j
    /\ \A i \in DOMAIN rx, j \in DOMAIN late : ~SameAccept(rx[i], late[j])

DriverInv == SocketTypes /\ InwardTypes /\ OutwardTypes /\ Owned /\ Backed /\ Begun /\ Announced

By(q, g)      == {i \in DOMAIN q : q[i].kind = "send" /\ q[i].gen = g}
RingSum(q, g) == SumFunction([i \in By(q, g) |-> Units(q[i])])

Owes ==
    \A f \in Fd, g \in Gen : owner[f] = g /\ task[g] # "ended" =>
        owed[g] + (IF task[g] = "counting" THEN Size ELSE 0) = InRing(g) + Total(parked[f])

\* The writes of a connection in a ring q: each begins beyond the last; each
\* begins after unit n, or where one before it ended; and m is reached.
RisingOf(q, g)    == \A i, j \in By(q, g) : i < j => q[i].upto < q[j].from

LinkedTo(q, g, n) ==
    \A i \in By(q, g) : q[i].from = n + 1 \/ \E j \in By(q, g) : j < i /\ q[i].from = q[j].upto + 1

Met(q, g, n, m)   == m = n \/ \E i \in By(q, g) : q[i].upto = m

\* A backlog p begins after unit n, each of its writes where the last one ended.
ChainedOn(p, n) ==
    p # <<>> => /\ p[1].from = n + 1
                /\ \A i \in 1..Len(p) - 1 : p[i + 1].from = p[i].upto + 1

FinalOf(p, n) == IF p = <<>> THEN n ELSE p[Len(p)].upto

\* From the wire through the backlog and the ring to the m units the task has
\* written, one write after another.
RingOK(q, g, ended, m) == RisingOf(q, g) /\ (~ended => \A i \in By(q, g) : q[i].upto <= m)

LineOK(q, g, p, n, ended, m) ==
    /\ ChainedOn(p, n)
    /\ LinkedTo(q, g, FinalOf(p, n))
    /\ ~ended => Met(q, g, FinalOf(p, n), m)

WireInv ==
    /\ \A g \in Gen : InOrder(wire[g], g) /\ RingOK(tx, g, task[g] = "ended", writes[g] * Size)
    /\ \A f \in Fd : owner[f] # 0 =>
           LineOK(tx, owner[f], parked[f], Len(wire[owner[f]]), task[owner[f]] = "ended", writes[owner[f]] * Size)

\* The events on their way, in the order in which they are heard of: the accepts
\* of a connection, its data, and the closes of a fd.
Q == rx \o late

Accs(q, g)  == {i \in DOMAIN q : q[i].kind = "accept" /\ q[i].gen = g}
Ours(q, g)  == {i \in DOMAIN q : q[i].kind = "data" /\ q[i].unit[1] = g}
Shuts(q, f) == {i \in DOMAIN q : q[i].kind = "closed" /\ q[i].fd = f}

\* The data of a connection come by its own fd, after its accept.
Placed(q, g) ==
    \A i \in Ours(q, g) :
        /\ g <= accepts
        /\ \A f \in Fd : owner[f] = g => f = q[i].fd
        /\ IF task[g] = "none" THEN Accs(q, g) # {} ELSE q[i].fd = fdOf[g]
        /\ \A j \in Accs(q, g) : j < i /\ q[j].fd = q[i].fd

\* Whoever had the fd before them is closed before they come.
Between(q, g) ==
    \A i \in Ours(q, g) :
        /\ \A h \in Gen \ {g} : \A j \in Accs(q, h) :
              j < i /\ q[j].fd = q[i].fd => \E k \in Shuts(q, q[i].fd) : j < k /\ k < i
        /\ conns[q[i].fd] \notin {0, g} => \E k \in Shuts(q, q[i].fd) : k < i

\* Whoever has lost the fd is told so.
Told(q) ==
    /\ \A g \in Gen : \A j \in Accs(q, g) :
          owner[q[j].fd] # g => \E k \in Shuts(q, q[j].fd) : j < k
    /\ \A f \in Fd : conns[f] \notin {0, owner[f]} => Shuts(q, f) # {}
    /\ \A f \in Fd : owner[f] # 0 /\ task[owner[f]] = "none" => Accs(q, owner[f]) # {}

\* The data of a connection: in order, after unit b without a gap, no unit beyond
\* m, and m is reached.
Num(q, i)        == q[i].unit[2]

Rises(q, g)      == \A i, j \in Ours(q, g) : i < j => Num(q, i) < Num(q, j)

Follows(q, g, b) ==
    \A i \in Ours(q, g) :
        Num(q, i) = b + 1 \/ \E j \in Ours(q, g) : j < i /\ Num(q, i) = Num(q, j) + 1

UpTo(q, g, m)    == \A i \in Ours(q, g) : Num(q, i) <= m

Hits(q, g, b, m) == m = b \/ \E i \in Ours(q, g) : Num(q, i) = m

\* What a task has got, in its hands and in its channel.
Got(g) == Len(heard[g]) + Len(inbox[g])

InLine ==
    \A g \in Gen :
        /\ InOrder(heard[g], g)
        /\ \A i \in DOMAIN inbox[g] : inbox[g][i] = <<g, Len(heard[g]) + i>>

\* What comes for the connection finds its channel.
Routed(q, g) == task[g] # "ended" /\ ((\E f \in Fd : conns[f] = g) \/ Accs(q, g) # {})

Numbering(q, g) ==
    /\ Rises(q, g)
    /\ Routed(q, g) => Follows(q, g, Got(g))
    /\ Open(g) => UpTo(q, g, taken[g])
    /\ Open(g) /\ Routed(q, g) => Hits(q, g, Got(g), taken[g])
    /\ g > accepts => taken[g] = 0

HeardOn(q) == InLine /\ Told(q) /\ \A g \in Gen : Placed(q, g) /\ Between(q, g) /\ Numbering(q, g)

HeardInv == ~overrun => HeardOn(Q)

\* Whose task has begun on a fd knows it.
Seats == \A f \in Fd : conns[f] # 0 => task[conns[f]] # "none" /\ fdOf[conns[f]] = f

Basic == DriverInv /\ TokioTypes /\ LoopTypes /\ RingTypes /\ Asked
LEMMA BridgeConstants ==
    /\ MaxPeers \in Nat \ {0} /\ MaxFd \in Nat \ {0} /\ MaxSlots \in Nat \ {0}
    /\ TxCap \in Nat \ {0} /\ RxCap \in Nat \ {0} /\ InboxCap \in Nat \ {0}
    /\ OwedCap \in Nat \ {0} /\ Size \in Nat \ {0} /\ ParkBudget \in Nat
    /\ MaxWrites \in [1..MaxPeers -> Nat] /\ MaxChunks \in [1..MaxPeers -> Nat]
    /\ Fd \subseteq Nat \ {0} /\ Gen \subseteq Nat \ {0}
    /\ Fd \subseteq 0..MaxFd /\ Gen \subseteq 0..MaxPeers
    /\ 0 \notin Fd /\ 0 \notin Gen
    /\ IsFiniteSet(Fd)
<1>1. IsFiniteSet(1..MaxFd)
  BY FS_Interval, BridgeAssumption
<1> QED BY <1>1, BridgeAssumption DEF Fd, Gen

-------------------------------------------------------------------------------
(* Sequences and the sums over them.                                            *)

LEMMA Appended ==
    ASSUME NEW S, NEW q \in Seq(S), NEW x \in S
    PROVE  /\ Append(q, x) \in Seq(S) /\ Append(q, x) # <<>>
           /\ Len(Append(q, x)) = Len(q) + 1 /\ Len(q) \in Nat
           /\ DOMAIN q = 1..Len(q) /\ DOMAIN Append(q, x) = 1..Len(q) + 1
           /\ \A i \in 1..Len(q) : Append(q, x)[i] = q[i]
           /\ Append(q, x)[Len(q) + 1] = x
<1>1. Append(q, x) \in Seq(S)
  BY AppendProperties
<1> QED BY <1>1, AppendProperties, LenProperties

LEMMA Shortened ==
    ASSUME NEW S, NEW q \in Seq(S), q # <<>>
    PROVE  /\ Head(q) \in S /\ Head(q) = q[1] /\ 1 \in DOMAIN q
           /\ Tail(q) \in Seq(S) /\ Len(Tail(q)) = Len(q) - 1
           /\ Len(q) \in Nat /\ Len(q) >= 1
           /\ DOMAIN q = 1..Len(q) /\ DOMAIN Tail(q) = 1..Len(q) - 1
           /\ \A i \in 1..Len(q) - 1 : Tail(q)[i] = q[i + 1]
<1>1. Tail(q) \in Seq(S) /\ Len(Tail(q)) = Len(q) - 1 /\ Head(q) \in S
      /\ \A i \in 1..Len(Tail(q)) : Tail(q)[i] = q[i + 1]
  BY HeadTailProperties
<1>2. Len(q) \in Nat /\ DOMAIN q = 1..Len(q) /\ DOMAIN Tail(q) = 1..Len(Tail(q))
  BY <1>1, LenProperties
<1>3. Len(q) >= 1
  BY <1>2, EmptySeq
<1> QED BY <1>1, <1>2, <1>3

\* A sequence with another element in front.
LEMMA Fronted ==
    ASSUME NEW S, NEW q \in Seq(S), NEW x \in S
    PROVE  /\ <<x>> \o q \in Seq(S) /\ <<x>> \o q # <<>>
           /\ Len(<<x>> \o q) = Len(q) + 1 /\ Len(q) \in Nat
           /\ DOMAIN (<<x>> \o q) = 1..Len(q) + 1
           /\ (<<x>> \o q)[1] = x
           /\ \A i \in 1..Len(q) : (<<x>> \o q)[i + 1] = q[i]
           /\ Head(<<x>> \o q) = x /\ Tail(<<x>> \o q) = q
<1> DEFINE r == <<x>> \o q
<1>1. <<x>> \in Seq(S) /\ Len(<<x>>) = 1
  OBVIOUS
<1>2. Len(q) \in Nat
  BY LenProperties
<1>3. r \in Seq(S) /\ Len(r) = Len(q) + 1
      /\ \A i \in 1..1 + Len(q) : r[i] = IF i <= 1 THEN <<x>>[i] ELSE q[i - 1]
  BY <1>1, <1>2, ConcatProperties
<1>4. r # <<>> /\ DOMAIN r = 1..Len(q) + 1
  BY <1>2, <1>3, LenProperties, EmptySeq
<1>5. r[1] = x /\ \A i \in 1..Len(q) : r[i + 1] = q[i]
  BY <1>2, <1>3
<1>6. Head(r) = x
  BY <1>3, <1>4, <1>5, Shortened
<1>7. Tail(r) = q
  <2>1. Tail(r) \in Seq(S) /\ Len(Tail(r)) = Len(q)
        /\ \A i \in 1..Len(q) : Tail(r)[i] = r[i + 1]
    BY <1>2, <1>3, <1>4, Shortened
  <2>2. \A i \in 1..Len(Tail(r)) : Tail(r)[i] = q[i]
    BY <1>5, <2>1
  <2> HIDE DEF r
  <2> QED BY <2>1, <2>2, SeqEqual
<1> QED BY <1>2, <1>3, <1>4, <1>5, <1>6, <1>7

\* A sum does not depend on the names of its terms.
LEMMA SumShift ==
    ASSUME NEW S \in SUBSET Nat, IsFiniteSet(S), NEW f, NEW g,
           \A i \in S : g[i] \in Nat /\ f[i + 1] = g[i]
    PROVE  SumFunctionOnSet(f, {i + 1 : i \in S}) = SumFunctionOnSet(g, S)
<1> DEFINE Next1(T) == {i + 1 : i \in T}
           G == {T \in SUBSET S : /\ IsFiniteSet(Next1(T))
                                  /\ SumFunctionOnSet(f, Next1(T)) = SumFunctionOnSet(g, T)}
<1>1. {} \in G
  <2>1. Next1({}) = {}
    OBVIOUS
  <2> QED BY <2>1, SumEmpty, FS_EmptySet
<1>2. ASSUME NEW T \in SUBSET S, NEW x \in S \ T, T \in G PROVE T \cup {x} \in G
  <2>1. Next1(T \cup {x}) = Next1(T) \cup {x + 1}
    OBVIOUS
  <2>2. x + 1 \notin Next1(T)
    <3>1. \A i \in T : i \in Nat /\ x \in Nat /\ i # x => i + 1 # x + 1
      OBVIOUS
    <3> QED BY <3>1, <1>2
  <2>3. IsFiniteSet(T) /\ IsFiniteSet(Next1(T))
    BY <1>2, FS_Subset
  <2>4. \A y \in T \cup {x} : g[y] \in Nat
    BY <1>2
  <2>5. \A y \in Next1(T) \cup {x + 1} : f[y] \in Nat
    BY <1>2
  <2>6. SumFunctionOnSet(g, T \cup {x}) = g[x] + SumFunctionOnSet(g, T)
    BY <1>2, <2>3, <2>4, SumAdd
  <2> HIDE DEF Next1
  <2>7. SumFunctionOnSet(f, Next1(T) \cup {x + 1}) = f[x + 1] + SumFunctionOnSet(f, Next1(T))
    BY <2>2, <2>3, <2>5, SumAdd
  <2>8. IsFiniteSet(Next1(T) \cup {x + 1})
    BY <2>3, FS_AddElement
  <2>9. f[x + 1] = g[x] /\ T \cup {x} \in SUBSET S
    BY <1>2
  <2> QED BY <1>2, <2>1, <2>6, <2>7, <2>8, <2>9
<1> HIDE DEF G
<1>3. SUBSET S \subseteq G
  BY <1>1, <1>2, SetInduction
<1>4. S \in G
  BY <1>3
<1> QED BY <1>4 DEF G

LEMMA UnitsNat ==
    ASSUME NEW p \in Write
    PROVE  /\ Units(p) \in Nat \ {0} /\ p.from \in Nat /\ p.upto \in Nat /\ p.from <= p.upto
           /\ p.from >= 1 /\ p.fd \in Fd /\ p.gen \in Gen /\ p.kind = "send"
           /\ Units(p) = p.upto - p.from + 1
BY DEF Write, Units

LEMMA TotalNat ==
    ASSUME NEW q \in Seq(Write)
    PROVE  /\ Total(q) \in Nat
           /\ Total(q) = SumFunctionOnSet([i \in DOMAIN q |-> Units(q[i])], 1..Len(q))
           /\ IsFiniteSet(1..Len(q))
<1> DEFINE u == [i \in DOMAIN q |-> Units(q[i])]
<1>1. Len(q) \in Nat /\ DOMAIN q = 1..Len(q) /\ \A i \in 1..Len(q) : q[i] \in Write
  BY LenProperties, ElementOfSeq
<1>2. IsFiniteSet(1..Len(q))
  BY <1>1, FS_Interval
<1>3. \A i \in 1..Len(q) : u[i] \in Nat
  BY <1>1, UnitsNat
<1>4. DOMAIN u = 1..Len(q)
  BY <1>1
<1>5. Total(q) = SumFunctionOnSet(u, 1..Len(q))
  BY <1>4 DEF Total, SumFunction
<1> HIDE DEF u
<1>6. SumFunctionOnSet(u, 1..Len(q)) \in Nat
  BY <1>2, <1>3, SumNat
<1> QED BY <1>2, <1>5, <1>6 DEF u

LEMMA TotalEmpty == Total(<<>>) = 0
<1>1. DOMAIN <<>> = {}
  OBVIOUS
<1> QED BY <1>1, SumEmpty DEF Total, SumFunction

LEMMA TotalAppend ==
    ASSUME NEW q \in Seq(Write), NEW p \in Write
    PROVE  Total(Append(q, p)) = Total(q) + Units(p)
<1> DEFINE r == Append(q, p)
           u == [i \in DOMAIN q |-> Units(q[i])]
           v == [i \in DOMAIN r |-> Units(r[i])]
           n == Len(q)
<1>1. /\ r \in Seq(Write) /\ n \in Nat /\ DOMAIN q = 1..n /\ DOMAIN r = 1..n + 1 /\ Len(r) = n + 1
      /\ \A i \in 1..n : r[i] = q[i]
      /\ r[n + 1] = p
  BY Appended
<1>2. /\ Total(r) = SumFunctionOnSet(v, 1..n + 1)
      /\ Total(q) = SumFunctionOnSet(u, 1..n) /\ IsFiniteSet(1..n)
  BY <1>1, TotalNat
<1>3. \A i \in 1..n : v[i] = u[i] /\ v[i] \in Nat
  <2>1. \A i \in 1..n : q[i] \in Write
    BY ElementOfSeq
  <2> HIDE DEF r
  <2> QED BY <1>1, <2>1, UnitsNat
<1>4. v[n + 1] = Units(p) /\ Units(p) \in Nat
  <2> HIDE DEF r
  <2> QED BY <1>1, UnitsNat
<1>5. 1..n + 1 = (1..n) \cup {n + 1} /\ n + 1 \notin 1..n
  BY <1>1
<1>6. \A i \in (1..n) \cup {n + 1} : v[i] \in Nat
  BY <1>3, <1>4
<1>7. Total(q) \in Nat
  BY TotalNat
<1> HIDE DEF u, v, r, n
<1>8. SumFunctionOnSet(v, (1..n) \cup {n + 1}) = v[n + 1] + SumFunctionOnSet(v, 1..n)
  BY <1>2, <1>5, <1>6, SumAdd
<1>9. SumFunctionOnSet(v, 1..n) = SumFunctionOnSet(u, 1..n)
  BY <1>2, <1>3, SumSame
<1>10. Total(r) = Units(p) + Total(q)
  BY <1>2, <1>4, <1>5, <1>8, <1>9
<1> QED BY <1>4, <1>7, <1>10 DEF r

LEMMA TotalTail ==
    ASSUME NEW q \in Seq(Write), q # <<>>
    PROVE  Total(q) = Units(Head(q)) + Total(Tail(q)) /\ Units(Head(q)) \in Nat
           /\ Total(Tail(q)) \in Nat /\ Total(q) \in Nat
<1> DEFINE r == Tail(q)
           u == [i \in DOMAIN q |-> Units(q[i])]
           v == [i \in DOMAIN r |-> Units(r[i])]
           m == Len(r)
           R == {i + 1 : i \in 1..m}
<1>1. /\ r \in Seq(Write) /\ m \in Nat /\ DOMAIN q = 1..m + 1 /\ DOMAIN r = 1..m /\ Len(q) = m + 1
      /\ \A i \in 1..m : r[i] = q[i + 1]
      /\ q[1] = Head(q) /\ Head(q) \in Write
  BY Shortened
<1>2. /\ Total(q) = SumFunctionOnSet(u, 1..m + 1) /\ IsFiniteSet(1..m + 1)
      /\ Total(r) = SumFunctionOnSet(v, 1..m) /\ IsFiniteSet(1..m)
      /\ Total(q) \in Nat /\ Total(r) \in Nat
  BY <1>1, TotalNat
<1>3. \A i \in 1..m + 1 : u[i] \in Nat
  <2>1. \A i \in 1..m + 1 : q[i] \in Write
    BY <1>1, ElementOfSeq
  <2> QED BY <1>1, <2>1, UnitsNat
<1>4. \A i \in 1..m : v[i] \in Nat /\ u[i + 1] = v[i]
  <2>1. \A i \in 1..m : i + 1 \in 1..m + 1
    BY <1>1
  <2>2. \A i \in 1..m : u[i + 1] = v[i]
    <3> HIDE DEF r
    <3> QED BY <1>1, <2>1
  <2> HIDE DEF u, v
  <2> QED BY <1>3, <2>1, <2>2
<1>5. u[1] = Units(Head(q)) /\ 1 \in 1..m + 1 /\ Units(Head(q)) \in Nat
  BY <1>1, UnitsNat
<1>6. (1..m + 1) \ {1} = R
  <2>1. \A i \in 1..m + 1 : i # 1 => i - 1 \in 1..m /\ i = (i - 1) + 1
    BY <1>1
  <2>2. \A i \in 1..m : i + 1 \in 1..m + 1 /\ i + 1 # 1
    BY <1>1
  <2> HIDE DEF m
  <2> QED BY <2>1, <2>2
<1>7. 1..m \in SUBSET Nat
  BY <1>1
<1> HIDE DEF u, v, r, m
<1>8. SumFunctionOnSet(u, 1..m + 1) = u[1] + SumFunctionOnSet(u, (1..m + 1) \ {1})
  BY <1>2, <1>3, <1>5, SumRemove
<1>9. SumFunctionOnSet(u, R) = SumFunctionOnSet(v, 1..m)
  BY <1>2, <1>4, <1>7, SumShift
<1>10. Total(q) = Units(Head(q)) + Total(r)
  BY <1>2, <1>5, <1>6, <1>8, <1>9
<1> QED BY <1>2, <1>5, <1>10 DEF r

LEMMA TotalFront ==
    ASSUME NEW q \in Seq(Write), NEW p \in Write
    PROVE  Total(<<p>> \o q) = Units(p) + Total(q)
<1>1. <<p>> \o q \in Seq(Write) /\ <<p>> \o q # <<>> /\ Head(<<p>> \o q) = p /\ Tail(<<p>> \o q) = q
  BY Fronted
<1> QED BY <1>1, TotalTail

-------------------------------------------------------------------------------
(* The sends of a connection in the ring.                                        *)

LEMMA RingSums ==
    ASSUME NEW g
    PROVE  /\ Sends(g) = By(tx, g) /\ Sends(g)' = By(tx', g)
           /\ InRing(g) = RingSum(tx, g) /\ InRing(g)' = RingSum(tx', g)
BY DEF Sends, InRing, By, RingSum

LEMMA CmdFields ==
    ASSUME NEW c \in Cmds
    PROVE  /\ c.kind \in {"send", "close"} /\ c.fd \in Fd /\ c.gen \in Gen
           /\ c.kind = "send" => c \in Write
BY DEF Cmds, Write

\* The sum over any names of the sends.
LEMMA RingSumIs ==
    ASSUME NEW q \in Seq(Cmds), NEW g
    PROVE  /\ IsFiniteSet(By(q, g)) /\ By(q, g) \subseteq 1..Len(q)
           /\ \A i \in By(q, g) : q[i] \in Write /\ Units(q[i]) \in Nat
           /\ RingSum(q, g) = SumFunctionOnSet([i \in By(q, g) |-> Units(q[i])], By(q, g))
           /\ RingSum(q, g) \in Nat
<1> DEFINE u == [i \in By(q, g) |-> Units(q[i])]
<1>1. Len(q) \in Nat /\ DOMAIN q = 1..Len(q) /\ \A i \in 1..Len(q) : q[i] \in Cmds
  BY LenProperties, ElementOfSeq
<1>2. By(q, g) \subseteq 1..Len(q) /\ IsFiniteSet(1..Len(q))
  BY <1>1, FS_Interval DEF By
<1>3. IsFiniteSet(By(q, g))
  BY <1>2, FS_Subset
<1>4. \A i \in By(q, g) : q[i] \in Write
  BY <1>1, CmdFields DEF By
<1>5. \A i \in By(q, g) : Units(q[i]) \in Nat
  BY <1>4, UnitsNat
<1>6. DOMAIN u = By(q, g) /\ \A i \in By(q, g) : u[i] \in Nat
  BY <1>5
<1>7. RingSum(q, g) = SumFunctionOnSet(u, By(q, g))
  BY <1>6 DEF RingSum, SumFunction
<1> HIDE DEF u
<1>8. SumFunctionOnSet(u, By(q, g)) \in Nat
  BY <1>3, <1>6, SumNat
<1> QED BY <1>2, <1>3, <1>4, <1>5, <1>7, <1>8 DEF u

LEMMA RingAppend ==
    ASSUME NEW q \in Seq(Cmds), NEW c \in Cmds, NEW g
    PROVE  RingSum(Append(q, c), g)
             = RingSum(q, g) + (IF c.kind = "send" /\ c.gen = g THEN Units(c) ELSE 0)
<1> DEFINE r == Append(q, c)
           n == Len(q)
           u == [i \in By(q, g) |-> Units(q[i])]
           v == [i \in By(r, g) |-> Units(r[i])]
<1>1. /\ r \in Seq(Cmds) /\ n \in Nat /\ DOMAIN q = 1..n /\ DOMAIN r = 1..n + 1 /\ Len(r) = n + 1
      /\ \A i \in 1..n : r[i] = q[i]
      /\ r[n + 1] = c
  BY Appended
<1>2. /\ IsFiniteSet(By(q, g)) /\ By(q, g) \subseteq 1..n
      /\ \A i \in By(q, g) : u[i] \in Nat
      /\ RingSum(q, g) = SumFunctionOnSet(u, By(q, g)) /\ RingSum(q, g) \in Nat
  BY RingSumIs
<1>3. /\ \A i \in By(r, g) : v[i] \in Nat
      /\ RingSum(r, g) = SumFunctionOnSet(v, By(r, g))
  BY <1>1, RingSumIs
<1> HIDE DEF r
<1>4. By(r, g) = IF c.kind = "send" /\ c.gen = g THEN By(q, g) \cup {n + 1} ELSE By(q, g)
  <2>1. \A i \in 1..n + 1 : i \in 1..n \/ i = n + 1
    BY <1>1
  <2>2. \A i \in 1..n : i \in 1..n + 1
    BY <1>1
  <2>3. n + 1 \in 1..n + 1
    BY <1>1
  <2>4. \A i : i \in By(r, g) <=> i \in By(q, g) \/ (i = n + 1 /\ c.kind = "send" /\ c.gen = g)
    BY <1>1, <2>1, <2>2, <2>3 DEF By
  <2> QED BY <2>4
<1>5. n + 1 \notin By(q, g)
  BY <1>1, <1>2
<1>6. \A i \in By(q, g) : v[i] = u[i]
  <2>1. \A i \in By(q, g) : i \in By(r, g) /\ r[i] = q[i]
    BY <1>1, <1>2, <1>4
  <2> QED BY <2>1
<1>7. c.kind = "send" /\ c.gen = g => v[n + 1] = Units(c)
  BY <1>1, <1>4
<1> HIDE DEF u, v, n
<1>8. SumFunctionOnSet(v, By(q, g)) = SumFunctionOnSet(u, By(q, g))
  BY <1>2, <1>6, SumSame
<1>9. CASE c.kind = "send" /\ c.gen = g
  <2>1. \A i \in By(q, g) \cup {n + 1} : v[i] \in Nat
    BY <1>3, <1>4, <1>9
  <2>2. SumFunctionOnSet(v, By(q, g) \cup {n + 1}) = v[n + 1] + SumFunctionOnSet(v, By(q, g))
    BY <1>2, <1>5, <2>1, SumAdd
  <2>3. v[n + 1] \in Nat
    BY <2>1
  <2> QED BY <1>2, <1>3, <1>4, <1>7, <1>8, <1>9, <2>2, <2>3 DEF r
<1>10. CASE ~(c.kind = "send" /\ c.gen = g)
  BY <1>2, <1>3, <1>4, <1>8, <1>10 DEF r
<1> QED BY <1>9, <1>10

LEMMA RingTail ==
    ASSUME NEW q \in Seq(Cmds), q # <<>>, NEW g
    PROVE  /\ RingSum(q, g) = RingSum(Tail(q), g)
                 + (IF Head(q).kind = "send" /\ Head(q).gen = g THEN Units(Head(q)) ELSE 0)
           /\ RingSum(Tail(q), g) \in Nat
<1> DEFINE r == Tail(q)
           c == Head(q)
           m == Len(r)
           u == [i \in By(q, g) |-> Units(q[i])]
           v == [i \in By(r, g) |-> Units(r[i])]
           R == {i + 1 : i \in By(r, g)}
<1>1. /\ r \in Seq(Cmds) /\ m \in Nat /\ DOMAIN q = 1..m + 1 /\ DOMAIN r = 1..m /\ Len(q) = m + 1
      /\ \A i \in 1..m : r[i] = q[i + 1]
      /\ q[1] = c /\ c \in Cmds
  BY Shortened
<1>2. /\ IsFiniteSet(By(q, g)) /\ By(q, g) \subseteq 1..m + 1
      /\ \A i \in By(q, g) : u[i] \in Nat
      /\ RingSum(q, g) = SumFunctionOnSet(u, By(q, g)) /\ RingSum(q, g) \in Nat
  BY <1>1, RingSumIs
<1>3. /\ IsFiniteSet(By(r, g)) /\ By(r, g) \subseteq 1..m
      /\ \A i \in By(r, g) : v[i] \in Nat
      /\ RingSum(r, g) = SumFunctionOnSet(v, By(r, g)) /\ RingSum(r, g) \in Nat
  BY <1>1, RingSumIs
<1> SUFFICES /\ RingSum(q, g) = RingSum(r, g) + (IF c.kind = "send" /\ c.gen = g THEN Units(c) ELSE 0)
             /\ RingSum(r, g) \in Nat
  OBVIOUS
<1> HIDE DEF r, c
<1>4. \A i \in 1..m : i \in By(r, g) <=> i + 1 \in By(q, g)
  <2>1. \A i \in 1..m : i + 1 \in 1..m + 1
    BY <1>1
  <2> QED BY <1>1, <2>1 DEF By
<1>5. By(q, g) \ {1} = R
  <2>1. \A i \in By(q, g) : i # 1 => i - 1 \in 1..m /\ i = (i - 1) + 1
    BY <1>1, <1>2
  <2>2. \A i \in By(r, g) : i \in 1..m /\ i + 1 # 1
    BY <1>1, <1>3
  <2> HIDE DEF m
  <2>3. \A i \in By(q, g) : i # 1 => i \in R
    BY <1>4, <2>1
  <2>4. \A i \in R : i \in By(q, g) /\ i # 1
    BY <1>4, <2>2
  <2> QED BY <2>3, <2>4
<1>6. \A i \in By(r, g) : v[i] \in Nat /\ u[i + 1] = v[i]
  <2>1. \A i \in By(r, g) : i + 1 \in By(q, g) /\ r[i] = q[i + 1]
    BY <1>1, <1>3, <1>4
  <2> QED BY <1>3, <2>1
<1>7. By(r, g) \in SUBSET Nat
  BY <1>1, <1>3
<1>8. 1 \in By(q, g) <=> c.kind = "send" /\ c.gen = g
  BY <1>1 DEF By
<1>9. 1 \in By(q, g) => u[1] = Units(c) /\ u[1] \in Nat
  BY <1>1, <1>2
<1> HIDE DEF u, v, m
<1>10. SumFunctionOnSet(u, R) = SumFunctionOnSet(v, By(r, g))
  BY <1>3, <1>6, <1>7, SumShift
<1> HIDE DEF R
<1>11. CASE 1 \in By(q, g)
  <2>1. SumFunctionOnSet(u, By(q, g)) = u[1] + SumFunctionOnSet(u, By(q, g) \ {1})
    BY <1>2, <1>11, SumRemove
  <2>2. RingSum(q, g) = u[1] + RingSum(r, g)
    BY <1>2, <1>3, <1>5, <1>10, <2>1
  <2> QED BY <1>3, <1>8, <1>9, <1>11, <2>2
<1>12. CASE 1 \notin By(q, g)
  <2>1. By(q, g) \ {1} = By(q, g)
    BY <1>12
  <2>2. RingSum(q, g) = RingSum(r, g)
    BY <1>2, <1>3, <1>5, <1>10, <2>1
  <2> QED BY <1>3, <1>8, <1>12, <2>2
<1> QED BY <1>11, <1>12

-------------------------------------------------------------------------------
(* The driver's steps.                                                           *)

LEMMA EvFields ==
    ASSUME NEW e \in Evs
    PROVE  /\ e.kind \in {"accept", "closed", "data"} /\ e.fd \in Fd
           /\ e.kind = "accept" => e.gen \in Gen
           /\ e.kind = "data" => e.unit \in Gen \X Nat
BY DEF Evs

\* Where a pushed event goes.
Pushed(e) ==
    \/ rx' = Append(rx, e) /\ late' = late /\ Len(rx) < RxCap
    \/ rx' = rx /\ late' = Append(late, e) /\ Len(late) < RxCap
    \/ rx' = rx /\ late' = late /\ Lost

\* push_rx keeps the rings' bounds, and puts the event in one of them or loses both.
LEMMA PushStep ==
    ASSUME InwardTypes, NEW e \in Evs, PushRx(e)
    PROVE  InwardTypes' /\ Pushed(e) /\ (Lost => rx' = rx /\ late' = late)
<1>1. /\ rx \in Seq(Evs) /\ late \in Seq(Evs) /\ Len(rx) \in Nat /\ Len(late) \in Nat
      /\ Len(rx) <= RxCap /\ Len(late) <= RxCap /\ RxCap \in Nat
  BY LenProperties, BridgeConstants DEF InwardTypes
<1>2. Pushed(e) /\ (Lost => rx' = rx /\ late' = late)
  BY <1>1 DEF PushRx, Pushed, Lost
<1>3. /\ Append(rx, e) \in Seq(Evs) /\ Len(Append(rx, e)) = Len(rx) + 1
      /\ Append(late, e) \in Seq(Evs) /\ Len(Append(late, e)) = Len(late) + 1
  BY <1>1, Appended
<1>4. rx' \in Seq(Evs) /\ Len(rx') <= RxCap /\ late' \in Seq(Evs) /\ Len(late') <= RxCap
  <2>1. CASE rx' = Append(rx, e) /\ late' = late /\ Len(rx) < RxCap
    BY <1>1, <1>3, <2>1
  <2>2. CASE rx' = rx /\ late' = Append(late, e) /\ Len(late) < RxCap
    BY <1>1, <1>3, <2>2
  <2>3. CASE rx' = rx /\ late' = late
    BY <1>1, <2>3
  <2> QED BY <1>2, <2>1, <2>2, <2>3 DEF Pushed
<1>5. overrun' \in BOOLEAN
  BY DEF PushRx, InwardTypes
<1> QED BY <1>2, <1>4, <1>5 DEF InwardTypes

\* Accepts on their way stay due, and one more is none of them.
DueNext(e) ==
    e.kind = "accept" =>
        /\ e.gen <= accepts' /\ task'[e.gen] = "none"
        /\ \A f \in Fd : owner'[f] = e.gen => f = e.fd

\* An event pushed for an accept nobody has heard of yet is the only one of its kind.
LEMMA AnnouncedPush ==
    ASSUME InwardTypes, Announced, NEW e \in Evs, Pushed(e), DueNext(e) \/ Lost,
           \A d \in Evs : Due(d) => DueNext(d) /\ ~SameAccept(d, e) /\ ~SameAccept(e, d)
    PROVE  Announced'
<1>1. /\ rx \in Seq(Evs) /\ late \in Seq(Evs) /\ Len(rx) \in Nat /\ Len(late) \in Nat
      /\ DOMAIN rx = 1..Len(rx) /\ DOMAIN late = 1..Len(late)
      /\ \A i \in 1..Len(rx) : rx[i] \in Evs
      /\ \A i \in 1..Len(late) : late[i] \in Evs
      /\ Len(rx) <= RxCap /\ Len(late) <= RxCap
  BY LenProperties, ElementOfSeq DEF InwardTypes
<1>2. /\ \A i \in DOMAIN rx : DueNext(rx[i]) /\ ~SameAccept(rx[i], e) /\ ~SameAccept(e, rx[i])
      /\ \A i \in DOMAIN late : DueNext(late[i]) /\ ~SameAccept(late[i], e) /\ ~SameAccept(e, late[i])
  BY <1>1 DEF Announced
<1>3. SUFFICES
        /\ \A i \in DOMAIN rx' : DueNext(rx'[i])
        /\ \A i \in DOMAIN late' : DueNext(late'[i])
        /\ \A i, j \in DOMAIN rx' : SameAccept(rx'[i], rx'[j]) => i = j
        /\ \A i, j \in DOMAIN late' : SameAccept(late'[i], late'[j]) => i = j
        /\ \A i \in DOMAIN rx', j \in DOMAIN late' : ~SameAccept(rx'[i], late'[j])
  BY DEF Announced, DueNext, Due, SameAccept
<1>4. CASE rx' = rx /\ late' = late
  BY <1>2, <1>4 DEF Announced
<1>5. CASE rx' = Append(rx, e) /\ late' = late /\ Len(rx) < RxCap
  <2>1. /\ DOMAIN rx' = 1..Len(rx) + 1 /\ rx'[Len(rx) + 1] = e
        /\ \A i \in 1..Len(rx) : rx'[i] = rx[i]
    BY <1>1, <1>5, Appended
  <2>2. \A i \in DOMAIN rx' : i \in DOMAIN rx \/ i = Len(rx) + 1
    BY <1>1, <2>1
  <2>3. \A i \in DOMAIN rx : rx'[i] = rx[i]
    BY <1>1, <2>1
  <2>4. DueNext(e)
    BY <1>1, <1>5 DEF Lost
  <2> QED BY <1>2, <1>5, <2>1, <2>2, <2>3, <2>4 DEF Announced
<1>6. CASE rx' = rx /\ late' = Append(late, e) /\ Len(late) < RxCap
  <2>1. /\ DOMAIN late' = 1..Len(late) + 1 /\ late'[Len(late) + 1] = e
        /\ \A i \in 1..Len(late) : late'[i] = late[i]
    BY <1>1, <1>6, Appended
  <2>2. \A i \in DOMAIN late' : i \in DOMAIN late \/ i = Len(late) + 1
    BY <1>1, <2>1
  <2>3. \A i \in DOMAIN late : late'[i] = late[i]
    BY <1>1, <2>1
  <2>4. DueNext(e)
    BY <1>1, <1>6 DEF Lost
  <2> QED BY <1>2, <1>6, <2>1, <2>2, <2>3, <2>4 DEF Announced
<1> QED BY <1>4, <1>5, <1>6 DEF Pushed

\* No event, or one that announces nobody.
LEMMA AnnouncedKept ==
    ASSUME Announced, rx' = rx, late' = late, accepts' = accepts, task' = task,
           \A f \in Fd : owner'[f] = owner[f]
    PROVE  Announced'
BY DEF Announced, Due, SameAccept

\* Descriptors are free or have a generation.
LEMMA OwnerGen ==
    ASSUME SocketTypes
    PROVE  \A f \in Fd : owner[f] \in 0..MaxPeers /\ owner[f] \in Nat /\ (owner[f] # 0 => owner[f] \in Gen)
<1>1. \A f \in Fd : owner[f] \in 0..MaxPeers
  BY DEF SocketTypes
<1> QED BY <1>1, BridgeConstants DEF Gen

LEMMA UnchangedTokio ==
    UNCHANGED tokio => /\ conns' = conns /\ inbox' = inbox /\ task' = task /\ fdOf' = fdOf
                       /\ writes' = writes /\ heard' = heard
BY DEF tokio

\* close_fd empties the socket, its backlog and its counter at once; nobody else's.
LEMMA CloseFdKeeps ==
    ASSUME DriverInv, TokioTypes, UNCHANGED tokio, NEW f \in Fd, NEW n \in Int, CloseFd(f, n),
           owner[f] # 0 /\ task[owner[f]] = "none" => n = 0
    PROVE  /\ DriverInv'
           /\ accepts' = accepts
           /\ owner' = [owner EXCEPT ![f] = 0]
           /\ parked' = [parked EXCEPT ![f] = <<>>]
           /\ \A g \in Gen : g # owner[f] =>
                 owed'[g] = owed[g] /\ wire'[g] = wire[g] /\ taken'[g] = taken[g]
           /\ owner[f] # 0 => wire'[owner[f]] = <<>>
<1> DEFINE e == [kind |-> "closed", fd |-> f]
           g == owner[f]
<1>1. /\ owner \in [Fd -> 0..MaxPeers] /\ accepts \in 0..MaxPeers /\ MaxPeers \in Nat
      /\ parked \in [Fd -> Seq(Write)] /\ owed \in [Gen -> Int]
      /\ wire \in [Gen -> Seq(Gen \X Nat)] /\ taken \in [Gen -> Nat]
      /\ task \in [Gen -> TaskStates] /\ task' = task /\ fdOf' = fdOf /\ writes' = writes
      /\ inbox' = inbox /\ heard' = heard
      /\ g \in 0..MaxPeers /\ (g # 0 => g \in Gen)
  BY OwnerGen, UnchangedTokio, BridgeConstants DEF DriverInv, SocketTypes, OutwardTypes, TokioTypes
<1>2. e \in Evs /\ PushRx(e) /\ accepts' = accepts
  BY DEF Evs, CloseFd
<1>3. InwardTypes' /\ Pushed(e)
  BY <1>2, PushStep DEF DriverInv
<1>4. CASE g = 0
  <2>1. UNCHANGED <<owner, slots, parked, owed, wire, taken>>
    BY <1>4 DEF CloseFd, outward
  <2>2. parked[f] = <<>>
    <3>1. \A i \in DOMAIN parked[f] : parked[f][i] \in Write
      BY <1>1, ElementOfSeq, LenProperties
    <3>2. \A i \in DOMAIN parked[f] : parked[f][i].gen # 0
      BY <3>1, UnitsNat, BridgeConstants
    <3>3. \A i \in DOMAIN parked[f] : parked[f][i].gen = owner[f]
      BY DEF DriverInv, Backed
    <3> QED BY <1>1, <1>4, <3>2, <3>3, Shortened
  <2>3. owner' = [owner EXCEPT ![f] = 0] /\ parked' = [parked EXCEPT ![f] = <<>>]
    BY <1>1, <1>4, <2>1, <2>2
  <2>4. Announced'
    BY <1>1, <1>2, <1>3, <2>1, AnnouncedPush DEF DriverInv, Due, DueNext, SameAccept
  <2>5. SocketTypes' /\ OutwardTypes' /\ Owned' /\ Backed' /\ Begun'
    BY <1>1, <1>2, <2>1 DEF DriverInv, SocketTypes, OpenFds, OutwardTypes, Owned, Backed, Begun
  <2> QED BY <1>2, <1>3, <1>4, <2>1, <2>3, <2>4, <2>5 DEF DriverInv
<1>5. CASE g # 0
  <2>1. /\ owner' = [owner EXCEPT ![f] = 0] /\ slots' = slots - 1
        /\ parked' = [parked EXCEPT ![f] = <<>>] /\ Repay(g, n)
        /\ wire' = [wire EXCEPT ![g] = <<>>] /\ taken' = [taken EXCEPT ![g] = 0]
    BY <1>5 DEF CloseFd
  <2>2. owed' \in [Gen -> Int] /\ \A h \in Gen : h # g => owed'[h] = owed[h]
    <3>1. CASE task[g] = "ended"
      BY <1>1, <2>1, <3>1 DEF Repay
    <3>2. CASE task[g] # "ended"
      <4>1. owed' = [owed EXCEPT ![g] = owed[g] - n] /\ owed[g] - n \in Int
        BY <1>1, <1>5, <2>1, <3>2 DEF Repay
      <4> HIDE DEF g
      <4> QED BY <1>1, <1>5, <4>1
    <3> QED BY <3>1, <3>2
  <2>3. OutwardTypes'
    <3>1. <<>> \in Seq(Write) /\ <<>> \in Seq(Gen \X Nat)
      OBVIOUS
    <3>2. parked' \in [Fd -> Seq(Write)] /\ wire' \in [Gen -> Seq(Gen \X Nat)] /\ taken' \in [Gen -> Nat]
      BY <1>1, <2>1, <3>1
    <3> QED BY <2>2, <3>2 DEF OutwardTypes
  <2>4. SocketTypes'
    <3>1. owner' \in [Fd -> 0..MaxPeers]
      BY <1>1, <2>1
    <3>2. OpenFds' = OpenFds \ {f} /\ f \in OpenFds
      BY <1>1, <1>5, <2>1 DEF OpenFds
    <3>3. IsFiniteSet(OpenFds)
      BY FS_Subset, BridgeConstants DEF OpenFds
    <3>4. Cardinality(OpenFds') = Cardinality(OpenFds) - 1 /\ Cardinality(OpenFds) \in Nat
      BY <3>2, <3>3, FS_RemoveElement, FS_CardinalityType
    <3>5. slots' = Cardinality(OpenFds') /\ slots' <= MaxSlots
      BY <2>1, <3>4, BridgeConstants DEF DriverInv, SocketTypes
    <3> QED BY <1>1, <1>2, <3>1, <3>5 DEF SocketTypes, OpenFds
  <2>5. Owned'
    BY <1>1, <1>2, <2>1 DEF DriverInv, Owned
  <2>6. Backed'
    <3>1. parked'[f] = <<>> /\ \A d \in Fd : d # f => parked'[d] = parked[d] /\ owner'[d] = owner[d]
      BY <1>1, <2>1
    <3>2. \A i \in DOMAIN <<>> : FALSE
      OBVIOUS
    <3>3. \A d \in Fd : d # f => \A i \in DOMAIN parked'[d] :
             parked'[d][i].fd = d /\ parked'[d][i].gen = owner'[d] /\ task'[owner'[d]] # "none"
      BY <1>1, <3>1 DEF DriverInv, Backed
    <3> QED BY <3>1, <3>2, <3>3 DEF Backed
  <2>7. Begun'
    <3>1. \A h \in Gen : task[h] = "none" => owed'[h] = owed[h] /\ (wire[h] = <<>> => wire'[h] = <<>>)
      <4>1. task[g] = "none" => owed'[g] = owed[g]
        <5>1. task[g] = "none" => owed' = [owed EXCEPT ![g] = owed[g] - 0]
          BY <1>5, <2>1 DEF Repay
        <5> HIDE DEF g
        <5> QED BY <1>1, <1>5, <5>1
      <4>2. wire'[g] = <<>> /\ \A h \in Gen : h # g => wire'[h] = wire[h]
        BY <1>1, <1>5, <2>1
      <4> HIDE DEF g
      <4> QED BY <2>2, <4>1, <4>2
    <3>2. \A d \in Fd : owner'[d] # 0 => owner'[d] = owner[d]
      BY <1>1, <2>1
    <3>3. \A d \in Fd, h \in Gen : owner'[d] = h => owner[d] = h
      BY <3>2, BridgeConstants
    <3>4. Begun
      BY DEF DriverInv
    <3> HIDE DEF g
    <3>5. ASSUME NEW h \in Gen, task[h] = "none"
          PROVE  owed'[h] = 0 /\ writes'[h] = 0 /\ wire'[h] = <<>> /\ inbox'[h] = <<>> /\ heard'[h] = <<>>
      BY <1>1, <3>1, <3>4, <3>5 DEF Begun
    <3>6. ASSUME NEW h \in Gen, task[h] # "none"
          PROVE  h <= accepts' /\ fdOf'[h] \in Fd /\ \A d \in Fd : owner'[d] = h => d = fdOf'[h]
      BY <1>1, <1>2, <3>3, <3>4, <3>6 DEF Begun
    <3> QED BY <1>1, <3>5, <3>6 DEF Begun
  <2>8. Announced'
    <3>1. \A d \in Fd : owner'[d] # 0 => owner'[d] = owner[d]
      BY <1>1, <2>1
    <3>2. \A d \in Evs : Due(d) => DueNext(d) /\ ~SameAccept(d, e) /\ ~SameAccept(e, d)
      BY <1>1, <1>2, <3>1, EvFields, BridgeConstants DEF Due, DueNext, SameAccept
    <3>3. DueNext(e)
      BY DEF DueNext
    <3> QED BY <1>2, <1>3, <3>2, <3>3, AnnouncedPush DEF DriverInv
  <2>9. wire'[g] = <<>> /\ \A h \in Gen : h # g => wire'[h] = wire[h] /\ taken'[h] = taken[h]
    BY <1>1, <1>5, <2>1
  <2> QED BY <1>2, <1>3, <2>1, <2>2, <2>3, <2>4, <2>5, <2>6, <2>7, <2>8, <2>9 DEF DriverInv
<1> QED BY <1>4, <1>5

\* A step that pays for a connection, parks or writes for a fd, and no more.
LEMMA OutwardKeeps ==
    ASSUME DriverInv, TokioTypes, UNCHANGED <<sockets, inward, tokio, taken>>, OutwardTypes',
           NEW f \in Fd, NEW g \in Gen, task[g] # "none",
           \A h \in Gen \ {g} : owed'[h] = owed[h] /\ wire'[h] = wire[h],
           \A d \in Fd \ {f} : parked'[d] = parked[d],
           \A i \in DOMAIN parked'[f] :
               parked'[f][i].fd = f /\ parked'[f][i].gen = owner[f] /\ task[owner[f]] # "none"
    PROVE  DriverInv'
<1>1. /\ owner' = owner /\ accepts' = accepts /\ slots' = slots
      /\ rx' = rx /\ late' = late /\ overrun' = overrun
      /\ inbox' = inbox /\ task' = task /\ fdOf' = fdOf /\ writes' = writes /\ heard' = heard
  BY DEF sockets, inward, tokio
<1>2. SocketTypes' /\ Owned'
  BY <1>1 DEF DriverInv, SocketTypes, OpenFds, Owned
<1>3. InwardTypes'
  BY <1>1 DEF DriverInv, InwardTypes
<1>4. Backed'
  BY <1>1 DEF DriverInv, Backed
<1>5. Begun'
  <2>1. Begun
    BY DEF DriverInv
  <2>2. ASSUME NEW h \in Gen, task[h] = "none"
        PROVE  owed'[h] = 0 /\ writes'[h] = 0 /\ wire'[h] = <<>> /\ inbox'[h] = <<>> /\ heard'[h] = <<>>
    BY <1>1, <2>1, <2>2 DEF Begun
  <2>3. ASSUME NEW h \in Gen, task[h] # "none"
        PROVE  h <= accepts' /\ fdOf'[h] \in Fd /\ \A d \in Fd : owner'[d] = h => d = fdOf'[h]
    BY <1>1, <2>1, <2>3 DEF Begun
  <2> QED BY <1>1, <2>2, <2>3 DEF Begun
<1>6. Announced'
  BY <1>1, AnnouncedKept DEF DriverInv
<1> QED BY <1>2, <1>3, <1>4, <1>5, <1>6 DEF DriverInv

\* Bytes written or dropped are taken off the counter of a task that still reads it.
LEMMA RepayStep ==
    ASSUME OutwardTypes, NEW g \in Gen, NEW n \in Int, Repay(g, n)
    PROVE  /\ owed' \in [Gen -> Int]
           /\ \A h \in Gen \ {g} : owed'[h] = owed[h]
           /\ task[g] # "ended" => owed'[g] = owed[g] - n
<1>1. owed \in [Gen -> Int]
  BY DEF OutwardTypes
<1>2. CASE task[g] = "ended"
  BY <1>1, <1>2 DEF Repay
<1>3. CASE task[g] # "ended"
  <2>1. owed' = [owed EXCEPT ![g] = owed[g] - n] /\ owed[g] - n \in Int
    BY <1>1, <1>3 DEF Repay
  <2> QED BY <1>1, <2>1
<1> QED BY <1>2, <1>3

\* What ff_write takes goes behind what is on the wire, and on no other wire.
LEMMA PutStep ==
    ASSUME OutwardTypes, NEW p \in Write, owner[p.fd] = p.gen, NEW k \in Nat, PutOnWire(p, k)
    PROVE  /\ wire' \in [Gen -> Seq(Gen \X Nat)]
           /\ \A h \in Gen \ {p.gen} : wire'[h] = wire[h]
           /\ Len(wire[p.gen]) \in Nat /\ Len(wire'[p.gen]) = Len(wire[p.gen]) + k
           /\ \A i \in 1..Len(wire[p.gen]) : wire'[p.gen][i] = wire[p.gen][i]
           /\ \A i \in 1..k : wire'[p.gen][Len(wire[p.gen]) + i] = <<p.gen, p.from + i - 1>>
<1> DEFINE s == [i \in 1..k |-> <<p.gen, p.from + i - 1>>]
           w == wire[p.gen]
<1>1. wire \in [Gen -> Seq(Gen \X Nat)] /\ p.gen \in Gen /\ w \in Seq(Gen \X Nat)
      /\ p.from \in Nat /\ p.from >= 1
  BY UnitsNat DEF OutwardTypes
<1>2. \A i \in 1..k : <<p.gen, p.from + i - 1>> \in Gen \X Nat
  BY <1>1
<1>3. s \in Seq(Gen \X Nat) /\ Len(s) = k /\ \A i \in 1..k : s[i] = <<p.gen, p.from + i - 1>>
  <2>1. s \in [1..k -> Gen \X Nat]
    BY <1>2
  <2>2. s \in Seq(Gen \X Nat) /\ DOMAIN s = 1..k
    BY <2>1, SeqDef
  <2>3. Len(s) = k
    <3> HIDE DEF s
    <3> QED BY <2>2, LenProperties
  <2> QED BY <2>2, <2>3
<1>4. wire' = [wire EXCEPT ![p.gen] = w \o s]
  BY DEF PutOnWire
<1> HIDE DEF s
<1>5. /\ w \o s \in Seq(Gen \X Nat) /\ Len(w) \in Nat /\ Len(w \o s) = Len(w) + k
      /\ \A i \in 1..Len(w) + k : (w \o s)[i] = IF i <= Len(w) THEN w[i] ELSE s[i - Len(w)]
  <2>1. PICK D : D = Gen \X Nat
    OBVIOUS
  <2>2. PICK u \in Seq(D) : u = w
    BY <1>1, <2>1
  <2>3. PICK v \in Seq(D) : v = s
    BY <1>3, <2>1
  <2>4. /\ u \o v \in Seq(D) /\ Len(u \o v) = Len(u) + Len(v) /\ Len(u) \in Nat
        /\ \A i \in 1..Len(u) + Len(v) : (u \o v)[i] = IF i <= Len(u) THEN u[i] ELSE v[i - Len(u)]
    <3>1. Len(u) \in Nat
      BY <2>2, LenProperties
    <3> QED BY <3>1, ConcatProperties
  <2> QED BY <1>3, <2>1, <2>2, <2>3, <2>4
<1>6. /\ \A i \in 1..Len(w) : (w \o s)[i] = w[i]
      /\ \A i \in 1..k : (w \o s)[Len(w) + i] = <<p.gen, p.from + i - 1>>
  <2>1. \A i \in 1..Len(w) : (w \o s)[i] = w[i]
    BY <1>5
  <2>2. ASSUME NEW i \in 1..k PROVE (w \o s)[Len(w) + i] = s[i]
    <3>1. Len(w) + i \in 1..Len(w) + k /\ ~(Len(w) + i <= Len(w)) /\ (Len(w) + i) - Len(w) = i
      BY <1>5
    <3> QED BY <1>5, <3>1
  <2> QED BY <1>3, <2>1, <2>2
<1>7. wire'[p.gen] = w \o s /\ wire' \in [Gen -> Seq(Gen \X Nat)]
      /\ \A h \in Gen \ {p.gen} : wire'[h] = wire[h]
  <2> HIDE DEF w
  <2> QED BY <1>1, <1>4, <1>5
<1> QED BY <1>5, <1>6, <1>7

\* A write of which a part went out is a write that begins after that part.
LEMMA RestOf ==
    ASSUME NEW p \in Write, NEW k \in Nat, k < Units(p)
    PROVE  /\ Rest(p, k) \in Write /\ Rest(p, k).fd = p.fd /\ Rest(p, k).gen = p.gen
           /\ Rest(p, k).from = p.from + k /\ Rest(p, k).upto = p.upto
           /\ Units(Rest(p, k)) = Units(p) - k
<1>1. p \in [kind : {"send"}, fd : Fd, gen : Gen, from : Nat, upto : Nat]
      /\ 1 <= p.from /\ p.from <= p.upto
  BY DEF Write
<1>2. p.from + k \in Nat /\ 1 <= p.from + k /\ p.from + k <= p.upto
  BY <1>1 DEF Units
<1>3. Rest(p, k) = [p EXCEPT !.from = p.from + k]
  BY DEF Rest
<1>4. /\ Rest(p, k) \in [kind : {"send"}, fd : Fd, gen : Gen, from : Nat, upto : Nat]
      /\ Rest(p, k).fd = p.fd /\ Rest(p, k).gen = p.gen
      /\ Rest(p, k).from = p.from + k /\ Rest(p, k).upto = p.upto
  BY <1>1, <1>2, <1>3
<1> QED BY <1>1, <1>2, <1>4 DEF Write, Units

\* The step of a write that the fd is given from the ring, and has no backlog.
GivenNow(p, k) ==
    /\ PutOnWire(p, k) /\ Repay(p.gen, k)
    /\ IF k = Units(p) THEN UNCHANGED parked ELSE ParkFront(Rest(p, k))
    /\ UNCHANGED <<sockets, inward, taken>>

\* ...and of one at the head of the backlog.
GivenPart(f, p, k) ==
    /\ PutOnWire(p, k) /\ Repay(p.gen, k)
    /\ parked' = [parked EXCEPT ![f] = <<Rest(p, k)>> \o Tail(@)]
    /\ UNCHANGED <<sockets, inward, taken>>

LEMMA StaleKeeps ==
    ASSUME DriverInv, TokioTypes, UNCHANGED tokio, NEW p \in Write, task[p.gen] # "none",
           SendStale(p)
    PROVE  DriverInv'
<1>1. /\ OutwardTypes /\ p.gen \in Gen /\ p.fd \in Fd /\ Units(p) \in Int
      /\ Repay(p.gen, Units(p)) /\ UNCHANGED <<sockets, inward, parked, wire, taken>>
  BY UnitsNat DEF DriverInv, SendStale
<1>2. owed' \in [Gen -> Int] /\ \A h \in Gen \ {p.gen} : owed'[h] = owed[h]
  BY <1>1, RepayStep
<1>3. OutwardTypes'
  BY <1>1, <1>2 DEF OutwardTypes
<1>4. \A i \in DOMAIN parked'[p.fd] :
          /\ parked'[p.fd][i].fd = p.fd /\ parked'[p.fd][i].gen = owner[p.fd]
          /\ task[owner[p.fd]] # "none"
  BY <1>1 DEF DriverInv, Backed
<1> QED BY <1>1, <1>2, <1>3, <1>4, OutwardKeeps

LEMMA ParkKeeps ==
    ASSUME DriverInv, TokioTypes, UNCHANGED tokio, NEW p \in Write, task[p.gen] # "none",
           Current(p), Park(p), UNCHANGED <<owed, wire, sockets, inward, taken>>
    PROVE  /\ DriverInv'
           /\ parked'[p.fd] = Append(parked[p.fd], p)
           /\ \A d \in Fd \ {p.fd} : parked'[d] = parked[d]
<1>1. /\ parked \in [Fd -> Seq(Write)] /\ p.fd \in Fd /\ p.gen \in Gen /\ parked[p.fd] \in Seq(Write)
      /\ owner[p.fd] = p.gen
  BY UnitsNat DEF DriverInv, OutwardTypes, Current
<1>2. /\ Append(parked[p.fd], p) \in Seq(Write) /\ Len(parked[p.fd]) \in Nat
      /\ DOMAIN parked[p.fd] = 1..Len(parked[p.fd])
      /\ DOMAIN Append(parked[p.fd], p) = 1..Len(parked[p.fd]) + 1
      /\ \A i \in 1..Len(parked[p.fd]) : Append(parked[p.fd], p)[i] = parked[p.fd][i]
      /\ Append(parked[p.fd], p)[Len(parked[p.fd]) + 1] = p
  BY <1>1, Appended
<1>3. parked' = [parked EXCEPT ![p.fd] = Append(parked[p.fd], p)]
  BY DEF Park
<1>4. /\ parked' \in [Fd -> Seq(Write)] /\ parked'[p.fd] = Append(parked[p.fd], p)
      /\ \A d \in Fd \ {p.fd} : parked'[d] = parked[d]
  BY <1>1, <1>2, <1>3
<1>5. \A i \in DOMAIN parked'[p.fd] :
          /\ parked'[p.fd][i].fd = p.fd /\ parked'[p.fd][i].gen = owner[p.fd]
          /\ task[owner[p.fd]] # "none"
  <2>1. \A i \in 1..Len(parked[p.fd]) + 1 : i \in 1..Len(parked[p.fd]) \/ i = Len(parked[p.fd]) + 1
    BY <1>2
  <2>2. \A i \in DOMAIN parked[p.fd] :
            parked[p.fd][i].fd = p.fd /\ parked[p.fd][i].gen = owner[p.fd]
    BY <1>1 DEF DriverInv, Backed
  <2> QED BY <1>1, <1>2, <1>4, <2>1, <2>2
<1>6. OutwardTypes'
  BY <1>4 DEF DriverInv, OutwardTypes
<1> QED BY <1>1, <1>4, <1>5, <1>6, OutwardKeeps

LEMMA NowKeeps ==
    ASSUME DriverInv, TokioTypes, UNCHANGED tokio, NEW p \in Write, task[p.gen] # "none",
           Current(p), parked[p.fd] = <<>>, NEW k \in 0..Units(p), GivenNow(p, k)
    PROVE  /\ DriverInv'
           /\ parked'[p.fd] = IF k = Units(p) THEN <<>> ELSE <<Rest(p, k)>>
           /\ \A d \in Fd \ {p.fd} : parked'[d] = parked[d]
<1>1. /\ parked \in [Fd -> Seq(Write)] /\ p.fd \in Fd /\ p.gen \in Gen /\ OutwardTypes
      /\ owner[p.fd] = p.gen /\ k \in Nat /\ k \in Int /\ Units(p) \in Nat
  BY UnitsNat DEF DriverInv, OutwardTypes, Current
<1>2. /\ PutOnWire(p, k) /\ Repay(p.gen, k) /\ UNCHANGED <<sockets, inward, taken>>
  BY DEF GivenNow
<1>3. /\ parked' \in [Fd -> Seq(Write)] /\ \A d \in Fd \ {p.fd} : parked'[d] = parked[d]
      /\ parked'[p.fd] = IF k = Units(p) THEN <<>> ELSE <<Rest(p, k)>>
  <2>1. CASE k = Units(p)
    BY <1>1, <2>1 DEF GivenNow
  <2>2. CASE k # Units(p)
    <3>1. k < Units(p)
      BY <1>1, <2>2
    <3>2. Rest(p, k) \in Write /\ Rest(p, k).fd = p.fd
      BY <1>1, <3>1, RestOf
    <3>3. <<Rest(p, k)>> \o <<>> = <<Rest(p, k)>> /\ <<Rest(p, k)>> \in Seq(Write)
      <4>1. <<Rest(p, k)>> \in Seq(Write)
        BY <3>2
      <4> QED BY <4>1, ConcatEmptySeq
    <3>4. parked' = [parked EXCEPT ![p.fd] = <<Rest(p, k)>> \o parked[p.fd]]
      BY <2>2, <3>2 DEF GivenNow, ParkFront
    <3>5. parked' = [parked EXCEPT ![p.fd] = <<Rest(p, k)>>]
      BY <3>3, <3>4
    <3> QED BY <1>1, <2>2, <3>3, <3>5
  <2> QED BY <2>1, <2>2
<1>4. /\ owed' \in [Gen -> Int] /\ \A h \in Gen \ {p.gen} : owed'[h] = owed[h]
      /\ wire' \in [Gen -> Seq(Gen \X Nat)] /\ \A h \in Gen \ {p.gen} : wire'[h] = wire[h]
  BY <1>1, <1>2, RepayStep, PutStep
<1>5. OutwardTypes'
  BY <1>1, <1>2, <1>3, <1>4 DEF OutwardTypes
<1>6. \A i \in DOMAIN parked'[p.fd] :
          /\ parked'[p.fd][i].fd = p.fd /\ parked'[p.fd][i].gen = owner[p.fd]
          /\ task[owner[p.fd]] # "none"
  <2>1. CASE k = Units(p)
    BY <1>3, <2>1
  <2>2. CASE k # Units(p)
    <3>1. k < Units(p)
      BY <1>1, <2>2
    <3>2. Rest(p, k).fd = p.fd /\ Rest(p, k).gen = p.gen
      BY <1>1, <3>1, RestOf
    <3>3. parked'[p.fd] = <<Rest(p, k)>>
      BY <1>3, <2>2
    <3>4. \A i \in DOMAIN <<Rest(p, k)>> : <<Rest(p, k)>>[i] = Rest(p, k)
      OBVIOUS
    <3> QED BY <1>1, <3>2, <3>3, <3>4
  <2> QED BY <2>1, <2>2
<1> QED BY <1>1, <1>2, <1>3, <1>4, <1>5, <1>6, OutwardKeeps

LEMMA FlushAllKeeps ==
    ASSUME DriverInv, TokioTypes, UNCHANGED tokio, NEW f \in Fd, parked[f] # <<>>, FlushAll(f)
    PROVE  /\ DriverInv'
           /\ parked'[f] = Tail(parked[f])
           /\ \A d \in Fd \ {f} : parked'[d] = parked[d]
<1> DEFINE p == Head(parked[f])
           q == parked[f]
<1>1. /\ parked \in [Fd -> Seq(Write)] /\ q \in Seq(Write) /\ OutwardTypes
  BY DEF DriverInv, OutwardTypes
<1>2. /\ p \in Write /\ p = q[1] /\ 1 \in DOMAIN q /\ Tail(q) \in Seq(Write)
      /\ Len(q) \in Nat /\ DOMAIN q = 1..Len(q) /\ DOMAIN Tail(q) = 1..Len(q) - 1
      /\ \A i \in 1..Len(q) - 1 : Tail(q)[i] = q[i + 1]
  BY <1>1, Shortened
<1>3. p.fd = f /\ p.gen = owner[f] /\ task[owner[f]] # "none"
  BY <1>2 DEF DriverInv, Backed
<1>4. /\ p.gen \in Gen /\ Units(p) \in Nat /\ Units(p) \in Int
  BY <1>2, UnitsNat
<1>5. /\ PutOnWire(p, Units(p)) /\ Repay(p.gen, Units(p)) /\ UNCHANGED <<sockets, inward, taken>>
      /\ parked' = [parked EXCEPT ![f] = Tail(q)]
  BY DEF FlushAll
<1> HIDE DEF p
<1>6. /\ owed' \in [Gen -> Int] /\ \A h \in Gen \ {p.gen} : owed'[h] = owed[h]
      /\ wire' \in [Gen -> Seq(Gen \X Nat)] /\ \A h \in Gen \ {p.gen} : wire'[h] = wire[h]
  BY <1>1, <1>2, <1>3, <1>4, <1>5, RepayStep, PutStep
<1>7. /\ parked' \in [Fd -> Seq(Write)] /\ \A d \in Fd \ {f} : parked'[d] = parked[d]
      /\ parked'[f] = Tail(q)
  BY <1>1, <1>2, <1>5
<1>8. OutwardTypes'
  BY <1>1, <1>5, <1>6, <1>7 DEF OutwardTypes
<1>9. \A i \in DOMAIN parked'[f] :
          parked'[f][i].fd = f /\ parked'[f][i].gen = owner[f] /\ task[owner[f]] # "none"
  <2>1. \A i \in 1..Len(q) - 1 : i + 1 \in DOMAIN q
    BY <1>2
  <2>2. \A i \in DOMAIN q : q[i].fd = f /\ q[i].gen = owner[f] /\ task[owner[f]] # "none"
    BY DEF DriverInv, Backed
  <2> HIDE DEF q
  <2> QED BY <1>2, <1>7, <2>1, <2>2
<1>10. UNCHANGED <<sockets, inward, tokio, taken>> /\ task[p.gen] # "none"
  BY <1>3, <1>5
<1>11. DriverInv'
  BY <1>4, <1>6, <1>7, <1>8, <1>9, <1>10, OutwardKeeps
<1> QED BY <1>7, <1>11

LEMMA FlushPartKeeps ==
    ASSUME DriverInv, TokioTypes, UNCHANGED tokio, NEW f \in Fd, parked[f] # <<>>,
           NEW k \in Nat, k < Units(Head(parked[f])), GivenPart(f, Head(parked[f]), k)
    PROVE  /\ DriverInv'
           /\ parked'[f] = <<Rest(Head(parked[f]), k)>> \o Tail(parked[f])
           /\ \A d \in Fd \ {f} : parked'[d] = parked[d]
<1> DEFINE p == Head(parked[f])
           q == parked[f]
           r == Rest(p, k)
           s == <<r>> \o Tail(q)
<1>1. /\ parked \in [Fd -> Seq(Write)] /\ q \in Seq(Write) /\ OutwardTypes
  BY DEF DriverInv, OutwardTypes
<1>2. /\ p \in Write /\ p = q[1] /\ 1 \in DOMAIN q /\ Tail(q) \in Seq(Write)
      /\ Len(q) \in Nat /\ DOMAIN q = 1..Len(q) /\ Len(Tail(q)) = Len(q) - 1
      /\ \A i \in 1..Len(q) - 1 : Tail(q)[i] = q[i + 1]
  BY <1>1, Shortened
<1>3. p.fd = f /\ p.gen = owner[f] /\ task[owner[f]] # "none"
  BY <1>2 DEF DriverInv, Backed
<1>4. /\ p.gen \in Gen /\ Units(p) \in Nat /\ Units(p) \in Int /\ k \in Int
  BY <1>2, UnitsNat
<1>5. /\ PutOnWire(p, k) /\ Repay(p.gen, k) /\ UNCHANGED <<sockets, inward, taken>>
      /\ parked' = [parked EXCEPT ![f] = s]
  BY DEF GivenPart
<1>6. r \in Write /\ r.fd = p.fd /\ r.gen = p.gen
  <2> HIDE DEF p
  <2> QED BY <1>2, RestOf
<1> HIDE DEF r
<1>7. /\ s \in Seq(Write) /\ DOMAIN s = 1..Len(Tail(q)) + 1 /\ s[1] = r
      /\ \A i \in 1..Len(Tail(q)) : s[i + 1] = Tail(q)[i]
  BY <1>2, <1>6, Fronted
<1> HIDE DEF p
<1>8. /\ owed' \in [Gen -> Int] /\ \A h \in Gen \ {p.gen} : owed'[h] = owed[h]
      /\ wire' \in [Gen -> Seq(Gen \X Nat)] /\ \A h \in Gen \ {p.gen} : wire'[h] = wire[h]
  BY <1>1, <1>2, <1>3, <1>4, <1>5, RepayStep, PutStep
<1>9. /\ parked' \in [Fd -> Seq(Write)] /\ \A d \in Fd \ {f} : parked'[d] = parked[d]
      /\ parked'[f] = s
  <2> HIDE DEF s
  <2> QED BY <1>1, <1>5, <1>7
<1>10. OutwardTypes'
  BY <1>1, <1>5, <1>8, <1>9 DEF OutwardTypes
<1>11. \A i \in DOMAIN parked'[f] :
          parked'[f][i].fd = f /\ parked'[f][i].gen = owner[f] /\ task[owner[f]] # "none"
  <2>1. \A i \in 1..Len(Tail(q)) + 1 : i = 1 \/ (i - 1 \in 1..Len(Tail(q)) /\ i = (i - 1) + 1)
    BY <1>2
  <2>2. \A i \in DOMAIN q : q[i].fd = f /\ q[i].gen = owner[f]
    BY DEF DriverInv, Backed
  <2>3. \A i \in 1..Len(Tail(q)) : s[i + 1].fd = f /\ s[i + 1].gen = owner[f]
    <3>1. \A i \in 1..Len(q) - 1 : i + 1 \in DOMAIN q
      BY <1>2
    <3> HIDE DEF q, s
    <3> QED BY <1>2, <1>7, <2>2, <3>1
  <2> HIDE DEF q, s
  <2>4. \A i \in DOMAIN s : s[i].fd = f /\ s[i].gen = owner[f]
    <3>1. s[1].fd = f /\ s[1].gen = owner[f]
      BY <1>3, <1>6, <1>7
    <3>2. ASSUME NEW i \in DOMAIN s, i # 1 PROVE s[i].fd = f /\ s[i].gen = owner[f]
      <4>1. i - 1 \in 1..Len(Tail(q)) /\ i = (i - 1) + 1
        BY <1>7, <2>1, <3>2
      <4> QED BY <2>3, <4>1
    <3> QED BY <3>1, <3>2
  <2> QED BY <1>3, <1>9, <2>4
<1>12. UNCHANGED <<sockets, inward, tokio, taken>> /\ task[p.gen] # "none"
  BY <1>3, <1>5
<1>13. DriverInv'
  BY <1>4, <1>8, <1>9, <1>10, <1>11, <1>12, OutwardKeeps
<1> QED BY <1>9, <1>13 DEF r, p

\* Only an open fd has a backlog.
LEMMA OpenBacklog ==
    ASSUME SocketTypes, OutwardTypes, Backed, NEW f \in Fd, owner[f] = 0
    PROVE  parked[f] = <<>>
<1>1. parked[f] \in Seq(Write)
  BY DEF OutwardTypes
<1>2. SUFFICES ASSUME parked[f] # <<>> PROVE FALSE
  OBVIOUS
<1>3. 1 \in DOMAIN parked[f] /\ parked[f][1] \in Write
  BY <1>1, <1>2, Shortened
<1>4. parked[f][1].gen \in Gen /\ parked[f][1].gen = 0
  BY <1>3, UnitsNat DEF Backed
<1> QED BY <1>4, BridgeConstants

\* An accept gets a generation that no task, descriptor or event has had.
LEMMA AdmitKeeps ==
    ASSUME DriverInv, TokioTypes, UNCHANGED tokio, NEW f \in Fd, Admit(f)
    PROVE  /\ DriverInv'
           /\ accepts' = accepts + 1 /\ accepts' \in Gen /\ task[accepts'] = "none"
           /\ parked[f] = <<>> /\ owner[f] = 0
           /\ UNCHANGED owner \/ owner' = [owner EXCEPT ![f] = accepts']
           /\ ~Lost => owner' = [owner EXCEPT ![f] = accepts']
           /\ UNCHANGED <<parked, owed, wire, taken>>
           /\ PushRx([kind |-> "accept", fd |-> f, gen |-> accepts'])
<1> DEFINE g == accepts + 1
           e == [kind |-> "accept", fd |-> f, gen |-> g]
<1>1. /\ owner \in [Fd -> 0..MaxPeers] /\ accepts \in 0..MaxPeers /\ accepts \in Nat /\ MaxPeers \in Nat
      /\ \A d \in Fd : owner[d] \in Nat /\ owner[d] <= accepts
      /\ task \in [Gen -> TaskStates]
  BY OwnerGen, BridgeConstants DEF DriverInv, SocketTypes, Owned, TokioTypes
<1>2. /\ owner[f] = 0 /\ accepts < MaxPeers /\ slots < MaxSlots /\ accepts' = g /\ PushRx(e)
      /\ UNCHANGED <<outward, taken>>
      /\ IF Lost THEN UNCHANGED <<owner, slots>>
                 ELSE owner' = [owner EXCEPT ![f] = g] /\ slots' = slots + 1
  BY DEF Admit
<1>3. g \in Gen /\ g \in 0..MaxPeers /\ g # 0
  BY <1>1, <1>2 DEF Gen
<1>4. e \in Evs /\ InwardTypes' /\ Pushed(e)
  <2>1. e \in Evs
    BY <1>3 DEF Evs
  <2> QED BY <1>2, <2>1, PushStep DEF DriverInv
<1>5. /\ parked' = parked /\ owed' = owed /\ wire' = wire /\ taken' = taken
      /\ task' = task /\ fdOf' = fdOf /\ writes' = writes /\ inbox' = inbox /\ heard' = heard
  BY <1>2, UnchangedTokio DEF outward
<1>6. parked[f] = <<>>
  BY <1>2, OpenBacklog DEF DriverInv
<1>7. task[g] = "none"
  <2>1. task[g] # "none" => g <= accepts
    BY <1>3 DEF DriverInv, Begun
  <2> QED BY <1>1, <2>1
<1>8. \A d \in Fd : owner'[d] = owner[d] \/ (d = f /\ owner'[d] = g)
  BY <1>1, <1>2
<1>9. SocketTypes'
  <2>1. CASE Lost
    BY <1>1, <1>2, <1>3, <2>1 DEF DriverInv, SocketTypes, OpenFds
  <2>2. CASE ~Lost
    <3>1. owner' = [owner EXCEPT ![f] = g] /\ slots' = slots + 1 /\ owner' \in [Fd -> 0..MaxPeers]
      BY <1>1, <1>2, <1>3, <2>2
    <3>2. OpenFds' = OpenFds \cup {f} /\ f \notin OpenFds
      BY <1>1, <1>2, <1>3, <3>1 DEF OpenFds
    <3>3. IsFiniteSet(OpenFds)
      BY FS_Subset, BridgeConstants DEF OpenFds
    <3>4. Cardinality(OpenFds') = Cardinality(OpenFds) + 1 /\ Cardinality(OpenFds) \in Nat
      BY <3>2, <3>3, FS_AddElement, FS_CardinalityType
    <3>5. slots' = Cardinality(OpenFds') /\ slots' <= MaxSlots
      BY <1>2, <3>1, <3>4, BridgeConstants DEF DriverInv, SocketTypes
    <3> QED BY <1>2, <1>3, <3>1, <3>5 DEF SocketTypes, OpenFds
  <2> QED BY <2>1, <2>2
<1>10. OutwardTypes'
  BY <1>5 DEF DriverInv, OutwardTypes
<1>11. Owned'
  <2>1. Owned
    BY DEF DriverInv
  <2>2. \A d \in Fd : owner'[d] <= accepts'
    BY <1>1, <1>2, <1>8
  <2>3. ASSUME NEW d \in Fd, NEW c \in Fd, owner'[c] = owner'[d], owner'[d] # 0 PROVE c = d
    <3>1. \A b \in Fd : owner[b] # g
      BY <1>1
    <3> QED BY <1>8, <2>1, <2>3, <3>1 DEF Owned
  <2> QED BY <2>2, <2>3 DEF Owned
<1>12. Backed'
  <2>1. \A i \in DOMAIN <<>> : FALSE
    OBVIOUS
  <2>2. \A d \in Fd \ {f} : owner'[d] = owner[d]
    BY <1>8
  <2> QED BY <1>5, <1>6, <2>1, <2>2 DEF DriverInv, Backed
<1>13. Begun'
  <2>1. Begun
    BY DEF DriverInv
  <2>2. ASSUME NEW h \in Gen, task[h] = "none"
        PROVE  owed'[h] = 0 /\ writes'[h] = 0 /\ wire'[h] = <<>> /\ inbox'[h] = <<>> /\ heard'[h] = <<>>
    BY <1>5, <2>1, <2>2 DEF Begun
  <2>3. ASSUME NEW h \in Gen, task[h] # "none"
        PROVE  h <= accepts' /\ fdOf'[h] \in Fd /\ \A d \in Fd : owner'[d] = h => d = fdOf'[h]
    <3>1. h <= accepts /\ fdOf[h] \in Fd /\ \A d \in Fd : owner[d] = h => d = fdOf[h]
      BY <2>1, <2>3 DEF Begun
    <3>2. h # g /\ h \in Nat
      BY <1>7, <2>3, BridgeConstants
    <3>3. h <= accepts'
      BY <1>1, <1>2, <3>1, <3>2
    <3> QED BY <1>5, <1>8, <3>1, <3>2, <3>3
  <2> QED BY <1>5, <2>2, <2>3 DEF Begun
<1>14. Announced'
  <2>1. DueNext(e)
    BY <1>1, <1>2, <1>5, <1>7, <1>8 DEF DueNext
  <2>2. ASSUME NEW d \in Evs, Due(d)
        PROVE  DueNext(d) /\ ~SameAccept(d, e) /\ ~SameAccept(e, d)
    <3>1. CASE d.kind # "accept"
      BY <3>1 DEF DueNext, SameAccept
    <3>2. CASE d.kind = "accept"
      <4>1. /\ d.gen \in Nat /\ d.gen <= accepts /\ task[d.gen] = "none"
            /\ \A c \in Fd : owner[c] = d.gen => c = d.fd
        BY <2>2, <3>2, EvFields, BridgeConstants DEF Due
      <4>2. d.gen # g /\ d.gen <= g
        BY <1>1, <4>1
      <4> QED BY <1>2, <1>5, <1>8, <4>1, <4>2 DEF DueNext, SameAccept
    <3> QED BY <3>1, <3>2
  <2> HIDE DEF e
  <2> QED BY <1>4, <2>1, <2>2, AnnouncedPush DEF DriverInv
<1>15. DriverInv'
  BY <1>4, <1>9, <1>10, <1>11, <1>12, <1>13, <1>14 DEF DriverInv
<1> QED BY <1>2, <1>3, <1>5, <1>6, <1>7, <1>15

\* zc_read numbers what it takes after the last it took from the socket.
LEMMA ReceiveKeeps ==
    ASSUME DriverInv, TokioTypes, UNCHANGED tokio, NEW f \in Fd, Receive(f)
    PROVE  /\ DriverInv'
           /\ owner[f] \in Gen /\ UNCHANGED <<owner, accepts, slots, parked, owed, wire>>
           /\ taken[owner[f]] \in Nat /\ taken' = [taken EXCEPT ![owner[f]] = taken[owner[f]] + 1]
           /\ PushRx([kind |-> "data", fd |-> f, unit |-> <<owner[f], taken[owner[f]] + 1>>])
<1> DEFINE g == owner[f]
           e == [kind |-> "data", fd |-> f, unit |-> <<g, taken[g] + 1>>]
<1>1. /\ g \in Gen /\ taken \in [Gen -> Nat] /\ taken[g] \in Nat
  BY OwnerGen DEF DriverInv, OutwardTypes, Receive
<1>2. /\ owner' = owner /\ accepts' = accepts /\ slots' = slots
      /\ parked' = parked /\ owed' = owed /\ wire' = wire
      /\ taken' = [taken EXCEPT ![g] = taken[g] + 1] /\ PushRx(e)
      /\ task' = task /\ fdOf' = fdOf /\ writes' = writes /\ inbox' = inbox /\ heard' = heard
  BY UnchangedTokio DEF Receive, sockets, outward
<1>3. e \in Evs
  BY <1>1 DEF Evs
<1>4. InwardTypes' /\ Pushed(e)
  BY <1>2, <1>3, PushStep DEF DriverInv
<1>5. OutwardTypes'
  BY <1>1, <1>2 DEF DriverInv, OutwardTypes
<1>6. SocketTypes' /\ Owned' /\ Backed'
  BY <1>2 DEF DriverInv, SocketTypes, OpenFds, Owned, Backed
<1>7. Begun'
  BY <1>2 DEF DriverInv, Begun
<1>8. Announced'
  <2>1. DueNext(e) /\ \A d \in Evs : ~SameAccept(d, e) /\ ~SameAccept(e, d)
    BY DEF DueNext, SameAccept
  <2>2. \A d \in Evs : Due(d) => DueNext(d)
    BY <1>2 DEF Due, DueNext
  <2> HIDE DEF e
  <2> QED BY <1>3, <1>4, <2>1, <2>2, AnnouncedPush DEF DriverInv
<1>9. DriverInv'
  BY <1>4, <1>5, <1>6, <1>7, <1>8 DEF DriverInv
<1> QED BY <1>1, <1>2, <1>9

LEMMA SkipKeeps ==
    ASSUME DriverInv, UNCHANGED <<sockets, inward, outward, taken, tokio>>
    PROVE  DriverInv'
<1>1. /\ owner' = owner /\ accepts' = accepts /\ slots' = slots
      /\ rx' = rx /\ late' = late /\ overrun' = overrun
      /\ parked' = parked /\ owed' = owed /\ wire' = wire /\ taken' = taken
      /\ inbox' = inbox /\ task' = task /\ fdOf' = fdOf /\ writes' = writes /\ heard' = heard
  BY DEF sockets, inward, outward, tokio
<1>2. SocketTypes' /\ InwardTypes' /\ OutwardTypes'
  BY <1>1 DEF DriverInv, SocketTypes, OpenFds, InwardTypes, OutwardTypes
<1>3. Owned' /\ Backed'
  BY <1>1 DEF DriverInv, Owned, Backed
<1>4. Begun'
  BY <1>1 DEF DriverInv, Begun
<1>5. Announced'
  BY <1>1, AnnouncedKept DEF DriverInv
<1> QED BY <1>2, <1>3, <1>4, <1>5 DEF DriverInv

-------------------------------------------------------------------------------
(* What a step of the driver does to the sockets.                                *)

\* It closes a fd; the bytes it drops are none if the task has not begun.
Closes(f, n) == CloseFd(f, n) /\ (owner[f] # 0 /\ task[owner[f]] = "none" => n = 0)

NoEffect == UNCHANGED <<sockets, inward, outward, taken>>

OnCommand(c) ==
    \/ c \in Write /\ SendStale(c)
    \/ /\ c \in Write /\ Current(c) /\ parked[c.fd] # <<>>
       /\ Park(c) /\ UNCHANGED <<owed, wire, sockets, inward, taken>>
    \/ /\ c \in Write /\ Current(c) /\ parked[c.fd] = <<>>
       /\ \E k \in 0..Units(c) : GivenNow(c, k)
    \/ Current(c) /\ \E n \in Int : Closes(c.fd, n)
    \/ c.kind = "close" /\ NoEffect

OnEvent ==
    \/ \E f \in Fd : Admit(f)
    \/ NoEffect
    \/ \E f \in Fd : \E n \in Int : Closes(f, n)
    \/ \E f \in Fd : Receive(f)
    \/ \E f \in Fd : parked[f] # <<>> /\ FlushAll(f)
    \/ \E f \in Fd : parked[f] # <<>> /\ \E k \in 0..Units(Head(parked[f])) - 1 :
           GivenPart(f, Head(parked[f]), k)

\* The command at the head of the ring is of a task that has begun, and names its fd.
LEMMA HeadOfTx ==
    ASSUME Basic, tx # <<>>
    PROVE  /\ Head(tx) \in Cmds /\ Head(tx) = tx[1] /\ 1 \in DOMAIN tx
           /\ Head(tx).fd \in Fd /\ Head(tx).gen \in Gen
           /\ Head(tx).kind \in {"send", "close"} /\ (Head(tx).kind = "send" => Head(tx) \in Write)
           /\ task[Head(tx).gen] # "none" /\ Head(tx).fd = fdOf[Head(tx).gen]
           /\ tx \in Seq(Cmds) /\ Tail(tx) \in Seq(Cmds)
<1>1. tx \in Seq(Cmds)
  BY DEF Basic, RingTypes
<1>2. Head(tx) \in Cmds /\ Head(tx) = tx[1] /\ 1 \in DOMAIN tx /\ Tail(tx) \in Seq(Cmds)
  BY <1>1, Shortened
<1>3. task[tx[1].gen] # "none" /\ tx[1].fd = fdOf[tx[1].gen]
  BY <1>2 DEF Basic, Asked
<1> QED BY <1>1, <1>2, <1>3, CmdFields

LEMMA BacklogNat ==
    ASSUME OutwardTypes, NEW f \in Fd
    PROVE  parked[f] \in Seq(Write) /\ Total(parked[f]) \in Nat /\ Total(parked[f]) \in Int
<1>1. parked[f] \in Seq(Write)
  BY DEF OutwardTypes
<1>2. Total(parked[f]) \in Nat
  BY <1>1, TotalNat
<1>3. \A n \in Nat : n \in Int
  OBVIOUS
<1> QED BY <1>1, <1>2, <1>3

\* A step of drain_tx is one command of the ring, carried out.
LEMMA DrainEffect ==
    ASSUME Basic, Drain
    PROVE  /\ tx # <<>> /\ tx' = Tail(tx) /\ phase = "drain" /\ UNCHANGED <<loop, tokio, waker>>
           /\ OnCommand(Head(tx))
<1> DEFINE c == Head(tx)
<1>1. tx # <<>> /\ tx' = Tail(tx) /\ phase = "drain" /\ UNCHANGED <<loop, tokio, waker>>
  BY DEF Drain
<1>2. /\ c \in Cmds /\ c.fd \in Fd /\ c.gen \in Gen /\ task[c.gen] # "none"
      /\ c.kind \in {"send", "close"} /\ (c.kind = "send" => c \in Write)
  BY <1>1, HeadOfTx
<1>3. Total(parked[c.fd]) \in Int
  BY <1>2, BacklogNat DEF Basic, DriverInv
<1>4. \/ c.kind = "send" /\ (SendStale(c) \/ SendBehind(c) \/ SendNow(c) \/ SendFails(c))
      \/ c.kind = "close" /\ CloseAsked(c)
  BY DEF Drain
<1> HIDE DEF c
<1>5. ASSUME Current(c), NEW n \in Int, CloseFd(c.fd, n)
      PROVE  OnCommand(c)
  <2>1. owner[c.fd] = c.gen
    BY <1>5 DEF Current
  <2> QED BY <1>2, <1>5, <2>1 DEF OnCommand, Closes
<1>6. ASSUME c.kind = "send" PROVE OnCommand(c)
  <2>1. c \in Write /\ Units(c) \in Nat /\ Units(c) \in Int
    BY <1>2, <1>6, UnitsNat
  <2>2. CASE SendStale(c)
    BY <2>1, <2>2 DEF OnCommand
  <2>3. CASE SendBehind(c)
    <3>1. Current(c) /\ parked[c.fd] # <<>>
      BY <2>3 DEF SendBehind
    <3>2. CASE Fits(Units(c))
      BY <2>1, <2>3, <3>1, <3>2 DEF OnCommand, SendBehind
    <3>3. CASE ~Fits(Units(c))
      BY <1>3, <1>5, <2>3, <3>1, <3>3 DEF SendBehind
    <3> QED BY <3>2, <3>3
  <2>4. CASE SendNow(c)
    <3>1. Current(c) /\ parked[c.fd] = <<>>
      BY <2>4 DEF SendNow
    <3>2. PICK k \in 0..Units(c) :
             IF k < Units(c) /\ ~Fits(Units(c) - k)
             THEN CloseFd(c.fd, k)
             ELSE GivenNow(c, k)
      BY <2>4 DEF SendNow, GivenNow
    <3>3. CASE k < Units(c) /\ ~Fits(Units(c) - k)
      <4>1. k \in Int
        BY <2>1
      <4> QED BY <1>5, <3>1, <3>2, <3>3, <4>1
    <3>4. CASE ~(k < Units(c) /\ ~Fits(Units(c) - k))
      BY <2>1, <3>1, <3>2, <3>4 DEF OnCommand
    <3> QED BY <3>3, <3>4
  <2>5. CASE SendFails(c)
    BY <1>5, <2>1, <2>5 DEF SendFails
  <2> QED BY <1>4, <1>6, <2>2, <2>3, <2>4, <2>5
<1>7. ASSUME c.kind = "close" PROVE OnCommand(c)
  <2>1. CASE Current(c)
    BY <1>3, <1>4, <1>5, <1>7, <2>1 DEF CloseAsked
  <2>2. CASE ~Current(c)
    BY <1>4, <1>7, <2>2 DEF CloseAsked, OnCommand, NoEffect
  <2> QED BY <2>1, <2>2
<1>8. OnCommand(c)
  BY <1>2, <1>6, <1>7
<1> QED BY <1>1, <1>8 DEF c

LEMMA HeadOfBatch ==
    ASSUME LoopTypes, batch # <<>>
    PROVE  /\ Head(batch) \in Polled /\ Tail(batch) \in Seq(Polled)
           /\ Head(batch).filter \in {"read", "write", "accept"}
           /\ Head(batch).filter # "accept" => Head(batch).fd \in Fd
           /\ Head(batch).filter = "accept" => ~Head(batch).eof
           /\ Head(batch).eof \in BOOLEAN
<1>1. Head(batch) \in Polled /\ Tail(batch) \in Seq(Polled)
  BY HeadTailProperties DEF LoopTypes
<1> QED BY <1>1 DEF Polled

\* The bytes a closing socket drops are those of its backlog.
LEMMA NoBacklogYet ==
    ASSUME DriverInv, NEW f \in Fd
    PROVE  Closes(f, Total(parked[f])) <=> CloseFd(f, Total(parked[f]))
<1>1. SUFFICES ASSUME owner[f] # 0, task[owner[f]] = "none" PROVE Total(parked[f]) = 0
  BY DEF Closes
<1>2. parked[f] \in Seq(Write)
  BY DEF DriverInv, OutwardTypes
<1>3. \A i \in DOMAIN parked[f] : FALSE
  BY <1>1 DEF DriverInv, Backed
<1>4. parked[f] = <<>>
  BY <1>2, <1>3, Shortened
<1> QED BY <1>4, TotalEmpty

\* A step of driver_cb is one event of the batch, and it leaves tasks and TX ring alone.
LEMMA ServiceEffect ==
    ASSUME Basic, Service
    PROVE  /\ batch # <<>> /\ (batch' = batch \/ batch' = Tail(batch))
           /\ UNCHANGED <<phase, tokio, tx, waker>>
           /\ OnEvent
<1> DEFINE e == Head(batch)
           flushing == e.filter = "write" /\ ~e.eof /\ parked[e.fd] # <<>>
<1>1. batch # <<>> /\ UNCHANGED <<phase, tokio, tx, waker>>
  BY DEF Service
<1>2. /\ e.filter \in {"read", "write", "accept"}
      /\ e.filter # "accept" => e.fd \in Fd
      /\ e.filter = "accept" => ~e.eof
      /\ e.eof \in BOOLEAN
  BY <1>1, HeadOfBatch DEF Basic
<1>3. \/ e.filter = "accept" /\ UNCHANGED batch /\ \E f \in Fd : Admit(f)
      \/ /\ batch' = Tail(batch)
         /\ e.filter = "accept" \/ (e.filter = "write" /\ ~e.eof /\ ~flushing)
         /\ UNCHANGED <<sockets, inward, outward, taken>>
      \/ e.eof /\ batch' = Tail(batch)
           /\ CloseFd(e.fd, IF owner[e.fd] = 0 THEN 0 ELSE Total(parked[e.fd]))
      \/ e.filter = "read" /\ ~e.eof /\ batch' = Tail(batch) /\ ZcRead(e.fd)
      \/ flushing /\ ((UNCHANGED batch /\ FlushAll(e.fd)) \/ (batch' = Tail(batch) /\ FlushPart(e.fd)))
  BY DEF Service
<1> HIDE DEF e
<1>4. CASE e.filter = "accept" /\ UNCHANGED batch /\ \E f \in Fd : Admit(f)
  BY <1>1, <1>4 DEF OnEvent
<1>5. CASE batch' = Tail(batch) /\ UNCHANGED <<sockets, inward, outward, taken>>
  BY <1>1, <1>5 DEF OnEvent, NoEffect
<1>6. CASE e.eof /\ batch' = Tail(batch)
           /\ CloseFd(e.fd, IF owner[e.fd] = 0 THEN 0 ELSE Total(parked[e.fd]))
  <2>1. e.fd \in Fd
    BY <1>2, <1>6
  <2>2. Total(parked[e.fd]) \in Int
    BY <2>1, BacklogNat DEF Basic, DriverInv
  <2>3. \E n \in Int : Closes(e.fd, n)
    <3>1. CASE owner[e.fd] = 0
      BY <1>6, <3>1 DEF Closes
    <3>2. CASE owner[e.fd] # 0
      BY <1>6, <2>1, <2>2, <3>2, NoBacklogYet DEF Basic
    <3> QED BY <3>1, <3>2
  <2> QED BY <1>1, <1>6, <2>1, <2>3 DEF OnEvent
<1>7. CASE e.filter = "read" /\ ~e.eof /\ batch' = Tail(batch) /\ ZcRead(e.fd)
  <2>1. e.fd \in Fd
    BY <1>2, <1>7
  <2>2. Total(parked[e.fd]) \in Int
    BY <2>1, BacklogNat DEF Basic, DriverInv
  <2>3. CASE Receive(e.fd)
    BY <1>1, <1>7, <2>1, <2>3 DEF OnEvent
  <2>4. CASE CloseFd(e.fd, Total(parked[e.fd]))
    <3>1. Closes(e.fd, Total(parked[e.fd]))
      BY <2>1, <2>4, NoBacklogYet DEF Basic
    <3> QED BY <1>1, <1>7, <2>1, <2>2, <3>1 DEF OnEvent
  <2>5. CASE UNCHANGED <<sockets, inward, outward, taken>>
    BY <1>1, <1>7, <2>5 DEF OnEvent, NoEffect
  <2> QED BY <1>7, <2>3, <2>4, <2>5 DEF ZcRead
<1>8. CASE flushing /\ UNCHANGED batch /\ FlushAll(e.fd)
  BY <1>1, <1>2, <1>8 DEF OnEvent
<1>9. CASE flushing /\ batch' = Tail(batch) /\ FlushPart(e.fd)
  <2>1. e.fd \in Fd /\ parked[e.fd] # <<>>
    BY <1>2, <1>9
  <2>2. Total(parked[e.fd]) \in Int
    BY <2>1, BacklogNat DEF Basic, DriverInv
  <2>3. CASE CloseFd(e.fd, Total(parked[e.fd]))
    <3>1. Closes(e.fd, Total(parked[e.fd]))
      BY <2>1, <2>3, NoBacklogYet DEF Basic
    <3> QED BY <1>1, <1>9, <2>1, <2>2, <3>1 DEF OnEvent
  <2>4. CASE \E k \in 0..Units(Head(parked[e.fd])) - 1 : GivenPart(e.fd, Head(parked[e.fd]), k)
    BY <1>1, <1>9, <2>1, <2>4 DEF OnEvent
  <2> QED BY <1>9, <2>3, <2>4 DEF FlushPart, GivenPart
<1> QED BY <1>3, <1>4, <1>5, <1>6, <1>7, <1>8, <1>9

LEMMA ClosesKeeps ==
    ASSUME DriverInv, TokioTypes, UNCHANGED tokio, NEW f \in Fd, NEW n \in Int, Closes(f, n)
    PROVE  DriverInv'
BY CloseFdKeeps DEF Closes

LEMMA CommandKeeps ==
    ASSUME Basic, tx # <<>>, UNCHANGED tokio, OnCommand(Head(tx))
    PROVE  DriverInv'
<1> DEFINE c == Head(tx)
<1>1. DriverInv /\ TokioTypes /\ c.fd \in Fd /\ task[c.gen] # "none"
  BY HeadOfTx DEF Basic
<1> HIDE DEF c
<1>2. CASE c \in Write /\ SendStale(c)
  BY <1>1, <1>2, StaleKeeps
<1>3. CASE /\ c \in Write /\ Current(c) /\ parked[c.fd] # <<>>
           /\ Park(c) /\ UNCHANGED <<owed, wire, sockets, inward, taken>>
  BY <1>1, <1>3, ParkKeeps
<1>4. CASE /\ c \in Write /\ Current(c) /\ parked[c.fd] = <<>>
           /\ \E k \in 0..Units(c) : GivenNow(c, k)
  BY <1>1, <1>4, NowKeeps
<1>5. CASE Current(c) /\ \E n \in Int : Closes(c.fd, n)
  BY <1>1, <1>5, ClosesKeeps
<1>6. CASE c.kind = "close" /\ NoEffect
  BY <1>1, <1>6, SkipKeeps DEF NoEffect
<1> QED BY <1>2, <1>3, <1>4, <1>5, <1>6 DEF OnCommand, c

LEMMA EventKeeps ==
    ASSUME Basic, UNCHANGED tokio, OnEvent
    PROVE  DriverInv'
<1>1. DriverInv /\ TokioTypes
  BY DEF Basic
<1>2. CASE \E f \in Fd : Admit(f)
  BY <1>1, <1>2, AdmitKeeps
<1>3. CASE NoEffect
  BY <1>1, <1>3, SkipKeeps DEF NoEffect
<1>4. CASE \E f \in Fd : \E n \in Int : Closes(f, n)
  BY <1>1, <1>4, ClosesKeeps
<1>5. CASE \E f \in Fd : Receive(f)
  BY <1>1, <1>5, ReceiveKeeps
<1>6. CASE \E f \in Fd : parked[f] # <<>> /\ FlushAll(f)
  BY <1>1, <1>6, FlushAllKeeps
<1>7. CASE \E f \in Fd : parked[f] # <<>> /\ \E k \in 0..Units(Head(parked[f])) - 1 :
               GivenPart(f, Head(parked[f]), k)
  <2>1. PICK f \in Fd : parked[f] # <<>> /\ \E k \in 0..Units(Head(parked[f])) - 1 :
               GivenPart(f, Head(parked[f]), k)
    BY <1>7
  <2>2. PICK k \in 0..Units(Head(parked[f])) - 1 : GivenPart(f, Head(parked[f]), k)
    BY <2>1
  <2>3. Units(Head(parked[f])) \in Nat
    <3>1. parked[f] \in Seq(Write)
      BY <1>1 DEF DriverInv, OutwardTypes
    <3>2. Head(parked[f]) \in Write
      BY <2>1, <3>1, Shortened
    <3> QED BY <3>2, UnitsNat
  <2>4. k \in Nat /\ k < Units(Head(parked[f]))
    BY <2>2, <2>3
  <2> QED BY <1>1, <2>1, <2>2, <2>4, FlushPartKeeps
<1> QED BY <1>2, <1>3, <1>4, <1>5, <1>6, <1>7 DEF OnEvent

\* Tasks that go on are begun, and their commands asked, as before; one that asks
\* to close is done.
TasksGoOn ==
    /\ task' \in [Gen -> TaskStates] /\ fdOf' = fdOf
    /\ \A g \in Gen : task'[g] = "none" <=> task[g] = "none"
    /\ \A g \in Gen : task[g] \in {"shut", "ended"} => task'[g] \in {"shut", "ended"}

GoesOn ==
    /\ TasksGoOn
    /\ \A g \in Gen : task[g] = "none" => /\ owed'[g] = owed[g] /\ writes'[g] = writes[g]
                                          /\ inbox'[g] = inbox[g] /\ heard'[g] = heard[g]

LEMMA GoesOnKeeps ==
    ASSUME Basic, GoesOn, owed' \in [Gen -> Int],
           UNCHANGED <<sockets, inward, parked, wire, taken>>
    PROVE  DriverInv'
<1>1. /\ owner' = owner /\ accepts' = accepts /\ slots' = slots
      /\ rx' = rx /\ late' = late /\ overrun' = overrun
      /\ parked' = parked /\ wire' = wire /\ taken' = taken /\ fdOf' = fdOf
  BY DEF sockets, inward, GoesOn, TasksGoOn
<1>2. SocketTypes' /\ InwardTypes' /\ OutwardTypes'
  BY <1>1 DEF Basic, DriverInv, SocketTypes, OpenFds, InwardTypes, OutwardTypes
<1>3. Owned'
  BY <1>1 DEF Basic, DriverInv, Owned
<1>4. Backed'
  <2>1. ASSUME NEW f \in Fd, NEW i \in DOMAIN parked[f]
        PROVE  parked'[f][i].fd = f /\ parked'[f][i].gen = owner'[f] /\ task'[owner'[f]] # "none"
    <3>1. parked[f][i].fd = f /\ parked[f][i].gen = owner[f] /\ task[owner[f]] # "none"
      BY DEF Basic, DriverInv, Backed
    <3>2. owner[f] # 0
      <4>1. parked[f] # <<>>
        OBVIOUS
      <4> QED BY <4>1, OpenBacklog DEF Basic, DriverInv
    <3>3. owner[f] \in Gen
      BY <3>2, OwnerGen DEF Basic, DriverInv
    <3> QED BY <1>1, <3>1, <3>3 DEF GoesOn, TasksGoOn
  <2> QED BY <1>1, <2>1 DEF Backed
<1>5. Begun'
  <2>1. Begun
    BY DEF Basic, DriverInv
  <2>2. ASSUME NEW h \in Gen, task'[h] = "none"
        PROVE  owed'[h] = 0 /\ writes'[h] = 0 /\ wire'[h] = <<>> /\ inbox'[h] = <<>> /\ heard'[h] = <<>>
    BY <1>1, <2>1, <2>2 DEF Begun, GoesOn, TasksGoOn
  <2>3. ASSUME NEW h \in Gen, task'[h] # "none"
        PROVE  h <= accepts' /\ fdOf'[h] \in Fd /\ \A d \in Fd : owner'[d] = h => d = fdOf'[h]
    BY <1>1, <2>1, <2>3 DEF Begun, GoesOn, TasksGoOn
  <2> QED BY <2>2, <2>3 DEF Begun
<1>6. Announced'
  <2>1. ASSUME NEW e \in Evs, Due(e) PROVE DueNext(e)
    BY <1>1, <2>1, EvFields DEF Due, DueNext, GoesOn, TasksGoOn
  <2>2. \A q \in {rx, late} : \A i \in DOMAIN q : q[i] \in Evs
    BY ElementOfSeq, LenProperties DEF Basic, DriverInv, InwardTypes
  <2>3. /\ \A i \in DOMAIN rx : DueNext(rx[i])
        /\ \A i \in DOMAIN late : DueNext(late[i])
    BY <2>1, <2>2 DEF Basic, DriverInv, Announced
  <2>4. /\ \A i \in DOMAIN rx : Due(rx[i])'
        /\ \A i \in DOMAIN late : Due(late[i])'
    BY <1>1, <2>3 DEF Due, DueNext
  <2> QED BY <1>1, <2>4 DEF Basic, DriverInv, Announced, SameAccept
<1> QED BY <1>2, <1>3, <1>4, <1>5, <1>6 DEF DriverInv

\* A task once begun stays so, and once shut stays done: its commands remain its own.
LEMMA AskedKept ==
    ASSUME Basic, TasksGoOn, tx' = tx \/ (tx # <<>> /\ tx' = Tail(tx))
    PROVE  Asked'
<1>1. tx \in Seq(Cmds) /\ \A i \in DOMAIN tx : tx[i] \in Cmds
  BY ElementOfSeq, LenProperties DEF Basic, RingTypes
<1>2. ASSUME NEW c \in Cmds, task[c.gen] # "none", c.fd = fdOf[c.gen],
             c.kind = "close" => task[c.gen] \in {"shut", "ended"}
      PROVE  /\ task'[c.gen] # "none" /\ c.fd = fdOf'[c.gen]
             /\ c.kind = "close" => task'[c.gen] \in {"shut", "ended"}
  BY <1>2, CmdFields DEF TasksGoOn
<1>3. \A i \in DOMAIN tx :
          /\ task'[tx[i].gen] # "none" /\ tx[i].fd = fdOf'[tx[i].gen]
          /\ tx[i].kind = "close" => task'[tx[i].gen] \in {"shut", "ended"}
  BY <1>1, <1>2 DEF Basic, Asked
<1>4. CASE tx' = tx
  BY <1>3, <1>4 DEF Asked
<1>5. CASE tx # <<>> /\ tx' = Tail(tx)
  <2>1. /\ DOMAIN tx = 1..Len(tx) /\ DOMAIN Tail(tx) = 1..Len(tx) - 1 /\ Len(tx) \in Nat
        /\ \A i \in 1..Len(tx) - 1 : Tail(tx)[i] = tx[i + 1]
    BY <1>1, <1>5, Shortened
  <2>2. \A i \in 1..Len(tx) - 1 : i + 1 \in 1..Len(tx)
    BY <2>1
  <2>3. ASSUME NEW i \in DOMAIN tx'
        PROVE  /\ task'[tx'[i].gen] # "none" /\ tx'[i].fd = fdOf'[tx'[i].gen]
               /\ tx'[i].kind = "close" => task'[tx'[i].gen] \in {"shut", "ended"}
    <3>1. tx'[i] = tx[i + 1] /\ i + 1 \in DOMAIN tx
      BY <1>5, <2>1, <2>2
    <3> QED BY <1>3, <3>1
  <2> QED BY <2>3 DEF Asked
<1> QED BY <1>4, <1>5

LEMMA AskedMore ==
    ASSUME Basic, TasksGoOn, NEW c \in Cmds, tx' = Append(tx, c),
           task'[c.gen] # "none", c.fd = fdOf[c.gen],
           c.kind = "close" => task'[c.gen] \in {"shut", "ended"}
    PROVE  Asked'
<1>1. tx \in Seq(Cmds) /\ \A i \in DOMAIN tx : tx[i] \in Cmds
  BY ElementOfSeq, LenProperties DEF Basic, RingTypes
<1>2. ASSUME NEW d \in Cmds, task[d.gen] # "none", d.fd = fdOf[d.gen],
             d.kind = "close" => task[d.gen] \in {"shut", "ended"}
      PROVE  /\ task'[d.gen] # "none" /\ d.fd = fdOf'[d.gen]
             /\ d.kind = "close" => task'[d.gen] \in {"shut", "ended"}
  BY <1>2, CmdFields DEF TasksGoOn
<1>3. \A i \in DOMAIN tx :
          /\ task'[tx[i].gen] # "none" /\ tx[i].fd = fdOf'[tx[i].gen]
          /\ tx[i].kind = "close" => task'[tx[i].gen] \in {"shut", "ended"}
  BY <1>1, <1>2 DEF Basic, Asked
<1>4. /\ DOMAIN tx = 1..Len(tx) /\ Len(tx) \in Nat /\ DOMAIN Append(tx, c) = 1..Len(tx) + 1
      /\ \A i \in 1..Len(tx) : Append(tx, c)[i] = tx[i]
      /\ Append(tx, c)[Len(tx) + 1] = c
  BY <1>1, Appended
<1>5. \A i \in 1..Len(tx) + 1 : i \in 1..Len(tx) \/ i = Len(tx) + 1
  BY <1>4
<1>6. fdOf' = fdOf
  BY DEF TasksGoOn
<1> QED BY <1>3, <1>4, <1>5, <1>6 DEF Asked

-------------------------------------------------------------------------------
(* The other steps, and Basic.                                                   *)

LEMMA PolledFinite == IsFiniteSet(Polled)
<1> DEFINE A == {"read", "write", "accept"}
           P == (A \X (0..MaxFd)) \X BOOLEAN
           R == {Event(t[1][1], t[1][2], t[2]) : t \in P}
           F == [t \in P |-> Event(t[1][1], t[1][2], t[2])]
<1>1. IsFiniteSet(A)
  <2>1. IsFiniteSet({"read"})
    BY FS_Singleton
  <2>2. IsFiniteSet({"read"} \cup {"write"})
    BY <2>1, FS_AddElement
  <2>3. IsFiniteSet(({"read"} \cup {"write"}) \cup {"accept"})
    BY <2>2, FS_AddElement
  <2>4. A = ({"read"} \cup {"write"}) \cup {"accept"}
    OBVIOUS
  <2> QED BY <2>3, <2>4
<1>2. IsFiniteSet(BOOLEAN)
  <2>1. IsFiniteSet({TRUE})
    BY FS_Singleton
  <2>2. IsFiniteSet({TRUE} \cup {FALSE})
    BY <2>1, FS_AddElement
  <2>3. BOOLEAN = {TRUE} \cup {FALSE}
    OBVIOUS
  <2> QED BY <2>2, <2>3
<1>3. IsFiniteSet(0..MaxFd)
  BY FS_Interval, BridgeConstants
<1>4. IsFiniteSet(P)
  <2>1. IsFiniteSet(A \X (0..MaxFd))
    BY <1>1, <1>3, FS_Product
  <2> QED BY <1>2, <2>1, FS_Product
<1>5. F \in Surjection(P, R)
  BY DEF Surjection
<1>6. IsFiniteSet(R)
  <2> HIDE DEF F, P, R
  <2> QED BY <1>4, <1>5, FS_Surjection
<1>7. Polled \subseteq R
  <2>1. ASSUME NEW e \in Polled PROVE e \in R
    <3>1. /\ e \in [filter : {"read", "write", "accept"}, fd : 0..MaxFd, eof : BOOLEAN]
      BY DEF Polled
    <3>2. <<<<e.filter, e.fd>>, e.eof>> \in P
      BY <3>1
    <3>3. e = Event(e.filter, e.fd, e.eof)
      BY <3>1 DEF Event
    <3> QED BY <3>2, <3>3
  <2> QED BY <2>1
<1> QED BY <1>6, <1>7, FS_Subset

LEMMA BatchOf ==
    ASSUME NEW S \in SUBSET Polled, NEW b \in SetToSeqs(S)
    PROVE  b \in Seq(Polled)
<1>1. IsFiniteSet(S)
  BY PolledFinite, FS_Subset
<1>2. Cardinality(S) \in Nat
  BY <1>1, FS_CardinalityType
<1>3. b \in [1..Cardinality(S) -> S]
  BY DEF SetToSeqs
<1>4. b \in Seq(S)
  BY <1>2, <1>3, SeqDef
<1> QED BY <1>4, SeqMonotonic

LEMMA DrainKeeps ==
    ASSUME Basic, Drain
    PROVE  Basic'
<1>1. /\ tx # <<>> /\ tx' = Tail(tx) /\ phase = "drain" /\ UNCHANGED <<loop, tokio, waker>>
      /\ OnCommand(Head(tx))
  BY DrainEffect
<1>2. /\ conns' = conns /\ inbox' = inbox /\ task' = task /\ fdOf' = fdOf
      /\ writes' = writes /\ heard' = heard /\ phase' = phase /\ batch' = batch
  BY <1>1 DEF loop, tokio
<1>3. DriverInv'
  BY <1>1, CommandKeeps
<1>4. TokioTypes' /\ LoopTypes'
  BY <1>2 DEF Basic, TokioTypes, LoopTypes
<1>5. RingTypes'
  <2>1. tx \in Seq(Cmds) /\ Len(tx) <= TxCap
    BY DEF Basic, RingTypes
  <2>2. Tail(tx) \in Seq(Cmds) /\ Len(Tail(tx)) = Len(tx) - 1 /\ Len(tx) \in Nat
    BY <1>1, <2>1, Shortened
  <2> QED BY <1>1, <2>1, <2>2, BridgeConstants DEF Basic, RingTypes
<1>6. Asked'
  <2>1. TasksGoOn
    BY <1>2 DEF TasksGoOn, Basic, TokioTypes
  <2> QED BY <1>1, <2>1, AskedKept
<1> QED BY <1>3, <1>4, <1>5, <1>6 DEF Basic

LEMMA ServiceKeeps ==
    ASSUME Basic, Service
    PROVE  Basic'
<1>1. /\ batch # <<>> /\ (batch' = batch \/ batch' = Tail(batch))
      /\ UNCHANGED <<phase, tokio, tx, waker>>
      /\ OnEvent
  BY ServiceEffect
<1>2. /\ conns' = conns /\ inbox' = inbox /\ task' = task /\ fdOf' = fdOf
      /\ writes' = writes /\ heard' = heard
  BY <1>1 DEF tokio
<1>3. DriverInv'
  BY <1>1, EventKeeps
<1>4. TokioTypes' /\ RingTypes'
  BY <1>1, <1>2 DEF Basic, TokioTypes, RingTypes
<1>5. LoopTypes'
  <2>1. Tail(batch) \in Seq(Polled) /\ phase # "drain"
    BY <1>1, HeadOfBatch DEF Basic, LoopTypes
  <2> QED BY <1>1, <2>1 DEF Basic, LoopTypes
<1>6. Asked'
  BY <1>1, <1>2 DEF Basic, Asked
<1> QED BY <1>3, <1>4, <1>5, <1>6 DEF Basic

\* Steps that leave sockets, rings and tasks alone.
LEMMA LoopKeeps ==
    ASSUME Basic, UNCHANGED <<sockets, inward, outward, tokio, tx, waker, taken>>, LoopTypes'
    PROVE  Basic'
<1>1. DriverInv'
  BY SkipKeeps DEF Basic
<1>2. TokioTypes'
  BY DEF Basic, TokioTypes, tokio
<1>3. RingTypes'
  BY DEF Basic, RingTypes
<1>4. Asked'
  BY DEF Basic, Asked, tokio
<1> QED BY <1>1, <1>2, <1>3, <1>4 DEF Basic

LEMMA DrainedKeeps ==
    ASSUME Basic, Drained
    PROVE  Basic'
<1>1. {Event("write", f, FALSE) : f \in Backlogged} \in SUBSET Polled
  <2>1. \A f \in Backlogged : f \in Fd /\ f \in 0..MaxFd
    BY BridgeConstants DEF Backlogged
  <2>2. ASSUME NEW f \in Backlogged PROVE Event("write", f, FALSE) \in Polled
    <3>1. /\ Event("write", f, FALSE) \in [filter : {"read", "write", "accept"}, fd : 0..MaxFd, eof : BOOLEAN]
          /\ Event("write", f, FALSE).filter = "write" /\ Event("write", f, FALSE).fd = f
      BY <2>1 DEF Event
    <3> QED BY <2>1, <3>1 DEF Polled
  <2> QED BY <2>2
<1>2. batch' \in Seq(Polled) /\ phase' = "flush"
  BY <1>1, BatchOf DEF Drained
<1>3. LoopTypes'
  BY <1>2 DEF LoopTypes
<1> QED BY <1>3, LoopKeeps DEF Drained

LEMMA DeliverKeeps ==
    ASSUME Basic, Deliver
    PROVE  Basic'
<1>1. CASE late # <<>> /\ Len(rx) < RxCap
  <2>1. /\ rx' = Append(rx, Head(late)) /\ late' = Tail(late) /\ phase' = phase /\ overrun' = overrun
        /\ UNCHANGED <<sockets, outward, batch, tokio, tx, waker, taken>>
    BY <1>1 DEF Deliver
  <2>2. /\ rx \in Seq(Evs) /\ late \in Seq(Evs) /\ Len(rx) \in Nat /\ Len(late) \in Nat /\ Len(late) <= RxCap
        /\ overrun \in BOOLEAN
    BY LenProperties DEF Basic, DriverInv, InwardTypes
  <2>3. /\ Head(late) \in Evs /\ Head(late) = late[1] /\ 1 \in DOMAIN late
        /\ Tail(late) \in Seq(Evs) /\ Len(Tail(late)) = Len(late) - 1
        /\ DOMAIN late = 1..Len(late) /\ DOMAIN Tail(late) = 1..Len(late) - 1
        /\ \A i \in 1..Len(late) - 1 : Tail(late)[i] = late[i + 1]
    BY <1>1, <2>2, Shortened
  <2>4. /\ Append(rx, Head(late)) \in Seq(Evs) /\ Len(Append(rx, Head(late))) = Len(rx) + 1
        /\ DOMAIN rx = 1..Len(rx) /\ DOMAIN Append(rx, Head(late)) = 1..Len(rx) + 1
        /\ \A i \in 1..Len(rx) : Append(rx, Head(late))[i] = rx[i]
        /\ Append(rx, Head(late))[Len(rx) + 1] = Head(late)
    BY <2>2, <2>3, Appended
  <2>5. InwardTypes'
    BY <1>1, <2>1, <2>2, <2>3, <2>4, BridgeConstants DEF InwardTypes
  <2>6. /\ owner' = owner /\ accepts' = accepts /\ slots' = slots
        /\ parked' = parked /\ owed' = owed /\ wire' = wire /\ taken' = taken
        /\ conns' = conns /\ inbox' = inbox /\ task' = task /\ fdOf' = fdOf
        /\ writes' = writes /\ heard' = heard /\ batch' = batch /\ tx' = tx /\ waker' = waker
    BY <2>1 DEF sockets, outward, tokio
  <2>7. SocketTypes' /\ OutwardTypes' /\ Owned' /\ Backed' /\ Begun'
    BY <2>6 DEF Basic, DriverInv, SocketTypes, OpenFds, OutwardTypes, Owned, Backed, Begun
  <2>8. Announced'
    <3>1. /\ \A i \in 1..Len(rx) + 1 : i \in 1..Len(rx) \/ i = Len(rx) + 1
          /\ \A i \in 1..Len(late) - 1 : i + 1 \in DOMAIN late /\ i + 1 # 1
      BY <2>2, <2>3
    <3>2. /\ \A i \in DOMAIN rx' : (i \in DOMAIN rx /\ rx'[i] = rx[i]) \/ (i = Len(rx) + 1 /\ rx'[i] = late[1])
          /\ \A j \in DOMAIN late' : late'[j] = late[j + 1] /\ j + 1 \in DOMAIN late /\ j + 1 # 1
      BY <2>1, <2>3, <2>4, <3>1
    <3>3. /\ \A i \in DOMAIN rx : Due(rx[i])
          /\ \A i \in DOMAIN late : Due(late[i])
          /\ \A i, j \in DOMAIN rx : SameAccept(rx[i], rx[j]) => i = j
          /\ \A i, j \in DOMAIN late : SameAccept(late[i], late[j]) => i = j
          /\ \A i \in DOMAIN rx, j \in DOMAIN late : ~SameAccept(rx[i], late[j])
          /\ \A i \in DOMAIN rx, j \in DOMAIN late : ~SameAccept(late[j], rx[i])
      BY DEF Basic, DriverInv, Announced, SameAccept
    <3>4. \A e : Due(e) => DueNext(e)
      BY <2>6 DEF Due, DueNext
    <3>5. /\ \A i \in DOMAIN rx' : DueNext(rx'[i])
          /\ \A i \in DOMAIN late' : DueNext(late'[i])
      BY <2>3, <3>2, <3>3, <3>4
    <3>6. \A i, j \in DOMAIN rx' : SameAccept(rx'[i], rx'[j]) => i = j
      BY <2>3, <3>2, <3>3
    <3>7. \A i, j \in DOMAIN late' : SameAccept(late'[i], late'[j]) => i = j
      <4>1. ASSUME NEW i \in DOMAIN late', NEW j \in DOMAIN late', SameAccept(late'[i], late'[j])
            PROVE  i = j
        <5>1. i + 1 = j + 1
          BY <3>2, <3>3, <4>1
        <5>2. i \in Int /\ j \in Int
          BY <2>1, <2>3
        <5> QED BY <5>1, <5>2
      <4> QED BY <4>1
    <3>8. \A i \in DOMAIN rx', j \in DOMAIN late' : ~SameAccept(rx'[i], late'[j])
      BY <2>3, <3>2, <3>3
    <3>9. /\ \A i \in DOMAIN rx' : Due(rx[i])'
          /\ \A i \in DOMAIN late' : Due(late[i])'
      BY <3>5 DEF Due, DueNext
    <3> QED BY <3>6, <3>7, <3>8, <3>9 DEF Announced, SameAccept
  <2>9. TokioTypes' /\ LoopTypes' /\ RingTypes' /\ Asked'
    BY <2>1, <2>6 DEF Basic, TokioTypes, LoopTypes, RingTypes, Asked
  <2> QED BY <2>5, <2>7, <2>8, <2>9 DEF Basic, DriverInv
<1>2. CASE ~(late # <<>> /\ Len(rx) < RxCap)
  <2>1. phase' = "drain" /\ rx' = rx /\ late' = late /\ batch' = batch /\ batch = <<>>
        /\ UNCHANGED <<sockets, inward, outward, tokio, tx, waker, taken>>
    BY <1>2 DEF Deliver, inward
  <2>2. LoopTypes'
    BY <2>1 DEF Basic, LoopTypes
  <2> QED BY <2>1, <2>2, LoopKeeps
<1> QED BY <1>1, <1>2

\* Where kqueue's events go, and who is woken.
LEMMA PollStep ==
    ASSUME Basic, Poll
    PROVE  /\ GoesOn /\ UNCHANGED <<sockets, inward, outward, conns, inbox, fdOf, writes, heard, tx, taken>>
           /\ \A g \in Gen : /\ task'[g] = "ended" <=> task[g] = "ended"
                             /\ task'[g] = "counting" <=> task[g] = "counting"
           /\ waker' = 0 /\ phase' = "events" /\ batch' \in Seq(Polled)
<1>1. /\ waker' = 0 /\ phase' = "events"
      /\ task' = [g \in Gen |-> IF g = waker /\ task[g] = "parked" THEN "idle" ELSE task[g]]
      /\ UNCHANGED <<sockets, inward, outward, conns, inbox, fdOf, writes, heard, tx, taken>>
  BY DEF Poll
<1>2. task \in [Gen -> TaskStates]
  BY DEF Basic, TokioTypes
<1>3. /\ task' \in [Gen -> TaskStates]
      /\ \A g \in Gen : task'[g] = IF g = waker /\ task[g] = "parked" THEN "idle" ELSE task[g]
  BY <1>1, <1>2 DEF TaskStates
<1>4. GoesOn
  BY <1>1, <1>3 DEF GoesOn, TasksGoOn, outward
<1>5. batch' \in Seq(Polled)
  <2>1. PICK ended \in SUBSET {f \in Fd : owner[f] # 0} :
           batch' \in SetToSeqs(
               {Event("read", f, f \in ended) :
                    f \in {f \in Fd : owner[f] # 0 /\ (f \in ended \/ taken[owner[f]] < MaxChunks[owner[f]])}}
               \cup {Event("write", f, f \in ended) : f \in Backlogged}
               \cup {Event("accept", 0, FALSE) : n \in accepts + 1..MaxPeers})
    BY DEF Poll
  <2> DEFINE Ready == {f \in Fd : owner[f] # 0 /\ (f \in ended \/ taken[owner[f]] < MaxChunks[owner[f]])}
             A == {Event("read", f, f \in ended) : f \in Ready}
             B == {Event("write", f, f \in ended) : f \in Backlogged}
             C == {Event("accept", 0, FALSE) : n \in accepts + 1..MaxPeers}
  <2>2. ASSUME NEW f \in Fd, NEW eof \in BOOLEAN, NEW k \in {"read", "write"}
        PROVE  Event(k, f, eof) \in Polled
    <3>1. /\ Event(k, f, eof) \in [filter : {"read", "write", "accept"}, fd : 0..MaxFd, eof : BOOLEAN]
          /\ Event(k, f, eof).filter = k /\ Event(k, f, eof).fd = f
      BY BridgeConstants DEF Event
    <3> QED BY <3>1 DEF Polled
  <2>3. A \subseteq Polled
    <3>1. \A f \in Ready : f \in Fd /\ (f \in ended) \in BOOLEAN
      OBVIOUS
    <3> HIDE DEF Ready
    <3> QED BY <2>2, <3>1
  <2>4. B \subseteq Polled
    <3>1. \A f \in Backlogged : f \in Fd /\ (f \in ended) \in BOOLEAN
      BY DEF Backlogged
    <3> QED BY <2>2, <3>1
  <2>5. C \subseteq Polled
    <3>1. Event("accept", 0, FALSE) \in Polled
      BY BridgeConstants DEF Event, Polled
    <3> QED BY <3>1
  <2>6. A \cup B \cup C \in SUBSET Polled /\ batch' \in SetToSeqs(A \cup B \cup C)
    BY <2>1, <2>3, <2>4, <2>5
  <2> HIDE DEF A, B, C
  <2> QED BY <2>6, BatchOf
<1> QED BY <1>1, <1>3, <1>4, <1>5

\* Steps of tasks that go on, with the sockets as they are.
LEMMA TaskKeeps ==
    ASSUME Basic, GoesOn, owed' \in [Gen -> Int], TokioTypes', RingTypes', Asked', LoopTypes',
           UNCHANGED <<sockets, inward, parked, wire, taken>>
    PROVE  Basic'
BY GoesOnKeeps DEF Basic

LEMMA PollKeeps ==
    ASSUME Basic, Poll
    PROVE  Basic'
<1>1. /\ GoesOn /\ UNCHANGED <<sockets, inward, outward, conns, inbox, fdOf, writes, heard, tx, taken>>
      /\ waker' = 0 /\ phase' = "events" /\ batch' \in Seq(Polled)
  BY PollStep
<1>2. TokioTypes'
  BY <1>1 DEF Basic, TokioTypes, GoesOn, TasksGoOn
<1>3. RingTypes' /\ LoopTypes'
  BY <1>1, BridgeConstants DEF Basic, RingTypes, LoopTypes
<1>4. Asked'
  BY <1>1, AskedKept DEF GoesOn
<1>5. owed' \in [Gen -> Int]
  BY <1>1 DEF Basic, DriverInv, OutwardTypes, outward
<1> QED BY <1>1, <1>2, <1>3, <1>4, <1>5, TaskKeeps DEF outward

\* A task in one state goes to another.
LEMMA TaskOfStep ==
    ASSUME TokioTypes, NEW g \in Gen, NEW from \in TaskStates, NEW to \in TaskStates,
           TaskOf(g, from, to)
    PROVE  /\ task[g] = from /\ task' \in [Gen -> TaskStates] /\ task'[g] = to
           /\ \A h \in Gen \ {g} : task'[h] = task[h]
BY DEF TokioTypes, TaskOf

LEMMA ConnCmd ==
    ASSUME Basic, NEW g \in Gen, task[g] # "none"
    PROVE  /\ CloseCmd(g) \in Cmds /\ CloseCmd(g).kind = "close" /\ CloseCmd(g).gen = g
           /\ CloseCmd(g).fd = fdOf[g]
           /\ \A a, b \in Nat : 1 <= a /\ a <= b =>
                 [kind |-> "send", fd |-> fdOf[g], gen |-> g, from |-> a, upto |-> b] \in Write
<1>1. fdOf[g] \in Fd
  BY DEF Basic, DriverInv, Begun
<1> QED BY <1>1 DEF CloseCmd, Cmds, Write

LEMMA RingMore ==
    ASSUME Basic, NEW c \in Cmds, Room, tx' = Append(tx, c), waker' \in 0..MaxPeers
    PROVE  RingTypes'
<1>1. tx \in Seq(Cmds) /\ Len(tx) <= TxCap
  BY DEF Basic, RingTypes
<1>2. Append(tx, c) \in Seq(Cmds) /\ Len(Append(tx, c)) = Len(tx) + 1 /\ Len(tx) \in Nat
  BY <1>1, Appended
<1> QED BY <1>1, <1>2, BridgeConstants DEF RingTypes, Room

LEMMA HearKeeps ==
    ASSUME Basic, NEW g \in Gen, Hear(g)
    PROVE  Basic'
<1>1. /\ task[g] = "idle" /\ inbox[g] # <<>>
      /\ heard' = [heard EXCEPT ![g] = Append(heard[g], Head(inbox[g]))]
      /\ inbox' = [inbox EXCEPT ![g] = Tail(inbox[g])]
      /\ UNCHANGED <<sockets, inward, outward, loop, conns, task, fdOf, writes, tx, waker, taken>>
  BY DEF Hear
<1>2. /\ inbox \in [Gen -> Seq(Gen \X Nat)] /\ heard \in [Gen -> Seq(Gen \X Nat)]
      /\ inbox[g] \in Seq(Gen \X Nat) /\ heard[g] \in Seq(Gen \X Nat)
      /\ \A h \in Gen : Len(inbox[h]) <= InboxCap
  BY DEF Basic, TokioTypes
<1>3. /\ Head(inbox[g]) \in Gen \X Nat /\ Tail(inbox[g]) \in Seq(Gen \X Nat)
      /\ Len(Tail(inbox[g])) = Len(inbox[g]) - 1 /\ Len(inbox[g]) \in Nat
  BY <1>1, <1>2, Shortened
<1>4. Append(heard[g], Head(inbox[g])) \in Seq(Gen \X Nat)
  BY <1>2, <1>3, Appended
<1>5. /\ inbox' \in [Gen -> Seq(Gen \X Nat)] /\ heard' \in [Gen -> Seq(Gen \X Nat)]
      /\ \A h \in Gen \ {g} : inbox'[h] = inbox[h] /\ heard'[h] = heard[h]
      /\ inbox'[g] = Tail(inbox[g])
  BY <1>1, <1>2, <1>3, <1>4
<1>6. \A h \in Gen : Len(inbox'[h]) <= InboxCap
  <2>1. Len(inbox'[g]) <= InboxCap
    BY <1>2, <1>3, <1>5, BridgeConstants
  <2> QED BY <1>2, <1>5, <2>1
<1>7. TokioTypes'
  BY <1>1, <1>5, <1>6 DEF Basic, TokioTypes
<1>8. GoesOn
  BY <1>1, <1>5 DEF GoesOn, TasksGoOn, Basic, TokioTypes, outward
<1>9. RingTypes' /\ LoopTypes' /\ Asked'
  BY <1>1 DEF Basic, RingTypes, LoopTypes, Asked, loop
<1>10. owed' \in [Gen -> Int]
  BY <1>1 DEF Basic, DriverInv, OutwardTypes, outward
<1> QED BY <1>1, <1>7, <1>8, <1>9, <1>10, TaskKeeps DEF outward

LEMMA EnqueueStep ==
    ASSUME Basic, NEW g \in Gen, Enqueue(g)
    PROVE  /\ task[g] = "idle" /\ task' \in [Gen -> TaskStates] /\ task'[g] = "counting"
           /\ \A h \in Gen \ {g} : task'[h] = task[h]
           /\ Room /\ writes[g] \in Nat /\ writes' \in [Gen -> Nat] /\ writes'[g] = writes[g] + 1
           /\ \A h \in Gen \ {g} : writes'[h] = writes[h]
           /\ \E c \in Write : /\ tx' = Append(tx, c) /\ c.kind = "send" /\ c.gen = g /\ c.fd = fdOf[g]
                               /\ c.from = writes[g] * Size + 1 /\ c.upto = writes[g] * Size + Size
                               /\ Units(c) = Size
           /\ UNCHANGED <<sockets, inward, outward, loop, conns, inbox, fdOf, heard, waker, taken>>
<1>1. TaskOf(g, "idle", "counting")
  BY DEF Enqueue
<1>2. /\ task[g] = "idle" /\ task' \in [Gen -> TaskStates] /\ task'[g] = "counting"
      /\ \A h \in Gen \ {g} : task'[h] = task[h]
  BY <1>1, TaskOfStep DEF TaskStates, Basic
<1>3. writes \in [Gen -> Nat] /\ writes[g] \in Nat
  BY DEF Basic, TokioTypes
<1>4. Room /\ writes' = [writes EXCEPT ![g] = writes[g] + 1]
      /\ UNCHANGED <<sockets, inward, outward, loop, conns, inbox, fdOf, heard, waker, taken>>
  BY DEF Enqueue, CanWrite
<1> DEFINE c == [kind |-> "send", fd |-> fdOf[g], gen |-> g,
                 from |-> writes[g] * Size + 1, upto |-> (writes[g] + 1) * Size]
<1>5. tx' = Append(tx, c)
  BY DEF Enqueue
<1>6. writes[g] * Size \in Nat /\ (writes[g] + 1) * Size = writes[g] * Size + Size /\ Size \in Nat /\ Size >= 1
  BY <1>3, BridgeConstants
<1>7. PICK W \in Nat : W = writes[g] * Size
  BY <1>6
<1>8. /\ c.from = W + 1 /\ c.upto = W + Size /\ c.gen = g /\ c.fd = fdOf[g] /\ c.kind = "send"
      /\ c = [kind |-> "send", fd |-> fdOf[g], gen |-> g, from |-> W + 1, upto |-> W + Size]
  BY <1>6, <1>7
<1> HIDE DEF c
<1>9. c \in Write
  <2>1. W + 1 \in Nat /\ W + Size \in Nat /\ 1 <= W + 1 /\ W + 1 <= W + Size
    BY <1>6
  <2> QED BY <1>2, <1>8, <2>1, ConnCmd
<1>10. Units(c) = Size
  <2>1. (W + Size) - (W + 1) + 1 = Size
    BY <1>6
  <2> QED BY <1>8, <2>1 DEF Units
<1>11. /\ tx' = Append(tx, c) /\ c.kind = "send" /\ c.gen = g /\ c.fd = fdOf[g]
       /\ c.from = writes[g] * Size + 1 /\ c.upto = writes[g] * Size + Size
       /\ Units(c) = Size
  BY <1>5, <1>7, <1>8, <1>10
<1>12. writes' \in [Gen -> Nat] /\ writes'[g] = writes[g] + 1 /\ \A h \in Gen \ {g} : writes'[h] = writes[h]
  BY <1>3, <1>4
<1> QED BY <1>2, <1>3, <1>4, <1>9, <1>11, <1>12

LEMMA EnqueueKeeps ==
    ASSUME Basic, NEW g \in Gen, Enqueue(g)
    PROVE  Basic'
<1>1. /\ task[g] = "idle" /\ task' \in [Gen -> TaskStates] /\ task'[g] = "counting"
      /\ \A h \in Gen \ {g} : task'[h] = task[h]
      /\ Room /\ writes' \in [Gen -> Nat] /\ \A h \in Gen \ {g} : writes'[h] = writes[h]
      /\ UNCHANGED <<sockets, inward, outward, loop, conns, inbox, fdOf, heard, waker, taken>>
  BY EnqueueStep
<1>2. PICK c \in Write : tx' = Append(tx, c) /\ c.kind = "send" /\ c.gen = g /\ c.fd = fdOf[g]
  BY EnqueueStep
<1>3. c \in Cmds
  BY DEF Cmds
<1>4. GoesOn
  BY <1>1 DEF GoesOn, TasksGoOn, outward
<1>5. TokioTypes' /\ LoopTypes'
  BY <1>1 DEF Basic, TokioTypes, LoopTypes, loop
<1>6. RingTypes'
  BY <1>1, <1>2, <1>3, RingMore DEF Basic, RingTypes
<1>7. Asked'
  BY <1>1, <1>2, <1>3, <1>4, AskedMore DEF GoesOn
<1>8. owed' \in [Gen -> Int]
  BY <1>1 DEF Basic, DriverInv, OutwardTypes, outward
<1> QED BY <1>1, <1>4, <1>5, <1>6, <1>7, <1>8, TaskKeeps DEF outward

LEMMA CountKeeps ==
    ASSUME Basic, NEW g \in Gen, Count(g)
    PROVE  /\ Basic' /\ task[g] = "counting" /\ task'[g] = "idle"
           /\ \A h \in Gen \ {g} : task'[h] = task[h] /\ owed'[h] = owed[h]
           /\ owed'[g] = owed[g] + Size /\ owed[g] \in Int
           /\ UNCHANGED <<sockets, inward, parked, wire, loop, conns, inbox, fdOf, writes, heard, tx, waker, taken>>
<1>1. TaskOf(g, "counting", "idle") /\ owed' = [owed EXCEPT ![g] = owed[g] + Size]
      /\ UNCHANGED <<sockets, inward, parked, wire, loop, conns, inbox, fdOf, writes, heard, tx, waker, taken>>
  BY DEF Count
<1>2. /\ task[g] = "counting" /\ task' \in [Gen -> TaskStates] /\ task'[g] = "idle"
      /\ \A h \in Gen \ {g} : task'[h] = task[h]
  BY <1>1, TaskOfStep DEF TaskStates, Basic
<1>3. owed \in [Gen -> Int]
  BY DEF Basic, DriverInv, OutwardTypes
<1>4. owed' \in [Gen -> Int] /\ owed'[g] = owed[g] + Size /\ \A h \in Gen \ {g} : owed'[h] = owed[h]
  BY <1>1, <1>3, BridgeConstants
<1>5. GoesOn
  BY <1>1, <1>2, <1>4 DEF GoesOn, TasksGoOn
<1>6. TokioTypes' /\ LoopTypes' /\ RingTypes'
  BY <1>1, <1>2 DEF Basic, TokioTypes, LoopTypes, RingTypes, loop
<1>7. Asked'
  BY <1>1, <1>5, AskedKept DEF GoesOn
<1>8. Basic'
  BY <1>1, <1>4, <1>5, <1>6, <1>7, TaskKeeps
<1> QED BY <1>1, <1>2, <1>3, <1>4, <1>8

LEMMA PauseKeeps ==
    ASSUME Basic, NEW g \in Gen, Wait(g) \/ TimesOut(g)
    PROVE  /\ Basic' /\ task[g] \in {"idle", "parked"} /\ task'[g] \in {"idle", "parked"}
           /\ \A h \in Gen \ {g} : task'[h] = task[h]
           /\ UNCHANGED <<sockets, inward, outward, loop, conns, inbox, fdOf, writes, heard, tx, taken>>
<1>1. /\ TaskOf(g, "idle", "parked") \/ TaskOf(g, "parked", "idle")
      /\ waker' \in {g, 0, waker}
      /\ UNCHANGED <<sockets, inward, outward, loop, conns, inbox, fdOf, writes, heard, tx, taken>>
  BY DEF Wait, TimesOut
<1>2. /\ task[g] \in {"idle", "parked"} /\ task'[g] \in {"idle", "parked"}
      /\ task' \in [Gen -> TaskStates] /\ \A h \in Gen \ {g} : task'[h] = task[h]
  BY <1>1, TaskOfStep DEF TaskStates, Basic
<1>3. GoesOn
  BY <1>1, <1>2 DEF GoesOn, TasksGoOn, outward
<1>4. TokioTypes' /\ LoopTypes' /\ RingTypes'
  <2>1. waker' \in 0..MaxPeers
    BY <1>1, BridgeConstants DEF Basic, RingTypes
  <2>2. tx' = tx /\ phase' = phase /\ batch' = batch /\ conns' = conns /\ inbox' = inbox /\ fdOf' = fdOf
        /\ writes' = writes /\ heard' = heard
    BY <1>1 DEF loop
  <2> QED BY <1>2, <2>1, <2>2 DEF Basic, TokioTypes, LoopTypes, RingTypes
<1>5. Asked'
  BY <1>1, <1>3, AskedKept DEF GoesOn
<1>6. owed' \in [Gen -> Int]
  BY <1>1 DEF Basic, DriverInv, OutwardTypes, outward
<1>7. Basic'
  BY <1>1, <1>3, <1>4, <1>5, <1>6, TaskKeeps DEF outward
<1> QED BY <1>1, <1>2, <1>7

LEMMA ShutdownKeeps ==
    ASSUME Basic, NEW g \in Gen, Shutdown(g)
    PROVE  /\ Basic' /\ task[g] = "idle" /\ task'[g] = "shut"
           /\ \A h \in Gen \ {g} : task'[h] = task[h]
           /\ tx' = Append(tx, CloseCmd(g)) /\ CloseCmd(g) \in Cmds
           /\ UNCHANGED <<sockets, inward, outward, loop, conns, inbox, fdOf, writes, heard, waker, taken>>
<1>1. /\ TaskOf(g, "idle", "shut") /\ Room /\ tx' = Append(tx, CloseCmd(g))
      /\ UNCHANGED <<sockets, inward, outward, loop, conns, inbox, fdOf, writes, heard, waker, taken>>
  BY DEF Shutdown
<1>2. /\ task[g] = "idle" /\ task'[g] = "shut"
      /\ task' \in [Gen -> TaskStates] /\ \A h \in Gen \ {g} : task'[h] = task[h]
  BY <1>1, TaskOfStep DEF TaskStates, Basic
<1>3. GoesOn
  BY <1>1, <1>2 DEF GoesOn, TasksGoOn, outward
<1>4. TokioTypes' /\ LoopTypes'
  BY <1>1, <1>2 DEF Basic, TokioTypes, LoopTypes, loop
<1>5. /\ CloseCmd(g) \in Cmds /\ CloseCmd(g).kind = "close" /\ CloseCmd(g).gen = g
      /\ CloseCmd(g).fd = fdOf[g]
  BY <1>2, ConnCmd
<1>6. RingTypes'
  BY <1>1, <1>5, RingMore DEF Basic, RingTypes
<1>7. Asked'
  BY <1>1, <1>2, <1>3, <1>5, AskedMore DEF GoesOn
<1>8. owed' \in [Gen -> Int]
  BY <1>1 DEF Basic, DriverInv, OutwardTypes, outward
<1>9. Basic'
  BY <1>1, <1>3, <1>4, <1>6, <1>7, <1>8, TaskKeeps DEF outward
<1> QED BY <1>1, <1>2, <1>5, <1>9

LEMMA EndKeeps ==
    ASSUME Basic, NEW g \in Gen, End(g)
    PROVE  /\ Basic' /\ task[g] \in {"idle", "shut"} /\ task'[g] = "ended"
           /\ \A h \in Gen \ {g} : /\ task'[h] = task[h] /\ owed'[h] = owed[h]
                                   /\ writes'[h] = writes[h]
                                   /\ inbox'[h] = inbox[h] /\ heard'[h] = heard[h]
           /\ inbox'[g] = <<>> /\ heard'[g] = <<>>
           /\ tx' = tx \/ (tx' = Append(tx, CloseCmd(g)) /\ CloseCmd(g) \in Cmds)
           /\ UNCHANGED <<sockets, inward, parked, wire, loop, conns, fdOf, waker, taken>>
<1>1. /\ task[g] \in {"idle", "shut"} /\ task' = [task EXCEPT ![g] = "ended"]
      /\ tx' = IF Room THEN Append(tx, CloseCmd(g)) ELSE tx
      /\ inbox' = [inbox EXCEPT ![g] = <<>>] /\ writes' = [writes EXCEPT ![g] = 0]
      /\ heard' = [heard EXCEPT ![g] = <<>>] /\ owed' = [owed EXCEPT ![g] = 0]
      /\ UNCHANGED <<sockets, inward, parked, wire, loop, conns, fdOf, waker, taken>>
  BY DEF End
<1>2. /\ task \in [Gen -> TaskStates] /\ inbox \in [Gen -> Seq(Gen \X Nat)] /\ writes \in [Gen -> Nat]
      /\ heard \in [Gen -> Seq(Gen \X Nat)] /\ owed \in [Gen -> Int]
      /\ \A h \in Gen : Len(inbox[h]) <= InboxCap
  BY DEF Basic, DriverInv, OutwardTypes, TokioTypes
<1>3. /\ task' \in [Gen -> TaskStates] /\ task'[g] = "ended"
      /\ \A h \in Gen \ {g} : /\ task'[h] = task[h] /\ owed'[h] = owed[h]
                              /\ writes'[h] = writes[h]
                              /\ inbox'[h] = inbox[h] /\ heard'[h] = heard[h]
  BY <1>1, <1>2 DEF TaskStates
<1>4. /\ inbox' \in [Gen -> Seq(Gen \X Nat)] /\ writes' \in [Gen -> Nat]
      /\ heard' \in [Gen -> Seq(Gen \X Nat)] /\ owed' \in [Gen -> Int]
      /\ inbox'[g] = <<>> /\ heard'[g] = <<>>
  <2>1. <<>> \in Seq(Gen \X Nat)
    OBVIOUS
  <2> QED BY <1>1, <1>2, <2>1
<1>5. \A h \in Gen : Len(inbox'[h]) <= InboxCap
  <2>1. Len(<<>>) <= InboxCap
    BY EmptySeq, BridgeConstants
  <2> QED BY <1>2, <1>3, <1>4, <2>1
<1>6. GoesOn
  BY <1>1, <1>3 DEF GoesOn, TasksGoOn
<1>7. TokioTypes' /\ LoopTypes'
  BY <1>1, <1>3, <1>4, <1>5 DEF Basic, TokioTypes, LoopTypes, loop
<1>8. /\ CloseCmd(g) \in Cmds /\ CloseCmd(g).kind = "close" /\ CloseCmd(g).gen = g
      /\ CloseCmd(g).fd = fdOf[g]
  BY <1>1, ConnCmd
<1>9. RingTypes'
  <2>1. CASE Room
    BY <1>1, <1>8, <2>1, RingMore DEF Basic, RingTypes
  <2>2. CASE ~Room
    BY <1>1, <2>2 DEF Basic, RingTypes
  <2> QED BY <2>1, <2>2
<1>10. Asked'
  <2>1. CASE Room
    BY <1>1, <1>3, <1>6, <1>8, <2>1, AskedMore DEF GoesOn
  <2>2. CASE ~Room
    BY <1>1, <1>6, <2>2, AskedKept DEF GoesOn
  <2> QED BY <2>1, <2>2
<1>11. Basic'
  BY <1>1, <1>4, <1>6, <1>7, <1>9, <1>10, TaskKeeps
<1> QED BY <1>1, <1>3, <1>4, <1>8, <1>11

-------------------------------------------------------------------------------
(* bridge_worker, and the whole of Basic.                                        *)

\* The event at the head of the ring, and whose it is.
LEMMA HeadOfRx ==
    ASSUME Basic, rx # <<>>
    PROVE  /\ Head(rx) \in Evs /\ Head(rx) = rx[1] /\ 1 \in DOMAIN rx
           /\ Head(rx).fd \in Fd /\ Head(rx).kind \in {"accept", "closed", "data"}
           /\ Head(rx).kind = "accept" => Head(rx).gen \in Gen /\ Due(Head(rx))
           /\ Head(rx).kind = "data" => Head(rx).unit \in Gen \X Nat
           /\ rx \in Seq(Evs) /\ Tail(rx) \in Seq(Evs) /\ Len(Tail(rx)) = Len(rx) - 1
           /\ Len(rx) \in Nat /\ DOMAIN rx = 1..Len(rx) /\ DOMAIN Tail(rx) = 1..Len(rx) - 1
           /\ \A i \in 1..Len(rx) - 1 : Tail(rx)[i] = rx[i + 1] /\ i + 1 \in DOMAIN rx /\ i + 1 # 1
<1>1. rx \in Seq(Evs)
  BY DEF Basic, DriverInv, InwardTypes
<1>2. /\ Head(rx) \in Evs /\ Head(rx) = rx[1] /\ 1 \in DOMAIN rx
      /\ Tail(rx) \in Seq(Evs) /\ Len(Tail(rx)) = Len(rx) - 1
      /\ Len(rx) \in Nat /\ DOMAIN rx = 1..Len(rx) /\ DOMAIN Tail(rx) = 1..Len(rx) - 1
      /\ \A i \in 1..Len(rx) - 1 : Tail(rx)[i] = rx[i + 1]
  BY <1>1, Shortened
<1>3. \A i \in 1..Len(rx) - 1 : i + 1 \in DOMAIN rx /\ i + 1 # 1
  BY <1>2
<1>4. Due(rx[1])
  BY <1>2 DEF Basic, DriverInv, Announced
<1> QED BY <1>1, <1>2, <1>3, <1>4, EvFields

\* The event that is dispatched is announced no more.
LEMMA AnnouncedLess ==
    ASSUME Basic, rx # <<>>, rx' = Tail(rx), late' = late,
           \A d \in Evs : Due(d) /\ ~SameAccept(Head(rx), d) => DueNext(d)
    PROVE  Announced'
<1>1. /\ Head(rx) = rx[1] /\ 1 \in DOMAIN rx
      /\ DOMAIN rx = 1..Len(rx) /\ DOMAIN rx' = 1..Len(rx) - 1
      /\ \A i \in DOMAIN rx' : rx'[i] = rx[i + 1] /\ i + 1 \in DOMAIN rx /\ i + 1 # 1
      /\ \A i \in DOMAIN rx : rx[i] \in Evs
      /\ \A i \in DOMAIN late : late[i] \in Evs
  BY HeadOfRx, ElementOfSeq, LenProperties DEF Basic, DriverInv, InwardTypes
<1>2. /\ \A i \in DOMAIN rx : Due(rx[i])
      /\ \A i \in DOMAIN late : Due(late[i])
      /\ \A i, j \in DOMAIN rx : SameAccept(rx[i], rx[j]) => i = j
      /\ \A i, j \in DOMAIN late : SameAccept(late[i], late[j]) => i = j
      /\ \A i \in DOMAIN rx, j \in DOMAIN late : ~SameAccept(rx[i], late[j])
  BY DEF Basic, DriverInv, Announced
<1>3. \A i \in DOMAIN rx' : DueNext(rx'[i])
  <2>1. ASSUME NEW i \in DOMAIN rx' PROVE DueNext(rx'[i])
    <3>1. rx'[i] = rx[i + 1] /\ i + 1 \in DOMAIN rx /\ i + 1 # 1
      BY <1>1
    <3>2. ~SameAccept(rx[1], rx[i + 1]) /\ Due(rx[i + 1]) /\ rx[i + 1] \in Evs
      BY <1>1, <1>2, <3>1
    <3> QED BY <1>1, <3>1, <3>2
  <2> QED BY <2>1
<1>4. \A i \in DOMAIN late' : DueNext(late'[i])
  BY <1>1, <1>2
<1>5. \A i, j \in DOMAIN rx' : SameAccept(rx'[i], rx'[j]) => i = j
  <2>1. ASSUME NEW i \in DOMAIN rx', NEW j \in DOMAIN rx', SameAccept(rx'[i], rx'[j])
        PROVE  i = j
    <3>1. i + 1 = j + 1
      BY <1>1, <1>2, <2>1
    <3>2. i \in Int /\ j \in Int
      BY <1>1
    <3> QED BY <3>1, <3>2
  <2> QED BY <2>1
<1>6. \A i \in DOMAIN rx', j \in DOMAIN late' : ~SameAccept(rx'[i], late'[j])
  BY <1>1, <1>2
<1>7. /\ \A i \in DOMAIN rx' : Due(rx[i])'
      /\ \A i \in DOMAIN late' : Due(late[i])'
  BY <1>3, <1>4 DEF Due, DueNext
<1> QED BY <1>2, <1>5, <1>6, <1>7 DEF Announced, SameAccept

\* What an event does, by its kind.
Accepted(e) ==
    /\ e.kind = "accept"
    /\ conns' = [conns EXCEPT ![e.fd] = e.gen] /\ task' = [task EXCEPT ![e.gen] = "idle"]
    /\ fdOf' = [fdOf EXCEPT ![e.gen] = e.fd] /\ UNCHANGED inbox

Dropped(e) ==
    /\ e.kind \in {"closed", "data"}
    /\ e.kind = "data" => /\ conns[e.fd] # 0 /\ task[conns[e.fd]] # "ended"
                          /\ Len(inbox[conns[e.fd]]) = InboxCap
    /\ conns' = [conns EXCEPT ![e.fd] = 0] /\ UNCHANGED <<inbox, task, fdOf>>

Unheard(e) ==
    /\ e.kind = "data" /\ (conns[e.fd] = 0 \/ task[conns[e.fd]] = "ended")
    /\ UNCHANGED <<conns, inbox, task, fdOf>>

Passed(e) ==
    LET g == conns[e.fd] IN
    /\ e.kind = "data" /\ g # 0 /\ task[g] # "ended" /\ Len(inbox[g]) # InboxCap
    /\ inbox' = [inbox EXCEPT ![g] = Append(inbox[g], e.unit)]
    /\ UNCHANGED <<conns, task, fdOf>>

\* bridge_worker hands on the first event in one of four ways.
LEMMA DispatchStep ==
    ASSUME Dispatch
    PROVE  /\ rx # <<>> /\ rx' = Tail(rx)
           /\ UNCHANGED <<sockets, late, overrun, outward, loop, writes, heard, tx, waker, taken>>
           /\ Accepted(Head(rx)) \/ Dropped(Head(rx)) \/ Unheard(Head(rx)) \/ Passed(Head(rx))
<1> DEFINE e == Head(rx)
           g == conns[e.fd]
<1>1. /\ rx # <<>> /\ rx' = Tail(rx)
      /\ UNCHANGED <<sockets, late, overrun, outward, loop, writes, heard, tx, waker, taken>>
  BY DEF Dispatch
<1>2. SUFFICES Accepted(e) \/ Dropped(e) \/ Unheard(e) \/ Passed(e)
  BY <1>1
<1>3. \/ Accepted(e)
      \/ e.kind = "closed" /\ conns' = [conns EXCEPT ![e.fd] = 0] /\ UNCHANGED <<inbox, task, fdOf>>
      \/ /\ e.kind = "data"
         /\ IF g # 0 /\ task[g] # "ended" /\ Len(inbox[g]) = InboxCap
            THEN conns' = [conns EXCEPT ![e.fd] = 0] /\ UNCHANGED inbox
            ELSE /\ inbox' = IF g = 0 \/ task[g] = "ended" THEN inbox
                             ELSE [inbox EXCEPT ![g] = Append(@, e.unit)]
                 /\ UNCHANGED conns
         /\ UNCHANGED <<task, fdOf>>
  BY DEF Dispatch, Accepted
<1> HIDE DEF e
<1>4. ASSUME e.kind = "data", UNCHANGED <<task, fdOf>>,
             g # 0 /\ task[g] # "ended" /\ Len(inbox[g]) = InboxCap,
             conns' = [conns EXCEPT ![e.fd] = 0] /\ UNCHANGED inbox
      PROVE  Dropped(e)
  BY <1>4 DEF Dropped
<1>5. ASSUME e.kind = "data", UNCHANGED <<task, fdOf>>, UNCHANGED conns,
             g = 0 \/ task[g] = "ended", inbox' = inbox
      PROVE  Unheard(e)
  BY <1>5 DEF Unheard
<1>6. ASSUME e.kind = "data", UNCHANGED <<task, fdOf>>, UNCHANGED conns,
             g # 0, task[g] # "ended", Len(inbox[g]) # InboxCap,
             inbox' = [inbox EXCEPT ![g] = Append(@, e.unit)]
      PROVE  Passed(e)
  BY <1>6 DEF Passed
<1>7. ASSUME e.kind = "closed", conns' = [conns EXCEPT ![e.fd] = 0], UNCHANGED <<inbox, task, fdOf>>
      PROVE  Dropped(e)
  BY <1>7 DEF Dropped
<1> HIDE DEF g
<1> QED BY <1>3, <1>4, <1>5, <1>6, <1>7

LEMMA DispatchKeeps ==
    ASSUME Basic, Seats, Dispatch
    PROVE  Basic' /\ Seats'
<1> DEFINE e == Head(rx)
           g == conns[e.fd]
<1>1. /\ rx # <<>> /\ rx' = Tail(rx)
      /\ UNCHANGED <<sockets, late, overrun, outward, loop, writes, heard, tx, waker, taken>>
      /\ Accepted(e) \/ Dropped(e) \/ Unheard(e) \/ Passed(e)
  BY DispatchStep
<1>2. /\ e \in Evs /\ e.fd \in Fd /\ e.kind \in {"accept", "closed", "data"}
      /\ e.kind = "accept" => e.gen \in Gen /\ Due(e)
      /\ e.kind = "data" => e.unit \in Gen \X Nat
      /\ Tail(rx) \in Seq(Evs) /\ Len(Tail(rx)) = Len(rx) - 1 /\ Len(rx) \in Nat
  BY <1>1, HeadOfRx
<1>3. /\ owner' = owner /\ accepts' = accepts /\ slots' = slots /\ late' = late /\ overrun' = overrun
      /\ parked' = parked /\ owed' = owed /\ wire' = wire /\ taken' = taken
      /\ writes' = writes /\ heard' = heard /\ phase' = phase /\ batch' = batch /\ tx' = tx /\ waker' = waker
  BY <1>1 DEF sockets, outward, loop
<1>4. InwardTypes'
  BY <1>1, <1>2, <1>3, BridgeConstants DEF Basic, DriverInv, InwardTypes
<1>5. SocketTypes' /\ OutwardTypes' /\ Owned' /\ LoopTypes' /\ RingTypes'
  BY <1>3 DEF Basic, DriverInv, SocketTypes, OpenFds, OutwardTypes, Owned, LoopTypes, RingTypes
<1>6. /\ conns \in [Fd -> 0..MaxPeers] /\ inbox \in [Gen -> Seq(Gen \X Nat)]
      /\ \A h \in Gen : Len(inbox[h]) <= InboxCap
      /\ task \in [Gen -> TaskStates] /\ fdOf \in [Gen -> 0..MaxFd]
      /\ writes \in [Gen -> Nat] /\ heard \in [Gen -> Seq(Gen \X Nat)]
      /\ \A f \in Fd : conns[f] # 0 => conns[f] \in Gen
  <2>1. conns \in [Fd -> 0..MaxPeers]
    BY DEF Basic, TokioTypes
  <2>2. \A f \in Fd : conns[f] # 0 => conns[f] \in Gen
    BY <2>1, BridgeConstants DEF Gen
  <2> QED BY <2>2 DEF Basic, TokioTypes
<1>7. \A f \in Fd : \A i \in DOMAIN parked[f] : owner[f] \in Gen
  BY OpenBacklog, OwnerGen DEF Basic, DriverInv
<1>8. tx \in Seq(Cmds) /\ \A i \in DOMAIN tx : tx[i] \in Cmds /\ tx[i].gen \in Gen
  BY ElementOfSeq, LenProperties, CmdFields DEF Basic, RingTypes
<1> HIDE DEF e
<1>9. CASE Accepted(e)
  <2>1. /\ e.kind = "accept" /\ e.gen \in Gen /\ e.gen <= accepts /\ task[e.gen] = "none"
        /\ \A f \in Fd : owner[f] = e.gen => f = e.fd
    BY <1>2, <1>9 DEF Accepted, Due
  <2>2. /\ task' \in [Gen -> TaskStates] /\ task'[e.gen] = "idle"
        /\ \A h \in Gen \ {e.gen} : task'[h] = task[h]
        /\ fdOf' \in [Gen -> 0..MaxFd] /\ fdOf'[e.gen] = e.fd
        /\ \A h \in Gen \ {e.gen} : fdOf'[h] = fdOf[h]
        /\ inbox' = inbox
        /\ conns' \in [Fd -> 0..MaxPeers] /\ conns'[e.fd] = e.gen
        /\ \A f \in Fd \ {e.fd} : conns'[f] = conns[f]
    BY <1>2, <1>6, <1>9, <2>1, BridgeConstants DEF Accepted, TaskStates
  <2>3. TokioTypes'
    BY <1>3, <1>6, <2>2 DEF TokioTypes
  <2>4. Seats'
    <3>1. \A f \in Fd : conns[f] # e.gen
      BY <2>1, BridgeConstants DEF Seats
    <3>2. ASSUME NEW f \in Fd \ {e.fd}, conns'[f] # 0
          PROVE  task'[conns'[f]] # "none" /\ fdOf'[conns'[f]] = f
      <4>1. conns'[f] = conns[f] /\ conns[f] \in Gen /\ conns[f] # e.gen
        BY <1>6, <2>2, <3>1, <3>2
      <4>2. task[conns[f]] # "none" /\ fdOf[conns[f]] = f
        BY <3>2, <4>1 DEF Seats
      <4> QED BY <2>2, <4>1, <4>2
    <3>3. task'[conns'[e.fd]] # "none" /\ fdOf'[conns'[e.fd]] = e.fd
      BY <2>2
    <3> QED BY <3>2, <3>3 DEF Seats
  <2>5. Backed'
    <3>1. \A h \in Gen : task[h] # "none" => task'[h] # "none"
      BY <2>2
    <3> QED BY <1>3, <1>7, <3>1 DEF Basic, DriverInv, Backed
  <2>6. Begun'
    <3>1. Begun
      BY DEF Basic, DriverInv
    <3>2. ASSUME NEW h \in Gen, task'[h] = "none"
          PROVE  owed'[h] = 0 /\ writes'[h] = 0 /\ wire'[h] = <<>> /\ inbox'[h] = <<>> /\ heard'[h] = <<>>
      BY <1>3, <2>2, <3>1, <3>2 DEF Begun
    <3>3. ASSUME NEW h \in Gen, task'[h] # "none"
          PROVE  h <= accepts' /\ fdOf'[h] \in Fd /\ \A d \in Fd : owner'[d] = h => d = fdOf'[h]
      <4>1. CASE h = e.gen
        BY <1>2, <1>3, <2>1, <2>2, <4>1
      <4>2. CASE h # e.gen
        BY <1>3, <2>2, <3>1, <3>3, <4>2 DEF Begun
      <4> QED BY <4>1, <4>2
    <3> QED BY <3>2, <3>3 DEF Begun
  <2>7. Announced'
    <3>1. ASSUME NEW d \in Evs, Due(d), ~SameAccept(e, d) PROVE DueNext(d)
      <4>1. CASE d.kind # "accept"
        BY <4>1 DEF DueNext
      <4>2. CASE d.kind = "accept"
        <5>1. d.gen # e.gen /\ d.gen \in Gen
          BY <2>1, <3>1, <4>2, EvFields DEF SameAccept
        <5> QED BY <1>3, <2>2, <3>1, <4>2, <5>1 DEF Due, DueNext
      <4> QED BY <4>1, <4>2
    <3> QED BY <1>1, <1>3, <3>1, AnnouncedLess DEF e
  <2>8. Asked'
    <3>1. ASSUME NEW i \in DOMAIN tx
          PROVE  /\ task'[tx[i].gen] # "none" /\ tx[i].fd = fdOf'[tx[i].gen]
                 /\ tx[i].kind = "close" => task'[tx[i].gen] \in {"shut", "ended"}
      <4>1. /\ task[tx[i].gen] # "none" /\ tx[i].fd = fdOf[tx[i].gen]
            /\ tx[i].kind = "close" => task[tx[i].gen] \in {"shut", "ended"}
        BY DEF Basic, Asked
      <4>2. tx[i].gen \in Gen /\ tx[i].gen # e.gen
        BY <1>8, <2>1, <4>1
      <4> QED BY <2>2, <4>1, <4>2
    <3> QED BY <1>3, <3>1 DEF Asked
  <2> QED BY <1>4, <1>5, <2>3, <2>4, <2>5, <2>6, <2>7, <2>8 DEF Basic, DriverInv
<1>10. CASE Dropped(e) \/ Unheard(e) \/ Passed(e)
  <2>1. task' = task /\ fdOf' = fdOf
    BY <1>10 DEF Dropped, Unheard, Passed
  <2>2. /\ conns' \in [Fd -> 0..MaxPeers]
        /\ \A f \in Fd : conns'[f] = conns[f] \/ conns'[f] = 0
    <3>1. CASE Dropped(e)
      BY <1>2, <1>6, <3>1, BridgeConstants DEF Dropped
    <3>2. CASE conns' = conns
      BY <1>6, <3>2
    <3> QED BY <1>10, <3>1, <3>2 DEF Unheard, Passed
  <2>3. /\ inbox' \in [Gen -> Seq(Gen \X Nat)] /\ \A h \in Gen : Len(inbox'[h]) <= InboxCap
        /\ \A h \in Gen : task[h] = "none" => inbox'[h] = inbox[h]
    <3>1. CASE inbox' = inbox
      BY <1>6, <3>1
    <3>2. CASE Passed(e)
      <4>1. /\ g \in Gen /\ e.unit \in Gen \X Nat /\ inbox[g] \in Seq(Gen \X Nat)
            /\ Len(inbox[g]) # InboxCap /\ task[g] # "none"
            /\ inbox' = [inbox EXCEPT ![g] = Append(inbox[g], e.unit)]
        BY <1>2, <1>6, <3>2 DEF Passed, Seats
      <4>2. /\ Append(inbox[g], e.unit) \in Seq(Gen \X Nat)
            /\ Len(Append(inbox[g], e.unit)) = Len(inbox[g]) + 1 /\ Len(inbox[g]) \in Nat
        BY <4>1, Appended
      <4>3. Len(inbox[g]) <= InboxCap /\ InboxCap \in Nat
        BY <1>6, <4>1, BridgeConstants
      <4> HIDE DEF g
      <4>5. Len(Append(inbox[g], e.unit)) <= InboxCap
        BY <4>1, <4>2, <4>3
      <4>4. /\ inbox' \in [Gen -> Seq(Gen \X Nat)] /\ inbox'[g] = Append(inbox[g], e.unit)
            /\ \A h \in Gen \ {g} : inbox'[h] = inbox[h]
        BY <1>6, <4>1, <4>2
      <4> QED BY <1>6, <4>1, <4>4, <4>5
    <3> QED BY <1>10, <3>1, <3>2 DEF Dropped, Unheard
  <2>4. TokioTypes'
    BY <1>3, <1>6, <2>1, <2>2, <2>3 DEF TokioTypes
  <2>5. Seats'
    BY <2>1, <2>2 DEF Seats
  <2>6. Backed'
    BY <1>3, <2>1 DEF Basic, DriverInv, Backed
  <2>7. Begun'
    BY <1>3, <2>1, <2>3 DEF Basic, DriverInv, Begun
  <2>8. Announced'
    <3>1. \A d \in Evs : Due(d) => DueNext(d)
      BY <1>3, <2>1 DEF Due, DueNext
    <3> QED BY <1>1, <1>3, <3>1, AnnouncedLess
  <2>9. Asked'
    BY <1>3, <2>1 DEF Basic, Asked
  <2> QED BY <1>4, <1>5, <2>4, <2>5, <2>6, <2>7, <2>8, <2>9 DEF Basic, DriverInv
<1> QED BY <1>1, <1>9, <1>10

LEMMA SeatsKept ==
    ASSUME Basic, Seats, TasksGoOn, conns' = conns
    PROVE  Seats'
<1>1. conns \in [Fd -> 0..MaxPeers]
  BY DEF Basic, TokioTypes
<1>2. \A f \in Fd : conns[f] # 0 => conns[f] \in Gen
  BY <1>1, BridgeConstants DEF Gen
<1> QED BY <1>2 DEF Seats, TasksGoOn

-------------------------------------------------------------------------------
(* The types, and why a connection is closed.                                    *)

LEMMA BasicInit ==
    BridgeInit => Basic /\ Seats
<1> SUFFICES ASSUME BridgeInit PROVE Basic /\ Seats
  OBVIOUS
<1>1. /\ owner = [f \in Fd |-> 0] /\ accepts = 0 /\ slots = 0
      /\ parked = [f \in Fd |-> <<>>] /\ late = <<>>
      /\ phase = "drain" /\ batch = <<>> /\ tx = <<>> /\ rx = <<>>
      /\ owed = [g \in Gen |-> 0] /\ waker = 0
      /\ conns = [f \in Fd |-> 0] /\ inbox = [g \in Gen |-> <<>>]
      /\ task = [g \in Gen |-> "none"] /\ fdOf = [g \in Gen |-> 0]
      /\ writes = [g \in Gen |-> 0]
      /\ wire = [g \in Gen |-> <<>>] /\ taken = [g \in Gen |-> 0]
      /\ heard = [g \in Gen |-> <<>>] /\ overrun = FALSE
  BY DEF BridgeInit
<1>2. \A S : <<>> \in Seq(S) /\ Len(<<>>) = 0 /\ DOMAIN <<>> = {}
  BY EmptySeq, LenProperties
<1>3. /\ 0 \in 0..MaxPeers /\ 0 \in 0..MaxFd /\ 0 <= MaxSlots /\ 0 <= TxCap /\ 0 <= RxCap
      /\ 0 <= InboxCap /\ 0 \in Nat /\ 0 \in Int
  BY BridgeConstants
<1>4. SocketTypes
  <2>1. OpenFds = {}
    BY <1>1 DEF OpenFds
  <2>2. Cardinality(OpenFds) = 0
    BY <2>1, FS_EmptySet
  <2> QED BY <1>1, <1>3, <2>2 DEF SocketTypes
<1>5. InwardTypes
  BY <1>1, <1>2, <1>3 DEF InwardTypes
<1>6. OutwardTypes
  BY <1>1, <1>2, <1>3 DEF OutwardTypes
<1>7. LoopTypes /\ RingTypes
  BY <1>1, <1>2, <1>3 DEF LoopTypes, RingTypes
<1>8. TokioTypes
  <2>1. inbox \in [Gen -> Seq(Gen \X Nat)] /\ \A g \in Gen : Len(inbox[g]) <= InboxCap
    BY <1>1, <1>2, <1>3
  <2> QED BY <1>1, <1>2, <1>3, <2>1 DEF TokioTypes, TaskStates
<1>9. Owned /\ Backed /\ Begun /\ Announced /\ Asked /\ Seats
  <2>1. Owned
    BY <1>1, <1>3 DEF Owned
  <2>2. Backed
    BY <1>1, <1>2 DEF Backed
  <2>3. Begun
    BY <1>1 DEF Begun
  <2>4. Announced /\ Asked
    BY <1>1, <1>2 DEF Announced, Asked
  <2>5. Seats
    BY <1>1 DEF Seats
  <2> QED BY <2>1, <2>2, <2>3, <2>4, <2>5
<1> QED BY <1>4, <1>5, <1>6, <1>7, <1>8, <1>9 DEF Basic, DriverInv

\* A step that leaves the tasks alone leaves the seats alone.
LEMMA SeatsStay ==
    ASSUME Seats, UNCHANGED tokio
    PROVE  Seats'
BY DEF Seats, tokio

\* Where a task's step leads from one state it has begun in to another.
LEMMA TaskGoesOn ==
    ASSUME Basic, NEW g \in Gen, task[g] # "none", task'[g] \in TaskStates \ {"none"},
           task[g] \in {"shut", "ended"} => task'[g] \in {"shut", "ended"},
           task' \in [Gen -> TaskStates],
           \A h \in Gen \ {g} : task'[h] = task[h], fdOf' = fdOf
    PROVE  TasksGoOn
BY DEF TasksGoOn

LEMMA StepKeepsSeats ==
    ASSUME Basic, Seats, NEW g \in Gen, TaskStep(g)
    PROVE  Basic' /\ Seats'
<1>1. task \in [Gen -> TaskStates]
  BY DEF Basic, TokioTypes
<1>2. CASE Hear(g)
  <2>1. Basic'
    BY <1>2, HearKeeps
  <2>2. conns' = conns /\ task' = task /\ fdOf' = fdOf
    BY <1>2 DEF Hear
  <2> QED BY <2>1, <2>2 DEF Seats
<1>3. CASE Enqueue(g)
  <2>1. Basic' /\ task' \in [Gen -> TaskStates]
    BY <1>3, EnqueueKeeps DEF Basic, TokioTypes
  <2>2. /\ task[g] = "idle" /\ task'[g] = "counting" /\ \A h \in Gen \ {g} : task'[h] = task[h]
        /\ conns' = conns /\ fdOf' = fdOf
    BY <1>3, EnqueueStep
  <2>3. TasksGoOn
    BY <2>1, <2>2, TaskGoesOn DEF TaskStates
  <2> QED BY <2>1, <2>2, <2>3, SeatsKept
<1>4. CASE Count(g)
  <2>1. Basic' /\ task' \in [Gen -> TaskStates]
    BY <1>4, CountKeeps DEF Basic, TokioTypes
  <2>2. /\ task[g] = "counting" /\ task'[g] = "idle" /\ \A h \in Gen \ {g} : task'[h] = task[h]
        /\ conns' = conns /\ fdOf' = fdOf
    BY <1>4, CountKeeps
  <2>3. TasksGoOn
    BY <2>1, <2>2, TaskGoesOn DEF TaskStates
  <2> QED BY <2>1, <2>2, <2>3, SeatsKept
<1>5. CASE Wait(g) \/ TimesOut(g)
  <2>1. Basic' /\ task' \in [Gen -> TaskStates]
    BY <1>5, PauseKeeps DEF Basic, TokioTypes
  <2>2. /\ task[g] \in {"idle", "parked"} /\ task'[g] \in {"idle", "parked"}
        /\ \A h \in Gen \ {g} : task'[h] = task[h]
        /\ conns' = conns /\ fdOf' = fdOf
    BY <1>5, PauseKeeps
  <2>3. TasksGoOn
    BY <2>1, <2>2, TaskGoesOn DEF TaskStates
  <2> QED BY <2>1, <2>2, <2>3, SeatsKept
<1>6. CASE Shutdown(g)
  <2>1. Basic' /\ task' \in [Gen -> TaskStates]
    BY <1>6, ShutdownKeeps DEF Basic, TokioTypes
  <2>2. /\ task[g] = "idle" /\ task'[g] = "shut" /\ \A h \in Gen \ {g} : task'[h] = task[h]
        /\ conns' = conns /\ fdOf' = fdOf
    BY <1>6, ShutdownKeeps
  <2>3. TasksGoOn
    BY <2>1, <2>2, TaskGoesOn DEF TaskStates
  <2> QED BY <2>1, <2>2, <2>3, SeatsKept
<1>7. CASE End(g)
  <2>1. Basic' /\ task' \in [Gen -> TaskStates]
    BY <1>7, EndKeeps DEF Basic, TokioTypes
  <2>2. /\ task[g] \in {"idle", "shut"} /\ task'[g] = "ended" /\ \A h \in Gen \ {g} : task'[h] = task[h]
        /\ conns' = conns /\ fdOf' = fdOf
    BY <1>7, EndKeeps
  <2>3. TasksGoOn
    BY <2>1, <2>2, TaskGoesOn DEF TaskStates
  <2> QED BY <2>1, <2>2, <2>3, SeatsKept
<1> QED BY <1>2, <1>3, <1>4, <1>5, <1>6, <1>7 DEF TaskStep

LEMMA BasicStep ==
    Basic /\ Seats /\ [BridgeNext]_bridgeVars => Basic' /\ Seats'
<1> SUFFICES ASSUME Basic, Seats, [BridgeNext]_bridgeVars PROVE Basic' /\ Seats'
  OBVIOUS
<1>1. CASE Drain
  <2>1. Basic'
    BY <1>1, DrainKeeps
  <2> QED BY <1>1, <2>1, SeatsStay DEF Drain
<1>2. CASE Drained
  <2>1. Basic'
    BY <1>2, DrainedKeeps
  <2> QED BY <1>2, <2>1, SeatsStay DEF Drained
<1>3. CASE Poll
  <2>1. Basic' /\ TasksGoOn /\ conns' = conns
    BY <1>3, PollKeeps, PollStep DEF GoesOn
  <2> QED BY <2>1, SeatsKept
<1>4. CASE Service
  <2>1. Basic'
    BY <1>4, ServiceKeeps
  <2> QED BY <1>4, <2>1, SeatsStay DEF Service
<1>5. CASE Deliver
  <2>1. Basic'
    BY <1>5, DeliverKeeps
  <2> QED BY <1>5, <2>1, SeatsStay DEF Deliver
<1>6. CASE Dispatch
  BY <1>6, DispatchKeeps
<1>7. CASE \E g \in Gen : TaskStep(g)
  BY <1>7, StepKeepsSeats
<1>8. CASE UNCHANGED bridgeVars
  <2>1. /\ UNCHANGED <<sockets, inward, outward, loop, tokio, tx, waker, taken>>
    BY <1>8 DEF bridgeVars
  <2>2. UNCHANGED sockets /\ UNCHANGED inward /\ UNCHANGED outward /\ UNCHANGED loop /\ UNCHANGED tokio
        /\ tx' = tx /\ waker' = waker /\ taken' = taken
    BY <2>1
  <2>3. DriverInv'
    BY <2>2, SkipKeeps DEF Basic
  <2>4. TokioTypes' /\ LoopTypes' /\ RingTypes' /\ Asked'
    BY <2>2 DEF Basic, TokioTypes, LoopTypes, RingTypes, Asked, tokio, loop
  <2> QED BY <2>2, <2>3, <2>4, SeatsStay DEF Basic
<1> QED BY <1>1, <1>2, <1>3, <1>4, <1>5, <1>6, <1>7, <1>8 DEF BridgeNext, DriverStep

LEMMA SlotsNat ==
    ASSUME SocketTypes
    PROVE  slots \in Nat
<1>1. IsFiniteSet(OpenFds)
  BY BridgeConstants, FS_Subset DEF OpenFds
<1>2. Cardinality(OpenFds) \in Nat
  BY <1>1, FS_CardinalityType
<1> QED BY <1>2 DEF SocketTypes

LEMMA BasicTypes ==
    Basic => BridgeTypeOK
<1> SUFFICES ASSUME Basic PROVE BridgeTypeOK
  OBVIOUS
<1>1. slots \in 0..MaxSlots
  BY SlotsNat, BridgeConstants DEF Basic, DriverInv, SocketTypes
<1> QED BY <1>1 DEF Basic, DriverInv, SocketTypes, InwardTypes, LoopTypes, RingTypes, TokioTypes,
                    TaskStates, BridgeTypeOK

\* In the drain phase only a command changes who owns a fd: its own connection's.
LEMMA OwnersStay ==
    ASSUME Basic, [BridgeNext]_bridgeVars, phase = "drain", owner' # owner
    PROVE  /\ tx # <<>> /\ Current(Head(tx))
           /\ owner' = [owner EXCEPT ![Head(tx).fd] = 0]
<1>1. batch = <<>>
  BY DEF Basic, LoopTypes
<1>2. CASE Drain
  <2> DEFINE c == Head(tx)
  <2>1. tx # <<>> /\ OnCommand(c)
    BY <1>2, DrainEffect
  <2> HIDE DEF c
  <2>2. \E n \in Int : Current(c) /\ Closes(c.fd, n)
    BY <2>1 DEF OnCommand, SendStale, Park, GivenNow, NoEffect, sockets
  <2>3. PICK n \in Int : Current(c) /\ CloseFd(c.fd, n)
    BY <2>2 DEF Closes
  <2>4. owner' = [owner EXCEPT ![c.fd] = 0]
    BY <2>3 DEF CloseFd
  <2> QED BY <2>1, <2>3, <2>4 DEF c
<1>3. ~Service /\ ~Deliver /\ ~Poll
  BY <1>1 DEF Service, Deliver, Poll
<1>4. UNCHANGED sockets => owner' = owner
  BY DEF sockets
<1>5. ASSUME NEW g \in Gen, TaskStep(g) PROVE UNCHANGED sockets
  BY <1>5 DEF TaskStep, Hear, Enqueue, Count, Wait, TimesOut, Shutdown, End
<1>6. CASE Drained \/ Dispatch \/ (\E g \in Gen : TaskStep(g)) \/ UNCHANGED bridgeVars
  BY <1>4, <1>5, <1>6 DEF Drained, Dispatch, bridgeVars
<1> QED BY <1>2, <1>3, <1>6 DEF BridgeNext, DriverStep

\* While commands are drained, a socket is closed by the command at the head only.
LEMMA ClosedByOwn ==
    ASSUME Basic, [BridgeNext]_bridgeVars, phase = "drain", NEW g \in Gen, Open(g), ~Open(g)'
    PROVE  /\ Head(tx).gen = g
           /\ Head(tx).kind = "close" => task[g] \in {"shut", "ended"}
<1>1. PICK f \in Fd : owner[f] = g /\ owner'[f] # g
  BY DEF Open
<1>2. /\ tx # <<>> /\ Current(Head(tx))
      /\ owner' = [owner EXCEPT ![Head(tx).fd] = 0]
  BY <1>1, OwnersStay
<1>3. Head(tx).gen = g
  <2>1. f = Head(tx).fd
    BY <1>1, <1>2 DEF Basic, DriverInv, SocketTypes
  <2> QED BY <1>1, <1>2, <2>1 DEF Current
<1>4. Head(tx) = tx[1] /\ 1 \in DOMAIN tx
  BY <1>2, HeadOfTx
<1> QED BY <1>3, <1>4 DEF Basic, Asked

\* Every variable of the bridge has its type.
THEOREM BridgeTypes == BridgeSpec => []BridgeTypeOK
<1>1. BridgeSpec => [](Basic /\ Seats)
  BY BasicInit, BasicStep, PTL DEF BridgeSpec
<1> QED BY <1>1, BasicTypes, PTL

\* A command of the TX ring closes the connection it comes from and no other, and a
\* Close only one whose task is done.
THEOREM ClosedForItsCause == BridgeSpec => ClosedForCause
<1>1. BridgeSpec => [](Basic /\ Seats)
  BY BasicInit, BasicStep, PTL DEF BridgeSpec
<1>2. Basic /\ [BridgeNext]_bridgeVars =>
        [\A g \in Gen : phase = "drain" /\ Open(g) /\ ~Open(g)' =>
          /\ Head(tx).gen = g
          /\ Head(tx).kind = "close" => task[g] \in {"shut", "ended"}]_bridgeVars
  BY ClosedByOwn
<1> QED BY <1>1, <1>2, PTL DEF BridgeSpec, ClosedForCause

-------------------------------------------------------------------------------
(* What a connection owes.                                                       *)

OweNow(f, g) ==
    owner[f] = g /\ task[g] # "ended" =>
        owed[g] + (IF task[g] = "counting" THEN Size ELSE 0) = RingSum(tx, g) + Total(parked[f])

OweNext(f, g) ==
    owner'[f] = g /\ task'[g] # "ended" =>
        owed'[g] + (IF task'[g] = "counting" THEN Size ELSE 0) = RingSum(tx', g) + Total(parked'[f])

\* Owes, connection by connection and in both states.
LEMMA OwesIs ==
    /\ Owes <=> \A f \in Fd, g \in Gen : OweNow(f, g)
    /\ Owes' <=> \A f \in Fd, g \in Gen : OweNext(f, g)
<1>1. \A g : InRing(g) = RingSum(tx, g) /\ InRing(g)' = RingSum(tx', g)
  BY RingSums
<1>2. \A f : Total(parked[f])' = Total(parked'[f])
  BY DEF Total, Units
<1> QED BY <1>1, <1>2 DEF Owes, OweNow, OweNext

LEMMA OweTypes ==
    ASSUME Basic, NEW f \in Fd, NEW g \in Gen
    PROVE  /\ owed[g] \in Int /\ Total(parked[f]) \in Nat /\ RingSum(tx, g) \in Nat
           /\ Size \in Nat /\ parked[f] \in Seq(Write) /\ tx \in Seq(Cmds)
<1>1. tx \in Seq(Cmds) /\ owed[g] \in Int /\ parked[f] \in Seq(Write)
  BY DEF Basic, RingTypes, DriverInv, OutwardTypes
<1>2. RingSum(tx, g) \in Nat
  BY <1>1, RingSumIs
<1> QED BY <1>1, <1>2, BacklogNat, BridgeConstants DEF Basic, DriverInv

\* The command at the head of the ring is of its own connection.
LEMMA RingLess ==
    ASSUME Basic, tx # <<>>, tx' = Tail(tx), NEW g \in Gen
    PROVE  /\ RingSum(tx, g) = RingSum(tx', g)
                + (IF Head(tx).kind = "send" /\ Head(tx).gen = g THEN Units(Head(tx)) ELSE 0)
           /\ RingSum(tx', g) \in Nat
           /\ ~(Head(tx).kind = "send" /\ Head(tx).gen = g) => RingSum(tx', g) = RingSum(tx, g)
<1>1. tx \in Seq(Cmds)
  BY DEF Basic, RingTypes
<1>2. /\ RingSum(tx, g) = RingSum(tx', g)
                + (IF Head(tx).kind = "send" /\ Head(tx).gen = g THEN Units(Head(tx)) ELSE 0)
      /\ RingSum(tx', g) \in Nat
  BY <1>1, RingTail
<1> QED BY <1>2

\* The connection a command comes from has, if any, the command's fd.
LEMMA OfItsFd ==
    ASSUME Basic, tx # <<>>, NEW f \in Fd, owner[f] = Head(tx).gen
    PROVE  f = Head(tx).fd
BY HeadOfTx DEF Basic, DriverInv, Begun

\* A command leaves the ring for the backlog, the wire or nowhere, and the counter follows.
LEMMA DrainOwes ==
    ASSUME Basic, Owes, Drain
    PROVE  Owes'
<1> DEFINE c == Head(tx)
<1>1. /\ tx # <<>> /\ tx' = Tail(tx) /\ OnCommand(c) /\ task' = task
      /\ c.fd \in Fd /\ c.gen \in Gen /\ c.kind \in {"send", "close"} /\ DriverInv
  BY DrainEffect, HeadOfTx, UnchangedTokio DEF Basic
<1>2. SUFFICES ASSUME NEW f \in Fd, NEW g \in Gen, OweNow(f, g) PROVE OweNext(f, g)
  BY OwesIs
<1>3. /\ RingSum(tx, g) = RingSum(tx', g) + (IF c.kind = "send" /\ c.gen = g THEN Units(c) ELSE 0)
      /\ RingSum(tx', g) \in Nat /\ RingSum(tx, g) \in Nat
      /\ ~(c.kind = "send" /\ c.gen = g) => RingSum(tx', g) = RingSum(tx, g)
  BY <1>1, RingLess, OweTypes
<1>4. owed[g] \in Int /\ Total(parked[f]) \in Nat /\ Size \in Nat /\ parked[f] \in Seq(Write)
  BY OweTypes
<1>5. owner[f] = c.gen => f = c.fd
  BY <1>1, OfItsFd
<1>6. TokioTypes /\ UNCHANGED tokio /\ OutwardTypes /\ \A e, d \in Fd : owner[e] = owner[d] /\ owner[d] # 0 => e = d
  BY DrainEffect DEF Basic, DriverInv, Owned
<1>7. owner \in [Fd -> 0..MaxPeers]
  BY DEF Basic, DriverInv, SocketTypes
<1>8. task[c.gen] # "none"
  BY <1>1, HeadOfTx
<1> HIDE DEF c
<1>9. CASE c \in Write /\ SendStale(c)
  <2>1. /\ ~Current(c) /\ Repay(c.gen, Units(c)) /\ owner' = owner /\ parked' = parked
    BY <1>9 DEF SendStale, sockets
  <2>2. \A h \in Gen \ {c.gen} : owed'[h] = owed[h]
    BY <1>1, <1>6, <1>9, <2>1, RepayStep, UnitsNat
  <2>3. owner[f] = g => g # c.gen
    BY <1>5, <2>1 DEF Current
  <2> QED BY <1>1, <1>2, <1>3, <2>1, <2>2, <2>3 DEF OweNow, OweNext
<1>10. CASE /\ c \in Write /\ Current(c) /\ parked[c.fd] # <<>>
            /\ Park(c) /\ UNCHANGED <<owed, wire, sockets, inward, taken>>
  <2>1. /\ owner[c.fd] = c.gen /\ owner' = owner /\ owed' = owed /\ Units(c) \in Nat /\ c.kind = "send"
        /\ parked' = [parked EXCEPT ![c.fd] = Append(parked[c.fd], c)]
    BY <1>10, UnitsNat DEF Current, sockets, Park
  <2>2. CASE f = c.fd
    <3>1. parked'[f] = Append(parked[f], c)
      BY <1>6, <2>1, <2>2 DEF OutwardTypes
    <3>2. Total(parked'[f]) = Total(parked[f]) + Units(c)
      BY <1>4, <1>10, <3>1, TotalAppend
    <3>3. owner[f] = g => c.gen = g
      BY <2>1, <2>2
    <3> QED BY <1>1, <1>2, <1>3, <1>4, <2>1, <3>2, <3>3 DEF OweNow, OweNext
  <2>3. CASE f # c.fd
    <3>1. parked'[f] = parked[f] /\ (owner[f] = g => g # c.gen)
      BY <1>5, <1>6, <2>1, <2>3 DEF OutwardTypes
    <3> QED BY <1>1, <1>2, <1>3, <2>1, <3>1 DEF OweNow, OweNext
  <2> QED BY <2>2, <2>3
<1>11. CASE c \in Write /\ Current(c) /\ parked[c.fd] = <<>> /\ \E k \in 0..Units(c) : GivenNow(c, k)
  <2>1. PICK k \in 0..Units(c) : GivenNow(c, k)
    BY <1>11
  <2>2. /\ owner[c.fd] = c.gen /\ owner' = owner /\ Units(c) \in Nat /\ c.kind = "send" /\ k \in Int /\ k \in Nat
        /\ Repay(c.gen, k)
    BY <1>11, <2>1, UnitsNat DEF Current, sockets, GivenNow
  <2>3. /\ parked'[c.fd] = IF k = Units(c) THEN <<>> ELSE <<Rest(c, k)>>
        /\ \A d \in Fd \ {c.fd} : parked'[d] = parked[d]
    BY <1>1, <1>6, <1>8, <1>11, <2>1, NowKeeps
  <2>4. /\ \A h \in Gen \ {c.gen} : owed'[h] = owed[h]
        /\ task[c.gen] # "ended" => owed'[c.gen] = owed[c.gen] - k
    BY <1>1, <1>6, <2>2, RepayStep
  <2>5. Total(parked'[c.fd]) = Units(c) - k
    <3>1. CASE k = Units(c)
      BY <2>2, <2>3, <3>1, TotalEmpty
    <3>2. CASE k # Units(c)
      <4>1. k < Units(c)
        BY <2>2, <3>2
      <4>2. Rest(c, k) \in Write /\ Units(Rest(c, k)) = Units(c) - k
        BY <1>11, <2>2, <4>1, RestOf
      <4>3. <<>> \in Seq(Write) /\ <<Rest(c, k)>> = Append(<<>>, Rest(c, k))
        OBVIOUS
      <4>4. Total(<<Rest(c, k)>>) = 0 + Units(Rest(c, k))
        BY <4>2, <4>3, TotalAppend, TotalEmpty
      <4> QED BY <2>2, <2>3, <3>2, <4>2, <4>4
    <3> QED BY <3>1, <3>2
  <2>6. CASE f = c.fd
    <3>1. owner[f] = g => c.gen = g
      BY <2>2, <2>6
    <3>2. Total(parked[f]) = 0
      BY <1>11, <2>6, TotalEmpty
    <3>3. Total(parked'[f]) = Units(c) - k
      BY <2>5, <2>6
    <3>4. SUFFICES ASSUME owner[f] = g, task[g] # "ended" PROVE OweNext(f, g)
      BY <1>1, <2>2 DEF OweNext
    <3>5. owed[g] + (IF task[g] = "counting" THEN Size ELSE 0) = RingSum(tx, g)
      BY <1>2, <1>3, <3>2, <3>4 DEF OweNow
    <3>6. RingSum(tx, g) = RingSum(tx', g) + Units(c) /\ owed'[g] = owed[g] - k
      BY <1>3, <2>2, <2>4, <3>1, <3>4
    <3>7. (owed[g] - k) + (IF task[g] = "counting" THEN Size ELSE 0) = RingSum(tx', g) + (Units(c) - k)
      <4>1. \A a, b, x, s, n : /\ a \in Int /\ b \in Int /\ x \in Int /\ s \in Int /\ n \in Int
                               => (a + x = s + n => (a - b) + x = s + (n - b))
        OBVIOUS
      <4>2. PICK x \in Int : x = IF task[g] = "counting" THEN Size ELSE 0
        BY <1>4
      <4>3. PICK s \in Int : s = RingSum(tx', g)
        BY <1>3
      <4>4. owed[g] + x = s + Units(c)
        BY <3>5, <3>6, <4>2, <4>3
      <4>5. (owed[g] - k) + x = s + (Units(c) - k)
        BY <1>4, <2>2, <4>1, <4>4
      <4> QED BY <4>2, <4>3, <4>5
    <3> QED BY <1>1, <3>3, <3>6, <3>7 DEF OweNext
  <2>7. CASE f # c.fd
    <3>1. parked'[f] = parked[f] /\ (owner[f] = g => g # c.gen)
      BY <1>5, <2>3, <2>7
    <3> QED BY <1>1, <1>2, <1>3, <2>2, <2>4, <3>1 DEF OweNow, OweNext
  <2> QED BY <2>6, <2>7
<1>12. CASE Current(c) /\ \E n \in Int : Closes(c.fd, n)
  <2>1. PICK n \in Int : Closes(c.fd, n)
    BY <1>12
  <2>2. /\ owner' = [owner EXCEPT ![c.fd] = 0] /\ parked' = [parked EXCEPT ![c.fd] = <<>>]
        /\ \A h \in Gen : h # owner[c.fd] => owed'[h] = owed[h]
    BY <1>1, <1>6, <2>1, CloseFdKeeps DEF Closes
  <2>3. owner[c.fd] = c.gen
    BY <1>12 DEF Current
  <2>4. CASE f = c.fd
    <3>1. owner'[f] = 0 /\ g # 0
      BY <1>7, <2>2, <2>4, BridgeConstants
    <3> QED BY <3>1 DEF OweNext
  <2>5. CASE f # c.fd
    <3>1. owner'[f] = owner[f] /\ parked'[f] = parked[f] /\ (owner[f] = g => g # c.gen)
      BY <1>5, <1>6, <1>7, <2>2, <2>5 DEF OutwardTypes
    <3> QED BY <1>1, <1>2, <1>3, <2>2, <2>3, <3>1 DEF OweNow, OweNext
  <2> QED BY <2>4, <2>5
<1>13. CASE c.kind = "close" /\ NoEffect
  <2>1. owner' = owner /\ owed' = owed /\ parked' = parked
    BY <1>13 DEF NoEffect, sockets, outward
  <2> QED BY <1>1, <1>2, <1>3, <1>13, <2>1 DEF OweNow, OweNext
<1> QED BY <1>1, <1>9, <1>10, <1>11, <1>12, <1>13 DEF OnCommand

\* A connection not yet accepted owes nothing and has nothing in the ring.
LEMMA OwesNothing ==
    ASSUME Basic, NEW g \in Gen, task[g] = "none"
    PROVE  owed[g] = 0 /\ RingSum(tx, g) = 0
<1>1. owed[g] = 0
  BY DEF Basic, DriverInv, Begun
<1>2. By(tx, g) = {}
  BY DEF By, Basic, Asked
<1>3. tx \in Seq(Cmds)
  BY DEF Basic, RingTypes
<1>4. RingSum(tx, g) = SumFunctionOnSet([i \in By(tx, g) |-> Units(tx[i])], By(tx, g))
  BY <1>3, RingSumIs
<1>5. \A h : SumFunctionOnSet(h, {}) = 0
  BY SumEmpty
<1> QED BY <1>1, <1>2, <1>4, <1>5

\* A backlog that is flushed, or dropped with its socket, is taken off the counter.
LEMMA ServiceOwes ==
    ASSUME Basic, Owes, Service
    PROVE  Owes'
<1>1. UNCHANGED tokio /\ tx' = tx /\ task' = task /\ OnEvent /\ DriverInv /\ TokioTypes /\ OutwardTypes
  BY ServiceEffect, UnchangedTokio DEF Basic, DriverInv
<1>2. SUFFICES ASSUME NEW f \in Fd, NEW g \in Gen, OweNow(f, g) PROVE OweNext(f, g)
  BY OwesIs
<1>3. owed[g] \in Int /\ Total(parked[f]) \in Nat /\ Size \in Nat /\ RingSum(tx, g) \in Nat /\ parked[f] \in Seq(Write)
  BY OweTypes
<1>4. owner \in [Fd -> 0..MaxPeers] /\ \A e, d \in Fd : owner[e] = owner[d] /\ owner[d] # 0 => e = d
  BY DEF Basic, DriverInv, SocketTypes, Owned
<1>5. CASE \E d \in Fd : Admit(d)
  <2>1. PICK d \in Fd : Admit(d)
    BY <1>5
  <2>2. /\ accepts' \in Gen /\ task[accepts'] = "none" /\ parked[d] = <<>>
        /\ UNCHANGED owner \/ owner' = [owner EXCEPT ![d] = accepts']
        /\ UNCHANGED <<parked, owed, wire, taken>>
    BY <1>1, <2>1, AdmitKeeps
  <2>3. CASE owner'[f] = owner[f]
    BY <1>1, <1>2, <2>2, <2>3 DEF OweNow, OweNext
  <2>4. CASE owner'[f] # owner[f]
    <3>1. f = d /\ owner'[f] = accepts'
      BY <1>4, <2>2, <2>4
    <3>2. owner'[f] = g => task[g] = "none" /\ owed[g] = 0 /\ RingSum(tx, g) = 0
      BY <2>2, <3>1, OwesNothing
    <3>3. Total(parked[f]) = 0
      BY <2>2, <3>1, TotalEmpty
    <3> QED BY <1>1, <2>2, <3>2, <3>3 DEF OweNext
  <2> QED BY <2>3, <2>4
<1>6. CASE NoEffect \/ \E d \in Fd : Receive(d)
  <2>1. owner' = owner /\ parked' = parked /\ owed' = owed
    BY <1>6 DEF NoEffect, Receive, sockets, outward
  <2> QED BY <1>1, <1>2, <2>1 DEF OweNow, OweNext
<1>7. CASE \E d \in Fd : \E n \in Int : Closes(d, n)
  <2>1. PICK d \in Fd : \E n \in Int : Closes(d, n)
    BY <1>7
  <2>2. PICK n \in Int : Closes(d, n)
    BY <2>1
  <2>3. /\ owner' = [owner EXCEPT ![d] = 0] /\ parked' = [parked EXCEPT ![d] = <<>>]
        /\ \A h \in Gen : h # owner[d] => owed'[h] = owed[h]
    BY <1>1, <2>2, CloseFdKeeps DEF Closes
  <2>4. CASE f = d
    <3>1. owner'[f] = 0 /\ g # 0
      BY <1>4, <2>3, <2>4, BridgeConstants
    <3> QED BY <3>1 DEF OweNext
  <2>5. CASE f # d
    <3>1. owner'[f] = owner[f] /\ parked'[f] = parked[f]
      BY <1>1, <1>4, <2>3, <2>5 DEF OutwardTypes
    <3>2. owner[f] = g => g # owner[d]
      BY <1>4, <2>5, BridgeConstants
    <3> QED BY <1>1, <1>2, <2>3, <3>1, <3>2 DEF OweNow, OweNext
  <2> QED BY <2>4, <2>5
<1>8. ASSUME NEW d \in Fd, parked[d] # <<>>, NEW n \in Int, Repay(Head(parked[d]).gen, n), owner' = owner,
             \A e \in Fd \ {d} : parked'[e] = parked[e],
             Total(parked'[d]) = Total(parked[d]) - n
      PROVE  OweNext(f, g)
  <2>1. Head(parked[d]).gen = owner[d] /\ owner[d] \in Gen
    <3>1. parked[d] \in Seq(Write)
      BY <1>1 DEF OutwardTypes
    <3>2. Head(parked[d]) = parked[d][1] /\ 1 \in DOMAIN parked[d]
      BY <1>8, <3>1, Shortened
    <3>3. Head(parked[d]).gen = owner[d]
      BY <1>1, <3>2 DEF DriverInv, Backed
    <3>4. owner[d] # 0
      BY <1>1, <1>8, OpenBacklog DEF DriverInv
    <3> QED BY <1>1, <3>3, <3>4, OwnerGen DEF DriverInv
  <2>2. /\ \A h \in Gen \ {owner[d]} : owed'[h] = owed[h]
        /\ task[owner[d]] # "ended" => owed'[owner[d]] = owed[owner[d]] - n
    BY <1>1, <1>8, <2>1, RepayStep
  <2>3. CASE f = d
    <3>1. Total(parked'[f]) = Total(parked[f]) - n
      BY <1>8, <2>3
    <3>2. owner[f] = g /\ task[g] # "ended" => owed'[g] = owed[g] - n
      BY <2>2, <2>3
    <3>3. SUFFICES ASSUME owner[f] = g, task[g] # "ended" PROVE OweNext(f, g)
      BY <1>1, <1>8 DEF OweNext
    <3>4. PICK x \in Int : x = IF task[g] = "counting" THEN Size ELSE 0
      BY <1>3
    <3>5. owed[g] + x = RingSum(tx, g) + Total(parked[f])
      BY <1>2, <3>3, <3>4 DEF OweNow
    <3>6. \A a, y, s, t \in Int : a + y = s + t => (a - n) + y = s + (t - n)
      BY <1>8
    <3>7. PICK t \in Int : t = Total(parked[f])
      BY <1>3
    <3>8. PICK s \in Int : s = RingSum(tx, g)
      BY <1>3
    <3>9. (owed[g] - n) + x = s + (t - n)
      <4>1. PICK a \in Int : a = owed[g]
        BY <1>3
      <4>2. a + x = s + t
        BY <3>5, <3>7, <3>8, <4>1
      <4>3. (a - n) + x = s + (t - n)
        BY <3>6, <4>2
      <4> QED BY <4>1, <4>3
    <3>10. owed'[g] = owed[g] - n
      BY <3>2, <3>3
    <3>11. owed'[g] + x = RingSum(tx, g) + Total(parked'[f])
      BY <3>1, <3>7, <3>8, <3>9, <3>10
    <3> QED BY <1>1, <3>4, <3>11 DEF OweNext
  <2>4. CASE f # d
    <3>1. parked'[f] = parked[f] /\ (owner[f] = g => g # owner[d])
      BY <1>4, <1>8, <2>1, <2>4, BridgeConstants
    <3> QED BY <1>1, <1>2, <1>8, <2>2, <3>1 DEF OweNow, OweNext
  <2> QED BY <2>3, <2>4
<1>9. CASE \E d \in Fd : parked[d] # <<>> /\ FlushAll(d)
  <2>1. PICK d \in Fd : parked[d] # <<>> /\ FlushAll(d)
    BY <1>9
  <2>2. parked'[d] = Tail(parked[d]) /\ \A e \in Fd \ {d} : parked'[e] = parked[e]
    BY <1>1, <2>1, FlushAllKeeps
  <2>3. parked[d] \in Seq(Write)
    BY <1>1 DEF OutwardTypes
  <2>4. /\ Total(parked[d]) = Units(Head(parked[d])) + Total(Tail(parked[d])) /\ Units(Head(parked[d])) \in Nat
        /\ Total(Tail(parked[d])) \in Nat /\ Total(parked[d]) \in Nat
    BY <2>1, <2>3, TotalTail
  <2>5. Total(parked'[d]) = Total(parked[d]) - Units(Head(parked[d])) /\ Units(Head(parked[d])) \in Int
    BY <2>2, <2>4
  <2>6. Repay(Head(parked[d]).gen, Units(Head(parked[d]))) /\ owner' = owner
    BY <2>1 DEF FlushAll, sockets
  <2> QED BY <1>8, <2>1, <2>2, <2>5, <2>6
<1>10. CASE \E d \in Fd : parked[d] # <<>> /\ \E k \in 0..Units(Head(parked[d])) - 1 :
                GivenPart(d, Head(parked[d]), k)
  <2>1. PICK d \in Fd : parked[d] # <<>> /\ \E k \in 0..Units(Head(parked[d])) - 1 :
                GivenPart(d, Head(parked[d]), k)
    BY <1>10
  <2>2. PICK k \in 0..Units(Head(parked[d])) - 1 : GivenPart(d, Head(parked[d]), k)
    BY <2>1
  <2>3. parked[d] \in Seq(Write)
    BY <1>1 DEF OutwardTypes
  <2>4. /\ Total(parked[d]) = Units(Head(parked[d])) + Total(Tail(parked[d])) /\ Units(Head(parked[d])) \in Nat
        /\ Total(Tail(parked[d])) \in Nat /\ Total(parked[d]) \in Nat
        /\ Head(parked[d]) \in Write /\ Tail(parked[d]) \in Seq(Write)
    BY <2>1, <2>3, TotalTail, Shortened
  <2>5. k \in Nat /\ k \in Int /\ k < Units(Head(parked[d]))
    BY <2>2, <2>4
  <2>6. /\ parked'[d] = <<Rest(Head(parked[d]), k)>> \o Tail(parked[d])
        /\ \A e \in Fd \ {d} : parked'[e] = parked[e]
    BY <1>1, <2>1, <2>2, <2>5, FlushPartKeeps
  <2>7. Rest(Head(parked[d]), k) \in Write /\ Units(Rest(Head(parked[d]), k)) = Units(Head(parked[d])) - k
    BY <2>4, <2>5, RestOf
  <2>8. Total(parked'[d]) = (Units(Head(parked[d])) - k) + Total(Tail(parked[d]))
    BY <2>4, <2>6, <2>7, TotalFront
  <2>9. Total(parked'[d]) = Total(parked[d]) - k
    BY <2>4, <2>5, <2>8
  <2>10. Repay(Head(parked[d]).gen, k) /\ owner' = owner
    BY <2>2 DEF GivenPart, sockets
  <2> QED BY <1>8, <2>1, <2>5, <2>6, <2>9, <2>10
<1> QED BY <1>1, <1>5, <1>6, <1>7, <1>9, <1>10 DEF OnEvent

\* Steps that move neither the sockets nor what is owed nor the ring.
LEMMA QuietOwes ==
    ASSUME Basic, Owes, owner' = owner, parked' = parked, owed' = owed,
           \A g \in Gen : RingSum(tx', g) = RingSum(tx, g),
           \A g \in Gen : task'[g] # "ended" => task[g] # "ended" /\ (task'[g] = "counting" <=> task[g] = "counting")
    PROVE  Owes'
<1> SUFFICES ASSUME NEW f \in Fd, NEW g \in Gen, OweNow(f, g) PROVE OweNext(f, g)
  BY OwesIs
<1> QED BY DEF OweNow, OweNext

LEMMA CloseInRing ==
    ASSUME Basic, NEW g \in Gen, CloseCmd(g) \in Cmds, tx' = Append(tx, CloseCmd(g))
    PROVE  \A h \in Gen : RingSum(tx', h) = RingSum(tx, h)
<1>1. tx \in Seq(Cmds) /\ CloseCmd(g).kind = "close"
  BY DEF Basic, RingTypes, CloseCmd
<1>2. \A h \in Gen : RingSum(tx, h) \in Nat
  BY <1>1, RingSumIs
<1>3. \A h \in Gen : RingSum(tx', h) = RingSum(tx, h) + 0
  BY <1>1, RingAppend
<1> QED BY <1>2, <1>3

\* Between queueing a write and counting it, the counter is short by that write.
LEMMA TaskOwes ==
    ASSUME Basic, Owes, NEW g \in Gen, TaskStep(g)
    PROVE  Owes'
<1>1. task \in [Gen -> TaskStates] /\ tx \in Seq(Cmds) /\ \A h \in Gen : RingSum(tx, h) \in Nat
  BY RingSumIs DEF Basic, TokioTypes, RingTypes
<1>2. CASE Hear(g)
  <2>1. owner' = owner /\ parked' = parked /\ owed' = owed /\ tx' = tx /\ task' = task
    BY <1>2 DEF Hear, sockets, outward
  <2> QED BY <2>1, QuietOwes
<1>3. CASE Enqueue(g)
  <2>1. /\ task[g] = "idle" /\ task'[g] = "counting" /\ \A h \in Gen \ {g} : task'[h] = task[h]
        /\ owner' = owner /\ parked' = parked /\ owed' = owed
    BY <1>3, EnqueueStep DEF sockets, outward
  <2>2. PICK c \in Write : tx' = Append(tx, c) /\ c.kind = "send" /\ c.gen = g /\ Units(c) = Size
    BY <1>3, EnqueueStep
  <2>3. c \in Cmds
    BY DEF Cmds
  <2>4. \A h \in Gen : RingSum(tx', h) = RingSum(tx, h) + (IF h = g THEN Size ELSE 0)
    BY <1>1, <2>2, <2>3, RingAppend
  <2>5. ASSUME NEW f \in Fd, NEW h \in Gen, OweNow(f, h) PROVE OweNext(f, h)
    <3>1. owed[h] \in Int /\ Total(parked[f]) \in Nat /\ Size \in Nat /\ RingSum(tx, h) \in Nat
      BY OweTypes
    <3>2. RingSum(tx', h) = RingSum(tx, h) + (IF h = g THEN Size ELSE 0)
      BY <2>4
    <3>3. CASE h = g
      BY <2>1, <2>5, <3>1, <3>2, <3>3 DEF OweNow, OweNext
    <3>4. CASE h # g
      BY <2>1, <2>5, <3>1, <3>2, <3>4 DEF OweNow, OweNext
    <3> QED BY <3>3, <3>4
  <2> QED BY <2>5, OwesIs
<1>4. CASE Count(g)
  <2>1. /\ task[g] = "counting" /\ task'[g] = "idle"
        /\ \A h \in Gen \ {g} : task'[h] = task[h] /\ owed'[h] = owed[h]
        /\ owed'[g] = owed[g] + Size /\ owed[g] \in Int
        /\ owner' = owner /\ parked' = parked /\ tx' = tx
    BY <1>4, CountKeeps DEF sockets
  <2>2. ASSUME NEW f \in Fd, NEW h \in Gen, OweNow(f, h) PROVE OweNext(f, h)
    <3>1. owed[h] \in Int /\ Total(parked[f]) \in Nat /\ Size \in Nat /\ RingSum(tx, h) \in Nat
      BY OweTypes
    <3>2. CASE h = g
      BY <2>1, <2>2, <3>1, <3>2 DEF OweNow, OweNext
    <3>3. CASE h # g
      BY <2>1, <2>2, <3>1, <3>3 DEF OweNow, OweNext
    <3> QED BY <3>2, <3>3
  <2> QED BY <2>2, OwesIs
<1>5. CASE Wait(g) \/ TimesOut(g)
  <2>1. /\ task[g] \in {"idle", "parked"} /\ task'[g] \in {"idle", "parked"} /\ \A h \in Gen \ {g} : task'[h] = task[h]
        /\ owner' = owner /\ parked' = parked /\ owed' = owed /\ tx' = tx
    BY <1>5, PauseKeeps DEF sockets, outward
  <2> QED BY <2>1, QuietOwes
<1>6. CASE Shutdown(g)
  <2>1. /\ task[g] = "idle" /\ task'[g] = "shut" /\ \A h \in Gen \ {g} : task'[h] = task[h]
        /\ tx' = Append(tx, CloseCmd(g)) /\ CloseCmd(g) \in Cmds
        /\ owner' = owner /\ parked' = parked /\ owed' = owed
    BY <1>6, ShutdownKeeps DEF sockets, outward
  <2>2. \A h \in Gen : RingSum(tx', h) = RingSum(tx, h)
    BY <2>1, CloseInRing
  <2> QED BY <2>1, <2>2, QuietOwes
<1>7. CASE End(g)
  <2>1. /\ task'[g] = "ended" /\ \A h \in Gen \ {g} : task'[h] = task[h] /\ owed'[h] = owed[h]
        /\ tx' = tx \/ (tx' = Append(tx, CloseCmd(g)) /\ CloseCmd(g) \in Cmds)
        /\ owner' = owner /\ parked' = parked
    BY <1>7, EndKeeps DEF sockets
  <2>2. \A h \in Gen : RingSum(tx', h) = RingSum(tx, h)
    BY <2>1, CloseInRing
  <2>3. ASSUME NEW f \in Fd, NEW h \in Gen, OweNow(f, h) PROVE OweNext(f, h)
    BY <2>1, <2>2, <2>3 DEF OweNow, OweNext
  <2> QED BY <2>3, OwesIs
<1> QED BY <1>2, <1>3, <1>4, <1>5, <1>6, <1>7 DEF TaskStep

LEMMA OwesInit ==
    ASSUME BridgeInit
    PROVE  Owes
BY BridgeConstants DEF BridgeInit, Owes

LEMMA OwesStep ==
    Basic /\ Seats /\ Owes /\ [BridgeNext]_bridgeVars => Owes'
<1> SUFFICES ASSUME Basic, Seats, Owes, [BridgeNext]_bridgeVars PROVE Owes'
  OBVIOUS
<1>1. CASE Drain
  BY <1>1, DrainOwes
<1>2. CASE Drained \/ Deliver \/ UNCHANGED bridgeVars
  <2>1. owner' = owner /\ parked' = parked /\ owed' = owed /\ tx' = tx /\ task' = task
    BY <1>2, UnchangedTokio DEF Drained, Deliver, bridgeVars, sockets, outward
  <2> QED BY <2>1, QuietOwes
<1>3. CASE Poll
  <2>1. /\ owner' = owner /\ parked' = parked /\ owed' = owed /\ tx' = tx
        /\ task' = [g \in Gen |-> IF g = waker /\ task[g] = "parked" THEN "idle" ELSE task[g]]
    BY <1>3 DEF Poll, sockets, outward
  <2> QED BY <2>1, QuietOwes
<1>4. CASE Service
  BY <1>4, ServiceOwes
<1>5. CASE Dispatch
  <2>1. /\ rx # <<>> /\ owner' = owner /\ parked' = parked /\ owed' = owed /\ tx' = tx
        /\ Accepted(Head(rx)) \/ Dropped(Head(rx)) \/ Unheard(Head(rx)) \/ Passed(Head(rx))
    BY <1>5, DispatchStep DEF sockets, outward
  <2>2. Accepted(Head(rx)) =>
          /\ task[Head(rx).gen] = "none" /\ Head(rx).gen \in Gen
          /\ task' = [task EXCEPT ![Head(rx).gen] = "idle"]
    BY <2>1, HeadOfRx DEF Accepted, Due
  <2>3. \A g \in Gen : task'[g] # "ended" => task[g] # "ended" /\ (task'[g] = "counting" <=> task[g] = "counting")
    BY <2>1, <2>2 DEF Basic, TokioTypes, Dropped, Unheard, Passed
  <2> QED BY <2>1, <2>3, QuietOwes
<1>6. CASE \E g \in Gen : TaskStep(g)
  BY <1>6, TaskOwes
<1> QED BY <1>1, <1>2, <1>3, <1>4, <1>5, <1>6 DEF BridgeNext, DriverStep

LEMMA OwesExact ==
    Basic /\ Owes => CountersExact
BY DEF Basic, DriverInv, SocketTypes, OpenFds, Owes, CountersExact

\* An open connection owes what is in the ring and in its backlog, and the policy
\* counts the open connections.
THEOREM CountersAreExact == BridgeSpec => []CountersExact
<1>1. BridgeInit => Basic /\ Seats /\ Owes
  BY BasicInit, OwesInit
<1>2. Basic /\ Seats /\ Owes /\ [BridgeNext]_bridgeVars => Basic' /\ Seats' /\ Owes'
  BY BasicStep, OwesStep
<1>3. BridgeSpec => [](Basic /\ Seats /\ Owes)
  BY <1>1, <1>2, PTL DEF BridgeSpec
<1> QED BY <1>3, OwesExact, PTL

-------------------------------------------------------------------------------
(* Sequences of writes: what follows what.                                       *)

LEMMA ByFields ==
    ASSUME NEW q \in Seq(Cmds), NEW g \in Gen
    PROVE  /\ Len(q) \in Nat /\ By(q, g) \subseteq 1..Len(q) /\ DOMAIN q = 1..Len(q)
           /\ \A i \in By(q, g) : i \in Nat /\ q[i].from \in Nat /\ q[i].upto \in Nat /\ q[i].from <= q[i].upto
<1>1. /\ By(q, g) \subseteq 1..Len(q) /\ \A i \in By(q, g) : q[i] \in Write
  BY RingSumIs
<1>2. \A i \in By(q, g) : q[i].from \in Nat /\ q[i].upto \in Nat /\ q[i].from <= q[i].upto
  BY <1>1, UnitsNat
<1>3. Len(q) \in Nat /\ DOMAIN q = 1..Len(q)
  BY LenProperties
<1> QED BY <1>1, <1>2, <1>3

LEMMA ByBefore ==
    ASSUME NEW q \in Seq(Cmds), NEW c \in Cmds, NEW g \in Gen, NEW i \in By(q, g)
    PROVE  Append(q, c)[i] = q[i] /\ i < Len(q) + 1
<1>1. i \in 1..Len(q) /\ Len(q) \in Nat
  BY ByFields
<1>2. \A j \in 1..Len(q) : Append(q, c)[j] = q[j]
  BY Appended
<1> QED BY <1>1, <1>2

LEMMA ByAppend ==
    ASSUME NEW q \in Seq(Cmds), NEW c \in Cmds, NEW g \in Gen
    PROVE  /\ By(Append(q, c), g) = IF c.kind = "send" /\ c.gen = g THEN By(q, g) \cup {Len(q) + 1} ELSE By(q, g)
           /\ Append(q, c)[Len(q) + 1] = c
<1> DEFINE n == Len(q)
           r == Append(q, c)
<1>1. /\ n \in Nat /\ DOMAIN q = 1..n /\ DOMAIN r = 1..n + 1
      /\ \A i \in 1..n : r[i] = q[i]
      /\ r[n + 1] = c
  BY Appended
<1> HIDE DEF r
<1>2. \A i : i \in By(r, g) <=> i \in By(q, g) \/ (i = n + 1 /\ c.kind = "send" /\ c.gen = g)
  <2>1. \A i \in 1..n + 1 : i \in 1..n \/ i = n + 1
    BY <1>1
  <2>2. \A i \in 1..n : i \in 1..n + 1
    BY <1>1
  <2>3. n + 1 \in 1..n + 1
    BY <1>1
  <2> QED BY <1>1, <2>1, <2>2, <2>3 DEF By
<1>3. By(r, g) = IF c.kind = "send" /\ c.gen = g THEN By(q, g) \cup {n + 1} ELSE By(q, g)
  BY <1>2
<1> QED BY <1>1, <1>3 DEF r

LEMMA ByTail ==
    ASSUME NEW q \in Seq(Cmds), q # <<>>, NEW g \in Gen
    PROVE  /\ \A i \in By(q, g) : /\ i \in Nat /\ i >= 1
                                  /\ q[i] \in Write /\ q[i].from \in Nat /\ q[i].upto \in Nat /\ q[i].from <= q[i].upto
           /\ \A i \in By(Tail(q), g) : i + 1 \in By(q, g) /\ Tail(q)[i] = q[i + 1] /\ i \in Nat /\ i >= 1
           /\ \A i \in By(q, g) : i = 1 \/ (i - 1 \in By(Tail(q), g) /\ Tail(q)[i - 1] = q[i])
           /\ 1 \in By(q, g) <=> Head(q).kind = "send" /\ Head(q).gen = g
           /\ Head(q) = q[1]
<1> DEFINE r == Tail(q)
           n == Len(q)
<1>1. /\ n \in Nat /\ n >= 1 /\ DOMAIN q = 1..n /\ DOMAIN r = 1..n - 1 /\ Head(q) = q[1]
      /\ \A i \in 1..n - 1 : r[i] = q[i + 1]
  BY Shortened
<1>2. By(q, g) \subseteq 1..n /\ \A i \in By(q, g) : q[i] \in Write
  BY RingSumIs
<1>3. \A i \in By(q, g) : q[i].from \in Nat /\ q[i].upto \in Nat /\ q[i].from <= q[i].upto
  BY <1>2, UnitsNat
<1> HIDE DEF r
<1>4. \A i \in By(r, g) : i + 1 \in By(q, g) /\ r[i] = q[i + 1] /\ i \in Nat /\ i >= 1
  <2>1. \A i \in 1..n - 1 : i + 1 \in 1..n /\ i \in Nat /\ i >= 1
    BY <1>1
  <2> QED BY <1>1, <2>1 DEF By
<1>5. \A i \in By(q, g) : i = 1 \/ (i - 1 \in By(r, g) /\ r[i - 1] = q[i])
  <2>1. ASSUME NEW i \in By(q, g), i # 1 PROVE i - 1 \in By(r, g) /\ r[i - 1] = q[i]
    <3>1. i \in 1..n /\ i - 1 \in 1..n - 1 /\ (i - 1) + 1 = i
      BY <1>1, <1>2, <2>1
    <3>2. r[i - 1] = q[(i - 1) + 1]
      BY <1>1, <3>1
    <3>3. r[i - 1] = q[i]
      BY <3>1, <3>2
    <3>4. q[i].kind = "send" /\ q[i].gen = g
      BY DEF By
    <3> QED BY <1>1, <3>1, <3>3, <3>4 DEF By
  <2> QED BY <2>1
<1>6. 1 \in By(q, g) <=> Head(q).kind = "send" /\ Head(q).gen = g
  <2>1. 1 \in DOMAIN q
    BY <1>1
  <2> QED BY <1>1, <2>1 DEF By
<1>7. \A i \in By(q, g) : i \in Nat /\ i >= 1
  BY <1>1, <1>2
<1> QED BY <1>1, <1>2, <1>3, <1>4, <1>5, <1>6, <1>7 DEF r

\* The ring gets a write that begins where the last one ended, or another's.
LEMMA RingMade ==
    ASSUME NEW q \in Seq(Cmds), NEW c \in Cmds, NEW g \in Gen, NEW m \in Nat, NEW k \in Nat,
           \A i \in By(q, g) : q[i].upto <= m,
           c.kind = "send" /\ c.gen = g => c.from = m + 1 /\ c.upto = m + k
    PROVE  /\ RisingOf(q, g) => RisingOf(Append(q, c), g)
           /\ c.kind = "send" /\ c.gen = g => \A i \in By(Append(q, c), g) : Append(q, c)[i].upto <= m + k
           /\ ~(c.kind = "send" /\ c.gen = g) => \A i \in By(Append(q, c), g) : Append(q, c)[i].upto <= m
           /\ \A n \in Nat : LinkedTo(q, g, n) /\ Met(q, g, n, m) =>
                 /\ LinkedTo(Append(q, c), g, n)
                 /\ c.kind = "send" /\ c.gen = g => Met(Append(q, c), g, n, m + k)
                 /\ ~(c.kind = "send" /\ c.gen = g) => Met(Append(q, c), g, n, m)
<1> DEFINE r == Append(q, c)
           e == Len(q) + 1
           S == By(q, g)
           T == By(r, g)
<1>1. /\ T = IF c.kind = "send" /\ c.gen = g THEN S \cup {e} ELSE S
      /\ r[e] = c /\ e \in Nat
      /\ \A i \in S : /\ r[i] = q[i] /\ i \in Nat /\ i < e
                      /\ q[i].from \in Nat /\ q[i].upto \in Nat /\ q[i].from <= q[i].upto
  <2>1. By(Append(q, c), g) = IF c.kind = "send" /\ c.gen = g THEN By(q, g) \cup {Len(q) + 1} ELSE By(q, g)
    BY ByAppend
  <2>2. Append(q, c)[Len(q) + 1] = c
    BY ByAppend
  <2>3. Len(q) \in Nat /\ (Len(q) \in Nat => Len(q) + 1 \in Nat)
    BY ByFields
  <2>4. \A i \in By(q, g) : Append(q, c)[i] = q[i] /\ i < Len(q) + 1
    BY ByBefore
  <2>5. \A i \in By(q, g) : i \in Nat /\ q[i].from \in Nat /\ q[i].upto \in Nat /\ q[i].from <= q[i].upto
    BY ByFields
  <2>6. T = IF c.kind = "send" /\ c.gen = g THEN S \cup {e} ELSE S
    BY <2>1
  <2>7. r[e] = c /\ e \in Nat
    BY <2>2, <2>3
  <2>8. \A i \in S : r[i] = q[i] /\ i < e
    BY <2>4
  <2> QED BY <2>5, <2>6, <2>7, <2>8
<1>2. \A i \in S : q[i].upto <= m
  OBVIOUS
<1>3. /\ RisingOf(q, g) <=> \A i, j \in S : i < j => q[i].upto < q[j].from
      /\ RisingOf(r, g) <=> \A i, j \in T : i < j => r[i].upto < r[j].from
  BY DEF RisingOf
<1>4. \A n : /\ LinkedTo(q, g, n) <=> \A i \in S : q[i].from = n + 1 \/ \E j \in S : j < i /\ q[i].from = q[j].upto + 1
             /\ LinkedTo(r, g, n) <=> \A i \in T : r[i].from = n + 1 \/ \E j \in T : j < i /\ r[i].from = r[j].upto + 1
  BY DEF LinkedTo
<1>5. \A n, t : /\ Met(q, g, n, t) <=> t = n \/ \E i \in S : q[i].upto = t
                /\ Met(r, g, n, t) <=> t = n \/ \E i \in T : r[i].upto = t
  BY DEF Met
<1> HIDE DEF r, e, S, T
<1>6. CASE c.kind = "send" /\ c.gen = g
  <2>1. T = S \cup {e} /\ c.from = m + 1 /\ c.upto = m + k
    BY <1>1, <1>6
  <2>2. ASSUME RisingOf(q, g) PROVE RisingOf(r, g)
    <3>1. ASSUME NEW i \in T, NEW j \in T, i < j PROVE r[i].upto < r[j].from
      <4>1. CASE j = e
        <5>1. i \in S
          BY <1>1, <2>1, <3>1, <4>1
        <5>2. r[i].upto \in Nat /\ r[i].upto <= m
          BY <1>1, <1>2, <5>1
        <5> QED BY <1>1, <2>1, <4>1, <5>2
      <4>2. CASE j \in S
        <5>1. i \in S /\ r[i] = q[i] /\ r[j] = q[j]
          BY <1>1, <2>1, <3>1, <4>2
        <5> QED BY <1>3, <2>2, <3>1, <4>2, <5>1
      <4> QED BY <2>1, <4>1, <4>2
    <3> QED BY <1>3, <3>1
  <2>3. \A i \in T : r[i].upto <= m + k
    BY <1>1, <1>2, <2>1
  <2>4. ASSUME NEW n \in Nat, LinkedTo(q, g, n), Met(q, g, n, m)
        PROVE  LinkedTo(r, g, n) /\ Met(r, g, n, m + k)
    <3>1. Met(r, g, n, m + k)
      BY <1>1, <1>5, <2>1
    <3>2. r[e].from = n + 1 \/ \E j \in T : j < e /\ r[e].from = r[j].upto + 1
      BY <1>1, <1>5, <2>1, <2>4
    <3>3. ASSUME NEW i \in S
          PROVE  r[i].from = n + 1 \/ \E j \in T : j < i /\ r[i].from = r[j].upto + 1
      <4>1. q[i].from = n + 1 \/ \E j \in S : j < i /\ q[i].from = q[j].upto + 1
        BY <1>4, <2>4
      <4> QED BY <1>1, <2>1, <4>1
    <3> QED BY <1>4, <2>1, <3>1, <3>2, <3>3
  <2> QED BY <1>6, <2>2, <2>3, <2>4 DEF r, T
<1>7. CASE ~(c.kind = "send" /\ c.gen = g)
  <2>1. T = S
    BY <1>1, <1>7
  <2>2. RisingOf(q, g) => RisingOf(r, g)
    BY <1>1, <1>3, <2>1
  <2>3. \A i \in T : r[i].upto <= m
    BY <1>1, <1>2, <2>1
  <2>4. ASSUME NEW n \in Nat, LinkedTo(q, g, n), Met(q, g, n, m)
        PROVE  LinkedTo(r, g, n) /\ Met(r, g, n, m)
    <3>1. Met(r, g, n, m)
      BY <1>1, <1>5, <2>1, <2>4
    <3>2. ASSUME NEW i \in S
          PROVE  r[i].from = n + 1 \/ \E j \in T : j < i /\ r[i].from = r[j].upto + 1
      <4>1. q[i].from = n + 1 \/ \E j \in S : j < i /\ q[i].from = q[j].upto + 1
        BY <1>4, <2>4
      <4> QED BY <1>1, <2>1, <4>1
    <3> QED BY <1>4, <2>1, <3>1, <3>2
  <2> QED BY <1>7, <2>2, <2>3, <2>4 DEF r, T
<1> QED BY <1>6, <1>7

\* A command of no connection of ours is appended: a ring that is not bounded.
LEMMA RingRises ==
    ASSUME NEW q \in Seq(Cmds), NEW c \in Cmds, NEW g \in Gen, ~(c.kind = "send" /\ c.gen = g)
    PROVE  /\ RisingOf(q, g) => RisingOf(Append(q, c), g)
           /\ \A n : LinkedTo(q, g, n) => LinkedTo(Append(q, c), g, n)
<1> DEFINE r == Append(q, c)
           S == By(q, g)
<1>1. \A i \in By(q, g) : Append(q, c)[i] = q[i]
  BY ByBefore
<1>2. By(Append(q, c), g) = By(q, g)
  BY ByAppend
<1>3. /\ RisingOf(q, g) <=> \A i, j \in By(q, g) : i < j => q[i].upto < q[j].from
      /\ RisingOf(r, g) <=> \A i, j \in By(r, g) : i < j => r[i].upto < r[j].from
  BY DEF RisingOf
<1>4. \A n : /\ LinkedTo(q, g, n) <=> \A i \in S : q[i].from = n + 1 \/ \E j \in S : j < i /\ q[i].from = q[j].upto + 1
             /\ LinkedTo(r, g, n) <=> \A i \in By(r, g) : r[i].from = n + 1 \/ \E j \in By(r, g) : j < i /\ r[i].from = r[j].upto + 1
  BY DEF LinkedTo
<1>5. By(r, g) = S /\ (\A i \in S : r[i] = q[i]) /\ By(q, g) = S
  BY <1>1, <1>2
<1> HIDE DEF r, S
<1>6. RisingOf(q, g) => RisingOf(r, g)
  BY <1>3, <1>5
<1>7. ASSUME NEW n, LinkedTo(q, g, n) PROVE LinkedTo(r, g, n)
  BY <1>4, <1>5, <1>7
<1> QED BY <1>6, <1>7 DEF r

\* The ring loses its head: a write of the connection, which was the next, or not.
LEMMA RingTaken ==
    ASSUME NEW q \in Seq(Cmds), q # <<>>, NEW g \in Gen
    PROVE  /\ RisingOf(q, g) => RisingOf(Tail(q), g)
           /\ \A m : (\A i \in By(q, g) : q[i].upto <= m) => \A i \in By(Tail(q), g) : Tail(q)[i].upto <= m
           /\ \A n \in Nat, m \in Nat :
                 ~(Head(q).kind = "send" /\ Head(q).gen = g) =>
                     /\ LinkedTo(q, g, n) => LinkedTo(Tail(q), g, n)
                     /\ Met(q, g, n, m) => Met(Tail(q), g, n, m)
           /\ \A n \in Nat :
                 Head(q).kind = "send" /\ Head(q).gen = g /\ LinkedTo(q, g, n) /\ RisingOf(q, g) =>
                     /\ Head(q).from = n + 1
                     /\ LinkedTo(Tail(q), g, Head(q).upto)
                     /\ \A m \in Nat : Met(q, g, n, m) /\ (\A i \in By(q, g) : q[i].upto <= m)
                                          => Met(Tail(q), g, Head(q).upto, m)
<1> DEFINE r == Tail(q)
           S == By(q, g)
           T == By(r, g)
           c == Head(q)
<1>1. /\ \A i \in S : /\ i \in Nat /\ i >= 1
                      /\ q[i].from \in Nat /\ q[i].upto \in Nat /\ q[i].from <= q[i].upto
      /\ \A i \in T : i + 1 \in S /\ r[i] = q[i + 1] /\ i \in Nat /\ i >= 1
      /\ \A i \in S : i = 1 \/ (i - 1 \in T /\ r[i - 1] = q[i])
      /\ 1 \in S <=> c.kind = "send" /\ c.gen = g
      /\ c = q[1]
  BY ByTail
<1>2. /\ RisingOf(q, g) <=> \A i, j \in S : i < j => q[i].upto < q[j].from
      /\ RisingOf(r, g) <=> \A i, j \in T : i < j => r[i].upto < r[j].from
  BY DEF RisingOf
<1>3. \A n : /\ LinkedTo(q, g, n) <=> \A i \in S : q[i].from = n + 1 \/ \E j \in S : j < i /\ q[i].from = q[j].upto + 1
             /\ LinkedTo(r, g, n) <=> \A i \in T : r[i].from = n + 1 \/ \E j \in T : j < i /\ r[i].from = r[j].upto + 1
  BY DEF LinkedTo
<1>4. \A n, t : /\ Met(q, g, n, t) <=> t = n \/ \E i \in S : q[i].upto = t
                /\ Met(r, g, n, t) <=> t = n \/ \E i \in T : r[i].upto = t
  BY DEF Met
<1> HIDE DEF r, S, T, c
<1>5. RisingOf(q, g) => RisingOf(r, g)
  <2>1. ASSUME RisingOf(q, g), NEW i \in T, NEW j \in T, i < j PROVE r[i].upto < r[j].from
    <3>1. i + 1 < j + 1
      BY <1>1, <2>1
    <3> QED BY <1>1, <1>2, <2>1, <3>1
  <2> QED BY <1>2, <2>1
<1>6. \A m : (\A i \in S : q[i].upto <= m) => \A i \in T : r[i].upto <= m
  BY <1>1
<1>7. ASSUME NEW n \in Nat, NEW m \in Nat, ~(c.kind = "send" /\ c.gen = g)
      PROVE  /\ LinkedTo(q, g, n) => LinkedTo(r, g, n)
             /\ Met(q, g, n, m) => Met(r, g, n, m)
  <2>1. \A i \in S : i - 1 \in T /\ r[i - 1] = q[i]
    BY <1>1, <1>7
  <2>2. ASSUME LinkedTo(q, g, n), NEW i \in T
        PROVE  r[i].from = n + 1 \/ \E j \in T : j < i /\ r[i].from = r[j].upto + 1
    <3>1. q[i + 1].from = n + 1 \/ \E j \in S : j < i + 1 /\ q[i + 1].from = q[j].upto + 1
      BY <1>1, <1>3, <2>2
    <3>2. ASSUME NEW j \in S, j < i + 1, q[i + 1].from = q[j].upto + 1
          PROVE  \E d \in T : d < i /\ r[i].from = r[d].upto + 1
      <4>1. j - 1 \in T /\ r[j - 1] = q[j] /\ j - 1 < i
        BY <1>1, <2>1, <3>2
      <4> QED BY <1>1, <3>2, <4>1
    <3> QED BY <1>1, <3>1, <3>2
  <2> QED BY <1>3, <1>4, <2>1, <2>2
<1>8. ASSUME NEW n \in Nat, c.kind = "send", c.gen = g, LinkedTo(q, g, n), RisingOf(q, g)
      PROVE  /\ c.from = n + 1
             /\ LinkedTo(r, g, c.upto)
             /\ \A m \in Nat : Met(q, g, n, m) /\ (\A i \in S : q[i].upto <= m) => Met(r, g, c.upto, m)
  <2>1. 1 \in S /\ c = q[1]
    BY <1>1, <1>8
  <2>2. c.from = n + 1
    <3>1. \A j \in S : ~(j < 1)
      BY <1>1
    <3> QED BY <1>3, <1>8, <2>1, <3>1
  <2>3. c.from \in Nat /\ c.upto \in Nat /\ c.from <= c.upto
    BY <1>1, <2>1
  <2>4. ASSUME NEW i \in T
        PROVE  r[i].from = c.upto + 1 \/ \E j \in T : j < i /\ r[i].from = r[j].upto + 1
    <3>1. i + 1 \in S /\ r[i] = q[i + 1] /\ i \in Nat /\ 1 < i + 1
      BY <1>1, <2>4
    <3>2. c.upto < q[i + 1].from /\ q[i + 1].from \in Nat
      BY <1>1, <1>2, <1>8, <2>1, <3>1
    <3>3. q[i + 1].from # n + 1
      BY <2>2, <2>3, <3>2
    <3>4. PICK j \in S : j < i + 1 /\ q[i + 1].from = q[j].upto + 1
      BY <1>3, <1>8, <3>1, <3>3
    <3>5. CASE j = 1
      BY <2>1, <3>1, <3>4, <3>5
    <3>6. CASE j # 1
      <4>1. j - 1 \in T /\ r[j - 1] = q[j] /\ j - 1 < i
        BY <1>1, <3>1, <3>4, <3>6
      <4> QED BY <3>1, <3>4, <4>1
    <3> QED BY <3>5, <3>6
  <2>5. ASSUME NEW m \in Nat, Met(q, g, n, m), \A i \in S : q[i].upto <= m PROVE Met(r, g, c.upto, m)
    <3>1. m # n
      BY <2>1, <2>2, <2>3, <2>5
    <3>2. PICK i \in S : q[i].upto = m
      BY <1>4, <2>5, <3>1
    <3>3. CASE i = 1
      BY <1>4, <2>1, <3>2, <3>3
    <3>4. CASE i # 1
      BY <1>1, <1>4, <3>2, <3>4
    <3> QED BY <3>3, <3>4
  <2> QED BY <1>3, <2>2, <2>4, <2>5
<1>9. \A n \in Nat : c.kind = "send" /\ c.gen = g /\ LinkedTo(q, g, n) /\ RisingOf(q, g) =>
          /\ c.from = n + 1
          /\ LinkedTo(r, g, c.upto)
          /\ \A m \in Nat : Met(q, g, n, m) /\ (\A i \in S : q[i].upto <= m) => Met(r, g, c.upto, m)
  BY <1>8
<1>10. \A n \in Nat, m \in Nat : ~(c.kind = "send" /\ c.gen = g) =>
          /\ LinkedTo(q, g, n) => LinkedTo(r, g, n)
          /\ Met(q, g, n, m) => Met(r, g, n, m)
  BY <1>7
<1> QED BY <1>5, <1>6, <1>9, <1>10 DEF r, S, T, c

\* The backlog of a socket that has n units on the wire.
LEMMA FinalNat ==
    ASSUME NEW p \in Seq(Write), NEW n \in Nat
    PROVE  FinalOf(p, n) \in Nat
<1>1. CASE p = <<>>
  BY <1>1 DEF FinalOf
<1>2. CASE p # <<>>
  <2>1. Len(p) \in Nat /\ Len(p) >= 1 /\ DOMAIN p = 1..Len(p)
    BY <1>2, Shortened
  <2>2. Len(p) \in DOMAIN p
    BY <2>1
  <2>3. p[Len(p)] \in Write
    BY <2>2, ElementOfSeq, LenProperties
  <2> QED BY <1>2, <2>3, UnitsNat DEF FinalOf
<1> QED BY <1>1, <1>2

\* A write parked behind a backlog begins where the backlog ends.
LEMMA ChainMore ==
    ASSUME NEW p \in Seq(Write), NEW n \in Nat, NEW c \in Write, ChainedOn(p, n), c.from = FinalOf(p, n) + 1
    PROVE  ChainedOn(Append(p, c), n) /\ FinalOf(Append(p, c), n) = c.upto
<1> DEFINE r == Append(p, c)
           e == Len(p)
<1>1. /\ r # <<>> /\ Len(r) = e + 1 /\ e \in Nat /\ DOMAIN p = 1..e /\ DOMAIN r = 1..e + 1
      /\ \A i \in 1..e : r[i] = p[i]
      /\ r[e + 1] = c
  BY Appended
<1>2. p # <<>> => e >= 1 /\ 1 \in 1..e /\ e \in 1..e
  BY <1>1, Shortened
<1>3. p = <<>> => e = 0
  BY <1>1, EmptySeq
<1> HIDE DEF r
<1>4. FinalOf(r, n) = c.upto
  BY <1>1 DEF FinalOf
<1>5. r[1].from = n + 1
  <2>1. CASE p = <<>>
    BY <1>1, <1>3, <2>1 DEF FinalOf
  <2>2. CASE p # <<>>
    BY <1>1, <1>2, <2>2 DEF ChainedOn
  <2> QED BY <2>1, <2>2
<1>6. ASSUME NEW i \in 1..Len(r) - 1 PROVE r[i + 1].from = r[i].upto + 1
  <2>1. i \in 1..e /\ r[i] = p[i] /\ p # <<>>
    <3>1. i \in 1..e
      BY <1>1
    <3> QED BY <1>1, <1>3, <3>1
  <2>2. CASE i = e
    <3>1. c.from = p[e].upto + 1
      BY <2>1 DEF FinalOf
    <3>2. r[i + 1] = c /\ r[i] = p[e]
      BY <1>1, <2>1, <2>2
    <3> QED BY <3>1, <3>2
  <2>3. CASE i # e
    <3>3. i \in 1..e /\ e \in Nat
      BY <1>1, <2>1
    <3>1. i \in 1..e - 1 /\ i + 1 \in 1..e
      BY <2>3, <3>3
    <3>2. p[i + 1].from = p[i].upto + 1
      BY <2>1, <3>1 DEF ChainedOn
    <3> QED BY <1>1, <2>1, <3>1, <3>2
  <2> QED BY <2>2, <2>3
<1> QED BY <1>1, <1>4, <1>5, <1>6 DEF ChainedOn, r

\* The head of a backlog is the next; gone, in whole or in part, it leaves a chain.
LEMMA ChainLess ==
    ASSUME NEW p \in Seq(Write), p # <<>>, NEW n \in Nat, ChainedOn(p, n)
    PROVE  /\ Head(p).from = n + 1 /\ Head(p) \in Write
           /\ ChainedOn(Tail(p), Head(p).upto) /\ FinalOf(Tail(p), Head(p).upto) = FinalOf(p, n)
<1> DEFINE r == Tail(p)
           e == Len(p)
<1>1. /\ Head(p) \in Write /\ Head(p) = p[1] /\ 1 \in DOMAIN p
      /\ r \in Seq(Write) /\ Len(r) = e - 1 /\ e \in Nat /\ e >= 1 /\ DOMAIN p = 1..e /\ DOMAIN r = 1..e - 1
      /\ \A i \in 1..e - 1 : r[i] = p[i + 1]
  BY Shortened
<1>2. p[1].from = n + 1 /\ \A i \in 1..e - 1 : p[i + 1].from = p[i].upto + 1
  BY DEF ChainedOn
<1> HIDE DEF r
<1>3. r = <<>> => e = 1
  <2>1. Len(<<>>) = 0
    BY EmptySeq
  <2>2. r = <<>> => e - 1 = 0
    BY <1>1, <2>1
  <2> QED BY <1>1, <2>2
<1>4. r # <<>> => e - 1 >= 1 /\ e - 1 \in 1..e - 1 /\ 1 \in 1..e - 1
  <2>1. r # <<>> => Len(r) >= 1
    BY <1>1, Shortened
  <2> QED BY <1>1, <2>1
<1>5. FinalOf(r, Head(p).upto) = FinalOf(p, n)
  <2>1. CASE r = <<>>
    BY <1>1, <1>3, <2>1 DEF FinalOf
  <2>2. CASE r # <<>>
    <3>1. (e - 1) + 1 = e
      BY <1>1
    <3>2. r[Len(r)] = p[e]
      BY <1>1, <1>4, <2>2, <3>1
    <3> QED BY <2>2, <3>2 DEF FinalOf
  <2> QED BY <2>1, <2>2
<1>6. ASSUME r # <<>> PROVE r[1].from = Head(p).upto + 1
  <2>1. r[1] = p[1 + 1] /\ p[1 + 1].from = p[1].upto + 1
    BY <1>1, <1>2, <1>4, <1>6
  <2> QED BY <1>1, <2>1
<1>7. ASSUME NEW i \in 1..Len(r) - 1 PROVE r[i + 1].from = r[i].upto + 1
  <2>1. i \in 1..e - 1 /\ i + 1 \in 1..e - 1
    BY <1>1
  <2> QED BY <1>1, <1>2, <2>1
<1> QED BY <1>1, <1>2, <1>5, <1>6, <1>7 DEF ChainedOn, r

\* A write of which a part went out stays the first of its backlog.
LEMMA ChainFront ==
    ASSUME NEW p \in Seq(Write), p # <<>>, NEW n \in Nat, ChainedOn(p, n),
           NEW k \in Nat, NEW c \in Write, c.from = Head(p).from + k, c.upto = Head(p).upto
    PROVE  ChainedOn(<<c>> \o Tail(p), n + k) /\ FinalOf(<<c>> \o Tail(p), n + k) = FinalOf(p, n)
<1> DEFINE r == <<c>> \o Tail(p)
           t == Tail(p)
           e == Len(t)
<1>1. /\ Head(p).from = n + 1 /\ Head(p) \in Write
      /\ ChainedOn(t, Head(p).upto) /\ FinalOf(t, Head(p).upto) = FinalOf(p, n)
  BY ChainLess
<1>2. t \in Seq(Write)
  BY Shortened
<1> HIDE DEF t
<1>3. /\ r # <<>> /\ Len(r) = e + 1 /\ e \in Nat /\ DOMAIN r = 1..e + 1
      /\ r[1] = c
      /\ \A i \in 1..e : r[i + 1] = t[i]
  BY <1>2, Fronted DEF t
<1>4. t = <<>> => e = 0
  BY EmptySeq
<1>5. t # <<>> => e >= 1 /\ 1 \in 1..e /\ e \in 1..e
  <2>1. t # <<>> => e >= 1
    BY <1>2, Shortened
  <2> QED BY <1>3, <2>1
<1> HIDE DEF r
<1>6. FinalOf(r, n + k) = FinalOf(p, n)
  <2>1. CASE t = <<>>
    BY <1>1, <1>3, <1>4, <2>1 DEF FinalOf
  <2>2. CASE t # <<>>
    BY <1>1, <1>3, <1>5, <2>2 DEF FinalOf
  <2> QED BY <2>1, <2>2
<1>7. r[1].from = (n + k) + 1
  <2>1. r[1].from = Head(p).from + k
    BY <1>3
  <2>2. (n + 1) + k = (n + k) + 1
    OBVIOUS
  <2> QED BY <1>1, <2>1, <2>2
<1>8. ASSUME NEW i \in 1..Len(r) - 1 PROVE r[i + 1].from = r[i].upto + 1
  <2>1. i \in 1..e /\ r[i + 1] = t[i] /\ t # <<>>
    <3>1. i \in 1..e
      BY <1>3
    <3> QED BY <1>3, <1>4, <3>1
  <2>2. CASE i = 1
    BY <1>1, <1>3, <2>1, <2>2 DEF ChainedOn
  <2>3. CASE i # 1
    <3>1. PICK j \in 1..e - 1 : i = j + 1
      <4>1. i - 1 \in 1..e - 1 /\ i = (i - 1) + 1
        BY <1>3, <2>1, <2>3
      <4> QED BY <4>1
    <3>2. t[j + 1].from = t[j].upto + 1
      BY <1>1, <2>1, <3>1 DEF ChainedOn
    <3>3. r[j + 1] = t[j]
      BY <1>3, <3>1
    <3> QED BY <2>1, <3>1, <3>2, <3>3
  <2> QED BY <2>2, <2>3
<1> QED BY <1>3, <1>6, <1>7, <1>8 DEF ChainedOn, r, t

-------------------------------------------------------------------------------
(* From the wire through the backlog and the ring to the task.                   *)

\* Commands that are not a connection's sends leave its line alone.
LEMMA LineSkips ==
    ASSUME NEW q \in Seq(Cmds), NEW c \in Cmds, NEW g \in Gen, ~(c.kind = "send" /\ c.gen = g),
           NEW p \in Seq(Write), NEW n \in Nat, NEW e, NEW m \in Nat, RingOK(q, g, e, m)
    PROVE  /\ RingOK(Append(q, c), g, e, m)
           /\ LineOK(q, g, p, n, e, m) => LineOK(Append(q, c), g, p, n, e, m)
<1>1. FinalOf(p, n) \in Nat
  BY FinalNat
<1>2. /\ RisingOf(Append(q, c), g)
      /\ \A k : LinkedTo(q, g, k) => LinkedTo(Append(q, c), g, k)
  BY RingRises DEF RingOK
<1>3. ASSUME ~e
      PROVE  /\ \A i \in By(Append(q, c), g) : Append(q, c)[i].upto <= m
             /\ \A k \in Nat : LinkedTo(q, g, k) /\ Met(q, g, k, m) => Met(Append(q, c), g, k, m)
  <2>1. \A i \in By(q, g) : q[i].upto <= m
    BY <1>3 DEF RingOK
  <2>2. 0 \in Nat
    OBVIOUS
  <2> QED BY <2>1, <2>2, RingMade
<1> QED BY <1>1, <1>2, <1>3 DEF RingOK, LineOK

\* A send taken from the ring begins where the backlog ends.
LEMMA LineTakes ==
    ASSUME NEW q \in Seq(Cmds), q # <<>>, NEW g \in Gen, NEW e, NEW m \in Nat, RingOK(q, g, e, m)
    PROVE  /\ RingOK(Tail(q), g, e, m)
           /\ \A p \in Seq(Write), n \in Nat :
                 ~(Head(q).kind = "send" /\ Head(q).gen = g) /\ LineOK(q, g, p, n, e, m)
                    => LineOK(Tail(q), g, p, n, e, m)
           /\ \A p \in Seq(Write), n \in Nat :
                 Head(q).kind = "send" /\ Head(q).gen = g /\ LineOK(q, g, p, n, e, m) =>
                    /\ Head(q).from = FinalOf(p, n) + 1
                    /\ LinkedTo(Tail(q), g, Head(q).upto)
                    /\ ~e => Met(Tail(q), g, Head(q).upto, m)
<1>1. RingOK(Tail(q), g, e, m)
  BY RingTaken DEF RingOK
<1>2. ASSUME NEW p \in Seq(Write), NEW n \in Nat, LineOK(q, g, p, n, e, m),
             ~(Head(q).kind = "send" /\ Head(q).gen = g)
      PROVE  LineOK(Tail(q), g, p, n, e, m)
  <2>1. FinalOf(p, n) \in Nat
    BY FinalNat
  <2> QED BY <1>2, <2>1, RingTaken DEF LineOK
<1>3. ASSUME NEW p \in Seq(Write), NEW n \in Nat, LineOK(q, g, p, n, e, m),
             Head(q).kind = "send" /\ Head(q).gen = g
      PROVE  /\ Head(q).from = FinalOf(p, n) + 1
             /\ LinkedTo(Tail(q), g, Head(q).upto)
             /\ ~e => Met(Tail(q), g, Head(q).upto, m)
  <2>1. PICK k \in Nat : k = FinalOf(p, n)
    BY FinalNat
  <2>2. LinkedTo(q, g, k) /\ RisingOf(q, g) /\ (~e => Met(q, g, k, m)) /\ (~e => \A i \in By(q, g) : q[i].upto <= m)
    BY <1>3, <2>1 DEF LineOK, RingOK
  <2>3. /\ Head(q).from = k + 1
        /\ LinkedTo(Tail(q), g, Head(q).upto)
        /\ Met(q, g, k, m) /\ (\A i \in By(q, g) : q[i].upto <= m) => Met(Tail(q), g, Head(q).upto, m)
    BY <1>3, <2>2, RingTaken
  <2> QED BY <2>1, <2>2, <2>3
<1> QED BY <1>1, <1>2, <1>3

\* A task that is done bounds nothing.
LEMMA LineEnds ==
    ASSUME NEW q, NEW g, NEW p, NEW n, NEW e, NEW m
    PROVE  /\ RingOK(q, g, e, m) => RingOK(q, g, TRUE, 0)
           /\ LineOK(q, g, p, n, e, m) => LineOK(q, g, p, n, TRUE, 0)
BY DEF RingOK, LineOK

LEMMA WireTypes ==
    ASSUME Basic
    PROVE  /\ tx \in Seq(Cmds)
           /\ \A g \in Gen : writes[g] * Size \in Nat /\ Len(wire[g]) \in Nat /\ writes[g] \in Nat
           /\ \A f \in Fd : parked[f] \in Seq(Write) /\ (owner[f] # 0 => owner[f] \in Gen)
           /\ \A f \in Fd : owner[f] # 0 => FinalOf(parked[f], Len(wire[owner[f]])) \in Nat
           /\ \A e, f \in Fd : owner[e] = owner[f] /\ owner[f] # 0 => e = f
           /\ OutwardTypes /\ SocketTypes /\ DriverInv /\ TokioTypes
<1>1. tx \in Seq(Cmds) /\ OutwardTypes /\ SocketTypes /\ TokioTypes /\ DriverInv /\ Owned
  BY DEF Basic, RingTypes, DriverInv
<1>2. \A g \in Gen : writes[g] * Size \in Nat /\ Len(wire[g]) \in Nat /\ writes[g] \in Nat
  <2>1. ASSUME NEW g \in Gen PROVE writes[g] \in Nat /\ wire[g] \in Seq(Gen \X Nat)
    BY <1>1 DEF TokioTypes, OutwardTypes
  <2>2. \A n \in Nat : n * Size \in Nat
    BY BridgeConstants
  <2> QED BY <2>1, <2>2, LenProperties
<1>3. \A f \in Fd : parked[f] \in Seq(Write) /\ (owner[f] # 0 => owner[f] \in Gen)
  BY <1>1, OwnerGen DEF OutwardTypes
<1>4. \A f \in Fd : owner[f] # 0 => FinalOf(parked[f], Len(wire[owner[f]])) \in Nat
  BY <1>2, <1>3, FinalNat
<1> QED BY <1>1, <1>2, <1>3, <1>4 DEF Owned

\* The invariant in its next state, piece by piece.
LineNext(f) ==
    owner'[f] # 0 =>
        LineOK(tx', owner'[f], parked'[f], Len(wire'[owner'[f]]), task'[owner'[f]] = "ended", writes'[owner'[f]] * Size)

LEMMA WireIs ==
    ASSUME \A g \in Gen : InOrder(wire'[g], g),
           \A g \in Gen : RingOK(tx', g, task'[g] = "ended", writes'[g] * Size),
           \A f \in Fd : LineNext(f)
    PROVE  WireInv'
BY DEF WireInv, LineNext

\* A step that moves no byte.
LEMMA WireQuiet ==
    ASSUME Basic, WireInv, UNCHANGED <<tx, parked, wire, owner, writes>>,
           \A g \in Gen : task'[g] = "ended" <=> task[g] = "ended"
    PROVE  WireInv'
<1>1. \A g \in Gen : (task'[g] = "ended") = (task[g] = "ended")
  OBVIOUS
<1>2. ASSUME NEW g \in Gen
      PROVE  InOrder(wire'[g], g) /\ RingOK(tx', g, task'[g] = "ended", writes'[g] * Size)
  <2>1. InOrder(wire[g], g) /\ RingOK(tx, g, task[g] = "ended", writes[g] * Size)
    BY DEF WireInv
  <2> QED BY <1>1, <2>1
<1>3. ASSUME NEW f \in Fd, owner[f] # 0 PROVE LineNext(f)
  <2>1. owner[f] \in Gen
    BY <1>3, WireTypes
  <2>2. LineOK(tx, owner[f], parked[f], Len(wire[owner[f]]), task[owner[f]] = "ended", writes[owner[f]] * Size)
    BY <1>3 DEF WireInv
  <2> QED BY <1>1, <2>1, <2>2 DEF LineNext
<1>4. \A f \in Fd : LineNext(f)
  BY <1>3 DEF LineNext
<1> QED BY <1>2, <1>4, WireIs

\* Units put on the wire where it ends.
LEMMA WireMore ==
    ASSUME OutwardTypes, NEW p \in Write, owner[p.fd] = p.gen, NEW k \in Nat, PutOnWire(p, k),
           p.from = Len(wire[p.gen]) + 1, \A g \in Gen : InOrder(wire[g], g)
    PROVE  /\ \A g \in Gen : InOrder(wire'[g], g)
           /\ Len(wire'[p.gen]) = Len(wire[p.gen]) + k
           /\ \A h \in Gen \ {p.gen} : wire'[h] = wire[h]
<1> DEFINE g == p.gen
           n == Len(wire[p.gen])
<1>1. /\ wire' \in [Gen -> Seq(Gen \X Nat)]
      /\ \A h \in Gen \ {g} : wire'[h] = wire[h]
      /\ n \in Nat /\ Len(wire'[g]) = n + k
      /\ \A i \in 1..n : wire'[g][i] = wire[g][i]
      /\ \A i \in 1..k : wire'[g][n + i] = <<g, p.from + i - 1>>
  BY PutStep
<1>2. g \in Gen /\ wire'[g] \in Seq(Gen \X Nat)
  BY <1>1, UnitsNat
<1>3. DOMAIN wire'[g] = 1..n + k
  BY <1>1, <1>2, LenProperties
<1>4. \A i \in 1..n : wire[g][i] = <<g, i>>
  <2>1. wire[g] = [i \in 1..n |-> <<g, i>>]
    BY <1>2 DEF InOrder
  <2> QED BY <2>1
<1>5. ASSUME NEW i \in 1..n + k PROVE wire'[g][i] = <<g, i>>
  <2>1. CASE i <= n
    <3>1. i \in 1..n
      BY <1>1, <2>1
    <3> QED BY <1>1, <1>4, <3>1
  <2>2. CASE ~(i <= n)
    <3>1. PICK j \in 1..k : i = n + j
      <4>1. i - n \in 1..k /\ i = n + (i - n)
        BY <1>1, <2>2
      <4> QED BY <4>1
    <3>2. wire'[g][n + j] = <<g, p.from + j - 1>>
      BY <1>1, <3>1
    <3>3. p.from + j - 1 = n + j
      BY <1>1, <3>1
    <3> QED BY <3>1, <3>2, <3>3
  <2> QED BY <2>1, <2>2
<1>6. InOrder(wire'[g], g)
  <2>1. wire'[g] = [i \in DOMAIN wire'[g] |-> wire'[g][i]]
    BY <1>2, LenProperties
  <2> QED BY <1>1, <1>3, <1>5, <2>1 DEF InOrder
<1> QED BY <1>1, <1>6

LEMMA NoneInOrder ==
    \A g : InOrder(<<>>, g)
<1>1. Len(<<>>) = 0 /\ 1..0 = {}
  BY EmptySeq
<1> QED BY <1>1 DEF InOrder

\* What is one write's own chain.
LEMMA ChainOne ==
    ASSUME NEW c \in Write, NEW n \in Nat, c.from = n + 1
    PROVE  ChainedOn(<<c>>, n) /\ FinalOf(<<c>>, n) = c.upto
<1>1. <<>> \in Seq(Write) /\ <<c>> = Append(<<>>, c)
  OBVIOUS
<1>2. ChainedOn(<<>>, n) /\ FinalOf(<<>>, n) = n
  BY DEF ChainedOn, FinalOf
<1>3. ChainedOn(Append(<<>>, c), n) /\ FinalOf(Append(<<>>, c), n) = c.upto
  BY <1>1, <1>2, ChainMore
<1> QED BY <1>1, <1>3

\* Commands: the first send in the ring goes behind the backlog, or out if there is none.
LEMMA DrainWire ==
    ASSUME Basic, WireInv, Drain
    PROVE  WireInv'
<1> DEFINE c == Head(tx)
<1>1. /\ tx # <<>> /\ tx' = Tail(tx) /\ OnCommand(c) /\ task' = task /\ writes' = writes
      /\ c.fd \in Fd /\ c.gen \in Gen /\ c.kind \in {"send", "close"} /\ task[c.gen] # "none"
  BY DrainEffect, HeadOfTx, UnchangedTokio
<1>2. /\ tx \in Seq(Cmds)
      /\ \A g \in Gen : writes[g] * Size \in Nat /\ Len(wire[g]) \in Nat
      /\ \A f \in Fd : parked[f] \in Seq(Write) /\ (owner[f] # 0 => owner[f] \in Gen)
      /\ \A f \in Fd : owner[f] # 0 => FinalOf(parked[f], Len(wire[owner[f]])) \in Nat
      /\ \A e, f \in Fd : owner[e] = owner[f] /\ owner[f] # 0 => e = f
      /\ OutwardTypes /\ SocketTypes /\ DriverInv /\ TokioTypes
  BY WireTypes
<1>3. \A g \in Gen : InOrder(wire[g], g) /\ RingOK(tx, g, task[g] = "ended", writes[g] * Size)
  BY DEF WireInv
<1>4. \A g \in Gen : RingOK(tx', g, task'[g] = "ended", writes'[g] * Size)
  BY <1>1, <1>2, <1>3, LineTakes
<1>5. \A f \in Fd : owner[f] = c.gen => f = c.fd
  BY <1>1, OfItsFd
<1>6. UNCHANGED tokio
  BY DrainEffect
<1> DEFINE Ended(g) == task[g] = "ended"
           M(g) == writes[g] * Size
           Line(f) == LineOK(tx, owner[f], parked[f], Len(wire[owner[f]]), Ended(owner[f]), M(owner[f]))
<1>7. \A f \in Fd : owner[f] # 0 => Line(f)
  BY DEF WireInv
<1>8. ASSUME NEW f \in Fd, owner[f] # 0, ~(c.kind = "send" /\ c.gen = owner[f]),
             owner'[f] = owner[f], parked'[f] = parked[f], wire'[owner[f]] = wire[owner[f]]
      PROVE  LineNext(f)
  <2>1. owner[f] \in Gen /\ Line(f) /\ RingOK(tx, owner[f], Ended(owner[f]), M(owner[f])) /\ M(owner[f]) \in Nat
        /\ parked[f] \in Seq(Write) /\ Len(wire[owner[f]]) \in Nat
    BY <1>2, <1>3, <1>7, <1>8
  <2>2. LineOK(Tail(tx), owner[f], parked[f], Len(wire[owner[f]]), Ended(owner[f]), M(owner[f]))
    BY <1>1, <1>2, <1>8, <2>1, LineTakes
  <2> QED BY <1>1, <1>8, <2>2 DEF LineNext
<1>9. ASSUME NEW f \in Fd, owner[f] = c.gen, c.kind = "send"
      PROVE  /\ ChainedOn(parked[f], Len(wire[c.gen]))
             /\ c.from = FinalOf(parked[f], Len(wire[c.gen])) + 1
             /\ LinkedTo(tx', c.gen, c.upto)
             /\ ~Ended(c.gen) => Met(tx', c.gen, c.upto, M(c.gen))
  <2>1. Line(f) /\ RingOK(tx, c.gen, Ended(c.gen), M(c.gen)) /\ M(c.gen) \in Nat
        /\ parked[f] \in Seq(Write) /\ Len(wire[c.gen]) \in Nat
    BY <1>1, <1>2, <1>3, <1>7, <1>9, BridgeConstants
  <2>2. LineOK(tx, c.gen, parked[f], Len(wire[c.gen]), Ended(c.gen), M(c.gen))
    BY <1>9, <2>1
  <2>3. ChainedOn(parked[f], Len(wire[c.gen]))
    BY <2>2 DEF LineOK
  <2>4. PICK e : e = Ended(c.gen)
    OBVIOUS
  <2>5. PICK m \in Nat : m = M(c.gen)
    BY <2>1
  <2>6. PICK n \in Nat : n = Len(wire[c.gen])
    BY <2>1
  <2>7. RingOK(tx, c.gen, e, m) /\ LineOK(tx, c.gen, parked[f], n, e, m)
    BY <2>1, <2>2, <2>4, <2>5, <2>6
  <2>8. /\ c.from = FinalOf(parked[f], n) + 1
        /\ LinkedTo(Tail(tx), c.gen, c.upto)
        /\ ~e => Met(Tail(tx), c.gen, c.upto, m)
    <3> HIDE DEF Ended, M, Line
    <3>1. Head(tx).kind = "send" /\ Head(tx).gen = c.gen
      BY <1>9
    <3> QED BY <1>1, <1>2, <2>1, <2>7, <3>1, LineTakes
  <2> QED BY <1>1, <2>3, <2>4, <2>5, <2>6, <2>8
<1> HIDE DEF c, Ended, M, Line
<1>10. ASSUME NEW f \in Fd, NEW n, owner'[f] = c.gen,
              ChainedOn(parked'[f], n), FinalOf(parked'[f], n) = c.upto, Len(wire'[c.gen]) = n,
              LinkedTo(tx', c.gen, c.upto), ~Ended(c.gen) => Met(tx', c.gen, c.upto, M(c.gen))
       PROVE  LineNext(f)
  BY <1>1, <1>10 DEF LineNext, LineOK, Ended, M
<1>11. CASE c \in Write /\ SendStale(c)
  <2>1. /\ owner[c.fd] # c.gen /\ owner' = owner /\ parked' = parked /\ wire' = wire
    BY <1>11 DEF SendStale, Current, sockets
  <2>2. \A f \in Fd : LineNext(f)
    BY <1>5, <1>8, <2>1 DEF LineNext
  <2> QED BY <1>3, <1>4, <2>1, <2>2, WireIs
<1>12. CASE /\ c \in Write /\ Current(c) /\ parked[c.fd] # <<>>
            /\ Park(c) /\ UNCHANGED <<owed, wire, sockets, inward, taken>>
  <2>1. /\ owner[c.fd] = c.gen /\ owner' = owner /\ wire' = wire /\ c.kind = "send"
        /\ parked' = [parked EXCEPT ![c.fd] = Append(parked[c.fd], c)]
    BY <1>12, UnitsNat DEF Current, sockets, Park
  <2>2. /\ parked'[c.fd] = Append(parked[c.fd], c)
        /\ \A f \in Fd \ {c.fd} : parked'[f] = parked[f]
    BY <1>1, <1>2, <2>1 DEF OutwardTypes
  <2>3. /\ ChainedOn(parked[c.fd], Len(wire[c.gen]))
        /\ c.from = FinalOf(parked[c.fd], Len(wire[c.gen])) + 1
        /\ LinkedTo(tx', c.gen, c.upto) /\ (~Ended(c.gen) => Met(tx', c.gen, c.upto, M(c.gen)))
    BY <1>1, <1>9, <2>1
  <2>4. /\ ChainedOn(Append(parked[c.fd], c), Len(wire[c.gen]))
        /\ FinalOf(Append(parked[c.fd], c), Len(wire[c.gen])) = c.upto
    BY <1>1, <1>2, <1>12, <2>3, ChainMore
  <2>5. LineNext(c.fd)
    BY <1>1, <1>10, <2>1, <2>2, <2>3, <2>4
  <2>6. ASSUME NEW f \in Fd \ {c.fd} PROVE LineNext(f)
    <3>1. owner[f] # c.gen
      BY <1>5
    <3> QED BY <1>8, <2>1, <2>2, <3>1 DEF LineNext
  <2> QED BY <1>3, <1>4, <2>1, <2>5, <2>6, WireIs
<1>13. CASE c \in Write /\ Current(c) /\ parked[c.fd] = <<>> /\ \E k \in 0..Units(c) : GivenNow(c, k)
  <2>1. PICK k \in 0..Units(c) : GivenNow(c, k)
    BY <1>13
  <2>2. /\ owner[c.fd] = c.gen /\ owner' = owner /\ Units(c) \in Nat /\ c.kind = "send" /\ k \in Int /\ k \in Nat
        /\ Units(c) = c.upto - c.from + 1 /\ c.from \in Nat /\ c.upto \in Nat
        /\ PutOnWire(c, k)
    BY <1>13, <2>1, UnitsNat DEF Current, sockets, GivenNow
  <2>3. /\ parked'[c.fd] = IF k = Units(c) THEN <<>> ELSE <<Rest(c, k)>>
        /\ \A d \in Fd \ {c.fd} : parked'[d] = parked[d]
    BY <1>1, <1>2, <1>6, <1>13, <2>1, NowKeeps
  <2>4. /\ c.from = FinalOf(parked[c.fd], Len(wire[c.gen])) + 1
        /\ LinkedTo(tx', c.gen, c.upto) /\ (~Ended(c.gen) => Met(tx', c.gen, c.upto, M(c.gen)))
    BY <1>1, <1>9, <2>2
  <2>5. PICK n \in Nat : n = Len(wire[c.gen])
    BY <1>1, <1>2
  <2>6. c.from = n + 1
    BY <1>13, <2>4, <2>5 DEF FinalOf
  <2>7. /\ \A g \in Gen : InOrder(wire'[g], g)
        /\ Len(wire'[c.gen]) = n + k
        /\ \A h \in Gen \ {c.gen} : wire'[h] = wire[h]
    BY <1>2, <1>3, <1>13, <2>2, <2>5, <2>6, WireMore
  <2>8. ChainedOn(parked'[c.fd], n + k) /\ FinalOf(parked'[c.fd], n + k) = c.upto
    <3>1. CASE k = Units(c)
      <4>1. n + k = c.upto
        BY <2>2, <2>6, <3>1
      <4> QED BY <2>3, <3>1, <4>1 DEF ChainedOn, FinalOf
    <3>2. CASE k # Units(c)
      <4>1. k < Units(c)
        BY <2>2, <3>2
      <4>2. Rest(c, k) \in Write /\ Rest(c, k).from = c.from + k /\ Rest(c, k).upto = c.upto
        BY <1>13, <2>2, <4>1, RestOf
      <4>3. Rest(c, k).from = (n + k) + 1 /\ n + k \in Nat
        BY <2>2, <2>6, <4>2
      <4> QED BY <2>3, <3>2, <4>2, <4>3, ChainOne
    <3> QED BY <3>1, <3>2
  <2>9. LineNext(c.fd)
    BY <1>1, <1>10, <2>2, <2>4, <2>7, <2>8
  <2>10. ASSUME NEW f \in Fd \ {c.fd} PROVE LineNext(f)
    <3>1. owner[f] # c.gen /\ (owner[f] # 0 => owner[f] \in Gen)
      BY <1>2, <1>5
    <3> QED BY <1>8, <2>2, <2>3, <2>7, <3>1 DEF LineNext
  <2> QED BY <1>4, <2>7, <2>9, <2>10, WireIs
<1>14. CASE Current(c) /\ \E n \in Int : Closes(c.fd, n)
  <2>1. PICK n \in Int : Closes(c.fd, n)
    BY <1>14
  <2>2. /\ owner' = [owner EXCEPT ![c.fd] = 0] /\ parked' = [parked EXCEPT ![c.fd] = <<>>]
        /\ \A h \in Gen : h # owner[c.fd] => wire'[h] = wire[h]
        /\ owner[c.fd] # 0 => wire'[owner[c.fd]] = <<>>
    BY <1>1, <1>2, <1>6, <2>1, CloseFdKeeps DEF Closes
  <2>3. owner[c.fd] = c.gen
    BY <1>14 DEF Current
  <2>4. \A g \in Gen : InOrder(wire'[g], g)
    BY <1>1, <1>3, <2>2, <2>3, NoneInOrder, BridgeConstants
  <2>5. /\ owner'[c.fd] = 0
        /\ \A f \in Fd \ {c.fd} : owner'[f] = owner[f] /\ parked'[f] = parked[f]
    BY <1>1, <1>2, <2>2 DEF OutwardTypes, SocketTypes
  <2>6. ASSUME NEW f \in Fd \ {c.fd} PROVE LineNext(f)
    <3>1. owner[f] # c.gen /\ (owner[f] # 0 => owner[f] \in Gen)
      BY <1>2, <1>5
    <3> QED BY <1>8, <2>2, <2>3, <2>5, <3>1 DEF LineNext
  <2>7. LineNext(c.fd)
    BY <2>5 DEF LineNext
  <2> QED BY <1>4, <2>4, <2>6, <2>7, WireIs
<1>15. CASE c.kind = "close" /\ NoEffect
  <2>1. owner' = owner /\ wire' = wire /\ parked' = parked
    BY <1>15 DEF NoEffect, sockets, outward
  <2>2. \A f \in Fd : LineNext(f)
    BY <1>8, <1>15, <2>1 DEF LineNext
  <2> QED BY <1>3, <1>4, <2>1, <2>2, WireIs
<1> QED BY <1>1, <1>11, <1>12, <1>13, <1>14, <1>15 DEF OnCommand

\* Events: the backlog goes out from its front, whole or in part.
LEMMA ServiceWire ==
    ASSUME Basic, WireInv, Service
    PROVE  WireInv'
<1>1. UNCHANGED tokio /\ tx' = tx /\ task' = task /\ writes' = writes /\ OnEvent
  BY ServiceEffect, UnchangedTokio
<1>2. /\ tx \in Seq(Cmds)
      /\ \A g \in Gen : writes[g] * Size \in Nat /\ Len(wire[g]) \in Nat
      /\ \A f \in Fd : parked[f] \in Seq(Write) /\ (owner[f] # 0 => owner[f] \in Gen)
      /\ \A e, f \in Fd : owner[e] = owner[f] /\ owner[f] # 0 => e = f
      /\ OutwardTypes /\ SocketTypes /\ DriverInv /\ TokioTypes
  BY WireTypes
<1>3. \A g \in Gen : InOrder(wire[g], g) /\ RingOK(tx, g, task[g] = "ended", writes[g] * Size)
  BY DEF WireInv
<1>4. \A g \in Gen : RingOK(tx', g, task'[g] = "ended", writes'[g] * Size)
  BY <1>1, <1>3
<1> DEFINE Ended(g) == task[g] = "ended"
           M(g) == writes[g] * Size
           Line(f) == LineOK(tx, owner[f], parked[f], Len(wire[owner[f]]), Ended(owner[f]), M(owner[f]))
<1>5. \A f \in Fd : owner[f] # 0 => Line(f)
  BY DEF WireInv
<1>6. ASSUME NEW f \in Fd, owner'[f] = owner[f], parked'[f] = parked[f],
             owner[f] # 0 => wire'[owner[f]] = wire[owner[f]]
      PROVE  LineNext(f)
  BY <1>1, <1>5, <1>6 DEF LineNext
<1>7. CASE \E d \in Fd : Admit(d)
  <2>1. PICK d \in Fd : Admit(d)
    BY <1>7
  <2>2. /\ accepts' \in Gen /\ task[accepts'] = "none" /\ parked[d] = <<>>
        /\ UNCHANGED owner \/ owner' = [owner EXCEPT ![d] = accepts']
        /\ UNCHANGED <<parked, owed, wire, taken>>
    BY <1>1, <1>2, <2>1, AdmitKeeps
  <2>3. ASSUME NEW f \in Fd, owner'[f] # owner[f] PROVE LineNext(f)
    <3>1. f = d /\ owner'[f] = accepts'
      BY <1>2, <2>2, <2>3 DEF SocketTypes
    <3>2. wire[accepts'] = <<>> /\ writes[accepts'] = 0
      BY <2>2 DEF Basic, DriverInv, Begun
    <3>3. By(tx, accepts') = {}
      BY <2>2 DEF By, Basic, Asked
    <3>4. Len(<<>>) = 0 /\ 0 * Size = 0
      BY BridgeConstants, EmptySeq
    <3>5. LineOK(tx, accepts', <<>>, 0, Ended(accepts'), 0)
      BY <3>3 DEF LineOK, ChainedOn, FinalOf, LinkedTo, Met
    <3> QED BY <1>1, <2>2, <3>1, <3>2, <3>4, <3>5 DEF LineNext
  <2>4. \A f \in Fd : LineNext(f)
    BY <1>6, <2>2, <2>3
  <2> QED BY <1>3, <1>4, <2>2, <2>4, WireIs
<1>8. CASE NoEffect \/ \E d \in Fd : Receive(d)
  <2>1. owner' = owner /\ parked' = parked /\ wire' = wire
    BY <1>8 DEF NoEffect, Receive, sockets, outward
  <2> QED BY <1>1, <2>1, WireQuiet
<1>9. CASE \E d \in Fd : \E n \in Int : Closes(d, n)
  <2>1. PICK d \in Fd : \E n \in Int : Closes(d, n)
    BY <1>9
  <2>2. PICK n \in Int : Closes(d, n)
    BY <2>1
  <2>3. /\ owner' = [owner EXCEPT ![d] = 0] /\ parked' = [parked EXCEPT ![d] = <<>>]
        /\ \A h \in Gen : h # owner[d] => wire'[h] = wire[h]
        /\ owner[d] # 0 => wire'[owner[d]] = <<>>
    BY <1>1, <1>2, <2>2, CloseFdKeeps DEF Closes
  <2>4. \A g \in Gen : InOrder(wire'[g], g)
    BY <1>3, <2>3, NoneInOrder, BridgeConstants
  <2>5. /\ owner'[d] = 0
        /\ \A f \in Fd \ {d} : owner'[f] = owner[f] /\ parked'[f] = parked[f]
    BY <1>2, <2>3 DEF OutwardTypes, SocketTypes
  <2>6. ASSUME NEW f \in Fd \ {d} PROVE LineNext(f)
    <3>1. owner[f] # 0 => owner[f] # owner[d] /\ owner[f] \in Gen
      BY <1>2
    <3> QED BY <1>6, <2>3, <2>5, <3>1
  <2>7. LineNext(d)
    BY <2>5 DEF LineNext
  <2> QED BY <1>4, <2>4, <2>6, <2>7, WireIs
<1> HIDE DEF Ended, M, Line
<1>10. ASSUME NEW d \in Fd, parked[d] # <<>>, NEW k \in Nat, k <= Units(Head(parked[d])),
              PutOnWire(Head(parked[d]), k), owner' = owner,
              \A e \in Fd \ {d} : parked'[e] = parked[e],
              \A n \in Nat : ChainedOn(parked[d], n) =>
                  ChainedOn(parked'[d], n + k) /\ FinalOf(parked'[d], n + k) = FinalOf(parked[d], n)
       PROVE  WireInv'
  <2> DEFINE p == Head(parked[d])
             g == owner[d]
  <2>1. p.gen = g /\ p.fd = d /\ g \in Gen /\ p \in Write /\ g # 0
    <3>1. parked[d] \in Seq(Write)
      BY <1>2
    <3>2. p = parked[d][1] /\ 1 \in DOMAIN parked[d] /\ p \in Write
      BY <1>10, <3>1, Shortened
    <3>3. p.gen = g /\ p.fd = d
      BY <1>2, <3>2 DEF DriverInv, Backed
    <3>4. g # 0
      BY <1>2, <1>10, OpenBacklog DEF DriverInv
    <3> QED BY <1>2, <3>2, <3>3, <3>4
  <2>2. PICK n \in Nat : n = Len(wire[g])
    BY <1>2, <2>1
  <2>3. /\ ChainedOn(parked[d], n)
        /\ LinkedTo(tx, g, FinalOf(parked[d], n))
        /\ ~Ended(g) => Met(tx, g, FinalOf(parked[d], n), M(g))
    BY <1>5, <2>1, <2>2 DEF Line, LineOK
  <2>4. p.from = n + 1
    BY <1>2, <1>10, <2>3, ChainLess
  <2> HIDE DEF p
  <2>5. /\ \A h \in Gen : InOrder(wire'[h], h)
        /\ Len(wire'[g]) = n + k
        /\ \A h \in Gen \ {g} : wire'[h] = wire[h]
    <3>1. PutOnWire(p, k)
      BY <1>10 DEF p
    <3>2. owner[p.fd] = p.gen /\ p.from = Len(wire[p.gen]) + 1
      BY <2>1, <2>2, <2>4
    <3>3. /\ \A h \in Gen : InOrder(wire'[h], h)
          /\ Len(wire'[p.gen]) = Len(wire[p.gen]) + k
          /\ \A h \in Gen \ {p.gen} : wire'[h] = wire[h]
      BY <1>2, <1>3, <2>1, <3>1, <3>2, WireMore
    <3> QED BY <2>1, <2>2, <3>3
  <2>6. LineOK(tx, g, parked'[d], n + k, Ended(g), M(g))
    BY <1>10, <2>3 DEF LineOK
  <2>7. LineNext(d)
    BY <1>1, <1>10, <2>5, <2>6 DEF LineNext, Ended, M
  <2>8. ASSUME NEW f \in Fd \ {d} PROVE LineNext(f)
    <3>1. owner[f] # 0 => owner[f] # g /\ owner[f] \in Gen
      BY <1>2, <2>1
    <3>2. owner[f] # 0 => wire'[owner[f]] = wire[owner[f]]
      BY <2>5, <3>1
    <3> QED BY <1>6, <1>10, <3>2
  <2> QED BY <1>4, <2>5, <2>7, <2>8, WireIs
<1>11. CASE \E d \in Fd : parked[d] # <<>> /\ FlushAll(d)
  <2>1. PICK d \in Fd : parked[d] # <<>> /\ FlushAll(d)
    BY <1>11
  <2>2. parked'[d] = Tail(parked[d]) /\ \A e \in Fd \ {d} : parked'[e] = parked[e]
    BY <1>1, <1>2, <2>1, FlushAllKeeps
  <2>3. /\ Head(parked[d]) \in Write /\ Units(Head(parked[d])) \in Nat
        /\ Units(Head(parked[d])) = Head(parked[d]).upto - Head(parked[d]).from + 1
        /\ Head(parked[d]).upto \in Nat /\ Head(parked[d]).from \in Nat
    BY <1>2, <2>1, Shortened, UnitsNat
  <2>4. PutOnWire(Head(parked[d]), Units(Head(parked[d]))) /\ owner' = owner
    BY <2>1 DEF FlushAll, sockets
  <2>5. ASSUME NEW n \in Nat, ChainedOn(parked[d], n)
        PROVE  /\ ChainedOn(parked'[d], n + Units(Head(parked[d])))
               /\ FinalOf(parked'[d], n + Units(Head(parked[d]))) = FinalOf(parked[d], n)
    <3>1. /\ Head(parked[d]).from = n + 1
          /\ ChainedOn(Tail(parked[d]), Head(parked[d]).upto)
          /\ FinalOf(Tail(parked[d]), Head(parked[d]).upto) = FinalOf(parked[d], n)
      BY <1>2, <2>1, <2>5, ChainLess
    <3>2. n + Units(Head(parked[d])) = Head(parked[d]).upto
      BY <2>3, <3>1
    <3> QED BY <2>2, <3>1, <3>2
  <2>6. Units(Head(parked[d])) <= Units(Head(parked[d]))
    BY <2>3
  <2> QED BY <1>10, <2>1, <2>2, <2>3, <2>4, <2>5, <2>6
<1>12. CASE \E d \in Fd : parked[d] # <<>> /\ \E k \in 0..Units(Head(parked[d])) - 1 :
                GivenPart(d, Head(parked[d]), k)
  <2>1. PICK d \in Fd : parked[d] # <<>> /\ \E k \in 0..Units(Head(parked[d])) - 1 :
                GivenPart(d, Head(parked[d]), k)
    BY <1>12
  <2>2. PICK k \in 0..Units(Head(parked[d])) - 1 : GivenPart(d, Head(parked[d]), k)
    BY <2>1
  <2>3. Head(parked[d]) \in Write /\ Units(Head(parked[d])) \in Nat
    BY <1>2, <2>1, Shortened, UnitsNat
  <2>4. k \in Nat /\ k \in Int /\ k < Units(Head(parked[d])) /\ k <= Units(Head(parked[d]))
    BY <2>2, <2>3
  <2>5. /\ parked'[d] = <<Rest(Head(parked[d]), k)>> \o Tail(parked[d])
        /\ \A e \in Fd \ {d} : parked'[e] = parked[e]
    BY <1>1, <1>2, <2>1, <2>2, <2>4, FlushPartKeeps
  <2>6. PutOnWire(Head(parked[d]), k) /\ owner' = owner
    BY <2>2 DEF GivenPart, sockets
  <2>7. /\ Rest(Head(parked[d]), k) \in Write
        /\ Rest(Head(parked[d]), k).from = Head(parked[d]).from + k
        /\ Rest(Head(parked[d]), k).upto = Head(parked[d]).upto
    BY <2>3, <2>4, RestOf
  <2>8. ASSUME NEW n \in Nat, ChainedOn(parked[d], n)
        PROVE  ChainedOn(parked'[d], n + k) /\ FinalOf(parked'[d], n + k) = FinalOf(parked[d], n)
    <3> DEFINE c == Rest(Head(parked[d]), k)
    <3>1. c \in Write /\ c.from = Head(parked[d]).from + k /\ c.upto = Head(parked[d]).upto
      BY <2>7
    <3>2. parked[d] \in Seq(Write) /\ parked[d] # <<>> /\ k \in Nat
      BY <1>2, <2>1, <2>4
    <3>3. parked'[d] = <<c>> \o Tail(parked[d])
      BY <2>5
    <3> HIDE DEF c
    <3>4. /\ ChainedOn(<<c>> \o Tail(parked[d]), n + k)
          /\ FinalOf(<<c>> \o Tail(parked[d]), n + k) = FinalOf(parked[d], n)
      BY <2>8, <3>1, <3>2, ChainFront
    <3> QED BY <3>3, <3>4
  <2> QED BY <1>10, <2>1, <2>4, <2>5, <2>6, <2>8
<1> QED BY <1>1, <1>7, <1>8, <1>9, <1>11, <1>12 DEF OnEvent


\* A command that is no write of a connection, at the end of the ring.
LEMMA CloseWire ==
    ASSUME Basic, WireInv, NEW c \in Cmds, c.kind = "close", tx' = Append(tx, c),
           UNCHANGED <<parked, wire, owner>>, NEW g \in Gen,
           \A h \in Gen \ {g} : task'[h] = task[h] /\ writes'[h] = writes[h],
           task'[g] = "ended" \/ (task[g] # "ended" /\ writes'[g] = writes[g])
    PROVE  WireInv'
<1>1. /\ tx \in Seq(Cmds)
      /\ \A h \in Gen : writes[h] * Size \in Nat /\ Len(wire[h]) \in Nat
      /\ \A f \in Fd : parked[f] \in Seq(Write) /\ (owner[f] # 0 => owner[f] \in Gen)
  BY WireTypes
<1>2. \A h \in Gen : InOrder(wire[h], h) /\ RingOK(tx, h, task[h] = "ended", writes[h] * Size)
  BY DEF WireInv
<1>3. \A f \in Fd : owner[f] # 0 =>
         LineOK(tx, owner[f], parked[f], Len(wire[owner[f]]), task[owner[f]] = "ended", writes[owner[f]] * Size)
  BY DEF WireInv
<1>4. ASSUME NEW h \in Gen
      PROVE  /\ RingOK(tx', h, task[h] = "ended", writes[h] * Size)
             /\ \A p \in Seq(Write), n \in Nat :
                   LineOK(tx, h, p, n, task[h] = "ended", writes[h] * Size) =>
                   LineOK(tx', h, p, n, task[h] = "ended", writes[h] * Size)
  <2>1. PICK e : e = (task[h] = "ended")
    OBVIOUS
  <2>2. PICK m \in Nat : m = writes[h] * Size
    BY <1>1
  <2>3. RingOK(tx, h, e, m)
    BY <1>2, <2>1, <2>2
  <2>4. <<>> \in Seq(Write) /\ 0 \in Nat
    OBVIOUS
  <2>5. RingOK(tx', h, e, m)
    BY <1>1, <2>3, <2>4, LineSkips
  <2>6. ASSUME NEW p \in Seq(Write), NEW n \in Nat, LineOK(tx, h, p, n, e, m)
        PROVE  LineOK(tx', h, p, n, e, m)
    BY <1>1, <2>3, <2>6, LineSkips
  <2> QED BY <2>1, <2>2, <2>5, <2>6
\* In the next state the bounds are as they are, or none.
<1>5. ASSUME NEW h \in Gen
      PROVE  RingOK(tx', h, task'[h] = "ended", writes'[h] * Size)
  <2>1. CASE task'[h] = "ended"
    BY <1>4, <2>1 DEF RingOK
  <2>2. CASE task'[h] # "ended"
    <3>1. (task'[h] = "ended") = (task[h] = "ended") /\ writes'[h] = writes[h]
      BY <2>2
    <3> QED BY <1>4, <3>1
  <2> QED BY <2>1, <2>2
<1>6. ASSUME NEW f \in Fd PROVE LineNext(f)
  <2>1. SUFFICES ASSUME owner[f] # 0 PROVE LineNext(f)
    BY DEF LineNext
  <2>2. owner[f] \in Gen /\ parked[f] \in Seq(Write) /\ Len(wire[owner[f]]) \in Nat
    BY <1>1, <2>1
  <2>3. LineOK(tx', owner[f], parked[f], Len(wire[owner[f]]), task[owner[f]] = "ended", writes[owner[f]] * Size)
    BY <1>3, <1>4, <2>1, <2>2
  <2>4. CASE task'[owner[f]] = "ended"
    BY <2>3, <2>4 DEF LineNext, LineOK
  <2>5. CASE task'[owner[f]] # "ended"
    <3>1. (task'[owner[f]] = "ended") = (task[owner[f]] = "ended") /\ writes'[owner[f]] = writes[owner[f]]
      BY <2>2, <2>5
    <3> QED BY <2>3, <3>1 DEF LineNext
  <2> QED BY <2>4, <2>5
<1> QED BY <1>2, <1>5, <1>6, WireIs

\* A write begins after the units the task has written before.
LEMMA EnqueueWire ==
    ASSUME Basic, WireInv, NEW g \in Gen, Enqueue(g)
    PROVE  WireInv'
<1>1. /\ task[g] = "idle" /\ task'[g] = "counting" /\ \A h \in Gen \ {g} : task'[h] = task[h]
      /\ writes[g] \in Nat /\ writes'[g] = writes[g] + 1 /\ \A h \in Gen \ {g} : writes'[h] = writes[h]
      /\ owner' = owner /\ parked' = parked /\ wire' = wire
  BY EnqueueStep DEF sockets, outward
<1>2. PICK c \in Write : /\ tx' = Append(tx, c) /\ c.kind = "send" /\ c.gen = g
                         /\ c.from = writes[g] * Size + 1 /\ c.upto = writes[g] * Size + Size
  BY EnqueueStep
<1>3. /\ tx \in Seq(Cmds) /\ c \in Cmds /\ Size \in Nat
      /\ \A h \in Gen : writes[h] * Size \in Nat /\ Len(wire[h]) \in Nat
      /\ \A f \in Fd : parked[f] \in Seq(Write) /\ (owner[f] # 0 => owner[f] \in Gen)
  BY WireTypes, BridgeConstants DEF Cmds
<1>4. \A h \in Gen : InOrder(wire[h], h) /\ RingOK(tx, h, task[h] = "ended", writes[h] * Size)
  BY DEF WireInv
<1>5. \A f \in Fd : owner[f] # 0 =>
         LineOK(tx, owner[f], parked[f], Len(wire[owner[f]]), task[owner[f]] = "ended", writes[owner[f]] * Size)
  BY DEF WireInv
<1>6. PICK m \in Nat : m = writes[g] * Size
  BY <1>3
<1>7. writes'[g] * Size = m + Size /\ m + Size \in Nat
  <2>1. (writes[g] + 1) * Size = writes[g] * Size + Size
    BY <1>1, <1>3
  <2> QED BY <1>1, <1>3, <1>6, <2>1
<1>8. c.from = m + 1 /\ c.upto = m + Size
  BY <1>2, <1>6
\* The writer's own line.
<1>9. RisingOf(tx, g) /\ \A i \in By(tx, g) : tx[i].upto <= m
  BY <1>1, <1>4, <1>6 DEF RingOK
<1>10. /\ RisingOf(tx', g)
       /\ \A i \in By(tx', g) : tx'[i].upto <= m + Size
       /\ \A n \in Nat : LinkedTo(tx, g, n) /\ Met(tx, g, n, m) =>
             LinkedTo(tx', g, n) /\ Met(tx', g, n, m + Size)
  BY <1>2, <1>3, <1>8, <1>9, RingMade
<1>11. RingOK(tx', g, task'[g] = "ended", writes'[g] * Size)
  BY <1>7, <1>10 DEF RingOK
<1>12. ASSUME NEW f \in Fd, owner[f] = g PROVE LineNext(f)
  <2>1. g # 0
    BY BridgeConstants
  <2>2. LineOK(tx, g, parked[f], Len(wire[g]), task[g] = "ended", m)
    BY <1>5, <1>6, <1>12, <2>1
  <2>3. PICK n \in Nat : n = FinalOf(parked[f], Len(wire[g]))
    BY <1>3, FinalNat
  <2>4. ChainedOn(parked[f], Len(wire[g])) /\ LinkedTo(tx, g, n) /\ Met(tx, g, n, m)
    BY <1>1, <2>2, <2>3 DEF LineOK
  <2>5. LinkedTo(tx', g, n) /\ Met(tx', g, n, m + Size)
    BY <1>10, <2>4
  <2>6. LineOK(tx', g, parked[f], Len(wire[g]), task'[g] = "ended", writes'[g] * Size)
    BY <1>7, <2>3, <2>4, <2>5 DEF LineOK
  <2> QED BY <1>1, <1>12, <2>6 DEF LineNext
\* The others'.
<1>13. ASSUME NEW h \in Gen \ {g}
       PROVE  /\ RingOK(tx', h, task'[h] = "ended", writes'[h] * Size)
              /\ \A p \in Seq(Write), n \in Nat :
                    LineOK(tx, h, p, n, task[h] = "ended", writes[h] * Size) =>
                    LineOK(tx', h, p, n, task'[h] = "ended", writes'[h] * Size)
  <2>1. PICK e : e = (task[h] = "ended")
    OBVIOUS
  <2>2. PICK k \in Nat : k = writes[h] * Size
    BY <1>3
  <2>3. RingOK(tx, h, e, k)
    BY <1>4, <2>1, <2>2
  <2>4. <<>> \in Seq(Write) /\ 0 \in Nat
    OBVIOUS
  <2>5. ~(c.kind = "send" /\ c.gen = h)
    BY <1>2
  <2>6. RingOK(tx', h, e, k)
    BY <1>2, <1>3, <2>3, <2>4, <2>5, LineSkips
  <2>7. ASSUME NEW p \in Seq(Write), NEW n \in Nat, LineOK(tx, h, p, n, e, k)
        PROVE  LineOK(tx', h, p, n, e, k)
    BY <1>2, <1>3, <2>3, <2>5, <2>7, LineSkips
  <2>8. (task'[h] = "ended") = e /\ writes'[h] * Size = k
    BY <1>1, <2>1, <2>2
  <2> QED BY <2>1, <2>2, <2>6, <2>7, <2>8
<1>14. ASSUME NEW f \in Fd, owner[f] # g PROVE LineNext(f)
  <2>1. SUFFICES ASSUME owner[f] # 0 PROVE LineNext(f)
    BY <1>1 DEF LineNext
  <2>2. owner[f] \in Gen \ {g} /\ parked[f] \in Seq(Write) /\ Len(wire[owner[f]]) \in Nat
    BY <1>3, <1>14, <2>1
  <2>3. LineOK(tx', owner[f], parked[f], Len(wire[owner[f]]), task'[owner[f]] = "ended", writes'[owner[f]] * Size)
    BY <1>5, <1>13, <2>1, <2>2
  <2> QED BY <1>1, <2>3 DEF LineNext
<1>15. \A h \in Gen : RingOK(tx', h, task'[h] = "ended", writes'[h] * Size)
  BY <1>11, <1>13
<1>16. \A f \in Fd : LineNext(f)
  BY <1>12, <1>14
<1> QED BY <1>1, <1>4, <1>15, <1>16, WireIs

LEMMA TaskWire ==
    ASSUME Basic, WireInv, NEW g \in Gen, TaskStep(g)
    PROVE  WireInv'
<1>1. CASE Hear(g)
  <2>1. UNCHANGED <<tx, parked, wire, owner, writes>> /\ task' = task
    BY <1>1 DEF Hear, sockets, outward
  <2> QED BY <2>1, WireQuiet
<1>2. CASE Enqueue(g)
  BY <1>2, EnqueueWire
<1>3. CASE Count(g)
  <2>1. UNCHANGED <<tx, parked, wire, owner, writes>> /\ task[g] = "counting" /\ task'[g] = "idle"
        /\ \A h \in Gen \ {g} : task'[h] = task[h]
    BY <1>3, CountKeeps DEF sockets
  <2>2. \A h \in Gen : task'[h] = "ended" <=> task[h] = "ended"
    BY <2>1
  <2> QED BY <2>1, <2>2, WireQuiet
<1>4. CASE Wait(g) \/ TimesOut(g)
  <2>1. UNCHANGED <<tx, parked, wire, owner, writes>> /\ task[g] \in {"idle", "parked"} /\ task'[g] \in {"idle", "parked"}
        /\ \A h \in Gen \ {g} : task'[h] = task[h]
    BY <1>4, PauseKeeps DEF sockets, outward
  <2>2. \A h \in Gen : task'[h] = "ended" <=> task[h] = "ended"
    BY <2>1
  <2> QED BY <2>1, <2>2, WireQuiet
<1>5. CASE Shutdown(g)
  <2>1. /\ task[g] = "idle" /\ task'[g] = "shut" /\ \A h \in Gen \ {g} : task'[h] = task[h]
        /\ tx' = Append(tx, CloseCmd(g)) /\ CloseCmd(g) \in Cmds
        /\ UNCHANGED <<parked, wire, owner>> /\ writes' = writes
    BY <1>5, ShutdownKeeps DEF sockets, outward
  <2>2. CloseCmd(g).kind = "close"
    BY DEF CloseCmd
  <2> QED BY <2>1, <2>2, CloseWire
<1>6. CASE End(g)
  <2>1. /\ task[g] \in {"idle", "shut"} /\ task'[g] = "ended"
        /\ \A h \in Gen \ {g} : task'[h] = task[h] /\ writes'[h] = writes[h]
        /\ tx' = tx \/ (tx' = Append(tx, CloseCmd(g)) /\ CloseCmd(g) \in Cmds)
        /\ UNCHANGED <<parked, wire, owner>>
    BY <1>6, EndKeeps DEF sockets
  <2>2. CloseCmd(g).kind = "close"
    BY DEF CloseCmd
  <2>3. CASE tx' = tx
    <3>1. \A h \in Gen : InOrder(wire[h], h) /\ RingOK(tx, h, task[h] = "ended", writes[h] * Size)
      BY DEF WireInv
    <3>2. \A f \in Fd : owner[f] # 0 => /\ owner[f] \in Gen
             /\ LineOK(tx, owner[f], parked[f], Len(wire[owner[f]]), task[owner[f]] = "ended", writes[owner[f]] * Size)
      BY WireTypes DEF WireInv
    <3>3. ASSUME NEW h \in Gen PROVE RingOK(tx', h, task'[h] = "ended", writes'[h] * Size)
      <4>1. CASE h = g
        BY <2>1, <2>3, <3>1, <4>1 DEF RingOK
      <4>2. CASE h # g
        <5>1. (task'[h] = "ended") = (task[h] = "ended") /\ writes'[h] = writes[h]
          BY <2>1, <4>2
        <5> QED BY <2>3, <3>1, <5>1
      <4> QED BY <4>1, <4>2
    <3>4. ASSUME NEW f \in Fd, owner[f] # 0 PROVE LineNext(f)
      <4>1. CASE owner[f] = g
        BY <2>1, <2>3, <3>2, <3>4, <4>1 DEF LineNext, LineOK
      <4>2. CASE owner[f] # g
        <5>1. (task'[owner[f]] = "ended") = (task[owner[f]] = "ended") /\ writes'[owner[f]] = writes[owner[f]]
          BY <2>1, <3>2, <3>4, <4>2
        <5> QED BY <2>1, <2>3, <3>2, <3>4, <5>1 DEF LineNext
      <4> QED BY <4>1, <4>2
    <3>5. \A f \in Fd : LineNext(f)
      BY <2>1, <3>4 DEF LineNext
    <3> QED BY <2>1, <3>1, <3>3, <3>5, WireIs
  <2>4. CASE tx' = Append(tx, CloseCmd(g)) /\ CloseCmd(g) \in Cmds
    BY <2>1, <2>2, <2>4, CloseWire
  <2> QED BY <2>1, <2>3, <2>4
<1> QED BY <1>1, <1>2, <1>3, <1>4, <1>5, <1>6 DEF TaskStep

LEMMA WireInit ==
    ASSUME BridgeInit
    PROVE  WireInv
<1>1. /\ owner = [f \in Fd |-> 0] /\ tx = <<>> /\ wire = [g \in Gen |-> <<>>]
  BY DEF BridgeInit
<1>2. DOMAIN <<>> = {}
  BY LenProperties, EmptySeq
<1>3. \A g : By(tx, g) = {}
  BY <1>1, <1>2 DEF By
<1>4. \A g \in Gen : InOrder(wire[g], g)
  BY <1>1, NoneInOrder
<1> QED BY <1>1, <1>3, <1>4 DEF WireInv, RingOK, RisingOf

LEMMA WireStep ==
    Basic /\ Seats /\ WireInv /\ [BridgeNext]_bridgeVars => WireInv'
<1> SUFFICES ASSUME Basic, Seats, WireInv, [BridgeNext]_bridgeVars PROVE WireInv'
  OBVIOUS
<1>1. CASE Drain
  BY <1>1, DrainWire
<1>2. CASE Drained \/ Deliver \/ UNCHANGED bridgeVars
  <2>1. UNCHANGED <<tx, parked, wire, owner, writes>> /\ task' = task
    BY <1>2, UnchangedTokio DEF Drained, Deliver, bridgeVars, sockets, outward
  <2> QED BY <2>1, WireQuiet
<1>3. CASE Poll
  <2>1. /\ UNCHANGED <<tx, parked, wire, owner, writes>>
        /\ task' = [g \in Gen |-> IF g = waker /\ task[g] = "parked" THEN "idle" ELSE task[g]]
    BY <1>3 DEF Poll, sockets, outward
  <2>2. \A g \in Gen : task'[g] = "ended" <=> task[g] = "ended"
    BY <2>1
  <2> QED BY <2>1, <2>2, WireQuiet
<1>4. CASE Service
  BY <1>4, ServiceWire
<1>5. CASE Dispatch
  <2>1. /\ rx # <<>> /\ UNCHANGED <<tx, parked, wire, owner, writes>>
        /\ Accepted(Head(rx)) \/ Dropped(Head(rx)) \/ Unheard(Head(rx)) \/ Passed(Head(rx))
    BY <1>5, DispatchStep DEF sockets, outward
  <2>2. Accepted(Head(rx)) =>
          /\ task[Head(rx).gen] = "none" /\ Head(rx).gen \in Gen
          /\ task' = [task EXCEPT ![Head(rx).gen] = "idle"]
    BY <2>1, HeadOfRx DEF Accepted, Due
  <2>3. \A g \in Gen : task'[g] = "ended" <=> task[g] = "ended"
    BY <2>1, <2>2 DEF Basic, TokioTypes, Dropped, Unheard, Passed
  <2> QED BY <2>1, <2>3, WireQuiet
<1>6. CASE \E g \in Gen : TaskStep(g)
  BY <1>6, TaskWire
<1> QED BY <1>1, <1>2, <1>3, <1>4, <1>5, <1>6 DEF BridgeNext, DriverStep

\* What an open socket has been given are its own task's bytes, in order and without
\* a gap.
THEOREM WireIsInOrder == BridgeSpec => []WireInOrder
<1>1. BridgeInit => Basic /\ Seats /\ WireInv
  BY BasicInit, WireInit
<1>2. Basic /\ Seats /\ WireInv /\ [BridgeNext]_bridgeVars => Basic' /\ Seats' /\ WireInv'
  BY BasicStep, WireStep
<1>3. BridgeSpec => [](Basic /\ Seats /\ WireInv)
  BY <1>1, <1>2, PTL DEF BridgeSpec
<1>4. WireInv => WireInOrder
  BY DEF WireInv, WireInOrder
<1> QED BY <1>3, <1>4, PTL

-------------------------------------------------------------------------------
(* Sequences of events: what an event more, or one less, does to them.           *)

LEMMA EventsOf ==
    ASSUME NEW q \in Seq(Evs)
    PROVE  /\ Len(q) \in Nat /\ DOMAIN q = 1..Len(q)
           /\ \A i \in DOMAIN q : i \in Nat /\ q[i] \in Evs /\ q[i].fd \in Fd
           /\ \A g \in Gen : \A i \in Ours(q, g) : i \in DOMAIN q /\ Num(q, i) \in Nat
           /\ \A g \in Gen : \A i \in Accs(q, g) : i \in DOMAIN q
           /\ \A f \in Fd : \A i \in Shuts(q, f) : i \in DOMAIN q
<1>1. Len(q) \in Nat /\ DOMAIN q = 1..Len(q) /\ \A i \in 1..Len(q) : q[i] \in Evs
  BY LenProperties, ElementOfSeq
<1>2. \A i \in DOMAIN q : i \in Nat /\ q[i] \in Evs /\ q[i].fd \in Fd
  BY <1>1, EvFields
<1>3. \A i \in DOMAIN q : q[i].kind = "data" => q[i].unit[2] \in Nat
  <2>1. ASSUME NEW i \in DOMAIN q, q[i].kind = "data" PROVE q[i].unit[2] \in Nat
    <3>1. q[i].unit \in Gen \X Nat
      BY <1>2, <2>1, EvFields
    <3> QED BY <3>1
  <2> QED BY <2>1
<1> QED BY <1>1, <1>2, <1>3 DEF Ours, Accs, Shuts, Num

LEMMA EventAppend ==
    ASSUME NEW q \in Seq(Evs), NEW e \in Evs
    PROVE  /\ Append(q, e) \in Seq(Evs) /\ Append(q, e)[Len(q) + 1] = e
           /\ \A i \in DOMAIN q : Append(q, e)[i] = q[i] /\ i < Len(q) + 1 /\ i \in Nat
           /\ \A g \in Gen : Ours(Append(q, e), g) = IF e.kind = "data" /\ e.unit[1] = g
                                                     THEN Ours(q, g) \cup {Len(q) + 1} ELSE Ours(q, g)
           /\ \A g \in Gen : Accs(Append(q, e), g) = IF e.kind = "accept" /\ e.gen = g
                                                     THEN Accs(q, g) \cup {Len(q) + 1} ELSE Accs(q, g)
           /\ \A f \in Fd : Shuts(Append(q, e), f) = IF e.kind = "closed" /\ e.fd = f
                                                     THEN Shuts(q, f) \cup {Len(q) + 1} ELSE Shuts(q, f)
<1> DEFINE r == Append(q, e)
           n == Len(q) + 1
<1>1. /\ r \in Seq(Evs) /\ r[n] = e /\ n \in DOMAIN r
      /\ \A i \in DOMAIN q : r[i] = q[i] /\ i < n /\ i \in Nat /\ i \in DOMAIN r
      /\ \A i \in DOMAIN r : i \in DOMAIN q \/ i = n
  BY Appended
<1> HIDE DEF r, n
<1>2. ASSUME NEW g \in Gen
      PROVE  Ours(r, g) = IF e.kind = "data" /\ e.unit[1] = g THEN Ours(q, g) \cup {n} ELSE Ours(q, g)
  <2>1. \A i : i \in Ours(r, g) <=> i \in Ours(q, g) \/ (i = n /\ e.kind = "data" /\ e.unit[1] = g)
    BY <1>1 DEF Ours
  <2> QED BY <2>1
<1>3. ASSUME NEW g \in Gen
      PROVE  Accs(r, g) = IF e.kind = "accept" /\ e.gen = g THEN Accs(q, g) \cup {n} ELSE Accs(q, g)
  <2>1. \A i : i \in Accs(r, g) <=> i \in Accs(q, g) \/ (i = n /\ e.kind = "accept" /\ e.gen = g)
    BY <1>1 DEF Accs
  <2> QED BY <2>1
<1>4. ASSUME NEW f \in Fd
      PROVE  Shuts(r, f) = IF e.kind = "closed" /\ e.fd = f THEN Shuts(q, f) \cup {n} ELSE Shuts(q, f)
  <2>1. \A i : i \in Shuts(r, f) <=> i \in Shuts(q, f) \/ (i = n /\ e.kind = "closed" /\ e.fd = f)
    BY <1>1 DEF Shuts
  <2> QED BY <2>1
<1> QED BY <1>1, <1>2, <1>3, <1>4 DEF r, n

\* An index of the rest, and where it was.
LEMMA EventTail ==
    ASSUME NEW q \in Seq(Evs), q # <<>>
    PROVE  /\ Tail(q) \in Seq(Evs) /\ Head(q) = q[1] /\ Head(q) \in Evs
           /\ \A i \in DOMAIN Tail(q) : i \in Nat /\ i >= 1 /\ i + 1 \in DOMAIN q /\ Tail(q)[i] = q[i + 1]
           /\ \A i \in DOMAIN q : /\ i \in Nat /\ i >= 1
                                  /\ i = 1 \/ (i - 1 \in DOMAIN Tail(q) /\ Tail(q)[i - 1] = q[i])
           /\ 1 \in DOMAIN q
<1> DEFINE r == Tail(q)
           n == Len(q)
<1>1. /\ r \in Seq(Evs) /\ Head(q) = q[1] /\ Head(q) \in Evs /\ 1 \in DOMAIN q
      /\ n \in Nat /\ DOMAIN q = 1..n /\ DOMAIN r = 1..n - 1
      /\ \A i \in 1..n - 1 : r[i] = q[i + 1]
  BY Shortened
<1> HIDE DEF r, n
<1>2. \A i \in DOMAIN r : i \in Nat /\ i >= 1 /\ i + 1 \in DOMAIN q /\ r[i] = q[i + 1]
  BY <1>1
<1>3. ASSUME NEW i \in DOMAIN q, i # 1
      PROVE  i - 1 \in DOMAIN r /\ r[i - 1] = q[i]
  <2>1. i - 1 \in 1..n - 1 /\ (i - 1) + 1 = i
    BY <1>1, <1>3
  <2>2. r[i - 1] = q[(i - 1) + 1]
    BY <1>1, <2>1
  <2> QED BY <1>1, <2>1, <2>2
<1>4. \A i \in DOMAIN q : i \in Nat /\ i >= 1
  BY <1>1
<1> QED BY <1>1, <1>2, <1>3, <1>4 DEF r

LEMMA EventLess ==
    ASSUME NEW q \in Seq(Evs), q # <<>>
    PROVE  /\ \A g \in Gen : \A i \in Ours(Tail(q), g) : i + 1 \in Ours(q, g)
           /\ \A g \in Gen : \A i \in Ours(q, g) : i = 1 \/ i - 1 \in Ours(Tail(q), g)
           /\ \A g \in Gen : \A i \in Accs(Tail(q), g) : i + 1 \in Accs(q, g)
           /\ \A g \in Gen : \A i \in Accs(q, g) : i = 1 \/ i - 1 \in Accs(Tail(q), g)
           /\ \A f \in Fd : \A i \in Shuts(q, f) : i = 1 \/ i - 1 \in Shuts(Tail(q), f)
           /\ \A g \in Gen : 1 \in Ours(q, g) <=> Head(q).kind = "data" /\ Head(q).unit[1] = g
           /\ \A g \in Gen : 1 \in Accs(q, g) <=> Head(q).kind = "accept" /\ Head(q).gen = g
           /\ \A f \in Fd : 1 \in Shuts(q, f) <=> Head(q).kind = "closed" /\ Head(q).fd = f
<1> DEFINE r == Tail(q)
<1>1. /\ \A i \in DOMAIN r : i + 1 \in DOMAIN q /\ r[i] = q[i + 1]
      /\ \A i \in DOMAIN q : i = 1 \/ (i - 1 \in DOMAIN r /\ r[i - 1] = q[i])
      /\ 1 \in DOMAIN q /\ Head(q) = q[1]
  BY EventTail
<1> HIDE DEF r
<1>2. \A g \in Gen : /\ \A i \in Ours(r, g) : i + 1 \in Ours(q, g)
                     /\ \A i \in Ours(q, g) : i = 1 \/ i - 1 \in Ours(r, g)
                     /\ 1 \in Ours(q, g) <=> Head(q).kind = "data" /\ Head(q).unit[1] = g
  BY <1>1 DEF Ours
<1>3. \A g \in Gen : /\ \A i \in Accs(r, g) : i + 1 \in Accs(q, g)
                     /\ \A i \in Accs(q, g) : i = 1 \/ i - 1 \in Accs(r, g)
                     /\ 1 \in Accs(q, g) <=> Head(q).kind = "accept" /\ Head(q).gen = g
  BY <1>1 DEF Accs
<1>4. \A f \in Fd : /\ \A i \in Shuts(q, f) : i = 1 \/ i - 1 \in Shuts(r, f)
                    /\ 1 \in Shuts(q, f) <=> Head(q).kind = "closed" /\ Head(q).fd = f
  BY <1>1 DEF Shuts
<1> QED BY <1>2, <1>3, <1>4 DEF r

-------------------------------------------------------------------------------
(* The numbers of a connection's data.                                           *)

\* An event that is not the connection's data leaves its numbers alone.
LEMMA NumberingMore ==
    ASSUME NEW q \in Seq(Evs), NEW e \in Evs, NEW g \in Gen, NEW b \in Nat, NEW m \in Nat,
           NEW r \in Seq(Evs), r = Append(q, e), ~(e.kind = "data" /\ e.unit[1] = g)
    PROVE  /\ Rises(q, g) => Rises(r, g)
           /\ Follows(q, g, b) => Follows(r, g, b)
           /\ UpTo(q, g, m) => UpTo(r, g, m)
           /\ Hits(q, g, b, m) => Hits(r, g, b, m)
<1>1. Ours(r, g) = Ours(q, g) /\ \A i \in DOMAIN q : r[i] = q[i]
  BY EventAppend
<1>2. \A i \in Ours(q, g) : Num(r, i) = Num(q, i)
  BY <1>1, EventsOf DEF Num
<1> QED BY <1>1, <1>2 DEF Rises, Follows, UpTo, Hits

\* The next unit taken from the socket continues them.
LEMMA NumberingNext ==
    ASSUME NEW q \in Seq(Evs), NEW e \in Evs, NEW g \in Gen, NEW b \in Nat, NEW m \in Nat,
           NEW r \in Seq(Evs), r = Append(q, e), e.kind = "data", e.unit = <<g, m + 1>>,
           Rises(q, g), UpTo(q, g, m)
    PROVE  /\ Rises(r, g) /\ UpTo(r, g, m + 1) /\ Hits(r, g, b, m + 1)
           /\ Follows(q, g, b) /\ Hits(q, g, b, m) => Follows(r, g, b)
<1> DEFINE n == Len(q) + 1
           S == Ours(q, g)
           T == Ours(r, g)
<1>1. /\ T = S \cup {n} /\ Num(r, n) = m + 1
      /\ \A i \in S : Num(r, i) = Num(q, i) /\ i < n /\ i \in Nat /\ Num(q, i) \in Nat
  <2>1. T = S \cup {n} /\ r[n] = e /\ \A i \in DOMAIN q : r[i] = q[i] /\ i < n /\ i \in Nat
    BY EventAppend
  <2>2. \A i \in S : i \in DOMAIN q /\ Num(q, i) \in Nat
    BY EventsOf
  <2>3. e.unit[2] = m + 1
    OBVIOUS
  <2> QED BY <2>1, <2>2, <2>3 DEF Num
<1>2. n \in Nat
  BY EventsOf
<1>3. /\ \A i, j \in S : i < j => Num(q, i) < Num(q, j)
      /\ \A i \in S : Num(q, i) <= m
  BY DEF Rises, UpTo
<1> HIDE DEF S, T, n
<1>4. \A i, j \in T : i < j => Num(r, i) < Num(r, j)
  BY <1>1, <1>2, <1>3
<1>5. \A i \in T : Num(r, i) <= m + 1
  BY <1>1, <1>3
<1>6. n \in T /\ Num(r, n) = m + 1
  BY <1>1
<1>7. ASSUME \A i \in S : Num(q, i) = b + 1 \/ \E j \in S : j < i /\ Num(q, i) = Num(q, j) + 1,
             m = b \/ \E i \in S : Num(q, i) = m
      PROVE  \A i \in T : Num(r, i) = b + 1 \/ \E j \in T : j < i /\ Num(r, i) = Num(r, j) + 1
  <2>1. ASSUME NEW i \in S
        PROVE  Num(r, i) = b + 1 \/ \E j \in T : j < i /\ Num(r, i) = Num(r, j) + 1
    BY <1>1, <1>7, <2>1
  <2>2. Num(r, n) = b + 1 \/ \E j \in T : j < n /\ Num(r, n) = Num(r, j) + 1
    BY <1>1, <1>7
  <2> QED BY <1>1, <2>1, <2>2
<1> QED BY <1>4, <1>5, <1>6, <1>7 DEF Rises, UpTo, Hits, Follows, S, T

LEMMA OursTail ==
    ASSUME NEW q \in Seq(Evs), q # <<>>, NEW g \in Gen, NEW r \in Seq(Evs), r = Tail(q)
    PROVE  /\ \A i \in Ours(r, g) : i \in Nat /\ i >= 1 /\ i + 1 \in Ours(q, g) /\ Num(r, i) = Num(q, i + 1)
           /\ \A i \in Ours(q, g) : /\ i \in Nat /\ i >= 1 /\ Num(q, i) \in Nat
                                    /\ i = 1 \/ (i - 1 \in Ours(r, g) /\ Num(r, i - 1) = Num(q, i))
<1>1. \A i \in Ours(r, g) : i + 1 \in Ours(q, g)
  BY EventLess
<1>2. \A i \in Ours(q, g) : i = 1 \/ i - 1 \in Ours(r, g)
  BY EventLess
<1>3. /\ \A i \in DOMAIN r : i \in Nat /\ i >= 1 /\ r[i] = q[i + 1]
      /\ \A i \in DOMAIN q : i \in Nat /\ i >= 1 /\ (i = 1 \/ r[i - 1] = q[i])
  BY EventTail
<1>4. \A i \in Ours(q, g) : i \in DOMAIN q /\ Num(q, i) \in Nat
  BY EventsOf
<1>5. \A i \in Ours(r, g) : i \in DOMAIN r
  BY DEF Ours
<1>6. \A i \in Ours(r, g) : i \in Nat /\ i >= 1 /\ i + 1 \in Ours(q, g) /\ Num(r, i) = Num(q, i + 1)
  BY <1>1, <1>3, <1>5 DEF Num
<1>7. \A i \in Ours(q, g) : i = 1 \/ (i - 1 \in Ours(r, g) /\ Num(r, i - 1) = Num(q, i))
  BY <1>2, <1>3, <1>4 DEF Num
<1> QED BY <1>3, <1>4, <1>6, <1>7

\* Less by one that is not the connection's, or that is.
LEMMA NumberingLess ==
    ASSUME NEW q \in Seq(Evs), q # <<>>, NEW g \in Gen, NEW b \in Nat, NEW m \in Nat, NEW r \in Seq(Evs), r = Tail(q)
    PROVE  /\ Rises(q, g) => Rises(r, g)
           /\ UpTo(q, g, m) => UpTo(r, g, m)
           /\ 1 \notin Ours(q, g) => /\ Follows(q, g, b) => Follows(r, g, b)
                                     /\ Hits(q, g, b, m) => Hits(r, g, b, m)
           /\ 1 \in Ours(q, g) /\ Follows(q, g, b) /\ Rises(q, g) =>
                 /\ Num(q, 1) = b + 1 /\ Follows(r, g, b + 1)
                 /\ UpTo(q, g, m) /\ Hits(q, g, b, m) => Hits(r, g, b + 1, m)
<1> DEFINE S == Ours(q, g)
           T == Ours(r, g)
<1>1. /\ \A i \in T : i \in Nat /\ i >= 1 /\ i + 1 \in S /\ Num(r, i) = Num(q, i + 1)
      /\ \A i \in S : i \in Nat /\ i >= 1 /\ Num(q, i) \in Nat
      /\ \A i \in S : i = 1 \/ (i - 1 \in T /\ Num(r, i - 1) = Num(q, i))
  <2>1. /\ \A i \in Ours(r, g) : i \in Nat /\ i >= 1 /\ i + 1 \in Ours(q, g) /\ Num(r, i) = Num(q, i + 1)
        /\ \A i \in Ours(q, g) : /\ i \in Nat /\ i >= 1 /\ Num(q, i) \in Nat
                                 /\ i = 1 \/ (i - 1 \in Ours(r, g) /\ Num(r, i - 1) = Num(q, i))
    BY OursTail
  <2> QED BY <2>1
<1>2. /\ Rises(q, g) <=> \A i, j \in S : i < j => Num(q, i) < Num(q, j)
      /\ Rises(r, g) <=> \A i, j \in T : i < j => Num(r, i) < Num(r, j)
      /\ UpTo(q, g, m) <=> \A i \in S : Num(q, i) <= m
      /\ UpTo(r, g, m) <=> \A i \in T : Num(r, i) <= m
  BY DEF Rises, UpTo
<1>3. \A c : /\ Follows(q, g, c) <=> \A i \in S : Num(q, i) = c + 1 \/ \E j \in S : j < i /\ Num(q, i) = Num(q, j) + 1
             /\ Follows(r, g, c) <=> \A i \in T : Num(r, i) = c + 1 \/ \E j \in T : j < i /\ Num(r, i) = Num(r, j) + 1
             /\ Hits(q, g, c, m) <=> m = c \/ \E i \in S : Num(q, i) = m
             /\ Hits(r, g, c, m) <=> m = c \/ \E i \in T : Num(r, i) = m
  BY DEF Follows, Hits
<1> HIDE DEF S, T
<1>4. Rises(q, g) => Rises(r, g)
  <2>1. SUFFICES ASSUME \A i, j \in S : i < j => Num(q, i) < Num(q, j), NEW i \in T, NEW j \in T, i < j
                 PROVE  Num(r, i) < Num(r, j)
    BY <1>2
  <2>2. i + 1 \in S /\ j + 1 \in S /\ i + 1 < j + 1 /\ Num(r, i) = Num(q, i + 1) /\ Num(r, j) = Num(q, j + 1)
    BY <1>1, <2>1
  <2> QED BY <2>1, <2>2
<1>5. UpTo(q, g, m) => UpTo(r, g, m)
  BY <1>1, <1>2
<1>6. ASSUME 1 \notin S, Follows(q, g, b) PROVE Follows(r, g, b)
  <2>1. SUFFICES ASSUME NEW i \in T, Num(r, i) # b + 1
                 PROVE  \E j \in T : j < i /\ Num(r, i) = Num(r, j) + 1
    BY <1>3
  <2>2. PICK j \in S : j < i + 1 /\ Num(q, i + 1) = Num(q, j) + 1
    BY <1>1, <1>3, <1>6, <2>1
  <2>3. j - 1 \in T /\ Num(r, j - 1) = Num(q, j) /\ j - 1 < i
    BY <1>1, <1>6, <2>1, <2>2
  <2> QED BY <1>1, <2>1, <2>2, <2>3
<1>7. ASSUME 1 \notin S, Hits(q, g, b, m) PROVE Hits(r, g, b, m)
  <2>1. CASE m = b
    BY <1>3, <2>1
  <2>2. CASE \E i \in S : Num(q, i) = m
    BY <1>1, <1>3, <1>7, <2>2
  <2> QED BY <1>3, <1>7, <2>1, <2>2
<1>8. ASSUME 1 \in S, Follows(q, g, b), Rises(q, g)
      PROVE  /\ Num(q, 1) = b + 1 /\ Follows(r, g, b + 1)
             /\ UpTo(q, g, m) /\ Hits(q, g, b, m) => Hits(r, g, b + 1, m)
  <2>1. Num(q, 1) = b + 1
    BY <1>1, <1>3, <1>8
  <2>2. Follows(r, g, b + 1)
    <3>1. SUFFICES ASSUME NEW i \in T, Num(r, i) # (b + 1) + 1
                   PROVE  \E j \in T : j < i /\ Num(r, i) = Num(r, j) + 1
      BY <1>3
    <3>2. i + 1 \in S /\ Num(r, i) = Num(q, i + 1) /\ i \in Nat /\ i >= 1
      BY <1>1, <3>1
    <3>3. Num(q, 1) < Num(q, i + 1) /\ Num(q, i + 1) \in Nat
      BY <1>1, <1>2, <1>8, <3>2
    <3>4. Num(q, i + 1) # b + 1
      BY <2>1, <3>3
    <3>5. PICK j \in S : j < i + 1 /\ Num(q, i + 1) = Num(q, j) + 1
      BY <1>3, <1>8, <3>2, <3>4
    <3>6. j # 1
      BY <2>1, <3>1, <3>2, <3>5
    <3>7. j - 1 \in T /\ Num(r, j - 1) = Num(q, j) /\ j - 1 < i
      BY <1>1, <3>2, <3>5, <3>6
    <3> QED BY <3>2, <3>5, <3>7
  <2>3. ASSUME UpTo(q, g, m), Hits(q, g, b, m) PROVE Hits(r, g, b + 1, m)
    <3>1. m # b
      BY <1>2, <1>8, <2>1, <2>3
    <3>2. PICK i \in S : Num(q, i) = m
      BY <1>3, <2>3, <3>1
    <3>3. CASE i = 1
      BY <1>3, <2>1, <3>2, <3>3
    <3>4. CASE i # 1
      BY <1>1, <1>3, <3>2, <3>4
    <3> QED BY <3>3, <3>4
  <2> QED BY <2>1, <2>2, <2>3
<1> QED BY <1>4, <1>5, <1>6, <1>7, <1>8 DEF S

-------------------------------------------------------------------------------
(* Where the data of a connection come, and what comes before them.              *)

\* An event behind them does not displace the data of a connection.
LEMMA PlacedMore ==
    ASSUME NEW q \in Seq(Evs), NEW e \in Evs, NEW g \in Gen, NEW r \in Seq(Evs), r = Append(q, e),
           Placed(q, g), ~(e.kind = "data" /\ e.unit[1] = g),
           e.kind = "accept" /\ e.gen = g => Ours(q, g) = {}
    PROVE  Placed(r, g)
<1>1. /\ Ours(r, g) = Ours(q, g)
      /\ Accs(r, g) = IF e.kind = "accept" /\ e.gen = g THEN Accs(q, g) \cup {Len(q) + 1} ELSE Accs(q, g)
      /\ \A i \in DOMAIN q : r[i] = q[i]
  BY EventAppend
<1>2. (\A i \in Ours(q, g) : i \in DOMAIN q) /\ (\A i \in Accs(q, g) : i \in DOMAIN q)
  BY EventsOf
<1> QED BY <1>1, <1>2 DEF Placed

\* New data come behind the accept of their connection, by the descriptor it has.
LEMMA PlacedData ==
    ASSUME NEW q \in Seq(Evs), NEW e \in Evs, NEW g \in Gen, NEW r \in Seq(Evs), r = Append(q, e),
           Placed(q, g), e.kind = "data", e.unit[1] = g, g <= accepts,
           \A f \in Fd : owner[f] = g => f = e.fd,
           IF task[g] = "none" THEN Accs(q, g) # {} ELSE e.fd = fdOf[g],
           \A j \in Accs(q, g) : q[j].fd = e.fd
    PROVE  Placed(r, g)
<1> DEFINE n == Len(q) + 1
<1>1. /\ Ours(r, g) = Ours(q, g) \cup {n} /\ Accs(r, g) = Accs(q, g) /\ r[n] = e
      /\ \A i \in DOMAIN q : r[i] = q[i] /\ i < n
  BY EventAppend
<1>2. (\A i \in Ours(q, g) : i \in DOMAIN q) /\ (\A i \in Accs(q, g) : i \in DOMAIN q)
  BY EventsOf
<1> HIDE DEF n
<1>3. ASSUME NEW i \in Ours(q, g)
      PROVE  /\ \A f \in Fd : owner[f] = g => f = r[i].fd
             /\ IF task[g] = "none" THEN Accs(q, g) # {} ELSE r[i].fd = fdOf[g]
             /\ \A j \in Accs(q, g) : j < i /\ r[j].fd = r[i].fd
  <2>1. r[i] = q[i] /\ \A j \in Accs(q, g) : r[j] = q[j]
    BY <1>1, <1>2
  <2>2. /\ \A f \in Fd : owner[f] = g => f = q[i].fd
        /\ IF task[g] = "none" THEN Accs(q, g) # {} ELSE q[i].fd = fdOf[g]
        /\ \A j \in Accs(q, g) : j < i /\ q[j].fd = q[i].fd
    BY DEF Placed
  <2>3. \A f \in Fd : owner[f] = g => f = r[i].fd
    BY <2>1, <2>2
  <2>4. IF task[g] = "none" THEN Accs(q, g) # {} ELSE r[i].fd = fdOf[g]
    BY <2>1, <2>2
  <2>5. ASSUME NEW j \in Accs(q, g) PROVE j < i /\ r[j].fd = r[i].fd
    BY <2>1, <2>2
  <2> QED BY <2>3, <2>4, <2>5
<1>4. \A j \in Accs(q, g) : j < n /\ r[j].fd = r[n].fd
  BY <1>1, <1>2
<1>5. ASSUME NEW i \in Ours(r, g)
      PROVE  /\ g <= accepts
             /\ \A f \in Fd : owner[f] = g => f = r[i].fd
             /\ IF task[g] = "none" THEN Accs(r, g) # {} ELSE r[i].fd = fdOf[g]
             /\ \A j \in Accs(r, g) : j < i /\ r[j].fd = r[i].fd
  <2>1. CASE i \in Ours(q, g)
    <3>1. Accs(r, g) = Accs(q, g)
      BY <1>1
    <3> QED BY <1>3, <2>1, <3>1
  <2>2. CASE i = n
    <3>1. Accs(r, g) = Accs(q, g) /\ r[i].fd = e.fd
      BY <1>1, <2>2
    <3> QED BY <1>4, <2>2, <3>1
  <2> QED BY <1>1, <1>5, <2>1, <2>2
<1> QED BY <1>5 DEF Placed

LEMMA OthersTail ==
    ASSUME NEW q \in Seq(Evs), q # <<>>, NEW g \in Gen
    PROVE  /\ \A i \in Ours(Tail(q), g) : i \in Nat /\ i >= 1 /\ i + 1 \in Ours(q, g) /\ Tail(q)[i] = q[i + 1]
           /\ \A i \in Accs(Tail(q), g) : i \in Nat /\ i >= 1 /\ i + 1 \in Accs(q, g) /\ Tail(q)[i] = q[i + 1]
           /\ \A i \in Accs(q, g) : /\ i \in Nat /\ i >= 1
                                    /\ i = 1 \/ (i - 1 \in Accs(Tail(q), g) /\ Tail(q)[i - 1] = q[i])
           /\ \A f \in Fd : \A i \in Shuts(q, f) : i \in Nat /\ i >= 1 /\ (i = 1 \/ i - 1 \in Shuts(Tail(q), f))
<1>1. /\ \A i \in Ours(Tail(q), g) : i + 1 \in Ours(q, g)
      /\ \A i \in Accs(Tail(q), g) : i + 1 \in Accs(q, g)
      /\ \A i \in Accs(q, g) : i = 1 \/ i - 1 \in Accs(Tail(q), g)
      /\ \A f \in Fd : \A i \in Shuts(q, f) : i = 1 \/ i - 1 \in Shuts(Tail(q), f)
  BY EventLess
<1>2. /\ \A i \in DOMAIN Tail(q) : i \in Nat /\ i >= 1 /\ Tail(q)[i] = q[i + 1]
      /\ \A i \in DOMAIN q : i \in Nat /\ i >= 1 /\ (i = 1 \/ Tail(q)[i - 1] = q[i])
  BY EventTail
<1> QED BY <1>1, <1>2 DEF Ours, Accs, Shuts

\* Nor does one less before them, unless it is their accept.
LEMMA PlacedLess ==
    ASSUME NEW q \in Seq(Evs), q # <<>>, NEW g \in Gen, NEW r \in Seq(Evs), r = Tail(q),
           Placed(q, g), 1 \notin Accs(q, g)
    PROVE  Placed(r, g)
<1>1. /\ \A i \in Ours(r, g) : i \in Nat /\ i >= 1 /\ i + 1 \in Ours(q, g) /\ r[i] = q[i + 1]
      /\ \A i \in Accs(r, g) : i \in Nat /\ i >= 1 /\ i + 1 \in Accs(q, g) /\ r[i] = q[i + 1]
      /\ \A i \in Accs(q, g) : i = 1 \/ i - 1 \in Accs(r, g)
  BY OthersTail
<1>2. SUFFICES ASSUME NEW i \in Ours(r, g)
               PROVE  /\ g <= accepts
                      /\ \A f \in Fd : owner[f] = g => f = r[i].fd
                      /\ IF task[g] = "none" THEN Accs(r, g) # {} ELSE r[i].fd = fdOf[g]
                      /\ \A j \in Accs(r, g) : j < i /\ r[j].fd = r[i].fd
  BY DEF Placed
<1>3. i \in Nat /\ i + 1 \in Ours(q, g) /\ r[i] = q[i + 1]
  BY <1>1, <1>2
<1>4. /\ g <= accepts
      /\ \A f \in Fd : owner[f] = g => f = q[i + 1].fd
      /\ IF task[g] = "none" THEN Accs(q, g) # {} ELSE q[i + 1].fd = fdOf[g]
      /\ \A j \in Accs(q, g) : j < i + 1 /\ q[j].fd = q[i + 1].fd
  BY <1>3 DEF Placed
<1>5. Accs(q, g) # {} => Accs(r, g) # {}
  BY <1>1
<1>6. ASSUME NEW j \in Accs(r, g)
      PROVE  j < i /\ r[j].fd = r[i].fd
  <2>1. j \in Nat /\ j + 1 < i + 1 /\ r[j] = q[j + 1] /\ q[j + 1].fd = q[i + 1].fd
    BY <1>1, <1>4, <1>6
  <2>2. \A k \in Nat : k + 1 < i + 1 => k < i
    BY <1>3
  <2>3. r[j].fd = r[i].fd
    BY <1>3, <2>1
  <2> QED BY <2>1, <2>2, <2>3
<1> QED BY <1>3, <1>4, <1>5, <1>6

\* The task of the connection begins.
LEMMA PlacedBegun ==
    ASSUME NEW q \in Seq(Evs), q # <<>>, NEW g \in Gen, NEW r \in Seq(Evs), r = Tail(q),
           Placed(q, g), 1 \in Accs(q, g), accepts' = accepts, owner' = owner,
           task'[g] # "none", fdOf'[g] = q[1].fd
    PROVE  Placed(r, g)'
<1>1. /\ \A i \in Ours(r, g) : i \in Nat /\ i >= 1 /\ i + 1 \in Ours(q, g) /\ r[i] = q[i + 1]
      /\ \A i \in Accs(r, g) : i \in Nat /\ i >= 1 /\ i + 1 \in Accs(q, g) /\ r[i] = q[i + 1]
  BY OthersTail
<1>2. SUFFICES ASSUME NEW i \in Ours(r, g)
               PROVE  /\ g <= accepts
                      /\ \A f \in Fd : owner[f] = g => f = r[i].fd
                      /\ r[i].fd = q[1].fd
                      /\ \A j \in Accs(r, g) : j < i /\ r[j].fd = r[i].fd
  BY DEF Placed, Ours, Accs
<1>3. i \in Nat /\ i + 1 \in Ours(q, g) /\ r[i] = q[i + 1]
  BY <1>1, <1>2
<1>4. /\ g <= accepts
      /\ \A f \in Fd : owner[f] = g => f = q[i + 1].fd
      /\ \A j \in Accs(q, g) : j < i + 1 /\ q[j].fd = q[i + 1].fd
  BY <1>3 DEF Placed
<1>5. ASSUME NEW j \in Accs(r, g)
      PROVE  j < i /\ r[j].fd = r[i].fd
  <2>1. j \in Nat /\ j + 1 < i + 1 /\ r[j] = q[j + 1] /\ q[j + 1].fd = q[i + 1].fd
    BY <1>1, <1>4, <1>5
  <2>2. \A k \in Nat : k + 1 < i + 1 => k < i
    BY <1>3
  <2>3. r[j].fd = r[i].fd
    BY <1>3, <2>1
  <2> QED BY <2>1, <2>2, <2>3
<1> QED BY <1>3, <1>4, <1>5

LEMMA PlacedKept ==
    ASSUME NEW q \in Seq(Evs), NEW g \in Gen, Placed(q, g),
           accepts \in Nat, accepts' \in Nat, accepts <= accepts',
           Ours(q, g) # {} => \A f \in Fd : owner'[f] = g => owner[f] = g,
           task'[g] = "none" <=> task[g] = "none", fdOf'[g] = fdOf[g]
    PROVE  Placed(q, g)'
<1>1. g \in Nat
  BY BridgeConstants
<1>2. \A a, b \in Nat : g <= a /\ a <= b => g <= b
  BY <1>1
<1> QED BY <1>2 DEF Placed, Ours, Accs

LEMMA BetweenMore ==
    ASSUME NEW q \in Seq(Evs), NEW e \in Evs, NEW g \in Gen, NEW r \in Seq(Evs), r = Append(q, e),
           Between(q, g), ~(e.kind = "data" /\ e.unit[1] = g)
    PROVE  Between(r, g)
<1> DEFINE n == Len(q) + 1
<1>1. /\ Ours(r, g) = Ours(q, g)
      /\ \A h \in Gen : \A j \in Accs(r, h) : j \in Accs(q, h) \/ j = n
      /\ \A f \in Fd : Shuts(q, f) \subseteq Shuts(r, f)
      /\ \A i \in DOMAIN q : r[i] = q[i] /\ i < n /\ i \in Nat /\ q[i].fd \in Fd
  BY EventAppend, EventsOf
<1>2. /\ \A i \in Ours(q, g) : i \in DOMAIN q
      /\ \A h \in Gen : \A i \in Accs(q, h) : i \in DOMAIN q
  BY EventsOf
<1>3. n \in Nat
  BY EventsOf
<1> HIDE DEF n
<1>4. \A i \in Ours(q, g) : r[i] = q[i] /\ i \in Nat /\ ~(n < i) /\ q[i].fd \in Fd
  BY <1>1, <1>2, <1>3
<1>5. ASSUME NEW i \in Ours(q, g), NEW h \in Gen \ {g}, NEW j \in Accs(r, h), j < i, r[j].fd = r[i].fd
      PROVE  \E k \in Shuts(r, r[i].fd) : j < k /\ k < i
  <2>1. j \in Accs(q, h)
    BY <1>1, <1>4, <1>5
  <2>2. r[j] = q[j]
    BY <1>1, <1>2, <2>1
  <2>3. q[j].fd = q[i].fd
    BY <1>4, <1>5, <2>2
  <2>4. \E k \in Shuts(q, q[i].fd) : j < k /\ k < i
    BY <1>5, <2>1, <2>3 DEF Between
  <2> QED BY <1>1, <1>4, <1>5, <2>4
<1>6. ASSUME NEW i \in Ours(q, g), conns[r[i].fd] \notin {0, g}
      PROVE  \E k \in Shuts(r, r[i].fd) : k < i
  <2>1. \E k \in Shuts(q, q[i].fd) : k < i
    BY <1>4, <1>6 DEF Between
  <2> QED BY <1>1, <1>4, <1>6, <2>1
<1> QED BY <1>1, <1>5, <1>6 DEF Between

\* When data come, every earlier owner of the descriptor has had its close pushed.
LEMMA BetweenData ==
    ASSUME NEW q \in Seq(Evs), NEW e \in Evs, NEW g \in Gen, NEW r \in Seq(Evs), r = Append(q, e),
           Between(q, g), Told(q), e.kind = "data", e.unit[1] = g, owner[e.fd] = g
    PROVE  Between(r, g)
<1> DEFINE n == Len(q) + 1
<1>1. /\ Ours(r, g) = Ours(q, g) \cup {n} /\ r[n] = e /\ e.fd \in Fd
      /\ \A h \in Gen : Accs(r, h) = Accs(q, h)
      /\ \A f \in Fd : Shuts(q, f) = Shuts(r, f)
      /\ \A i \in DOMAIN q : r[i] = q[i] /\ i < n /\ i \in Nat /\ q[i].fd \in Fd
  BY EventAppend, EventsOf, EvFields
<1>2. /\ \A i \in Ours(q, g) : i \in DOMAIN q
      /\ \A h \in Gen : \A i \in Accs(q, h) : i \in DOMAIN q
      /\ \A f \in Fd : \A i \in Shuts(q, f) : i \in DOMAIN q
  BY EventsOf
<1> HIDE DEF n
<1>3. ASSUME NEW i \in Ours(q, g)
      PROVE  /\ \A h \in Gen \ {g} : \A j \in Accs(r, h) :
                   j < i /\ r[j].fd = r[i].fd => \E k \in Shuts(r, r[i].fd) : j < k /\ k < i
             /\ conns[r[i].fd] \notin {0, g} => \E k \in Shuts(r, r[i].fd) : k < i
  <2>1. r[i] = q[i] /\ q[i].fd \in Fd
    BY <1>1, <1>2
  <2>2. \A h \in Gen : \A j \in Accs(r, h) : r[j] = q[j]
    BY <1>1, <1>2
  <2> QED BY <1>1, <1>3, <2>1, <2>2 DEF Between
<1>4. ASSUME NEW h \in Gen \ {g}, NEW j \in Accs(r, h), r[j].fd = e.fd
      PROVE  \E k \in Shuts(r, e.fd) : j < k /\ k < n
  <2>1. j \in Accs(q, h) /\ q[j].fd = e.fd
    BY <1>1, <1>2, <1>4
  <2>2. \E k \in Shuts(q, e.fd) : j < k
    BY <2>1 DEF Told
  <2> QED BY <1>1, <1>2, <2>2
<1>5. ASSUME conns[e.fd] \notin {0, g}
      PROVE  \E k \in Shuts(r, e.fd) : k < n
  <2>1. Shuts(q, e.fd) # {}
    BY <1>1, <1>5 DEF Told
  <2> QED BY <1>1, <1>2, <2>1
<1>6. ASSUME NEW i \in Ours(r, g)
      PROVE  /\ \A h \in Gen \ {g} : \A j \in Accs(r, h) :
                   j < i /\ r[j].fd = r[i].fd => \E k \in Shuts(r, r[i].fd) : j < k /\ k < i
             /\ conns[r[i].fd] \notin {0, g} => \E k \in Shuts(r, r[i].fd) : k < i
  <2>1. CASE i \in Ours(q, g)
    BY <1>3, <2>1
  <2>2. CASE i = n
    <3>1. r[i].fd = e.fd
      BY <1>1, <2>2
    <3>2. \A h \in Gen \ {g} : \A j \in Accs(r, h) :
             r[j].fd = e.fd => \E k \in Shuts(r, e.fd) : j < k /\ k < n
      BY <1>4
    <3> QED BY <1>5, <2>2, <3>1, <3>2
  <2> QED BY <1>1, <1>6, <2>1, <2>2
<1> QED BY <1>6 DEF Between

\* What becomes of the channels when the head of q is dispatched.
Switched(q) ==
    \A f \in Fd :
        \/ conns'[f] = 0
        \/ conns'[f] = conns[f] /\ 1 \notin Shuts(q, f)
        \/ conns'[f] \in Gen /\ 1 \in Accs(q, conns'[f]) /\ q[1].fd = f

\* A close that is handed on unroutes the owner it stood for.
LEMMA BetweenLess ==
    ASSUME NEW q \in Seq(Evs), q # <<>>, NEW g \in Gen, NEW r \in Seq(Evs), r = Tail(q),
           Between(q, g), Switched(q)
    PROVE  Between(r, g)'
<1>1. \A i \in Ours(r, g) : i \in Nat /\ i >= 1 /\ i + 1 \in Ours(q, g) /\ r[i] = q[i + 1]
  BY OthersTail
<1>2. \A h \in Gen : \A j \in Accs(r, h) : j \in Nat /\ j >= 1 /\ j + 1 \in Accs(q, h) /\ r[j] = q[j + 1]
  BY OthersTail
<1>3. \A f \in Fd : \A k \in Shuts(q, f) : k \in Nat /\ k >= 1 /\ (k = 1 \/ k - 1 \in Shuts(r, f))
  BY OthersTail
<1>4. \A i \in Ours(q, g) : q[i].fd \in Fd
  BY EventsOf
<1>5. SUFFICES ASSUME NEW i \in Ours(r, g)
               PROVE  /\ \A h \in Gen \ {g} : \A j \in Accs(r, h) :
                            j < i /\ r[j].fd = r[i].fd => \E k \in Shuts(r, r[i].fd) : j < k /\ k < i
                      /\ conns'[r[i].fd] \notin {0, g} => \E k \in Shuts(r, r[i].fd) : k < i
  BY DEF Between, Ours, Accs, Shuts
<1>6. PICK f \in Fd : f = r[i].fd /\ f = q[i + 1].fd
  BY <1>1, <1>4, <1>5
<1>7. i \in Nat /\ i + 1 \in Ours(q, g)
  BY <1>1, <1>5
<1>8. /\ \A h \in Gen \ {g} : \A j \in Accs(q, h) :
            j < i + 1 /\ q[j].fd = f => \E k \in Shuts(q, f) : j < k /\ k < i + 1
      /\ conns[f] \notin {0, g} => \E k \in Shuts(q, f) : k < i + 1
  BY <1>6, <1>7 DEF Between
<1>9. ASSUME NEW h \in Gen \ {g}, NEW j \in Accs(r, h), j < i, r[j].fd = f
      PROVE  \E k \in Shuts(r, f) : j < k /\ k < i
  <2>1. j \in Nat /\ j >= 1 /\ j + 1 \in Accs(q, h) /\ q[j + 1].fd = f
    BY <1>2, <1>9
  <2>2. PICK k \in Shuts(q, f) : j + 1 < k /\ k < i + 1
    BY <1>7, <1>8, <1>9, <2>1
  <2>3. k - 1 \in Shuts(r, f) /\ j < k - 1 /\ k - 1 < i
    BY <1>3, <1>7, <2>1, <2>2
  <2> QED BY <2>3
<1>10. ASSUME conns'[f] \notin {0, g}
       PROVE  \E k \in Shuts(r, f) : k < i
  <2>1. CASE conns'[f] = conns[f] /\ 1 \notin Shuts(q, f)
    <3>1. PICK k \in Shuts(q, f) : k < i + 1
      BY <1>8, <1>10, <2>1
    <3>2. k - 1 \in Shuts(r, f) /\ k - 1 < i
      BY <1>3, <1>7, <2>1, <3>1
    <3> QED BY <3>2
  <2>2. CASE conns'[f] \in Gen /\ 1 \in Accs(q, conns'[f]) /\ q[1].fd = f
    <3>1. 1 < i + 1
      BY <1>1, <1>5
    <3>2. PICK k \in Shuts(q, f) : 1 < k /\ k < i + 1
      BY <1>8, <1>10, <2>2, <3>1
    <3>3. k - 1 \in Shuts(r, f) /\ k - 1 < i
      BY <1>3, <1>7, <3>2
    <3> QED BY <3>3
  <2> QED BY <1>10, <2>1, <2>2 DEF Switched
<1> QED BY <1>6, <1>9, <1>10

-------------------------------------------------------------------------------
(* Who is told that a fd is closed.                                              *)

\* Who loses a descriptor is told by the close pushed as it does.
LEMMA ToldClose ==
    ASSUME SocketTypes, NEW q \in Seq(Evs), NEW e \in Evs, NEW f \in Fd, NEW r \in Seq(Evs), r = Append(q, e),
           Told(q), e.kind = "closed", e.fd = f,
           owner' = [owner EXCEPT ![f] = 0], conns' = conns, task' = task
    PROVE  Told(r)'
<1> DEFINE n == Len(q) + 1
<1>1. /\ \A g \in Gen : Accs(r, g) = Accs(q, g)
      /\ Shuts(r, f) = Shuts(q, f) \cup {n}
      /\ \A d \in Fd : Shuts(q, d) \subseteq Shuts(r, d)
      /\ \A i \in DOMAIN q : r[i] = q[i] /\ i < n
  BY EventAppend
<1>2. /\ \A g \in Gen : \A i \in Accs(q, g) : i \in DOMAIN q
      /\ \A i \in DOMAIN q : q[i].fd \in Fd
  BY EventsOf
<1> HIDE DEF n
<1>3. owner'[f] = 0 /\ \A d \in Fd : d # f => owner'[d] = owner[d]
  BY DEF SocketTypes
<1>4. ASSUME NEW g \in Gen, NEW j \in Accs(r, g), owner'[r[j].fd] # g
      PROVE  \E k \in Shuts(r, r[j].fd) : j < k
  <2>1. j \in Accs(q, g) /\ r[j] = q[j] /\ q[j].fd \in Fd /\ j < n
    BY <1>1, <1>2, <1>4
  <2>2. CASE q[j].fd = f
    BY <1>1, <2>1, <2>2
  <2>3. CASE q[j].fd # f
    <3>1. \E k \in Shuts(q, q[j].fd) : j < k
      BY <1>3, <1>4, <2>1, <2>3 DEF Told
    <3> QED BY <1>1, <2>1, <3>1
  <2> QED BY <2>2, <2>3
<1>5. ASSUME NEW d \in Fd, conns[d] \notin {0, owner'[d]}
      PROVE  Shuts(r, d) # {}
  <2>1. CASE d = f
    BY <1>1, <2>1
  <2>2. CASE d # f
    BY <1>1, <1>3, <1>5, <2>2 DEF Told
  <2> QED BY <2>1, <2>2
<1>6. ASSUME NEW d \in Fd, owner'[d] # 0, task[owner'[d]] = "none"
      PROVE  Accs(r, owner'[d]) # {}
  <2>1. d # f /\ owner'[d] = owner[d] /\ owner[d] \in Gen
    BY <1>3, <1>6, OwnerGen
  <2> QED BY <1>1, <1>6, <2>1 DEF Told
<1> QED BY <1>4, <1>5, <1>6 DEF Told, Accs, Shuts

\* A descriptor given anew was free: the close of whoever had it is on its way.
LEMMA ToldAdmit ==
    ASSUME SocketTypes, NEW q \in Seq(Evs), NEW e \in Evs, NEW f \in Fd, NEW g \in Gen,
           NEW r \in Seq(Evs), r = Append(q, e),
           Told(q), e.kind = "accept", e.fd = f, e.gen = g, owner[f] = 0,
           owner' = [owner EXCEPT ![f] = g], conns' = conns, task' = task
    PROVE  Told(r)'
<1> DEFINE n == Len(q) + 1
<1>1. /\ \A h \in Gen : \A j \in Accs(r, h) : j \in Accs(q, h) \/ (j = n /\ h = g)
      /\ \A h \in Gen : Accs(q, h) \subseteq Accs(r, h)
      /\ n \in Accs(r, g) /\ r[n] = e
      /\ \A d \in Fd : Shuts(q, d) = Shuts(r, d)
      /\ \A i \in DOMAIN q : r[i] = q[i]
  <2>1. /\ \A h \in Gen : Accs(r, h) = IF e.kind = "accept" /\ e.gen = h THEN Accs(q, h) \cup {n} ELSE Accs(q, h)
        /\ \A d \in Fd : Shuts(r, d) = IF e.kind = "closed" /\ e.fd = d THEN Shuts(q, d) \cup {n} ELSE Shuts(q, d)
        /\ r[n] = e /\ \A i \in DOMAIN q : r[i] = q[i]
    BY EventAppend
  <2> HIDE DEF n
  <2>2. e.kind # "closed"
    OBVIOUS
  <2> QED BY <2>1, <2>2
<1>2. /\ \A h \in Gen : \A i \in Accs(q, h) : i \in DOMAIN q
      /\ \A i \in DOMAIN q : q[i].fd \in Fd
  BY EventsOf
<1> HIDE DEF n
<1>3. owner'[f] = g /\ \A d \in Fd : d # f => owner'[d] = owner[d]
  BY DEF SocketTypes
<1>4. ASSUME NEW h \in Gen, NEW j \in Accs(r, h), owner'[r[j].fd] # h
      PROVE  \E k \in Shuts(r, r[j].fd) : j < k
  <2>1. j \in Accs(q, h)
    BY <1>1, <1>3, <1>4
  <2>2. r[j] = q[j] /\ q[j].fd \in Fd
    BY <1>1, <1>2, <2>1
  <2>3. owner[q[j].fd] # h
    BY <1>3, <1>4, <2>2, BridgeConstants
  <2>4. \E k \in Shuts(q, q[j].fd) : j < k
    BY <2>1, <2>3 DEF Told
  <2> QED BY <1>1, <2>2, <2>4
<1>5. ASSUME NEW d \in Fd, conns[d] \notin {0, owner'[d]}
      PROVE  Shuts(r, d) # {}
  BY <1>1, <1>3, <1>5 DEF Told
<1>6. ASSUME NEW d \in Fd, owner'[d] # 0, task[owner'[d]] = "none"
      PROVE  Accs(r, owner'[d]) # {}
  <2>1. CASE d = f
    BY <1>1, <1>3, <2>1
  <2>2. CASE d # f
    <3>1. owner'[d] = owner[d] /\ owner[d] \in Gen
      BY <1>3, <1>6, <2>2, OwnerGen
    <3> QED BY <1>1, <1>6, <3>1 DEF Told
  <2> QED BY <2>1, <2>2
<1> QED BY <1>4, <1>5, <1>6 DEF Told, Accs, Shuts

LEMMA ToldData ==
    ASSUME SocketTypes, NEW q \in Seq(Evs), NEW e \in Evs, NEW r \in Seq(Evs), r = Append(q, e),
           Told(q), e.kind = "data"
    PROVE  Told(r)
<1>1. /\ \A h \in Gen : Accs(r, h) = Accs(q, h)
      /\ \A d \in Fd : Shuts(q, d) = Shuts(r, d)
      /\ \A i \in DOMAIN q : r[i] = q[i] /\ q[i].fd \in Fd
  BY EventAppend, EventsOf
<1>2. \A h \in Gen : \A i \in Accs(q, h) : i \in DOMAIN q
  BY EventsOf
<1>3. \A f \in Fd : owner[f] # 0 => owner[f] \in Gen
  BY OwnerGen
<1> QED BY <1>1, <1>2, <1>3 DEF Told

LEMMA ToldLess ==
    ASSUME SocketTypes, NEW q \in Seq(Evs), q # <<>>, NEW r \in Seq(Evs), r = Tail(q),
           Told(q), Switched(q), owner' = owner,
           \A g \in Gen : task'[g] = "none" => task[g] = "none" /\ 1 \notin Accs(q, g)
    PROVE  Told(r)'
<1>1. ASSUME NEW h \in Gen
      PROVE  \A j \in Accs(r, h) : j \in Nat /\ j >= 1 /\ j + 1 \in Accs(q, h) /\ r[j] = q[j + 1]
  <2>1. \A j \in Accs(Tail(q), h) : j \in Nat /\ j >= 1 /\ j + 1 \in Accs(q, h) /\ Tail(q)[j] = q[j + 1]
    BY OthersTail
  <2> QED BY <2>1
<1>2. \A h \in Gen : \A j \in Accs(q, h) : j = 1 \/ j - 1 \in Accs(r, h)
  BY OthersTail
<1>3. \A f \in Fd : \A k \in Shuts(q, f) : k \in Nat /\ k >= 1 /\ (k = 1 \/ k - 1 \in Shuts(r, f))
  <2>1. 1 \in Gen
    BY BridgeConstants DEF Gen
  <2> QED BY <2>1, OthersTail
<1>4. \A h \in Gen : \A j \in Accs(q, h) : q[j].fd \in Fd
  BY EventsOf
<1>5. ASSUME NEW g \in Gen, NEW j \in Accs(r, g), owner[r[j].fd] # g
      PROVE  \E k \in Shuts(r, r[j].fd) : j < k
  <2>1. j \in Nat /\ j >= 1 /\ j + 1 \in Accs(q, g) /\ r[j] = q[j + 1] /\ q[j + 1].fd \in Fd
    BY <1>1, <1>4, <1>5
  <2>2. PICK k \in Shuts(q, q[j + 1].fd) : j + 1 < k
    BY <1>5, <2>1 DEF Told
  <2>3. k - 1 \in Shuts(r, q[j + 1].fd) /\ j < k - 1
    BY <1>3, <2>1, <2>2
  <2> QED BY <2>1, <2>3
<1>6. ASSUME NEW f \in Fd, conns'[f] \notin {0, owner[f]}
      PROVE  Shuts(r, f) # {}
  <2>1. CASE conns'[f] = conns[f] /\ 1 \notin Shuts(q, f)
    <3>1. PICK k \in Shuts(q, f) : TRUE
      BY <1>6, <2>1 DEF Told
    <3> QED BY <1>3, <2>1, <3>1
  <2>2. CASE conns'[f] \in Gen /\ 1 \in Accs(q, conns'[f]) /\ q[1].fd = f
    <3>1. PICK k \in Shuts(q, f) : 1 < k
      BY <1>6, <2>2 DEF Told
    <3> QED BY <1>3, <3>1
  <2> QED BY <1>6, <2>1, <2>2 DEF Switched
<1>7. ASSUME NEW f \in Fd, owner[f] # 0, task'[owner[f]] = "none"
      PROVE  Accs(r, owner[f]) # {}
  <2>1. owner[f] \in Gen
    BY <1>7, OwnerGen
  <2>2. task[owner[f]] = "none" /\ 1 \notin Accs(q, owner[f])
    BY <1>7, <2>1
  <2>3. PICK j \in Accs(q, owner[f]) : TRUE
    BY <1>7, <2>2 DEF Told
  <2> QED BY <1>2, <2>1, <2>2, <2>3
<1> QED BY <1>5, <1>6, <1>7 DEF Told, Accs, Shuts

-------------------------------------------------------------------------------
(* The events on their way, while none is lost and none overtakes another.       *)

LEMMA QTypes ==
    ASSUME InwardTypes
    PROVE  rx \in Seq(Evs) /\ late \in Seq(Evs) /\ Q \in Seq(Evs)
<1>1. rx \in Seq(Evs) /\ late \in Seq(Evs)
  BY DEF InwardTypes
<1> QED BY <1>1, ConcatProperties DEF Q

\* An event pushed goes to the end of the queue while none overtakes another.
LEMMA QMore ==
    ASSUME InwardTypes, NEW e \in Evs, PushRx(e), ~overrun'
    PROVE  ~overrun /\ ~Lost /\ Q' = Append(Q, e)
<1>1. /\ rx' = IF Len(rx) < RxCap THEN Append(rx, e) ELSE rx
      /\ late' = IF Len(rx) < RxCap \/ Lost THEN late ELSE Append(late, e)
      /\ ~overrun /\ ~Lost /\ (Len(rx) < RxCap => late = <<>>)
  BY DEF PushRx
<1>2. rx \in Seq(Evs) /\ late \in Seq(Evs) /\ Q \in Seq(Evs)
  BY QTypes
<1>3. Q' = rx' \o late'
  BY DEF Q
<1>4. CASE Len(rx) < RxCap
  <2>1. rx' = Append(rx, e) /\ late' = <<>> /\ late = <<>>
    BY <1>1, <1>4
  <2>2. Append(rx, e) \in Seq(Evs)
    BY <1>2, Appended
  <2>3. Append(rx, e) \o <<>> = Append(rx, e) /\ rx \o <<>> = rx
    BY <1>2, <2>2, ConcatEmptySeq
  <2> QED BY <1>1, <1>3, <2>1, <2>3 DEF Q
<1>5. CASE ~(Len(rx) < RxCap)
  <2>1. rx' = rx /\ late' = Append(late, e)
    BY <1>1, <1>5
  <2>2. <<e>> \in Seq(Evs)
    OBVIOUS
  <2>3. Append(late, e) = late \o <<e>> /\ Append(Q, e) = Q \o <<e>>
    BY <1>2, AppendIsConcat
  <2>4. (rx \o late) \o <<e>> = rx \o (late \o <<e>>)
    BY <1>2, <2>2, ConcatAssociative
  <2> QED BY <1>1, <1>3, <2>1, <2>3, <2>4 DEF Q
<1> QED BY <1>4, <1>5

LEMMA HeadAndTail ==
    ASSUME NEW S, NEW q \in Seq(S), q # <<>>
    PROVE  Head(q) \in S /\ Tail(q) \in Seq(S) /\ q = <<Head(q)>> \o Tail(q)
<1>1. /\ Head(q) \in S /\ Tail(q) \in Seq(S) /\ Head(q) = q[1] /\ Len(q) \in Nat /\ Len(q) >= 1
      /\ Len(Tail(q)) = Len(q) - 1
      /\ \A i \in 1..Len(q) - 1 : Tail(q)[i] = q[i + 1]
  BY Shortened
<1> DEFINE r == <<Head(q)>> \o Tail(q)
<1>2. /\ r \in Seq(S) /\ Len(r) = Len(Tail(q)) + 1 /\ r[1] = Head(q)
      /\ \A i \in 1..Len(Tail(q)) : r[i + 1] = Tail(q)[i]
  BY <1>1, Fronted
<1> HIDE DEF r
<1>3. Len(r) = Len(q)
  BY <1>1, <1>2
<1>4. ASSUME NEW i \in 1..Len(q) PROVE r[i] = q[i]
  <2>1. CASE i = 1
    BY <1>1, <1>2, <2>1
  <2>2. CASE i # 1
    <3>1. i - 1 \in 1..Len(q) - 1 /\ (i - 1) + 1 = i
      BY <1>1, <2>2
    <3>2. r[(i - 1) + 1] = Tail(q)[i - 1] /\ Tail(q)[i - 1] = q[(i - 1) + 1]
      BY <1>1, <1>2, <3>1
    <3> QED BY <3>1, <3>2
  <2> QED BY <2>1, <2>2
<1>5. r = q
  BY <1>2, <1>3, <1>4, SeqEqual
<1> QED BY <1>1, <1>5 DEF r

\* bridge_worker takes from its front.
LEMMA QLess ==
    ASSUME InwardTypes, rx # <<>>, rx' = Tail(rx), late' = late
    PROVE  Q \in Seq(Evs) /\ Q # <<>> /\ Head(Q) = Head(rx) /\ Q' = Tail(Q)
<1>1. rx \in Seq(Evs) /\ late \in Seq(Evs) /\ Q \in Seq(Evs)
  BY QTypes
<1>2. Head(rx) \in Evs /\ Tail(rx) \in Seq(Evs) /\ rx = <<Head(rx)>> \o Tail(rx)
  BY <1>1, HeadAndTail
<1>3. <<Head(rx)>> \in Seq(Evs) /\ Tail(rx) \o late \in Seq(Evs)
  BY <1>1, <1>2, ConcatProperties
<1>4. (<<Head(rx)>> \o Tail(rx)) \o late = <<Head(rx)>> \o (Tail(rx) \o late)
  BY <1>1, <1>2, <1>3, ConcatAssociative
<1>5. Q = <<Head(rx)>> \o (Tail(rx) \o late)
  BY <1>2, <1>4 DEF Q
<1>6. Q' = Tail(rx) \o late
  BY DEF Q
<1> QED BY <1>1, <1>2, <1>3, <1>5, <1>6, Fronted

\* Moving an event from the overflow into the ring leaves the queue as it is.
LEMMA QKept ==
    ASSUME InwardTypes, UNCHANGED <<rx, late>> \/ Deliver
    PROVE  Q' = Q
<1>1. CASE UNCHANGED <<rx, late>>
  BY <1>1 DEF Q
<1>2. CASE Deliver /\ ~UNCHANGED <<rx, late>>
  <2>1. late # <<>> /\ rx' = Append(rx, Head(late)) /\ late' = Tail(late)
    BY <1>2 DEF Deliver
  <2>2. rx \in Seq(Evs) /\ late \in Seq(Evs)
    BY QTypes
  <2>3. Head(late) \in Evs /\ Tail(late) \in Seq(Evs) /\ late = <<Head(late)>> \o Tail(late)
    BY <2>1, <2>2, HeadAndTail
  <2>4. <<Head(late)>> \in Seq(Evs) /\ Append(rx, Head(late)) = rx \o <<Head(late)>>
    BY <2>2, <2>3, AppendIsConcat
  <2>5. (rx \o <<Head(late)>>) \o Tail(late) = rx \o (<<Head(late)>> \o Tail(late))
    BY <2>2, <2>3, <2>4, ConcatAssociative
  <2> QED BY <2>1, <2>3, <2>4, <2>5 DEF Q
<1> QED BY <1>1, <1>2

LEMMA QDue ==
    ASSUME InwardTypes, Announced
    PROVE  \A i \in DOMAIN Q : Due(Q[i])
<1>1. rx \in Seq(Evs) /\ late \in Seq(Evs) /\ Q \in Seq(Evs)
  BY QTypes
<1>2. /\ Len(rx) \in Nat /\ Len(late) \in Nat
      /\ DOMAIN rx = 1..Len(rx) /\ DOMAIN late = 1..Len(late) /\ DOMAIN Q = 1..Len(Q)
  BY <1>1, LenProperties
<1>3. /\ Len(Q) = Len(rx) + Len(late)
      /\ \A i \in 1..Len(rx) + Len(late) : Q[i] = IF i <= Len(rx) THEN rx[i] ELSE late[i - Len(rx)]
  BY <1>1, ConcatProperties DEF Q
<1> SUFFICES ASSUME NEW i \in DOMAIN Q PROVE Due(Q[i])
  OBVIOUS
<1>4. CASE i <= Len(rx)
  <2>1. i \in DOMAIN rx /\ Q[i] = rx[i]
    BY <1>2, <1>3, <1>4
  <2> QED BY <2>1 DEF Announced
<1>5. CASE ~(i <= Len(rx))
  <2>1. i - Len(rx) \in DOMAIN late /\ Q[i] = late[i - Len(rx)]
    BY <1>2, <1>3, <1>5
  <2> QED BY <2>1 DEF Announced
<1> QED BY <1>4, <1>5

-------------------------------------------------------------------------------
(* Of what a connection's numbers are, in the next state.                        *)

RoutedNext(q, g) == task'[g] # "ended" /\ ((\E f \in Fd : conns'[f] = g) \/ Accs(q, g) # {})

LEMMA NumberingIs ==
    ASSUME NEW q \in Seq(Evs), NEW g \in Gen, NEW b \in Nat, NEW m \in Nat,
           b = Len(heard'[g]) + Len(inbox'[g]), m = taken'[g],
           Rises(q, g), RoutedNext(q, g) => Follows(q, g, b),
           (\E f \in Fd : owner'[f] = g) => UpTo(q, g, m) /\ (RoutedNext(q, g) => Hits(q, g, b, m)),
           g > accepts' => m = 0
    PROVE  Numbering(q, g)'
<1>1. Rises(q, g)'
  BY DEF Rises, Ours, Num
<1>2. Routed(q, g)' <=> RoutedNext(q, g)
  BY DEF Routed, RoutedNext, Accs
<1>3. Open(g)' <=> \E f \in Fd : owner'[f] = g
  BY DEF Open
<1>4. Got(g)' = b
  BY DEF Got
<1>5. Follows(q, g, Got(g))' <=> Follows(q, g, b)
  BY <1>4 DEF Follows, Ours, Num
<1>6. UpTo(q, g, taken[g])' <=> UpTo(q, g, m)
  BY DEF UpTo, Ours, Num
<1>7. Hits(q, g, Got(g), taken[g])' <=> Hits(q, g, b, m)
  BY <1>4 DEF Hits, Ours, Num
<1> QED BY <1>1, <1>2, <1>3, <1>5, <1>6, <1>7 DEF Numbering

LEMMA HeardTypes ==
    ASSUME Basic
    PROVE  /\ accepts \in Nat /\ taken \in [Gen -> Nat] /\ task \in [Gen -> TaskStates]
           /\ conns \in [Fd -> 0..MaxPeers] /\ fdOf \in [Gen -> 0..MaxFd]
           /\ heard \in [Gen -> Seq(Gen \X Nat)] /\ inbox \in [Gen -> Seq(Gen \X Nat)]
           /\ \A g \in Gen : Len(heard[g]) \in Nat /\ Len(inbox[g]) \in Nat /\ Got(g) \in Nat
           /\ \A g \in Gen : task[g] = "none" => Got(g) = 0
           /\ \A g \in Gen, f \in Fd : owner[f] = g => g <= accepts
<1>1. /\ taken \in [Gen -> Nat] /\ task \in [Gen -> TaskStates]
      /\ conns \in [Fd -> 0..MaxPeers] /\ fdOf \in [Gen -> 0..MaxFd]
      /\ heard \in [Gen -> Seq(Gen \X Nat)] /\ inbox \in [Gen -> Seq(Gen \X Nat)]
  BY DEF Basic, DriverInv, OutwardTypes, TokioTypes
<1>2. accepts \in Nat
  BY BridgeConstants DEF Basic, DriverInv, SocketTypes
<1>3. \A g \in Gen : heard[g] \in Seq(Gen \X Nat) /\ inbox[g] \in Seq(Gen \X Nat)
  BY <1>1
<1>4. \A g \in Gen : Len(heard[g]) \in Nat /\ Len(inbox[g]) \in Nat
  BY <1>3, LenProperties
<1>5. \A g \in Gen : Got(g) \in Nat
  <2>1. ASSUME NEW g \in Gen PROVE Got(g) \in Nat
    <3>1. PICK a \in Nat : a = Len(heard[g])
      BY <1>4
    <3>2. PICK b \in Nat : b = Len(inbox[g])
      BY <1>4
    <3>3. Got(g) = a + b
      BY <3>1, <3>2 DEF Got
    <3> QED BY <3>3
  <2> QED BY <2>1
<1>6. ASSUME NEW g \in Gen, task[g] = "none" PROVE Got(g) = 0
  <2>1. heard[g] = <<>> /\ inbox[g] = <<>>
    BY <1>6 DEF Basic, DriverInv, Begun
  <2>2. Len(<<>>) = 0
    BY EmptySeq
  <2> QED BY <2>1, <2>2 DEF Got
<1>7. \A g \in Gen, f \in Fd : owner[f] = g => g <= accepts
  BY DEF Basic, DriverInv, Owned
<1> QED BY <1>1, <1>2, <1>4, <1>5, <1>6, <1>7

-------------------------------------------------------------------------------
(* What a step does to what is on its way.                                       *)

HeardParts(q) ==
    /\ InLine /\ Told(q)
    /\ \A g \in Gen : Placed(q, g) /\ Between(q, g)
    /\ \A g \in Gen :
          /\ Rises(q, g)
          /\ Routed(q, g) => Follows(q, g, Got(g))
          /\ Open(g) => UpTo(q, g, taken[g])
          /\ Open(g) /\ Routed(q, g) => Hits(q, g, Got(g), taken[g])
          /\ g > accepts => taken[g] = 0

LEMMA HeardSplit ==
    ASSUME NEW q \in Seq(Evs), HeardOn(q)
    PROVE  HeardParts(q)
BY DEF HeardOn, HeardParts, Numbering

\* A step that no task and no fd takes part in.
LEMMA HeardQuiet ==
    ASSUME Basic, NEW q \in Seq(Evs), HeardOn(q),
           UNCHANGED <<accepts, owner, conns, taken, heard, inbox, fdOf>>,
           \A g \in Gen : /\ task'[g] = "none" <=> task[g] = "none"
                          /\ task'[g] = "ended" <=> task[g] = "ended"
    PROVE  HeardOn(q)'
<1>1. HeardParts(q)
  BY HeardSplit
<1>2. InLine'
  BY <1>1 DEF HeardParts, InLine, InOrder
<1>3. Told(q)'
  <2>1. \A f \in Fd : owner[f] # 0 => owner[f] \in Gen
    BY OwnerGen DEF Basic, DriverInv
  <2> QED BY <1>1, <2>1 DEF HeardParts, Told, Accs, Shuts
<1>4. \A g \in Gen : Placed(q, g)'
  <2>1. ASSUME NEW g \in Gen PROVE Placed(q, g)'
    <3>1. accepts \in Nat /\ accepts' \in Nat /\ accepts <= accepts'
      BY HeardTypes
    <3> QED BY <1>1, <3>1, PlacedKept DEF HeardParts
  <2> QED BY <2>1
<1>5. \A g \in Gen : Between(q, g)'
  BY <1>1 DEF HeardParts, Between, Ours, Accs, Shuts
<1>6. ASSUME NEW g \in Gen PROVE Numbering(q, g)'
  <2>1. PICK b \in Nat : b = Got(g)
    BY HeardTypes
  <2>2. PICK m \in Nat : m = taken[g]
    BY HeardTypes
  <2>3. b = Len(heard'[g]) + Len(inbox'[g])
    BY <2>1 DEF Got
  <2>4. RoutedNext(q, g) => Routed(q, g)
    BY DEF RoutedNext, Routed
  <2>5. (\E f \in Fd : owner'[f] = g) => Open(g)
    BY DEF Open
  <2>6. /\ Rises(q, g) /\ (Routed(q, g) => Follows(q, g, b))
        /\ Open(g) => UpTo(q, g, m) /\ (Routed(q, g) => Hits(q, g, b, m))
        /\ g > accepts => m = 0
    BY <1>1, <2>1, <2>2 DEF HeardParts
  <2> QED BY <2>2, <2>3, <2>4, <2>5, <2>6, NumberingIs
<1> QED BY <1>2, <1>3, <1>4, <1>5, <1>6 DEF HeardOn

\* A fd is closed, or nothing is but its close is told again.
LEMMA CloseHeard ==
    ASSUME Basic, NEW q \in Seq(Evs), HeardOn(q), NEW e \in Evs, NEW f \in Fd,
           NEW r \in Seq(Evs), r = Append(q, e), e.kind = "closed", e.fd = f, UNCHANGED tokio,
           accepts' = accepts, owner' = [owner EXCEPT ![f] = 0],
           \A g \in Gen : g # owner[f] => taken'[g] = taken[g], taken' \in [Gen -> Nat]
    PROVE  HeardOn(r)'
<1>1. HeardParts(q)
  BY HeardSplit
<1>2. conns' = conns /\ inbox' = inbox /\ task' = task /\ fdOf' = fdOf /\ heard' = heard
  BY UnchangedTokio
<1>3. /\ accepts \in Nat /\ taken \in [Gen -> Nat] /\ \A g \in Gen : Got(g) \in Nat
      /\ \A g \in Gen, d \in Fd : owner[d] = g => g <= accepts
  BY HeardTypes
<1>4. SocketTypes /\ Owned /\ \A d \in Fd : owner[d] # 0 => owner[d] \in Gen
  BY OwnerGen DEF Basic, DriverInv
<1>5. owner'[f] = 0 /\ \A d \in Fd : d # f => owner'[d] = owner[d]
  BY <1>4 DEF SocketTypes
<1>6. \A g \in Gen, d \in Fd : owner'[d] = g => owner[d] = g /\ d # f /\ g # owner[f]
  <2>1. SUFFICES ASSUME NEW g \in Gen, NEW d \in Fd, owner'[d] = g PROVE owner[d] = g /\ d # f /\ g # owner[f]
    OBVIOUS
  <2>2. g # 0
    BY BridgeConstants
  <2>3. d # f /\ owner[d] = g
    BY <1>5, <2>1, <2>2
  <2> QED BY <1>4, <2>2, <2>3 DEF Owned
<1>7. InLine'
  BY <1>1, <1>2 DEF HeardParts, InLine, InOrder
<1>8. Told(r)'
  BY <1>1, <1>2, <1>4, ToldClose DEF HeardParts
<1>9. ASSUME NEW g \in Gen PROVE Placed(r, g)'
  <2>1. Placed(r, g)
    BY <1>1, PlacedMore DEF HeardParts
  <2>2. accepts' \in Nat /\ accepts <= accepts'
    BY <1>3
  <2>3. \A d \in Fd : owner'[d] = g => owner[d] = g
    BY <1>6
  <2> QED BY <1>2, <1>3, <2>1, <2>2, <2>3, PlacedKept
<1>10. ASSUME NEW g \in Gen PROVE Between(r, g)'
  <2>1. Between(r, g)
    BY <1>1, BetweenMore DEF HeardParts
  <2> QED BY <1>2, <2>1 DEF Between, Ours, Accs, Shuts
<1>11. ASSUME NEW g \in Gen PROVE Numbering(r, g)'
  <2>1. PICK b \in Nat : b = Got(g)
    BY <1>3
  <2>2. PICK m \in Nat : m = taken'[g]
    OBVIOUS
  <2>3. b = Len(heard'[g]) + Len(inbox'[g])
    BY <1>2, <2>1 DEF Got
  <2>4. RoutedNext(r, g) => Routed(q, g)
    <3>1. Accs(r, g) = Accs(q, g)
      BY EventAppend
    <3> QED BY <1>2, <3>1 DEF RoutedNext, Routed
  <2>5. (\E d \in Fd : owner'[d] = g) => Open(g) /\ m = taken[g]
    BY <1>6, <2>2 DEF Open
  <2>6. /\ Rises(q, g) /\ (Routed(q, g) => Follows(q, g, b))
        /\ Open(g) /\ m = taken[g] => UpTo(q, g, m) /\ (Routed(q, g) => Hits(q, g, b, m))
    BY <1>1, <2>1 DEF HeardParts
  <2>7. /\ Rises(r, g) /\ (Follows(q, g, b) => Follows(r, g, b))
        /\ UpTo(q, g, m) => UpTo(r, g, m)
        /\ Hits(q, g, b, m) => Hits(r, g, b, m)
    BY <2>6, NumberingMore
  <2>8. g > accepts' => m = 0
    <3>1. g > accepts => g # owner[f]
      BY <1>3, <1>4, BridgeConstants
    <3> QED BY <1>1, <2>2, <3>1 DEF HeardParts
  <2>9. RoutedNext(r, g) => Follows(r, g, b)
    BY <2>4, <2>6, <2>7
  <2>10. (\E d \in Fd : owner'[d] = g) => UpTo(r, g, m) /\ (RoutedNext(r, g) => Hits(r, g, b, m))
    BY <2>4, <2>5, <2>6, <2>7
  <2> QED BY <2>2, <2>3, <2>7, <2>8, <2>9, <2>10, NumberingIs
<1> QED BY <1>7, <1>8, <1>9, <1>10, <1>11 DEF HeardOn

\* A connection is accepted.
LEMMA AdmitHeard ==
    ASSUME Basic, NEW q \in Seq(Evs), HeardOn(q), NEW e \in Evs, NEW f \in Fd, NEW g \in Gen,
           NEW r \in Seq(Evs), r = Append(q, e), e.kind = "accept", e.fd = f, e.gen = g, UNCHANGED tokio,
           g = accepts + 1, accepts' = g, owner[f] = 0, owner' = [owner EXCEPT ![f] = g],
           taken' = taken, task[g] = "none"
    PROVE  HeardOn(r)'
<1>1. HeardParts(q)
  BY HeardSplit
<1>2. conns' = conns /\ inbox' = inbox /\ task' = task /\ fdOf' = fdOf /\ heard' = heard
  BY UnchangedTokio
<1>3. /\ accepts \in Nat /\ taken \in [Gen -> Nat] /\ \A h \in Gen : Got(h) \in Nat
      /\ Got(g) = 0
  BY HeardTypes
<1>4. SocketTypes
  BY DEF Basic, DriverInv
<1>5. owner'[f] = g /\ \A d \in Fd : d # f => owner'[d] = owner[d]
  BY <1>4 DEF SocketTypes
<1>6. Ours(q, g) = {} /\ taken[g] = 0
  <2>1. ~(g <= accepts) /\ g > accepts
    BY <1>3
  <2> QED BY <1>1, <2>1 DEF HeardParts, Placed
<1>7. \A h \in Gen \ {g}, d \in Fd : owner'[d] = h => owner[d] = h
  BY <1>5
<1>8. InLine'
  BY <1>1, <1>2 DEF HeardParts, InLine, InOrder
<1>9. Told(r)'
  BY <1>1, <1>2, <1>4, ToldAdmit DEF HeardParts
<1>10. ASSUME NEW h \in Gen PROVE Placed(r, h)'
  <2>1. Placed(r, h)
    BY <1>1, <1>6, PlacedMore DEF HeardParts
  <2>2. accepts' \in Nat /\ accepts <= accepts'
    BY <1>3
  <2>3. Ours(r, h) = Ours(q, h)
    BY EventAppend
  <2>4. Ours(r, h) # {} => \A d \in Fd : owner'[d] = h => owner[d] = h
    BY <1>6, <1>7, <2>3
  <2> QED BY <1>2, <1>3, <2>1, <2>2, <2>4, PlacedKept
<1>11. ASSUME NEW h \in Gen PROVE Between(r, h)'
  <2>1. Between(r, h)
    BY <1>1, BetweenMore DEF HeardParts
  <2> QED BY <1>2, <2>1 DEF Between, Ours, Accs, Shuts
<1>12. ASSUME NEW h \in Gen \ {g} PROVE Numbering(r, h)'
  <2>1. PICK b \in Nat : b = Got(h)
    BY <1>3
  <2>2. PICK m \in Nat : m = taken[h]
    BY <1>3
  <2>3. b = Len(heard'[h]) + Len(inbox'[h])
    BY <1>2, <2>1 DEF Got
  <2>4. RoutedNext(r, h) => Routed(q, h)
    <3>1. Accs(r, h) = Accs(q, h)
      BY EventAppend
    <3> QED BY <1>2, <3>1 DEF RoutedNext, Routed
  <2>5. (\E d \in Fd : owner'[d] = h) => Open(h)
    BY <1>7 DEF Open
  <2>6. /\ Rises(q, h) /\ (Routed(q, h) => Follows(q, h, b))
        /\ Open(h) => UpTo(q, h, m) /\ (Routed(q, h) => Hits(q, h, b, m))
        /\ h > accepts => m = 0
    BY <1>1, <2>1, <2>2 DEF HeardParts
  <2>7. /\ Rises(r, h) /\ (Follows(q, h, b) => Follows(r, h, b))
        /\ UpTo(q, h, m) => UpTo(r, h, m)
        /\ Hits(q, h, b, m) => Hits(r, h, b, m)
    BY <2>6, NumberingMore
  <2>8. h > accepts' => m = 0
    <3>1. h \in Nat
      BY BridgeConstants
    <3>2. h > accepts' => h > accepts
      BY <1>3, <3>1
    <3> QED BY <2>6, <3>2
  <2>9. RoutedNext(r, h) => Follows(r, h, b)
    BY <2>4, <2>6, <2>7
  <2>10. (\E d \in Fd : owner'[d] = h) => UpTo(r, h, m) /\ (RoutedNext(r, h) => Hits(r, h, b, m))
    BY <2>4, <2>5, <2>6, <2>7
  <2>11. m = taken'[h]
    BY <2>2
  <2> QED BY <2>3, <2>7, <2>8, <2>9, <2>10, <2>11, NumberingIs
<1>13. Numbering(r, g)'
  <2>1. Ours(r, g) = {}
    BY <1>6, EventAppend
  <2>2. 0 = Len(heard'[g]) + Len(inbox'[g]) /\ 0 = taken'[g] /\ 0 \in Nat
    BY <1>2, <1>3, <1>6 DEF Got
  <2>3. Rises(r, g) /\ Follows(r, g, 0) /\ UpTo(r, g, 0) /\ Hits(r, g, 0, 0)
    BY <2>1 DEF Rises, Follows, UpTo, Hits
  <2> QED BY <2>2, <2>3, NumberingIs
<1>14. \A h \in Gen : Numbering(r, h)'
  BY <1>12, <1>13
<1> QED BY <1>8, <1>9, <1>10, <1>11, <1>14 DEF HeardOn

\* A unit is received on an open fd.
LEMMA ReceiveHeard ==
    ASSUME Basic, NEW q \in Seq(Evs), HeardOn(q), NEW e \in Evs, NEW f \in Fd, NEW g \in Gen,
           NEW r \in Seq(Evs), r = Append(q, e), e.kind = "data", e.fd = f, UNCHANGED tokio,
           owner[f] = g, e.unit = <<g, taken[g] + 1>>,
           accepts' = accepts, owner' = owner, taken' = [taken EXCEPT ![g] = taken[g] + 1],
           \A i \in DOMAIN q : Due(q[i])
    PROVE  HeardOn(r)'
<1>1. HeardParts(q)
  BY HeardSplit
<1>2. conns' = conns /\ inbox' = inbox /\ task' = task /\ fdOf' = fdOf /\ heard' = heard
  BY UnchangedTokio
<1>3. /\ accepts \in Nat /\ taken \in [Gen -> Nat] /\ \A h \in Gen : Got(h) \in Nat
      /\ g <= accepts
  BY HeardTypes
<1>4. SocketTypes /\ Owned /\ g # 0 /\ e.unit[1] = g
  BY BridgeConstants DEF Basic, DriverInv
<1>5. \A d \in Fd : owner[d] = g => d = f
  BY <1>4 DEF Owned
<1>6. IF task[g] = "none" THEN Accs(q, g) # {} ELSE f = fdOf[g]
  <2>1. CASE task[g] = "none"
    BY <1>1, <1>4, <2>1 DEF HeardParts, Told
  <2>2. CASE task[g] # "none"
    BY <2>2 DEF Basic, DriverInv, Begun
  <2> QED BY <2>1, <2>2
<1>7. \A j \in Accs(q, g) : q[j].fd = f
  BY DEF Accs, Due
<1>8. InLine'
  BY <1>1, <1>2 DEF HeardParts, InLine, InOrder
<1>9. Told(r)'
  <2>1. Told(r)
    BY <1>1, <1>4, ToldData DEF HeardParts
  <2> QED BY <1>2, <2>1 DEF Told, Accs, Shuts
<1>10. ASSUME NEW h \in Gen PROVE Placed(r, h)'
  <2>1. Placed(r, h)
    <3>1. CASE h = g
      <4>1. Placed(q, g)
        BY <1>1 DEF HeardParts
      <4>2. \A d \in Fd : owner[d] = g => d = e.fd
        BY <1>5
      <4>3. IF task[g] = "none" THEN Accs(q, g) # {} ELSE e.fd = fdOf[g]
        BY <1>6
      <4>4. \A j \in Accs(q, g) : q[j].fd = e.fd
        BY <1>7
      <4>5. Placed(r, g)
        BY <1>3, <1>4, <4>1, <4>2, <4>3, <4>4, PlacedData
      <4> QED BY <3>1, <4>5
    <3>2. CASE h # g
      BY <1>1, <1>4, <3>2, PlacedMore DEF HeardParts
    <3> QED BY <3>1, <3>2
  <2> QED BY <1>2, <2>1 DEF Placed, Ours, Accs
<1>11. ASSUME NEW h \in Gen PROVE Between(r, h)'
  <2>1. Between(r, h)
    <3>1. CASE h = g
      BY <1>1, <1>4, <3>1, BetweenData DEF HeardParts
    <3>2. CASE h # g
      BY <1>1, <1>4, <3>2, BetweenMore DEF HeardParts
    <3> QED BY <3>1, <3>2
  <2> QED BY <1>2, <2>1 DEF Between, Ours, Accs, Shuts
<1>12. ASSUME NEW h \in Gen PROVE Numbering(r, h)'
  <2>1. PICK b \in Nat : b = Got(h)
    BY <1>3
  <2>2. PICK m \in Nat : m = taken[h]
    BY <1>3
  <2>3. b = Len(heard'[h]) + Len(inbox'[h])
    BY <1>2, <2>1 DEF Got
  <2>4. RoutedNext(r, h) => Routed(q, h)
    <3>1. Accs(r, h) = Accs(q, h)
      BY EventAppend
    <3> QED BY <1>2, <3>1 DEF RoutedNext, Routed
  <2>5. (\E d \in Fd : owner'[d] = h) => Open(h)
    BY DEF Open
  <2>6. /\ Rises(q, h) /\ (Routed(q, h) => Follows(q, h, b))
        /\ Open(h) => UpTo(q, h, m) /\ (Routed(q, h) => Hits(q, h, b, m))
        /\ h > accepts => m = 0
    BY <1>1, <2>1, <2>2 DEF HeardParts
  <2>7. CASE h # g
    <3>1. /\ Rises(r, h) /\ (Follows(q, h, b) => Follows(r, h, b))
          /\ UpTo(q, h, m) => UpTo(r, h, m)
          /\ Hits(q, h, b, m) => Hits(r, h, b, m)
      BY <1>4, <2>6, <2>7, NumberingMore
    <3>2. m = taken'[h]
      BY <1>3, <2>2, <2>7
    <3>3. RoutedNext(r, h) => Follows(r, h, b)
      BY <2>4, <2>6, <3>1
    <3>4. (\E d \in Fd : owner'[d] = h) => UpTo(r, h, m) /\ (RoutedNext(r, h) => Hits(r, h, b, m))
      BY <2>4, <2>5, <2>6, <3>1
    <3>5. h > accepts' => m = 0
      BY <2>6
    <3> QED BY <2>3, <3>1, <3>2, <3>3, <3>4, <3>5, NumberingIs
  <2>8. CASE h = g
    <3>1. Open(g)
      BY DEF Open
    <3>2. Rises(q, g) /\ UpTo(q, g, m)
      BY <2>6, <2>8, <3>1
    <3>3. e.unit = <<g, m + 1>>
      BY <2>2, <2>8
    <3>4. /\ Rises(r, g) /\ UpTo(r, g, m + 1) /\ Hits(r, g, b, m + 1)
          /\ Follows(q, g, b) /\ Hits(q, g, b, m) => Follows(r, g, b)
      BY <3>2, <3>3, NumberingNext
    <3>5. m + 1 \in Nat /\ m + 1 = taken'[g]
      BY <1>3, <2>2, <2>8
    <3>6. RoutedNext(r, g) => Follows(r, g, b)
      BY <2>4, <2>6, <2>8, <3>1, <3>4
    <3>7. ~(g > accepts')
      BY <1>3, BridgeConstants
    <3>8. b = Len(heard'[g]) + Len(inbox'[g])
      BY <2>3, <2>8
    <3>9. Numbering(r, g)'
      BY <3>4, <3>5, <3>6, <3>7, <3>8, NumberingIs
    <3> QED BY <2>8, <3>9
  <2> QED BY <2>7, <2>8
<1> QED BY <1>8, <1>9, <1>10, <1>11, <1>12 DEF HeardOn

-------------------------------------------------------------------------------
(* The channel of a connection.                                                  *)

\* A sequence in order, and one more.
LEMMA InOrderMore ==
    ASSUME NEW g \in Gen, NEW s \in Seq(Gen \X Nat), InOrder(s, g), NEW u \in Gen \X Nat,
           u = <<g, Len(s) + 1>>
    PROVE  InOrder(Append(s, u), g)
<1> DEFINE t == Append(s, u)
           n == Len(s)
<1>1. /\ t \in Seq(Gen \X Nat) /\ Len(t) = n + 1 /\ n \in Nat /\ DOMAIN t = 1..n + 1
      /\ \A i \in 1..n : t[i] = s[i]
      /\ t[n + 1] = u
  BY Appended
<1>2. \A i \in 1..n : s[i] = <<g, i>>
  <2>1. s = [i \in 1..n |-> <<g, i>>]
    BY DEF InOrder
  <2> HIDE DEF n
  <2> QED BY <2>1
<1>3. u = <<g, n + 1>>
  OBVIOUS
<1> HIDE DEF t, n
<1>4. \A i \in 1..n + 1 : t[i] = <<g, i>>
  <2>1. \A i \in 1..n + 1 : i \in 1..n \/ i = n + 1
    BY <1>1
  <2> QED BY <1>1, <1>2, <1>3, <2>1
<1>5. t = [i \in 1..n + 1 |-> <<g, i>>]
  <2>1. t = [i \in 1..n + 1 |-> t[i]]
    BY <1>1
  <2> QED BY <1>4, <2>1
<1> QED BY <1>1, <1>5 DEF InOrder, t

\* poll_read: a unit goes from the channel to the task.
LEMMA HearHeard ==
    ASSUME Basic, NEW q \in Seq(Evs), HeardOn(q), NEW g \in Gen, Hear(g)
    PROVE  HeardOn(q)'
<1>1. HeardParts(q)
  BY HeardSplit
<1>2. /\ inbox[g] # <<>>
      /\ heard' = [heard EXCEPT ![g] = Append(heard[g], Head(inbox[g]))]
      /\ inbox' = [inbox EXCEPT ![g] = Tail(inbox[g])]
      /\ owner' = owner /\ accepts' = accepts /\ conns' = conns /\ task' = task /\ fdOf' = fdOf
      /\ taken' = taken
  BY DEF Hear, sockets
<1>3. /\ heard \in [Gen -> Seq(Gen \X Nat)] /\ inbox \in [Gen -> Seq(Gen \X Nat)]
      /\ heard[g] \in Seq(Gen \X Nat) /\ inbox[g] \in Seq(Gen \X Nat)
      /\ \A h \in Gen : Got(h) \in Nat
      /\ taken \in [Gen -> Nat] /\ accepts \in Nat
      /\ Len(heard[g]) \in Nat
  BY HeardTypes
<1> DEFINE n == Len(heard[g])
           k == Len(inbox[g])
           u == Head(inbox[g])
<1>4. /\ u = inbox[g][1] /\ u \in Gen \X Nat /\ 1 \in DOMAIN inbox[g]
      /\ k \in Nat /\ k >= 1 /\ Len(Tail(inbox[g])) = k - 1 /\ DOMAIN inbox[g] = 1..k
      /\ DOMAIN Tail(inbox[g]) = 1..k - 1
      /\ \A i \in 1..k - 1 : Tail(inbox[g])[i] = inbox[g][i + 1]
  BY <1>2, <1>3, Shortened
<1>5. InOrder(heard[g], g) /\ \A i \in DOMAIN inbox[g] : inbox[g][i] = <<g, n + i>>
  BY <1>1 DEF HeardParts, InLine
<1>6. heard'[g] = Append(heard[g], u) /\ inbox'[g] = Tail(inbox[g])
      /\ \A h \in Gen \ {g} : heard'[h] = heard[h] /\ inbox'[h] = inbox[h]
  BY <1>2, <1>3
<1>7. Len(heard'[g]) = n + 1 /\ Len(inbox'[g]) = k - 1 /\ n \in Nat
  <2>1. Len(Append(heard[g], u)) = Len(heard[g]) + 1
    BY <1>3, <1>4, Appended
  <2> QED BY <1>3, <1>4, <1>6, <2>1
<1>8. InOrder(heard'[g], g) /\ \A i \in DOMAIN inbox'[g] : inbox'[g][i] = <<g, Len(heard'[g]) + i>>
  <2>1. u = <<g, Len(heard[g]) + 1>>
    BY <1>4, <1>5
  <2>2. InOrder(Append(heard[g], u), g)
    BY <1>3, <1>4, <1>5, <2>1, InOrderMore
  <2>3. ASSUME NEW i \in DOMAIN inbox'[g] PROVE inbox'[g][i] = <<g, Len(heard'[g]) + i>>
    <3>1. i \in 1..k - 1 /\ i + 1 \in 1..k /\ i \in Nat
      BY <1>4, <1>6, <2>3
    <3>2. inbox'[g][i] = <<g, n + (i + 1)>>
      BY <1>4, <1>5, <1>6, <3>1
    <3>3. \A a, b \in Nat : a + (b + 1) = (a + 1) + b
      OBVIOUS
    <3> QED BY <1>7, <3>1, <3>2, <3>3
  <2> QED BY <1>6, <2>2, <2>3
<1>9. \A h \in Gen : Len(heard'[h]) + Len(inbox'[h]) = Got(h)
  <2>1. \A a, b \in Nat : (a + 1) + (b - 1) = a + b
    OBVIOUS
  <2>2. Len(heard'[g]) + Len(inbox'[g]) = Got(g)
    BY <1>4, <1>7, <2>1 DEF Got
  <2> QED BY <1>6, <2>2 DEF Got
<1> HIDE DEF n, k, u
<1>10. InLine'
  <2>1. ASSUME NEW h \in Gen
        PROVE  InOrder(heard'[h], h) /\ \A i \in DOMAIN inbox'[h] : inbox'[h][i] = <<h, Len(heard'[h]) + i>>
    <3>1. CASE h = g
      BY <1>8, <3>1
    <3>2. CASE h # g
      BY <1>1, <1>6, <3>2 DEF HeardParts, InLine
    <3> QED BY <3>1, <3>2
  <2> QED BY <2>1 DEF InLine, InOrder
<1>11. Told(q)' /\ \A h \in Gen : Placed(q, h)' /\ Between(q, h)'
  BY <1>1, <1>2 DEF HeardParts, Told, Placed, Between, Accs, Shuts, Ours
<1>12. ASSUME NEW h \in Gen PROVE Numbering(q, h)'
  <2>1. PICK b \in Nat : b = Got(h)
    BY <1>3
  <2>2. PICK m \in Nat : m = taken[h]
    BY <1>3
  <2>3. b = Len(heard'[h]) + Len(inbox'[h])
    BY <1>9, <2>1
  <2>4. RoutedNext(q, h) => Routed(q, h)
    BY <1>2 DEF RoutedNext, Routed
  <2>5. (\E f \in Fd : owner'[f] = h) => Open(h)
    BY <1>2 DEF Open
  <2>6. /\ Rises(q, h) /\ (Routed(q, h) => Follows(q, h, b))
        /\ Open(h) => UpTo(q, h, m) /\ (Routed(q, h) => Hits(q, h, b, m))
        /\ h > accepts => m = 0
    BY <1>1, <2>1, <2>2 DEF HeardParts
  <2>7. m = taken'[h] /\ (h > accepts' => m = 0)
    BY <1>2, <2>2, <2>6
  <2> QED BY <2>3, <2>4, <2>5, <2>6, <2>7, NumberingIs
<1> QED BY <1>10, <1>11, <1>12 DEF HeardOn

\* A task ends: what it has heard is of no account any more.
LEMMA EndHeard ==
    ASSUME Basic, NEW q \in Seq(Evs), HeardOn(q), NEW g \in Gen, End(g)
    PROVE  HeardOn(q)'
<1>1. HeardParts(q)
  BY HeardSplit
<1>2. /\ task[g] \in {"idle", "shut"} /\ task'[g] = "ended"
      /\ \A h \in Gen \ {g} : task'[h] = task[h] /\ inbox'[h] = inbox[h] /\ heard'[h] = heard[h]
      /\ inbox'[g] = <<>> /\ heard'[g] = <<>>
      /\ owner' = owner /\ accepts' = accepts /\ conns' = conns /\ fdOf' = fdOf /\ taken' = taken
  BY EndKeeps DEF sockets
<1>3. /\ taken \in [Gen -> Nat] /\ accepts \in Nat /\ \A h \in Gen : Got(h) \in Nat
      /\ \A f \in Fd : owner[f] # 0 => owner[f] \in Gen
  BY HeardTypes, OwnerGen DEF Basic, DriverInv
<1>4. \A h \in Gen : task'[h] = "none" <=> task[h] = "none"
  BY <1>2
<1>5. InLine'
  <2>1. InOrder(<<>>, g) /\ DOMAIN <<>> = {} /\ Len(<<>>) = 0
    BY NoneInOrder, EmptySeq, LenProperties DEF InOrder
  <2>2. ASSUME NEW h \in Gen
        PROVE  InOrder(heard'[h], h) /\ \A i \in DOMAIN inbox'[h] : inbox'[h][i] = <<h, Len(heard'[h]) + i>>
    <3>1. CASE h = g
      BY <1>2, <2>1, <3>1
    <3>2. CASE h # g
      BY <1>1, <1>2, <3>2 DEF HeardParts, InLine
    <3> QED BY <3>1, <3>2
  <2> QED BY <2>2 DEF InLine, InOrder
<1>6. Told(q)'
  BY <1>1, <1>2, <1>3, <1>4 DEF HeardParts, Told, Accs, Shuts
<1>7. ASSUME NEW h \in Gen PROVE Placed(q, h)'
  <2>1. accepts' \in Nat /\ accepts <= accepts'
    BY <1>2, <1>3
  <2> QED BY <1>1, <1>2, <1>3, <1>4, <2>1, PlacedKept DEF HeardParts
<1>8. \A h \in Gen : Between(q, h)'
  BY <1>1, <1>2 DEF HeardParts, Between, Accs, Shuts, Ours
<1>9. ASSUME NEW h \in Gen \ {g} PROVE Numbering(q, h)'
  <2>1. PICK b \in Nat : b = Got(h)
    BY <1>3
  <2>2. PICK m \in Nat : m = taken[h]
    BY <1>3
  <2>3. b = Len(heard'[h]) + Len(inbox'[h])
    BY <1>2, <2>1 DEF Got
  <2>4. RoutedNext(q, h) => Routed(q, h)
    BY <1>2 DEF RoutedNext, Routed
  <2>5. (\E f \in Fd : owner'[f] = h) => Open(h)
    BY <1>2 DEF Open
  <2>6. /\ Rises(q, h) /\ (Routed(q, h) => Follows(q, h, b))
        /\ Open(h) => UpTo(q, h, m) /\ (Routed(q, h) => Hits(q, h, b, m))
        /\ h > accepts => m = 0
    BY <1>1, <2>1, <2>2 DEF HeardParts
  <2>7. m = taken'[h] /\ (h > accepts' => m = 0)
    BY <1>2, <2>2, <2>6
  <2> QED BY <2>3, <2>4, <2>5, <2>6, <2>7, NumberingIs
<1>10. Numbering(q, g)'
  <2>1. PICK m \in Nat : m = taken[g]
    BY <1>3
  <2>2. ~RoutedNext(q, g)
    BY <1>2 DEF RoutedNext
  <2>3. PICK b \in Nat : b = Len(heard'[g]) + Len(inbox'[g])
    <3>1. Len(heard'[g]) = 0 /\ Len(inbox'[g]) = 0
      BY <1>2, EmptySeq
    <3> QED BY <3>1
  <2>4. (\E f \in Fd : owner'[f] = g) => UpTo(q, g, m)
    BY <1>1, <1>2, <2>1 DEF HeardParts, Open
  <2>5. m = taken'[g] /\ (g > accepts' => m = 0) /\ Rises(q, g)
    BY <1>1, <1>2, <2>1 DEF HeardParts
  <2> QED BY <2>2, <2>3, <2>4, <2>5, NumberingIs
<1>11. \A h \in Gen : Numbering(q, h)'
  BY <1>9, <1>10
<1> QED BY <1>5, <1>6, <1>7, <1>8, <1>11 DEF HeardOn

-------------------------------------------------------------------------------
(* bridge_worker hands on the first event.                                       *)

\* How each way of handing on the first event changes what is routed where.
LEMMA SwitchedBy ==
    ASSUME Basic, NEW q \in Seq(Evs), q # <<>>, NEW e \in Evs, e = Head(q),
           Accepted(e) \/ Dropped(e) \/ Unheard(e) \/ Passed(e)
    PROVE  Switched(q)
<1>1. /\ e = q[1] /\ e.fd \in Fd /\ (e.kind = "accept" => e.gen \in Gen)
      /\ e.kind \in {"accept", "closed", "data"}
  BY EventTail, EvFields
<1>2. /\ \A g \in Gen : 1 \in Accs(q, g) <=> e.kind = "accept" /\ e.gen = g
      /\ \A f \in Fd : 1 \in Shuts(q, f) <=> e.kind = "closed" /\ e.fd = f
  BY EventLess
<1>3. conns \in [Fd -> 0..MaxPeers]
  BY HeardTypes
<1>4. CASE Accepted(e)
  <2>1. e.kind = "accept" /\ conns' = [conns EXCEPT ![e.fd] = e.gen]
    BY <1>4 DEF Accepted
  <2>2. conns'[e.fd] = e.gen /\ \A f \in Fd : f # e.fd => conns'[f] = conns[f]
    BY <1>1, <1>3, <2>1
  <2>3. e.kind # "closed"
    BY <2>1
  <2> QED BY <1>1, <1>2, <2>1, <2>2, <2>3 DEF Switched
<1>5. CASE Dropped(e)
  <2>1. conns'[e.fd] = 0 /\ \A f \in Fd : f # e.fd => conns'[f] = conns[f]
    BY <1>1, <1>3, <1>5 DEF Dropped
  <2> QED BY <1>1, <1>2, <2>1 DEF Switched
<1>6. CASE Unheard(e) \/ Passed(e)
  <2>1. conns' = conns /\ e.kind = "data"
    BY <1>6 DEF Unheard, Passed
  <2>2. e.kind # "closed"
    BY <2>1
  <2> QED BY <1>2, <2>1, <2>2 DEF Switched
<1> QED BY <1>4, <1>5, <1>6

\* Data that a channel takes are of the connection whose channel it is, and the
\* next it is to get.
LEMMA PassedOwn ==
    ASSUME NEW q \in Seq(Evs), q # <<>>, HeardParts(q), NEW e \in Evs, e = Head(q), Passed(e)
    PROVE  /\ e.unit[1] \in Gen /\ conns[e.fd] = e.unit[1] /\ 1 \in Ours(q, e.unit[1])
           /\ Routed(q, e.unit[1])
<1>1. e = q[1] /\ e.fd \in Fd /\ e.kind = "data" /\ conns[e.fd] # 0 /\ task[conns[e.fd]] # "ended"
  BY EventTail, EvFields DEF Passed
<1>2. PICK g \in Gen : g = e.unit[1]
  BY <1>1, EvFields
<1>3. 1 \in Ours(q, g)
  BY <1>1, <1>2, EventLess
<1>4. \A k \in Shuts(q, e.fd) : k >= 1 /\ k \in Nat
  BY <1>1, <1>2, OthersTail
<1>5. conns[e.fd] = g
  <2>1. conns[e.fd] \notin {0, g} => \E k \in Shuts(q, e.fd) : k < 1
    BY <1>1, <1>3 DEF HeardParts, Between
  <2> QED BY <1>1, <1>4, <2>1
<1> QED BY <1>1, <1>2, <1>3, <1>5 DEF Routed

\* The rest of the queue reaches no channel that the queue does not reach.
LEMMA RoutedLess ==
    ASSUME NEW q \in Seq(Evs), q # <<>>, Switched(q), NEW g \in Gen, NEW r \in Seq(Evs), r = Tail(q),
           RoutedNext(r, g), task'[g] # "ended" => task[g] # "ended"
    PROVE  Routed(q, g)
<1>1. Accs(r, g) # {} => Accs(q, g) # {}
  <2>1. \A i \in Accs(r, g) : i + 1 \in Accs(q, g)
    BY EventLess
  <2> QED BY <2>1
<1>2. ASSUME NEW f \in Fd, conns'[f] = g PROVE conns[f] = g \/ Accs(q, g) # {}
  <2>1. g # 0
    BY BridgeConstants
  <2> QED BY <1>2, <2>1 DEF Switched
<1> QED BY <1>1, <1>2 DEF Routed, RoutedNext

\* A connection whose data no channel takes has no channel.
LEMMA RoutedNot ==
    ASSUME Seats, NEW q \in Seq(Evs), q # <<>>, HeardParts(q), Switched(q), NEW e \in Evs, e = Head(q),
           Dropped(e) \/ Unheard(e), NEW g \in Gen, 1 \in Ours(q, g),
           Basic, NEW r \in Seq(Evs), r = Tail(q)
    PROVE  ~RoutedNext(r, g)
<1> SUFFICES ASSUME RoutedNext(r, g) PROVE FALSE
  OBVIOUS
<1>1. e = q[1] /\ e.fd \in Fd /\ e.kind = "data" /\ e.unit[1] = g
  <2>1. e.kind = "data" /\ e.unit[1] = g
    BY EventLess
  <2> QED BY <2>1, EventTail, EvFields
<1>2. task' = task
  BY DEF Dropped, Unheard
<1>3. Accs(q, g) = {}
  <2>1. \A j \in Accs(q, g) : j < 1
    BY DEF HeardParts, Placed
  <2>2. \A j \in Accs(q, g) : j \in Nat /\ j >= 1
    BY OthersTail
  <2> QED BY <2>1, <2>2
<1>4. Accs(r, g) = {}
  <2>1. \A i \in Accs(r, g) : i + 1 \in Accs(q, g)
    BY EventLess
  <2> QED BY <1>3, <2>1
<1>5. PICK d \in Fd : conns'[d] = g /\ task[g] # "ended"
  BY <1>2, <1>4 DEF RoutedNext
<1>6. conns[d] = g
  <2>1. g # 0
    BY BridgeConstants
  <2> QED BY <1>3, <1>5, <2>1 DEF Switched
<1>7. d = e.fd
  <2>1. task[g] # "none" /\ fdOf[g] = d
    BY <1>6, BridgeConstants DEF Seats
  <2>2. IF task[g] = "none" THEN Accs(q, g) # {} ELSE q[1].fd = fdOf[g]
    BY DEF HeardParts, Placed
  <2> QED BY <1>1, <2>1, <2>2
<1>8. CASE Dropped(e)
  <2>1. conns'[e.fd] = 0
    BY <1>1, <1>8, HeardTypes DEF Dropped
  <2> QED BY <1>5, <1>7, <2>1, BridgeConstants
<1>9. CASE Unheard(e)
  BY <1>5, <1>6, <1>7, <1>9, BridgeConstants DEF Unheard
<1> QED BY <1>8, <1>9

\* What a task gets, in line: one unit more for the channel that takes it.
LEMMA InLineNext ==
    ASSUME Basic, NEW q \in Seq(Evs), q # <<>>, HeardParts(q), NEW e \in Evs, e = Head(q),
           heard' = heard, Accepted(e) \/ Dropped(e) \/ Unheard(e) \/ Passed(e)
    PROVE  /\ InLine'
           /\ \A g \in Gen : ~(Passed(e) /\ e.unit[1] = g) => Len(heard'[g]) + Len(inbox'[g]) = Got(g)
           /\ \A g \in Gen : Passed(e) /\ e.unit[1] = g => Len(heard'[g]) + Len(inbox'[g]) = Got(g) + 1
<1>1. /\ heard \in [Gen -> Seq(Gen \X Nat)] /\ inbox \in [Gen -> Seq(Gen \X Nat)]
      /\ \A g \in Gen : Len(heard[g]) \in Nat /\ Len(inbox[g]) \in Nat
  BY HeardTypes
<1>2. InLine
  BY DEF HeardParts
<1>3. CASE ~Passed(e)
  <2>1. inbox' = inbox
    BY <1>3 DEF Accepted, Dropped, Unheard
  <2>2. InLine'
    BY <1>2, <2>1 DEF InLine, InOrder
  <2> QED BY <1>3, <2>1, <2>2 DEF Got
<1>4. CASE Passed(e)
  <2>1. PICK g \in Gen : g = e.unit[1]
    BY <1>4, PassedOwn
  <2>2. conns[e.fd] = g /\ 1 \in Ours(q, g) /\ Routed(q, g) /\ e.kind = "data"
    BY <1>4, <2>1, PassedOwn DEF Passed
  <2>3. inbox' = [inbox EXCEPT ![g] = Append(inbox[g], e.unit)]
    BY <1>4, <2>2 DEF Passed
  <2>4. e.unit \in Gen \X Nat
    BY <2>2, EvFields
  <2> DEFINE s == inbox[g]
             k == Len(s)
             n == Len(heard[g])
  <2>5. /\ s \in Seq(Gen \X Nat) /\ k \in Nat /\ n \in Nat /\ DOMAIN s = 1..k
        /\ Len(Append(s, e.unit)) = k + 1 /\ DOMAIN Append(s, e.unit) = 1..k + 1
        /\ \A i \in 1..k : Append(s, e.unit)[i] = s[i]
        /\ Append(s, e.unit)[k + 1] = e.unit
    BY <1>1, <2>4, Appended
  <2>6. inbox'[g] = Append(s, e.unit) /\ \A h \in Gen \ {g} : inbox'[h] = inbox[h]
    BY <1>1, <2>3
  <2>7. Num(q, 1) = Got(g) + 1
    <3>1. PICK b \in Nat : b = Got(g)
      BY HeardTypes
    <3>2. Rises(q, g) /\ Follows(q, g, b)
      BY <2>2, <3>1 DEF HeardParts
    <3>3. Num(q, 1) = b + 1
      <4>1. PICK r \in Seq(Evs) : r = Tail(q)
        BY EventTail
      <4>2. PICK m \in Nat : m = 0
        OBVIOUS
      <4> QED BY <2>2, <3>2, <4>1, <4>2, NumberingLess
    <3> QED BY <3>1, <3>3
  <2>8. e.unit = <<g, n + k + 1>>
    <3>1. e = q[1]
      BY EventTail
    <3>2. e.unit[2] = n + k + 1
      BY <2>7, <3>1 DEF Num, Got
    <3>3. PICK x : x = n + k + 1
      OBVIOUS
    <3>4. e.unit = <<g, x>>
      <4> HIDE DEF n, k
      <4> QED BY <2>1, <2>4, <3>2, <3>3
    <3> QED BY <3>3, <3>4
  <2>9. ASSUME NEW i \in DOMAIN inbox'[g] PROVE inbox'[g][i] = <<g, n + i>>
    <3>1. i \in 1..k \/ i = k + 1
      BY <2>5, <2>6, <2>9
    <3>2. ASSUME i \in 1..k PROVE inbox'[g][i] = <<g, n + i>>
      <4>1. inbox'[g][i] = s[i]
        BY <2>5, <2>6, <3>2
      <4>2. s[i] = <<g, n + i>>
        BY <1>2, <2>5, <3>2 DEF InLine
      <4> QED BY <4>1, <4>2
    <3>3. ASSUME i = k + 1 PROVE inbox'[g][i] = <<g, n + i>>
      <4>1. inbox'[g][i] = <<g, n + k + 1>>
        BY <2>5, <2>6, <2>8, <3>3
      <4>2. \A a, b \in Nat : a + b + 1 = a + (b + 1)
        OBVIOUS
      <4>3. n + k + 1 = n + i
        BY <2>5, <3>3, <4>2
      <4> QED BY <4>1, <4>3
    <3> QED BY <3>1, <3>2, <3>3
  <2>10. InLine'
    <3>1. ASSUME NEW h \in Gen
          PROVE  InOrder(heard'[h], h) /\ \A i \in DOMAIN inbox'[h] : inbox'[h][i] = <<h, Len(heard'[h]) + i>>
      <4>1. CASE h = g
        BY <1>2, <2>9, <4>1 DEF InLine
      <4>2. CASE h # g
        BY <1>2, <2>6, <4>2 DEF InLine
      <4> QED BY <4>1, <4>2
    <3> QED BY <3>1 DEF InLine, InOrder
  <2>11. Len(heard'[g]) + Len(inbox'[g]) = Got(g) + 1
    <3>1. \A a, b \in Nat : a + (b + 1) = (a + b) + 1
      OBVIOUS
    <3>2. Len(heard'[g]) = n /\ Len(inbox'[g]) = k + 1 /\ Got(g) = n + k
      BY <2>5, <2>6 DEF Got
    <3> QED BY <2>5, <3>1, <3>2
  <2>12. \A h \in Gen \ {g} : Len(heard'[h]) + Len(inbox'[h]) = Got(h)
    BY <2>6 DEF Got
  <2> QED BY <1>4, <2>1, <2>10, <2>11, <2>12
<1> QED BY <1>3, <1>4

\* The first event handed on: what remains in the queue is still in order.
LEMMA DispatchHeard ==
    ASSUME Basic, Seats, NEW q \in Seq(Evs), q # <<>>, HeardOn(q), NEW e \in Evs, e = Head(q),
           NEW r \in Seq(Evs), r = Tail(q),
           e.kind = "accept" => task[e.gen] = "none",
           Accepted(e) \/ Dropped(e) \/ Unheard(e) \/ Passed(e),
           UNCHANGED <<owner, accepts, taken, heard>>
    PROVE  HeardOn(r)'
<1>1. HeardParts(q)
  BY HeardSplit
<1>2. Switched(q)
  BY SwitchedBy
<1>3. /\ accepts \in Nat /\ taken \in [Gen -> Nat] /\ \A g \in Gen : Got(g) \in Nat
      /\ task \in [Gen -> TaskStates] /\ fdOf \in [Gen -> 0..MaxFd] /\ SocketTypes
  BY HeardTypes DEF Basic, DriverInv
<1>4. /\ \A g \in Gen : 1 \in Accs(q, g) <=> e.kind = "accept" /\ e.gen = g
      /\ \A g \in Gen : 1 \in Ours(q, g) <=> e.kind = "data" /\ e.unit[1] = g
      /\ e = q[1] /\ e.fd \in Fd /\ (e.kind = "accept" => e.gen \in Gen)
  BY EventLess, EventTail, EvFields
<1>5. \A g \in Gen :
        IF 1 \in Accs(q, g)
        THEN task[g] = "none" /\ task'[g] = "idle" /\ fdOf'[g] = e.fd
        ELSE task'[g] = task[g] /\ fdOf'[g] = fdOf[g]
  <2>1. CASE Accepted(e)
    <3>1. /\ e.kind = "accept" /\ task' = [task EXCEPT ![e.gen] = "idle"]
          /\ fdOf' = [fdOf EXCEPT ![e.gen] = e.fd]
      BY <2>1 DEF Accepted
    <3> QED BY <1>3, <1>4, <3>1
  <2>2. CASE Dropped(e) \/ Unheard(e) \/ Passed(e)
    <3>1. e.kind # "accept" /\ task' = task /\ fdOf' = fdOf
      BY <2>2 DEF Dropped, Unheard, Passed
    <3> QED BY <1>4, <3>1
  <2> QED BY <2>1, <2>2
<1>6. /\ InLine'
      /\ \A g \in Gen : ~(Passed(e) /\ e.unit[1] = g) => Len(heard'[g]) + Len(inbox'[g]) = Got(g)
      /\ \A g \in Gen : Passed(e) /\ e.unit[1] = g => Len(heard'[g]) + Len(inbox'[g]) = Got(g) + 1
  BY <1>1, InLineNext
<1>7. Told(r)'
  <2>1. \A g \in Gen : task'[g] = "none" => task[g] = "none" /\ 1 \notin Accs(q, g)
    BY <1>5
  <2> QED BY <1>1, <1>2, <1>3, <2>1, ToldLess DEF HeardParts
<1>8. ASSUME NEW g \in Gen PROVE Placed(r, g)'
  <2>1. CASE 1 \in Accs(q, g)
    <3>1. task'[g] # "none" /\ fdOf'[g] = q[1].fd
      BY <1>4, <1>5, <2>1
    <3> QED BY <1>1, <2>1, <3>1, PlacedBegun DEF HeardParts
  <2>2. CASE 1 \notin Accs(q, g)
    <3>1. Placed(r, g)
      BY <1>1, <2>2, PlacedLess DEF HeardParts
    <3>2. accepts' \in Nat /\ accepts <= accepts'
      BY <1>3
    <3>3. task'[g] = task[g] /\ fdOf'[g] = fdOf[g]
      BY <1>5, <2>2
    <3> QED BY <1>3, <3>1, <3>2, <3>3, PlacedKept
  <2> QED BY <2>1, <2>2
<1>9. ASSUME NEW g \in Gen PROVE Between(r, g)'
  BY <1>1, <1>2, BetweenLess DEF HeardParts
<1>10. ASSUME NEW g \in Gen PROVE Numbering(r, g)'
  <2>1. PICK b \in Nat : b = Got(g)
    BY <1>3
  <2>2. PICK m \in Nat : m = taken[g]
    BY <1>3
  <2>3. m = taken'[g]
    BY <2>2
  <2>4. /\ Rises(q, g) /\ (Routed(q, g) => Follows(q, g, b))
        /\ Open(g) => UpTo(q, g, m) /\ (Routed(q, g) => Hits(q, g, b, m))
        /\ g > accepts => m = 0
    BY <1>1, <2>1, <2>2 DEF HeardParts
  <2>5. (\E f \in Fd : owner'[f] = g) => Open(g)
    BY DEF Open
  <2>6. RoutedNext(r, g) => Routed(q, g)
    <3>1. task'[g] # "ended" => task[g] # "ended"
      BY <1>5
    <3> QED BY <1>2, <3>1, RoutedLess
  <2>7. g > accepts' => m = 0
    BY <2>4
  <2>8. Rises(r, g) /\ (UpTo(q, g, m) => UpTo(r, g, m))
    BY <2>4, NumberingLess
  <2>9. CASE 1 \notin Ours(q, g)
    <3>1. b = Len(heard'[g]) + Len(inbox'[g])
      <4>1. ~(Passed(e) /\ e.unit[1] = g)
        BY <1>4, <2>9 DEF Passed
      <4> QED BY <1>6, <2>1, <4>1
    <3>2. /\ Follows(q, g, b) => Follows(r, g, b)
          /\ Hits(q, g, b, m) => Hits(r, g, b, m)
      BY <2>9, NumberingLess
    <3>3. RoutedNext(r, g) => Follows(r, g, b)
      BY <2>4, <2>6, <3>2
    <3>4. (\E f \in Fd : owner'[f] = g) => UpTo(r, g, m) /\ (RoutedNext(r, g) => Hits(r, g, b, m))
      BY <2>4, <2>5, <2>6, <2>8, <3>2
    <3> QED BY <2>3, <2>7, <2>8, <3>1, <3>3, <3>4, NumberingIs
  <2>10. CASE 1 \in Ours(q, g) /\ Passed(e)
    <3>1. e.unit[1] = g /\ Routed(q, g)
      BY <1>1, <1>4, <2>10, PassedOwn
    <3>2. b + 1 = Len(heard'[g]) + Len(inbox'[g]) /\ b + 1 \in Nat
      <4>1. Len(heard'[g]) + Len(inbox'[g]) = Got(g) + 1
        BY <1>6, <2>10, <3>1
      <4>2. b + 1 \in Nat
        BY <2>1
      <4> QED BY <2>1, <4>1, <4>2
    <3>3. Follows(q, g, b)
      BY <2>4, <3>1
    <3>4. Follows(r, g, b + 1) /\ (UpTo(q, g, m) /\ Hits(q, g, b, m) => Hits(r, g, b + 1, m))
      BY <2>4, <2>10, <3>3, NumberingLess
    <3>5. (\E f \in Fd : owner'[f] = g) => UpTo(r, g, m) /\ Hits(r, g, b + 1, m)
      BY <2>4, <2>5, <2>8, <3>1, <3>4
    <3> QED BY <2>3, <2>7, <2>8, <3>2, <3>4, <3>5, NumberingIs
  <2>11. CASE 1 \in Ours(q, g) /\ ~Passed(e)
    <3>1. Dropped(e) \/ Unheard(e)
      BY <1>4, <2>11 DEF Accepted
    <3>2. ~RoutedNext(r, g)
      BY <1>1, <1>2, <2>11, <3>1, RoutedNot
    <3>3. b = Len(heard'[g]) + Len(inbox'[g])
      BY <1>6, <2>1, <2>11
    <3>4. (\E f \in Fd : owner'[f] = g) => UpTo(r, g, m)
      BY <2>4, <2>5, <2>8
    <3> QED BY <2>3, <2>7, <2>8, <3>2, <3>3, <3>4, NumberingIs
  <2> QED BY <2>9, <2>10, <2>11
<1> QED BY <1>6, <1>7, <1>8, <1>9, <1>10 DEF HeardOn

-------------------------------------------------------------------------------
(* Every step, and what it all comes to.                                         *)

LEMMA HeardThen ==
    ASSUME NEW r \in Seq(Evs), r = Q', HeardOn(r)'
    PROVE  HeardInv'
<1>1. HeardOn(Q)'
  BY DEF HeardOn, InLine, Told, Placed, Between, Numbering, Rises, Follows, UpTo, Hits, Num,
         Routed, Accs, Ours, Shuts
<1> QED BY <1>1 DEF HeardInv

\* A step after which the queue is as it was.
LEMMA SameQueue ==
    ASSUME Basic, HeardInv, UNCHANGED <<rx, late>> \/ Deliver, overrun' = overrun,
           UNCHANGED <<accepts, owner, conns, taken, heard, inbox, fdOf>>,
           \A g \in Gen : /\ task'[g] = "none" <=> task[g] = "none"
                          /\ task'[g] = "ended" <=> task[g] = "ended"
    PROVE  HeardInv'
<1>1. CASE overrun'
  BY <1>1 DEF HeardInv
<1>2. CASE ~overrun'
  <2>1. PICK q \in Seq(Evs) : q = Q
    BY QTypes DEF Basic, DriverInv
  <2>2. q = Q'
    BY <2>1, QKept DEF Basic, DriverInv
  <2>3. HeardOn(q)
    BY <1>2, <2>1 DEF HeardInv
  <2>4. HeardOn(q)'
    BY <2>3, HeardQuiet
  <2> QED BY <2>2, <2>4, HeardThen
<1> QED BY <1>1, <1>2

\* A step that pushes an event.
LEMMA PushQueue ==
    ASSUME Basic, HeardInv, NEW e \in Evs, PushRx(e), ~overrun'
    PROVE  /\ ~Lost /\ Q \in Seq(Evs) /\ Append(Q, e) \in Seq(Evs) /\ Q' = Append(Q, e) /\ HeardOn(Q)
           /\ \A i \in DOMAIN Q : Due(Q[i])
<1>1. InwardTypes /\ Announced
  BY DEF Basic, DriverInv
<1>2. Q \in Seq(Evs)
  BY <1>1, QTypes
<1>3. ~overrun /\ ~Lost /\ Q' = Append(Q, e)
  BY <1>1, QMore
<1>4. Append(Q, e) \in Seq(Evs)
  BY <1>2, Appended
<1> QED BY <1>1, <1>2, <1>3, <1>4, QDue DEF HeardInv

LEMMA ClosesHeard ==
    ASSUME Basic, HeardInv, UNCHANGED tokio, NEW f \in Fd, NEW n \in Int, Closes(f, n)
    PROVE  HeardInv'
<1>1. CASE overrun'
  BY <1>1 DEF HeardInv
<1>2. CASE ~overrun'
  <2>1. PICK e \in Evs : e = [kind |-> "closed", fd |-> f]
    BY DEF Evs
  <2>2. PushRx(e) /\ CloseFd(f, n)
    BY <2>1 DEF Closes, CloseFd
  <2>3. PICK q \in Seq(Evs) : q = Q
    BY QTypes DEF Basic, DriverInv
  <2>4. Append(q, e) \in Seq(Evs) /\ Q' = Append(q, e) /\ HeardOn(q)
    BY <1>2, <2>2, <2>3, PushQueue
  <2>5. PICK r \in Seq(Evs) : r = Append(q, e)
    BY <2>4
  <2>6. /\ accepts' = accepts /\ owner' = [owner EXCEPT ![f] = 0]
        /\ \A g \in Gen : g # owner[f] => taken'[g] = taken[g]
        /\ DriverInv'
    BY <2>2, CloseFdKeeps DEF Basic, Closes
  <2>7. taken' \in [Gen -> Nat]
    BY <2>6 DEF DriverInv, OutwardTypes
  <2>8. e.kind = "closed" /\ e.fd = f
    BY <2>1
  <2>9. HeardOn(r)'
    BY <2>4, <2>5, <2>6, <2>7, <2>8, CloseHeard
  <2> QED BY <2>4, <2>5, <2>9, HeardThen
<1> QED BY <1>1, <1>2

LEMMA AdmitsHeard ==
    ASSUME Basic, HeardInv, UNCHANGED tokio, NEW f \in Fd, Admit(f)
    PROVE  HeardInv'
<1>1. CASE overrun'
  BY <1>1 DEF HeardInv
<1>2. CASE ~overrun'
  <2>1. PICK g \in Gen : g = accepts' /\ g = accepts + 1 /\ task[g] = "none"
    BY AdmitKeeps DEF Basic
  <2>2. PICK e \in Evs : e = [kind |-> "accept", fd |-> f, gen |-> g]
    BY DEF Evs
  <2>3. /\ PushRx(e) /\ owner[f] = 0 /\ (~Lost => owner' = [owner EXCEPT ![f] = g])
        /\ taken' = taken
    BY <2>1, <2>2, AdmitKeeps DEF Basic
  <2>4. PICK q \in Seq(Evs) : q = Q
    BY QTypes DEF Basic, DriverInv
  <2>5. ~Lost /\ Append(q, e) \in Seq(Evs) /\ Q' = Append(q, e) /\ HeardOn(q)
    BY <1>2, <2>3, <2>4, PushQueue
  <2>6. PICK r \in Seq(Evs) : r = Append(q, e)
    BY <2>5
  <2>7. e.kind = "accept" /\ e.fd = f /\ e.gen = g
    BY <2>2
  <2>8. HeardOn(r)'
    BY <2>1, <2>3, <2>5, <2>6, <2>7, AdmitHeard
  <2> QED BY <2>5, <2>6, <2>8, HeardThen
<1> QED BY <1>1, <1>2

LEMMA ReceivesHeard ==
    ASSUME Basic, HeardInv, UNCHANGED tokio, NEW f \in Fd, Receive(f)
    PROVE  HeardInv'
<1>1. CASE overrun'
  BY <1>1 DEF HeardInv
<1>2. CASE ~overrun'
  <2>1. /\ owner[f] \in Gen /\ owner' = owner /\ accepts' = accepts /\ taken[owner[f]] \in Nat
        /\ taken' = [taken EXCEPT ![owner[f]] = taken[owner[f]] + 1]
        /\ PushRx([kind |-> "data", fd |-> f, unit |-> <<owner[f], taken[owner[f]] + 1>>])
    BY ReceiveKeeps DEF Basic
  <2>2. PICK g \in Gen : g = owner[f]
    BY <2>1
  <2>3. PICK e \in Evs : e = [kind |-> "data", fd |-> f, unit |-> <<g, taken[g] + 1>>]
    BY <2>1, <2>2 DEF Evs
  <2>4. PushRx(e) /\ taken' = [taken EXCEPT ![g] = taken[g] + 1]
    BY <2>1, <2>2, <2>3
  <2>5. PICK q \in Seq(Evs) : q = Q
    BY QTypes DEF Basic, DriverInv
  <2>6. Append(q, e) \in Seq(Evs) /\ Q' = Append(q, e) /\ HeardOn(q) /\ \A i \in DOMAIN q : Due(q[i])
    BY <1>2, <2>4, <2>5, PushQueue
  <2>7. PICK r \in Seq(Evs) : r = Append(q, e)
    BY <2>6
  <2>8. e.kind = "data" /\ e.fd = f /\ e.unit = <<g, taken[g] + 1>>
    BY <2>3
  <2>9. /\ owner[f] = g /\ accepts' = accepts /\ owner' = owner
        /\ taken' = [taken EXCEPT ![g] = taken[g] + 1]
    BY <2>1, <2>2, <2>4
  <2>10. HeardOn(q) /\ \A i \in DOMAIN q : Due(q[i])
    BY <2>6
  <2>11. HeardOn(r)'
    BY <2>7, <2>8, <2>9, <2>10, ReceiveHeard
  <2> QED BY <2>6, <2>7, <2>11, HeardThen
<1> QED BY <1>1, <1>2

\* The commands and the events that close no fd tell nobody anything.
LEMMA SilentHeard ==
    ASSUME Basic, HeardInv, UNCHANGED tokio, UNCHANGED <<sockets, inward, taken>>
    PROVE  HeardInv'
<1>1. /\ rx' = rx /\ late' = late /\ overrun' = overrun /\ accepts' = accepts /\ owner' = owner /\ taken' = taken
      /\ conns' = conns /\ heard' = heard /\ inbox' = inbox /\ fdOf' = fdOf /\ task' = task
  BY UnchangedTokio DEF sockets, inward
<1> QED BY <1>1, SameQueue

LEMMA DrainHeard ==
    ASSUME Basic, HeardInv, Drain
    PROVE  HeardInv'
<1>1. tx # <<>> /\ UNCHANGED tokio /\ OnCommand(Head(tx))
  BY DrainEffect
<1>2. PICK c \in Cmds : c = Head(tx) /\ c.fd \in Fd
  BY <1>1, HeadOfTx
<1>3. CASE \E n \in Int : Closes(c.fd, n)
  BY <1>1, <1>2, <1>3, ClosesHeard
<1>4. CASE UNCHANGED <<sockets, inward, taken>>
  BY <1>1, <1>4, SilentHeard
<1>5. \/ \E n \in Int : Closes(c.fd, n)
      \/ UNCHANGED <<sockets, inward, taken>>
  BY <1>1, <1>2 DEF OnCommand, NoEffect, SendStale, GivenNow
<1> QED BY <1>3, <1>4, <1>5

LEMMA ServiceHeard ==
    ASSUME Basic, HeardInv, Service
    PROVE  HeardInv'
<1>1. UNCHANGED tokio /\ OnEvent
  BY ServiceEffect
<1>2. CASE \E f \in Fd : Admit(f)
  BY <1>1, <1>2, AdmitsHeard
<1>3. CASE \E f \in Fd : \E n \in Int : Closes(f, n)
  BY <1>1, <1>3, ClosesHeard
<1>4. CASE \E f \in Fd : Receive(f)
  BY <1>1, <1>4, ReceivesHeard
<1>5. CASE UNCHANGED <<sockets, inward, taken>>
  BY <1>1, <1>5, SilentHeard
<1> QED BY <1>1, <1>2, <1>3, <1>4, <1>5 DEF OnEvent, NoEffect, FlushAll, GivenPart

LEMMA DispatchesHeard ==
    ASSUME Basic, Seats, HeardInv, Dispatch
    PROVE  HeardInv'
<1>1. /\ rx # <<>> /\ rx' = Tail(rx) /\ late' = late /\ overrun' = overrun
      /\ owner' = owner /\ accepts' = accepts /\ taken' = taken /\ heard' = heard
      /\ Accepted(Head(rx)) \/ Dropped(Head(rx)) \/ Unheard(Head(rx)) \/ Passed(Head(rx))
  BY DispatchStep DEF sockets
<1>2. CASE overrun'
  BY <1>2 DEF HeardInv
<1>3. CASE ~overrun'
  <2>1. Q \in Seq(Evs) /\ Q # <<>> /\ Head(Q) = Head(rx) /\ Q' = Tail(Q)
    BY <1>1, QLess DEF Basic, DriverInv
  <2>2. PICK q \in Seq(Evs) : q = Q
    BY <2>1
  <2>3. PICK e \in Evs : e = Head(q) /\ e = Head(rx)
    BY <1>1, <2>1, <2>2, HeadOfRx
  <2>4. PICK r \in Seq(Evs) : r = Tail(q)
    BY <2>1, <2>2, EventTail
  <2>5. e.kind = "accept" => task[e.gen] = "none"
    BY <1>1, <2>3, HeadOfRx DEF Due
  <2>6. HeardOn(q)
    BY <1>1, <1>3, <2>2 DEF HeardInv
  <2>7. q # <<>> /\ r = Q'
    BY <2>1, <2>2, <2>4
  <2>8. Accepted(e) \/ Dropped(e) \/ Unheard(e) \/ Passed(e)
    BY <1>1, <2>3
  <2>9. HeardOn(r)'
    BY <1>1, <2>3, <2>4, <2>5, <2>6, <2>7, <2>8, DispatchHeard
  <2> QED BY <2>7, <2>9, HeardThen
<1> QED BY <1>2, <1>3

LEMMA TaskHeard ==
    ASSUME Basic, HeardInv, NEW g \in Gen, TaskStep(g)
    PROVE  HeardInv'
<1>1. task \in [Gen -> TaskStates] /\ InwardTypes
  BY HeardTypes DEF Basic, DriverInv
<1>2. CASE Hear(g) \/ End(g)
  <2>1. rx' = rx /\ late' = late /\ overrun' = overrun
    BY <1>2 DEF Hear, End, inward
  <2>2. CASE overrun'
    BY <2>2 DEF HeardInv
  <2>3. CASE ~overrun'
    <3>1. PICK q \in Seq(Evs) : q = Q
      BY <1>1, QTypes
    <3>2. q = Q'
      BY <1>1, <2>1, <3>1, QKept
    <3>3. HeardOn(q)
      BY <2>1, <2>3, <3>1 DEF HeardInv
    <3>4. HeardOn(q)'
      BY <1>2, <3>3, HearHeard, EndHeard
    <3> QED BY <3>2, <3>4, HeardThen
  <2> QED BY <2>2, <2>3
<1>3. CASE Enqueue(g) \/ Count(g) \/ Wait(g) \/ TimesOut(g) \/ Shutdown(g)
  <2>1. /\ rx' = rx /\ late' = late /\ overrun' = overrun /\ accepts' = accepts /\ owner' = owner
        /\ taken' = taken /\ conns' = conns /\ heard' = heard /\ inbox' = inbox /\ fdOf' = fdOf
    BY <1>3 DEF Enqueue, Count, Wait, TimesOut, Shutdown, sockets, inward
  <2>2. \E from, to \in {"idle", "counting", "parked", "shut"} : TaskOf(g, from, to)
    BY <1>3 DEF Enqueue, Count, Wait, TimesOut, Shutdown
  <2>3. \A h \in Gen : /\ task'[h] = "none" <=> task[h] = "none"
                       /\ task'[h] = "ended" <=> task[h] = "ended"
    BY <1>1, <2>2 DEF TaskOf
  <2> QED BY <2>1, <2>3, SameQueue
<1> QED BY <1>2, <1>3 DEF TaskStep

LEMMA HeardInit ==
    ASSUME BridgeInit
    PROVE  HeardInv
<1>1. /\ rx = <<>> /\ late = <<>> /\ owner = [f \in Fd |-> 0] /\ conns = [f \in Fd |-> 0]
      /\ task = [g \in Gen |-> "none"] /\ taken = [g \in Gen |-> 0] /\ inbox = [g \in Gen |-> <<>>]
      /\ heard = [g \in Gen |-> <<>>]
  BY DEF BridgeInit
<1>2. DOMAIN <<>> = {} /\ <<>> \in Seq(Evs)
  BY LenProperties, EmptySeq
<1>3. Q = <<>>
  BY <1>1, <1>2, ConcatEmptySeq DEF Q
<1>4. /\ \A g : Ours(Q, g) = {} /\ Accs(Q, g) = {}
      /\ \A f : Shuts(Q, f) = {}
  BY <1>2, <1>3 DEF Ours, Accs, Shuts
<1>5. InLine
  BY <1>1, <1>2, NoneInOrder DEF InLine
<1>6. Told(Q)
  BY <1>1, <1>4 DEF Told
<1>7. \A g \in Gen : Placed(Q, g) /\ Between(Q, g)
  BY <1>4 DEF Placed, Between
<1>8. ASSUME NEW g \in Gen PROVE Numbering(Q, g)
  <2>1. ~Open(g)
    BY <1>1, BridgeConstants DEF Open
  <2>2. Rises(Q, g) /\ Follows(Q, g, Got(g)) /\ taken[g] = 0
    BY <1>1, <1>4 DEF Rises, Follows
  <2> QED BY <2>1, <2>2 DEF Numbering
<1> QED BY <1>5, <1>6, <1>7, <1>8 DEF HeardInv, HeardOn

LEMMA HeardStep ==
    Basic /\ Seats /\ HeardInv /\ [BridgeNext]_bridgeVars => HeardInv'
<1> SUFFICES ASSUME Basic, Seats, HeardInv, [BridgeNext]_bridgeVars PROVE HeardInv'
  OBVIOUS
<1>1. CASE Drain
  BY <1>1, DrainHeard
<1>2. CASE Drained \/ UNCHANGED bridgeVars
  <2>1. UNCHANGED tokio /\ UNCHANGED <<sockets, inward, taken>>
    BY <1>2 DEF Drained, bridgeVars
  <2> QED BY <2>1, SilentHeard
<1>3. CASE Poll
  <2>1. /\ UNCHANGED <<sockets, inward, outward, conns, inbox, fdOf, writes, heard, tx, taken>>
        /\ task' = [g \in Gen |-> IF g = waker /\ task[g] = "parked" THEN "idle" ELSE task[g]]
    BY <1>3 DEF Poll
  <2>2. /\ rx' = rx /\ late' = late /\ overrun' = overrun /\ accepts' = accepts /\ owner' = owner
        /\ taken' = taken /\ conns' = conns /\ heard' = heard /\ inbox' = inbox /\ fdOf' = fdOf
    BY <2>1 DEF sockets, inward
  <2>3. \A g \in Gen : /\ task'[g] = "none" <=> task[g] = "none"
                       /\ task'[g] = "ended" <=> task[g] = "ended"
    BY <2>1
  <2> QED BY <2>2, <2>3, SameQueue
<1>4. CASE Service
  BY <1>4, ServiceHeard
<1>5. CASE Deliver
  <2>1. /\ overrun' = overrun /\ accepts' = accepts /\ owner' = owner /\ taken' = taken
        /\ conns' = conns /\ heard' = heard /\ inbox' = inbox /\ fdOf' = fdOf /\ task' = task
    BY <1>5, UnchangedTokio DEF Deliver, sockets
  <2> QED BY <1>5, <2>1, SameQueue
<1>6. CASE Dispatch
  BY <1>6, DispatchesHeard
<1>7. CASE \E g \in Gen : TaskStep(g)
  BY <1>7, TaskHeard
<1> QED BY <1>1, <1>2, <1>3, <1>4, <1>5, <1>6, <1>7 DEF BridgeNext, DriverStep

\* What a task reads is what its own peer sent, in order and without a gap, unless
\* the RX ring has been full.
THEOREM HeardIsInOrder == BridgeSpec => []HeardInOrder
<1>1. BridgeInit => Basic /\ Seats /\ HeardInv
  BY BasicInit, HeardInit
<1>2. Basic /\ Seats /\ HeardInv /\ [BridgeNext]_bridgeVars => Basic' /\ Seats' /\ HeardInv'
  BY BasicStep, HeardStep
<1>3. BridgeSpec => [](Basic /\ Seats /\ HeardInv)
  BY <1>1, <1>2, PTL DEF BridgeSpec
<1>4. HeardInv => HeardInOrder
  BY DEF HeardInv, HeardOn, InLine, HeardInOrder
<1> QED BY <1>3, <1>4, PTL

\* What a connection counts on (poll_write, flush_write, bridge_worker): its bytes,
\* in order in both directions, and none of them forgotten.
THEOREM StreamsAreExact == BridgeSpec => []StreamsExact
<1>1. WireInOrder /\ HeardInOrder /\ CountersExact => StreamsExact
  BY DEF StreamsExact, BytesInOrder
<1> QED BY <1>1, WireIsInOrder, HeardIsInOrder, CountersAreExact, PTL

=============================================================================
