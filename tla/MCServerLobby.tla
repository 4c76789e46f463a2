---------------------------- MODULE MCServerLobby ----------------------------
(* ServerLobby on small instances. *)
EXTENDS ServerLobby, TLC

CONSTANTS c1, c2, c3, a1, a2

\* Nobody proves an account.
Guests == [c \in Conns |-> Guest]

\* Two people, one of whom has a second connection.
TwoAccounts == [c \in Conns |-> IF c = c2 THEN a2 ELSE a1]

\* The connections of one account are alike.
SecondConnection == Permutations({c1, c3})

\* Of a rematch and a lobby with a host, only one at a time: nobody asks for a
\* rematch once there is a host.
Apart ==
    \A i \in 1..Len(events') :
        events'[i].what = "join" /\ events'[i].arg \in Rematch => \A l \in Lobbies : host[l] = 0

HostSpec == Init /\ [][Next /\ Apart]_vars

=============================================================================
