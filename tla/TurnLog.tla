-------------------------------- MODULE TurnLog --------------------------------
(***************************************************************************)
(* What a match promises about its turns: they are numbered one after the  *)
(* other while the match runs, and once it is over the whole sequence may  *)
(* be archived, once.                                                      *)
(***************************************************************************)
EXTENDS Naturals, Sequences

VARIABLES
    log,      \* the turns of the match
    open,     \* the match still runs
    archive   \* the archived replays: none or one

logVars == <<log, open, archive>>

LogInit ==
    /\ log = <<>>
    /\ open = TRUE
    /\ archive = {}

\* The next turn is the one numbered after the last.
Emit ==
    /\ open
    /\ log' = Append(log, Len(log) + 1)
    /\ UNCHANGED <<open, archive>>

Close ==
    /\ open
    /\ open' = FALSE
    /\ UNCHANGED <<log, archive>>

\* What is archived is the whole match.
Publish ==
    /\ ~open
    /\ archive = {}
    /\ archive' = {log}
    /\ UNCHANGED <<log, open>>

LogNext == Emit \/ Close \/ Publish

LogSpec == LogInit /\ [][LogNext]_logVars

=============================================================================
