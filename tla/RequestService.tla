--------------------------- MODULE RequestService ---------------------------
(***************************************************************************)
(* One connection of the directory server as PoolServer takes it: a        *)
(* request is a number of lines, read in one step once the last of them    *)
(* was sent, and answered line by line.                                    *)
(***************************************************************************)
EXTENDS Naturals

VARIABLES total,    \* paths of the request
          lines,    \* lines sent, the empty one included
          left,     \* the client has closed its end
          state,    \* "reading", "serving", "done" or "refused"
          served    \* paths answered

vars == <<total, lines, left, state, served>>

Complete == lines = total + 1

Init ==
  /\ total \in Nat /\ lines = 0 /\ served = 0
  /\ left = FALSE /\ state = "reading"

SendLine ==
  /\ ~left /\ ~Complete
  /\ lines' = lines + 1
  /\ UNCHANGED <<total, left, state, served>>

Leave ==
  /\ left' = TRUE
  /\ UNCHANGED <<total, lines, state, served>>

Accept ==
  /\ state = "reading" /\ Complete /\ total > 0
  /\ state' = "serving"
  /\ UNCHANGED <<total, lines, left, served>>

Refuse ==
  /\ state = "reading"
  /\ left \/ (Complete /\ total = 0)
  /\ state' = "refused"
  /\ UNCHANGED <<total, lines, left, served>>

Serve ==
  /\ state = "serving" /\ served < total
  /\ served' = served + 1
  /\ UNCHANGED <<total, lines, left, state>>

Finish ==
  /\ state = "serving" /\ served = total
  /\ state' = "done"
  /\ UNCHANGED <<total, lines, left, served>>

Next == SendLine \/ Leave \/ Accept \/ Refuse \/ Serve \/ Finish

Spec == Init /\ [][Next]_vars
=============================================================================
