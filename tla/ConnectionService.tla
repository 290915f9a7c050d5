------------------------- MODULE ConnectionService -------------------------
(***************************************************************************)
(* What the directory server of lab6 promises, seen from the network:      *)
(* connections wait in arrival order, at most Capacity of them are served  *)
(* at a time, each is closed once, and a connection whose client gave up   *)
(* while waiting may be dropped unserved.                                  *)
(***************************************************************************)
EXTENDS Naturals, Sequences, FiniteSets

CONSTANTS Clients,   \* the clients that may connect
          Capacity   \* the number of worker threads of the pool

VARIABLES waiting,   \* connections not accepted yet, oldest first
          active,    \* connections being served
          finished   \* connections the service has closed or dropped

vars == <<waiting, active, finished>>

Waiting == {waiting[i] : i \in DOMAIN waiting}

Init == /\ waiting = <<>>
        /\ active = {}
        /\ finished = {}

Arrive(c) == /\ c \notin Waiting \cup active \cup finished
             /\ waiting' = Append(waiting, c)
             /\ UNCHANGED <<active, finished>>

Admit == /\ waiting # <<>>
         /\ Cardinality(active) < Capacity
         /\ active' = active \cup {Head(waiting)}
         /\ waiting' = Tail(waiting)
         /\ UNCHANGED finished

Drop == /\ waiting # <<>>
        /\ Cardinality(active) < Capacity
        /\ finished' = finished \cup {Head(waiting)}
        /\ waiting' = Tail(waiting)
        /\ UNCHANGED active

Finish(c) == /\ c \in active
             /\ active' = active \ {c}
             /\ finished' = finished \cup {c}
             /\ UNCHANGED waiting

Next == \/ \E c \in Clients : Arrive(c) \/ Finish(c)
        \/ Admit
        \/ Drop

Spec == Init /\ [][Next]_vars
=============================================================================
