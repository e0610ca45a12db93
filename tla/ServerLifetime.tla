--------------------------- MODULE ServerLifetime ---------------------------
(***************************************************************************)
(* What a server instance promises the application: no worker enters its   *)
(* run loop before the server has started, none leaves it before a stop    *)
(* was signalled, and the server has stopped when every worker has left.   *)
(***************************************************************************)
CONSTANT Workers

VARIABLES phase,   \* "starting", "up", "stopping" or "stopped"
          inside,  \* the workers in their run loop
          left     \* the workers that have left it for good

vars == <<phase, inside, left>>

Init == phase = "starting" /\ inside = {} /\ left = {}

Started == phase = "starting" /\ phase' = "up" /\ UNCHANGED <<inside, left>>

Enter(w) ==
    /\ phase # "starting" /\ w \notin inside \cup left
    /\ inside' = inside \cup {w}
    /\ UNCHANGED <<phase, left>>

Stopping == phase = "up" /\ phase' = "stopping" /\ UNCHANGED <<inside, left>>

Leave(w) ==
    /\ phase = "stopping" /\ w \in inside
    /\ inside' = inside \ {w}
    /\ left' = left \cup {w}
    /\ UNCHANGED phase

Stopped ==
    /\ phase = "stopping" /\ left = Workers
    /\ phase' = "stopped"
    /\ UNCHANGED <<inside, left>>

Next == \/ Started \/ Stopping \/ Stopped
        \/ \E w \in Workers : Enter(w) \/ Leave(w)

Spec == Init /\ [][Next]_vars
=============================================================================
