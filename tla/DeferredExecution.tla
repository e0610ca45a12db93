------------------------- MODULE DeferredExecution -------------------------
(***************************************************************************)
(* What DeferTask and DeferTaskAgain promise: each call makes its task     *)
(* wait and leads to at most one dispatch, which does not come before the  *)
(* task is due.  A task is dispatched by one thread at a time, and while   *)
(* it runs it may come to wait again.  Waiting tasks are lost only when    *)
(* the server is stopping.                                                 *)
(***************************************************************************)
EXTENDS Naturals

CONSTANTS Tasks

VARIABLES now,       \* the time
          due,       \* due[t]: when t is to be dispatched
          made,      \* the tasks that were ever deferred
          waiting,   \* the tasks that are to be dispatched
          busy,      \* the tasks being dispatched
          stopping   \* some worker has stopped

vars == <<now, due, made, waiting, busy, stopping>>

Init ==
    /\ now = 0 /\ due \in [Tasks -> {0}]
    /\ made = {} /\ waiting = {} /\ busy = {} /\ stopping = FALSE

SetDue(t) ==
    /\ due' \in [Tasks -> Nat]
    /\ \A u \in Tasks \ {t} : due'[u] = due[u]

Advance ==
    /\ now' = now + 1
    /\ UNCHANGED <<due, made, waiting, busy, stopping>>

Defer(t) ==
    /\ t \notin made /\ made' = made \cup {t}
    /\ waiting' = waiting \cup {t}
    /\ SetDue(t)
    /\ UNCHANGED <<now, busy, stopping>>

Again(t) ==
    /\ t \in busy \ waiting
    /\ waiting' = waiting \cup {t}
    /\ SetDue(t)
    /\ UNCHANGED <<now, made, busy, stopping>>

Dispatch(t) ==
    /\ t \in waiting \ busy /\ due[t] <= now
    /\ waiting' = waiting \ {t}
    /\ busy' = busy \cup {t}
    /\ UNCHANGED <<now, due, made, stopping>>

Return(t) ==
    /\ t \in busy
    /\ busy' = busy \ {t}
    /\ UNCHANGED <<now, due, made, waiting, stopping>>

Stop ==
    /\ stopping' = TRUE
    /\ waiting' \in SUBSET waiting
    /\ UNCHANGED <<now, due, made, busy>>

Next ==
    \/ Advance \/ Stop
    \/ \E t \in Tasks : Defer(t) \/ Again(t) \/ Dispatch(t) \/ Return(t)

Spec == Init /\ [][Next]_vars
=============================================================================
