------------------------------ MODULE AODSerial ------------------------------
(***************************************************************************)
(* What an Async Object bound Dispatcher promises: the tasks issued to an  *)
(* object run one at a time, each exactly once, in the order in which they *)
(* were submitted; different objects do not order each other.              *)
(***************************************************************************)
EXTENDS Sequences

CONSTANTS Objects, Tasks, None

VARIABLES fresh,    \* the tasks not submitted yet
          line,     \* line[o]: the tasks submitted to o that did not start
          running   \* running[o]: the task that runs on o, or None

vars == <<fresh, line, running>>

Init ==
    /\ fresh = Tasks
    /\ line = [o \in Objects |-> <<>>]
    /\ running = [o \in Objects |-> None]

Submit(t, o) ==
    /\ t \in fresh
    /\ fresh' = fresh \ {t}
    /\ line' = [line EXCEPT ![o] = Append(@, t)]
    /\ UNCHANGED running

Start(o) ==
    /\ running[o] = None /\ line[o] # <<>>
    /\ running' = [running EXCEPT ![o] = Head(line[o])]
    /\ line' = [line EXCEPT ![o] = Tail(@)]
    /\ UNCHANGED fresh

Finish(o) ==
    /\ running[o] # None
    /\ running' = [running EXCEPT ![o] = None]
    /\ UNCHANGED <<fresh, line>>

Next == \/ \E t \in Tasks, o \in Objects : Submit(t, o)
        \/ \E o \in Objects : Start(o) \/ Finish(o)

Spec == Init /\ [][Next]_vars
=============================================================================
