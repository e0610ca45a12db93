---------------------------- MODULE TLSBroadcast ----------------------------
(***************************************************************************)
(* What the TLSSync system promises: the tasks given to SyncTLS form one   *)
(* order, every worker runs every task once and in that order, and a task  *)
(* is finalized once, after the last worker has run it.                    *)
(***************************************************************************)
EXTENDS Naturals, Sequences

CONSTANTS Workers, Tasks

VARIABLES order,      \* the tasks issued, in their common order
          ran,        \* ran[w]: how many of them worker w has run
          finalized   \* how many of them have been finalized

vars == <<order, ran, finalized>>

Init ==
    /\ order = <<>>
    /\ ran = [w \in Workers |-> 0]
    /\ finalized = 0

Issue(t) ==
    /\ \A i \in DOMAIN order : order[i] # t
    /\ order' = Append(order, t)
    /\ UNCHANGED <<ran, finalized>>

Run(w) ==
    /\ ran[w] < Len(order)
    /\ ran' = [ran EXCEPT ![w] = @ + 1]
    /\ UNCHANGED <<order, finalized>>

Finalize ==
    /\ \A w \in Workers : finalized < ran[w]
    /\ finalized' = finalized + 1
    /\ UNCHANGED <<order, ran>>

Next ==
    \/ \E t \in Tasks : Issue(t)
    \/ \E w \in Workers : Run(w)
    \/ Finalize

Spec == Init /\ [][Next]_vars
=============================================================================
