------------------------------ MODULE MCAsyncIO ------------------------------
(* Two workers, three tasks for the port and two for their queues; one of  *)
(* each kind always comes back.  Batches of two, one general task a round. *)
EXTENDS AsyncIO

CONSTANTS w1, w2, d1, d2, d3, g1, r1

WorkersDef   == {w1, w2}
DeferredDef  == {d1, d2, d3}
GeneralDef   == {g1, r1}
RepeatingDef == {d3, r1}
VariantsDef  == {"active", "reactiveSync", "reactive"}
=============================================================================
