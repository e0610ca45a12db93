--------------------------- MODULE MCDelayedTasks ---------------------------
(* A reactive group, which hands its tasks over, and a timer group.        *)
EXTENDS DelayedTasks, TLC

CONSTANTS io, timerA, w1, w2

IoAndTimer == <<io, timerA>>
OneEach    == (io :> <<w1>>) @@ (timerA :> <<w2>>)
=============================================================================
