---------------------------- MODULE MCAODDelayed ----------------------------
(* A reactive group, and a group of two workers that tick.                 *)
EXTENDS AODDelayed, TLC

CONSTANTS io, gA, w1, w2, w3

WithIo == <<io, gA>>
IoTwo  == (io :> <<w1>>) @@ (gA :> <<w2, w3>>)
=============================================================================
