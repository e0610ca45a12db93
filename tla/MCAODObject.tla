---------------------------- MODULE MCAODObject -----------------------------
(* Two shared objects, so that one may have to wait in the pending list of *)
(* a thread that is flushing the other.                                    *)
EXTENDS AODObject

CONSTANTS thA, thB, oA, oB

AllShared == [o \in {oA, oB} |-> "Shared"]
=============================================================================
