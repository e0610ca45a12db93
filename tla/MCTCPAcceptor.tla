---------------------------- MODULE MCTCPAcceptor ----------------------------
(* Two workers that wait without a timeout, two accept tasks and handles   *)
(* for two connections; the acceptor is started twice.                     *)
EXTENDS TCPAcceptor, TLC

CONSTANTS w1, w2, a1, a2, s1, s2

WorkersDef == {w1, w2}
AcceptDef  == {a1, a2}
SocketsDef == {s1, s2}
Symmetry   == Permutations(WorkersDef) \cup Permutations(AcceptDef)
                \cup Permutations(SocketsDef)
=============================================================================
