------------------------- MODULE MCServerLifecycle -------------------------
(* Two worker groups with three workers between them, and two services.    *)
(* Nothing fails, or calls of one kind may fail, or of two kinds; mostly   *)
(* with a worker on the main thread.                                       *)
EXTENDS ServerLifecycle, TLC

CONSTANTS w1, w2, w3

TwoGroups == (w1 :> 1) @@ (w2 :> 1) @@ (w3 :> 2)

AllFaults == {"beforeStart", "threadInit", "workerStart", "startHandler", "acceptor",
              "serverStart", "beforeStop", "stopHandler", "earlyStop"}
FaultSets == {{f} : f \in AllFaults} \cup
    {{}, {"threadInit", "startHandler"}, {"serverStart", "beforeStop"},
     {"threadInit", "stopHandler"}}
SettingsDef == (FaultSets \X {w3})
    \cup ({{}, {"threadInit"}, {"serverStart"}, {"stopHandler"}} \X {None})
=============================================================================
