-------------------------- MODULE TCPAcceptorProofs --------------------------
(***************************************************************************)
(* For all workers, accept tasks, sockets and starts, and whatever calls   *)
(* fail: the count of an accept task is exact, a socket has one owner, and *)
(* the acceptor that says it is accepting is.  The argument for the counts *)
(* is that a task is in one place only: outstanding, at one position of    *)
(* the port or of what a worker dequeued, or in the hands of one thread    *)
(* that asks for the next connection (OnceInv).  The last part is about    *)
(* the loops by themselves, with all their queues: a deferred task is in   *)
(* one of them until it is run.                                            *)
(***************************************************************************)
EXTENDS TCPAcceptor, FiniteSetTheorems, SequenceTheorems, TLAPS

LoopLabels    == {"loop", "left", "wait", "general", "tick"}
HandlerLabels == {"stop", "close", "closesocket", "accepted", "guard", "acceptEx", "release"}
CarryLabels   == {"accepted", "guard", "newAccept", "acceptEx"}

Labels == LoopLabels \cup HandlerLabels
            \cup {"idle", "stopped", "dispatch", "closePort", "newSocket", "listening", "failed",
                  "begin", "newAccept"}

Typed ==
    /\ running \in BOOLEAN /\ port \in BOOLEAN
    /\ queue \in Seq(AcceptTasks)
    /\ batch \in [Workers -> Seq(AcceptTasks)]
    /\ pc \in [Threads -> Labels]
    /\ accepting \in BOOLEAN /\ listen \in Nat /\ open \subseteq Nat \ {0}
    /\ refs \in [AcceptTasks -> Int]
    /\ socketOf \in [AcceptTasks -> Sockets \cup {NoSocket}]
    /\ request \in [AcceptTasks -> Nat]
    /\ accepted \in [AcceptTasks -> BOOLEAN]
    /\ owner \in [Sockets -> {"nobody", "acceptor", "application"}]
    /\ self \in [Threads -> AcceptTasks \cup {NoTask}]
    /\ closing \in [Threads -> Nat]
    /\ next \in [Threads -> Labels]
    /\ starts \in Nat /\ rearmed \in BOOLEAN /\ stopLost \in BOOLEAN

(* Who can be where.                                                       *)
MainInv ==
    /\ pc[Main] \in {"idle", "stop", "close", "closesocket", "closePort", "stopped"}
    /\ next[Main] \in {"idle", "closePort"}

StarterInv ==
    /\ pc[Starter] \in {"idle", "close", "closesocket", "newSocket", "listening", "failed",
                        "begin", "newAccept", "acceptEx"}
    /\ next[Starter] \in {"idle", "newSocket", "failed"}
    /\ pc[Starter] # "idle" => starts > 0
    /\ pc[Starter] \in {"newAccept", "acceptEx"} => self[Starter] \in AcceptTasks

(* A worker in a handler has the task that it handles at the head of what  *)
(* it dequeued.                                                            *)
WorkerAt(w) ==
    /\ pc[w] \in LoopLabels \cup HandlerLabels \cup {"dispatch"}
    /\ pc[w] \in LoopLabels => batch[w] = <<>>
    /\ pc[w] \notin LoopLabels => batch[w] # <<>>
    /\ pc[w] \in HandlerLabels => self[w] = Head(batch[w])
    /\ pc[w] \notin HandlerLabels => self[w] = NoTask
    /\ pc[w] \in {"stop", "close", "closesocket"} => next[w] = "release"

WorkerInv == \A w \in Workers : WorkerAt(w)

ControlInv == MainInv /\ StarterInv /\ WorkerInv

(* The places where a task can be.                                         *)
Queued(a)     == \E i \in 1 .. Len(queue) : queue[i] = a
From(w)       == IF pc[w] \in HandlerLabels THEN 2 ELSE 1
Waits(w, a)   == \E i \in From(w) .. Len(batch[w]) : batch[w][i] = a
Waiting(a)    == \E w \in Workers : Waits(w, a)
Carries(t, a) == self[t] = a /\ pc[t] \in CarryLabels
Carried(a)    == \E t \in Threads : Carries(t, a)

Injective(s) == \A i, j \in 1 .. Len(s) : s[i] = s[j] => i = j

AtOne(a) ==
    /\ Requested(a) => ~Queued(a) /\ ~Waiting(a) /\ ~Carried(a)
    /\ Queued(a) => ~Waiting(a) /\ ~Carried(a)
    /\ Waiting(a) => ~Carried(a)
    /\ \A u, w \in Workers : Waits(u, a) /\ Waits(w, a) => u = w
    /\ \A t, u \in Threads : Carries(t, a) /\ Carries(u, a) => t = u

OnceInv ==
    /\ Injective(queue) /\ \A w \in Workers : Injective(batch[w])
    /\ \A a \in AcceptTasks : AtOne(a)

Pending(a) == Requested(a) \/ Queued(a) \/ Waiting(a)

Counted(a) ==
    /\ IsFiniteSet(Handling(a))
    /\ refs[a] = Cardinality(Handling(a)) + (IF Pending(a) \/ Preparing(a) THEN 1 ELSE 0)

CountInv == \A a \in AcceptTasks : Counted(a)

HasSocket(a) == Pending(a) \/ \E t \in Threads : self[t] = a /\ pc[t] = "acceptEx"

SocketInv ==
    /\ \A s \in Sockets :
          owner[s] = "acceptor" <=> \E a \in AcceptTasks : socketOf[a] = s /\ HasSocket(a)
    /\ \A a, b \in AcceptTasks :
          HasSocket(a) /\ HasSocket(b) /\ socketOf[a] = socketOf[b] /\ socketOf[a] \in Sockets => a = b

PortInv == port => OnceInv /\ CountInv /\ SocketInv

(* Who sees to it that an accepting acceptor has a request, or stops.      *)
Undone == \/ pc[Starter] \in {"begin", "failed"}
          \/ pc[Starter] \in {"close", "closesocket"} /\ next[Starter] = "failed"

Chained == \E a \in AcceptTasks : Pending(a) \/ Carried(a)

ChainInv ==
    accepting /\ port /\ rearmed => Chained \/ Undone \/ \E t \in Threads : pc[t] = "stop"

(* Who sees to it that a listening socket is closed.                       *)
ListenInv ==
    /\ \A l \in open : l = listen \/ \E t \in Threads : pc[t] = "closesocket" /\ closing[t] = l
    /\ pc[Starter] \in {"newSocket", "failed", "closesocket"} => listen = 0
    /\ ~accepting /\ ~stopLost /\ listen \in open =>
          pc[Starter] = "listening" \/ \E t \in Threads : pc[t] = "close"

IInv == Typed /\ ControlInv /\ PortInv /\ ChainInv /\ ListenInv
-----------------------------------------------------------------------------
LEMMA Apart ==
    /\ Main \in Threads /\ Starter \in Threads /\ Workers \subseteq Threads
    /\ Main # Starter /\ Main \notin Workers /\ Starter \notin Workers
    /\ \A t \in Threads : t = Main \/ t = Starter \/ t \in Workers
BY AsyncIOAssumption DEF Threads

LEMMA InitIInv == Init => IInv
<1> SUFFICES ASSUME Init PROVE IInv
  OBVIOUS
<1> USE Apart, TCPAcceptorAssumption
<1>1. /\ running = TRUE /\ port = TRUE /\ queue = <<>> /\ batch = [w \in Workers |-> <<>>]
      /\ pc = [t \in Threads |-> IF t \in Workers THEN "loop" ELSE "idle"]
      /\ accepting = FALSE /\ listen = 0 /\ open = {}
      /\ refs = [a \in AcceptTasks |-> 0] /\ request = [a \in AcceptTasks |-> 0]
      /\ owner = [s \in Sockets |-> "nobody"] /\ self = [t \in Threads |-> NoTask]
  BY DEF Init, LoopInit
<1>2. Typed
  <2>1. pc \in [Threads -> Labels]
    BY <1>1 DEF Labels, LoopLabels
  <2>2. next \in [Threads -> Labels]
    BY DEF Init, Labels
  <2>3. batch \in [Workers -> Seq(AcceptTasks)] /\ queue \in Seq(AcceptTasks)
    BY <1>1
  <2>4. /\ socketOf \in [AcceptTasks -> Sockets \cup {NoSocket}] /\ accepted \in [AcceptTasks -> BOOLEAN]
        /\ closing \in [Threads -> Nat] /\ starts \in Nat /\ rearmed \in BOOLEAN /\ stopLost \in BOOLEAN
    BY DEF Init
  <2>5. /\ refs \in [AcceptTasks -> Int] /\ request \in [AcceptTasks -> Nat]
        /\ owner \in [Sockets -> {"nobody", "acceptor", "application"}]
        /\ self \in [Threads -> AcceptTasks \cup {NoTask}]
    BY <1>1
  <2> QED
    BY <1>1, <2>1, <2>2, <2>3, <2>4, <2>5 DEF Typed
<1>3. ControlInv
  <2>1. MainInv /\ StarterInv
    BY <1>1 DEF Init, MainInv, StarterInv
  <2>2. WorkerInv
    BY <1>1 DEF WorkerInv, WorkerAt, LoopLabels, HandlerLabels
  <2> QED
    BY <2>1, <2>2 DEF ControlInv
<1>4. PortInv
  <2>1. \A a \in AcceptTasks : ~Requested(a) /\ ~Queued(a) /\ ~Waiting(a) /\ ~Carried(a)
    BY <1>1 DEF Requested, Queued, Waiting, Waits, From, Carried, Carries
  <2>2. \A a \in AcceptTasks : ~Pending(a) /\ ~Preparing(a) /\ ~HasSocket(a)
    BY <1>1, <2>1 DEF Pending, Preparing, HasSocket
  <2>3. OnceInv
    BY <1>1, <2>1 DEF OnceInv, AtOne, Injective, Waiting, Carried
  <2>4. \A a \in AcceptTasks : Handling(a) = {}
    BY <1>1 DEF Handling
  <2>5. CountInv
    <3>1. \A a \in AcceptTasks : IsFiniteSet(Handling(a)) /\ Cardinality(Handling(a)) = 0
      BY <2>4, FS_EmptySet
    <3>2. \A a \in AcceptTasks : refs[a] = 0
      BY <1>1
    <3> QED
      BY <2>2, <3>1, <3>2 DEF CountInv, Counted
  <2>6. SocketInv
    BY <1>1, <2>2 DEF SocketInv
  <2> QED
    BY <2>3, <2>5, <2>6 DEF PortInv
<1>5. ChainInv /\ ListenInv
  BY <1>1 DEF ChainInv, ListenInv
<1> QED
  BY <1>2, <1>3, <1>4, <1>5 DEF IInv

(***************************************************************************)
(* Sequences.                                                              *)
(***************************************************************************)
LEMMA Appended ==
    ASSUME NEW s \in Seq(AcceptTasks), NEW a \in AcceptTasks
    PROVE  /\ Append(s, a) \in Seq(AcceptTasks)
           /\ \A b : (\E i \in 1 .. Len(Append(s, a)) : Append(s, a)[i] = b)
                        <=> b = a \/ \E i \in 1 .. Len(s) : s[i] = b
           /\ Injective(s) /\ (\A i \in 1 .. Len(s) : s[i] # a) => Injective(Append(s, a))
<1>1. /\ Append(s, a) \in Seq(AcceptTasks) /\ Len(Append(s, a)) = Len(s) + 1 /\ Len(s) \in Nat
      /\ \A i \in 1 .. Len(s) : Append(s, a)[i] = s[i]
      /\ Append(s, a)[Len(s) + 1] = a
  OBVIOUS
<1>2. \A i \in 1 .. Len(s) + 1 : i \in 1 .. Len(s) \/ i = Len(s) + 1
  BY <1>1
<1> QED
  BY <1>1, <1>2 DEF Injective

LEMMA Tailed ==
    ASSUME NEW s \in Seq(AcceptTasks), s # <<>>
    PROVE  /\ Tail(s) \in Seq(AcceptTasks) /\ Head(s) \in AcceptTasks /\ Head(s) = s[1]
           /\ Len(s) \in Nat \ {0} /\ (Tail(s) = <<>> <=> Len(s) = 1)
           /\ \A b : (\E i \in 1 .. Len(Tail(s)) : Tail(s)[i] = b) <=> \E i \in 2 .. Len(s) : s[i] = b
           /\ Injective(s) => Injective(Tail(s))
<1>1. /\ Tail(s) \in Seq(AcceptTasks) /\ Head(s) \in AcceptTasks /\ Head(s) = s[1]
      /\ Len(s) \in Nat \ {0} /\ Len(Tail(s)) = Len(s) - 1
      /\ \A i \in 1 .. Len(s) - 1 : Tail(s)[i] = s[i + 1]
  OBVIOUS
<1>2. ASSUME NEW b PROVE (\E i \in 1 .. Len(Tail(s)) : Tail(s)[i] = b) <=> \E i \in 2 .. Len(s) : s[i] = b
  <2>1. ASSUME NEW i \in 1 .. Len(Tail(s)), Tail(s)[i] = b PROVE \E j \in 2 .. Len(s) : s[j] = b
    <3>1. i + 1 \in 2 .. Len(s) /\ s[i + 1] = b
      BY <1>1, <2>1
    <3> QED
      BY <3>1
  <2>2. ASSUME NEW j \in 2 .. Len(s), s[j] = b PROVE \E i \in 1 .. Len(Tail(s)) : Tail(s)[i] = b
    <3>1. j - 1 \in 1 .. Len(Tail(s)) /\ Tail(s)[j - 1] = b
      BY <1>1, <2>2
    <3> QED
      BY <3>1
  <2> QED
    BY <2>1, <2>2
<1>3. Injective(s) => Injective(Tail(s))
  BY <1>1 DEF Injective
<1>4. Tail(s) = <<>> <=> Len(s) = 1
  <2>1. Tail(s) = <<>> <=> Len(Tail(s)) = 0
    BY <1>1, EmptySeq
  <2> QED
    BY <1>1, <2>1
<1> QED
  BY <1>1, <1>2, <1>3, <1>4

(* The first n go one way, the others the other.                           *)
LEMMA Split ==
    ASSUME NEW s \in Seq(AcceptTasks), NEW n \in 1 .. Len(s)
    PROVE  LET f == SubSeq(s, 1, n)
               r == SubSeq(s, n + 1, Len(s))
           IN  /\ f \in Seq(AcceptTasks) /\ r \in Seq(AcceptTasks) /\ f # <<>>
               /\ \A b : (\E i \in 1 .. Len(f) : f[i] = b) <=> \E i \in 1 .. n : s[i] = b
               /\ \A b : (\E i \in 1 .. Len(r) : r[i] = b) <=> \E i \in n + 1 .. Len(s) : s[i] = b
               /\ Injective(s) => Injective(f) /\ Injective(r)
<1> DEFINE f == SubSeq(s, 1, n)
           r == SubSeq(s, n + 1, Len(s))
<1>1. n \in Nat \ {0} /\ Len(s) \in Nat /\ n <= Len(s) /\ n + 1 \in 1 .. Len(s) + 1
  OBVIOUS
<1>2. f \in Seq(AcceptTasks) /\ Len(f) = n /\ \A i \in 1 .. n : f[i] = s[i]
  BY <1>1, SubSeqProperties
<1>3. /\ r \in Seq(AcceptTasks) /\ Len(r) = Len(s) - n
      /\ \A i \in 1 .. Len(s) - n : r[i] = s[n + i]
  <2>1. /\ r \in Seq(AcceptTasks)
        /\ Len(r) = IF n + 1 <= Len(s) THEN Len(s) - (n + 1) + 1 ELSE 0
        /\ \A i \in 1 .. Len(s) - (n + 1) + 1 : r[i] = s[n + 1 + i - 1]
    BY <1>1, SubSeqProperties
  <2> QED
    BY <1>1, <2>1
<1>4. f # <<>>
  BY <1>1, <1>2
<1>5. \A b : (\E i \in 1 .. Len(f) : f[i] = b) <=> \E i \in 1 .. n : s[i] = b
  BY <1>2
<1>6. ASSUME NEW b PROVE (\E i \in 1 .. Len(r) : r[i] = b) <=> \E i \in n + 1 .. Len(s) : s[i] = b
  <2>1. ASSUME NEW i \in 1 .. Len(r), r[i] = b PROVE \E j \in n + 1 .. Len(s) : s[j] = b
    <3>1. n + i \in n + 1 .. Len(s) /\ s[n + i] = b
      BY <1>1, <1>3, <2>1
    <3> QED
      BY <3>1
  <2>2. ASSUME NEW j \in n + 1 .. Len(s), s[j] = b PROVE \E i \in 1 .. Len(r) : r[i] = b
    <3>1. j - n \in 1 .. Len(r) /\ r[j - n] = b
      BY <1>1, <1>3, <2>2
    <3> QED
      BY <3>1
  <2> QED
    BY <2>1, <2>2
<1>7. Injective(s) => Injective(f)
  BY <1>1, <1>2 DEF Injective
<1>8. Injective(s) => Injective(r)
  <2> SUFFICES ASSUME Injective(s), NEW i \in 1 .. Len(r), NEW j \in 1 .. Len(r), r[i] = r[j]
               PROVE  i = j
    BY DEF Injective
  <2>1. n + i \in 1 .. Len(s) /\ n + j \in 1 .. Len(s) /\ s[n + i] = s[n + j]
    BY <1>1, <1>3
  <2>2. n + i = n + j
    BY <2>1 DEF Injective
  <2> QED
    BY <1>1, <1>3, <2>2
<1> HIDE DEF f, r
<1> QED
  BY <1>2, <1>3, <1>4, <1>5, <1>6, <1>7, <1>8 DEF f, r
(***************************************************************************)
(* Types, and who can be where.                                            *)
(***************************************************************************)
LEMMA Went ==
    ASSUME Typed, NEW t \in Threads, NEW l \in Labels, Goto(t, l)
    PROVE  /\ pc' \in [Threads -> Labels] /\ pc'[t] = l
           /\ \A u \in Threads \ {t} : pc'[u] = pc[u]
BY DEF Typed, Goto

(* Only thread t moves.                                                    *)
LEMMA ControlMoves ==
    ASSUME ControlInv, NEW t \in Threads,
           \A u \in Threads \ {t} : pc'[u] = pc[u] /\ self'[u] = self[u] /\ next'[u] = next[u],
           \A w \in Workers \ {t} : batch'[w] = batch[w],
           starts' = starts \/ starts' > 0,
           t = Main => MainInv', t = Starter => StarterInv', t \in Workers => WorkerAt(t)'
    PROVE  ControlInv'
<1>1. MainInv'
  BY Apart DEF ControlInv, MainInv
<1>2. StarterInv'
  BY Apart DEF ControlInv, StarterInv
<1>3. ASSUME NEW w \in Workers, w # t PROVE WorkerAt(w)'
  BY <1>3, Apart DEF ControlInv, WorkerInv, WorkerAt
<1> QED
  BY <1>1, <1>2, <1>3 DEF ControlInv, WorkerInv

LEMMA LabelsAre ==
    /\ Labels = {"loop", "left", "wait", "general", "tick", "stop", "close", "closesocket", "accepted",
                 "guard", "acceptEx", "release", "idle", "stopped", "dispatch", "closePort", "newSocket",
                 "listening", "failed", "begin", "newAccept"}
BY DEF Labels, LoopLabels, HandlerLabels

LEMMA CloseSocketKeeps ==
    ASSUME Typed, ControlInv, NEW t \in Threads, CloseSocket(t)
    PROVE  Typed' /\ ControlInv'
<1>1. PICK l \in Labels : Goto(t, l) /\ l \in {next[t], "closesocket"}
  BY LabelsAre DEF CloseSocket, Typed
<1>2. /\ pc[t] = "close" /\ pc' \in [Threads -> Labels] /\ pc'[t] \in {next[t], "closesocket"}
      /\ \A u \in Threads \ {t} : pc'[u] = pc[u]
  BY <1>1, Went DEF CloseSocket
<1>3. Typed'
  BY <1>2 DEF Typed, CloseSocket, portVars, taskState, historyVars
<1>4. ControlInv'
  <2>1. UNCHANGED <<batch, self, next, starts>>
    BY DEF CloseSocket, portVars, historyVars
  <2>2. t = Main => MainInv'
    BY <1>2, <2>1 DEF ControlInv, MainInv
  <2>3. t = Starter => StarterInv'
    BY <1>2, <2>1 DEF ControlInv, StarterInv
  <2>4. t \in Workers => WorkerAt(t)'
    BY <1>2, <2>1 DEF ControlInv, WorkerInv, WorkerAt, LoopLabels, HandlerLabels
  <2> QED
    BY <1>2, <2>1, <2>2, <2>3, <2>4, ControlMoves
<1> QED
  BY <1>3, <1>4

LEMMA CloseHandleKeeps ==
    ASSUME Typed, ControlInv, NEW t \in Threads, CloseHandle(t)
    PROVE  Typed' /\ ControlInv'
<1>1. next[t] \in Labels /\ Goto(t, next[t]) /\ pc[t] = "closesocket"
  BY DEF CloseHandle, Typed
<1>2. pc' \in [Threads -> Labels] /\ pc'[t] = next[t] /\ \A u \in Threads \ {t} : pc'[u] = pc[u]
  BY <1>1, Went
<1>3. Typed'
  BY <1>2 DEF Typed, CloseHandle, portVars, taskState, historyVars
<1>4. UNCHANGED <<batch, self, next, starts>>
  BY DEF CloseHandle, portVars, historyVars
<1>5. t = Main => MainInv'
  BY <1>1, <1>2, <1>4 DEF ControlInv, MainInv
<1>6. t = Starter => StarterInv'
  BY <1>1, <1>2, <1>4 DEF ControlInv, StarterInv
<1>7. t \in Workers => WorkerAt(t)'
  BY <1>1, <1>2, <1>4 DEF ControlInv, WorkerInv, WorkerAt, LoopLabels, HandlerLabels
<1> QED
  BY <1>2, <1>3, <1>4, <1>5, <1>6, <1>7, ControlMoves

LEMMA StopAcceptingKeeps ==
    ASSUME Typed, ControlInv, NEW t \in Threads, StopAcceptingAsync(t)
    PROVE  Typed' /\ ControlInv'
<1>1. PICK l \in Labels : Goto(t, l) /\ l \in {"close", next[t]}
  BY LabelsAre DEF StopAcceptingAsync, Typed
<1>2. /\ pc[t] = "stop" /\ pc' \in [Threads -> Labels] /\ pc'[t] \in {"close", next[t]}
      /\ \A u \in Threads \ {t} : pc'[u] = pc[u]
  BY <1>1, Went DEF StopAcceptingAsync
<1>3. Typed'
  BY <1>2 DEF Typed, StopAcceptingAsync, portVars, taskState, localVars
<1>4. UNCHANGED <<batch, self, next, starts>>
  BY DEF StopAcceptingAsync, portVars, localVars
<1>5. t = Main => MainInv'
  BY <1>2, <1>4 DEF ControlInv, MainInv
<1>6. t = Starter => StarterInv'
  BY <1>2 DEF ControlInv, StarterInv
<1>7. t \in Workers => WorkerAt(t)'
  BY <1>2, <1>4 DEF ControlInv, WorkerInv, WorkerAt, LoopLabels, HandlerLabels
<1> QED
  BY <1>2, <1>3, <1>4, <1>5, <1>6, <1>7, ControlMoves

LEMMA NewAcceptSocketKeeps ==
    ASSUME Typed, ControlInv, NEW t \in Threads, NewAcceptSocket(t)
    PROVE  Typed' /\ ControlInv' /\ self[t] \in AcceptTasks
<1>1. Goto(t, "acceptEx") /\ "acceptEx" \in Labels /\ pc[t] \in {"guard", "newAccept"}
  BY LabelsAre DEF NewAcceptSocket
<1>2. pc' \in [Threads -> Labels] /\ pc'[t] = "acceptEx" /\ \A u \in Threads \ {t} : pc'[u] = pc[u]
  BY <1>1, Went
<1>3. UNCHANGED <<batch, self, next, starts>>
  BY DEF NewAcceptSocket, portVars, localVars, historyVars
<1>4. t # Main
  BY <1>1 DEF ControlInv, MainInv
<1>5. t = Starter => StarterInv' /\ self[t] \in AcceptTasks
  BY <1>1, <1>2, <1>3 DEF ControlInv, StarterInv
<1>6. t \in Workers => WorkerAt(t)' /\ self[t] \in AcceptTasks
  <2> SUFFICES ASSUME t \in Workers PROVE WorkerAt(t)' /\ self[t] \in AcceptTasks
    OBVIOUS
  <2>1. WorkerAt(t) /\ pc[t] = "guard"
    BY <1>1 DEF ControlInv, WorkerInv, WorkerAt, LoopLabels, HandlerLabels
  <2>2. batch[t] \in Seq(AcceptTasks) /\ batch[t] # <<>> /\ self[t] = Head(batch[t])
    BY <2>1 DEF WorkerAt, Typed, LoopLabels, HandlerLabels
  <2> QED
    BY <1>2, <1>3, <2>1, <2>2, Tailed DEF WorkerAt, LoopLabels, HandlerLabels
<1>7. Typed'
  <2>1. /\ owner \in [Sockets -> {"nobody", "acceptor", "application"}]
        /\ socketOf \in [AcceptTasks -> Sockets \cup {NoSocket}]
    BY DEF Typed
  <2>2. PICK s \in Sockets \cup {NoSocket} : socketOf' = [socketOf EXCEPT ![self[t]] = s]
    BY DEF NewAcceptSocket
  <2>3. owner' = owner \/ \E s2 \in Sockets : owner' = [owner EXCEPT ![s2] = "acceptor"]
    BY DEF NewAcceptSocket
  <2>4. owner' \in [Sockets -> {"nobody", "acceptor", "application"}]
    BY <2>1, <2>3
  <2>5. socketOf' \in [AcceptTasks -> Sockets \cup {NoSocket}]
    BY <2>1, <2>2
  <2> QED
    BY <1>2, <2>4, <2>5 DEF Typed, NewAcceptSocket, portVars, sockVars, localVars, historyVars
<1> QED
  BY <1>2, <1>3, <1>4, <1>5, <1>6, <1>7, Apart, ControlMoves

(* The task that a thread has at AcceptEx.                                 *)
LEMMA AtAcceptEx ==
    ASSUME Typed, ControlInv, NEW t \in Threads, pc[t] = "acceptEx"
    PROVE  /\ self[t] \in AcceptTasks /\ (t = Starter \/ t \in Workers)
           /\ t \in Workers => WorkerAt(t) /\ batch[t] # <<>> /\ self[t] = Head(batch[t])
<1>1. t # Main
  BY DEF ControlInv, MainInv
<1>2. t = Starter => self[t] \in AcceptTasks
  BY DEF ControlInv, StarterInv
<1>3. ASSUME t \in Workers
      PROVE  WorkerAt(t) /\ batch[t] # <<>> /\ self[t] = Head(batch[t]) /\ self[t] \in AcceptTasks
  <2>1. WorkerAt(t) /\ batch[t] # <<>> /\ self[t] = Head(batch[t]) /\ batch[t] \in Seq(AcceptTasks)
    BY <1>3 DEF ControlInv, WorkerInv, WorkerAt, Typed, LoopLabels, HandlerLabels
  <2> QED
    BY <2>1, Tailed
<1> QED
  BY <1>1, <1>2, <1>3, Apart

LEMMA AcceptExSucceedsKeeps ==
    ASSUME Typed, ControlInv, NEW t \in Threads, AcceptExSucceeds(t)
    PROVE  Typed' /\ ControlInv'
<1>1. Goto(t, Back(t)) /\ Back(t) \in Labels /\ pc[t] = "acceptEx"
  BY LabelsAre DEF AcceptExSucceeds, Back
<1>2. pc' \in [Threads -> Labels] /\ pc'[t] = Back(t) /\ \A u \in Threads \ {t} : pc'[u] = pc[u]
  BY <1>1, Went
<1>3. UNCHANGED <<batch, self, next, starts>>
  BY DEF AcceptExSucceeds, portVars, localVars, historyVars
<1>4. t # Main /\ (t \in Workers => WorkerAt(t) /\ batch[t] # <<>> /\ self[t] = Head(batch[t]))
  BY <1>1, AtAcceptEx, Apart
<1>5. t = Starter => StarterInv'
  BY <1>1, <1>2, <1>3, Apart DEF ControlInv, StarterInv, Back
<1>6. t \in Workers => WorkerAt(t)'
  BY <1>1, <1>2, <1>3, <1>4 DEF WorkerAt, LoopLabels, HandlerLabels, Back
<1>7. Typed'
  <2>1. request' \in [AcceptTasks -> Nat]
    BY DEF AcceptExSucceeds, Typed
  <2> QED
    BY <1>2, <2>1 DEF Typed, AcceptExSucceeds, portVars, sockVars, localVars, historyVars
<1> QED
  BY <1>2, <1>3, <1>4, <1>5, <1>6, <1>7, ControlMoves

LEMMA AcceptExFailsKeeps ==
    ASSUME Typed, ControlInv, NEW t \in Threads, AcceptExFails(t)
    PROVE  Typed' /\ ControlInv'
<1>0. pc[t] = "acceptEx" /\ UNCHANGED <<batch, self, starts>>
  BY DEF AcceptExFails, portVars, historyVars
<1>1. self[t] \in AcceptTasks /\ (t \in Workers => WorkerAt(t) /\ batch[t] # <<>> /\ self[t] = Head(batch[t]))
  BY <1>0, AtAcceptEx
<1>2. PICK l \in Labels : Goto(t, l) /\ ( \/ t \in Workers /\ l = "release" /\ UNCHANGED next
                                          \/ t = Starter /\ l = "close" /\ next' = [next EXCEPT ![t] = "failed"])
  BY LabelsAre DEF AcceptExFails, CloseSocketThen
<1>3. pc' \in [Threads -> Labels] /\ pc'[t] = l /\ \A u \in Threads \ {t} : pc'[u] = pc[u]
  BY <1>2, Went
<1>4. next' \in [Threads -> Labels] /\ \A u \in Threads \ {t} : next'[u] = next[u]
  BY <1>2, LabelsAre DEF Typed
<1>5. t # Main
  BY <1>2, Apart
<1>6. t = Starter => StarterInv'
  <2>1. t = Starter => next'[Starter] = "failed" /\ pc'[Starter] = "close" /\ starts > 0
    BY <1>0, <1>2, <1>3, Apart DEF ControlInv, StarterInv, Typed
  <2> QED
    BY <1>0, <2>1 DEF StarterInv
<1>7. t \in Workers => WorkerAt(t)'
  BY <1>0, <1>1, <1>2, <1>3, Apart DEF WorkerAt, LoopLabels, HandlerLabels
<1>8. Typed'
  <2>1. refs' \in [AcceptTasks -> Int] /\ owner' \in [Sockets -> {"nobody", "acceptor", "application"}]
    BY <1>1 DEF AcceptExFails, Typed, Closed
  <2>2. rearmed' \in BOOLEAN
    BY DEF AcceptExFails, Typed
  <2> QED
    BY <1>3, <1>4, <2>1, <2>2 DEF Typed, AcceptExFails, portVars, sockVars
<1> QED
  BY <1>0, <1>3, <1>4, <1>5, <1>6, <1>7, <1>8, ControlMoves

(* The steps of a worker's loop in which it has nothing in its hand.       *)
LEMMA LoopMoves ==
    ASSUME Typed, ControlInv, NEW w \in Workers, pc[w] \in LoopLabels, NEW l \in LoopLabels,
           Goto(w, l), UNCHANGED <<running, portVars, acceptVars>>
    PROVE  Typed' /\ ControlInv'
<1>1. pc' \in [Threads -> Labels] /\ pc'[w] = l /\ \A u \in Threads \ {w} : pc'[u] = pc[u]
  BY Went, Apart DEF Labels
<1>2. Typed'
  BY <1>1 DEF Typed, portVars, acceptVars, sockVars, taskState, localVars, historyVars
<1>3. UNCHANGED <<batch, self, next, starts>>
  BY DEF portVars, acceptVars, localVars, historyVars
<1>4. WorkerAt(w)'
  BY <1>1, <1>3 DEF ControlInv, WorkerInv, WorkerAt, LoopLabels, HandlerLabels
<1> QED
  BY <1>1, <1>2, <1>3, <1>4, Apart, ControlMoves

LEMMA QuietLoopKeeps ==
    ASSUME Typed, ControlInv, NEW w \in Workers, UNCHANGED acceptVars,
           Loop(w) \/ Timeout(w) \/ SystemFailure(w) \/ HandleGeneralTasksWithThrottle(w) \/ Tick(w)
    PROVE  /\ Typed' /\ ControlInv' /\ UNCHANGED <<running, portVars>> /\ pc[w] \in LoopLabels
           /\ UNCHANGED pc \/ \E l \in LoopLabels : Goto(w, l)
<1>1. UNCHANGED <<running, portVars>> /\ pc[w] \in LoopLabels
  BY DEF Loop, Timeout, SystemFailure, HandleGeneralTasksWithThrottle, Tick, LoopLabels
<1>2. UNCHANGED pc \/ \E l \in LoopLabels : Goto(w, l)
  BY DEF Loop, Timeout, SystemFailure, HandleGeneralTasksWithThrottle, Tick, AfterIO, LoopLabels
<1>3. CASE UNCHANGED pc
  <2>1. Typed'
    BY <1>1, <1>3 DEF Typed, portVars, acceptVars, sockVars, taskState, localVars, historyVars
  <2>2. UNCHANGED <<batch, self, next, starts>>
    BY <1>1 DEF portVars, acceptVars, localVars, historyVars
  <2>3. ControlInv'
    BY <1>3, <2>2 DEF ControlInv, MainInv, StarterInv, WorkerInv, WorkerAt
  <2> QED
    BY <1>1, <1>3, <2>1, <2>3
<1>4. CASE \E l \in LoopLabels : Goto(w, l)
  BY <1>1, <1>4, LoopMoves
<1> QED
  BY <1>2, <1>3, <1>4

LEMMA DequeueKeeps ==
    ASSUME Typed, ControlInv, NEW w \in Workers, Dequeue(w), UNCHANGED acceptVars
    PROVE  /\ Typed' /\ ControlInv'
           /\ \E n \in 1 .. Len(queue) :
                /\ batch' = [batch EXCEPT ![w] = SubSeq(queue, 1, n)]
                /\ queue' = SubSeq(queue, n + 1, Len(queue))
<1>1. PICK n \in 1 .. Len(queue) :
          /\ batch' = [batch EXCEPT ![w] = SubSeq(queue, 1, n)]
          /\ queue' = SubSeq(queue, n + 1, Len(queue))
  <2>1. Len(queue) \in Nat
    BY DEF Typed
  <2>2. (IF Len(queue) < BatchSize THEN Len(queue) ELSE BatchSize) \in 1 .. Len(queue)
    BY <2>1, AsyncIOAssumption DEF Dequeue
  <2> QED
    BY <2>2 DEF Dequeue
<1>2. /\ SubSeq(queue, 1, n) \in Seq(AcceptTasks) /\ SubSeq(queue, n + 1, Len(queue)) \in Seq(AcceptTasks)
      /\ SubSeq(queue, 1, n) # <<>>
  <2>1. queue \in Seq(AcceptTasks)
    BY DEF Typed
  <2> QED
    BY <2>1, Split
<1>3. Goto(w, "dispatch") /\ "dispatch" \in Labels /\ pc[w] = "wait" /\ UNCHANGED <<running, port>>
  BY LabelsAre DEF Dequeue
<1>4. pc' \in [Threads -> Labels] /\ pc'[w] = "dispatch" /\ \A u \in Threads \ {w} : pc'[u] = pc[u]
  BY <1>3, Went, Apart
<1>5. /\ batch' \in [Workers -> Seq(AcceptTasks)] /\ batch'[w] = SubSeq(queue, 1, n)
      /\ \A u \in Workers \ {w} : batch'[u] = batch[u]
  BY <1>1, <1>2 DEF Typed
<1>6. queue' \in Seq(AcceptTasks)
  BY <1>1, <1>2
<1>7. Typed'
  BY <1>3, <1>4, <1>5, <1>6 DEF Typed, acceptVars, sockVars, taskState, localVars, historyVars
<1>8. UNCHANGED <<self, next, starts>>
  BY DEF acceptVars, localVars, historyVars
<1>9. WorkerAt(w)'
  BY <1>2, <1>3, <1>4, <1>5, <1>8 DEF ControlInv, WorkerInv, WorkerAt, LoopLabels, HandlerLabels
<1>10. ControlInv'
  BY <1>4, <1>5, <1>8, <1>9, Apart, ControlMoves
<1> QED
  BY <1>1, <1>7, <1>10

(* The port carries nothing but accept requests here.                      *)
LEMMA NoOtherTask ==
    ASSUME Typed, ControlInv, NEW w \in Workers, HandleTask(w)
    PROVE  FALSE
<1>1. pc[w] = "dispatch" /\ Head(batch[w]) \in Tasks
  BY DEF HandleTask, Tasks
<1>2. batch[w] \in Seq(AcceptTasks) /\ batch[w] # <<>>
  BY <1>1 DEF Typed, ControlInv, WorkerInv, WorkerAt, LoopLabels
<1>3. Head(batch[w]) \in AcceptTasks
  BY <1>2, Tailed
<1> QED
  BY <1>1, <1>3, TCPAcceptorAssumption

LEMMA ReuseTaskKeeps ==
    ASSUME Typed, ControlInv, NEW w \in Workers, ReuseTask(w)
    PROVE  /\ Typed' /\ ControlInv' /\ self[w] \in AcceptTasks
<1>1. PICK l \in Labels : Goto(w, l) /\ l \in {"guard", "release"}
  BY LabelsAre DEF ReuseTask
<1>2. /\ pc[w] = "accepted" /\ pc' \in [Threads -> Labels] /\ pc'[w] \in {"guard", "release"}
      /\ \A u \in Threads \ {w} : pc'[u] = pc[u]
  BY <1>1, Went, Apart DEF ReuseTask
<1>3. UNCHANGED <<batch, self, next, starts>>
  BY DEF ReuseTask, portVars, localVars, historyVars
<1>4. WorkerAt(w)'
  BY <1>2, <1>3 DEF ControlInv, WorkerInv, WorkerAt, LoopLabels, HandlerLabels
<1>5. self[w] \in AcceptTasks
  <2>1. batch[w] \in Seq(AcceptTasks) /\ batch[w] # <<>> /\ self[w] = Head(batch[w])
    BY <1>2 DEF Typed, ControlInv, WorkerInv, WorkerAt, LoopLabels, HandlerLabels
  <2> QED
    BY <2>1, Tailed
<1>6. Typed'
  <2>1. refs' \in [AcceptTasks -> Int]
    BY <1>5 DEF ReuseTask, Typed
  <2> QED
    BY <1>2, <2>1 DEF Typed, ReuseTask, portVars, sockVars, localVars, historyVars
<1> QED
  BY <1>2, <1>3, <1>4, <1>5, <1>6, Apart, ControlMoves

LEMMA HandleAcceptKeeps ==
    ASSUME Typed, ControlInv, NEW w \in Workers, HandleAccept(w)
    PROVE  /\ Typed' /\ ControlInv' /\ batch[w] \in Seq(AcceptTasks) /\ batch[w] # <<>>
           /\ pc[w] = "dispatch" /\ pc'[w] \in {"accepted", "stop"} /\ \A u \in Threads \ {w} : pc'[u] = pc[u]
           /\ self[w] = NoTask /\ self' = [self EXCEPT ![w] = Head(batch[w])] /\ Head(batch[w]) \in AcceptTasks
<1>1. PICK l \in Labels : Goto(w, l) /\ \/ l = "accepted" /\ UNCHANGED next
                                        \/ l = "stop" /\ next' = [next EXCEPT ![w] = "release"]
  BY LabelsAre DEF HandleAccept, StopAcceptingThen
<1>2. /\ pc[w] = "dispatch" /\ pc' \in [Threads -> Labels] /\ pc'[w] = l
      /\ \A u \in Threads \ {w} : pc'[u] = pc[u]
  BY <1>1, Went, Apart DEF HandleAccept
<1>3. /\ self' = [self EXCEPT ![w] = Head(batch[w])] /\ Head(batch[w]) \in AcceptTasks
      /\ UNCHANGED <<batch, starts>>
  BY DEF HandleAccept, portVars, historyVars
<1>4. /\ batch[w] \in Seq(AcceptTasks) /\ batch[w] # <<>> /\ self[w] = NoTask
  BY <1>2 DEF Typed, ControlInv, WorkerInv, WorkerAt, LoopLabels, HandlerLabels
<1>5. next' \in [Threads -> Labels] /\ \A u \in Threads \ {w} : next'[u] = next[u]
  BY <1>1, LabelsAre DEF Typed
<1>6. l = "stop" => next'[w] = "release"
  BY <1>1, Apart DEF Typed
<1>7. self' \in [Threads -> AcceptTasks \cup {NoTask}] /\ self'[w] = Head(batch[w])
      /\ \A u \in Threads \ {w} : self'[u] = self[u]
  BY <1>3, Apart DEF Typed
<1>8. WorkerAt(w)'
  BY <1>1, <1>2, <1>3, <1>4, <1>6, <1>7 DEF WorkerAt, LoopLabels, HandlerLabels
<1>9. Typed'
  <2>1. owner' \in [Sockets -> {"nobody", "acceptor", "application"}]
    BY DEF HandleAccept, Typed, Closed
  <2> QED
    BY <1>2, <1>5, <1>7, <2>1 DEF Typed, HandleAccept, portVars, sockVars, taskState, historyVars
<1>10. ControlInv'
  BY <1>2, <1>3, <1>5, <1>7, <1>8, Apart, ControlMoves
<1> QED
  BY <1>1, <1>2, <1>3, <1>4, <1>9, <1>10

LEMMA ReleaseKeeps ==
    ASSUME Typed, ControlInv, NEW w \in Workers, Release(w)
    PROVE  /\ Typed' /\ ControlInv' /\ batch[w] \in Seq(AcceptTasks) /\ batch[w] # <<>>
           /\ pc[w] = "release" /\ pc'[w] \in {"dispatch", "general", "tick"}
           /\ \A u \in Threads \ {w} : pc'[u] = pc[u]
           /\ self[w] = Head(batch[w]) /\ Head(batch[w]) \in AcceptTasks
<1>1. PICK l \in Labels : /\ Goto(w, l) /\ l \in {"dispatch", "general", "tick"}
                          /\ l = "dispatch" <=> Len(batch[w]) # 1
  BY LabelsAre DEF Release, Handled, AfterIO
<1>2. /\ pc[w] = "release" /\ pc' \in [Threads -> Labels] /\ pc'[w] = l
      /\ \A u \in Threads \ {w} : pc'[u] = pc[u]
  BY <1>1, Went, Apart DEF Release
<1>3. /\ batch[w] \in Seq(AcceptTasks) /\ batch[w] # <<>> /\ self[w] = Head(batch[w])
  BY <1>2 DEF Typed, ControlInv, WorkerInv, WorkerAt, LoopLabels, HandlerLabels
<1>4. /\ Tail(batch[w]) \in Seq(AcceptTasks) /\ Head(batch[w]) \in AcceptTasks
      /\ Tail(batch[w]) = <<>> <=> Len(batch[w]) = 1
  BY <1>3, Tailed
<1>5. /\ self' = [self EXCEPT ![w] = NoTask] /\ batch' = [batch EXCEPT ![w] = Tail(batch[w])]
      /\ UNCHANGED <<next, starts>>
  BY DEF Release, Handled, historyVars
<1>6. /\ self' \in [Threads -> AcceptTasks \cup {NoTask}] /\ self'[w] = NoTask
      /\ \A u \in Threads \ {w} : self'[u] = self[u]
  BY <1>5, Apart DEF Typed
<1>7. /\ batch' \in [Workers -> Seq(AcceptTasks)] /\ batch'[w] = Tail(batch[w])
      /\ \A u \in Workers \ {w} : batch'[u] = batch[u]
  BY <1>4, <1>5 DEF Typed
<1>8. WorkerAt(w)'
  BY <1>1, <1>2, <1>4, <1>6, <1>7 DEF WorkerAt, LoopLabels, HandlerLabels
<1>9. Typed'
  <2>0. PICK a \in AcceptTasks : a = self[w]
    BY <1>3, <1>4
  <2>1. refs \in [AcceptTasks -> Int] /\ refs' = [refs EXCEPT ![a] = @ - 1] /\ refs[a] \in Int
    BY <2>0 DEF Release, Typed
  <2>2. refs' \in [AcceptTasks -> Int]
    BY <2>1
  <2> QED
    BY <1>2, <1>6, <1>7, <2>2 DEF Typed, Release, sockVars, historyVars
<1>10. ControlInv'
  BY <1>2, <1>5, <1>6, <1>7, <1>8, Apart, ControlMoves
<1> QED
  BY <1>1, <1>2, <1>3, <1>4, <1>9, <1>10

LEMMA NewSocketKeeps ==
    ASSUME Typed, ControlInv, NewSocket
    PROVE  Typed' /\ ControlInv'
<1>1. PICK l \in Labels : Goto(Starter, l) /\ l \in {"idle", "listening"}
  BY LabelsAre DEF NewSocket
<1>2. /\ pc[Starter] = "newSocket" /\ pc' \in [Threads -> Labels] /\ pc'[Starter] \in {"idle", "listening"}
      /\ \A u \in Threads \ {Starter} : pc'[u] = pc[u]
  BY <1>1, Went, Apart DEF NewSocket
<1>3. UNCHANGED <<batch, self, next, starts>>
  BY DEF NewSocket, portVars, localVars, historyVars
<1>4. StarterInv'
  BY <1>2, <1>3 DEF ControlInv, StarterInv
<1>5. Typed'
  <2>1. starts \in Nat \ {0}
    BY <1>2 DEF Typed, ControlInv, StarterInv
  <2>2. listen' = starts \/ listen' = listen
    BY DEF NewSocket
  <2>3. open' = open \cup {starts} \/ open' = open
    BY DEF NewSocket
  <2>4. listen' \in Nat /\ open' \subseteq Nat \ {0}
    BY <2>1, <2>2, <2>3 DEF Typed
  <2> QED
    BY <1>2, <2>4 DEF Typed, NewSocket, portVars, taskState, localVars, historyVars
<1> QED
  BY <1>2, <1>3, <1>4, <1>5, Apart, ControlMoves

LEMMA StartFailedKeeps ==
    ASSUME Typed, ControlInv, StartFailed
    PROVE  Typed' /\ ControlInv'
<1>1. Goto(Starter, "idle") /\ "idle" \in Labels /\ pc[Starter] = "failed"
  BY LabelsAre DEF StartFailed
<1>2. /\ pc' \in [Threads -> Labels] /\ pc'[Starter] = "idle"
      /\ \A u \in Threads \ {Starter} : pc'[u] = pc[u]
  BY <1>1, Went, Apart
<1>3. UNCHANGED <<batch, self, next, starts>>
  BY DEF StartFailed, portVars, localVars, historyVars
<1>4. StarterInv'
  BY <1>2, <1>3 DEF ControlInv, StarterInv
<1>5. Typed'
  BY <1>2 DEF Typed, StartFailed, portVars, taskState, localVars, historyVars
<1> QED
  BY <1>2, <1>3, <1>4, <1>5, Apart, ControlMoves

LEMMA BindAndListenKeeps ==
    ASSUME Typed, ControlInv, BindAndListen
    PROVE  Typed' /\ ControlInv'
<1>1. PICK l \in Labels : Goto(Starter, l) /\ \/ l = "close" /\ next' = [next EXCEPT ![Starter] = "idle"]
                                              \/ l = "begin" /\ UNCHANGED next
  BY LabelsAre DEF BindAndListen, CloseSocketThen
<1>2. /\ pc[Starter] = "listening" /\ pc' \in [Threads -> Labels] /\ pc'[Starter] = l
      /\ \A u \in Threads \ {Starter} : pc'[u] = pc[u]
  BY <1>1, Went, Apart DEF BindAndListen
<1>3. UNCHANGED <<batch, self, starts>>
  BY DEF BindAndListen, portVars, historyVars
<1>4. /\ next' \in [Threads -> Labels] /\ next'[Starter] \in {"idle", next[Starter]}
      /\ \A u \in Threads \ {Starter} : next'[u] = next[u]
  BY <1>1, LabelsAre, Apart DEF Typed
<1>5. StarterInv'
  BY <1>1, <1>2, <1>3, <1>4 DEF ControlInv, StarterInv
<1>6. Typed'
  <2>1. accepting' \in BOOLEAN
    BY DEF BindAndListen, Typed
  <2> QED
    BY <1>2, <1>4, <2>1 DEF Typed, BindAndListen, portVars, taskState, historyVars
<1> QED
  BY <1>2, <1>3, <1>4, <1>5, <1>6, Apart, ControlMoves

LEMMA MakeTaskKeeps ==
    ASSUME Typed, ControlInv, MakeTask
    PROVE  Typed' /\ ControlInv'
<1>1. PICK l \in Labels : Goto(Starter, l) /\
          \/ l = "close" /\ next' = [next EXCEPT ![Starter] = "failed"] /\ UNCHANGED self
          \/ /\ l = "newAccept" /\ UNCHANGED next
             /\ \E a \in AcceptTasks : self' = [self EXCEPT ![Starter] = a]
  BY LabelsAre DEF MakeTask, CloseSocketThen
<1>2. /\ pc[Starter] = "begin" /\ pc' \in [Threads -> Labels] /\ pc'[Starter] = l
      /\ \A u \in Threads \ {Starter} : pc'[u] = pc[u]
  BY <1>1, Went, Apart DEF MakeTask
<1>3. UNCHANGED <<batch, starts>>
  BY DEF MakeTask, portVars, historyVars
<1>4. /\ next' \in [Threads -> Labels] /\ next'[Starter] \in {"failed", next[Starter]}
      /\ \A u \in Threads \ {Starter} : next'[u] = next[u]
  BY <1>1, LabelsAre, Apart DEF Typed
<1>5. /\ self' \in [Threads -> AcceptTasks \cup {NoTask}]
      /\ \A u \in Threads \ {Starter} : self'[u] = self[u]
      /\ l = "newAccept" => self'[Starter] \in AcceptTasks
  <2>0. self \in [Threads -> AcceptTasks \cup {NoTask}] /\ Starter \in Threads
    BY Apart DEF Typed
  <2>1. CASE l = "close" /\ UNCHANGED self
    BY <2>0, <2>1
  <2>2. CASE l = "newAccept" /\ \E a \in AcceptTasks : self' = [self EXCEPT ![Starter] = a]
    BY <2>0, <2>2
  <2> QED
    BY <1>1, <2>1, <2>2
<1>6. StarterInv'
  <2>1. /\ pc'[Starter] \in {"close", "newAccept"} /\ next'[Starter] \in {"idle", "newSocket", "failed"}
        /\ starts' > 0
    BY <1>1, <1>2, <1>3, <1>4 DEF ControlInv, StarterInv
  <2>2. pc'[Starter] = "newAccept" => self'[Starter] \in AcceptTasks
    BY <1>1, <1>2, <1>5
  <2> QED
    BY <2>1, <2>2 DEF StarterInv
<1>7. Typed'
  <2>1. refs' \in [AcceptTasks -> Int]
    BY DEF MakeTask, Typed
  <2> QED
    BY <1>2, <1>4, <1>5, <2>1 DEF Typed, MakeTask, portVars, sockVars, historyVars
<1> QED
  BY <1>2, <1>3, <1>4, <1>5, <1>6, <1>7, Apart, ControlMoves

LEMMA StartAcceptingKeeps ==
    ASSUME Typed, ControlInv, StartAcceptingAsync
    PROVE  Typed' /\ ControlInv'
<1>1. /\ Goto(Starter, "close") /\ "close" \in Labels /\ next' = [next EXCEPT ![Starter] = "newSocket"]
      /\ starts' = starts + 1 /\ UNCHANGED <<batch, self>>
  BY LabelsAre DEF StartAcceptingAsync, CloseSocketThen, portVars
<1>2. /\ pc' \in [Threads -> Labels] /\ pc'[Starter] = "close"
      /\ \A u \in Threads \ {Starter} : pc'[u] = pc[u]
  BY <1>1, Went, Apart
<1>3. /\ next' \in [Threads -> Labels] /\ next'[Starter] = "newSocket"
      /\ \A u \in Threads \ {Starter} : next'[u] = next[u]
  BY <1>1, LabelsAre, Apart DEF Typed
<1>4. starts' \in Nat /\ starts' > 0
  BY <1>1 DEF Typed
<1>5. StarterInv'
  BY <1>1, <1>2, <1>3, <1>4 DEF StarterInv
<1>6. Typed'
  BY <1>2, <1>3, <1>4 DEF Typed, StartAcceptingAsync, portVars, sockVars, taskState
<1> QED
  BY <1>1, <1>2, <1>3, <1>4, <1>5, <1>6, Apart, ControlMoves

LEMMA StopsKeep ==
    ASSUME Typed, ControlInv, StopAcceptor \/ StopGroup
    PROVE  Typed' /\ ControlInv'
<1>1. /\ Goto(Main, "stop") /\ "stop" \in Labels
      /\ next' = [next EXCEPT ![Main] = "idle"] \/ next' = [next EXCEPT ![Main] = "closePort"]
      /\ UNCHANGED <<batch, self, starts>>
  BY LabelsAre DEF StopAcceptor, StopAcceptingThen, StopGroup, SignalToStop, portVars, historyVars
<1>2. /\ pc' \in [Threads -> Labels] /\ pc'[Main] = "stop"
      /\ \A u \in Threads \ {Main} : pc'[u] = pc[u]
  BY <1>1, Went, Apart
<1>3. /\ next' \in [Threads -> Labels] /\ next'[Main] \in {"idle", "closePort"}
      /\ \A u \in Threads \ {Main} : next'[u] = next[u]
  BY <1>1, LabelsAre, Apart DEF Typed
<1>4. MainInv'
  BY <1>2, <1>3 DEF MainInv
<1>5. Typed'
  <2>1. running' \in BOOLEAN
    BY DEF StopAcceptor, StopGroup, SignalToStop, Typed
  <2> QED
    BY <1>2, <1>3, <2>1 DEF Typed, StopAcceptor, StopGroup, SignalToStop, portVars, sockVars, taskState,
                            historyVars
<1> QED
  BY <1>1, <1>2, <1>3, <1>4, <1>5, Apart, ControlMoves

LEMMA StopAsyncIOKeeps ==
    ASSUME Typed, ControlInv, StopAsyncIO, UNCHANGED acceptVars
    PROVE  Typed' /\ ControlInv'
<1>1. Goto(Main, "stopped") /\ "stopped" \in Labels /\ UNCHANGED <<batch, self, next, starts>>
  BY LabelsAre DEF StopAsyncIO, acceptVars, localVars, historyVars
<1>2. /\ pc' \in [Threads -> Labels] /\ pc'[Main] = "stopped"
      /\ \A u \in Threads \ {Main} : pc'[u] = pc[u]
  BY <1>1, Went, Apart
<1>3. MainInv'
  BY <1>1, <1>2 DEF ControlInv, MainInv
<1>4. Typed'
  <2>1. queue' = <<>> /\ port' = FALSE /\ UNCHANGED <<running, batch>>
    BY DEF StopAsyncIO
  <2>2. <<>> \in Seq(AcceptTasks)
    OBVIOUS
  <2> QED
    BY <1>2, <2>1, <2>2 DEF Typed, acceptVars, sockVars, taskState, localVars, historyVars
<1> QED
  BY <1>1, <1>2, <1>3, <1>4, Apart, ControlMoves

LEMMA SystemKeeps ==
    ASSUME Typed, ControlInv, (\E a \in AcceptTasks : Complete(a)) \/ (\E s \in Sockets : Disconnect(s))
    PROVE  Typed' /\ ControlInv'
<1>1. UNCHANGED <<batch, pc, self, next, starts>>
  BY DEF Complete, Disconnect, loopVars, portVars, localVars, historyVars
<1>2. ControlInv'
  BY <1>1 DEF ControlInv, MainInv, StarterInv, WorkerInv, WorkerAt
<1>3. CASE \E s \in Sockets : Disconnect(s)
  <2>1. owner' \in [Sockets -> {"nobody", "acceptor", "application"}]
    BY <1>3 DEF Disconnect, Closed, Typed
  <2>2. Typed'
    BY <1>3, <2>1 DEF Typed, Disconnect, loopVars, portVars, sockVars, taskState, localVars, historyVars
  <2> QED
    BY <1>2, <2>2
<1>4. ASSUME NEW a \in AcceptTasks, Complete(a) PROVE Typed'
  <2>1. queue' \in Seq(AcceptTasks)
    BY <1>4, Appended DEF Complete, Typed
  <2>2. accepted' \in [AcceptTasks -> BOOLEAN] /\ request' \in [AcceptTasks -> Nat]
    BY <1>4 DEF Complete, Typed
  <2> QED
    BY <1>4, <2>1, <2>2 DEF Typed, Complete, sockVars, localVars, historyVars
<1> QED
  BY <1>2, <1>3, <1>4

(***************************************************************************)
(* Where the tasks are, how often they are counted, and whose the sockets  *)
(* are.                                                                    *)
(***************************************************************************)
PreparingLabels == {"newAccept", "guard", "acceptEx"}

(* What a thread that stays in the same part of the code leaves alone.     *)
SamePart(t) ==
    /\ pc'[t] \in CarryLabels <=> pc[t] \in CarryLabels
    /\ t \in Workers => (pc'[t] \in HandlerLabels <=> pc[t] \in HandlerLabels)
    /\ pc'[t] \in PreparingLabels <=> pc[t] \in PreparingLabels
    /\ pc'[t] = "acceptEx" <=> pc[t] = "acceptEx"

LEMMA PlacesKept ==
    ASSUME NEW a, UNCHANGED <<queue, batch, self, request>>, \A t \in Threads : SamePart(t)
    PROVE  /\ Requested(a)' <=> Requested(a)
           /\ Queued(a)' <=> Queued(a)
           /\ \A w \in Workers : Waits(w, a)' <=> Waits(w, a)
           /\ \A t \in Threads : Carries(t, a)' <=> Carries(t, a)
           /\ Handling(a)' = Handling(a)
           /\ Preparing(a)' <=> Preparing(a)
           /\ HasSocket(a)' <=> HasSocket(a)
<1>1. (Requested(a)' <=> Requested(a)) /\ (Queued(a)' <=> Queued(a))
  BY DEF Requested, Queued
<1>2. \A w \in Workers : Waits(w, a)' <=> Waits(w, a)
  <2>1. \A w \in Workers : From(w)' = From(w)
    BY Apart DEF From, SamePart
  <2> QED
    BY <2>1 DEF Waits
<1>3. \A t \in Threads : Carries(t, a)' <=> Carries(t, a)
  BY DEF Carries, SamePart
<1>4. Handling(a)' = Handling(a)
  BY DEF Handling
<1>5. Preparing(a)' <=> Preparing(a)
  BY DEF Preparing, SamePart, PreparingLabels
<1>6. HasSocket(a)' <=> HasSocket(a)
  BY <1>1, <1>2 DEF HasSocket, Pending, Waiting, SamePart
<1> QED
  BY <1>1, <1>2, <1>3, <1>4, <1>5, <1>6

(* A task that is at no new place.                                         *)
LEMMA AtOneKept ==
    ASSUME NEW a, AtOne(a), Requested(a)' => Requested(a), Queued(a)' => Queued(a),
           \A w \in Workers : Waits(w, a)' => Waits(w, a),
           \A t \in Threads : Carries(t, a)' => Carries(t, a)
    PROVE  AtOne(a)'
BY DEF AtOne, Waiting, Carried

LEMMA CountKept ==
    ASSUME NEW a, Counted(a), refs'[a] = refs[a], Handling(a)' = Handling(a),
           Pending(a)' \/ Preparing(a)' <=> Pending(a) \/ Preparing(a)
    PROVE  Counted(a)'
BY DEF Counted

LEMMA SocketsKept ==
    ASSUME SocketInv, \A a \in AcceptTasks : HasSocket(a)' <=> HasSocket(a),
           \A a \in AcceptTasks : HasSocket(a) => socketOf'[a] = socketOf[a],
           \A s \in Sockets : owner'[s] = "acceptor" <=> owner[s] = "acceptor"
    PROVE  SocketInv'
<1>1. \A s \in Sockets :
         owner'[s] = "acceptor" <=> \E a \in AcceptTasks : socketOf'[a] = s /\ HasSocket(a)'
  BY DEF SocketInv
<1>2. \A a, b \in AcceptTasks :
         HasSocket(a)' /\ HasSocket(b)' /\ socketOf'[a] = socketOf'[b] /\ socketOf'[a] \in Sockets => a = b
  BY DEF SocketInv
<1> QED
  BY <1>1, <1>2 DEF SocketInv

LEMMA PortKept ==
    ASSUME PortInv, port' => port, UNCHANGED <<queue, batch, self, request, refs, socketOf>>,
           \A t \in Threads : SamePart(t),
           \A s \in Sockets : owner'[s] = "acceptor" <=> owner[s] = "acceptor"
    PROVE  PortInv'
<1> SUFFICES ASSUME port' PROVE OnceInv' /\ CountInv' /\ SocketInv'
  BY DEF PortInv
<1>1. OnceInv /\ CountInv /\ SocketInv
  BY DEF PortInv
<1>2. OnceInv'
  <2>1. Injective(queue)' /\ \A w \in Workers : Injective(batch[w])'
    BY <1>1 DEF OnceInv, Injective
  <2>2. ASSUME NEW a \in AcceptTasks PROVE AtOne(a)'
    BY <1>1, PlacesKept, AtOneKept DEF OnceInv
  <2> QED
    BY <2>1, <2>2 DEF OnceInv
<1>3. CountInv'
  <2>1. ASSUME NEW a \in AcceptTasks PROVE Counted(a)'
    <3>1. /\ Handling(a)' = Handling(a)
          /\ Pending(a)' \/ Preparing(a)' <=> Pending(a) \/ Preparing(a)
      BY PlacesKept DEF Pending, Waiting
    <3> QED
      BY <1>1, <3>1, CountKept DEF CountInv
  <2> QED
    BY <2>1 DEF CountInv
<1>4. SocketInv'
  BY <1>1, PlacesKept, SocketsKept
<1> QED
  BY <1>2, <1>3, <1>4

LEMMA PortQuiet ==
    ASSUME PortInv, port' => port, UNCHANGED <<queue, batch, self, request, refs, socketOf, owner>>,
           NEW t \in Threads, SamePart(t), \A u \in Threads \ {t} : pc'[u] = pc[u]
    PROVE  PortInv' /\ (Chained => Chained')
<1>1. \A u \in Threads : SamePart(u)
  BY DEF SamePart
<1>2. PortInv'
  BY <1>1, PortKept
<1>3. ASSUME NEW a \in AcceptTasks, Pending(a) \/ Carried(a) PROVE Pending(a)' \/ Carried(a)'
  BY <1>1, <1>3, PlacesKept DEF Pending, Waiting, Carried
<1> QED
  BY <1>2, <1>3 DEF Chained

LEMMA ClosePort ==
    ASSUME Typed, ControlInv, PortInv, NEW t \in Threads,
           CloseSocket(t) \/ CloseHandle(t) \/ StopAcceptingAsync(t)
    PROVE  PortInv' /\ (Chained => Chained')
<1>1. /\ UNCHANGED <<port, queue, batch, self, request, refs, socketOf, owner>>
      /\ pc[t] \in {"close", "closesocket", "stop"}
  BY DEF CloseSocket, CloseHandle, StopAcceptingAsync, portVars, taskState, localVars
<1>2. PICK l \in {"close", "closesocket", next[t]} : Goto(t, l)
  BY DEF CloseSocket, CloseHandle, StopAcceptingAsync
<1>3. l \in Labels
  BY LabelsAre DEF Typed
<1>4. pc'[t] = l /\ \A u \in Threads \ {t} : pc'[u] = pc[u]
  BY <1>2, <1>3, Went
<1>5. t \in Workers => next[t] = "release"
  BY <1>1 DEF ControlInv, WorkerInv, WorkerAt
<1>6. next[t] \notin CarryLabels
  BY <1>5, Apart DEF ControlInv, MainInv, StarterInv, CarryLabels
<1>7. SamePart(t)
  <2>1. t \in Workers => (pc'[t] \in HandlerLabels <=> pc[t] \in HandlerLabels)
    BY <1>1, <1>4, <1>5 DEF HandlerLabels
  <2>2. pc[t] \notin CarryLabels /\ pc'[t] \notin CarryLabels
    BY <1>1, <1>4, <1>6 DEF CarryLabels
  <2> QED
    BY <2>1, <2>2 DEF SamePart, CarryLabels, PreparingLabels
<1> QED
  BY <1>1, <1>4, <1>7, PortQuiet

LEMMA QuietLoopPort ==
    ASSUME Typed, ControlInv, PortInv, NEW w \in Workers, UNCHANGED acceptVars,
           Loop(w) \/ Timeout(w) \/ SystemFailure(w) \/ HandleGeneralTasksWithThrottle(w) \/ Tick(w)
    PROVE  PortInv' /\ (Chained => Chained')
<1>1. /\ UNCHANGED portVars /\ pc[w] \in LoopLabels
      /\ UNCHANGED pc \/ \E l \in LoopLabels : Goto(w, l)
  BY QuietLoopKeeps
<1>2. UNCHANGED <<port, queue, batch, self, request, refs, socketOf, owner>>
  BY <1>1 DEF portVars, acceptVars, taskState, localVars
<1>3. pc'[w] \in LoopLabels /\ \A u \in Threads \ {w} : pc'[u] = pc[u]
  BY <1>1, Went, Apart DEF Labels
<1>4. SamePart(w)
  BY <1>1, <1>3 DEF SamePart, LoopLabels, CarryLabels, HandlerLabels, PreparingLabels
<1> QED
  BY <1>2, <1>3, <1>4, Apart, PortQuiet

LEMMA StartPort ==
    ASSUME Typed, ControlInv, PortInv, StartAcceptingAsync \/ NewSocket \/ BindAndListen \/ StartFailed
    PROVE  PortInv' /\ (Chained => Chained')
<1>1. /\ UNCHANGED <<port, queue, batch, self, request, refs, socketOf, owner>>
      /\ pc[Starter] \in {"idle", "newSocket", "listening", "failed"}
  BY DEF StartAcceptingAsync, NewSocket, BindAndListen, StartFailed, portVars, taskState, localVars
<1>2. PICK l \in {"close", "idle", "listening", "begin"} : Goto(Starter, l)
  BY DEF StartAcceptingAsync, NewSocket, BindAndListen, StartFailed, CloseSocketThen
<1>3. pc'[Starter] = l /\ \A u \in Threads \ {Starter} : pc'[u] = pc[u]
  BY <1>2, LabelsAre, Went, Apart
<1>4. SamePart(Starter)
  BY <1>1, <1>3, Apart DEF SamePart, CarryLabels, PreparingLabels
<1> QED
  BY <1>1, <1>3, <1>4, Apart, PortQuiet

LEMMA StopPort ==
    ASSUME Typed, ControlInv, PortInv, StopAcceptor \/ StopGroup
    PROVE  PortInv' /\ (Chained => Chained')
<1>1. /\ UNCHANGED <<port, queue, batch, self, request, refs, socketOf, owner>>
      /\ pc[Main] = "idle" /\ Goto(Main, "stop")
  BY DEF StopAcceptor, StopGroup, StopAcceptingThen, SignalToStop, portVars, taskState
<1>2. pc'[Main] = "stop" /\ \A u \in Threads \ {Main} : pc'[u] = pc[u]
  BY <1>1, LabelsAre, Went, Apart
<1>3. SamePart(Main)
  BY <1>1, <1>2, Apart DEF SamePart, CarryLabels, PreparingLabels
<1> QED
  BY <1>1, <1>2, <1>3, Apart, PortQuiet

LEMMA DisconnectPort ==
    ASSUME Typed, PortInv, NEW s \in Sockets, Disconnect(s)
    PROVE  PortInv'
<1>1. UNCHANGED <<port, pc, queue, batch, self, request, refs, socketOf>>
  BY DEF Disconnect, loopVars, portVars, taskState, localVars
<1>2. \A x \in Sockets : owner'[x] = "acceptor" <=> owner[x] = "acceptor"
  BY DEF Disconnect, Closed
<1>3. \A t \in Threads : SamePart(t)
  BY <1>1 DEF SamePart
<1> QED
  BY <1>1, <1>2, <1>3, PortKept

LEMMA InjectiveKept ==
    ASSUME OnceInv, UNCHANGED <<queue, batch>>
    PROVE  Injective(queue)' /\ \A w \in Workers : Injective(batch[w])'
BY DEF OnceInv, Injective

(* A task that nobody counts is nowhere.                                   *)
LEMMA FreeIsNowhere ==
    ASSUME Typed, ControlInv, NEW a \in AcceptTasks, Counted(a), refs[a] = 0
    PROVE  /\ Handling(a) = {} /\ Cardinality(Handling(a)) = 0 /\ ~Pending(a) /\ ~Preparing(a)
           /\ \A t \in Threads : ~Carries(t, a)
<1>1. IsFiniteSet(Handling(a)) /\ Cardinality(Handling(a)) \in Nat
  BY FS_CardinalityType DEF Counted
<1>2. Cardinality(Handling(a)) = 0 /\ ~Pending(a) /\ ~Preparing(a)
  BY <1>1 DEF Counted
<1>3. Handling(a) = {}
  BY <1>1, <1>2, FS_EmptySet
<1>4. ASSUME NEW t \in Threads, Carries(t, a) PROVE FALSE
  <2>1. t \notin Workers
    BY <1>3, <1>4 DEF Handling, Carries
  <2>2. pc[t] \notin {"newAccept", "guard", "acceptEx"}
    BY <1>2, <1>4 DEF Preparing, Carries
  <2>3. pc[t] = "accepted"
    BY <1>4, <2>2 DEF Carries, CarryLabels
  <2> QED
    BY <2>1, <2>3, Apart DEF ControlInv, MainInv, StarterInv
<1> QED
  BY <1>2, <1>3, <1>4

LEMMA MakeTaskPort ==
    ASSUME Typed, ControlInv, PortInv, MakeTask
    PROVE  PortInv'
<1>1. /\ UNCHANGED <<port, queue, batch, request, socketOf, owner>> /\ pc[Starter] = "begin"
  BY DEF MakeTask, portVars
<1>2. CASE CloseSocketThen(Starter, "failed") /\ UNCHANGED <<refs, self>>
  <2>1. pc'[Starter] = "close" /\ \A u \in Threads \ {Starter} : pc'[u] = pc[u]
    BY <1>2, LabelsAre, Went, Apart DEF CloseSocketThen
  <2>2. SamePart(Starter)
    BY <1>1, <2>1, Apart DEF SamePart, CarryLabels, PreparingLabels
  <2> QED
    BY <1>1, <1>2, <2>1, <2>2, Apart, PortQuiet
<1>3. ASSUME NEW a \in AcceptTasks, refs[a] = 0, refs' = [refs EXCEPT ![a] = 1],
             self' = [self EXCEPT ![Starter] = a], Goto(Starter, "newAccept")
      PROVE  PortInv'
  <2> SUFFICES ASSUME port' PROVE OnceInv' /\ CountInv' /\ SocketInv'
    BY DEF PortInv
  <2>1. OnceInv /\ CountInv /\ SocketInv
    BY <1>1 DEF PortInv
  <2>2. /\ Handling(a) = {} /\ Cardinality(Handling(a)) = 0 /\ ~Pending(a) /\ ~Preparing(a)
        /\ \A t \in Threads : ~Carries(t, a)
    BY <1>3, <2>1, FreeIsNowhere DEF CountInv
  <2>3. pc'[Starter] = "newAccept" /\ \A u \in Threads \ {Starter} : pc'[u] = pc[u]
    BY <1>3, LabelsAre, Went, Apart
  <2>4. self'[Starter] = a /\ \A u \in Threads \ {Starter} : self'[u] = self[u]
    BY <1>3, Apart DEF Typed
  <2>5. refs'[a] = 1 /\ \A b \in AcceptTasks \ {a} : refs'[b] = refs[b]
    BY <1>3 DEF Typed
  <2>6. ASSUME NEW b
        PROVE  /\ (Requested(b)' <=> Requested(b)) /\ (Queued(b)' <=> Queued(b))
               /\ \A w \in Workers : Waits(w, b)' <=> Waits(w, b)
               /\ Handling(b)' = Handling(b)
               /\ (Waiting(b)' <=> Waiting(b)) /\ (Pending(b)' <=> Pending(b))
               /\ HasSocket(b)' <=> HasSocket(b)
    <3>1. (Requested(b)' <=> Requested(b)) /\ (Queued(b)' <=> Queued(b))
      BY <1>1 DEF Requested, Queued
    <3>2. \A w \in Workers : Waits(w, b)' <=> Waits(w, b)
      <4>1. \A w \in Workers : From(w)' = From(w)
        BY <2>3, Apart DEF From
      <4> QED
        BY <1>1, <4>1 DEF Waits
    <3>3. Handling(b)' = Handling(b)
      BY <2>4, Apart DEF Handling
    <3>4. (Waiting(b)' <=> Waiting(b)) /\ (Pending(b)' <=> Pending(b))
      BY <3>1, <3>2 DEF Waiting, Pending
    <3>5. HasSocket(b)' <=> HasSocket(b)
      BY <1>1, <2>3, <2>4, <3>4 DEF HasSocket
    <3> QED
      BY <3>1, <3>2, <3>3, <3>4, <3>5
  <2>7. \A t \in Threads, b \in AcceptTasks : Carries(t, b)' <=> Carries(t, b) \/ (t = Starter /\ b = a)
    BY <1>1, <2>3, <2>4, Apart DEF Carries, CarryLabels
  <2>8. \A b \in AcceptTasks : Preparing(b)' <=> Preparing(b) \/ b = a
    BY <1>1, <2>3, <2>4, Apart DEF Preparing
  <2>9. OnceInv'
    <3>1. AtOne(a)'
      BY <2>2, <2>6, <2>7 DEF AtOne, Pending, Waiting
    <3>2. ASSUME NEW b \in AcceptTasks \ {a} PROVE AtOne(b)'
      BY <2>1, <2>6, <2>7, AtOneKept DEF OnceInv
    <3> QED
      BY <1>1, <2>1, <3>1, <3>2, InjectiveKept DEF OnceInv
  <2>10. CountInv'
    <3>1. Counted(a)'
      BY <2>1, <2>2, <2>5, <2>6, <2>8 DEF CountInv, Counted
    <3>2. ASSUME NEW b \in AcceptTasks \ {a} PROVE Counted(b)'
      BY <2>1, <2>5, <2>6, <2>8, CountKept DEF CountInv
    <3> QED
      BY <3>1, <3>2 DEF CountInv
  <2>11. SocketInv'
    BY <1>1, <2>1, <2>6, SocketsKept
  <2> QED
    BY <2>9, <2>10, <2>11
<1> QED
  BY <1>2, <1>3 DEF MakeTask

(* The steps of a thread that only moves, and what changes for the task    *)
(* that it works with.                                                     *)
LEMMA Stepped ==
    ASSUME NEW a, NEW t \in Threads, UNCHANGED <<queue, batch, self>>,
           \A u \in Threads \ {t} : pc'[u] = pc[u],
           t \in Workers => (pc'[t] \in HandlerLabels <=> pc[t] \in HandlerLabels)
    PROVE  /\ Queued(a)' <=> Queued(a)
           /\ \A w \in Workers : Waits(w, a)' <=> Waits(w, a)
           /\ Waiting(a)' <=> Waiting(a)
           /\ Handling(a)' = Handling(a)
           /\ \A u \in Threads \ {t} : Carries(u, a)' <=> Carries(u, a)
           /\ a # self[t] => /\ ~Carries(t, a) /\ ~Carries(t, a)'
                             /\ Preparing(a)' <=> Preparing(a)
<1>1. Queued(a)' <=> Queued(a)
  BY DEF Queued
<1>2. \A w \in Workers : Waits(w, a)' <=> Waits(w, a)
  <2>1. \A w \in Workers : From(w)' = From(w)
    BY Apart DEF From
  <2> QED
    BY <2>1 DEF Waits
<1>3. Handling(a)' = Handling(a)
  BY DEF Handling
<1>4. \A u \in Threads \ {t} : Carries(u, a)' <=> Carries(u, a)
  BY DEF Carries
<1>5. ASSUME a # self[t]
      PROVE  ~Carries(t, a) /\ ~Carries(t, a)' /\ (Preparing(a)' <=> Preparing(a))
  BY <1>5 DEF Carries, Preparing
<1> QED
  BY <1>1, <1>2, <1>3, <1>4, <1>5 DEF Waiting

LEMMA CarriesAlone ==
    ASSUME OnceInv, NEW t \in Threads, self[t] \in AcceptTasks, pc[t] \in CarryLabels
    PROVE  /\ ~Requested(self[t]) /\ ~Queued(self[t]) /\ ~Waiting(self[t]) /\ ~Pending(self[t])
           /\ \A u \in Threads \ {t} : ~Carries(u, self[t])
           /\ Preparing(self[t]) <=> pc[t] \in PreparingLabels
           /\ HasSocket(self[t]) <=> pc[t] = "acceptEx"
<1>1. Carries(t, self[t]) /\ Carried(self[t])
  BY DEF Carries, Carried
<1>2. ~Requested(self[t]) /\ ~Queued(self[t]) /\ ~Waiting(self[t]) /\ ~Pending(self[t])
  BY <1>1 DEF OnceInv, AtOne, Pending
<1>3. \A u \in Threads \ {t} : ~Carries(u, self[t])
  BY <1>1 DEF OnceInv, AtOne
<1>4. \A u \in Threads \ {t} : self[u] = self[t] => pc[u] \notin CarryLabels
  BY <1>3 DEF Carries
<1>5. Preparing(self[t]) <=> pc[t] \in PreparingLabels
  BY <1>4 DEF Preparing, PreparingLabels, CarryLabels
<1>6. HasSocket(self[t]) <=> pc[t] = "acceptEx"
  BY <1>2, <1>4 DEF HasSocket, CarryLabels
<1> QED
  BY <1>2, <1>3, <1>5, <1>6

LEMMA ReuseTaskPort ==
    ASSUME Typed, ControlInv, PortInv, NEW w \in Workers, ReuseTask(w)
    PROVE  PortInv'
<1> SUFFICES ASSUME port' PROVE OnceInv' /\ CountInv' /\ SocketInv'
  BY DEF PortInv
<1>0. PICK a \in AcceptTasks : a = self[w]
  BY ReuseTaskKeeps
<1>1. /\ UNCHANGED <<port, queue, batch, self, request, socketOf, owner>> /\ pc[w] = "accepted"
      /\ \/ pc' = [pc EXCEPT ![w] = "guard"] /\ refs' = [refs EXCEPT ![a] = @ + 1]
         \/ pc' = [pc EXCEPT ![w] = "release"] /\ refs' = refs
  BY <1>0 DEF ReuseTask, Goto, portVars, localVars
<1>2. OnceInv /\ CountInv /\ SocketInv
  BY <1>1 DEF PortInv
<1>4. \A u \in Threads \ {w} : pc'[u] = pc[u]
  BY <1>1 DEF Typed
<1>5. \/ pc'[w] = "guard" /\ refs'[a] = refs[a] + 1
      \/ pc'[w] = "release" /\ refs'[a] = refs[a]
  BY <1>1, Apart DEF Typed
<1>6. \A b \in AcceptTasks \ {a} : refs'[b] = refs[b]
  BY <1>1 DEF Typed
<1>7. /\ ~Requested(a) /\ ~Queued(a) /\ ~Waiting(a) /\ ~Pending(a) /\ ~Preparing(a) /\ ~HasSocket(a)
      /\ \A u \in Threads \ {w} : ~Carries(u, a)
  BY <1>0, <1>1, <1>2, CarriesAlone, Apart DEF CarryLabels, PreparingLabels
<1>8. ASSUME NEW b
      PROVE  /\ (Requested(b)' <=> Requested(b)) /\ (Queued(b)' <=> Queued(b))
             /\ \A u \in Workers : Waits(u, b)' <=> Waits(u, b)
             /\ (Waiting(b)' <=> Waiting(b)) /\ (Pending(b)' <=> Pending(b))
             /\ Handling(b)' = Handling(b)
             /\ \A u \in Threads : Carries(u, b)' => Carries(u, b)
             /\ b # a => (Preparing(b)' <=> Preparing(b))
             /\ HasSocket(b)' <=> HasSocket(b)
  <2>1. /\ (Queued(b)' <=> Queued(b)) /\ (\A u \in Workers : Waits(u, b)' <=> Waits(u, b))
        /\ (Waiting(b)' <=> Waiting(b)) /\ Handling(b)' = Handling(b)
        /\ (\A u \in Threads \ {w} : Carries(u, b)' <=> Carries(u, b))
        /\ b # a => ~Carries(w, b)' /\ (Preparing(b)' <=> Preparing(b))
    BY <1>0, <1>1, <1>4, <1>5, Stepped, Apart DEF HandlerLabels
  <2>2. (Requested(b)' <=> Requested(b)) /\ (Pending(b)' <=> Pending(b))
    BY <1>1, <2>1 DEF Requested, Pending
  <2>3. Carries(w, a)
    BY <1>0, <1>1, Apart DEF Carries, CarryLabels
  <2>4. HasSocket(b)' <=> HasSocket(b)
    BY <1>1, <1>4, <1>5, <2>2, Apart DEF HasSocket
  <2> QED
    BY <2>1, <2>2, <2>3, <2>4
<1>9. OnceInv'
  <2>1. ASSUME NEW b \in AcceptTasks PROVE AtOne(b)'
    BY <1>2, <1>8, AtOneKept DEF OnceInv
  <2> QED
    BY <1>1, <1>2, <2>1, InjectiveKept DEF OnceInv
<1>10. CountInv'
  <2>1. Counted(a)'
    <3>1. pc'[w] = "guard" <=> Preparing(a)'
      <4>1. \A u \in Threads \ {w} : self[u] = a => pc'[u] \notin {"newAccept", "guard", "acceptEx"}
        BY <1>4, <1>7 DEF Carries, CarryLabels
      <4> QED
        BY <1>0, <1>1, <1>5, <4>1, Apart DEF Preparing
    <3>2. IsFiniteSet(Handling(a)) /\ refs[a] = Cardinality(Handling(a)) + 0
      BY <1>2, <1>7 DEF CountInv, Counted
    <3>3. Cardinality(Handling(a)) \in Nat
      BY <3>2, FS_CardinalityType
    <3> QED
      BY <1>5, <1>7, <1>8, <3>1, <3>2, <3>3 DEF Counted
  <2>2. ASSUME NEW b \in AcceptTasks \ {a} PROVE Counted(b)'
    BY <1>2, <1>6, <1>8, CountKept DEF CountInv
  <2> QED
    BY <2>1, <2>2 DEF CountInv
<1>11. SocketInv'
  BY <1>1, <1>2, <1>8, SocketsKept
<1> QED
  BY <1>9, <1>10, <1>11

LEMMA NewAcceptSocketPort ==
    ASSUME Typed, ControlInv, PortInv, NEW t \in Threads, NewAcceptSocket(t)
    PROVE  PortInv'
<1> SUFFICES ASSUME port' PROVE OnceInv' /\ CountInv' /\ SocketInv'
  BY DEF PortInv
<1>3. PICK a \in AcceptTasks : a = self[t]
  BY NewAcceptSocketKeeps
<1>1. /\ UNCHANGED <<port, queue, batch, self, request, refs>> /\ pc[t] \in {"guard", "newAccept"}
      /\ Goto(t, "acceptEx")
  BY DEF NewAcceptSocket, portVars, localVars
<1>2. OnceInv /\ CountInv /\ SocketInv
  BY <1>1 DEF PortInv
<1>4. pc'[t] = "acceptEx" /\ \A u \in Threads \ {t} : pc'[u] = pc[u]
  BY <1>1, LabelsAre, Went
<1>5. t \in Workers => pc[t] = "guard"
  BY <1>1 DEF ControlInv, WorkerInv, WorkerAt, LoopLabels, HandlerLabels
<1>6. /\ ~Requested(a) /\ ~Queued(a) /\ ~Waiting(a) /\ ~Pending(a) /\ Preparing(a) /\ ~HasSocket(a)
      /\ \A u \in Threads \ {t} : ~Carries(u, a)
  BY <1>1, <1>2, <1>3, CarriesAlone DEF CarryLabels, PreparingLabels
<1>7. \/ \E s \in Sockets : /\ owner[s] = "nobody"
                            /\ owner' = [owner EXCEPT ![s] = "acceptor"]
                            /\ socketOf' = [socketOf EXCEPT ![a] = s]
      \/ UNCHANGED owner /\ socketOf' = [socketOf EXCEPT ![a] = NoSocket]
  BY <1>3 DEF NewAcceptSocket
<1>8. ASSUME NEW b
      PROVE  /\ (Requested(b)' <=> Requested(b)) /\ (Queued(b)' <=> Queued(b))
             /\ \A u \in Workers : Waits(u, b)' <=> Waits(u, b)
             /\ (Pending(b)' <=> Pending(b))
             /\ Handling(b)' = Handling(b)
             /\ \A u \in Threads : Carries(u, b)' => Carries(u, b)
             /\ Preparing(b)' <=> Preparing(b)
             /\ HasSocket(b)' <=> HasSocket(b) \/ b = a
  <2>1. /\ (Queued(b)' <=> Queued(b)) /\ (\A u \in Workers : Waits(u, b)' <=> Waits(u, b))
        /\ (Waiting(b)' <=> Waiting(b)) /\ Handling(b)' = Handling(b)
        /\ (\A u \in Threads \ {t} : Carries(u, b)' <=> Carries(u, b))
    BY <1>1, <1>4, <1>5, Stepped DEF HandlerLabels
  <2>2. (Requested(b)' <=> Requested(b)) /\ (Pending(b)' <=> Pending(b))
    BY <1>1, <2>1 DEF Requested, Pending
  <2>3. Carries(t, b)' => Carries(t, b)
    BY <1>1 DEF Carries, CarryLabels
  <2>4. HasSocket(b)' <=> HasSocket(b) \/ b = a
    BY <1>1, <1>3, <1>4, <2>2 DEF HasSocket
  <2>5. Preparing(b)' <=> Preparing(b)
    BY <1>1, <1>4 DEF Preparing
  <2> QED
    BY <2>1, <2>2, <2>3, <2>4, <2>5
<1>9. OnceInv'
  <2>1. ASSUME NEW b \in AcceptTasks PROVE AtOne(b)'
    BY <1>2, <1>8, AtOneKept DEF OnceInv
  <2> QED
    BY <1>1, <1>2, <2>1, InjectiveKept DEF OnceInv
<1>10. CountInv'
  <2>1. ASSUME NEW b \in AcceptTasks PROVE Counted(b)'
    BY <1>1, <1>2, <1>8, CountKept DEF CountInv
  <2> QED
    BY <2>1 DEF CountInv
<1>11. SocketInv'
  <2>1. \A b \in AcceptTasks \ {a} : socketOf'[b] = socketOf[b]
    BY <1>7 DEF Typed
  <2>2. CASE UNCHANGED owner /\ socketOf' = [socketOf EXCEPT ![a] = NoSocket]
    <3>1. socketOf'[a] = NoSocket /\ NoSocket \notin Sockets
      BY <1>3, <2>2, TCPAcceptorAssumption DEF Typed
    <3>2. \A s \in Sockets : owner'[s] = "acceptor" <=> \E b \in AcceptTasks : socketOf'[b] = s /\ HasSocket(b)'
      BY <1>2, <1>3, <1>6, <1>8, <2>1, <2>2, <3>1 DEF SocketInv
    <3>3. \A b, c \in AcceptTasks : HasSocket(b)' /\ HasSocket(c)' /\ socketOf'[b] = socketOf'[c]
                                       /\ socketOf'[b] \in Sockets => b = c
      BY <1>2, <1>8, <2>1, <3>1 DEF SocketInv
    <3> QED
      BY <3>2, <3>3 DEF SocketInv
  <2>3. ASSUME NEW s \in Sockets, owner[s] = "nobody", owner' = [owner EXCEPT ![s] = "acceptor"],
               socketOf' = [socketOf EXCEPT ![a] = s]
        PROVE  SocketInv'
    <3>1. socketOf'[a] = s /\ owner'[s] = "acceptor" /\ \A x \in Sockets \ {s} : owner'[x] = owner[x]
      BY <1>3, <2>3 DEF Typed
    <3>2. \A b \in AcceptTasks : HasSocket(b) => socketOf[b] # s
      BY <1>2, <2>3 DEF SocketInv
    <3>3. ASSUME NEW x \in Sockets
          PROVE  owner'[x] = "acceptor" <=> \E b \in AcceptTasks : socketOf'[b] = x /\ HasSocket(b)'
      <4>1. CASE x = s
        BY <1>3, <1>8, <3>1, <4>1
      <4>2. CASE x # s
        BY <1>2, <1>3, <1>6, <1>8, <2>1, <3>1, <4>2 DEF SocketInv
      <4> QED
        BY <4>1, <4>2
    <3>4. \A b, c \in AcceptTasks : HasSocket(b)' /\ HasSocket(c)' /\ socketOf'[b] = socketOf'[c]
                                       /\ socketOf'[b] \in Sockets => b = c
      BY <1>2, <1>8, <2>1, <3>1, <3>2 DEF SocketInv
    <3> QED
      BY <3>3, <3>4 DEF SocketInv
  <2> QED
    BY <1>7, <2>2, <2>3
<1> QED
  BY <1>9, <1>10, <1>11

LEMMA AcceptExSucceedsPort ==
    ASSUME Typed, ControlInv, PortInv, NEW t \in Threads, AcceptExSucceeds(t)
    PROVE  PortInv'
<1> SUFFICES ASSUME port' PROVE OnceInv' /\ CountInv' /\ SocketInv'
  BY DEF PortInv
<1>1. /\ UNCHANGED <<port, queue, batch, self, refs, socketOf, owner>> /\ pc[t] = "acceptEx"
      /\ Goto(t, Back(t))
  BY DEF AcceptExSucceeds, portVars, localVars
<1>2. OnceInv /\ CountInv /\ SocketInv
  BY <1>1 DEF PortInv
<1>3. PICK a \in AcceptTasks : a = self[t]
  BY <1>1, AtAcceptEx
<1>4. pc'[t] \in {"release", "idle"} /\ (t \in Workers => pc'[t] = "release")
      /\ \A u \in Threads \ {t} : pc'[u] = pc[u]
  BY <1>1, LabelsAre, Went DEF Back
<1>5. request'[a] # 0 /\ \A b \in AcceptTasks \ {a} : request'[b] = request[b]
  BY <1>3 DEF AcceptExSucceeds, Typed
<1>6. /\ ~Requested(a) /\ ~Queued(a) /\ ~Waiting(a) /\ ~Pending(a) /\ Preparing(a) /\ HasSocket(a)
      /\ \A u \in Threads \ {t} : ~Carries(u, a)
  BY <1>1, <1>2, <1>3, CarriesAlone DEF CarryLabels, PreparingLabels
<1>7. ASSUME NEW b \in AcceptTasks
      PROVE  /\ (Requested(b)' <=> Requested(b) \/ b = a) /\ (Queued(b)' <=> Queued(b))
             /\ \A u \in Workers : Waits(u, b)' <=> Waits(u, b)
             /\ (Waiting(b)' <=> Waiting(b)) /\ (Pending(b)' <=> Pending(b) \/ b = a)
             /\ Handling(b)' = Handling(b)
             /\ \A u \in Threads : Carries(u, b)' <=> Carries(u, b) /\ b # a
             /\ b # a => (Preparing(b)' <=> Preparing(b))
             /\ HasSocket(b)' <=> HasSocket(b)
  <2>1. /\ (Queued(b)' <=> Queued(b)) /\ (\A u \in Workers : Waits(u, b)' <=> Waits(u, b))
        /\ (Waiting(b)' <=> Waiting(b)) /\ Handling(b)' = Handling(b)
        /\ (\A u \in Threads \ {t} : Carries(u, b)' <=> Carries(u, b))
        /\ b # a => ~Carries(t, b) /\ ~Carries(t, b)' /\ (Preparing(b)' <=> Preparing(b))
    BY <1>1, <1>3, <1>4, Stepped DEF HandlerLabels
  <2>2. Requested(b)' <=> Requested(b) \/ b = a
    BY <1>5 DEF Requested
  <2>3. ~Carries(t, b)'
    BY <1>4 DEF Carries, CarryLabels
  <2>4. Pending(b)' <=> Pending(b) \/ b = a
    BY <2>1, <2>2 DEF Pending
  <2>5. b # a => (HasSocket(b)' <=> HasSocket(b))
    BY <1>1, <1>3, <1>4, <2>4 DEF HasSocket
  <2>6. b = a => HasSocket(b)'
    BY <2>4 DEF HasSocket
  <2> QED
    BY <1>6, <2>1, <2>2, <2>3, <2>4, <2>5, <2>6
<1>8. OnceInv'
  <2>1. AtOne(a)'
    BY <1>6, <1>7 DEF AtOne, Waiting, Carried
  <2>2. ASSUME NEW b \in AcceptTasks \ {a} PROVE AtOne(b)'
    BY <1>2, <1>7, AtOneKept DEF OnceInv
  <2> QED
    BY <1>1, <1>2, <2>1, <2>2, InjectiveKept DEF OnceInv
<1>9. CountInv'
  <2>1. ASSUME NEW b \in AcceptTasks PROVE Counted(b)'
    <3>1. Pending(b)' \/ Preparing(b)' <=> Pending(b) \/ Preparing(b)
      BY <1>6, <1>7
    <3> QED
      BY <1>1, <1>2, <1>7, <3>1, CountKept DEF CountInv
  <2> QED
    BY <2>1 DEF CountInv
<1>10. SocketInv'
  BY <1>1, <1>2, <1>7, SocketsKept
<1> QED
  BY <1>8, <1>9, <1>10

(* The socket of a task that had one is not the acceptor's any more.       *)
LEMMA SocketsFreed ==
    ASSUME Typed, SocketInv, NEW a \in AcceptTasks, HasSocket(a), UNCHANGED socketOf,
           \A b \in AcceptTasks : HasSocket(b)' <=> HasSocket(b) /\ b # a,
           \A s \in Sockets : s # socketOf[a] => owner'[s] = owner[s],
           \A s \in Sockets : s = socketOf[a] => owner'[s] # "acceptor"
    PROVE  SocketInv'
<1>1. ASSUME NEW s \in Sockets
      PROVE  owner'[s] = "acceptor" <=> \E b \in AcceptTasks : socketOf'[b] = s /\ HasSocket(b)'
  <2>1. CASE s = socketOf[a]
    BY <2>1 DEF SocketInv
  <2>2. CASE s # socketOf[a]
    BY <2>2 DEF SocketInv
  <2> QED
    BY <2>1, <2>2
<1>2. \A b, c \in AcceptTasks : HasSocket(b)' /\ HasSocket(c)' /\ socketOf'[b] = socketOf'[c]
                                   /\ socketOf'[b] \in Sockets => b = c
  BY DEF SocketInv
<1> QED
  BY <1>1, <1>2 DEF SocketInv

LEMMA AcceptExFailsPort ==
    ASSUME Typed, ControlInv, PortInv, NEW t \in Threads, AcceptExFails(t)
    PROVE  PortInv'
<1> SUFFICES ASSUME port' PROVE OnceInv' /\ CountInv' /\ SocketInv'
  BY DEF PortInv
<1>1. /\ UNCHANGED <<port, queue, batch, self, request, socketOf>> /\ pc[t] = "acceptEx"
  BY DEF AcceptExFails, portVars
<1>2. OnceInv /\ CountInv /\ SocketInv
  BY <1>1 DEF PortInv
<1>3. PICK a \in AcceptTasks : a = self[t]
  BY <1>1, AtAcceptEx
<1>4. pc'[t] \in {"release", "close"} /\ \A u \in Threads \ {t} : pc'[u] = pc[u]
  <2>1. Goto(t, "release") \/ Goto(t, "close")
    BY DEF AcceptExFails, CloseSocketThen
  <2> QED
    BY <2>1, LabelsAre, Went
<1>5. /\ refs'[a] = refs[a] - 1 /\ \A b \in AcceptTasks \ {a} : refs'[b] = refs[b]
      /\ \A s \in Sockets : owner'[s] = IF s = socketOf[a] THEN "nobody" ELSE owner[s]
  BY <1>3 DEF AcceptExFails, Closed, Typed
<1>6. /\ ~Requested(a) /\ ~Queued(a) /\ ~Waiting(a) /\ ~Pending(a) /\ Preparing(a) /\ HasSocket(a)
      /\ \A u \in Threads \ {t} : ~Carries(u, a)
  BY <1>1, <1>2, <1>3, CarriesAlone DEF CarryLabels, PreparingLabels
<1>7. ASSUME NEW b \in AcceptTasks
      PROVE  /\ (Requested(b)' <=> Requested(b)) /\ (Queued(b)' <=> Queued(b))
             /\ \A u \in Workers : Waits(u, b)' <=> Waits(u, b)
             /\ (Waiting(b)' <=> Waiting(b)) /\ (Pending(b)' <=> Pending(b))
             /\ Handling(b)' = Handling(b)
             /\ \A u \in Threads : Carries(u, b)' => Carries(u, b)
             /\ Preparing(b)' <=> Preparing(b) /\ b # a
             /\ HasSocket(b)' <=> HasSocket(b) /\ b # a
  <2>1. /\ (Queued(b)' <=> Queued(b)) /\ (\A u \in Workers : Waits(u, b)' <=> Waits(u, b))
        /\ (Waiting(b)' <=> Waiting(b)) /\ Handling(b)' = Handling(b)
        /\ (\A u \in Threads \ {t} : Carries(u, b)' <=> Carries(u, b))
        /\ b # a => (Preparing(b)' <=> Preparing(b))
    BY <1>1, <1>3, <1>4, Stepped DEF HandlerLabels
  <2>2. Requested(b)' <=> Requested(b)
    BY <1>1 DEF Requested
  <2>3. ~Carries(t, b)'
    BY <1>4 DEF Carries, CarryLabels
  <2>4. Pending(b)' <=> Pending(b)
    BY <2>1, <2>2 DEF Pending
  <2>5. b # a => (HasSocket(b)' <=> HasSocket(b))
    BY <1>1, <1>3, <1>4, <2>4 DEF HasSocket
  <2>6. \A u \in Threads : self'[u] = a => pc'[u] \notin PreparingLabels
    <3>1. \A u \in Threads \ {t} : self[u] = a => pc[u] \notin CarryLabels
      BY <1>6 DEF Carries
    <3> QED
      BY <1>1, <1>4, <3>1 DEF CarryLabels, PreparingLabels
  <2>7. b = a => ~HasSocket(b)' /\ ~Preparing(b)'
    BY <1>6, <2>4, <2>6 DEF HasSocket, Preparing, PreparingLabels
  <2> QED
    BY <1>6, <2>1, <2>2, <2>3, <2>4, <2>5, <2>7
<1>8. OnceInv'
  <2>1. ASSUME NEW b \in AcceptTasks PROVE AtOne(b)'
    BY <1>2, <1>7, AtOneKept DEF OnceInv
  <2> QED
    BY <1>1, <1>2, <2>1, InjectiveKept DEF OnceInv
<1>9. CountInv'
  <2>1. Counted(a)'
    <3>1. IsFiniteSet(Handling(a)) /\ refs[a] = Cardinality(Handling(a)) + 1
      BY <1>2, <1>6 DEF CountInv, Counted
    <3>2. Cardinality(Handling(a)) \in Nat
      BY <3>1, FS_CardinalityType
    <3>3. refs'[a] = Cardinality(Handling(a)) + 0
      BY <1>5, <3>1, <3>2
    <3>4. ~Pending(a)' /\ ~Preparing(a)' /\ Handling(a)' = Handling(a)
      BY <1>6, <1>7
    <3> QED
      BY <3>1, <3>3, <3>4 DEF Counted
  <2>2. ASSUME NEW b \in AcceptTasks \ {a} PROVE Counted(b)'
    BY <1>2, <1>5, <1>7, CountKept DEF CountInv
  <2> QED
    BY <2>1, <2>2 DEF CountInv
<1>10. SocketInv'
  BY <1>1, <1>2, <1>5, <1>6, <1>7, SocketsFreed
<1> QED
  BY <1>8, <1>9, <1>10

LEMMA CompletePort ==
    ASSUME Typed, ControlInv, PortInv, NEW a \in AcceptTasks, Complete(a)
    PROVE  PortInv' /\ (port' /\ Chained => Chained')
<1> SUFFICES ASSUME port' PROVE OnceInv' /\ CountInv' /\ SocketInv' /\ (Chained => Chained')
  BY DEF PortInv
<1>1. /\ UNCHANGED <<port, batch, pc, self, refs, socketOf, owner>> /\ queue' = Append(queue, a)
      /\ request[a] # 0
  BY DEF Complete, localVars
<1>2. OnceInv /\ CountInv /\ SocketInv
  BY <1>1 DEF PortInv
<1>3. request'[a] = 0 /\ \A b \in AcceptTasks \ {a} : request'[b] = request[b]
  BY DEF Complete, Typed
<1>4. Requested(a) /\ ~Queued(a) /\ ~Waiting(a) /\ ~Carried(a) /\ Pending(a)
  BY <1>1, <1>2 DEF Requested, OnceInv, AtOne, Pending
<1>5. \A b : Queued(b)' <=> b = a \/ Queued(b)
  <2>1. queue \in Seq(AcceptTasks)
    BY DEF Typed
  <2>2. \A b : Queued(b)' <=> \E i \in 1 .. Len(Append(queue, a)) : Append(queue, a)[i] = b
    BY <1>1 DEF Queued
  <2>3. \A b : Queued(b) <=> \E i \in 1 .. Len(queue) : queue[i] = b
    BY DEF Queued
  <2>4. \A b : (\E i \in 1 .. Len(Append(queue, a)) : Append(queue, a)[i] = b)
                   <=> b = a \/ \E i \in 1 .. Len(queue) : queue[i] = b
    BY <2>1, Appended
  <2> QED
    BY <2>2, <2>3, <2>4, ZenonT(40)
<1>6. ASSUME NEW b \in AcceptTasks
      PROVE  /\ (Requested(b)' <=> Requested(b) /\ b # a)
             /\ \A u \in Workers : Waits(u, b)' <=> Waits(u, b)
             /\ (Waiting(b)' <=> Waiting(b)) /\ (Pending(b)' <=> Pending(b))
             /\ Handling(b)' = Handling(b)
             /\ \A u \in Threads : Carries(u, b)' <=> Carries(u, b)
             /\ Preparing(b)' <=> Preparing(b)
             /\ HasSocket(b)' <=> HasSocket(b)
  <2>1. Requested(b)' <=> Requested(b) /\ b # a
    BY <1>3 DEF Requested
  <2>2. /\ \A u \in Workers : Waits(u, b)' <=> Waits(u, b)
        /\ Handling(b)' = Handling(b) /\ (Preparing(b)' <=> Preparing(b))
        /\ \A u \in Threads : Carries(u, b)' <=> Carries(u, b)
    BY <1>1 DEF Waits, From, Handling, Preparing, Carries
  <2>3. Waiting(b)' <=> Waiting(b)
    BY <2>2 DEF Waiting
  <2>4. Pending(b)' <=> Pending(b)
    BY <1>4, <1>5, <2>1, <2>3 DEF Pending
  <2>5. HasSocket(b)' <=> HasSocket(b)
    BY <1>1, <2>4 DEF HasSocket
  <2> QED
    BY <2>1, <2>2, <2>3, <2>4, <2>5
<1>7. OnceInv'
  <2>1. Injective(queue)'
    <3>1. queue \in Seq(AcceptTasks) /\ Injective(queue) /\ \A i \in 1 .. Len(queue) : queue[i] # a
      BY <1>2, <1>4 DEF Typed, OnceInv, Queued
    <3> QED
      BY <1>1, <3>1, Appended
  <2>2. \A w \in Workers : Injective(batch[w])'
    BY <1>1, <1>2 DEF OnceInv, Injective
  <2>3. AtOne(a)'
    BY <1>4, <1>6 DEF AtOne, Waiting, Carried
  <2>4. ASSUME NEW b \in AcceptTasks \ {a} PROVE AtOne(b)'
    BY <1>2, <1>5, <1>6, AtOneKept DEF OnceInv
  <2> QED
    BY <2>1, <2>2, <2>3, <2>4 DEF OnceInv
<1>8. CountInv'
  <2>1. ASSUME NEW b \in AcceptTasks PROVE Counted(b)'
    BY <1>1, <1>2, <1>6, CountKept DEF CountInv
  <2> QED
    BY <2>1 DEF CountInv
<1>9. SocketInv'
  BY <1>1, <1>2, <1>6, SocketsKept
<1>20. Chained => Chained'
  BY <1>6 DEF Chained, Carried
<1> QED
  BY <1>7, <1>8, <1>9, <1>20

LEMMA HandleAcceptPort ==
    ASSUME Typed, ControlInv, PortInv, NEW w \in Workers, HandleAccept(w)
    PROVE  PortInv'
<1> SUFFICES ASSUME port' PROVE OnceInv' /\ CountInv' /\ SocketInv'
  BY DEF PortInv
<1>1. /\ UNCHANGED <<port, queue, batch, request, refs, socketOf>>
  BY DEF HandleAccept, portVars, taskState
<1>2. OnceInv /\ CountInv /\ SocketInv
  BY <1>1 DEF PortInv
<1>3. /\ batch[w] \in Seq(AcceptTasks) /\ batch[w] # <<>>
      /\ pc[w] = "dispatch" /\ pc'[w] \in {"accepted", "stop"} /\ \A u \in Threads \ {w} : pc'[u] = pc[u]
      /\ self[w] = NoTask /\ self' = [self EXCEPT ![w] = Head(batch[w])]
  BY HandleAcceptKeeps
<1>4. PICK a \in AcceptTasks : a = Head(batch[w]) /\ a = batch[w][1]
  BY <1>3, Tailed
<1>5. self'[w] = a /\ \A u \in Threads \ {w} : self'[u] = self[u]
  BY <1>3, <1>4, Apart DEF Typed
<1>6. /\ \A s \in Sockets : s # socketOf[a] => owner'[s] = owner[s]
      /\ \A s \in Sockets : s = socketOf[a] => owner'[s] # "acceptor"
  BY <1>4 DEF HandleAccept, Closed, Typed
<1>7. Len(batch[w]) \in Nat \ {0} /\ Injective(batch[w])
  BY <1>2, <1>3, Tailed DEF OnceInv
<1>8. Waits(w, a)
  BY <1>3, <1>4, <1>7 DEF Waits, From, HandlerLabels
<1>9. /\ ~Requested(a) /\ ~Queued(a) /\ ~Carried(a) /\ Pending(a) /\ HasSocket(a)
      /\ \A u \in Workers \ {w} : ~Waits(u, a)
  BY <1>2, <1>8 DEF OnceInv, AtOne, Waiting, Pending, HasSocket
<1>10. \A u \in Threads : self[u] = a => pc[u] \notin CarryLabels
  BY <1>9 DEF Carried, Carries
<1>11. ASSUME NEW b \in AcceptTasks
      PROVE  /\ (Requested(b)' <=> Requested(b)) /\ (Queued(b)' <=> Queued(b))
             /\ \A u \in Workers : Waits(u, b)' <=> Waits(u, b) /\ b # a
             /\ (Waiting(b)' <=> Waiting(b) /\ b # a) /\ (Pending(b)' <=> Pending(b) /\ b # a)
             /\ Handling(b)' = IF b = a THEN Handling(b) \cup {w} ELSE Handling(b)
             /\ \A u \in Threads : Carries(u, b)' => Carries(u, b) \/ (b = a /\ u = w)
             /\ Preparing(b)' <=> Preparing(b)
             /\ HasSocket(b)' <=> HasSocket(b) /\ b # a
  <2>1. (Requested(b)' <=> Requested(b)) /\ (Queued(b)' <=> Queued(b))
    BY <1>1 DEF Requested, Queued
  <2>2. \A u \in Workers \ {w} : Waits(u, b)' <=> Waits(u, b)
    BY <1>1, <1>3, Apart DEF Waits, From
  <2>3. Waits(w, b)' <=> Waits(w, b) /\ b # a
    <3>1. Waits(w, b)' <=> \E i \in 2 .. Len(batch[w]) : batch[w][i] = b
      BY <1>1, <1>3 DEF Waits, From, HandlerLabels
    <3>2. Waits(w, b) <=> \E i \in 1 .. Len(batch[w]) : batch[w][i] = b
      BY <1>3 DEF Waits, From, HandlerLabels
    <3>3. \A i \in 1 .. Len(batch[w]) : i = 1 \/ i \in 2 .. Len(batch[w])
      BY <1>7
    <3>4. \A i \in 2 .. Len(batch[w]) : batch[w][i] # a
      BY <1>4, <1>7 DEF Injective
    <3> QED
      BY <1>4, <1>7, <3>1, <3>2, <3>3, <3>4
  <2>4. \A u \in Workers : Waits(u, b)' <=> Waits(u, b) /\ b # a
    BY <1>9, <2>2, <2>3
  <2>5. (Waiting(b)' <=> Waiting(b) /\ b # a) /\ (Pending(b)' <=> Pending(b) /\ b # a)
    BY <1>9, <2>1, <2>4 DEF Waiting, Pending
  <2>6. Handling(b)' = IF b = a THEN Handling(b) \cup {w} ELSE Handling(b)
    <3>1. b # NoTask
      BY TCPAcceptorAssumption
    <3>2. ASSUME NEW u PROVE u \in Handling(b)' <=> u \in Handling(b) \/ (u = w /\ b = a)
      BY <1>3, <1>5, <3>1, Apart DEF Handling
    <3> QED
      BY <3>2
  <2>7. \A u \in Threads : Carries(u, b)' => Carries(u, b) \/ (b = a /\ u = w)
    BY <1>3, <1>5 DEF Carries
  <2>8. Preparing(b)' <=> Preparing(b)
    BY <1>3, <1>5, Apart DEF Preparing
  <2>9. b # a => (HasSocket(b)' <=> HasSocket(b))
    BY <1>3, <1>5, <2>5, Apart DEF HasSocket
  <2>10. ~HasSocket(a)'
    <3>1. ~Pending(a)'
      <4>1. ~Requested(a)' /\ ~Queued(a)'
        BY <1>1, <1>9 DEF Requested, Queued
      <4>2. b = a => ~Waiting(a)'
        BY <2>5
      <4>3. \A u \in Workers \ {w} : ~Waits(u, a)'
        BY <1>1, <1>3, <1>9, Apart DEF Waits, From
      <4>4. ~Waits(w, a)'
        <5>1. \A i \in 2 .. Len(batch[w]) : batch[w][i] # a
          BY <1>4, <1>7 DEF Injective
        <5> QED
          BY <1>1, <1>3, <5>1 DEF Waits, From, HandlerLabels
      <4> QED
        BY <4>1, <4>3, <4>4 DEF Pending, Waiting
    <3> QED
      BY <1>3, <1>5, <1>10, <3>1, Apart DEF HasSocket, CarryLabels
  <2> QED
    BY <2>1, <2>4, <2>5, <2>6, <2>7, <2>8, <2>9, <2>10
<1>12. ~Preparing(a)
  BY <1>10 DEF Preparing, CarryLabels
<1>13. OnceInv'
  <2>1. AtOne(a)'
    <3>1. ~Requested(a)' /\ ~Queued(a)' /\ ~Waiting(a)' /\ \A u \in Workers : ~Waits(u, a)'
      BY <1>9, <1>11
    <3>2. \A u \in Threads : Carries(u, a)' => u = w
      BY <1>9, <1>11 DEF Carried
    <3> QED
      BY <3>1, <3>2 DEF AtOne
  <2>2. ASSUME NEW b \in AcceptTasks \ {a} PROVE AtOne(b)'
    BY <1>2, <1>11, AtOneKept DEF OnceInv
  <2> QED
    BY <1>1, <1>2, <2>1, <2>2, InjectiveKept DEF OnceInv
<1>14. CountInv'
  <2>1. Counted(a)'
    <3>1. IsFiniteSet(Handling(a)) /\ refs[a] = Cardinality(Handling(a)) + 1
      BY <1>2, <1>9 DEF CountInv, Counted
    <3>2. w \notin Handling(a)
      BY <1>3, TCPAcceptorAssumption DEF Handling
    <3>3. IsFiniteSet(Handling(a) \cup {w}) /\ Cardinality(Handling(a) \cup {w}) = Cardinality(Handling(a)) + 1
      BY <3>1, <3>2, FS_AddElement
    <3>4. Cardinality(Handling(a)) \in Nat
      BY <3>1, FS_CardinalityType
    <3>5. ~Pending(a)' /\ ~Preparing(a)' /\ Handling(a)' = Handling(a) \cup {w}
      BY <1>11, <1>12
    <3>6. refs'[a] = Cardinality(Handling(a)') + 0 /\ IsFiniteSet(Handling(a)')
      BY <1>1, <3>1, <3>3, <3>4, <3>5
    <3> QED
      BY <3>5, <3>6 DEF Counted
  <2>2. ASSUME NEW b \in AcceptTasks \ {a} PROVE Counted(b)'
    BY <1>1, <1>2, <1>11, CountKept DEF CountInv
  <2> QED
    BY <2>1, <2>2 DEF CountInv
<1>15. SocketInv'
  BY <1>1, <1>2, <1>6, <1>9, <1>11, SocketsFreed
<1> QED
  BY <1>13, <1>14, <1>15

LEMMA ReleasePort ==
    ASSUME Typed, ControlInv, PortInv, NEW w \in Workers, Release(w)
    PROVE  PortInv' /\ (port' /\ Chained => Chained')
<1> SUFFICES ASSUME port' PROVE OnceInv' /\ CountInv' /\ SocketInv' /\ (Chained => Chained')
  BY DEF PortInv
<1>1. /\ UNCHANGED <<port, queue, request, socketOf, owner>>
      /\ batch' = [batch EXCEPT ![w] = Tail(batch[w])]
      /\ self' = [self EXCEPT ![w] = NoTask] /\ refs' = [refs EXCEPT ![self[w]] = @ - 1]
  BY DEF Release, Handled
<1>2. OnceInv /\ CountInv /\ SocketInv
  BY <1>1 DEF PortInv
<1>3. /\ batch[w] \in Seq(AcceptTasks) /\ batch[w] # <<>> /\ pc[w] = "release"
      /\ pc'[w] \in {"dispatch", "general", "tick"} /\ \A u \in Threads \ {w} : pc'[u] = pc[u]
      /\ self[w] = Head(batch[w]) /\ Head(batch[w]) \in AcceptTasks
  BY ReleaseKeeps
<1>4. PICK a \in AcceptTasks : a = self[w]
  BY <1>3
<1>5. self'[w] = NoTask /\ \A u \in Threads \ {w} : self'[u] = self[u]
  BY <1>1, Apart DEF Typed
<1>6. refs'[a] = refs[a] - 1 /\ \A b \in AcceptTasks \ {a} : refs'[b] = refs[b]
  BY <1>1, <1>4 DEF Typed
<1>7. batch'[w] = Tail(batch[w]) /\ \A u \in Workers \ {w} : batch'[u] = batch[u]
  BY <1>1 DEF Typed
<1>8. ASSUME NEW b \in AcceptTasks
      PROVE  /\ (Requested(b)' <=> Requested(b)) /\ (Queued(b)' <=> Queued(b))
             /\ \A u \in Workers : Waits(u, b)' <=> Waits(u, b)
             /\ (Pending(b)' <=> Pending(b))
             /\ Handling(b)' = IF b = a THEN Handling(b) \ {w} ELSE Handling(b)
             /\ \A u \in Threads : Carries(u, b)' <=> Carries(u, b)
             /\ Preparing(b)' <=> Preparing(b)
             /\ HasSocket(b)' <=> HasSocket(b)
  <2>1. (Requested(b)' <=> Requested(b)) /\ (Queued(b)' <=> Queued(b))
    BY <1>1 DEF Requested, Queued
  <2>2. \A u \in Workers \ {w} : Waits(u, b)' <=> Waits(u, b)
    BY <1>3, <1>7, Apart DEF Waits, From
  <2>3. Waits(w, b)' <=> Waits(w, b)
    <3>1. Waits(w, b)' <=> \E i \in 1 .. Len(Tail(batch[w])) : Tail(batch[w])[i] = b
      BY <1>3, <1>7 DEF Waits, From, HandlerLabels
    <3>2. Waits(w, b) <=> \E i \in 2 .. Len(batch[w]) : batch[w][i] = b
      BY <1>3 DEF Waits, From, HandlerLabels
    <3> QED
      BY <1>3, <3>1, <3>2, Tailed
  <2>4. Pending(b)' <=> Pending(b)
    BY <2>1, <2>2, <2>3 DEF Waiting, Pending
  <2>5. b # NoTask
    BY TCPAcceptorAssumption
  <2>6. Handling(b)' = IF b = a THEN Handling(b) \ {w} ELSE Handling(b)
    <3>1. ASSUME NEW u PROVE u \in Handling(b)' <=> u \in Handling(b) /\ ~(u = w /\ b = a)
      BY <1>4, <1>5, <2>5, Apart DEF Handling
    <3>2. CASE b = a
      BY <3>1, <3>2
    <3>3. CASE b # a
      BY <3>1, <3>3
    <3> QED
      BY <3>2, <3>3
  <2>7. \A u \in Threads : Carries(u, b)' <=> Carries(u, b)
    BY <1>3, <1>5 DEF Carries, CarryLabels
  <2>8. Preparing(b)' <=> Preparing(b)
    BY <1>3, <1>5 DEF Preparing
  <2>9. HasSocket(b)' <=> HasSocket(b)
    BY <1>3, <1>5, <2>4 DEF HasSocket
  <2> QED
    BY <2>1, <2>2, <2>3, <2>4, <2>6, <2>7, <2>8, <2>9
<1>9. OnceInv'
  <2>1. Injective(queue)' /\ \A u \in Workers : Injective(batch[u])'
    <3>1. Injective(queue)' /\ \A u \in Workers \ {w} : Injective(batch[u])'
      BY <1>1, <1>2, <1>7 DEF OnceInv, Injective
    <3>2. Injective(Tail(batch[w]))
      BY <1>2, <1>3, Tailed DEF OnceInv
    <3>3. Injective(batch[w])'
      BY <1>7, <3>2 DEF Injective
    <3> QED
      BY <3>1, <3>3
  <2>2. ASSUME NEW b \in AcceptTasks PROVE AtOne(b)'
    BY <1>2, <1>8, AtOneKept DEF OnceInv
  <2> QED
    BY <2>1, <2>2 DEF OnceInv
<1>10. CountInv'
  <2>1. Counted(a)'
    <3>1. /\ IsFiniteSet(Handling(a))
          /\ refs[a] = Cardinality(Handling(a)) + (IF Pending(a) \/ Preparing(a) THEN 1 ELSE 0)
      BY <1>2 DEF CountInv, Counted
    <3>2. w \in Handling(a)
      BY <1>4 DEF Handling
    <3>3. /\ IsFiniteSet(Handling(a) \ {w}) /\ Cardinality(Handling(a) \ {w}) = Cardinality(Handling(a)) - 1
      BY <3>1, <3>2, FS_RemoveElement
    <3>4. Cardinality(Handling(a)) \in Nat
      BY <3>1, FS_CardinalityType
    <3>5. Handling(a)' = Handling(a) \ {w}
      BY <1>8
    <3>6. refs'[a] = Cardinality(Handling(a)') + (IF Pending(a) \/ Preparing(a) THEN 1 ELSE 0)
      BY <1>6, <3>1, <3>3, <3>4, <3>5
    <3>7. IsFiniteSet(Handling(a)') /\ (Pending(a)' <=> Pending(a)) /\ (Preparing(a)' <=> Preparing(a))
      BY <1>8, <3>3, <3>5
    <3> QED
      BY <3>6, <3>7 DEF Counted
  <2>2. ASSUME NEW b \in AcceptTasks \ {a} PROVE Counted(b)'
    BY <1>2, <1>6, <1>8, CountKept DEF CountInv
  <2> QED
    BY <2>1, <2>2 DEF CountInv
<1>11. SocketInv'
  BY <1>1, <1>2, <1>8, SocketsKept
<1>20. Chained => Chained'
  BY <1>8 DEF Chained, Carried
<1> QED
  BY <1>9, <1>10, <1>11, <1>20

LEMMA DequeuePort ==
    ASSUME Typed, ControlInv, PortInv, NEW w \in Workers, Dequeue(w), UNCHANGED acceptVars
    PROVE  PortInv' /\ (port' /\ Chained => Chained')
<1> SUFFICES ASSUME port' PROVE OnceInv' /\ CountInv' /\ SocketInv' /\ (Chained => Chained')
  BY DEF PortInv
<1>1. UNCHANGED <<port, request, refs, socketOf, owner, self>> /\ pc[w] = "wait" /\ Goto(w, "dispatch")
  BY DEF Dequeue, acceptVars, taskState, localVars
<1>2. OnceInv /\ CountInv /\ SocketInv
  BY <1>1 DEF PortInv
<1>3. PICK n \in 1 .. Len(queue) : /\ batch' = [batch EXCEPT ![w] = SubSeq(queue, 1, n)]
                                   /\ queue' = SubSeq(queue, n + 1, Len(queue))
  BY DequeueKeeps
<1>4. pc'[w] = "dispatch" /\ \A u \in Threads \ {w} : pc'[u] = pc[u]
  BY <1>1, LabelsAre, Went, Apart
<1>5. batch'[w] = SubSeq(queue, 1, n) /\ \A u \in Workers \ {w} : batch'[u] = batch[u]
  BY <1>3 DEF Typed
<1>6. /\ \A b : (\E i \in 1 .. Len(batch'[w]) : batch'[w][i] = b) <=> \E i \in 1 .. n : queue[i] = b
      /\ \A b : (\E i \in 1 .. Len(queue') : queue'[i] = b) <=> \E i \in n + 1 .. Len(queue) : queue[i] = b
      /\ Injective(batch'[w]) /\ Injective(queue')
  <2>1. queue \in Seq(AcceptTasks) /\ Injective(queue)
    BY <1>2 DEF Typed, OnceInv
  <2>2. /\ \A b : (\E i \in 1 .. Len(SubSeq(queue, 1, n)) : SubSeq(queue, 1, n)[i] = b)
                      <=> \E i \in 1 .. n : queue[i] = b
        /\ Injective(SubSeq(queue, 1, n))
    BY <2>1, Split
  <2>3. /\ \A b : (\E i \in 1 .. Len(SubSeq(queue, n + 1, Len(queue))) :
                         SubSeq(queue, n + 1, Len(queue))[i] = b)
                      <=> \E i \in n + 1 .. Len(queue) : queue[i] = b
        /\ Injective(SubSeq(queue, n + 1, Len(queue)))
    BY <2>1, Split
  <2>4. queue' = SubSeq(queue, n + 1, Len(queue))
    BY <1>3
  <2>5. /\ \A b : (\E i \in 1 .. Len(batch'[w]) : batch'[w][i] = b) <=> \E i \in 1 .. n : queue[i] = b
        /\ Injective(batch'[w])
    BY <1>5, <2>2, ZenonT(40)
  <2>6. /\ \A b : (\E i \in 1 .. Len(queue') : queue'[i] = b)
                      <=> \E i \in n + 1 .. Len(queue) : queue[i] = b
        /\ Injective(queue')
    BY <2>3, <2>4, ZenonT(40)
  <2> QED
    BY <2>5, <2>6
<1>7. \A b : ~Waits(w, b)
  <2>1. batch[w] = <<>>
    BY <1>1 DEF ControlInv, WorkerInv, WorkerAt, LoopLabels
  <2> QED
    BY <1>1, <2>1 DEF Waits, From, HandlerLabels
<1>8. ASSUME NEW b \in AcceptTasks
      PROVE  /\ (Requested(b)' <=> Requested(b))
             /\ Queued(b)' => Queued(b)
             /\ Waits(w, b)' => Queued(b) /\ ~Queued(b)'
             /\ Queued(b) => Queued(b)' \/ Waits(w, b)'
             /\ \A u \in Workers \ {w} : Waits(u, b)' <=> Waits(u, b)
             /\ (Pending(b)' <=> Pending(b))
             /\ Handling(b)' = Handling(b)
             /\ \A u \in Threads : Carries(u, b)' <=> Carries(u, b)
             /\ Preparing(b)' <=> Preparing(b)
             /\ HasSocket(b)' <=> HasSocket(b)
  <2>1. (Requested(b)' <=> Requested(b)) /\ Handling(b)' = Handling(b)
    BY <1>1 DEF Requested, Handling
  <2>2. /\ Queued(b) <=> \E i \in 1 .. Len(queue) : queue[i] = b
        /\ Queued(b)' <=> \E i \in n + 1 .. Len(queue) : queue[i] = b
    BY <1>6 DEF Queued
  <2>3. Waits(w, b)' <=> \E i \in 1 .. n : queue[i] = b
    <3>1. Waits(w, b)' <=> \E i \in 1 .. Len(batch'[w]) : batch'[w][i] = b
      BY <1>4 DEF Waits, From, HandlerLabels
    <3> QED
      BY <1>6, <3>1
  <2>4. Len(queue) \in Nat /\ n \in Nat /\ n <= Len(queue)
    BY DEF Typed
  <2>5. /\ Queued(b)' => Queued(b)
        /\ Queued(b) => Queued(b)' \/ Waits(w, b)'
    BY <2>2, <2>3, <2>4
  <2>6. Waits(w, b)' => Queued(b) /\ ~Queued(b)'
    <3>1. \A i, j \in 1 .. Len(queue) : queue[i] = queue[j] => i = j
      BY <1>2 DEF OnceInv, Injective
    <3> QED
      BY <2>2, <2>3, <2>4, <3>1
  <2>7. \A u \in Workers \ {w} : Waits(u, b)' <=> Waits(u, b)
    BY <1>4, <1>5, Apart DEF Waits, From
  <2>8. Waiting(b)' <=> Waiting(b) \/ Waits(w, b)'
    BY <1>7, <2>7 DEF Waiting
  <2>9. Pending(b)' <=> Pending(b)
    BY <2>1, <2>5, <2>6, <2>8 DEF Pending
  <2>10. /\ \A u \in Threads : Carries(u, b)' <=> Carries(u, b)
         /\ Preparing(b)' <=> Preparing(b)
    BY <1>1, <1>4 DEF Carries, CarryLabels, Preparing
  <2>11. HasSocket(b)' <=> HasSocket(b)
    BY <1>1, <1>4, <2>9 DEF HasSocket
  <2> QED
    BY <2>1, <2>5, <2>6, <2>7, <2>9, <2>10, <2>11
<1>9. OnceInv'
  <2>1. Injective(queue)' /\ \A u \in Workers : Injective(batch[u])'
    BY <1>2, <1>5, <1>6 DEF OnceInv, Injective
  <2>2. ASSUME NEW b \in AcceptTasks PROVE AtOne(b)'
    <3>1. AtOne(b)
      BY <1>2 DEF OnceInv
    <3>2. CASE Waits(w, b)'
      <4>1. Queued(b) /\ ~Queued(b)'
        BY <1>8, <3>2
      <4>2. ~Requested(b) /\ ~Waiting(b) /\ ~Carried(b)
        BY <3>1, <4>1 DEF AtOne
      <4>3. \A u \in Workers : Waits(u, b)' => u = w
        BY <1>8, <4>2 DEF Waiting
      <4>4. ~Requested(b)' /\ \A u \in Threads : ~Carries(u, b)'
        BY <1>8, <4>2 DEF Carried
      <4> QED
        BY <4>1, <4>3, <4>4 DEF AtOne, Carried
    <3>3. CASE ~Waits(w, b)'
      <4>1. \A u \in Workers : Waits(u, b)' => Waits(u, b)
        BY <1>8, <3>3
      <4> QED
        BY <1>8, <3>1, <4>1, AtOneKept
    <3> QED
      BY <3>2, <3>3
  <2> QED
    BY <2>1, <2>2 DEF OnceInv
<1>10. CountInv'
  <2>1. ASSUME NEW b \in AcceptTasks PROVE Counted(b)'
    BY <1>1, <1>2, <1>8, CountKept DEF CountInv
  <2> QED
    BY <2>1 DEF CountInv
<1>11. SocketInv'
  BY <1>1, <1>2, <1>8, SocketsKept
<1>20. Chained => Chained'
  BY <1>8 DEF Chained, Carried
<1> QED
  BY <1>9, <1>10, <1>11, <1>20

LEMMA StopAsyncIOPort ==
    ASSUME StopAsyncIO
    PROVE  PortInv'
BY DEF StopAsyncIO, PortInv

(***************************************************************************)
(* Who asks for the next connection.                                       *)
(***************************************************************************)
LEMMA ChainKept ==
    ASSUME ChainInv, accepting' => accepting, port' => port, rearmed' => rearmed, Chained => Chained',
           NEW t \in Threads, pc[t] # "stop", \A u \in Threads \ {t} : pc'[u] = pc[u],
           Undone => Undone'
    PROVE  ChainInv'
<1>1. (\E u \in Threads : pc[u] = "stop") => \E u \in Threads : pc'[u] = "stop"
  BY DEF ChainInv
<1> QED
  BY <1>1 DEF ChainInv

(* A thread that is not the one that starts does not decide this.          *)
LEMMA UndoneKept ==
    ASSUME NEW t \in Threads \ {Starter}, \A u \in Threads \ {t} : pc'[u] = pc[u],
           next'[Starter] = next[Starter]
    PROVE  Undone => Undone'
BY Apart DEF Undone

LEMMA CloseChain ==
    ASSUME Typed, ControlInv, PortInv, ChainInv, ListenInv, NEW t \in Threads,
           CloseSocket(t) \/ CloseHandle(t) \/ StopAcceptingAsync(t)
    PROVE  ChainInv'
<1>1. CASE StopAcceptingAsync(t)
  BY <1>1 DEF StopAcceptingAsync, ChainInv
<1>2. CASE CloseSocket(t) \/ CloseHandle(t)
  <2>1. /\ UNCHANGED <<accepting, port, rearmed, next>> /\ pc[t] \in {"close", "closesocket"}
    BY <1>2 DEF CloseSocket, CloseHandle, portVars, historyVars
  <2>2. Chained => Chained'
    BY <1>2, ClosePort
  <2>3. PICK l \in {"closesocket", next[t]} : Goto(t, l)
    BY <1>2 DEF CloseSocket, CloseHandle
  <2>4. pc'[t] \in {"closesocket", next[t]} /\ \A u \in Threads \ {t} : pc'[u] = pc[u]
    BY <2>3, LabelsAre, Went DEF Typed
  <2>5. Undone => Undone'
    <3>1. CASE t = Starter
      BY <2>1, <2>4, <3>1 DEF Undone
    <3>2. CASE t # Starter
      BY <2>1, <2>4, <3>2, UndoneKept
    <3> QED
      BY <3>1, <3>2
  <2> QED
    BY <2>1, <2>2, <2>4, <2>5, ChainKept
<1> QED
  BY <1>1, <1>2

LEMMA QuietLoopChain ==
    ASSUME Typed, ControlInv, PortInv, ChainInv, NEW w \in Workers, UNCHANGED acceptVars,
           Loop(w) \/ Timeout(w) \/ SystemFailure(w) \/ HandleGeneralTasksWithThrottle(w) \/ Tick(w)
    PROVE  ChainInv'
<1>1. /\ UNCHANGED portVars /\ pc[w] \in LoopLabels /\ (UNCHANGED pc \/ \E l \in LoopLabels : Goto(w, l))
  BY QuietLoopKeeps
<1>2. \A u \in Threads \ {w} : pc'[u] = pc[u]
  BY <1>1, Went, Apart DEF Labels
<1>3. Chained => Chained'
  BY QuietLoopPort
<1>4. UNCHANGED <<accepting, port, rearmed, next>>
  BY <1>1 DEF portVars, acceptVars, sockVars, localVars, historyVars
<1>5. w \in Threads \ {Starter} /\ pc[w] # "stop"
  BY <1>1, Apart DEF LoopLabels
<1>6. Undone => Undone'
  BY <1>2, <1>4, <1>5, UndoneKept
<1> QED
  BY <1>2, <1>3, <1>4, <1>5, <1>6, ChainKept

LEMMA DequeueReleaseChain ==
    ASSUME Typed, ControlInv, PortInv, ChainInv, NEW w \in Workers,
           Release(w) \/ (Dequeue(w) /\ UNCHANGED acceptVars)
    PROVE  ChainInv'
<1>1. UNCHANGED <<accepting, port, rearmed, next>> /\ pc[w] \in {"release", "wait"}
  BY DEF Release, Dequeue, acceptVars, sockVars, localVars, historyVars
<1>2. \A u \in Threads \ {w} : pc'[u] = pc[u]
  <2>1. CASE Release(w)
    BY <2>1, ReleaseKeeps
  <2>2. CASE Dequeue(w)
    BY <2>2, LabelsAre, Went, Apart DEF Dequeue
  <2> QED
    BY <2>1, <2>2
<1>3. port' /\ Chained => Chained'
  BY ReleasePort, DequeuePort
<1>4. Undone => Undone'
  BY <1>1, <1>2, Apart, UndoneKept
<1>5. CASE port'
  BY <1>1, <1>2, <1>3, <1>4, <1>5, Apart, ChainKept
<1>6. CASE ~port'
  BY <1>6 DEF ChainInv
<1> QED
  BY <1>5, <1>6

LEMMA StartChain ==
    ASSUME Typed, ControlInv, PortInv, ChainInv,
           StartAcceptingAsync \/ NewSocket \/ BindAndListen \/ StartFailed
    PROVE  ChainInv'
<1>1. CASE StartAcceptingAsync \/ StartFailed
  BY <1>1 DEF StartAcceptingAsync, StartFailed, sockVars, ChainInv
<1>2. CASE NewSocket \/ BindAndListen
  <2>1. /\ UNCHANGED <<port, rearmed>> /\ pc[Starter] \in {"newSocket", "listening"}
        /\ Goto(Starter, "begin") \/ (UNCHANGED accepting /\ \E l \in {"close", "idle", "listening"} : Goto(Starter, l))
    BY <1>2 DEF NewSocket, BindAndListen, CloseSocketThen, portVars, historyVars
  <2>2. CASE Goto(Starter, "begin")
    BY <2>2, LabelsAre, Went, Apart DEF ChainInv, Undone
  <2>3. CASE UNCHANGED accepting /\ \E l \in {"close", "idle", "listening"} : Goto(Starter, l)
    <3>1. \A u \in Threads \ {Starter} : pc'[u] = pc[u]
      BY <2>3, LabelsAre, Went, Apart
    <3>2. ~Undone
      BY <2>1 DEF Undone
    <3>3. Chained => Chained'
      BY StartPort
    <3> QED
      BY <2>1, <2>3, <3>1, <3>2, <3>3, Apart, ChainKept
  <2> QED
    BY <2>1, <2>2, <2>3
<1> QED
  BY <1>1, <1>2

LEMMA MakeTaskChain ==
    ASSUME Typed, ControlInv, MakeTask
    PROVE  ChainInv'
<1>1. CASE CloseSocketThen(Starter, "failed")
  <2>1. pc'[Starter] = "close"
    BY <1>1, LabelsAre, Went, Apart DEF CloseSocketThen
  <2>2. next'[Starter] = "failed"
    BY <1>1, Apart DEF CloseSocketThen, Typed
  <2> QED
    BY <2>1, <2>2 DEF ChainInv, Undone
<1>2. ASSUME NEW a \in AcceptTasks, self' = [self EXCEPT ![Starter] = a], Goto(Starter, "newAccept")
      PROVE  ChainInv'
  <2>1. pc'[Starter] = "newAccept" /\ self'[Starter] = a
    BY <1>2, LabelsAre, Went, Apart DEF Typed
  <2>2. Carried(a)'
    BY <2>1, Apart DEF Carried, Carries, CarryLabels
  <2> QED
    BY <2>2 DEF ChainInv, Chained
<1> QED
  BY <1>1, <1>2 DEF MakeTask

(* A thread that has a task at hand.                                       *)
LEMMA CarryChain ==
    ASSUME NEW t \in Threads, self'[t] \in AcceptTasks, pc'[t] \in CarryLabels
    PROVE  ChainInv'
BY DEF ChainInv, Chained, Carried, Carries

LEMMA TaskChain ==
    ASSUME Typed, ControlInv, NEW t \in Threads,
           NewAcceptSocket(t) \/ AcceptExSucceeds(t) \/ AcceptExFails(t)
    PROVE  ChainInv'
<1>1. CASE NewAcceptSocket(t)
  <2>1. self'[t] \in AcceptTasks
    BY <1>1, NewAcceptSocketKeeps DEF NewAcceptSocket, localVars
  <2>2. pc'[t] = "acceptEx"
    BY <1>1, LabelsAre, Went DEF NewAcceptSocket
  <2> QED
    BY <2>1, <2>2, CarryChain DEF CarryLabels
<1>2. CASE AcceptExSucceeds(t)
  <2>1. self[t] \in AcceptTasks
    BY <1>2, AtAcceptEx DEF AcceptExSucceeds
  <2>2. Pending(self[t])'
    <3>1. request'[self[t]] # 0 /\ self'[t] = self[t]
      BY <1>2, <2>1 DEF AcceptExSucceeds, Typed, localVars
    <3> QED
      BY <3>1 DEF Pending, Requested
  <2>3. self'[t] \in AcceptTasks
    BY <1>2, <2>1 DEF AcceptExSucceeds, localVars
  <2> QED
    BY <2>2, <2>3 DEF ChainInv, Chained
<1>3. CASE AcceptExFails(t)
  <2>1. CASE rearmed' = FALSE
    BY <2>1 DEF ChainInv
  <2>2. CASE t = Starter /\ CloseSocketThen(t, "failed")
    <3>1. pc'[Starter] = "close"
      BY <2>2, LabelsAre, Went DEF CloseSocketThen
    <3>2. next'[Starter] = "failed"
      BY <2>2 DEF CloseSocketThen, Typed
    <3> QED
      BY <3>1, <3>2 DEF ChainInv, Undone
  <2> QED
    BY <1>3, <2>1, <2>2 DEF AcceptExFails
<1> QED
  BY <1>1, <1>2, <1>3

LEMMA HandlerChain ==
    ASSUME Typed, ControlInv, NEW w \in Workers, HandleAccept(w) \/ ReuseTask(w)
    PROVE  ChainInv'
<1>1. CASE HandleAccept(w)
  <2>1. /\ pc'[w] \in {"accepted", "stop"} /\ self' = [self EXCEPT ![w] = Head(batch[w])]
        /\ Head(batch[w]) \in AcceptTasks
    BY <1>1, HandleAcceptKeeps
  <2>2. self'[w] \in AcceptTasks
    BY <2>1, Apart DEF Typed
  <2>3. CASE pc'[w] = "accepted"
    BY <2>2, <2>3, Apart, CarryChain DEF CarryLabels
  <2>4. CASE pc'[w] = "stop"
    BY <2>4, Apart DEF ChainInv
  <2> QED
    BY <2>1, <2>3, <2>4
<1>2. CASE ReuseTask(w)
  <2>1. CASE accepting /\ Goto(w, "guard")
    <3>1. self'[w] \in AcceptTasks
      BY <1>2, ReuseTaskKeeps DEF ReuseTask, localVars
    <3>2. pc'[w] = "guard"
      BY <2>1, LabelsAre, Went, Apart
    <3> QED
      BY <3>1, <3>2, Apart, CarryChain DEF CarryLabels
  <2>2. CASE ~accepting
    BY <1>2, <2>2 DEF ReuseTask, sockVars, ChainInv
  <2> QED
    BY <1>2, <2>1, <2>2 DEF ReuseTask
<1> QED
  BY <1>1, <1>2

LEMMA OthersChain ==
    ASSUME Typed, ControlInv, PortInv, ChainInv,
           \/ StopAcceptor \/ StopGroup
           \/ StopAsyncIO
           \/ \E a \in AcceptTasks : Complete(a)
           \/ \E s \in Sockets : Disconnect(s)
    PROVE  ChainInv'
<1>1. CASE StopAcceptor \/ StopGroup
  <2>1. Goto(Main, "stop")
    BY <1>1 DEF StopAcceptor, StopGroup, StopAcceptingThen, SignalToStop
  <2>2. pc'[Main] = "stop"
    BY <2>1, LabelsAre, Went, Apart
  <2> QED
    BY <2>2, Apart DEF ChainInv
<1>2. CASE StopAsyncIO
  BY <1>2 DEF StopAsyncIO, ChainInv
<1>3. ASSUME NEW a \in AcceptTasks, Complete(a) PROVE ChainInv'
  <2>1. UNCHANGED <<accepting, port, rearmed, next, pc>>
    BY <1>3 DEF Complete, sockVars, localVars, historyVars
  <2>2. port' /\ Chained => Chained'
    BY <1>3, CompletePort
  <2> QED
    BY <2>1, <2>2 DEF ChainInv, Undone
<1>4. CASE \E s \in Sockets : Disconnect(s)
  <2>1. UNCHANGED <<accepting, port, rearmed, next, pc, queue, batch, request, self>>
    BY <1>4 DEF Disconnect, loopVars, portVars, sockVars, taskState, localVars, historyVars
  <2>2. Chained => Chained'
    <3>1. \A t \in Threads : SamePart(t)
      BY <2>1 DEF SamePart
    <3>2. ASSUME NEW a \in AcceptTasks, Pending(a) \/ Carried(a) PROVE Pending(a)' \/ Carried(a)'
      BY <2>1, <3>1, <3>2, PlacesKept DEF Pending, Waiting, Carried
    <3> QED
      BY <3>2 DEF Chained
  <2> QED
    BY <2>1, <2>2 DEF ChainInv, Undone
<1> QED
  BY <1>1, <1>2, <1>3, <1>4

(***************************************************************************)
(* Listening sockets.                                                      *)
(***************************************************************************)
LEMMA ListenKept ==
    ASSUME ListenInv, UNCHANGED <<accepting, listen, open, closing, stopLost>>,
           NEW t \in Threads, pc[t] \notin {"close", "closesocket"},
           \A u \in Threads \ {t} : pc'[u] = pc[u],
           t = Starter => pc[t] # "listening" /\ pc'[t] \notin {"newSocket", "failed", "closesocket"}
    PROVE  ListenInv'
<1>1. ASSUME NEW l \in open' PROVE l = listen' \/ \E u \in Threads : pc'[u] = "closesocket" /\ closing'[u] = l
  BY <1>1 DEF ListenInv
<1>2. pc'[Starter] \in {"newSocket", "failed", "closesocket"} => listen' = 0
  BY Apart DEF ListenInv
<1>3. ~accepting' /\ ~stopLost' /\ listen' \in open' =>
         pc'[Starter] = "listening" \/ \E u \in Threads : pc'[u] = "close"
  BY Apart DEF ListenInv
<1> QED
  BY <1>1, <1>2, <1>3 DEF ListenInv

LEMMA CloseSocketListen ==
    ASSUME Typed, ListenInv, NEW t \in Threads, CloseSocket(t)
    PROVE  ListenInv'
<1>1. /\ pc[t] = "close" /\ listen' = 0 /\ open' = open /\ 0 \notin open
      /\ closing'[t] = listen /\ \A u \in Threads \ {t} : closing'[u] = closing[u] /\ pc'[u] = pc[u]
      /\ listen # 0 => pc'[t] = "closesocket"
  BY DEF CloseSocket, Typed, Goto
<1>2. ASSUME NEW l \in open' PROVE l = listen' \/ \E u \in Threads : pc'[u] = "closesocket" /\ closing'[u] = l
  <2>1. CASE l = listen
    BY <1>1, <1>2, <2>1
  <2>2. CASE l # listen
    <3>1. PICK u \in Threads : pc[u] = "closesocket" /\ closing[u] = l
      BY <1>1, <1>2, <2>2 DEF ListenInv
    <3> QED
      BY <1>1, <3>1
  <2> QED
    BY <2>1, <2>2
<1> QED
  BY <1>1, <1>2 DEF ListenInv

LEMMA CloseHandleListen ==
    ASSUME Typed, ListenInv, NEW t \in Threads, CloseHandle(t)
    PROVE  ListenInv'
<1>1. /\ pc[t] = "closesocket" /\ open' = open \ {closing[t]}
      /\ UNCHANGED <<accepting, listen, stopLost>>
      /\ \A u \in Threads \ {t} : closing'[u] = closing[u] /\ pc'[u] = pc[u]
  BY DEF CloseHandle, Typed, Goto, historyVars
<1>2. ASSUME NEW l \in open' PROVE l = listen' \/ \E u \in Threads : pc'[u] = "closesocket" /\ closing'[u] = l
  <2>1. CASE l = listen
    BY <1>1, <2>1
  <2>2. CASE l # listen
    <3>1. PICK u \in Threads : pc[u] = "closesocket" /\ closing[u] = l
      BY <1>1, <1>2, <2>2 DEF ListenInv
    <3>2. u # t
      BY <1>1, <1>2, <3>1
    <3> QED
      BY <1>1, <3>1, <3>2
  <2> QED
    BY <2>1, <2>2
<1>3. pc'[Starter] \in {"newSocket", "failed", "closesocket"} => listen' = 0
  BY <1>1, Apart DEF ListenInv
<1>4. ~accepting' /\ ~stopLost' /\ listen' \in open' =>
         pc'[Starter] = "listening" \/ \E u \in Threads : pc'[u] = "close"
  BY <1>1, Apart DEF ListenInv
<1> QED
  BY <1>2, <1>3, <1>4 DEF ListenInv

LEMMA StopAcceptingListen ==
    ASSUME Typed, ControlInv, ListenInv, NEW t \in Threads, StopAcceptingAsync(t)
    PROVE  ListenInv'
<1>1. /\ pc[t] = "stop" /\ t # Starter /\ UNCHANGED <<listen, open, closing>>
      /\ \A u \in Threads \ {t} : pc'[u] = pc[u]
      /\ accepting => pc'[t] = "close"
      /\ stopLost' = (stopLost \/ (~accepting /\ pc[Starter] = "listening"))
      /\ accepting \in BOOLEAN /\ stopLost \in BOOLEAN
  BY Apart DEF StopAcceptingAsync, Typed, Goto, ControlInv, StarterInv, localVars
<1>2. ASSUME NEW l \in open' PROVE l = listen' \/ \E u \in Threads : pc'[u] = "closesocket" /\ closing'[u] = l
  BY <1>1, <1>2 DEF ListenInv
<1>3. pc'[Starter] \in {"newSocket", "failed", "closesocket"} => listen' = 0
  BY <1>1, Apart DEF ListenInv
<1>4. ~stopLost' /\ listen' \in open' => \E u \in Threads : pc'[u] = "close"
  <2>1. CASE accepting
    BY <1>1, <2>1
  <2>2. CASE ~accepting
    <3> SUFFICES ASSUME ~stopLost', listen \in open PROVE \E u \in Threads : pc'[u] = "close"
      BY <1>1
    <3>1. PICK u \in Threads : pc[u] = "close"
      BY <1>1, <2>2 DEF ListenInv
    <3> QED
      BY <1>1, <3>1
  <2> QED
    BY <2>1, <2>2
<1> QED
  BY <1>2, <1>3, <1>4 DEF ListenInv

LEMMA StartListen ==
    ASSUME Typed, ControlInv, ListenInv, NewSocket \/ BindAndListen \/ StartFailed
    PROVE  ListenInv'
<1>1. /\ \A u \in Threads \ {Starter} : pc'[u] = pc[u]
      /\ pc[Starter] \in {"newSocket", "listening", "failed"} /\ UNCHANGED <<closing, stopLost>>
  BY Apart DEF NewSocket, BindAndListen, StartFailed, Typed, Goto, CloseSocketThen, localVars, historyVars
<1>2. pc'[Starter] \notin {"newSocket", "failed", "closesocket"}
  BY Apart DEF NewSocket, BindAndListen, StartFailed, Typed, Goto, CloseSocketThen
<1>3. \A l \in open : l # listen => \E u \in Threads : pc'[u] = "closesocket" /\ closing'[u] = l
  BY <1>1 DEF ListenInv
<1>4. CASE NewSocket
  <2>1. listen = 0 /\ 0 \notin open
    BY <1>4 DEF NewSocket, ListenInv, Typed
  <2>2. CASE UNCHANGED <<listen, open>>
    BY <1>2, <1>3, <2>1, <2>2 DEF ListenInv
  <2>3. CASE listen' = starts /\ open' = open \cup {starts} /\ Goto(Starter, "listening")
    <3>1. pc'[Starter] = "listening"
      BY <2>3, Apart DEF Goto, Typed
    <3>2. \A l \in open' : l = listen' \/ \E u \in Threads : pc'[u] = "closesocket" /\ closing'[u] = l
      BY <1>3, <2>1, <2>3
    <3> QED
      BY <3>1, <3>2 DEF ListenInv
  <2> QED
    BY <1>4, <2>2, <2>3 DEF NewSocket
<1>5. CASE BindAndListen
  <2>1. UNCHANGED <<listen, open>>
    BY <1>5 DEF BindAndListen
  <2>2. accepting' \/ pc'[Starter] = "close"
    BY <1>5, Apart DEF BindAndListen, CloseSocketThen, Goto, Typed
  <2> QED
    BY <1>2, <1>3, <2>1, <2>2, Apart DEF ListenInv
<1>6. CASE StartFailed
  <2>1. listen = 0 /\ 0 \notin open /\ UNCHANGED <<listen, open>>
    BY <1>6 DEF StartFailed, ListenInv, Typed
  <2> QED
    BY <1>2, <1>3, <2>1 DEF ListenInv
<1> QED
  BY <1>4, <1>5, <1>6

LEMMA OtherStartListen ==
    ASSUME Typed, ControlInv, ListenInv, StartAcceptingAsync \/ MakeTask \/ StopAcceptor \/ StopGroup
    PROVE  ListenInv'
<1>1. UNCHANGED <<accepting, listen, open, closing, stopLost>>
  BY DEF StartAcceptingAsync, MakeTask, StopAcceptor, StopGroup, sockVars, historyVars
<1>2. CASE StartAcceptingAsync \/ MakeTask
  <2>1. /\ pc[Starter] \in {"idle", "begin"} /\ pc'[Starter] \in {"close", "newAccept"}
        /\ \A u \in Threads \ {Starter} : pc'[u] = pc[u]
    BY <1>2, Apart DEF StartAcceptingAsync, MakeTask, CloseSocketThen, Goto, Typed
  <2> QED
    BY <1>1, <2>1, ListenKept, Apart
<1>3. CASE StopAcceptor \/ StopGroup
  <2>1. pc[Main] = "idle" /\ \A u \in Threads \ {Main} : pc'[u] = pc[u]
    BY <1>3, Apart DEF StopAcceptor, StopGroup, SignalToStop, StopAcceptingThen, Goto, Typed
  <2> QED
    BY <1>1, <2>1, ListenKept, Apart
<1> QED
  BY <1>2, <1>3

LEMMA TaskListen ==
    ASSUME Typed, ListenInv, NEW t \in Threads,
           NewAcceptSocket(t) \/ AcceptExSucceeds(t) \/ AcceptExFails(t)
    PROVE  ListenInv'
<1>1. /\ UNCHANGED <<accepting, listen, open, closing, stopLost>>
      /\ pc[t] \in {"guard", "newAccept", "acceptEx"}
      /\ \A u \in Threads \ {t} : pc'[u] = pc[u]
  BY DEF NewAcceptSocket, AcceptExSucceeds, AcceptExFails, CloseSocketThen, Goto, Typed,
         sockVars, historyVars, localVars
<1>2. pc'[t] \in {"acceptEx", "release", "idle", "close"}
  BY DEF NewAcceptSocket, AcceptExSucceeds, AcceptExFails, CloseSocketThen, Back, Goto, Typed
<1> QED
  BY <1>1, <1>2, ListenKept

LEMMA WorkerListen ==
    ASSUME Typed, ListenInv, NEW w \in Workers,
           \/ HandleAccept(w) \/ ReuseTask(w) \/ Release(w)
           \/ WorkerStep(w) /\ ~HandleTask(w) /\ UNCHANGED acceptVars
    PROVE  ListenInv'
<1>1. /\ pc[w] \notin {"close", "closesocket"}
      /\ \A u \in Threads \ {w} : pc'[u] = pc[u]
  BY Apart DEF HandleAccept, ReuseTask, Release, WorkerStep, Loop, Dequeue, Timeout, SystemFailure,
         HandleGeneralTasksWithThrottle, Tick, StopAcceptingThen, Handled, Goto, Typed
<1>2. UNCHANGED <<accepting, listen, open, closing, stopLost>>
  BY DEF HandleAccept, ReuseTask, Release, acceptVars, sockVars, historyVars, localVars
<1> QED
  BY <1>1, <1>2, ListenKept, Apart

LEMMA SystemListen ==
    ASSUME Typed, ListenInv,
           \/ StopAsyncIO /\ UNCHANGED acceptVars
           \/ \E a \in AcceptTasks : Complete(a)
           \/ \E s \in Sockets : Disconnect(s)
    PROVE  ListenInv'
<1>1. CASE StopAsyncIO /\ UNCHANGED acceptVars
  <2>1. pc[Main] = "closePort" /\ \A u \in Threads \ {Main} : pc'[u] = pc[u]
    BY <1>1 DEF StopAsyncIO, Goto, Typed
  <2>2. UNCHANGED <<accepting, listen, open, closing, stopLost>>
    BY <1>1 DEF acceptVars, sockVars, historyVars, localVars
  <2> QED
    BY <2>1, <2>2, ListenKept, Apart
<1>2. CASE \E a \in AcceptTasks : Complete(a)
  <2>1. UNCHANGED <<pc, accepting, listen, open, closing, stopLost>>
    BY <1>2 DEF Complete, sockVars, historyVars, localVars
  <2> QED
    BY <2>1 DEF ListenInv
<1>3. CASE \E s \in Sockets : Disconnect(s)
  <2>1. UNCHANGED <<pc, accepting, listen, open, closing, stopLost>>
    BY <1>3 DEF Disconnect, loopVars, sockVars, historyVars, localVars
  <2> QED
    BY <2>1 DEF ListenInv
<1> QED
  BY <1>1, <1>2, <1>3

(***************************************************************************)
(* Every step.                                                             *)
(***************************************************************************)
LEMMA AcceptStepKeeps ==
    ASSUME IInv, NEW t \in Threads, AcceptStep(t)
    PROVE  IInv'
<1> USE DEF IInv
<1>1. CASE CloseSocket(t)
  BY <1>1, CloseSocketKeeps, ClosePort, CloseChain, CloseSocketListen
<1>2. CASE CloseHandle(t)
  BY <1>2, CloseHandleKeeps, ClosePort, CloseChain, CloseHandleListen
<1>3. CASE StopAcceptingAsync(t)
  BY <1>3, StopAcceptingKeeps, ClosePort, CloseChain, StopAcceptingListen
<1>4. CASE NewAcceptSocket(t)
  BY <1>4, NewAcceptSocketKeeps, NewAcceptSocketPort, TaskChain, TaskListen
<1>5. CASE AcceptExSucceeds(t)
  BY <1>5, AcceptExSucceedsKeeps, AcceptExSucceedsPort, TaskChain, TaskListen
<1>6. CASE AcceptExFails(t)
  BY <1>6, AcceptExFailsKeeps, AcceptExFailsPort, TaskChain, TaskListen
<1> QED
  BY <1>1, <1>2, <1>3, <1>4, <1>5, <1>6 DEF AcceptStep

LEMMA WorkerLoopKeeps ==
    ASSUME IInv, NEW w \in Workers, WorkerLoop(w)
    PROVE  IInv'
<1> USE DEF IInv
<1>1. CASE HandleAccept(w)
  BY <1>1, HandleAcceptKeeps, HandleAcceptPort, HandlerChain, WorkerListen
<1>2. CASE ReuseTask(w)
  BY <1>2, ReuseTaskKeeps, ReuseTaskPort, HandlerChain, WorkerListen
<1>3. CASE Release(w)
  BY <1>3, ReleaseKeeps, ReleasePort, DequeueReleaseChain, WorkerListen
<1>4. CASE WorkerStep(w) /\ UNCHANGED acceptVars
  <2>1. ~HandleTask(w)
    BY NoOtherTask
  <2>2. ListenInv'
    BY <1>4, <2>1, WorkerListen
  <2>3. CASE Dequeue(w)
    BY <1>4, <2>2, <2>3, DequeueKeeps, DequeuePort, DequeueReleaseChain
  <2>4. CASE Loop(w) \/ Timeout(w) \/ SystemFailure(w) \/ HandleGeneralTasksWithThrottle(w) \/ Tick(w)
    BY <1>4, <2>2, <2>4, QuietLoopKeeps, QuietLoopPort, QuietLoopChain
  <2> QED
    BY <1>4, <2>1, <2>3, <2>4 DEF WorkerStep
<1>5. CASE AcceptStep(w)
  BY <1>5, AcceptStepKeeps, Apart
<1> QED
  BY <1>1, <1>2, <1>3, <1>4, <1>5 DEF WorkerLoop

LEMMA StarterKeeps ==
    ASSUME IInv, StartAcceptingAsync \/ StarterStep
    PROVE  IInv'
<1> USE DEF IInv
<1>1. CASE StartAcceptingAsync
  BY <1>1, StartAcceptingKeeps, StartPort, StartChain, OtherStartListen
<1>2. CASE NewSocket
  BY <1>2, NewSocketKeeps, StartPort, StartChain, StartListen
<1>3. CASE BindAndListen
  BY <1>3, BindAndListenKeeps, StartPort, StartChain, StartListen
<1>4. CASE StartFailed
  BY <1>4, StartFailedKeeps, StartPort, StartChain, StartListen
<1>5. CASE MakeTask
  BY <1>5, MakeTaskKeeps, MakeTaskPort, MakeTaskChain, OtherStartListen
<1>6. CASE AcceptStep(Starter)
  BY <1>6, AcceptStepKeeps, Apart
<1> QED
  BY <1>1, <1>2, <1>3, <1>4, <1>5, <1>6 DEF StarterStep

LEMMA MainKeeps ==
    ASSUME IInv, StopAcceptor \/ StopGroup \/ MainStep
    PROVE  IInv'
<1> USE DEF IInv
<1>1. CASE StopAcceptor \/ StopGroup
  BY <1>1, StopsKeep, StopPort, OthersChain, OtherStartListen
<1>2. CASE StopAsyncIO /\ UNCHANGED acceptVars
  BY <1>2, StopAsyncIOKeeps, StopAsyncIOPort, OthersChain, SystemListen
<1>3. CASE AcceptStep(Main)
  BY <1>3, AcceptStepKeeps, Apart
<1> QED
  BY <1>1, <1>2, <1>3 DEF MainStep

LEMMA SystemStepKeeps ==
    ASSUME IInv, (\E a \in AcceptTasks : Complete(a)) \/ (\E s \in Sockets : Disconnect(s))
    PROVE  IInv'
<1>1. PortInv'
  BY CompletePort, DisconnectPort DEF IInv
<1> QED
  BY <1>1, SystemKeeps, OthersChain, SystemListen DEF IInv

LEMMA StutterKeeps ==
    ASSUME IInv, UNCHANGED vars
    PROVE  IInv'
<1>1. /\ UNCHANGED <<variant, running, port, queue, batch, pc, accepting, listen, open, refs, socketOf>>
      /\ UNCHANGED <<request, accepted, owner, self, closing, next, starts, rearmed, stopLost>>
  BY DEF vars, loopVars, portVars, acceptVars, sockVars, taskState, localVars, historyVars
<1>2. Typed' /\ ControlInv'
  BY <1>1 DEF IInv, Typed, ControlInv, MainInv, StarterInv, WorkerInv, WorkerAt
<1>3. PortInv' /\ (Chained => Chained')
  BY <1>1, PortQuiet, Apart DEF IInv, SamePart
<1>4. ChainInv'
  BY <1>1, <1>3 DEF IInv, ChainInv, Undone
<1>5. ListenInv'
  BY <1>1 DEF IInv, ListenInv
<1> QED
  BY <1>2, <1>3, <1>4, <1>5 DEF IInv

LEMMA NextKeepsIInv == IInv /\ [Next]_vars => IInv'
BY WorkerLoopKeeps, StarterKeeps, MainKeeps, SystemStepKeeps, StutterKeeps DEF Next

LEMMA AlwaysIInv == Spec => []IInv
<1> QED
  BY InitIInv, NextKeepsIInv, PTL DEF Spec

(***************************************************************************)
(* What follows.                                                           *)
(***************************************************************************)
(* What the runs call completed is what is in the port or waits.           *)
LEMMA CompletedIs ==
    ASSUME Typed, ControlInv, OnceInv, NEW a \in AcceptTasks
    PROVE  Completed(a) <=> Queued(a) \/ Waiting(a)
<1>1. a \in ItemsOf(queue) <=> Queued(a)
  BY DEF ItemsOf, Queued
<1>2. ASSUME NEW w \in Workers
      PROVE  (a \in ItemsOf(batch[w]) /\ ~(InAcceptor(w) /\ self[w] = a)) <=> Waits(w, a)
  <2>1. WorkerAt(w) /\ batch[w] \in Seq(AcceptTasks) /\ Injective(batch[w])
    BY DEF ControlInv, WorkerInv, Typed, OnceInv
  <2>2. InAcceptor(w) <=> pc[w] \in HandlerLabels
    BY <2>1 DEF WorkerAt, InAcceptor, HandlerLabels, LoopLabels
  <2>3. Len(batch[w]) \in Nat /\ ItemsOf(batch[w]) = {batch[w][i] : i \in 1 .. Len(batch[w])}
    BY <2>1 DEF ItemsOf
  <2>4. CASE pc[w] \notin HandlerLabels
    BY <2>2, <2>3, <2>4 DEF Waits, From
  <2>5. CASE pc[w] \in HandlerLabels
    <3>1. batch[w] # <<>> /\ self[w] = Head(batch[w])
      BY <2>1, <2>5 DEF WorkerAt, HandlerLabels, LoopLabels
    <3>2. self[w] = batch[w][1] /\ Len(batch[w]) \in Nat \ {0}
      BY <2>1, <3>1, Tailed
    <3>3. ASSUME NEW i \in 1 .. Len(batch[w]), batch[w][i] = a
          PROVE  self[w] # a <=> i # 1
      BY <2>1, <3>2, <3>3 DEF Injective
    <3>4. Waits(w, a) <=> \E i \in 2 .. Len(batch[w]) : batch[w][i] = a
      BY <2>5 DEF Waits, From
    <3>5. \A i : i \in 2 .. Len(batch[w]) <=> i \in 1 .. Len(batch[w]) /\ i # 1
      BY <3>2
    <3>6. a \in ItemsOf(batch[w]) <=> \E i \in 1 .. Len(batch[w]) : batch[w][i] = a
      BY DEF ItemsOf
    <3> QED
      BY <2>2, <2>5, <3>3, <3>4, <3>5, <3>6
  <2> QED
    BY <2>4, <2>5
<1> QED
  BY <1>1, <1>2 DEF Completed, Waiting

LEMMA IInvSaysAll ==
    ASSUME IInv PROVE AcceptorInv
<1> USE DEF IInv
<1>1. pc \in [Threads -> {"idle", "stopped", "loop", "left", "wait", "dispatch", "general",
                           "tick", "closePort", "close", "closesocket", "stop", "newSocket",
                           "listening", "failed", "begin", "newAccept", "guard", "acceptEx",
                           "accepted", "release"}]
  BY DEF Typed, Labels, LoopLabels, HandlerLabels
<1>2. ASSUME port, NEW a \in AcceptTasks PROVE Pending(a) <=> Requested(a) \/ Completed(a)
  BY <1>2, CompletedIs DEF PortInv, Pending
<1>3. ASSUME port, NEW a \in AcceptTasks
      PROVE  refs[a] = Cardinality(Handling(a))
                         + (IF Requested(a) \/ Completed(a) \/ Preparing(a) THEN 1 ELSE 0)
  <2>1. Counted(a)
    BY <1>3 DEF PortInv, CountInv
  <2> QED
    BY <1>2, <1>3, <2>1 DEF Counted
<1>4. ASSUME port, NEW s \in Sockets
      PROVE  owner[s] = "acceptor" <=>
               \E a \in AcceptTasks :
                 /\ socketOf[a] = s
                 /\ \/ Requested(a) \/ Completed(a)
                    \/ \E t \in Threads : self[t] = a /\ pc[t] = "acceptEx"
  <2>1. owner[s] = "acceptor" <=> \E a \in AcceptTasks : socketOf[a] = s /\ HasSocket(a)
    BY <1>4 DEF PortInv, SocketInv
  <2>2. \A a \in AcceptTasks :
           HasSocket(a) <=> \/ Requested(a) \/ Completed(a)
                            \/ \E t \in Threads : self[t] = a /\ pc[t] = "acceptEx"
    BY <1>2, <1>4 DEF HasSocket
  <2> QED
    BY <2>1, <2>2
<1> QED
  BY <1>1, <1>3, <1>4 DEF AcceptorInv

LEMMA IInvSaysAccepting ==
    ASSUME IInv PROVE AcceptingIsTrue
<1> USE DEF IInv
<1>1. ASSUME \A t \in Threads : ~InAcceptor(t)
      PROVE  /\ \A t \in Threads : pc[t] \notin CarryLabels \cup {"stop", "close", "closesocket", "listening"}
             /\ ~Undone
  BY <1>1, Apart DEF InAcceptor, CarryLabels, Undone
<1>2. AcceptsWhileAccepting
  <2> SUFFICES ASSUME accepting, port, rearmed, \A t \in Threads : ~InAcceptor(t)
               PROVE  \E a \in AcceptTasks : Requested(a) \/ Completed(a)
    BY DEF AcceptsWhileAccepting
  <2>1. PICK a \in AcceptTasks : Pending(a) \/ Carried(a)
    BY <1>1 DEF ChainInv, Chained
  <2>2. ~Carried(a)
    BY <1>1 DEF Carried, Carries
  <2>3. Completed(a) <=> Queued(a) \/ Waiting(a)
    BY CompletedIs DEF PortInv
  <2> QED
    BY <2>1, <2>2, <2>3 DEF Pending
<1>3. NoListenerLeft
  <2>1. open \subseteq {listen} \cup {closing[t] : t \in Threads}
    BY DEF ListenInv
  <2>2. ASSUME ~accepting, ~stopLost, \A t \in Threads : ~InAcceptor(t) PROVE open = {}
    <3>1. listen \notin open
      BY <1>1, <2>2, Apart DEF ListenInv
    <3>2. \A l \in open : l = listen
      BY <1>1, <2>2 DEF ListenInv
    <3> QED
      BY <3>1, <3>2
  <2> QED
    BY <2>1, <2>2 DEF NoListenerLeft
<1> QED
  BY <1>2, <1>3 DEF AcceptingIsTrue

(* However many workers take whatever numbers of completions out of the    *)
(* port, while the acceptor is started, stopped and its system calls fail: *)
(* while the port is open, an accept task is referenced exactly by the     *)
(* request or completion that it is in and by the workers in its handler,  *)
(* and a socket belongs to the acceptor while one task has it.             *)
THEOREM ExactCounts == Spec => []AcceptorInv
<1>1. IInv => AcceptorInv
  BY IInvSaysAll
<1> QED
  BY <1>1, AlwaysIInv, PTL

(* When nobody is at work in the acceptor: if IsAccepting() is TRUE, there *)
(* is a request a connection can complete, unless a handler failed to ask  *)
(* for the next; if it is FALSE, no listening socket is open, unless a     *)
(* stop came during a start.                                               *)
THEOREM AcceptingMeansIt == Spec => []AcceptingIsTrue
<1>1. IInv => AcceptingIsTrue
  BY IInvSaysAccepting
<1> QED
  BY <1>1, AlwaysIInv, PTL

-----------------------------------------------------------------------------
(***************************************************************************)
(* The loops by themselves: where tasks are.  A family c of sequences has  *)
(* each element once (Spread), if it has it at all (Has).                  *)
(***************************************************************************)
Updated(c, p, s) == [c EXCEPT ![p] = s]

Has(c, P, x) == \E p \in P : \E i \in 1 .. Len(c[p]) : c[p][i] = x

Spread(c, P) ==
    \A p, q \in P : \A i \in 1 .. Len(c[p]), j \in 1 .. Len(c[q]) : c[p][i] = c[q][j] => p = q /\ i = j

LEMMA SpreadAppend ==
    ASSUME NEW P, NEW S, NEW c \in [P -> Seq(S)], NEW p \in P, NEW x \in S, Spread(c, P), ~Has(c, P, x)
    PROVE  LET d == Updated(c, p, Append(c[p], x))
           IN  /\ d \in [P -> Seq(S)] /\ Spread(d, P)
               /\ \A y : Has(d, P, y) <=> Has(c, P, y) \/ y = x
<1> DEFINE d == Updated(c, p, Append(c[p], x))
<1>1. /\ d \in [P -> Seq(S)] /\ \A q \in P \ {p} : d[q] = c[q]
      /\ Len(c[p]) \in Nat /\ Len(d[p]) = Len(c[p]) + 1 /\ d[p][Len(c[p]) + 1] = x
      /\ \A i \in 1 .. Len(c[p]) : d[p][i] = c[p][i]
  <2>1. c[p] \in Seq(S) /\ d[p] = Append(c[p], x)
    BY DEF Updated
  <2> QED
    BY <2>1 DEF Updated
<1> HIDE DEF d
<1>2. \A q \in P : \A i \in 1 .. Len(d[q]) :
         \/ i \in 1 .. Len(c[q]) /\ d[q][i] = c[q][i]
         \/ q = p /\ i = Len(c[p]) + 1 /\ d[q][i] = x
  BY <1>1
<1>3. ASSUME NEW q \in P, NEW i \in 1 .. Len(c[q]) PROVE i \in 1 .. Len(d[q]) /\ d[q][i] = c[q][i]
  <2>1. CASE q = p
    BY <1>1, <2>1
  <2>2. CASE q # p
    BY <1>1, <2>2
  <2> QED
    BY <2>1, <2>2
<1>4. Spread(d, P)
  <2> SUFFICES ASSUME NEW q \in P, NEW r \in P, NEW i \in 1 .. Len(d[q]), NEW j \in 1 .. Len(d[r]), d[q][i] = d[r][j]
               PROVE  q = r /\ i = j
    BY DEF Spread
  <2>1. \/ i \in 1 .. Len(c[q]) /\ d[q][i] = c[q][i]
        \/ q = p /\ i = Len(c[p]) + 1 /\ d[q][i] = x
    BY <1>2
  <2>2. \/ j \in 1 .. Len(c[r]) /\ d[r][j] = c[r][j]
        \/ r = p /\ j = Len(c[p]) + 1 /\ d[r][j] = x
    BY <1>2
  <2>3. i \in 1 .. Len(c[q]) => c[q][i] # x
    BY DEF Has
  <2>4. j \in 1 .. Len(c[r]) => c[r][j] # x
    BY DEF Has
  <2>5. i \in 1 .. Len(c[q]) /\ j \in 1 .. Len(c[r]) /\ c[q][i] = c[r][j] => q = r /\ i = j
    BY DEF Spread
  <2> QED
    BY <2>1, <2>2, <2>3, <2>4, <2>5
<1>5. ASSUME NEW y PROVE Has(d, P, y) <=> Has(c, P, y) \/ y = x
  <2>1. Has(d, P, y) => Has(c, P, y) \/ y = x
    BY <1>2 DEF Has
  <2>2. Has(c, P, y) => Has(d, P, y)
    BY <1>3 DEF Has
  <2>3. Has(d, P, x)
    BY <1>1 DEF Has
  <2> QED
    BY <2>1, <2>2, <2>3
<1> QED
  BY <1>1, <1>4, <1>5 DEF d

LEMMA SpreadTail ==
    ASSUME NEW P, NEW S, NEW c \in [P -> Seq(S)], NEW p \in P, Spread(c, P), c[p] # <<>>
    PROVE  LET d == Updated(c, p, Tail(c[p]))
           IN  /\ d \in [P -> Seq(S)] /\ Spread(d, P) /\ Head(c[p]) \in S /\ Has(c, P, Head(c[p]))
               /\ \A y : Has(d, P, y) <=> Has(c, P, y) /\ y # Head(c[p])
<1> DEFINE d == Updated(c, p, Tail(c[p]))
<1>1. /\ d \in [P -> Seq(S)] /\ \A q \in P \ {p} : d[q] = c[q]
      /\ Len(c[p]) \in Nat \ {0} /\ Len(d[p]) = Len(c[p]) - 1 /\ Head(c[p]) = c[p][1] /\ Head(c[p]) \in S
      /\ \A i \in 1 .. Len(d[p]) : d[p][i] = c[p][i + 1]
  <2>1. c[p] \in Seq(S) /\ d[p] = Tail(c[p])
    BY DEF Updated
  <2> QED
    BY <2>1 DEF Updated
<1> HIDE DEF d
<1>2. \A q \in P \ {p} : Len(d[q]) = Len(c[q]) /\ \A i \in 1 .. Len(c[q]) : d[q][i] = c[q][i]
  BY <1>1
<1>3. \A i \in 1 .. Len(d[p]) : i + 1 \in 1 .. Len(c[p]) /\ i + 1 # 1 /\ d[p][i] = c[p][i + 1]
  BY <1>1
<1>4. \A i \in 1 .. Len(c[p]) : i # 1 => i - 1 \in 1 .. Len(d[p]) /\ d[p][i - 1] = c[p][i]
  BY <1>1
<1>5. 1 \in 1 .. Len(c[p])
  BY <1>1
<1>6. Spread(d, P)
  <2> SUFFICES ASSUME NEW q \in P, NEW r \in P, NEW i \in 1 .. Len(d[q]), NEW j \in 1 .. Len(d[r]), d[q][i] = d[r][j]
               PROVE  q = r /\ i = j
    BY DEF Spread
  <2>1. CASE q = p /\ r = p
    <3>1. i + 1 \in 1 .. Len(c[p]) /\ j + 1 \in 1 .. Len(c[p]) /\ c[p][i + 1] = c[p][j + 1]
      BY <1>3, <2>1
    <3>2. i + 1 = j + 1
      BY <3>1 DEF Spread
    <3> QED
      BY <2>1, <3>2
  <2>2. CASE q = p /\ r # p
    <3>1. i + 1 \in 1 .. Len(c[p]) /\ j \in 1 .. Len(c[r]) /\ c[p][i + 1] = c[r][j]
      BY <1>2, <1>3, <2>2
    <3> QED
      BY <2>2, <3>1 DEF Spread
  <2>3. CASE q # p /\ r = p
    <3>1. i \in 1 .. Len(c[q]) /\ j + 1 \in 1 .. Len(c[p]) /\ c[q][i] = c[p][j + 1]
      BY <1>2, <1>3, <2>3
    <3> QED
      BY <2>3, <3>1 DEF Spread
  <2>4. CASE q # p /\ r # p
    <3>1. i \in 1 .. Len(c[q]) /\ j \in 1 .. Len(c[r]) /\ c[q][i] = c[r][j]
      BY <1>2, <2>4
    <3> QED
      BY <3>1 DEF Spread
  <2> QED
    BY <2>1, <2>2, <2>3, <2>4
<1>7. ASSUME NEW y PROVE Has(d, P, y) <=> Has(c, P, y) /\ y # Head(c[p])
  <2>1. ASSUME NEW q \in P, NEW i \in 1 .. Len(d[q]), d[q][i] = y PROVE Has(c, P, y) /\ y # Head(c[p])
    <3>1. CASE q = p
      <4>1. i + 1 \in 1 .. Len(c[p]) /\ c[p][i + 1] = y /\ i + 1 # 1
        BY <1>3, <2>1, <3>1
      <4>2. c[p][i + 1] # c[p][1]
        BY <1>5, <4>1 DEF Spread
      <4> QED
        BY <1>1, <4>1, <4>2 DEF Has
    <3>2. CASE q # p
      <4>1. i \in 1 .. Len(c[q]) /\ c[q][i] = y
        BY <1>2, <2>1, <3>2
      <4>2. c[q][i] # c[p][1]
        BY <1>5, <3>2, <4>1 DEF Spread
      <4> QED
        BY <1>1, <4>1, <4>2 DEF Has
    <3> QED
      BY <3>1, <3>2
  <2>2. ASSUME NEW q \in P, NEW i \in 1 .. Len(c[q]), c[q][i] = y, y # Head(c[p]) PROVE Has(d, P, y)
    <3>1. CASE q = p
      <4>1. i - 1 \in 1 .. Len(d[p]) /\ d[p][i - 1] = y
        BY <1>1, <1>4, <2>2, <3>1
      <4> QED
        BY <4>1 DEF Has
    <3>2. CASE q # p
      BY <1>2, <2>2, <3>2 DEF Has
    <3> QED
      BY <3>1, <3>2
  <2> QED
    BY <2>1, <2>2 DEF Has
<1>8. Has(c, P, Head(c[p]))
  BY <1>1, <1>5 DEF Has
<1> QED
  BY <1>1, <1>6, <1>7, <1>8 DEF d

(* The first n elements of one sequence become another: where the element  *)
(* at place q, i of d was in c.                                            *)
WasAt(c, p, r, n, q, i, u, k) ==
    /\ q = r => u = p /\ k = i /\ k <= n
    /\ q = p => u = p /\ k = n + i /\ k > n
    /\ q \notin {p, r} => u = q /\ k = i

LEMMA SpreadParts ==
    ASSUME NEW P, NEW c, NEW d, NEW p \in P, NEW r \in P, p # r, NEW n \in Nat, Len(c[p]) \in Nat, n <= Len(c[p]),
           Len(c[r]) = 0, Spread(c, P), \A q \in P \ {p, r} : d[q] = c[q],
           Len(d[r]) = n, \A i \in 1 .. n : d[r][i] = c[p][i],
           Len(d[p]) = Len(c[p]) - n, \A i \in 1 .. Len(c[p]) - n : d[p][i] = c[p][n + i]
    PROVE  Spread(d, P) /\ \A y : Has(d, P, y) <=> Has(c, P, y)
<1>1. ASSUME NEW q \in P, NEW i \in 1 .. Len(d[q])
      PROVE  \E u \in P : \E k \in 1 .. Len(c[u]) : d[q][i] = c[u][k] /\ WasAt(c, p, r, n, q, i, u, k)
  <2>1. CASE q = r
    <3>1. i \in 1 .. Len(c[p]) /\ d[q][i] = c[p][i] /\ i <= n
      BY <2>1
    <3> QED
      BY <2>1, <3>1 DEF WasAt
  <2>2. CASE q = p
    <3>1. n + i \in 1 .. Len(c[p]) /\ d[q][i] = c[p][n + i] /\ n + i > n
      BY <2>2
    <3> QED
      BY <2>2, <3>1 DEF WasAt
  <2>3. CASE q \notin {p, r}
    BY <2>3 DEF WasAt
  <2> QED
    BY <2>1, <2>2, <2>3
<1>2. Spread(d, P)
  <2> SUFFICES ASSUME NEW q \in P, NEW s \in P, NEW i \in 1 .. Len(d[q]), NEW j \in 1 .. Len(d[s]), d[q][i] = d[s][j]
               PROVE  q = s /\ i = j
    BY DEF Spread
  <2>1. PICK u \in P : \E k \in 1 .. Len(c[u]) : d[q][i] = c[u][k] /\ WasAt(c, p, r, n, q, i, u, k)
    BY <1>1
  <2>2. PICK k \in 1 .. Len(c[u]) : d[q][i] = c[u][k] /\ WasAt(c, p, r, n, q, i, u, k)
    BY <2>1
  <2>3. PICK v \in P : \E l \in 1 .. Len(c[v]) : d[s][j] = c[v][l] /\ WasAt(c, p, r, n, s, j, v, l)
    BY <1>1
  <2>4. PICK l \in 1 .. Len(c[v]) : d[s][j] = c[v][l] /\ WasAt(c, p, r, n, s, j, v, l)
    BY <2>3
  <2>5. u = v /\ k = l
    <3>1. c[u][k] = c[v][l]
      BY <2>2, <2>4
    <3>2. \A x \in 1 .. Len(c[u]), z \in 1 .. Len(c[v]) : c[u][x] = c[v][z] => u = v /\ x = z
      BY DEF Spread
    <3> QED
      BY <3>1, <3>2, Zenon
  <2>6. i \in Int /\ j \in Int /\ n \in Int /\ k \in Int
    OBVIOUS
  <2>7. q = s
    BY <2>2, <2>4, <2>5, <2>6 DEF WasAt
  <2> QED
    BY <2>2, <2>4, <2>5, <2>6, <2>7 DEF WasAt
<1>3. ASSUME NEW y, Has(d, P, y) PROVE Has(c, P, y)
  <2>1. PICK q \in P : \E i \in 1 .. Len(d[q]) : d[q][i] = y
    BY <1>3 DEF Has
  <2>2. PICK i \in 1 .. Len(d[q]) : d[q][i] = y
    BY <2>1
  <2>3. PICK u \in P : \E k \in 1 .. Len(c[u]) : d[q][i] = c[u][k] /\ WasAt(c, p, r, n, q, i, u, k)
    BY <1>1
  <2>4. PICK k \in 1 .. Len(c[u]) : d[q][i] = c[u][k]
    BY <2>3
  <2> QED
    BY <2>2, <2>4 DEF Has
<1>4. ASSUME NEW y, Has(c, P, y) PROVE Has(d, P, y)
  <2>1. PICK q \in P : \E i \in 1 .. Len(c[q]) : c[q][i] = y
    BY <1>4 DEF Has
  <2>2. PICK i \in 1 .. Len(c[q]) : c[q][i] = y
    BY <2>1
  <2>3. CASE q = p /\ i <= n
    <3>1. i \in 1 .. Len(d[r]) /\ d[r][i] = y
      BY <2>2, <2>3
    <3> QED
      BY <3>1 DEF Has
  <2>4. CASE q = p /\ i > n
    <3>1. i - n \in 1 .. Len(d[p]) /\ d[p][i - n] = y
      BY <2>2, <2>4
    <3> QED
      BY <3>1 DEF Has
  <2>5. q # r
    BY <2>2
  <2>6. CASE q \notin {p, r}
    BY <2>2, <2>6 DEF Has
  <2>7. i \in Int /\ n \in Int
    OBVIOUS
  <2> QED
    BY <2>3, <2>4, <2>5, <2>6, <2>7
<1> QED
  BY <1>2, <1>3, <1>4

LEMMA SpreadSplit ==
    ASSUME NEW P, NEW S, NEW c \in [P -> Seq(S)], NEW p \in P, NEW r \in P, p # r, c[r] = <<>>,
           NEW n \in 1 .. Len(c[p]), Spread(c, P)
    PROVE  LET d == Updated(Updated(c, r, SubSeq(c[p], 1, n)), p, SubSeq(c[p], n + 1, Len(c[p])))
           IN  Spread(d, P) /\ \A y : Has(d, P, y) <=> Has(c, P, y)
<1> DEFINE d == Updated(Updated(c, r, SubSeq(c[p], 1, n)), p, SubSeq(c[p], n + 1, Len(c[p])))
<1>1. /\ c[p] \in Seq(S) /\ Len(c[p]) \in Nat /\ n \in Nat \ {0} /\ n <= Len(c[p])
      /\ d[r] = SubSeq(c[p], 1, n) /\ d[p] = SubSeq(c[p], n + 1, Len(c[p]))
      /\ \A q \in P \ {p, r} : d[q] = c[q]
  BY DEF Updated
<1> HIDE DEF d
<1>2. Len(d[r]) = n /\ \A i \in 1 .. n : d[r][i] = c[p][i]
  BY <1>1, SubSeqProperties
<1>3. Len(d[p]) = Len(c[p]) - n /\ \A i \in 1 .. Len(c[p]) - n : d[p][i] = c[p][n + i]
  <2>1. /\ Len(SubSeq(c[p], n + 1, Len(c[p]))) = IF n + 1 <= Len(c[p]) THEN Len(c[p]) - (n + 1) + 1 ELSE 0
        /\ \A i \in 1 .. Len(c[p]) - (n + 1) + 1 :
              SubSeq(c[p], n + 1, Len(c[p]))[i] = c[p][n + 1 + i - 1]
    <3>1. n + 1 \in 1 .. Len(c[p]) + 1
      BY <1>1
    <3> QED
      BY <1>1, <3>1, SubSeqProperties
  <2> QED
    BY <1>1, <2>1
<1>4. Len(c[r]) = 0
  OBVIOUS
<1>5. Spread(d, P) /\ \A y : Has(d, P, y) <=> Has(c, P, y)
  BY <1>1, <1>2, <1>3, <1>4, SpreadParts
<1> QED
  BY <1>5 DEF d

LEMMA SpreadDrop ==
    ASSUME NEW P, NEW S, NEW c \in [P -> Seq(S)], NEW p \in P, Spread(c, P)
    PROVE  LET d == Updated(c, p, <<>>)
           IN  /\ Spread(d, P)
               /\ \A y : Has(d, P, y) <=> Has(c, P, y) /\ ~\E i \in 1 .. Len(c[p]) : c[p][i] = y
<1> DEFINE d == Updated(c, p, <<>>)
<1>1. d[p] = <<>> /\ Len(d[p]) = 0 /\ \A q \in P \ {p} : d[q] = c[q]
  BY DEF Updated
<1> HIDE DEF d
<1>2. Spread(d, P)
  BY <1>1 DEF Spread
<1>3. ASSUME NEW y, Has(d, P, y) PROVE Has(c, P, y) /\ ~\E i \in 1 .. Len(c[p]) : c[p][i] = y
  <2>1. PICK q \in P : \E i \in 1 .. Len(d[q]) : d[q][i] = y
    BY <1>3 DEF Has
  <2>2. q # p
    BY <1>1, <2>1
  <2> QED
    BY <1>1, <2>1, <2>2 DEF Has, Spread
<1>4. ASSUME NEW y, Has(c, P, y), ~\E i \in 1 .. Len(c[p]) : c[p][i] = y PROVE Has(d, P, y)
  BY <1>1, <1>4 DEF Has
<1> QED
  BY <1>2, <1>3, <1>4 DEF d

(* The queues as such a family, and what each operation makes of it.       *)
PortPlace       == <<"port", Main>>
BatchPlace(w)   == <<"batch", w>>
GeneralPlace(w) == <<"general", w>>

Family(q, b, g) ==
    [p \in Places |-> IF p[1] = "port" THEN q ELSE IF p[1] = "batch" THEN b[p[2]] ELSE g[p[2]]]

QueuesTyped(q, b, g) ==
    /\ q \in Seq(Deferred)
    /\ b \in [Workers -> Seq(Deferred)]
    /\ g \in [Workers -> Seq(General)]

LEMMA PlacesAre ==
    /\ PortPlace \in Places /\ PortPlace[1] = "port"
    /\ \A w \in Workers : BatchPlace(w) \in Places /\ BatchPlace(w)[1] = "batch" /\ BatchPlace(w)[2] = w
    /\ \A w \in Workers : GeneralPlace(w) \in Places /\ GeneralPlace(w)[1] = "general" /\ GeneralPlace(w)[2] = w
    /\ \A p \in Places : \/ p = PortPlace
                         \/ \E w \in Workers : p = BatchPlace(w)
                         \/ \E w \in Workers : p = GeneralPlace(w)
<1>1. \A p \in {"batch", "general"} \X Workers : p = <<p[1], p[2]>> /\ p[1] \in {"batch", "general"} /\ p[2] \in Workers
  OBVIOUS
<1>2. PortPlace \in Places /\ PortPlace[1] = "port"
  BY DEF PortPlace, Places
<1>3. \A w \in Workers : BatchPlace(w) \in Places /\ BatchPlace(w)[1] = "batch" /\ BatchPlace(w)[2] = w
  BY DEF BatchPlace, Places
<1>4. \A w \in Workers : GeneralPlace(w) \in Places /\ GeneralPlace(w)[1] = "general" /\ GeneralPlace(w)[2] = w
  BY DEF GeneralPlace, Places
<1>5. ASSUME NEW p \in Places
      PROVE  \/ p = PortPlace
             \/ \E w \in Workers : p = BatchPlace(w)
             \/ \E w \in Workers : p = GeneralPlace(w)
  <2>1. p = PortPlace \/ p \in {"batch", "general"} \X Workers
    BY DEF Places, PortPlace
  <2> QED
    BY <1>1, <2>1 DEF BatchPlace, GeneralPlace
<1> QED
  BY <1>2, <1>3, <1>4, <1>5

LEMMA PlacesDiffer ==
    ASSUME NEW w \in Workers, NEW u \in Workers
    PROVE  /\ PortPlace # BatchPlace(w) /\ PortPlace # GeneralPlace(w) /\ BatchPlace(w) # GeneralPlace(u)
           /\ BatchPlace(w) = BatchPlace(u) => w = u
           /\ GeneralPlace(w) = GeneralPlace(u) => w = u
BY PlacesAre

LEMMA FamilyAt ==
    ASSUME NEW q, NEW b, NEW g
    PROVE  /\ Family(q, b, g)[PortPlace] = q
           /\ \A w \in Workers : Family(q, b, g)[BatchPlace(w)] = b[w]
           /\ \A w \in Workers : Family(q, b, g)[GeneralPlace(w)] = g[w]
BY PlacesAre DEF Family

LEMMA FamilyTyped ==
    ASSUME NEW q, NEW b, NEW g, QueuesTyped(q, b, g)
    PROVE  Family(q, b, g) \in [Places -> Seq(Tasks)]
<1>1. ASSUME NEW p \in Places PROVE Family(q, b, g)[p] \in Seq(Tasks)
  <2>1. Seq(Deferred) \subseteq Seq(Tasks) /\ Seq(General) \subseteq Seq(Tasks)
    BY DEF Tasks
  <2>2. CASE p = PortPlace
    BY <2>1, <2>2, FamilyAt DEF QueuesTyped
  <2>3. CASE \E w \in Workers : p = BatchPlace(w)
    BY <2>1, <2>3, FamilyAt DEF QueuesTyped
  <2>4. CASE \E w \in Workers : p = GeneralPlace(w)
    BY <2>1, <2>4, FamilyAt DEF QueuesTyped
  <2> QED
    BY <2>2, <2>3, <2>4, PlacesAre
<1>2. DOMAIN Family(q, b, g) = Places /\ Family(q, b, g) = [p \in Places |-> Family(q, b, g)[p]]
  BY DEF Family
<1> QED
  BY <1>1, <1>2

(* A step that changes one queue changes the family at one place.          *)
LEMMA FamilyPort ==
    ASSUME NEW q, NEW b, NEW g, NEW q2
    PROVE  Family(q2, b, g) = Updated(Family(q, b, g), PortPlace, q2)
<1> DEFINE F == Family(q, b, g)
<1>1. F = [p \in Places |-> F[p]]
  BY DEF Family
<1>2. Family(q2, b, g) = Updated(F, PortPlace, q2)
  <2> DEFINE G == Family(q2, b, g)
  <2>1. G = [p \in Places |-> G[p]]
    BY DEF Family
  <2>2. ASSUME NEW p \in Places PROVE G[p] = [F EXCEPT ![PortPlace] = q2][p]
    <3> HIDE DEF F, G
    <3>1. [F EXCEPT ![PortPlace] = q2][p] = IF p = PortPlace THEN q2 ELSE F[p]
      BY <1>1
    <3>2. p = PortPlace => G[p] = q2
      BY FamilyAt DEF G
    <3>3. p # PortPlace => G[p] = F[p]
      BY FamilyAt, PlacesAre DEF F, G
    <3> QED
      BY <3>1, <3>2, <3>3
  <2> HIDE DEF F, G
  <2>3. G = [F EXCEPT ![PortPlace] = q2]
    BY <1>1, <2>1, <2>2
  <2> QED
    BY <2>3 DEF F, G, Updated
<1> QED
  BY <1>2

LEMMA FamilyUpdate ==
    ASSUME NEW q, NEW b, NEW g, NEW s, NEW w \in Workers
    PROVE  /\ b \in [Workers -> Seq(Deferred)]
                => Family(q, Updated(b, w, s), g) = Updated(Family(q, b, g), BatchPlace(w), s)
           /\ g \in [Workers -> Seq(General)]
                => Family(q, b, Updated(g, w, s)) = Updated(Family(q, b, g), GeneralPlace(w), s)
<1> DEFINE F == Family(q, b, g)
<1>1. F = [p \in Places |-> F[p]]
  BY DEF Family
<1>2. ASSUME b \in [Workers -> Seq(Deferred)]
      PROVE  Family(q, Updated(b, w, s), g) = Updated(F, BatchPlace(w), s)
  <2> DEFINE b2 == Updated(b, w, s)
             G  == Family(q, b2, g)
  <2>1. G = [p \in Places |-> G[p]]
    BY DEF Family
  <2>2. b2[w] = s /\ \A u \in Workers \ {w} : b2[u] = b[u]
    BY <1>2 DEF Updated
  <2>3. ASSUME NEW p \in Places PROVE G[p] = [F EXCEPT ![BatchPlace(w)] = s][p]
    <3> HIDE DEF F, b2, G
    <3>1. [F EXCEPT ![BatchPlace(w)] = s][p] = IF p = BatchPlace(w) THEN s ELSE F[p]
      BY <1>1
    <3>2. p = BatchPlace(w) => G[p] = s
      BY <2>2, FamilyAt DEF G
    <3>3. ASSUME NEW u \in Workers, p = BatchPlace(u), p # BatchPlace(w) PROVE G[p] = F[p]
      BY <2>2, <3>3, FamilyAt DEF F, G
    <3>4. p = PortPlace \/ (\E u \in Workers : p = GeneralPlace(u)) => G[p] = F[p]
      BY FamilyAt DEF F, G
    <3>5. p # BatchPlace(w) => G[p] = F[p]
      BY <3>3, <3>4, PlacesAre
    <3> QED
      BY <3>1, <3>2, <3>5
  <2> HIDE DEF F, b2, G
  <2>4. G = [F EXCEPT ![BatchPlace(w)] = s]
    BY <1>1, <2>1, <2>3
  <2> QED
    BY <2>4 DEF F, b2, G, Updated
<1>3. ASSUME g \in [Workers -> Seq(General)]
      PROVE  Family(q, b, Updated(g, w, s)) = Updated(F, GeneralPlace(w), s)
  <2> DEFINE g2 == Updated(g, w, s)
             G  == Family(q, b, g2)
  <2>1. G = [p \in Places |-> G[p]]
    BY DEF Family
  <2>2. g2[w] = s /\ \A u \in Workers \ {w} : g2[u] = g[u]
    BY <1>3 DEF Updated
  <2>3. ASSUME NEW p \in Places PROVE G[p] = [F EXCEPT ![GeneralPlace(w)] = s][p]
    <3> HIDE DEF F, g2, G
    <3>1. [F EXCEPT ![GeneralPlace(w)] = s][p] = IF p = GeneralPlace(w) THEN s ELSE F[p]
      BY <1>1
    <3>2. p = GeneralPlace(w) => G[p] = s
      BY <2>2, FamilyAt DEF G
    <3>3. ASSUME NEW u \in Workers, p = GeneralPlace(u), p # GeneralPlace(w) PROVE G[p] = F[p]
      BY <2>2, <3>3, FamilyAt DEF F, G
    <3>4. p = PortPlace \/ (\E u \in Workers : p = BatchPlace(u)) => G[p] = F[p]
      BY FamilyAt DEF F, G
    <3>5. p # GeneralPlace(w) => G[p] = F[p]
      BY <3>3, <3>4, PlacesAre
    <3> QED
      BY <3>1, <3>2, <3>5
  <2> HIDE DEF F, g2, G
  <2>4. G = [F EXCEPT ![GeneralPlace(w)] = s]
    BY <1>1, <2>1, <2>3
  <2> QED
    BY <2>4 DEF F, g2, G, Updated
<1> QED
  BY <1>2, <1>3

(* A task is queued exactly if it is in one of the queues, where it is     *)
(* once.                                                                   *)
Fates == {"new", "queued", "done", "lost"}

Placed(q, b, g, f) ==
    /\ QueuesTyped(q, b, g) /\ f \in [Tasks -> Fates]
    /\ Spread(Family(q, b, g), Places)
    /\ \A t \in Tasks : f[t] = "queued" <=> Has(Family(q, b, g), Places, t)

LEMMA PutInPort ==
    ASSUME NEW q, NEW b, NEW g, NEW f, Placed(q, b, g, f), NEW t \in Deferred, f[t] # "queued"
    PROVE  Placed(Append(q, t), b, g, [f EXCEPT ![t] = "queued"])
<1> DEFINE c == Family(q, b, g)
           d == Family(Append(q, t), b, g)
           e == [f EXCEPT ![t] = "queued"]
<1>1. /\ c \in [Places -> Seq(Tasks)] /\ PortPlace \in Places /\ t \in Tasks /\ Spread(c, Places)
      /\ ~Has(c, Places, t)
  BY FamilyTyped, PlacesAre DEF Placed, Tasks
<1>2. c[PortPlace] = q
  BY FamilyAt
<1>3. d = Updated(c, PortPlace, Append(q, t))
  BY FamilyPort
<1>4. QueuesTyped(Append(q, t), b, g) /\ e \in [Tasks -> Fates]
  BY <1>1 DEF Placed, QueuesTyped, Fates, Updated
<1>5. \A u \in Tasks : e[u] = IF u = t THEN "queued" ELSE f[u]
  BY DEF Placed
<1>6. \A u \in Tasks : f[u] = "queued" <=> Has(c, Places, u)
  BY DEF Placed
<1> HIDE DEF c, d, e
<1>7. LET k == Updated(c, PortPlace, Append(c[PortPlace], t))
      IN  Spread(k, Places) /\ \A y : Has(k, Places, y) <=> Has(c, Places, y) \/ y = t
  BY <1>1, SpreadAppend
<1>8. Spread(d, Places) /\ \A y : Has(d, Places, y) <=> Has(c, Places, y) \/ y = t
  BY <1>2, <1>3, <1>7
<1>9. \A u \in Tasks : e[u] = "queued" <=> Has(d, Places, u)
  BY <1>5, <1>6, <1>8
<1> QED
  BY <1>4, <1>8, <1>9 DEF Placed, d, e

LEMMA PutInGeneral ==
    ASSUME NEW q, NEW b, NEW g, NEW f, Placed(q, b, g, f), NEW w \in Workers, NEW t \in General, f[t] # "queued"
    PROVE  Placed(q, b, Updated(g, w, Append(g[w], t)), [f EXCEPT ![t] = "queued"])
<1> DEFINE c == Family(q, b, g)
           d == Family(q, b, Updated(g, w, Append(g[w], t)))
           e == [f EXCEPT ![t] = "queued"]
<1>1. /\ c \in [Places -> Seq(Tasks)] /\ GeneralPlace(w) \in Places /\ t \in Tasks /\ Spread(c, Places)
      /\ ~Has(c, Places, t) /\ g \in [Workers -> Seq(General)]
  BY FamilyTyped, PlacesAre DEF Placed, QueuesTyped, Tasks
<1>2. c[GeneralPlace(w)] = g[w]
  BY FamilyAt
<1>3. d = Updated(c, GeneralPlace(w), Append(g[w], t))
  BY <1>1, FamilyUpdate
<1>4. QueuesTyped(q, b, Updated(g, w, Append(g[w], t))) /\ e \in [Tasks -> Fates]
  BY <1>1 DEF Placed, QueuesTyped, Fates, Updated
<1>5. \A u \in Tasks : e[u] = IF u = t THEN "queued" ELSE f[u]
  BY DEF Placed
<1>6. \A u \in Tasks : f[u] = "queued" <=> Has(c, Places, u)
  BY DEF Placed
<1> HIDE DEF c, d, e
<1>7. LET k == Updated(c, GeneralPlace(w), Append(c[GeneralPlace(w)], t))
      IN  Spread(k, Places) /\ \A y : Has(k, Places, y) <=> Has(c, Places, y) \/ y = t
  <2> DEFINE p == GeneralPlace(w)
  <2>1. c \in [Places -> Seq(Tasks)] /\ p \in Places /\ t \in Tasks /\ Spread(c, Places) /\ ~Has(c, Places, t)
    BY <1>1
  <2> HIDE DEF p
  <2>2. LET k == Updated(c, p, Append(c[p], t))
        IN  Spread(k, Places) /\ \A y : Has(k, Places, y) <=> Has(c, Places, y) \/ y = t
    BY <2>1, SpreadAppend
  <2> QED
    BY <2>2 DEF p
<1>8. Spread(d, Places) /\ \A y : Has(d, Places, y) <=> Has(c, Places, y) \/ y = t
  BY <1>2, <1>3, <1>7
<1>9. \A u \in Tasks : e[u] = "queued" <=> Has(d, Places, u)
  BY <1>5, <1>6, <1>8
<1> QED
  BY <1>4, <1>8, <1>9 DEF Placed, d, e

LEMMA TakeFromBatch ==
    ASSUME NEW q, NEW b, NEW g, NEW f, Placed(q, b, g, f), NEW w \in Workers, b[w] # <<>>,
           NEW v \in Fates, v # "queued"
    PROVE  /\ Head(b[w]) \in Deferred /\ f[Head(b[w])] = "queued"
           /\ Placed(q, Updated(b, w, Tail(b[w])), g, [f EXCEPT ![Head(b[w])] = v])
<1> DEFINE c == Family(q, b, g)
           d == Family(q, Updated(b, w, Tail(b[w])), g)
           e == [f EXCEPT ![Head(b[w])] = v]
<1>1. /\ c \in [Places -> Seq(Tasks)] /\ BatchPlace(w) \in Places /\ Spread(c, Places)
      /\ c[BatchPlace(w)] = b[w] /\ b \in [Workers -> Seq(Deferred)]
  BY FamilyTyped, PlacesAre, FamilyAt DEF Placed, QueuesTyped
<1>2. Head(b[w]) \in Deferred /\ Head(b[w]) \in Tasks /\ Tail(b[w]) \in Seq(Deferred)
  <2>1. b[w] \in Seq(Deferred)
    BY <1>1
  <2>2. Head(b[w]) \in Deferred /\ Tail(b[w]) \in Seq(Deferred)
    BY <2>1
  <2> QED
    BY <2>2 DEF Tasks
<1>3. d = Updated(c, BatchPlace(w), Tail(b[w]))
  BY <1>1, FamilyUpdate
<1>4. QueuesTyped(q, Updated(b, w, Tail(b[w])), g) /\ e \in [Tasks -> Fates]
  BY <1>2 DEF Placed, QueuesTyped, Updated
<1>5. \A u \in Tasks : e[u] = IF u = Head(b[w]) THEN v ELSE f[u]
  BY DEF Placed
<1>6. \A u \in Tasks : f[u] = "queued" <=> Has(c, Places, u)
  BY DEF Placed
<1> HIDE DEF c, d, e
<1>7. LET k == Updated(c, BatchPlace(w), Tail(c[BatchPlace(w)]))
      IN  /\ Spread(k, Places) /\ Has(c, Places, Head(c[BatchPlace(w)]))
          /\ \A y : Has(k, Places, y) <=> Has(c, Places, y) /\ y # Head(c[BatchPlace(w)])
  BY <1>1, SpreadTail
<1>8. /\ Spread(d, Places) /\ Has(c, Places, Head(b[w]))
      /\ \A y : Has(d, Places, y) <=> Has(c, Places, y) /\ y # Head(b[w])
  BY <1>1, <1>3, <1>7
<1>9. \A u \in Tasks : e[u] = "queued" <=> Has(d, Places, u)
  BY <1>5, <1>6, <1>8
<1>10. f[Head(b[w])] = "queued"
  BY <1>2, <1>6, <1>8
<1> QED
  BY <1>2, <1>4, <1>8, <1>9, <1>10 DEF Placed, d, e

LEMMA TakeFromGeneral ==
    ASSUME NEW q, NEW b, NEW g, NEW f, Placed(q, b, g, f), NEW w \in Workers, g[w] # <<>>,
           NEW v \in Fates, v # "queued"
    PROVE  /\ Head(g[w]) \in General /\ f[Head(g[w])] = "queued"
           /\ Placed(q, b, Updated(g, w, Tail(g[w])), [f EXCEPT ![Head(g[w])] = v])
<1> DEFINE c == Family(q, b, g)
           d == Family(q, b, Updated(g, w, Tail(g[w])))
           e == [f EXCEPT ![Head(g[w])] = v]
<1>1. /\ c \in [Places -> Seq(Tasks)] /\ GeneralPlace(w) \in Places /\ Spread(c, Places)
      /\ c[GeneralPlace(w)] = g[w] /\ g \in [Workers -> Seq(General)]
  BY FamilyTyped, PlacesAre, FamilyAt DEF Placed, QueuesTyped
<1>2. Head(g[w]) \in General /\ Head(g[w]) \in Tasks /\ Tail(g[w]) \in Seq(General)
  <2>1. g[w] \in Seq(General)
    BY <1>1
  <2>2. Head(g[w]) \in General /\ Tail(g[w]) \in Seq(General)
    BY <2>1
  <2> QED
    BY <2>2 DEF Tasks
<1>3. d = Updated(c, GeneralPlace(w), Tail(g[w]))
  BY <1>1, FamilyUpdate
<1>4. QueuesTyped(q, b, Updated(g, w, Tail(g[w]))) /\ e \in [Tasks -> Fates]
  BY <1>2 DEF Placed, QueuesTyped, Updated
<1>5. \A u \in Tasks : e[u] = IF u = Head(g[w]) THEN v ELSE f[u]
  BY DEF Placed
<1>6. \A u \in Tasks : f[u] = "queued" <=> Has(c, Places, u)
  BY DEF Placed
<1> HIDE DEF c, d, e
<1>7. LET k == Updated(c, GeneralPlace(w), Tail(c[GeneralPlace(w)]))
      IN  /\ Spread(k, Places) /\ Has(c, Places, Head(c[GeneralPlace(w)]))
          /\ \A y : Has(k, Places, y) <=> Has(c, Places, y) /\ y # Head(c[GeneralPlace(w)])
  BY <1>1, SpreadTail
<1>8. /\ Spread(d, Places) /\ Has(c, Places, Head(g[w]))
      /\ \A y : Has(d, Places, y) <=> Has(c, Places, y) /\ y # Head(g[w])
  BY <1>1, <1>3, <1>7
<1>9. \A u \in Tasks : e[u] = "queued" <=> Has(d, Places, u)
  BY <1>5, <1>6, <1>8
<1>10. f[Head(g[w])] = "queued"
  BY <1>2, <1>6, <1>8
<1> QED
  BY <1>2, <1>4, <1>8, <1>9, <1>10 DEF Placed, d, e

LEMMA MoveToBatch ==
    ASSUME NEW q, NEW b, NEW g, NEW f, Placed(q, b, g, f), NEW w \in Workers, b[w] = <<>>, NEW n \in 1 .. Len(q)
    PROVE  Placed(SubSeq(q, n + 1, Len(q)), Updated(b, w, SubSeq(q, 1, n)), g, f)
<1> DEFINE c  == Family(q, b, g)
           q1 == SubSeq(q, 1, n)
           q2 == SubSeq(q, n + 1, Len(q))
           b2 == Updated(b, w, q1)
           d  == Family(q2, b2, g)
<1>1. /\ c \in [Places -> Seq(Tasks)] /\ BatchPlace(w) \in Places /\ PortPlace \in Places
      /\ PortPlace # BatchPlace(w) /\ Spread(c, Places)
  BY FamilyTyped, PlacesAre, PlacesDiffer DEF Placed
<1>2. c[BatchPlace(w)] = <<>> /\ c[PortPlace] = q
  BY FamilyAt
<1>3. q \in Seq(Deferred) /\ b \in [Workers -> Seq(Deferred)] /\ g \in [Workers -> Seq(General)]
  BY DEF Placed, QueuesTyped
<1>4. q2 \in Seq(Deferred) /\ q1 \in Seq(Deferred)
  <2>1. \A i \in 1 .. Len(q) : q[i] \in Deferred
    BY <1>3
  <2> QED
    BY <1>3, <2>1
<1>5. b2 \in [Workers -> Seq(Deferred)]
  <2> HIDE DEF q1
  <2> QED
    BY <1>3, <1>4 DEF Updated
<1>6. QueuesTyped(q2, b2, g)
  <2> HIDE DEF q2, b2
  <2> QED
    BY <1>3, <1>4, <1>5 DEF QueuesTyped
<1>7. d = Updated(Updated(c, BatchPlace(w), q1), PortPlace, q2)
  <2> HIDE DEF q1, q2
  <2>1. Family(q, b2, g) = Updated(c, BatchPlace(w), q1)
    BY <1>3, FamilyUpdate
  <2> HIDE DEF b2
  <2>2. d = Updated(Family(q, b2, g), PortPlace, q2)
    BY FamilyPort
  <2> QED
    BY <2>1, <2>2
<1>8. f \in [Tasks -> Fates] /\ \A u \in Tasks : f[u] = "queued" <=> Has(c, Places, u)
  BY DEF Placed
<1>9. Spread(d, Places) /\ \A y : Has(d, Places, y) <=> Has(c, Places, y)
  <2> HIDE DEF c, d
  <2>1. LET k == Updated(Updated(c, BatchPlace(w), SubSeq(c[PortPlace], 1, n)), PortPlace,
                         SubSeq(c[PortPlace], n + 1, Len(c[PortPlace])))
        IN  Spread(k, Places) /\ \A y : Has(k, Places, y) <=> Has(c, Places, y)
    BY <1>1, <1>2, SpreadSplit
  <2> QED
    BY <1>2, <1>7, <2>1
<1> HIDE DEF c, d, q1, q2, b2
<1>10. Placed(q2, b2, g, f)
  BY <1>6, <1>8, <1>9 DEF Placed, d
<1> QED
  BY <1>10 DEF q1, q2, b2

LEMMA LosePort ==
    ASSUME NEW q, NEW b, NEW g, NEW f, Placed(q, b, g, f)
    PROVE  Placed(<<>>, b, g, [t \in Tasks |-> IF \E i \in 1 .. Len(q) : q[i] = t THEN "lost" ELSE f[t]])
<1> DEFINE c == Family(q, b, g)
           d == Family(<<>>, b, g)
           e == [t \in Tasks |-> IF \E i \in 1 .. Len(q) : q[i] = t THEN "lost" ELSE f[t]]
<1>1. c \in [Places -> Seq(Tasks)] /\ PortPlace \in Places /\ Spread(c, Places) /\ c[PortPlace] = q
  BY FamilyTyped, PlacesAre, FamilyAt DEF Placed
<1>2. d = Updated(c, PortPlace, <<>>)
  BY FamilyPort
<1>3. e \in [Tasks -> Fates]
  BY DEF Placed, Fates
<1>4. <<>> \in Seq(Deferred)
  OBVIOUS
<1>5. QueuesTyped(<<>>, b, g)
  BY <1>4 DEF Placed, QueuesTyped
<1>6. \A u \in Tasks : e[u] = IF \E i \in 1 .. Len(q) : q[i] = u THEN "lost" ELSE f[u]
  OBVIOUS
<1>7. \A u \in Tasks : f[u] = "queued" <=> Has(c, Places, u)
  BY DEF Placed
<1> HIDE DEF c, d, e
<1>8. Spread(d, Places) /\ \A y : Has(d, Places, y) <=> Has(c, Places, y) /\ ~\E i \in 1 .. Len(q) : q[i] = y
  <2>1. LET k == Updated(c, PortPlace, <<>>)
        IN  /\ Spread(k, Places)
            /\ \A y : Has(k, Places, y)
                       <=> Has(c, Places, y) /\ ~\E i \in 1 .. Len(c[PortPlace]) : c[PortPlace][i] = y
    BY <1>1, SpreadDrop
  <2> QED
    BY <1>1, <1>2, <2>1
<1>9. ASSUME NEW u \in Tasks PROVE e[u] = "queued" <=> Has(d, Places, u)
  <2>1. CASE \E i \in 1 .. Len(q) : q[i] = u
    <3>1. e[u] = "lost"
      BY <1>6, <2>1
    <3>2. ~Has(d, Places, u)
      BY <1>8, <2>1, Zenon
    <3> QED
      BY <3>1, <3>2
  <2>2. CASE ~\E i \in 1 .. Len(q) : q[i] = u
    BY <1>6, <1>7, <1>8, <2>2
  <2> QED
    BY <2>1, <2>2
<1> QED
  BY <1>3, <1>5, <1>8, <1>9 DEF Placed, d, e

(* What is invariant: the tasks are placed, a worker has some in hand      *)
(* exactly while it dispatches, and only the closed port loses any.        *)
DispatchLabels == {"loop", "left", "wait", "dispatch", "general", "tick"}

LoopIInv ==
    /\ Placed(queue, batch, general, fate)
    /\ running \in BOOLEAN /\ port \in BOOLEAN
    /\ pc \in [Threads -> Labels]
    /\ \A w \in Workers : pc[w] \in DispatchLabels /\ (pc[w] = "dispatch" <=> batch[w] # <<>>)
    /\ \A t \in Tasks : fate[t] = "lost" => ~port
    /\ ~port => queue = <<>>

LEMMA LoopIInvInit == LoopInit => LoopIInv
<1> SUFFICES ASSUME LoopInit PROVE LoopIInv
  OBVIOUS
<1>1. QueuesTyped(queue, batch, general) /\ fate \in [Tasks -> Fates]
  BY DEF LoopInit, QueuesTyped, Fates
<1>2. \A p \in Places : Family(queue, batch, general)[p] = <<>>
  BY PlacesAre, FamilyAt DEF LoopInit
<1>3. \A p \in Places : Len(Family(queue, batch, general)[p]) = 0
  BY <1>2
<1>4. Placed(queue, batch, general, fate)
  <2>1. Spread(Family(queue, batch, general), Places)
    BY <1>3 DEF Spread
  <2>2. \A t \in Tasks : ~Has(Family(queue, batch, general), Places, t)
    BY <1>3 DEF Has
  <2>3. \A t \in Tasks : fate[t] = "new"
    BY DEF LoopInit
  <2> QED
    BY <1>1, <2>1, <2>2, <2>3 DEF Placed
<1>5. Main \notin Workers /\ Starter \notin Workers
  BY AsyncIOAssumption
<1>6. pc \in [Threads -> Labels]
  BY DEF LoopInit, Labels, LoopLabels
<1>7. \A w \in Workers : pc[w] = "loop" /\ batch[w] = <<>>
  BY DEF LoopInit, Threads
<1>8. running \in BOOLEAN /\ port \in BOOLEAN /\ port /\ \A t \in Tasks : fate[t] # "lost"
  BY DEF LoopInit
<1> QED
  BY <1>4, <1>6, <1>7, <1>8 DEF LoopIInv, DispatchLabels

(* The part of the invariant that a step of one worker must keep.          *)
LEMMA LoopControl ==
    ASSUME LoopIInv, NEW w \in Workers, NEW l \in DispatchLabels, pc' = [pc EXCEPT ![w] = l],
           \A u \in Workers : u # w => batch'[u] = batch[u],
           l = "dispatch" <=> batch'[w] # <<>>
    PROVE  /\ pc' \in [Threads -> Labels]
           /\ \A u \in Workers : pc'[u] \in DispatchLabels /\ (pc'[u] = "dispatch" <=> batch'[u] # <<>>)
<1>1. pc \in [Threads -> Labels] /\ w \in Threads /\ l \in Labels
  BY DEF LoopIInv, Threads, Labels, LoopLabels, DispatchLabels
<1>2. pc' \in [Threads -> Labels]
  BY <1>1
<1>3. \A u \in Workers : pc'[u] = IF u = w THEN l ELSE pc[u]
  BY <1>1 DEF Threads
<1> QED
  BY <1>2, <1>3 DEF LoopIInv

LEMMA LoopIInvDefer ==
    ASSUME LoopIInv, NEW t \in Deferred, Defer(t) PROVE LoopIInv'
<1>1. t \in Tasks /\ fate[t] = "new" /\ fate \in [Tasks -> Fates]
  BY DEF Defer, Tasks, LoopIInv, Placed
<1>2. CASE port /\ queue' = Append(queue, t) /\ fate' = [fate EXCEPT ![t] = "queued"]
  <2>1. Placed(queue, batch, general, fate)' 
    BY <1>1, <1>2, PutInPort DEF LoopIInv, Defer
  <2>2. \A u \in Tasks : fate'[u] = "lost" => fate[u] = "lost"
    BY <1>1, <1>2
  <2> QED
    BY <1>2, <2>1, <2>2 DEF LoopIInv, Defer
<1>3. CASE ~port /\ fate' = [fate EXCEPT ![t] = "lost"] /\ UNCHANGED queue
  <2>1. \A u \in Tasks : fate'[u] = "queued" <=> fate[u] = "queued"
    BY <1>1, <1>3
  <2>2. fate' \in [Tasks -> Fates]
    BY <1>1, <1>3 DEF Fates
  <2>3. Placed(queue, batch, general, fate)'
    BY <1>3, <2>1, <2>2 DEF LoopIInv, Defer, Placed
  <2> QED
    BY <1>3, <2>3 DEF LoopIInv, Defer
<1> QED
  BY <1>2, <1>3 DEF Defer

LEMMA LoopIInvDeferGeneral ==
    ASSUME LoopIInv, NEW t \in General, DeferGeneral(t) PROVE LoopIInv'
<1>1. t \in Tasks /\ fate[t] = "new" /\ fate \in [Tasks -> Fates]
  BY DEF DeferGeneral, Tasks, LoopIInv, Placed
<1>2. PICK w \in Workers : general' = Updated(general, w, Append(general[w], t))
  BY DEF DeferGeneral, LoopIInv, Placed, QueuesTyped, Updated
<1>3. Placed(queue, batch, general, fate)'
  BY <1>1, <1>2, PutInGeneral DEF LoopIInv, DeferGeneral, portVars
<1>4. \A u \in Tasks : fate'[u] = "lost" => fate[u] = "lost"
  BY <1>1 DEF DeferGeneral
<1> QED
  BY <1>3, <1>4 DEF LoopIInv, DeferGeneral, portVars

LEMMA LoopIInvMoves ==
    ASSUME LoopIInv, NEW w \in Workers, Loop(w) \/ Timeout(w) \/ SystemFailure(w) \/ Tick(w) PROVE LoopIInv'
<1>1. PICK l \in DispatchLabels \ {"dispatch"} : pc' = [pc EXCEPT ![w] = l]
  BY DEF Loop, Timeout, SystemFailure, Tick, Goto, DispatchLabels, AfterIO
<1>2. pc[w] # "dispatch"
  BY DEF Loop, Timeout, SystemFailure, Tick
<1>3. UNCHANGED <<running, port, queue, batch, general, fate>>
  BY DEF Loop, Timeout, SystemFailure, Tick, portVars, taskVars
<1>4. batch'[w] = <<>>
  BY <1>2, <1>3 DEF LoopIInv
<1>5. /\ pc' \in [Threads -> Labels]
      /\ \A u \in Workers : pc'[u] \in DispatchLabels /\ (pc'[u] = "dispatch" <=> batch'[u] # <<>>)
  BY <1>1, <1>3, <1>4, LoopControl
<1> QED
  BY <1>3, <1>5 DEF LoopIInv

LEMMA LoopIInvDequeue ==
    ASSUME LoopIInv, NEW w \in Workers, Dequeue(w) PROVE LoopIInv'
<1>1. /\ queue \in Seq(Deferred) /\ batch \in [Workers -> Seq(Deferred)] /\ pc[w] = "wait" /\ port
      /\ pc' = [pc EXCEPT ![w] = "dispatch"] /\ UNCHANGED <<running, port, general, fate>>
  BY DEF LoopIInv, Placed, QueuesTyped, Dequeue, Goto, taskVars
<1>2. PICK n \in 1 .. Len(queue) : /\ batch' = Updated(batch, w, SubSeq(queue, 1, n))
                                  /\ queue' = SubSeq(queue, n + 1, Len(queue))
  <2> DEFINE m == IF Len(queue) < BatchSize THEN Len(queue) ELSE BatchSize
  <2>1. BatchSize \in Nat \ {0} /\ Len(queue) \in Nat
    BY <1>1, AsyncIOAssumption
  <2>2. m > 0 /\ batch' = Updated(batch, w, SubSeq(queue, 1, m)) /\ queue' = SubSeq(queue, m + 1, Len(queue))
    BY DEF Dequeue, Updated
  <2>3. m \in 1 .. Len(queue)
    BY <2>1, <2>2
  <2> HIDE DEF m
  <2> QED
    BY <2>2, <2>3
<1>3. batch[w] = <<>>
  BY <1>1 DEF LoopIInv
<1>4. Placed(queue, batch, general, fate)'
  BY <1>1, <1>2, <1>3, MoveToBatch DEF LoopIInv
<1>5. batch'[w] # <<>>
  <2>1. batch'[w] = SubSeq(queue, 1, n) /\ \A i \in 1 .. Len(queue) : queue[i] \in Deferred
    BY <1>1, <1>2 DEF Updated
  <2>2. Len(SubSeq(queue, 1, n)) = n
    BY <1>1, <2>1
  <2> QED
    BY <2>1, <2>2
<1>6. \A u \in Workers : u # w => batch'[u] = batch[u]
  BY <1>1, <1>2 DEF Updated
<1>7. /\ pc' \in [Threads -> Labels]
      /\ \A u \in Workers : pc'[u] \in DispatchLabels /\ (pc'[u] = "dispatch" <=> batch'[u] # <<>>)
  BY <1>1, <1>5, <1>6, LoopControl DEF DispatchLabels
<1> QED
  BY <1>1, <1>4, <1>7 DEF LoopIInv

LEMMA LoopIInvHandleTask ==
    ASSUME LoopIInv, NEW w \in Workers, HandleTask(w) PROVE LoopIInv'
<1>1. PICK t \in Deferred : t = Head(batch[w]) /\ t \in Tasks
  BY DEF HandleTask, Tasks
<1>2. /\ queue \in Seq(Deferred) /\ batch \in [Workers -> Seq(Deferred)] /\ fate \in [Tasks -> Fates]
      /\ pc[w] = "dispatch" /\ batch' = Updated(batch, w, Tail(batch[w])) /\ UNCHANGED <<running, port, general>>
  BY DEF LoopIInv, Placed, QueuesTyped, HandleTask, Handled, Updated
<1>3. /\ queue' = IF t \in Repeating /\ port THEN Append(queue, t) ELSE queue
      /\ fate' = [fate EXCEPT ![t] = IF t \notin Repeating THEN "done"
                                     ELSE IF port THEN "queued" ELSE "lost"]
  BY <1>1 DEF HandleTask
<1>4. batch[w] # <<>>
  BY <1>2 DEF LoopIInv
<1>5. \A v \in Fates : v # "queued" => Placed(queue, batch', general, [fate EXCEPT ![t] = v])
  BY <1>1, <1>2, <1>4, TakeFromBatch DEF LoopIInv
<1>6. Placed(queue, batch, general, fate)'
  <2>1. CASE t \in Repeating /\ port
    <3> DEFINE f == [fate EXCEPT ![t] = "new"]
    <3>1. Placed(queue, batch', general, f)
      BY <1>5 DEF Fates
    <3>2. f[t] # "queued" /\ [f EXCEPT ![t] = "queued"] = [fate EXCEPT ![t] = "queued"]
      BY <1>1, <1>2
    <3> HIDE DEF f
    <3>3. Placed(Append(queue, t), batch', general, [f EXCEPT ![t] = "queued"])
      BY <3>1, <3>2, PutInPort
    <3>4. queue' = Append(queue, t) /\ fate' = [f EXCEPT ![t] = "queued"]
      BY <1>3, <2>1, <3>2
    <3> QED
      BY <1>2, <3>3, <3>4
  <2>2. CASE ~(t \in Repeating /\ port)
    <3>1. PICK v \in Fates : v # "queued" /\ fate' = [fate EXCEPT ![t] = v]
      BY <1>3, <2>2 DEF Fates
    <3> QED
      BY <1>2, <1>3, <1>5, <2>2, <3>1
  <2> QED
    BY <2>1, <2>2
<1>7. \A u \in Tasks : fate'[u] = "lost" => ~port
  <2>1. \A u \in Tasks : fate'[u] = IF u = t THEN IF t \notin Repeating THEN "done"
                                                  ELSE IF port THEN "queued" ELSE "lost"
                                    ELSE fate[u]
    BY <1>2, <1>3
  <2> QED
    BY <2>1 DEF LoopIInv
<1>8. ~port => queue' = <<>>
  BY <1>3 DEF LoopIInv
<1>9. PICK l \in DispatchLabels : pc' = [pc EXCEPT ![w] = l] /\ (l = "dispatch" <=> Len(batch[w]) # 1)
  BY DEF HandleTask, Handled, Goto, AfterIO, DispatchLabels
<1>10. batch'[w] # <<>> <=> Len(batch[w]) # 1
  <2>1. batch[w] \in Seq(Deferred) /\ batch'[w] = Tail(batch[w])
    BY <1>2 DEF Updated
  <2>2. Len(batch[w]) \in Nat \ {0} /\ Len(Tail(batch[w])) = Len(batch[w]) - 1 /\ Tail(batch[w]) \in Seq(Deferred)
    BY <1>4, <2>1
  <2>3. Tail(batch[w]) = <<>> <=> Len(Tail(batch[w])) = 0
    BY <2>2, EmptySeq
  <2> QED
    BY <2>1, <2>2, <2>3
<1>11. \A u \in Workers : u # w => batch'[u] = batch[u]
  BY <1>2 DEF Updated
<1>12. /\ pc' \in [Threads -> Labels]
       /\ \A u \in Workers : pc'[u] \in DispatchLabels /\ (pc'[u] = "dispatch" <=> batch'[u] # <<>>)
  BY <1>9, <1>10, <1>11, LoopControl
<1> QED
  BY <1>2, <1>6, <1>7, <1>8, <1>12 DEF LoopIInv

LEMMA LoopIInvHandleGeneral ==
    ASSUME LoopIInv, NEW w \in Workers, HandleGeneralTasksWithThrottle(w) PROVE LoopIInv'
<1>1. UNCHANGED <<running, port, queue, batch>> /\ pc[w] = "general" /\ batch[w] = <<>>
  BY DEF HandleGeneralTasksWithThrottle, portVars, LoopIInv
<1>2. CASE pc' = [pc EXCEPT ![w] = "tick"] /\ UNCHANGED <<general, fate>>
  <2>1. /\ pc' \in [Threads -> Labels]
        /\ \A u \in Workers : pc'[u] \in DispatchLabels /\ (pc'[u] = "dispatch" <=> batch'[u] # <<>>)
    BY <1>1, <1>2, LoopControl DEF DispatchLabels
  <2> QED
    BY <1>1, <1>2, <2>1 DEF LoopIInv
<1>3. CASE general[w] # <<>> /\ UNCHANGED pc
           /\ fate' = [fate EXCEPT ![Head(general[w])] = IF Head(general[w]) \in Repeating THEN @ ELSE "done"]
           /\ IF Head(general[w]) \in Repeating
              THEN \E u \in Workers : general' = [[general EXCEPT ![w] = Tail(@)] EXCEPT ![u] = Append(@, Head(general[w]))]
              ELSE general' = [general EXCEPT ![w] = Tail(@)]
  <2>1. general \in [Workers -> Seq(General)] /\ fate \in [Tasks -> Fates]
    BY DEF LoopIInv, Placed, QueuesTyped
  <2> DEFINE left == Updated(general, w, Tail(general[w]))
  <2>2. /\ Head(general[w]) \in General /\ fate[Head(general[w])] = "queued"
        /\ \A v \in Fates : v # "queued" => Placed(queue, batch, left, [fate EXCEPT ![Head(general[w])] = v])
    <3>1. \A v \in Fates : v # "queued" =>
             /\ Head(general[w]) \in General /\ fate[Head(general[w])] = "queued"
             /\ Placed(queue, batch, left, [fate EXCEPT ![Head(general[w])] = v])
      BY <1>3, TakeFromGeneral DEF LoopIInv
    <3>2. "done" \in Fates /\ "done" # "queued"
      BY DEF Fates
    <3> QED
      BY <3>1, <3>2
  <2>3. left = [general EXCEPT ![w] = Tail(@)]
    BY <2>1 DEF Updated
  <2> HIDE DEF left
  <2>4. PICK t \in General : t = Head(general[w]) /\ t \in Tasks
    BY <2>2 DEF Tasks
  <2>5. Placed(queue, batch, general, fate)'
    <3>1. CASE t \in Repeating
      <4>1. PICK u \in Workers : general' = [left EXCEPT ![u] = Append(@, t)]
        BY <1>3, <2>3, <2>4, <3>1
      <4> DEFINE f == [fate EXCEPT ![t] = "new"]
      <4>2. Placed(queue, batch, left, f)
        BY <2>2, <2>4 DEF Fates
      <4>3. f[t] # "queued" /\ [f EXCEPT ![t] = "queued"] = fate
        BY <2>1, <2>2, <2>4
      <4> HIDE DEF f
      <4>4. Placed(queue, batch, Updated(left, u, Append(left[u], t)), [f EXCEPT ![t] = "queued"])
        BY <4>2, <4>3, PutInGeneral
      <4>5. general' = Updated(left, u, Append(left[u], t))
        BY <4>1 DEF Updated
      <4>6. fate' = fate
        BY <1>3, <2>1, <2>4, <3>1
      <4> QED
        BY <1>1, <4>3, <4>4, <4>5, <4>6
    <3>2. CASE t \notin Repeating
      <4>1. general' = left /\ fate' = [fate EXCEPT ![t] = "done"]
        BY <1>3, <2>3, <2>4, <3>2
      <4>2. Placed(queue, batch, left, [fate EXCEPT ![t] = "done"])
        BY <2>2, <2>4 DEF Fates
      <4> QED
        BY <1>1, <4>1, <4>2
    <3> QED
      BY <3>1, <3>2
  <2>6. \A u \in Tasks : fate'[u] = "lost" => fate[u] = "lost"
    BY <1>3, <2>1, <2>4
  <2> QED
    BY <1>1, <1>3, <2>5, <2>6 DEF LoopIInv
<1> QED
  BY <1>2, <1>3 DEF HandleGeneralTasksWithThrottle, Goto

LEMMA LoopIInvStop ==
    ASSUME LoopIInv, SignalToStop("closePort") \/ StopAsyncIO PROVE LoopIInv'
<1>1. Main \notin Workers /\ Main \in Threads
  BY AsyncIOAssumption DEF Threads
<1>2. PICK l \in {"closePort", "stopped"} : pc' = [pc EXCEPT ![Main] = l]
  BY DEF SignalToStop, StopAsyncIO, Goto
<1>3. pc' \in [Threads -> Labels] /\ \A w \in Workers : pc'[w] = pc[w]
  BY <1>1, <1>2 DEF LoopIInv, Labels, Threads
<1>4. CASE SignalToStop("closePort")
  BY <1>3, <1>4 DEF SignalToStop, LoopIInv, portVars, taskVars
<1>5. CASE StopAsyncIO
  <2>1. Placed(queue, batch, general, fate)'
    BY <1>5, LosePort DEF StopAsyncIO, LoopIInv
  <2> QED
    BY <1>3, <1>5, <2>1 DEF StopAsyncIO, LoopIInv
<1> QED
  BY <1>4, <1>5

LEMMA LoopIInvNext == LoopIInv /\ [LoopNext]_loopVars => LoopIInv'
<1> SUFFICES ASSUME LoopIInv, [LoopNext]_loopVars PROVE LoopIInv'
  OBVIOUS
<1>1. CASE UNCHANGED loopVars
  BY <1>1 DEF LoopIInv, loopVars, portVars, taskVars
<1>2. ASSUME NEW w \in Workers, WorkerStep(w) PROVE LoopIInv'
  BY <1>2, LoopIInvMoves, LoopIInvDequeue, LoopIInvHandleTask, LoopIInvHandleGeneral DEF WorkerStep
<1> QED
  BY <1>1, <1>2, LoopIInvDefer, LoopIInvDeferGeneral, LoopIInvStop DEF LoopNext

LEMMA LoopIInvPlaces == LoopIInv => TasksInOneQueue
<1> SUFFICES ASSUME LoopIInv PROVE TasksInOneQueue
  OBVIOUS
<1> DEFINE c == Family(queue, batch, general)
<1>1. \A p \in Places : c[p] = At(p)
  BY DEF Family, At
<1>2. Spread(c, Places) /\ \A t \in Tasks : fate[t] = "queued" <=> Has(c, Places, t)
  BY DEF LoopIInv, Placed
<1> HIDE DEF c
<1>3. \A t \in Tasks : fate[t] = "queued" <=> \E p \in Places : \E i \in 1 .. Len(At(p)) : At(p)[i] = t
  BY <1>1, <1>2 DEF Has
<1>4. ASSUME NEW p \in Places, NEW q \in Places, NEW i \in 1 .. Len(At(p)), NEW j \in 1 .. Len(At(q)), At(p)[i] = At(q)[j]
      PROVE  p = q /\ i = j
  <2>1. i \in 1 .. Len(c[p]) /\ j \in 1 .. Len(c[q]) /\ c[p][i] = c[q][j]
    BY <1>1, <1>4
  <2> QED
    BY <1>2, <2>1 DEF Spread
<1>5. /\ \A t \in Tasks : fate[t] = "lost" => ~port
      /\ ~port => queue = <<>>
      /\ \A w \in Workers : pc[w] = "left" => batch[w] = <<>>
  BY DEF LoopIInv
<1> QED
  BY <1>3, <1>4, <1>5 DEF TasksInOneQueue

(* However many workers and tasks there are, and wherever the stop finds   *)
(* them: a deferred task that was not run yet is in one queue, once; only  *)
(* the closed port loses tasks, and no worker leaves with tasks in hand.   *)
THEOREM OneQueue == LoopSpec => []TasksInOneQueue
<1> QED
  BY LoopIInvInit, LoopIInvNext, LoopIInvPlaces, PTL DEF LoopSpec
============
