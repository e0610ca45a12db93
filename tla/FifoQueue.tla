------------------------------ MODULE FifoQueue ------------------------------
(***************************************************************************)
(* What the intrusive task queues of SkylakeLib promise: a first-in        *)
(* first-out queue of tasks in which Push takes effect in one step and     *)
(* the single consumer takes the oldest task, uses it and hands it back    *)
(* to the allocator.  A task is in the queue at most once, and never while *)
(* the consumer still uses it.  (A Pop that answers nullptr changes        *)
(* nothing, so it is a stuttering step here.)                              *)
(***************************************************************************)
EXTENDS Sequences

CONSTANTS Tasks,  \* the task objects
          Nil     \* the null pointer

VARIABLES queue,  \* the tasks pushed and not yet popped, oldest first
          taken   \* the task the consumer popped and still uses, or Nil

vars == <<queue, taken>>

InQueue(t) == \E i \in DOMAIN queue : queue[i] = t

Init == queue = <<>> /\ taken = Nil

Push(t) ==
    /\ ~InQueue(t) /\ t # taken
    /\ queue' = Append(queue, t)
    /\ UNCHANGED taken

Pop ==
    /\ taken = Nil /\ queue # <<>>
    /\ taken' = Head(queue)
    /\ queue' = Tail(queue)

Release ==
    /\ taken # Nil
    /\ taken' = Nil
    /\ UNCHANGED queue

Next == (\E t \in Tasks : Push(t)) \/ Pop \/ Release

Spec == Init /\ [][Next]_vars
=============================================================================
