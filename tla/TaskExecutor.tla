---------------------------- MODULE TaskExecutor ----------------------------
(***************************************************************************)
(* What a thread pool promises the code that dispatches tasks to it        *)
(* (cplatform/cthreadpool.h): tasks are handed to the threads in turn, a   *)
(* thread begins the tasks it was handed one at a time and in that order,  *)
(* and a task is begun at most once.  How a thread is woken is not part of *)
(* the promise; neither is that a task is begun at all, because a pool     *)
(* may be told to exit.                                                    *)
(***************************************************************************)
EXTENDS Integers, Sequences

CONSTANTS NumThreads, MaxTasks

VARIABLES
    turn,        \* the thread that is handed the next task
    submitted,   \* how many tasks have been handed out
    waiting      \* tasks handed to each thread and not yet begun

vars == <<turn, submitted, waiting>>

Init ==
    /\ turn = 0
    /\ submitted = 0
    /\ waiting = [t \in 0 .. NumThreads - 1 |-> <<>>]

Submit ==
    /\ submitted < MaxTasks
    /\ submitted' = submitted + 1
    /\ waiting' = [waiting EXCEPT ![turn] = Append(@, submitted + 1)]
    /\ turn' = IF turn + 1 = NumThreads THEN 0 ELSE turn + 1

Begin(t) ==
    /\ waiting[t] # <<>>
    /\ waiting' = [waiting EXCEPT ![t] = Tail(@)]
    /\ UNCHANGED <<turn, submitted>>

Next == Submit \/ \E t \in 0 .. NumThreads - 1 : Begin(t)

Spec == Init /\ [][Next]_vars
=============================================================================
