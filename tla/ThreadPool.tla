----------------------------- MODULE ThreadPool -----------------------------
(***************************************************************************)
(* CCThreadPool and its CThreads (cplatform/cthreadpool.cpp, cthread.cpp). *)
(*                                                                         *)
(* One dispatching thread (the thread that called init, or the listening   *)
(* thread of CService) hands tasks to the worker threads round robin: it   *)
(* appends the task to the worker's list and writes one byte to the        *)
(* worker's pipe.  A worker runs its event loop; the pipe event reads one  *)
(* byte, pops one task and calls its init().  exitAllThread may be called  *)
(* by any thread, also while init is still creating threads.               *)
(*                                                                         *)
(* Threads are the positions 0 .. NumThreads-1 of threads_; tasks are      *)
(* numbered in the order of their dispatch.                                *)
(***************************************************************************)
EXTENDS Integers, Sequences

CONSTANTS
    NumThreads,   \* the argument of CCThreadPool::init
    MaxTasks,     \* bound: how many tasks are dispatched
    PipeCap       \* bytes a pipe holds before write() blocks

ASSUME NumThreadsAssumption == NumThreads \in Nat \ {0}
ASSUME MaxTasksAssumption == MaxTasks \in Nat
ASSUME PipeCapAssumption == PipeCap \in Nat \ {0}

Threads == 0 .. NumThreads - 1
Tasks == 1 .. MaxTasks

VARIABLES
    mainPc,       \* where the dispatching thread is
    nextThread,   \* i of the loop of init
    lastThread,   \* lastThread_
    nextTask,     \* the task dispatched next
    setup,        \* what CThread::setup did for each thread
    allThreads,   \* the static list exitAllThread walks
    workerPc,     \* where mainFunc/notify of each worker is
    tasks,        \* tasks_ of each worker
    pipe,         \* bytes in each worker's pipe
    hand,         \* the task a worker popped and has not init'ed (0: none)
    isExit,       \* isExit_ of each worker
    exitPc,       \* where the caller of exitAllThread is
    toExit        \* threads the loop of exitAllThread has yet to mark

dispatchVars == <<mainPc, nextThread, lastThread, nextTask>>
workerVars == <<workerPc, hand>>
exitVars == <<isExit, exitPc, toExit>>
vars == <<mainPc, nextThread, lastThread, nextTask, setup, allThreads,
          workerPc, tasks, pipe, hand, isExit, exitPc, toExit>>

Init ==
    /\ mainPc = "start" /\ nextThread = 0 /\ lastThread = -1 /\ nextTask = 1
    /\ setup = [t \in Threads |-> "none"]
    /\ allThreads = {}
    /\ workerPc = [t \in Threads |-> "none"]
    /\ tasks = [t \in Threads |-> <<>>]
    /\ pipe = [t \in Threads |-> 0]
    /\ hand = [t \in Threads |-> 0]
    /\ isExit = [t \in Threads |-> FALSE]
    /\ exitPc = "no" /\ toExit = {}

-----------------------------------------------------------------------------
(* CCThreadPool::init: start a thread, then list it for exitAllThread.     *)

\* setup() may fail at pipe() or at event_base_new; startThread ignores that
\* and starts a thread whose mainFunc returns at once.
StartThread ==
    /\ mainPc = "start"
    /\ \E r \in {"ok", "noPipe", "noBase"} :
          /\ setup' = [setup EXCEPT ![nextThread] = r]
          /\ workerPc' = [workerPc EXCEPT ![nextThread] =
                             IF r = "ok" THEN "loop" ELSE "ended"]
    /\ mainPc' = "register"
    /\ UNCHANGED <<nextThread, lastThread, nextTask, allThreads, tasks, pipe,
                   hand, exitVars>>

\* allThreadsMtx is held by exitAllThread while it walks the list.
RegisterFree == exitPc # "marking"

RegisterThread ==
    /\ mainPc = "register"
    /\ RegisterFree
    /\ allThreads' = allThreads \cup {nextThread}
    /\ nextThread' = nextThread + 1
    /\ mainPc' = IF nextThread + 1 = NumThreads THEN "idle" ELSE "start"
    /\ UNCHANGED <<lastThread, nextTask, setup, workerVars, tasks, pipe,
                   exitVars>>

-----------------------------------------------------------------------------
(* CCThreadPool::dispatch: addTask, then activate.                         *)

NextThread == (lastThread + 1) % NumThreads

\* Whatever setup() did, the thread gets its turn.
AddTask ==
    /\ mainPc = "idle" /\ nextTask <= MaxTasks
    /\ lastThread' = NextThread
    /\ tasks' = [tasks EXCEPT ![NextThread] = Append(@, nextTask)]
    /\ mainPc' = "activate"
    /\ UNCHANGED <<nextThread, nextTask, setup, allThreads, workerVars, pipe,
                   exitVars>>

\* write() blocks while the pipe is full; without a pipe the byte goes to
\* descriptor 0 and wakes nobody.
Activate ==
    /\ mainPc = "activate"
    /\ \/ /\ setup[lastThread] = "noPipe"
          /\ UNCHANGED pipe
       \/ /\ setup[lastThread] # "noPipe"
          /\ pipe[lastThread] < PipeCap
          /\ pipe' = [pipe EXCEPT ![lastThread] = @ + 1]
    /\ nextTask' = nextTask + 1
    /\ mainPc' = "idle"
    /\ UNCHANGED <<nextThread, lastThread, setup, allThreads, workerVars,
                   tasks, exitVars>>

-----------------------------------------------------------------------------
(* CThread::mainFunc and CThread::notify of worker t.                      *)

\* while (!isExit_): one pass of the event loop, or free the base and end.
LoopTest(t) ==
    /\ workerPc[t] = "loop"
    /\ workerPc' = [workerPc EXCEPT ![t] = IF isExit[t] THEN "ended" ELSE "poll"]
    /\ UNCHANGED <<dispatchVars, setup, allThreads, tasks, pipe, hand,
                   exitVars>>

\* EVLOOP_NONBLOCK with nothing in the pipe.
PollNothing(t) ==
    /\ workerPc[t] = "poll" /\ pipe[t] = 0
    /\ workerPc' = [workerPc EXCEPT ![t] = "loop"]
    /\ UNCHANGED <<dispatchVars, setup, allThreads, tasks, pipe, hand,
                   exitVars>>

\* Mutant: both bytes of buf are filled.
BytesAfterRead_Two(t) == pipe[t] - 2

\* Mutant: notify empties the pipe instead of reading one byte.
BytesAfterRead_Drain(t) == 0

\* read(fd, buf, 1)
BytesAfterRead(t) == pipe[t] - 1

NotifyRead(t) ==
    /\ workerPc[t] = "poll" /\ pipe[t] > 0
    /\ pipe' = [pipe EXCEPT ![t] = BytesAfterRead(t)]
    /\ workerPc' = [workerPc EXCEPT ![t] = "pop"]
    /\ UNCHANGED <<dispatchVars, setup, allThreads, tasks, hand, exitVars>>

\* Mutant: the newest task is popped (LIFO).
PopFrom_Back(s) == <<s[Len(s)], SubSeq(s, 1, Len(s) - 1)>>

\* front(), pop_front()
PopFrom(s) == <<Head(s), Tail(s)>>

\* The list is examined and popped under taskMutex_.
NotifyPop(t) ==
    /\ workerPc[t] = "pop"
    /\ \/ /\ tasks[t] = <<>>
          /\ workerPc' = [workerPc EXCEPT ![t] = "loop"]
          /\ UNCHANGED <<tasks, hand>>
       \/ /\ tasks[t] # <<>>
          /\ workerPc' = [workerPc EXCEPT ![t] = "init"]
          /\ hand' = [hand EXCEPT ![t] = PopFrom(tasks[t])[1]]
          /\ tasks' = [tasks EXCEPT ![t] = PopFrom(tasks[t])[2]]
    /\ UNCHANGED <<dispatchVars, setup, allThreads, pipe, exitVars>>

\* task->init(), outside the lock.
TaskInit(t) ==
    /\ workerPc[t] = "init"
    /\ hand' = [hand EXCEPT ![t] = 0]
    /\ workerPc' = [workerPc EXCEPT ![t] = "loop"]
    /\ UNCHANGED <<dispatchVars, setup, allThreads, tasks, pipe, exitVars>>

Worker(t) ==
    \/ LoopTest(t) \/ PollNothing(t) \/ NotifyRead(t)
    \/ NotifyPop(t) \/ TaskInit(t)

-----------------------------------------------------------------------------
(* CThreadPool::exitAllThread, on a thread of its own.                     *)

\* isAllExit = true; wait() of the main thread returns from here on.
ExitBegin ==
    /\ exitPc = "no"
    /\ exitPc' = "lock"
    /\ UNCHANGED <<dispatchVars, setup, allThreads, workerVars, tasks, pipe,
                   isExit, toExit>>

ExitLock ==
    /\ exitPc = "lock"
    /\ exitPc' = "marking"
    /\ toExit' = allThreads
    /\ UNCHANGED <<dispatchVars, setup, allThreads, workerVars, tasks, pipe,
                   isExit>>

\* Mutant: only a worker that is between two passes of its loop is marked.
ExitFlag_Idle(t) == workerPc[t] = "loop"

\* t->exit()
ExitFlag(t) == TRUE

ExitMark(t) ==
    /\ exitPc = "marking" /\ t \in toExit
    /\ isExit' = [isExit EXCEPT ![t] = ExitFlag(t)]
    /\ toExit' = toExit \ {t}
    /\ UNCHANGED <<dispatchVars, setup, allThreads, workerVars, tasks, pipe,
                   exitPc>>

ExitUnlock ==
    /\ exitPc = "marking" /\ toExit = {}
    /\ exitPc' = "done"
    /\ UNCHANGED <<dispatchVars, setup, allThreads, workerVars, tasks, pipe,
                   isExit, toExit>>

Exiter == ExitBegin \/ ExitLock \/ (\E t \in Threads : ExitMark(t)) \/ ExitUnlock

-----------------------------------------------------------------------------
Main == StartThread \/ RegisterThread \/ AddTask \/ Activate

Next == Main \/ Exiter \/ \E t \in Threads : Worker(t)

\* Every thread the scheduler runs makes progress; nobody has to call
\* exitAllThread, but a caller inside it goes on.
Fairness ==
    /\ WF_vars(Main)
    /\ WF_vars(ExitLock \/ (\E t \in Threads : ExitMark(t)) \/ ExitUnlock)
    /\ \A t \in Threads : WF_vars(Worker(t))

Spec == Init /\ [][Next]_vars
FairSpec == Spec /\ Fairness
-----------------------------------------------------------------------------
(* Properties.                                                             *)

\* Number of tasks that addTask has appended so far.
Added == IF mainPc = "activate" THEN nextTask ELSE nextTask - 1

\* Every variable keeps its type; in particular lastThread_ always indexes
\* threads_ (dispatch, cthreadpool.cpp:63).
TypeOK ==
    /\ mainPc \in {"start", "register", "idle", "activate"}
    /\ nextThread \in 0 .. NumThreads
    /\ lastThread \in -1 .. NumThreads - 1
    /\ nextTask \in 1 .. MaxTasks + 1
    /\ setup \in [Threads -> {"none", "ok", "noPipe", "noBase"}]
    /\ allThreads \in SUBSET Threads
    /\ workerPc \in [Threads -> {"none", "loop", "poll", "pop", "init", "ended"}]
    /\ tasks \in [Threads -> Seq(Tasks)]
    /\ pipe \in [Threads -> Nat]
    /\ hand \in [Threads -> {0} \cup Tasks]
    /\ isExit \in [Threads -> BOOLEAN]
    /\ exitPc \in {"no", "lock", "marking", "done"}
    /\ toExit \in SUBSET Threads

\* The activation that is on its way to worker t but not in its pipe: the
\* dispatcher has appended and not yet written.
ToWrite(t) == IF mainPc = "activate" /\ lastThread = t THEN 1 ELSE 0

\* The byte worker t has read whose task it has not yet popped.
ToPop(t) == IF workerPc[t] = "pop" THEN 1 ELSE 0

\* For a worker with a working pipe and base, the list and the wake-ups
\* always agree: one byte written, in flight or read for each task in
\* tasks_.  Neither is a task left without a wake-up (it would never be
\* init'ed) nor does notify find the list empty (cthread.cpp:111-114).
WakeupPerTask ==
    \A t \in Threads : setup[t] = "ok" =>
        Len(tasks[t]) = pipe[t] + ToWrite(t) + ToPop(t)

\* The tasks of worker t that are dispatched and not yet init'ed, oldest first.
Pending(t) == IF workerPc[t] = "init" THEN <<hand[t]>> \o tasks[t] ELSE tasks[t]

Executor == INSTANCE TaskExecutor WITH
    turn <- IF lastThread + 1 = NumThreads THEN 0 ELSE lastThread + 1,
    submitted <- Added,
    waiting <- [t \in Threads |-> Pending(t)]

\* The pool implements the executor its users rely on: round robin, first
\* in first out at each thread, and each task begun at most once.
ImplementsExecutor == Executor!Spec

\* A thread exitAllThread has marked as it walked the list, or will mark.
MarkedToExit(t) == isExit[t] \/ t \in toExit

\* A dispatched task is eventually init'ed, unless its worker could not be
\* set up or is told to exit.  Needs a wake-up to stay in the pipe until
\* its task is popped (cthread.cpp:91-119).
DispatchedIsBegun ==
    \A k \in Tasks : \A t \in Threads :
        (\E i \in 1 .. Len(tasks[t]) : tasks[t][i] = k)
            ~> \/ \A i \in 1 .. Len(Pending(t)) : Pending(t)[i] # k
               \/ setup[t] # "ok"
               \/ MarkedToExit(t)

\* Every thread that is in the list when exitAllThread takes allThreadsMtx
\* leaves its loop and frees its base (cthread.cpp:38-44), even if it is in
\* the middle of a task.
ListedThreadEnds ==
    \A t \in Threads : (t \in toExit) ~> (workerPc[t] = "ended")
=============================================================================
