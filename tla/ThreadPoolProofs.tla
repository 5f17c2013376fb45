-------------------------- MODULE ThreadPoolProofs --------------------------
(***************************************************************************)
(* The invariants of ThreadPool, and that it implements TaskExecutor, for  *)
(* every number of threads, of tasks and of bytes a pipe holds.            *)
(***************************************************************************)
EXTENDS ThreadPool, TLAPS, SequenceTheorems

\* While init still creates threads nothing has been dispatched.
NothingBeforeInit ==
    mainPc \in {"start", "register"} =>
        /\ nextThread < NumThreads
        /\ nextTask = 1
        /\ \A t \in Threads : /\ tasks[t] = <<>> /\ pipe[t] = 0
                              /\ workerPc[t] \notin {"pop", "init"}

\* The dispatcher between addTask and activate names a thread and a task.
DispatchInProgress ==
    mainPc = "activate" => lastThread \in Threads /\ nextTask \in Tasks

\* A worker runs only on a thread whose setup succeeded, and a worker about
\* to call init() holds a task.
WorkerState ==
    \A t \in Threads :
        /\ setup[t] # "ok" => workerPc[t] \in {"none", "ended"}
        /\ workerPc[t] = "init" => hand[t] \in Tasks

Inv ==
    /\ TypeOK
    /\ NothingBeforeInit
    /\ DispatchInProgress
    /\ WorkerState
    /\ WakeupPerTask

-----------------------------------------------------------------------------
\* The round-robin step of dispatch stays within the threads of the pool.
LEMMA NextThreadInRange ==
    ASSUME lastThread \in -1 .. NumThreads - 1
    PROVE  /\ NextThread \in Threads
           /\ NextThread = IF lastThread + 1 = NumThreads THEN 0 ELSE lastThread + 1
BY NumThreadsAssumption DEF NextThread, Threads

\* The initial state satisfies the inductive invariant.
LEMMA InitInv == Init => Inv
<1> SUFFICES ASSUME Init PROVE Inv
  OBVIOUS
<1> USE NumThreadsAssumption, MaxTasksAssumption DEF Init, Threads, Tasks
<1>1. TypeOK
  BY DEF TypeOK
<1>2. NothingBeforeInit /\ DispatchInProgress /\ WorkerState
  BY DEF NothingBeforeInit, DispatchInProgress, WorkerState
<1>3. WakeupPerTask
  BY DEF WakeupPerTask
<1> QED
  BY <1>1, <1>2, <1>3 DEF Inv

\* Every step of the pool preserves the inductive invariant.
LEMMA NextInv == Inv /\ [Next]_vars => Inv'
<1> SUFFICES ASSUME Inv, [Next]_vars PROVE Inv'
  OBVIOUS
<1> USE NumThreadsAssumption, MaxTasksAssumption, PipeCapAssumption
<1> USE DEF Inv, dispatchVars, workerVars, exitVars
<1>1. CASE StartThread
  <2>1. nextThread \in Threads
    BY <1>1 DEF StartThread, NothingBeforeInit, TypeOK, Threads
  <2>2. TypeOK'
    BY <1>1, <2>1 DEF StartThread, TypeOK
  <2>3. (NothingBeforeInit /\ DispatchInProgress /\ WorkerState)'
    BY <1>1, <2>1 DEF StartThread, TypeOK, NothingBeforeInit,
                      DispatchInProgress, WorkerState
  <2>4. WakeupPerTask'
    BY <1>1, <2>1 DEF StartThread, TypeOK, NothingBeforeInit, WakeupPerTask,
                      ToWrite, ToPop
  <2> QED
    BY <2>2, <2>3, <2>4
<1>2. CASE RegisterThread
  <2>1. TypeOK'
    BY <1>2 DEF RegisterThread, NothingBeforeInit, TypeOK, Threads
  <2>2. (NothingBeforeInit /\ DispatchInProgress /\ WorkerState)'
    BY <1>2 DEF RegisterThread, TypeOK, NothingBeforeInit,
                DispatchInProgress, WorkerState
  <2>3. WakeupPerTask'
    BY <1>2 DEF RegisterThread, WakeupPerTask, ToWrite, ToPop
  <2> QED
    BY <2>1, <2>2, <2>3
<1>3. CASE AddTask
  <2>1. NextThread \in Threads /\ nextTask \in Tasks
    BY <1>3, NextThreadInRange DEF AddTask, TypeOK, Tasks
  <2>2. TypeOK'
    <3>2. Append(tasks[NextThread], nextTask) \in Seq(Tasks)
      BY <2>1 DEF TypeOK
    <3>3. tasks' \in [Threads -> Seq(Tasks)]
      BY <1>3, <2>1, <3>2 DEF AddTask, TypeOK
    <3>5. lastThread' \in -1 .. NumThreads - 1
      BY <1>3, <2>1 DEF AddTask, Threads
    <3> QED
      BY <1>3, <3>3, <3>5 DEF AddTask, TypeOK
  <2>3. (NothingBeforeInit /\ DispatchInProgress /\ WorkerState)'
    BY <1>3, <2>1 DEF AddTask, TypeOK, NothingBeforeInit,
                      DispatchInProgress, WorkerState
  <2>4. WakeupPerTask'
    <3> SUFFICES ASSUME NEW t \in Threads, setup[t] = "ok"
                 PROVE  Len(tasks'[t]) = pipe[t] + ToWrite(t)' + ToPop(t)
      BY <1>3 DEF AddTask, WakeupPerTask, ToPop
    <3>1. Len(tasks[t]) = pipe[t] + ToPop(t) /\ tasks[t] \in Seq(Tasks)
      BY <1>3 DEF AddTask, WakeupPerTask, ToWrite, TypeOK, ToPop
    <3>2. CASE t = NextThread
      <4>1. tasks'[t] = Append(tasks[t], nextTask) /\ ToWrite(t)' = 1
        BY <1>3, <3>2 DEF AddTask, TypeOK, ToWrite
      <4>2. Len(tasks'[t]) = Len(tasks[t]) + 1
        BY <2>1, <3>1, <4>1
      <4> QED
        BY <3>1, <4>1, <4>2 DEF ToPop, TypeOK
    <3>3. CASE t # NextThread
      BY <1>3, <3>1, <3>3 DEF AddTask, TypeOK, ToWrite, ToPop
    <3> QED
      BY <3>2, <3>3
  <2> QED
    BY <2>2, <2>3, <2>4
<1>4. CASE Activate
  <2>1. lastThread \in Threads /\ nextTask \in Tasks
    BY <1>4 DEF Activate, DispatchInProgress
  <2>2. TypeOK'
    <3>1. pipe' \in [Threads -> Nat]
      BY <1>4, <2>1 DEF Activate, TypeOK
    <3>2. nextTask' \in 1 .. MaxTasks + 1
      BY <1>4, <2>1 DEF Activate, Tasks
    <3> QED
      BY <1>4, <3>1, <3>2 DEF Activate, TypeOK
  <2>3. (NothingBeforeInit /\ DispatchInProgress /\ WorkerState)'
    BY <1>4, <2>1 DEF Activate, TypeOK, NothingBeforeInit,
                      DispatchInProgress, WorkerState
  <2>4. WakeupPerTask'
    <3> SUFFICES ASSUME NEW t \in Threads, setup[t] = "ok"
                 PROVE  Len(tasks[t]) = pipe'[t] + ToWrite(t)' + ToPop(t)
      BY <1>4 DEF Activate, WakeupPerTask, ToPop
    <3>1. /\ Len(tasks[t]) = pipe[t] + ToWrite(t) + ToPop(t)
          /\ pipe[t] \in Nat /\ ToPop(t) \in Nat
      BY DEF WakeupPerTask, TypeOK, ToPop
    <3>2. ToWrite(t)' = 0
      BY <1>4 DEF Activate, ToWrite
    <3>3. CASE t = lastThread
      <4>1. ToWrite(t) = 1 /\ pipe'[t] = pipe[t] + 1
        BY <1>4, <3>3 DEF Activate, ToWrite, TypeOK
      <4> QED
        BY <3>1, <3>2, <4>1
    <3>4. CASE t # lastThread
      <4>1. ToWrite(t) = 0 /\ pipe'[t] = pipe[t]
        BY <1>4, <3>4 DEF Activate, ToWrite, TypeOK
      <4> QED
        BY <3>1, <3>2, <4>1
    <3> QED
      BY <3>3, <3>4
  <2> QED
    BY <2>2, <2>3, <2>4
<1>5. ASSUME NEW t \in Threads, LoopTest(t) \/ PollNothing(t)
      PROVE  Inv'
  <2>1. TypeOK'
    BY <1>5 DEF LoopTest, PollNothing, TypeOK
  <2>2. (NothingBeforeInit /\ DispatchInProgress /\ WorkerState)'
    BY <1>5 DEF LoopTest, PollNothing, TypeOK, NothingBeforeInit,
                DispatchInProgress, WorkerState
  <2>3. WakeupPerTask'
    BY <1>5 DEF LoopTest, PollNothing, TypeOK, WakeupPerTask, ToWrite, ToPop
  <2> QED
    BY <2>1, <2>2, <2>3
<1>6. ASSUME NEW t \in Threads, NotifyRead(t)
      PROVE  Inv'
  <2> USE DEF BytesAfterRead
  <2>1. TypeOK'
    BY <1>6 DEF NotifyRead, TypeOK
  <2>2. (NothingBeforeInit /\ DispatchInProgress /\ WorkerState)'
    BY <1>6 DEF NotifyRead, TypeOK, NothingBeforeInit,
                DispatchInProgress, WorkerState
  <2>3. WakeupPerTask'
    BY <1>6 DEF NotifyRead, TypeOK, WakeupPerTask, ToWrite, ToPop
  <2> QED
    BY <2>1, <2>2, <2>3
<1>7. ASSUME NEW t \in Threads, NotifyPop(t)
      PROVE  Inv'
  <2>1. setup[t] = "ok" /\ workerPc[t] = "pop"
    BY <1>7 DEF NotifyPop, WorkerState, TypeOK
  <2>2. tasks[t] # <<>>
    <3>1. /\ Len(tasks[t]) = pipe[t] + ToWrite(t) + 1
          /\ pipe[t] \in Nat /\ ToWrite(t) \in Nat
      BY <2>1 DEF WakeupPerTask, ToWrite, ToPop, TypeOK
    <3>2. Len(tasks[t]) > 0
      BY <3>1
    <3> QED
      BY <3>2
  <2>3. /\ tasks' = [tasks EXCEPT ![t] = Tail(tasks[t])]
        /\ hand' = [hand EXCEPT ![t] = Head(tasks[t])]
        /\ workerPc' = [workerPc EXCEPT ![t] = "init"]
    BY <1>7, <2>2 DEF NotifyPop, PopFrom
  <2>4. /\ Head(tasks[t]) \in Tasks /\ Tail(tasks[t]) \in Seq(Tasks)
        /\ Len(Tail(tasks[t])) = Len(tasks[t]) - 1
    BY <2>2 DEF TypeOK
  <2>5. TypeOK'
    BY <1>7, <2>3, <2>4 DEF NotifyPop, TypeOK
  <2>6. (NothingBeforeInit /\ DispatchInProgress /\ WorkerState)'
    BY <1>7, <2>1, <2>3, <2>4 DEF NotifyPop, TypeOK, NothingBeforeInit,
                                  DispatchInProgress, WorkerState
  <2>7. WakeupPerTask'
    <3> SUFFICES ASSUME NEW u \in Threads, setup[u] = "ok"
                 PROVE  Len(tasks'[u]) = pipe[u] + ToWrite(u) + ToPop(u)'
      BY <1>7 DEF NotifyPop, WakeupPerTask, ToWrite, dispatchVars
    <3>1. /\ Len(tasks[u]) = pipe[u] + ToWrite(u) + ToPop(u)
          /\ pipe[u] \in Nat /\ ToWrite(u) \in Nat
      BY DEF WakeupPerTask, TypeOK, ToWrite
    <3>2. CASE u = t
      <4>1. ToPop(u) = 1 /\ ToPop(u)' = 0 /\ Len(tasks'[u]) = Len(tasks[u]) - 1
        BY <2>1, <2>3, <2>4, <3>2 DEF ToPop, TypeOK
      <4> QED
        BY <3>1, <4>1
    <3>3. CASE u # t
      BY <2>3, <3>1, <3>3 DEF ToPop, TypeOK
    <3> QED
      BY <3>2, <3>3
  <2> QED
    BY <2>5, <2>6, <2>7
<1>8. ASSUME NEW t \in Threads, TaskInit(t)
      PROVE  Inv'
  <2>1. TypeOK'
    BY <1>8 DEF TaskInit, TypeOK
  <2>2. (NothingBeforeInit /\ DispatchInProgress /\ WorkerState)'
    BY <1>8 DEF TaskInit, TypeOK, NothingBeforeInit,
                DispatchInProgress, WorkerState
  <2>3. WakeupPerTask'
    BY <1>8 DEF TaskInit, TypeOK, WakeupPerTask, ToWrite, ToPop
  <2> QED
    BY <2>1, <2>2, <2>3
<1>9. CASE Exiter
  <2>1. TypeOK'
    BY <1>9 DEF Exiter, ExitBegin, ExitLock, ExitMark, ExitFlag, ExitUnlock, TypeOK
  <2>2. (NothingBeforeInit /\ DispatchInProgress /\ WorkerState)'
    BY <1>9 DEF Exiter, ExitBegin, ExitLock, ExitMark, ExitUnlock, TypeOK,
                NothingBeforeInit, DispatchInProgress, WorkerState
  <2>3. WakeupPerTask'
    BY <1>9 DEF Exiter, ExitBegin, ExitLock, ExitMark, ExitUnlock,
                WakeupPerTask, ToWrite, ToPop
  <2> QED
    BY <2>1, <2>2, <2>3
<1>10. CASE UNCHANGED vars
  <2>1. TypeOK' /\ (NothingBeforeInit /\ DispatchInProgress /\ WorkerState)'
    BY <1>10 DEF vars, TypeOK, NothingBeforeInit, DispatchInProgress, WorkerState
  <2>2. WakeupPerTask'
    BY <1>10 DEF vars, WakeupPerTask, ToWrite, ToPop
  <2> QED
    BY <2>1, <2>2
<1> QED
  BY <1>1, <1>2, <1>3, <1>4, <1>5, <1>6, <1>7, <1>8, <1>9, <1>10
     DEF Next, Main, Worker

\* The pool keeps its types, and in particular dispatch always indexes a
\* thread of the pool (cthreadpool.cpp:63-65).
THEOREM TypeCorrect == Spec => []TypeOK
<1>1. Init => Inv
  BY InitInv
<1>2. Inv /\ [Next]_vars => Inv'
  BY NextInv
<1>3. Inv => TypeOK
  BY DEF Inv
<1> QED
  BY <1>1, <1>2, <1>3, PTL DEF Spec

\* No wake-up is lost and none is spurious: at every worker that could be set
\* up, the tasks waiting are as many as the bytes written or on their way
\* (cthread.cpp:91-145).
THEOREM NoLostWakeup == Spec => []WakeupPerTask
<1>1. Init => Inv
  BY InitInv
<1>2. Inv /\ [Next]_vars => Inv'
  BY NextInv
<1>3. Inv => WakeupPerTask
  BY DEF Inv
<1> QED
  BY <1>1, <1>2, <1>3, PTL DEF Spec

-----------------------------------------------------------------------------
(* The refinement of TaskExecutor.                                         *)

\* What a popped task followed by the list looks like.
LEMMA HeldThenListed ==
    ASSUME NEW S, NEW h \in S, NEW s \in Seq(S)
    PROVE  /\ <<h>> \o s \in Seq(S)
           /\ Len(<<h>> \o s) = Len(s) + 1
           /\ \A i \in 1 .. Len(s) + 1 :
                 (<<h>> \o s)[i] = IF i = 1 THEN h ELSE s[i - 1]
           /\ <<h>> \o s # <<>>
<1>1. <<h>> \in Seq(S) /\ Len(<<h>>) = 1 /\ <<h>>[1] = h
  OBVIOUS
<1>2. Len(s) \in Nat
  BY LenProperties
<1>3. /\ <<h>> \o s \in Seq(S)
      /\ Len(<<h>> \o s) = 1 + Len(s)
      /\ \A i \in 1 .. 1 + Len(s) :
            (<<h>> \o s)[i] = IF i <= 1 THEN <<h>>[i] ELSE s[i - 1]
  BY <1>1, ConcatProperties
<1>4. <<h>> \o s # <<>>
  BY <1>2, <1>3
<1> QED
  BY <1>1, <1>2, <1>3, <1>4

\* Taking the popped task off again leaves the list.
LEMMA TailOfHeld ==
    ASSUME NEW S, NEW h \in S, NEW s \in Seq(S)
    PROVE  Tail(<<h>> \o s) = s
<1> DEFINE c == <<h>> \o s
<1>1. /\ c \in Seq(S) /\ c # <<>> /\ Len(c) = Len(s) + 1
      /\ \A i \in 1 .. Len(s) + 1 : c[i] = IF i = 1 THEN h ELSE s[i - 1]
  BY HeldThenListed
<1> HIDE DEF c
<1>2. Len(s) \in Nat
  BY LenProperties
<1>3. /\ Tail(c) \in Seq(S) /\ Len(Tail(c)) = Len(c) - 1
      /\ \A i \in 1 .. Len(Tail(c)) : Tail(c)[i] = c[i + 1]
  BY <1>1, HeadTailProperties
<1>4. \A i \in 1 .. Len(Tail(c)) : Tail(c)[i] = s[i]
  BY <1>1, <1>2, <1>3
<1>5. Tail(c) = s
  BY <1>1, <1>2, <1>3, <1>4, SeqEqual
<1> QED
  BY <1>5 DEF c

\* Appending behind the popped task is appending to the list.
LEMMA AppendBehindHeld ==
    ASSUME NEW S, NEW h \in S, NEW s \in Seq(S), NEW e \in S
    PROVE  <<h>> \o Append(s, e) = Append(<<h>> \o s, e)
<1>1. <<h>> \in Seq(S) /\ <<e>> \in Seq(S)
  OBVIOUS
<1>2. Append(s, e) = s \o <<e>>
  BY AppendIsConcat
<1>3. <<h>> \o (s \o <<e>>) = (<<h>> \o s) \o <<e>>
  BY <1>1, ConcatAssociative
<1>4. <<h>> \o s \in Seq(S)
  BY HeldThenListed
<1>5. Append(<<h>> \o s, e) = (<<h>> \o s) \o <<e>>
  BY <1>4, AppendIsConcat
<1> QED
  BY <1>2, <1>3, <1>5

\* Popping does not change the order of what is pending.
LEMMA HeldHead ==
    ASSUME NEW S, NEW s \in Seq(S), s # <<>>
    PROVE  <<Head(s)>> \o Tail(s) = s
<1>1. /\ Head(s) \in S /\ Tail(s) \in Seq(S) /\ Len(Tail(s)) = Len(s) - 1
      /\ \A i \in 1 .. Len(Tail(s)) : Tail(s)[i] = s[i + 1]
  BY HeadTailProperties
<1> DEFINE c == <<Head(s)>> \o Tail(s)
<1>2. /\ c \in Seq(S) /\ Len(c) = Len(Tail(s)) + 1
      /\ \A i \in 1 .. Len(Tail(s)) + 1 :
            c[i] = IF i = 1 THEN Head(s) ELSE Tail(s)[i - 1]
  BY <1>1, HeldThenListed
<1> HIDE DEF c
<1>3. Len(s) \in Nat /\ Head(s) = s[1]
  BY LenProperties
<1>4. \A i \in 1 .. Len(s) : c[i] = s[i]
  BY <1>1, <1>2, <1>3
<1>5. c = s
  BY <1>1, <1>2, <1>3, <1>4, SeqEqual
<1> QED
  BY <1>5 DEF c

\* A step that leaves the pending tasks, the position and the count alone is
\* a stutter of the executor.
LEMMA StutterWhenPendingKept ==
    ASSUME UNCHANGED lastThread, Added' = Added,
           \A t \in Threads : Pending(t)' = Pending(t)
    PROVE  UNCHANGED Executor!vars
BY DEF Executor!vars

\* Every step of the pool is a step of the executor or a stutter: addTask is
\* Submit, the return of init() is Begin, everything else moves a task or a
\* wake-up between places the executor does not tell apart.
LEMMA StepRefines == Inv /\ [Next]_vars => [Executor!Next]_(Executor!vars)
<1> SUFFICES ASSUME Inv, [Next]_vars PROVE [Executor!Next]_(Executor!vars)
  OBVIOUS
<1>0. TypeOK /\ Inv'
  BY NextInv DEF Inv
<1> USE DEF dispatchVars, workerVars, exitVars
<1>1. CASE StartThread
  <2>1. nextThread \in Threads
    BY <1>0, <1>1 DEF StartThread, Inv, NothingBeforeInit, TypeOK, Threads
  <2>2. \A t \in Threads : Pending(t)' = Pending(t)
    BY <1>0, <1>1, <2>1 DEF StartThread, Inv, NothingBeforeInit, Pending, TypeOK
  <2>3. UNCHANGED lastThread /\ Added' = Added
    BY <1>1 DEF StartThread, Added
  <2> QED
    BY <2>2, <2>3, StutterWhenPendingKept
<1>2. CASE RegisterThread \/ Activate
  <2>1. UNCHANGED lastThread /\ Added' = Added
    BY <1>0, <1>2 DEF RegisterThread, Activate, Added, TypeOK
  <2>2. \A t \in Threads : Pending(t)' = Pending(t)
    BY <1>2 DEF RegisterThread, Activate, Pending
  <2> QED
    BY <2>1, <2>2, StutterWhenPendingKept
<1>3. CASE AddTask
  <2> PICK u \in Threads : u = NextThread
    BY <1>0, NextThreadInRange DEF TypeOK
  <2>1. /\ nextTask \in Tasks
        /\ u = IF lastThread + 1 = NumThreads THEN 0 ELSE lastThread + 1
    BY <1>0, <1>3, NextThreadInRange DEF AddTask, TypeOK, Tasks
  <2>2. /\ Added = nextTask - 1 /\ Added' = nextTask /\ lastThread' = u
        /\ tasks' = [tasks EXCEPT ![u] = Append(tasks[u], nextTask)]
        /\ UNCHANGED <<workerPc, hand>>
    BY <1>3 DEF AddTask, Added
  <2>3. Pending(u)' = Append(Pending(u), nextTask)
    <3>1. tasks'[u] = Append(tasks[u], nextTask) /\ tasks[u] \in Seq(Tasks)
      BY <1>0, <2>1, <2>2 DEF TypeOK
    <3>2. CASE workerPc[u] = "init"
      <4>1. hand[u] \in Tasks
        BY <2>1, <3>2 DEF Inv, WorkerState
      <4>2. <<hand[u]>> \o Append(tasks[u], nextTask)
              = Append(<<hand[u]>> \o tasks[u], nextTask)
        BY <2>1, <3>1, <4>1, AppendBehindHeld
      <4>3. Pending(u) = <<hand[u]>> \o tasks[u]
        BY <3>2 DEF Pending
      <4>4. Pending(u)' = <<hand[u]>> \o Append(tasks[u], nextTask)
        BY <2>2, <3>1, <3>2 DEF Pending
      <4> QED
        BY <4>2, <4>3, <4>4
    <3>3. CASE workerPc[u] # "init"
      BY <2>2, <3>1, <3>3 DEF Pending
    <3> QED
      BY <3>2, <3>3
  <2>4. \A t \in Threads \ {u} : Pending(t)' = Pending(t)
    BY <1>0, <2>1, <2>2 DEF Pending, TypeOK
  <2>5. [t \in Threads |-> Pending(t)]'
          = [[t \in Threads |-> Pending(t)] EXCEPT ![u] = Append(@, Added + 1)]
    <3>1. Added + 1 = nextTask
      BY <2>1, <2>2 DEF Tasks
    <3> QED
      BY <2>1, <2>3, <2>4, <3>1
  <2>6. Added < MaxTasks /\ Added' = Added + 1
    BY <2>1, <2>2, MaxTasksAssumption DEF Tasks
  <2>7. (IF lastThread + 1 = NumThreads THEN 0 ELSE lastThread + 1)'
          = IF u + 1 = NumThreads THEN 0 ELSE u + 1
    BY <2>2
  <2>8. Executor!Submit
    BY <2>1, <2>5, <2>6, <2>7 DEF Executor!Submit
  <2> QED
    BY <2>8 DEF Executor!Next
<1>4. ASSUME NEW t \in Threads, LoopTest(t) \/ PollNothing(t) \/ NotifyRead(t)
      PROVE  UNCHANGED Executor!vars
  <2>1. UNCHANGED lastThread /\ Added' = Added
    BY <1>4 DEF LoopTest, PollNothing, NotifyRead, Added
  <2>2. \A u \in Threads : Pending(u)' = Pending(u)
    BY <1>0, <1>4 DEF LoopTest, PollNothing, NotifyRead, Pending, TypeOK
  <2> QED
    BY <2>1, <2>2, StutterWhenPendingKept
<1>5. ASSUME NEW t \in Threads, NotifyPop(t)
      PROVE  UNCHANGED Executor!vars
  <2>1. UNCHANGED lastThread /\ Added' = Added
    BY <1>5 DEF NotifyPop, Added
  <2>2. \A u \in Threads \ {t} : Pending(u)' = Pending(u)
    BY <1>0, <1>5 DEF NotifyPop, Pending, TypeOK
  <2>3. Pending(t)' = Pending(t)
    <3>1. CASE tasks[t] = <<>>
      BY <1>0, <1>5, <3>1 DEF NotifyPop, Pending, TypeOK
    <3>2. CASE tasks[t] # <<>>
      <4>1. /\ workerPc[t] = "pop" /\ workerPc'[t] = "init"
            /\ hand'[t] = Head(tasks[t]) /\ tasks'[t] = Tail(tasks[t])
        BY <1>0, <1>5, <3>2 DEF NotifyPop, PopFrom, TypeOK
      <4>2. tasks[t] \in Seq(Tasks)
        BY <1>0 DEF TypeOK
      <4>3. <<Head(tasks[t])>> \o Tail(tasks[t]) = tasks[t]
        BY <3>2, <4>2, HeldHead
      <4> QED
        BY <4>1, <4>3 DEF Pending
    <3> QED
      BY <3>1, <3>2
  <2> QED
    BY <2>1, <2>2, <2>3, StutterWhenPendingKept
<1>6. ASSUME NEW t \in Threads, TaskInit(t)
      PROVE  Executor!Begin(t)
  <2>1. /\ hand[t] \in Tasks /\ tasks[t] \in Seq(Tasks)
        /\ Pending(t) = <<hand[t]>> \o tasks[t]
    BY <1>0, <1>6 DEF TaskInit, Inv, WorkerState, TypeOK, Pending
  <2>2. Pending(t) # <<>> /\ Tail(Pending(t)) = tasks[t]
    BY <2>1, HeldThenListed, TailOfHeld
  <2>3. Pending(t)' = tasks[t]
    BY <1>0, <1>6 DEF TaskInit, Pending, TypeOK
  <2>4. \A u \in Threads \ {t} : Pending(u)' = Pending(u)
    BY <1>0, <1>6 DEF TaskInit, Pending, TypeOK
  <2>5. [u \in Threads |-> Pending(u)]'
          = [[u \in Threads |-> Pending(u)] EXCEPT ![t] = Tail(@)]
    BY <2>2, <2>3, <2>4
  <2>6. UNCHANGED lastThread /\ Added' = Added
    BY <1>6 DEF TaskInit, Added
  <2> QED
    BY <2>2, <2>5, <2>6 DEF Executor!Begin
<1>7. CASE Exiter \/ UNCHANGED vars
  <2>1. UNCHANGED lastThread /\ Added' = Added
    BY <1>7 DEF Exiter, ExitBegin, ExitLock, ExitMark, ExitUnlock, vars, Added
  <2>2. \A t \in Threads : Pending(t)' = Pending(t)
    BY <1>7 DEF Exiter, ExitBegin, ExitLock, ExitMark, ExitUnlock, vars, Pending
  <2> QED
    BY <2>1, <2>2, StutterWhenPendingKept
<1> QED
  BY <1>1, <1>2, <1>3, <1>4, <1>5, <1>6, <1>7
     DEF Next, Main, Worker, Executor!Next, Threads

\* The pool is an executor for every number of threads and tasks: tasks go to
\* the threads in turn, are begun in order at each of them, and at most once.
THEOREM PoolRefinesExecutor == Spec => ImplementsExecutor
<1>1. Init => Executor!Init
  BY NumThreadsAssumption DEF Init, Executor!Init, Added, Pending, Threads
<1>2. Init => Inv
  BY InitInv
<1>3. Inv /\ [Next]_vars => Inv'
  BY NextInv
<1>4. Inv /\ [Next]_vars => [Executor!Next]_(Executor!vars)
  BY StepRefines
<1> QED
  BY <1>1, <1>2, <1>3, <1>4, PTL DEF Spec, ImplementsExecutor, Executor!Spec
=============================================================================
