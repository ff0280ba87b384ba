---------------------------- MODULE TaskScheduler ----------------------------
(***************************************************************************)
(* CppUtile/Task: a pool of threads that run tasks.  A task collects the   *)
(* events pushed to it in the bits of m_Events; PushEvents puts it in the  *)
(* queue of one thread, or, with a delay, in that thread's heap of         *)
(* timers; the thread takes it out and calls Run, which pops the events.   *)
(* m_Events is read and written by everybody without a lock, so |= and -=  *)
(* are a load and a store; the unlocked looks of AddTask and WaitForTask   *)
(* are steps of their own.  Time is abstract: a timer is due some time     *)
(* after it was stamped.  The thread that AddTask picks is any: its        *)
(* counter is incremented without a lock.                                  *)
(***************************************************************************)
EXTENDS Naturals, Sequences, FiniteSets

CONSTANTS Tasks, Threads, Clients,  \* tasks, threads there may be, others that push events
          Timers,                   \* bound: timers that exist at a time
          MaxRunTimesOnce,          \* MAX_RUN_TIMES_ONCE
          Setups                    \* what is to be told apart, one of which each behaviour begins with

Kill == 1
Idle == 2
Start == 4
Bit == {Kill, Idle, Start}
Width == 8                          \* m_Events has 32 bits, of which these three are used

\* threads: the threads of the pool.  tasks: the tasks there are.  kinds: the events that the
\* clients push, delays: whether with a delay, pushes: how many (a bound).
ASSUME SchedulerAssumption ==
    /\ Setups \subseteq [threads : SUBSET Threads \ {{}}, tasks : SUBSET Tasks, kinds : SUBSET Bit,
                         delays : SUBSET BOOLEAN, pushes : Nat]
    /\ MaxRunTimesOnce \in Nat \ {0}
    /\ Threads \cap Clients = {} /\ IsFiniteSet(Tasks \cup Threads \cup Clients)

VARIABLES setup,
          events,   \* m_Events of each task
          deleted,  \* the tasks that were deleted
          queue, inQueue, heap,  \* m_TaskQueue, m_TaskSet, m_TimeoutTaskQueue of each thread
          taskOf,   \* the task of each timer that exists
          due,      \* for each timer whose time has come, those whose time came before
          push,     \* where each pusher is in PushEvents
          run,      \* where each thread is in Entry
          stop,     \* the threads told to stop
          pushed,   \* the events that the clients have pushed
          overlap,  \* the tasks whose events two threads have popped at once
          fate      \* a history: what became of each event that was pushed to each task

tasks == <<events, deleted>>
lists == <<queue, inQueue, heap>>
time == <<taskOf, due>>
vars == <<tasks, lists, time, push, run, stop, pushed, overlap>>

Pushers == Threads \cup Clients
Has(n, b) == (n \div b) % 2 = 1
Or(n, b) == IF Has(n, b) THEN n ELSE n + b
Resting == [at |-> "none"]
Removing == stop # {}
Due == DOMAIN due
\* The earliest of the timers in heap h.
First(h) == {i \in h \cap Due : due[i] \cap h = {}}
\* Timers S are no more.
Forget(S) ==
    /\ taskOf' = [i \in DOMAIN taskOf \ S |-> taskOf[i]]
    /\ due' = [i \in Due \ S |-> due[i] \ S]

Init ==
    /\ setup \in Setups
    /\ events = [k \in Tasks |-> 0] /\ deleted = {}
    /\ queue = [t \in Threads |-> <<>>] /\ inQueue = [t \in Threads |-> {}] /\ heap = [t \in Threads |-> {}]
    /\ taskOf = <<>> /\ due = <<>>
    /\ push = [p \in Pushers |-> Resting]
    /\ run = [t \in Threads |-> [at |-> "look"]]
    /\ stop = {} /\ pushed = 0 /\ overlap = {}
    /\ fate = [k \in Tasks |-> [e \in Bit |-> "none"]]

-----------------------------------------------------------------------------
(* PushEvents and AddTask, in the hands of p.                              *)

\* m_Events |= e: the load.
Loaded(k, e, delay) == [at |-> "store", task |-> k, event |-> e, delay |-> delay, reg |-> events[k]]

\* The store; then IsAlive is read.
PushStore(p) ==
    /\ push[p].at = "store"
    /\ events' = [events EXCEPT ![push[p].task] = Or(push[p].reg, push[p].event)]
    /\ push' = [push EXCEPT ![p].at = "alive"]
    /\ UNCHANGED <<deleted, lists, time, run, stop, pushed, overlap>>

PushAlive(p) ==
    /\ push[p].at = "alive"
    /\ push' = [push EXCEPT ![p] = IF @.task \in deleted THEN Resting
                                   ELSE [@ EXCEPT !.at = IF push[p].delay THEN "stamp" ELSE "find"]]
    /\ UNCHANGED <<tasks, lists, time, run, stop, pushed, overlap>>

\* Slip: a task that some thread works on is taken for queued.
PushFindBusy(p) ==
    /\ push[p].at = "find"
    /\ \E t \in setup.threads :
         push' = [push EXCEPT ![p] = IF t \in stop \/ @.task \in inQueue[t]
                                        \/ (run[t].at \in {"sub", "subStore", "return"} /\ run[t].task = @.task)
                                     THEN Resting
                                     ELSE [at |-> "insert", task |-> @.task, thread |-> t]]
    /\ UNCHANGED <<tasks, lists, time, run, stop, pushed, overlap>>

\* AddTask without delay: the unlocked look in m_TaskSet of the thread picked.
PushFind(p) ==
    /\ push[p].at = "find"
    /\ \E t \in setup.threads :
         push' = [push EXCEPT ![p] = IF t \in stop \/ @.task \in inQueue[t] THEN Resting
                                     ELSE [at |-> "insert", task |-> @.task, thread |-> t]]
    /\ UNCHANGED <<tasks, lists, time, run, stop, pushed, overlap>>

\* push and insert under the lock, then Signal.
PushInsert(p) ==
    /\ push[p].at = "insert"
    /\ LET t == push[p].thread k == push[p].task IN
        /\ queue' = [queue EXCEPT ![t] = Append(@, k)]
        /\ inQueue' = [inQueue EXCEPT ![t] = @ \cup {k}]
        /\ run' = [run EXCEPT ![t] = IF @.at = "asleep" THEN [at |-> "awake"] ELSE @]
    /\ push' = [push EXCEPT ![p] = Resting]
    /\ UNCHANGED <<tasks, heap, time, stop, pushed, overlap>>

Free == Timers \ DOMAIN taskOf

\* AddTask with a delay: the time is computed before the lock is taken.
PushStamp(p) ==
    /\ push[p].at = "stamp" /\ Free # {}
    /\ LET id == CHOOSE i \in Free : TRUE IN
        /\ taskOf' = [i \in DOMAIN taskOf \cup {id} |-> IF i = id THEN push[p].task ELSE taskOf[i]]
        /\ \E t \in setup.threads :
             push' = [push EXCEPT ![p] = [at |-> "heap", task |-> @.task, thread |-> t, timer |-> id]]
    /\ UNCHANGED <<tasks, lists, due, run, stop, pushed, overlap>>

\* The timer goes into the heap, unless the thread was stopped; nobody is signalled.
PushHeap(p) ==
    /\ push[p].at = "heap"
    /\ LET t == push[p].thread IN
        IF t \in stop
        THEN Forget({push[p].timer}) /\ UNCHANGED heap
        ELSE /\ heap' = [heap EXCEPT ![t] = @ \cup {push[p].timer}]
             /\ UNCHANGED time
    /\ push' = [push EXCEPT ![p] = Resting]
    /\ UNCHANGED <<tasks, queue, inQueue, run, stop, pushed, overlap>>

PushStep(p) == PushStore(p) \/ PushAlive(p) \/ PushFind(p) \/ PushInsert(p) \/ PushStamp(p) \/ PushHeap(p)

\* A client pushes an event to a task that it has not told to die.
ClientPush(c) ==
    /\ push[c].at = "none" /\ pushed < setup.pushes /\ ~Removing
    /\ \E k \in setup.tasks \ deleted, e \in setup.kinds, delay \in setup.delays :
         /\ ~Has(events[k], Kill)
         /\ push' = [push EXCEPT ![c] = Loaded(k, e, delay)]
    /\ pushed' = pushed + 1
    /\ UNCHANGED <<tasks, lists, time, run, stop, overlap>>

\* The time of a timer comes.
Tick ==
    /\ \E i \in DOMAIN taskOf \ Due : due' = [j \in Due \cup {i} |-> IF j = i THEN Due ELSE due[j]]
    /\ UNCHANGED <<tasks, lists, taskOf, push, run, stop, pushed, overlap>>

-----------------------------------------------------------------------------
(* Entry and WaitForTask, in thread t.                                     *)

Taken(k) == [at |-> "loop", task |-> k, left |-> MaxRunTimesOnce]

\* The head of WaitForTask's loop: the clock is read, and the top of the heap looked at
\* without the lock.
Look(t) ==
    /\ run[t].at = "look"
    /\ run' = [run EXCEPT ![t] = IF t \in stop THEN [at |-> "end"]
                                 ELSE IF heap[t] \cap Due # {} THEN [at |-> "take"]
                                 ELSE [at |-> "lock", now |-> Due]]
    /\ UNCHANGED <<tasks, lists, time, push, stop, pushed, overlap>>

\* Slip: the timer is looked at and not popped.
TakeKept(t) ==
    /\ run[t].at = "take"
    /\ IF heap[t] = {} THEN run' = [run EXCEPT ![t] = [at |-> "look"]]
       ELSE \E i \in First(heap[t]) : run' = [run EXCEPT ![t] = Taken(taskOf[i])]
    /\ UNCHANGED <<tasks, lists, time, push, stop, pushed, overlap>>

\* The timer that is due leaves the heap under the lock.
Take(t) ==
    /\ run[t].at = "take"
    /\ IF heap[t] = {} THEN run' = [run EXCEPT ![t] = [at |-> "look"]] /\ UNCHANGED <<heap, time>>
       ELSE \E i \in First(heap[t]) :
            /\ heap' = [heap EXCEPT ![t] = @ \ {i}]
            /\ Forget({i})
            /\ run' = [run EXCEPT ![t] = Taken(taskOf[i])]
    /\ UNCHANGED <<tasks, queue, inQueue, push, stop, pushed, overlap>>

\* The front of the queue, under the lock.
TakeFront(t) ==
    /\ queue' = [queue EXCEPT ![t] = Tail(@)]
    /\ inQueue' = [inQueue EXCEPT ![t] = @ \ {Head(queue[t])}]
    /\ run' = [run EXCEPT ![t] = Taken(Head(queue[t]))]

\* With nothing queued it sleeps until the first timer is due, at least 10 ms.  The wait is
\* the time of the timer minus the time read before the lock, an unsigned number: when a
\* timer of the past came in between, it is about 14 days.
Lock(t) ==
    /\ run[t].at = "lock"
    /\ IF queue[t] # <<>> THEN TakeFront(t)
       ELSE /\ run' = [run EXCEPT ![t] = [at |-> "asleep", endless |-> heap[t] \cap @.now # {}]]
            /\ UNCHANGED <<queue, inQueue>>
    /\ UNCHANGED <<tasks, heap, time, push, stop, pushed, overlap>>

\* It wakes by a signal or when the time is over.
Wake(t) ==
    /\ run[t].at = "awake" \/ (run[t].at = "asleep" /\ ~run[t].endless)
    /\ IF queue[t] # <<>> THEN TakeFront(t)
       ELSE run' = [run EXCEPT ![t] = [at |-> "look"]] /\ UNCHANGED <<queue, inQueue>>
    /\ UNCHANGED <<tasks, heap, time, push, stop, pushed, overlap>>

\* Entry: a thread that was stopped gives up the task it has just taken; otherwise the task
\* runs while it is alive and has events, at most MaxRunTimesOnce times.
Loop(t) ==
    /\ run[t].at = "loop"
    /\ LET r == run[t] IN
        run' = [run EXCEPT ![t] = IF r.left = MaxRunTimesOnce /\ t \in stop THEN [at |-> "end"]
                                  ELSE IF r.left > 0 /\ r.task \notin deleted /\ events[r.task] > 0
                                  THEN [at |-> "pop", task |-> r.task, left |-> r.left - 1]
                                  ELSE [at |-> "look"]]
    /\ UNCHANGED <<tasks, lists, time, push, stop, pushed, overlap>>

\* Run calls PopEvents: events = m_Events ...
Popping == {"sub", "subStore"}
Pop(t) ==
    /\ run[t].at = "pop"
    /\ run' = [run EXCEPT ![t] = [at |-> "sub", task |-> @.task, left |-> @.left, got |-> events[@.task]]]
    /\ overlap' = IF \E s \in Threads : run[s].at \in Popping /\ run[s].task = run[t].task
                  THEN overlap \cup {run[t].task} ELSE overlap
    /\ UNCHANGED <<tasks, lists, time, push, stop, pushed>>

\* ... and m_Events -= events, a load and a store.
Sub(t) ==
    /\ run[t].at = "sub"
    /\ run' = [run EXCEPT ![t] = [at |-> "subStore", task |-> @.task, left |-> @.left,
                                  got |-> @.got, reg |-> events[@.task]]]
    /\ UNCHANGED <<tasks, lists, time, push, stop, pushed, overlap>>

SubStore(t) ==
    /\ run[t].at = "subStore"
    /\ events' = [events EXCEPT ![run[t].task] = (run[t].reg + Width - run[t].got) % Width]
    /\ run' = [run EXCEPT ![t] = [at |-> "return", task |-> @.task, left |-> @.left, got |-> @.got]]
    /\ UNCHANGED <<deleted, lists, time, push, stop, pushed, overlap>>

\* Run returns: a killed task -1, and it is deleted; 0, and it runs again if it has events;
\* a delay, and kIdleEvent is pushed with it.
Return(t) ==
    /\ run[t].at = "return"
    /\ LET k == run[t].task IN
        \/ /\ Has(run[t].got, Kill)
           /\ deleted' = deleted \cup {k} /\ events' = [events EXCEPT ![k] = 0]
           /\ run' = [run EXCEPT ![t] = [at |-> "look"]]
           /\ UNCHANGED push
        \/ /\ ~Has(run[t].got, Kill)
           /\ run' = [run EXCEPT ![t] = [at |-> "loop", task |-> k, left |-> @.left]]
           /\ UNCHANGED <<tasks, push>>
        \/ /\ ~Has(run[t].got, Kill) /\ Free # {}
           /\ push' = [push EXCEPT ![t] = Loaded(k, Idle, TRUE)]
           /\ run' = [run EXCEPT ![t] = [at |-> "pushing", task |-> k]]
           /\ UNCHANGED tasks
    /\ UNCHANGED <<lists, time, stop, pushed, overlap>>

Pushed(t) ==
    /\ run[t].at = "pushing" /\ push[t].at = "none"
    /\ run' = [run EXCEPT ![t] = [at |-> "look"]]
    /\ UNCHANGED <<tasks, lists, time, push, stop, pushed, overlap>>

ThreadStep(t) ==
    \/ Look(t) \/ Take(t) \/ Lock(t) \/ Wake(t) \/ Loop(t)
    \/ Pop(t) \/ Sub(t) \/ SubStore(t) \/ Return(t) \/ Pushed(t)

\* RemoveThreads: a thread is told to stop and its lists are emptied, when the threads
\* stopped before it have ended and were joined.
RemoveThread(t) ==
    /\ t \notin stop /\ \A s \in stop : run[s].at = "end"
    /\ \A c \in Clients : push[c].at = "none"
    /\ stop' = stop \cup {t}
    /\ queue' = [queue EXCEPT ![t] = <<>>] /\ inQueue' = [inQueue EXCEPT ![t] = {}]
    /\ heap' = [heap EXCEPT ![t] = {}]
    /\ Forget(heap[t])
    /\ UNCHANGED <<tasks, push, run, pushed, overlap>>

Done == stop = setup.threads /\ (\A t \in stop : run[t].at = "end") /\ UNCHANGED vars

Step ==
    \/ \E p \in Pushers : PushStep(p)
    \/ \E c \in Clients : ClientPush(c)
    \/ \E t \in setup.threads : ThreadStep(t) \/ RemoveThread(t)
    \/ Tick \/ Done

\* The history of the pushes, which no action reads.  An event is "pushed" when it is stored in
\* m_Events, "none" again when a Run has popped it, and "undone" when it was wiped.
StoresPush(p, k) == push[p].at = "store" /\ push[p].task = k /\ push'[p] # push[p]
StoresPop(t, k) == run[t].at = "subStore" /\ run[t].task = k /\ run'[t] # run[t]
PushStored(k) == {e \in Bit : \E p \in Pushers : StoresPush(p, k) /\ push[p].event = e}
PopStored(k) == {e \in Bit : \E t \in Threads : StoresPop(t, k) /\ Has(run[t].got, e)}

\* The events in m_Events that a |= or -= wipes because it loaded m_Events before they were
\* stored; of -= also those that it borrows from, as it pops an event that was wiped meanwhile.
Wiped(k) ==
    {e \in Bit : /\ Has(events[k], e)
                /\ \/ \E p \in Pushers : StoresPush(p, k) /\ ~Has(push[p].reg, e)
                   \/ \E t \in Threads : /\ StoresPop(t, k)
                                         /\ \E b \in Bit : ~Has(run[t].reg, b) /\ (b = e \/ Has(run[t].got, b))}
Remember ==
    fate' = [k \in Tasks |-> [e \in Bit |->
               IF e \in PushStored(k) THEN "pushed"
               ELSE IF e \in PopStored(k) THEN "none"
               ELSE IF e \in Wiped(k) /\ fate[k][e] = "pushed" THEN "undone"
               ELSE fate[k][e]]]

Next == Step /\ Remember /\ UNCHANGED setup

\* Every thread goes on, and time passes.  One task that is not killed is followed to the end by
\* one thread: of two, one may put a timer of the past into the other's heap before it sleeps.
Steady ==
    /\ Cardinality(setup.threads) = 1 /\ Cardinality(setup.tasks) = 1
    /\ setup.kinds = {Start} /\ setup.delays = {FALSE}
Fairness ==
    /\ WF_vars(Steady /\ Tick)
    /\ \A p \in Pushers : WF_vars(Steady /\ PushStep(p))
    /\ \A t \in Threads : WF_vars(Steady /\ t \in setup.threads /\ ThreadStep(t))

Spec == Init /\ [][Next]_<<vars, setup, fate>> /\ Fairness

-----------------------------------------------------------------------------
\* Every variable keeps its type; m_TaskSet is the set of what is queued, and a timer is in
\* one heap at most.
TypeOK ==
    /\ setup \in Setups
    /\ events \in [Tasks -> 0 .. Width - 1] /\ deleted \subseteq Tasks /\ stop \subseteq Threads
    /\ queue \in [Threads -> Seq(Tasks)] /\ inQueue \in [Threads -> SUBSET Tasks]
    /\ \A t \in Threads : inQueue[t] \subseteq {queue[t][i] : i \in 1 .. Len(queue[t])}
    /\ DOMAIN taskOf \subseteq Timers /\ Due \subseteq DOMAIN taskOf /\ \A i \in Due : due[i] \subseteq Due
    /\ heap \in [Threads -> SUBSET DOMAIN taskOf]
    /\ \A s, t \in Threads : s # t => heap[s] \cap heap[t] = {}
    /\ pushed \in 0 .. setup.pushes

\* The type of the history.
HistoryOK == fate \in [Tasks -> [Bit -> {"none", "pushed", "undone"}]]

\* A thread or a timer will look at the events of task k: it is queued, it waits for its
\* time, it is on its way to a list, or a thread is about to read m_Events.
Expected(k) ==
    \/ \E t \in Threads : \E i \in 1 .. Len(queue[t]) : queue[t][i] = k
    \/ \E i \in DOMAIN taskOf : taskOf[i] = k
    \/ \E p \in Pushers : push[p].at \notin {"none", "store"} /\ push[p].task = k
    \/ \E t \in Threads : run[t].at \in {"loop", "pop"} /\ run[t].task = k
    \/ \E t \in Threads : run[t].at \in {"sub", "subStore"} /\ run[t].task = k

\* No wake-up is lost: whatever the pushers and the threads do between the unlocked looks, an
\* event that is set in m_Events is one that somebody will still look at.  (Two threads that
\* pop the events of one task at once take them away twice: m_Events wraps, and is left with
\* events that nobody has pushed.)
NotStranded == ~Removing => \A k \in Tasks \ (deleted \cup overlap) : events[k] # 0 => Expected(k)

\* Well typed, and no event is stranded, in every state of the pool.
SchedulerInv == TypeOK /\ HistoryOK /\ NotStranded

\* The timers in heaps are taken out when their time has come.
TimerFires ==
    \A i \in Timers :
        Steady => ((\E t \in Threads : i \in heap[t] /\ i \in Due) ~> \A t \in Threads : i \notin heap[t])

\* An event pushed to a task is popped by a Run, unless a |= or -= that overlapped the push
\* wipes it from m_Events first (m_Events has no lock) or the pool is removed.
Handled ==
    \A k \in Tasks, e \in Bit :
        Steady => ((fate[k][e] = "pushed") ~> (fate[k][e] # "pushed" \/ Removing))
=============================================================================
