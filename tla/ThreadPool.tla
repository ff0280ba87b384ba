----------------------------- MODULE ThreadPool -----------------------------
(***************************************************************************)
(* threadpool and semaphore of libchen (src/libchen_libsocket/lib/libchen, *)
(* src/mt/threadpool.cpp and semaphore.cpp, include/chen/mt).  A task is   *)
(* queued under one lock and announced by a permit under another; a worker *)
(* takes a permit first and looks at the queue later, and the permits that *)
(* end the workers are not to be told from those that announce tasks.      *)
(*                                                                         *)
(* Each section that holds a lock is one step; between two of them any     *)
(* thread may run.  The owner posts and destroys; a task that runs posts   *)
(* as well, also while the pool is being destroyed.                        *)
(*                                                                         *)
(* A definition marked Slip is a plausible mistake in the one after it,    *)
(* kept to show which of the properties would notice.                      *)
(***************************************************************************)
EXTENDS Integers, Sequences, FiniteSets

CONSTANTS
  Worker,  \* the threads of _pool
  Owner,   \* the thread that owns the pool
  Task,    \* the functions posted, each at most once
  Poster,  \* who posts a task: Owner, or the task that does while it runs
  Idle     \* no task

ASSUME PoolAssumption ==
  /\ IsFiniteSet(Worker) /\ Worker # {}
  /\ Owner \notin Worker
  /\ Idle \notin Task
  /\ Poster \in [Task -> Task \cup {Owner}]

VARIABLES
  queue,    \* _queue
  exit,     \* _exit
  fast,     \* _fast: leave what is queued when destroyed
  count,    \* _count of the semaphore
  pc,       \* where a worker is in run()
  task,     \* what a worker runs
  unlocked, \* threads that have queued a task and not posted its permit yet
  posted,   \* history: tasks ever queued
  runs,     \* history: how often each task was started
  closing,  \* how far clean() is: "no", "posting", "joining", "joined"
  permits   \* what clean() has posted

vars == <<queue, exit, fast, count, pc, task, unlocked, posted, runs, closing, permits>>

poolVars == <<queue, exit, fast, posted, runs>>

Init ==
  /\ queue = <<>>
  /\ exit = FALSE
  /\ fast \in BOOLEAN
  /\ count = 0
  /\ pc = [w \in Worker |-> "wait"]
  /\ task = [w \in Worker |-> Idle]
  /\ unlocked = {}
  /\ posted = {}
  /\ runs = [t \in Task |-> 0]
  /\ closing = "no"
  /\ permits = 0

At(label) == {w \in Worker : pc[w] = label}

-----------------------------------------------------------------------------
(* semaphore *)

\* Slip: only the first permit wakes a thread.
PermitWakesFirst ==
  /\ count' = count + 1
  /\ IF count = 0 /\ At("asleep") # {}
       THEN \E w \in At("asleep") : pc' = [pc EXCEPT ![w] = "wait"]
       ELSE UNCHANGED pc

\* post(): notify_one wakes one sleeper, if there is one.
Permit ==
  /\ count' = count + 1
  /\ IF At("asleep") # {}
       THEN \E w \in At("asleep") : pc' = [pc EXCEPT ![w] = "wait"]
       ELSE UNCHANGED pc

\* wait(), asleep or awake.
Wait(w) ==
  /\ pc[w] = "wait"
  /\ \/ /\ count > 0
        /\ count' = count - 1
        /\ pc' = [pc EXCEPT ![w] = "look"]
     \/ /\ count = 0
        /\ pc' = [pc EXCEPT ![w] = "asleep"]
        /\ UNCHANGED count
  /\ UNCHANGED <<poolVars, task, unlocked, closing, permits>>

\* A condition variable may wake a thread for no reason.
SpuriousWake(w) ==
  /\ pc[w] = "asleep"
  /\ pc' = [pc EXCEPT ![w] = "wait"]
  /\ UNCHANGED <<poolVars, count, task, unlocked, closing, permits>>

-----------------------------------------------------------------------------
(* threadpool *)

\* The tasks thread p may still post: its own, or those of the task it runs.
MayPost(p) ==
  {t \in Task \ posted :
     \/ p = Owner /\ closing = "no" /\ Poster[t] = Owner
     \/ p \in At("run") /\ Poster[t] = task[p]}

\* post(): up to lock.unlock().
Push(p, t) ==
  /\ p \notin unlocked
  /\ t \in MayPost(p)
  /\ queue' = Append(queue, t)
  /\ posted' = posted \cup {t}
  /\ unlocked' = unlocked \cup {p}
  /\ UNCHANGED <<exit, fast, count, pc, task, runs, closing, permits>>

\* post(): _semaphore.post().
Announce(p) ==
  /\ p \in unlocked
  /\ Permit
  /\ unlocked' = unlocked \ {p}
  /\ UNCHANGED <<poolVars, task, closing, permits>>

Start(w) ==
  /\ queue' = Tail(queue)
  /\ task' = [task EXCEPT ![w] = Head(queue)]
  /\ runs' = [runs EXCEPT ![Head(queue)] = @ + 1]
  /\ pc' = [pc EXCEPT ![w] = "run"]

\* Slip: the flag before the queue.
LookAtExitFirst(w) ==
  /\ pc[w] = "look"
  /\ \/ /\ exit
        /\ pc' = [pc EXCEPT ![w] = "done"]
        /\ UNCHANGED <<queue, task, runs>>
     \/ /\ ~ exit /\ queue # <<>>
        /\ Start(w)
     \/ /\ ~ exit /\ queue = <<>>
        /\ pc' = [pc EXCEPT ![w] = "wait"]
        /\ UNCHANGED <<queue, task, runs>>
  /\ UNCHANGED <<exit, fast, count, unlocked, posted, closing, permits>>

\* run(): from the lock on, with a permit in hand.
Look(w) ==
  /\ pc[w] = "look"
  /\ \/ /\ queue # <<>> /\ (~ fast \/ ~ exit)
        /\ Start(w)
     \/ /\ queue = <<>> \/ (fast /\ exit)
        /\ pc' = [pc EXCEPT ![w] = IF exit THEN "done" ELSE "wait"]
        /\ UNCHANGED <<queue, task, runs>>
  /\ UNCHANGED <<exit, fast, count, unlocked, posted, closing, permits>>

\* task() returns.
Finish(w) ==
  /\ pc[w] = "run" /\ w \notin unlocked
  /\ pc' = [pc EXCEPT ![w] = "wait"]
  /\ task' = [task EXCEPT ![w] = Idle]
  /\ UNCHANGED <<poolVars, count, unlocked, closing, permits>>

\* Slip: the queue is thrown away as well.
SetExitClears ==
  /\ closing = "no" /\ Owner \notin unlocked
  /\ exit' = TRUE
  /\ queue' = <<>>
  /\ closing' = "posting"
  /\ UNCHANGED <<fast, count, pc, task, unlocked, posted, runs, permits>>

\* ~threadpool(): clean() sets the flag.
SetExit ==
  /\ closing = "no" /\ Owner \notin unlocked
  /\ exit' = TRUE
  /\ closing' = "posting"
  /\ UNCHANGED <<queue, fast, count, pc, task, unlocked, posted, runs, permits>>

\* Slip: one permit to end them all.
Enough == permits = 1

\* The loop over _pool has posted a permit for each thread.
AllPosted == permits = Cardinality(Worker)

PostExit ==
  /\ closing = "posting" /\ ~ AllPosted
  /\ Permit
  /\ permits' = permits + 1
  /\ UNCHANGED <<poolVars, task, unlocked, closing>>

StartJoin ==
  /\ closing = "posting" /\ AllPosted
  /\ closing' = "joining"
  /\ UNCHANGED <<poolVars, count, pc, task, unlocked, permits>>

Joined ==
  /\ closing = "joining" /\ At("done") = Worker
  /\ closing' = "joined"
  /\ UNCHANGED <<poolVars, count, pc, task, unlocked, permits>>

WorkerStep(w) == Wait(w) \/ Look(w) \/ Announce(w) \/ Finish(w)

OwnerStep == Announce(Owner) \/ PostExit \/ StartJoin \/ Joined

Next ==
  \/ \E w \in Worker : WorkerStep(w) \/ SpuriousWake(w)
  \/ \E p \in Worker \cup {Owner}, t \in Task : Push(p, t)
  \/ SetExit
  \/ OwnerStep

Spec == Init /\ [][Next]_vars

(***************************************************************************)
(* The scheduler forgets no thread, tasks return, and the owner finishes   *)
(* what it has begun.  Nobody has to post, to destroy the pool, or to wake *)
(* for no reason.                                                          *)
(***************************************************************************)
FairSpec ==
  /\ Spec
  /\ \A w \in Worker : WF_vars(WorkerStep(w))
  /\ WF_vars(OwnerStep)

-----------------------------------------------------------------------------
(* Properties *)

TypeOK ==
  /\ queue \in Seq(Task)
  /\ exit \in BOOLEAN /\ fast \in BOOLEAN
  /\ count \in Nat
  /\ pc \in [Worker -> {"wait", "asleep", "look", "run", "done"}]
  /\ task \in [Worker -> Task \cup {Idle}]
  /\ unlocked \subseteq Worker \cup {Owner}
  /\ posted \subseteq Task
  /\ runs \in [Task -> Nat]
  /\ closing \in {"no", "posting", "joining", "joined"}
  /\ permits \in Nat

(***************************************************************************)
(* Each permit stands for one task in the queue or one worker to end, from *)
(* the time it is posted until the worker that took it has looked: what is *)
(* queued and not announced, announced and not taken, taken and not used,  *)
(* adds up at every interleaving.  A fast pool leaves tasks behind once it *)
(* is destroyed, so there it holds until then.                             *)
(***************************************************************************)
PermitsMatch ==
  ~ fast \/ ~ exit =>
    count + Cardinality(At("look"))
      = Len(queue) - Cardinality(unlocked) + permits - Cardinality(At("done"))

(***************************************************************************)
(* No lost wake-up: while a worker sleeps, the permits there are belong to *)
(* workers that are awake and about to take them.                          *)
(***************************************************************************)
NoLostWakeup ==
  At("asleep") # {} => count <= Cardinality(At("wait"))

Queued == {queue[i] : i \in DOMAIN queue}

(***************************************************************************)
(* When the pool is destroyed every task posted to it, also by tasks that  *)
(* ran meanwhile, was run exactly once; in a fast pool at most once, and   *)
(* those that were not are still queued.                                   *)
(***************************************************************************)
AllRunOnce ==
  closing = "joined" =>
    /\ \A t \in posted : runs[t] = IF t \in Queued THEN 0 ELSE 1
    /\ ~ fast => queue = <<>>

\* A pool that is being destroyed is destroyed in the end.
PoolEnds == exit ~> closing = "joined"

\* A task posted to a pool that is not fast is run, be it destroyed or not.
TasksRun == \A t \in Task : t \in posted /\ ~ fast ~> runs[t] = 1
=============================================================================
