------------------------- MODULE TaskSchedulerProofs -------------------------
(***************************************************************************)
(* Proofs about TaskScheduler, for any tasks, threads, pushers and timers: *)
(* it is well typed, and no event is left that nobody will look at.        *)
(*                                                                         *)
(* The latter needs to know what a thread has loaded and not stored yet:   *)
(* between its load and its store either m_Events is what it has loaded,   *)
(* or a newer event is in it that is on its way to a list (Counted).       *)
(***************************************************************************)
EXTENDS TaskScheduler, TLAPS

\* Where a pusher may be, and what it has in hand there.
PushRec ==
  [at : {"none"}]
    \cup [at : {"store"}, task : Tasks, event : Bit, delay : BOOLEAN, reg : 0 .. Width - 1]
    \cup [at : {"alive", "find", "stamp"}, task : Tasks, event : Bit, delay : BOOLEAN, reg : 0 .. Width - 1]
    \cup [at : {"insert"}, task : Tasks, thread : Threads]
    \cup [at : {"heap"}, task : Tasks, thread : Threads, timer : Timers]

\* Where a thread may be, and what it has in hand there.
RunRec ==
  [at : {"look", "take", "awake", "end"}]
    \cup [at : {"lock"}, now : SUBSET Timers]
    \cup [at : {"asleep"}, endless : BOOLEAN]
    \cup [at : {"loop", "pop"}, task : Tasks, left : 0 .. MaxRunTimesOnce]
    \cup [at : {"sub", "return"}, task : Tasks, left : 0 .. MaxRunTimesOnce, got : 0 .. Width - 1]
    \cup [at : {"subStore"}, task : Tasks, left : 0 .. MaxRunTimesOnce, got : 0 .. Width - 1, reg : 0 .. Width - 1]
    \cup [at : {"pushing"}, task : Tasks]

\* Pushers and threads are at such places.
Records == push \in [Pushers -> PushRec] /\ run \in [Threads -> RunRec]

\* A timer that was stamped is with its pusher alone until it is in a heap; a thread pushes
\* only from Run.
Hands ==
  /\ taskOf \in [DOMAIN taskOf -> Tasks]
  /\ \A p \in Pushers : push[p].at = "heap" =>
       /\ push[p].timer \in DOMAIN taskOf /\ taskOf[push[p].timer] = push[p].task
       /\ \A t \in Threads : push[p].timer \notin heap[t]
  /\ \A p, q \in Pushers : p # q /\ push[p].at = "heap" /\ push[q].at = "heap" => push[p].timer # push[q].timer
  /\ \A t \in Threads : run[t].at # "pushing" => push[t].at = "none"

\* Thread t has loaded the events of task k and not taken them away yet.
Pops(t, k) == run[t].at \in Popping /\ run[t].task = k
\* No two threads do, but for the tasks in overlap.
Single == \A k \in Tasks \ overlap : \A s, t \in Threads : Pops(s, k) /\ Pops(t, k) => s = t

(* What will make a thread look at task k. *)

\* It is in a queue.
Queued(k) == \E t \in Threads : \E i \in 1 .. Len(queue[t]) : queue[t][i] = k
\* It has a timer.
Timed(k) == \E i \in DOMAIN taskOf : taskOf[i] = k
\* Pusher p has stored its event and is on its way to a list.
Carries(p, k) == push[p].at \notin {"none", "store"} /\ push[p].task = k
\* Thread t has the task in hand and is sure to load its events.
Looks(t, k) ==
  /\ run[t].at = "pop" \/ (run[t].at = "loop" /\ run[t].left = MaxRunTimesOnce)
  /\ run[t].task = k
\* Somebody will look at task k who has not loaded its events.
Coming(k) == Queued(k) \/ Timed(k) \/ (\E p \in Pushers : Carries(p, k)) \/ \E t \in Threads : Looks(t, k)
\* m_Events has something, and somebody is coming for it.
Unseen(k) == events[k] # 0 /\ Coming(k)

\* Events are seen by a look to come or by a pop under way.  What a pop under way has loaded
\* is what m_Events holds, or somebody else is coming for it.
CountedFor(k) ==
  /\ events[k] # 0 => Coming(k) \/ \E t \in Threads : Pops(t, k)
  /\ \A t \in Threads : run[t].at = "sub" /\ run[t].task = k => run[t].got = events[k] \/ Unseen(k)
  /\ \A t \in Threads : run[t].at = "subStore" /\ run[t].task = k => run[t].got = run[t].reg \/ Unseen(k)
\* That of every task that is alive and that no two threads have popped at once.
Counted == ~Removing => \A k \in Tasks \ (deleted \cup overlap) : CountedFor(k)

\* The inductive invariant.
Ind == TypeOK /\ Records /\ Hands /\ Single /\ Counted

(***************************************************************************)
(* Helpers.                                                                *)
(***************************************************************************)

\* |= keeps m_Events within its bits and leaves the event set.
LEMMA Ored ==
  ASSUME NEW n \in 0 .. Width - 1, NEW b \in Bit
  PROVE  Or(n, b) \in 0 .. Width - 1 /\ Or(n, b) # 0
<1>1. CASE b = 1
  BY <1>1 DEF Or, Has, Width
<1>2. CASE b = 2
  BY <1>2 DEF Or, Has, Width
<1>3. CASE b = 4
  BY <1>3 DEF Or, Has, Width
<1> QED BY <1>1, <1>2, <1>3 DEF Bit, Kill, Idle, Start

\* -= keeps it within them, and takes away what was there.
LEMMA Subtracted ==
  ASSUME NEW n \in 0 .. Width - 1, NEW b \in 0 .. Width - 1
  PROVE  /\ (n + Width - b) % Width \in 0 .. Width - 1
         /\ n = b => (n + Width - b) % Width = 0
BY DEF Width

\* A step of one pusher.
LEMMA PushAt ==
  ASSUME Records, NEW p \in Pushers, NEW r \in PushRec, push' = [push EXCEPT ![p] = r]
  PROVE  /\ push' \in [Pushers -> PushRec] /\ push'[p] = r
         /\ \A q \in Pushers : q # p => push'[q] = push[q]
BY DEF Records

\* A step of one thread.
LEMMA RunAt ==
  ASSUME Records, NEW t \in Threads, NEW r \in RunRec, run' = [run EXCEPT ![t] = r]
  PROVE  /\ run' \in [Threads -> RunRec] /\ run'[t] = r
         /\ \A s \in Threads : s # t => run'[s] = run[s]
BY DEF Records

\* The constants.
LEMMA Numbers == MaxRunTimesOnce \in Nat \ {0} /\ Threads \subseteq Pushers /\ Clients \subseteq Pushers
                 /\ Threads \cap Clients = {}
BY SchedulerAssumption DEF Pushers

\* The setup.
LEMMA SetupFacts ==
  ASSUME TypeOK
  PROVE  /\ setup.threads \subseteq Threads /\ setup.tasks \subseteq Tasks /\ setup.kinds \subseteq Bit
         /\ setup.delays \subseteq BOOLEAN /\ setup.pushes \in Nat
BY SchedulerAssumption DEF TypeOK

\* What is written of a task stays true of it if m_Events of it is what it was, what is on its
\* way still is, and nobody is about to pop it who was not before.
LEMMA CountKept ==
  ASSUME NEW k \in Tasks, CountedFor(k), events'[k] = events[k],
         events[k] # 0 /\ Coming(k) => Coming(k)',
         \A t \in Threads : Pops(t, k) => Pops(t, k)',
         \A t \in Threads : Pops(t, k)' => run'[t] = run[t]
  PROVE  CountedFor(k)'
<1> USE DEF CountedFor, Unseen, Pops, Popping
<1>1. (events[k] # 0 => Coming(k) \/ \E t \in Threads : Pops(t, k))'
  OBVIOUS
<1>2. ASSUME NEW t \in Threads, run'[t].at = "sub", run'[t].task = k
      PROVE  run'[t].got = events'[k] \/ Unseen(k)'
  BY <1>2
<1>3. ASSUME NEW t \in Threads, run'[t].at = "subStore", run'[t].task = k
      PROVE  run'[t].got = run'[t].reg \/ Unseen(k)'
  BY <1>3
<1> QED BY <1>1, <1>2, <1>3

(***************************************************************************)
(* The beginning, and the steps of a thread that touch nothing else.       *)
(***************************************************************************)

LEMMA StartsRight == Init => Ind
<1> SUFFICES ASSUME Init PROVE Ind
  OBVIOUS
<1> USE Numbers DEF Init
<1>1. TypeOK
  <2>1. setup.pushes \in Nat
    BY SchedulerAssumption
  <2>2. \A t \in Threads : inQueue[t] = {} /\ heap[t] = {}
    OBVIOUS
  <2>3. DOMAIN taskOf = {} /\ Due = {} /\ heap \in [Threads -> SUBSET DOMAIN taskOf]
    BY DEF Due
  <2>4. queue \in [Threads -> Seq(Tasks)] /\ inQueue \in [Threads -> SUBSET Tasks]
    OBVIOUS
  <2>5. events \in [Tasks -> 0 .. Width - 1]
    BY DEF Width
  <2> QED BY <2>1, <2>2, <2>3, <2>4, <2>5 DEF TypeOK
<1>2. Records
  BY DEF Records, PushRec, RunRec, Resting
<1>3. Hands
  <2>1. DOMAIN taskOf = {} /\ taskOf \in [DOMAIN taskOf -> Tasks]
    OBVIOUS
  <2>2. \A p \in Pushers : push[p].at = "none"
    BY DEF Resting
  <2> QED BY <2>1, <2>2 DEF Hands
<1>4. Single
  BY DEF Single, Pops, Popping
<1>5. Counted
  <2>1. \A k \in Tasks : CountedFor(k)
    BY DEF CountedFor
  <2> QED BY <2>1 DEF Counted
<1> QED BY <1>1, <1>2, <1>3, <1>4, <1>5 DEF Ind

\* What is not looked at by t itself is still on its way.
LEMMA OnlyRun ==
  ASSUME Ind, NEW t \in Threads, NEW r \in RunRec, run' = [run EXCEPT ![t] = r],
         UNCHANGED <<tasks, lists, time, push, stop, pushed, overlap, setup>>,
         r.at \notin Popping, run[t].at \notin Popping,
         r.at # "pushing" => push[t].at = "none",
         \A k \in Tasks \ deleted : ~Removing /\ Looks(t, k) /\ events[k] # 0 => Looks(t, k)'
  PROVE  Ind'
<1>1. /\ run' \in [Threads -> RunRec] /\ run'[t] = r
      /\ \A s \in Threads : s # t => run'[s] = run[s]
  BY RunAt DEF Ind
<1>2. /\ UNCHANGED <<events, deleted, queue, inQueue, heap, taskOf, due, push, stop, pushed, overlap, setup>>
  BY DEF tasks, lists, time
<1>3. TypeOK'
  BY <1>2 DEF Ind, TypeOK, Due
<1>4. Records'
  BY <1>1, <1>2 DEF Ind, Records
<1>5. Hands'
  BY <1>1, <1>2 DEF Ind, Hands
<1>6. \A s \in Threads, k \in Tasks : Pops(s, k)' <=> Pops(s, k)
  BY <1>1 DEF Pops, Popping
<1>7. Single'
  BY <1>2, <1>6 DEF Ind, Single
<1>8. Counted'
  <2> SUFFICES ASSUME ~Removing, NEW k \in Tasks \ (deleted \cup overlap) PROVE CountedFor(k)'
    BY <1>2 DEF Counted, Removing
  <2>1. CountedFor(k)
    BY DEF Ind, Counted
  <2>2. \A s \in Threads : Pops(s, k)' => run'[s] = run[s]
    BY <1>1 DEF Pops, Popping
  <2>3. ASSUME events[k] # 0, Coming(k) PROVE Coming(k)'
    <3>1. CASE Queued(k)
      BY <1>2, <3>1 DEF Coming, Queued
    <3>2. CASE Timed(k)
      BY <1>2, <3>2 DEF Coming, Timed
    <3>3. CASE \E p \in Pushers : Carries(p, k)
      BY <1>2, <3>3 DEF Coming, Carries
    <3>4. CASE \E s \in Threads : Looks(s, k)
      <4>1. PICK s \in Threads : Looks(s, k)
        BY <3>4
      <4>2. Looks(s, k)'
        BY <1>1, <2>3, <4>1 DEF Looks
      <4> QED BY <4>2 DEF Coming
    <3> QED BY <2>3, <3>1, <3>2, <3>3, <3>4 DEF Coming
  <2> QED BY <1>2, <1>6, <2>1, <2>2, <2>3, CountKept
<1> QED BY <1>3, <1>4, <1>5, <1>7, <1>8 DEF Ind

(***************************************************************************)
(* The threads.                                                            *)
(***************************************************************************)

\* A thread outside of PushEvents pushes nothing.
LEMMA Quiet ==
  ASSUME Ind, NEW t \in Threads, run[t].at # "pushing"
  PROVE  push[t].at = "none"
BY DEF Ind, Hands

LEMMA Looking ==
  ASSUME Ind, NEW t \in Threads, Look(t), UNCHANGED setup
  PROVE  Ind'
<1>1. PICK r \in RunRec : run' = [run EXCEPT ![t] = r] /\ r.at \in {"end", "take", "lock"}
  <2>1. CASE t \in stop
    <3>1. [at |-> "end"] \in RunRec
      BY DEF RunRec
    <3> QED BY <2>1, <3>1 DEF Look
  <2>2. CASE t \notin stop /\ heap[t] \cap Due # {}
    <3>1. [at |-> "take"] \in RunRec
      BY DEF RunRec
    <3> QED BY <2>2, <3>1 DEF Look
  <2>3. CASE t \notin stop /\ heap[t] \cap Due = {}
    <3>1. [at |-> "lock", now |-> Due] \in RunRec
      BY DEF RunRec, Ind, TypeOK
    <3> QED BY <2>3, <3>1 DEF Look
  <2> QED BY <2>1, <2>2, <2>3
<1>2. run[t].at = "look" /\ UNCHANGED <<tasks, lists, time, push, stop, pushed, overlap, setup>>
  BY DEF Look
<1>3. \A k \in Tasks : ~Looks(t, k)
  BY <1>2 DEF Looks
<1> QED BY <1>1, <1>2, <1>3, OnlyRun, Quiet DEF Popping

LEMMA Looping ==
  ASSUME Ind, NEW t \in Threads, Loop(t), UNCHANGED setup
  PROVE  Ind'
<1> DEFINE r == run[t]
<1>1. r.at = "loop" /\ UNCHANGED <<tasks, lists, time, push, stop, pushed, overlap, setup>>
  BY DEF Loop
<1>2. r \in [at : {"loop", "pop"}, task : Tasks, left : 0 .. MaxRunTimesOnce]
  BY <1>1 DEF Ind, Records, RunRec
<1>3. CASE r.left = MaxRunTimesOnce /\ t \in stop
  <2>1. [at |-> "end"] \in RunRec /\ run' = [run EXCEPT ![t] = [at |-> "end"]]
    BY <1>3 DEF RunRec, Loop
  <2>2. Removing
    BY <1>3 DEF Removing
  <2> QED BY <1>1, <2>1, <2>2, OnlyRun, Quiet DEF Popping
<1>4. CASE ~(r.left = MaxRunTimesOnce /\ t \in stop) /\ r.left > 0 /\ r.task \notin deleted /\ events[r.task] > 0
  <2> DEFINE n == [at |-> "pop", task |-> r.task, left |-> r.left - 1]
  <2>1. n \in RunRec
    <3>1. r.left - 1 \in 0 .. MaxRunTimesOnce
      BY <1>2, <1>4, Numbers
    <3> QED BY <1>2, <3>1 DEF RunRec
  <2>2. run' = [run EXCEPT ![t] = n]
    BY <1>4 DEF Loop
  <2>3. run'[t] = n
    BY <2>1, <2>2, RunAt DEF Ind
  <2>4. \A k \in Tasks : Looks(t, k) => Looks(t, k)'
    BY <2>3 DEF Looks
  <2> QED BY <1>1, <2>1, <2>2, <2>4, OnlyRun, Quiet DEF Popping
<1>5. CASE ~(r.left = MaxRunTimesOnce /\ t \in stop) /\ ~(r.left > 0 /\ r.task \notin deleted /\ events[r.task] > 0)
  <2>1. [at |-> "look"] \in RunRec /\ run' = [run EXCEPT ![t] = [at |-> "look"]]
    BY <1>5 DEF RunRec, Loop
  <2>2. ASSUME NEW k \in Tasks \ deleted, Looks(t, k) PROVE events[k] = 0
    <3>1. r.left = MaxRunTimesOnce /\ r.task = k
      BY <1>1, <2>2 DEF Looks
    <3>2. ~(events[k] > 0) /\ events[k] \in 0 .. Width - 1
      BY <1>5, <3>1, Numbers DEF Ind, TypeOK
    <3> QED BY <3>2 DEF Width
  <2> QED BY <1>1, <2>1, <2>2, OnlyRun, Quiet DEF Popping
<1> QED BY <1>3, <1>4, <1>5

LEMMA PushEnds ==
  ASSUME Ind, NEW t \in Threads, Pushed(t), UNCHANGED setup
  PROVE  Ind'
<1>1. [at |-> "look"] \in RunRec
  BY DEF RunRec
<1>2. \A k \in Tasks : ~Looks(t, k)
  BY DEF Looks, Pushed
<1> QED BY <1>1, <1>2, OnlyRun DEF Pushed, Popping

\* The front of the queue: one that wakes or is about to sleep takes it.
LEMMA Fronts ==
  ASSUME Ind, NEW t \in Threads, TakeFront(t), queue[t] # <<>>, run[t].at \in {"lock", "awake", "asleep"},
         UNCHANGED <<tasks, heap, time, push, stop, pushed, overlap, setup>>
  PROVE  Ind'
<1>0. PICK k0 \in Tasks : k0 = Head(queue[t])
  BY DEF Ind, TypeOK
<1> DEFINE r == Taken(k0)
<1>1. /\ queue[t] \in Seq(Tasks) /\ k0 \in Tasks /\ Tail(queue[t]) \in Seq(Tasks)
      /\ Len(Tail(queue[t])) = Len(queue[t]) - 1 /\ Len(queue[t]) \in Nat \ {0}
      /\ \A i \in 1 .. Len(queue[t]) - 1 : Tail(queue[t])[i] = queue[t][i + 1]
      /\ k0 = queue[t][1]
  BY <1>0 DEF Ind, TypeOK
<1>2. r \in RunRec /\ r.at = "loop" /\ r.task = k0 /\ r.left = MaxRunTimesOnce
  BY <1>1, Numbers DEF RunRec, Taken
<1> HIDE DEF r
<1>3. /\ run' \in [Threads -> RunRec] /\ run'[t] = r
      /\ \A s \in Threads : s # t => run'[s] = run[s]
  BY <1>0, <1>2, RunAt DEF Ind, TakeFront, r
<1>4. UNCHANGED <<events, deleted, heap, taskOf, due, push, stop, pushed, overlap, setup>>
  BY DEF tasks, time
<1>5. /\ queue' = [queue EXCEPT ![t] = Tail(queue[t])]
      /\ inQueue' = [inQueue EXCEPT ![t] = inQueue[t] \ {k0}]
  BY <1>0 DEF TakeFront
<1>6. queue' \in [Threads -> Seq(Tasks)] /\ inQueue' \in [Threads -> SUBSET Tasks]
  BY <1>1, <1>5 DEF Ind, TypeOK
<1>7. queue'[t] = Tail(queue[t]) /\ \A s \in Threads : s # t => queue'[s] = queue[s] /\ inQueue'[s] = inQueue[s]
  BY <1>5 DEF Ind, TypeOK
<1>8. \A k \in Tasks, i \in 1 .. Len(queue[t]) : queue[t][i] = k /\ k # k0 => \E j \in 1 .. Len(queue'[t]) : queue'[t][j] = k
  <2> SUFFICES ASSUME NEW i \in 1 .. Len(queue[t]), queue[t][i] # k0
               PROVE  \E j \in 1 .. Len(queue'[t]) : queue'[t][j] = queue[t][i]
    OBVIOUS
  <2>1. i # 1 /\ i - 1 \in 1 .. Len(queue[t]) - 1
    BY <1>1
  <2>2. Tail(queue[t])[i - 1] = queue[t][i]
    BY <1>1, <2>1
  <2> QED BY <1>1, <1>7, <2>1, <2>2
<1>9. \A s \in Threads : inQueue'[s] \subseteq {queue'[s][i] : i \in 1 .. Len(queue'[s])}
  <2> SUFFICES ASSUME NEW s \in Threads, NEW k \in inQueue'[s]
               PROVE  \E i \in 1 .. Len(queue'[s]) : queue'[s][i] = k
    OBVIOUS
  <2>1. inQueue[s] \subseteq {queue[s][i] : i \in 1 .. Len(queue[s])}
    BY DEF Ind, TypeOK
  <2>2. CASE s = t
    <3>1. k \in inQueue[t] /\ k # k0 /\ k \in Tasks
      BY <1>5, <1>6, <2>2 DEF Ind, TypeOK
    <3> QED BY <1>8, <2>1, <2>2, <3>1
  <2>3. CASE s # t
    BY <1>7, <2>1, <2>3
  <2> QED BY <2>2, <2>3
<1>10. TypeOK'
  BY <1>4, <1>6, <1>9 DEF Ind, TypeOK, Due
<1>11. Records'
  BY <1>3, <1>4 DEF Ind, Records
<1>12. Hands'
  BY <1>2, <1>3, <1>4 DEF Ind, Hands
<1>13. \A s \in Threads, k \in Tasks : Pops(s, k)' <=> Pops(s, k)
  BY <1>2, <1>3 DEF Pops, Popping
<1>14. Single'
  BY <1>4, <1>13 DEF Ind, Single
<1>15. Counted'
  <2> SUFFICES ASSUME ~Removing, NEW k \in Tasks \ (deleted \cup overlap) PROVE CountedFor(k)'
    BY <1>4 DEF Counted, Removing
  <2>1. CountedFor(k)
    BY DEF Ind, Counted
  <2>2. \A s \in Threads : Pops(s, k)' => run'[s] = run[s]
    BY <1>2, <1>3 DEF Pops, Popping
  <2>3. Looks(t, k0)'
    BY <1>2, <1>3 DEF Looks
  <2>4. ASSUME Coming(k), k # k0 PROVE Coming(k)'
    <3>1. CASE Queued(k)
      <4>1. PICK s \in Threads : \E i \in 1 .. Len(queue[s]) : queue[s][i] = k
        BY <3>1 DEF Queued
      <4>2. CASE s = t
        <5>1. \E j \in 1 .. Len(queue'[t]) : queue'[t][j] = k
          BY <1>8, <2>4, <4>1, <4>2
        <5> QED BY <5>1 DEF Coming, Queued
      <4>3. CASE s # t
        BY <1>7, <4>1, <4>3 DEF Coming, Queued
      <4> QED BY <4>2, <4>3
    <3>2. CASE Timed(k)
      BY <1>4, <3>2 DEF Coming, Timed
    <3>3. CASE \E p \in Pushers : Carries(p, k)
      BY <1>4, <3>3 DEF Coming, Carries
    <3>4. CASE \E s \in Threads : Looks(s, k)
      BY <1>3, <3>4 DEF Coming, Looks
    <3> QED BY <2>4, <3>1, <3>2, <3>3, <3>4 DEF Coming
  <2>5. Coming(k) => Coming(k)'
    BY <2>3, <2>4 DEF Coming
  <2> QED BY <1>4, <1>13, <2>1, <2>2, <2>5, CountKept
<1> QED BY <1>10, <1>11, <1>12, <1>14, <1>15 DEF Ind

LEMMA Sleeping ==
  ASSUME Ind, NEW t \in Threads, Lock(t) \/ Wake(t), UNCHANGED setup
  PROVE  Ind'
<1>1. run[t].at \in {"lock", "awake", "asleep"} /\ UNCHANGED <<tasks, heap, time, push, stop, pushed, overlap>>
  BY DEF Lock, Wake
<1>2. CASE queue[t] # <<>>
  <2>1. TakeFront(t)
    BY <1>2 DEF Lock, Wake
  <2> QED BY <1>1, <1>2, <2>1, Fronts
<1>3. CASE queue[t] = <<>>
  <2>1. PICK r \in RunRec : run' = [run EXCEPT ![t] = r] /\ r.at \in {"asleep", "look"}
    <3>1. CASE Lock(t)
      <4> DEFINE r == [at |-> "asleep", endless |-> heap[t] \cap run[t].now # {}]
      <4>1. r \in RunRec
        BY DEF RunRec
      <4> QED BY <1>3, <3>1, <4>1 DEF Lock
    <3>2. CASE Wake(t)
      <4>1. [at |-> "look"] \in RunRec
        BY DEF RunRec
      <4> QED BY <1>3, <3>2, <4>1 DEF Wake
    <3> QED BY <3>1, <3>2
  <2>2. UNCHANGED <<queue, inQueue>>
    BY <1>3 DEF Lock, Wake
  <2>3. \A k \in Tasks : ~Looks(t, k)
    BY <1>1 DEF Looks
  <2> QED BY <1>1, <2>1, <2>2, <2>3, OnlyRun, Quiet DEF Popping, lists
<1> QED BY <1>2, <1>3

\* What is left of the timers when some are no more.
LEMMA Forgotten ==
  ASSUME Ind, NEW S, Forget(S)
  PROVE  /\ DOMAIN taskOf' = DOMAIN taskOf \ S /\ taskOf' \in [DOMAIN taskOf' -> Tasks]
         /\ \A i \in DOMAIN taskOf' : taskOf'[i] = taskOf[i]
         /\ DOMAIN taskOf' \subseteq Timers
         /\ Due' \subseteq DOMAIN taskOf' /\ \A i \in Due' : due'[i] \subseteq Due'
<1>1. DOMAIN taskOf' = DOMAIN taskOf \ S /\ Due' = Due \ S
  BY DEF Forget, Due
<1>2. \A i \in DOMAIN taskOf' : taskOf'[i] = taskOf[i] /\ taskOf[i] \in Tasks
  BY <1>1 DEF Forget, Ind, Hands
<1>3. taskOf' \in [DOMAIN taskOf' -> Tasks]
  <2>1. taskOf' = [i \in DOMAIN taskOf' |-> taskOf'[i]]
    BY <1>1 DEF Forget
  <2> QED BY <1>2, <2>1
<1>4. \A i \in Due' : due'[i] = due[i] \ S
  BY <1>1 DEF Forget
<1> QED BY <1>1, <1>2, <1>3, <1>4 DEF Ind, TypeOK

\* A timer leaves the heap, and its task is in the thread's hands.
LEMMA Taking ==
  ASSUME Ind, NEW t \in Threads, Take(t), UNCHANGED setup
  PROVE  Ind'
<1>1. run[t].at = "take" /\ UNCHANGED <<events, deleted, queue, inQueue, push, stop, pushed, overlap, setup>>
  BY DEF Take, tasks
<1>2. CASE heap[t] = {}
  <2>1. [at |-> "look"] \in RunRec /\ run' = [run EXCEPT ![t] = [at |-> "look"]]
    BY <1>2 DEF RunRec, Take
  <2>2. \A k \in Tasks : ~Looks(t, k)
    BY <1>1 DEF Looks
  <2>3. UNCHANGED <<heap, time>>
    BY <1>2 DEF Take
  <2> QED BY <1>1, <2>1, <2>2, <2>3, OnlyRun, Quiet DEF Popping, tasks, lists
<1>3. CASE heap[t] # {}
  <2>1. PICK i \in First(heap[t]) :
          /\ heap' = [heap EXCEPT ![t] = @ \ {i}]
          /\ Forget({i})
          /\ run' = [run EXCEPT ![t] = Taken(taskOf[i])]
    BY <1>3 DEF Take
  <2>2. PICK k0 \in Tasks : k0 = taskOf[i]
    BY <2>1 DEF Ind, Hands, TypeOK, First
  <2> DEFINE r == Taken(k0)
  <2>3. r \in RunRec /\ r.at = "loop" /\ r.task = k0 /\ r.left = MaxRunTimesOnce
    BY Numbers DEF RunRec, Taken
  <2> HIDE DEF r
  <2>4. /\ run' \in [Threads -> RunRec] /\ run'[t] = r
        /\ \A s \in Threads : s # t => run'[s] = run[s]
    BY <2>1, <2>2, <2>3, RunAt DEF Ind, r
  <2>5. /\ DOMAIN taskOf' = DOMAIN taskOf \ {i} /\ taskOf' \in [DOMAIN taskOf' -> Tasks]
        /\ \A j \in DOMAIN taskOf' : taskOf'[j] = taskOf[j]
        /\ DOMAIN taskOf' \subseteq Timers
        /\ Due' \subseteq DOMAIN taskOf' /\ \A j \in Due' : due'[j] \subseteq Due'
    BY <2>1, Forgotten
  <2>6. i \in heap[t] /\ \A s \in Threads : s # t => i \notin heap[s]
    BY <2>1 DEF First, Ind, TypeOK
  <2>7. heap'[t] = heap[t] \ {i} /\ \A s \in Threads : s # t => heap'[s] = heap[s]
    <3>1. heap \in [Threads -> SUBSET DOMAIN taskOf]
      BY DEF Ind, TypeOK
    <3> QED BY <2>1, <3>1
  <2>8. /\ heap' \in [Threads -> SUBSET DOMAIN taskOf']
        /\ \A s, u \in Threads : s # u => heap'[s] \cap heap'[u] = {}
    BY <2>1, <2>5, <2>6, <2>7 DEF Ind, TypeOK
  <2>9. TypeOK'
    BY <1>1, <2>5, <2>8 DEF Ind, TypeOK
  <2>10. Records'
    BY <1>1, <2>4 DEF Ind, Records
  <2>11. Hands'
    <3>1. \A p \in Pushers : push'[p].at = "heap" =>
            /\ push'[p].timer \in DOMAIN taskOf' /\ taskOf'[push'[p].timer] = push'[p].task
            /\ \A s \in Threads : push'[p].timer \notin heap'[s]
      BY <1>1, <2>5, <2>6, <2>7 DEF Ind, Hands
    <3>2. \A s \in Threads : run'[s].at # "pushing" => push'[s].at = "none"
      BY <1>1, <2>3, <2>4 DEF Ind, Hands
    <3> QED BY <1>1, <2>5, <3>1, <3>2 DEF Ind, Hands
  <2>12. \A s \in Threads, k \in Tasks : Pops(s, k)' <=> Pops(s, k)
    BY <1>1, <2>3, <2>4 DEF Pops, Popping
  <2>13. Single'
    BY <1>1, <2>12 DEF Ind, Single
  <2>14. Counted'
    <3> SUFFICES ASSUME ~Removing, NEW k \in Tasks \ (deleted \cup overlap) PROVE CountedFor(k)'
      BY <1>1 DEF Counted, Removing
    <3>1. CountedFor(k)
      BY DEF Ind, Counted
    <3>2. \A s \in Threads : Pops(s, k)' => run'[s] = run[s]
      BY <2>3, <2>4 DEF Pops, Popping
    <3>3. Looks(t, k0)'
      BY <2>3, <2>4 DEF Looks
    <3>4. ASSUME Coming(k), k # k0 PROVE Coming(k)'
      <4>1. CASE Queued(k)
        BY <1>1, <4>1 DEF Coming, Queued
      <4>2. CASE Timed(k)
        BY <2>2, <2>5, <3>4, <4>2 DEF Coming, Timed
      <4>3. CASE \E p \in Pushers : Carries(p, k)
        BY <1>1, <4>3 DEF Coming, Carries
      <4>4. CASE \E s \in Threads : Looks(s, k)
        BY <1>1, <2>4, <4>4 DEF Coming, Looks
      <4> QED BY <3>4, <4>1, <4>2, <4>3, <4>4 DEF Coming
    <3>5. Coming(k) => Coming(k)'
      BY <3>3, <3>4 DEF Coming
    <3> QED BY <1>1, <2>12, <3>1, <3>2, <3>5, CountKept
  <2> QED BY <2>9, <2>10, <2>11, <2>13, <2>14 DEF Ind
<1> QED BY <1>2, <1>3

(***************************************************************************)
(* PopEvents and the end of a run.                                         *)
(***************************************************************************)

\* What the records hold.
LEMMA RunFields ==
  ASSUME Ind, NEW t \in Threads
  PROVE  /\ run[t].at \in {"loop", "pop", "sub", "subStore", "return"} =>
              run[t].task \in Tasks /\ run[t].left \in 0 .. MaxRunTimesOnce
         /\ run[t].at \in {"sub", "subStore", "return"} => run[t].got \in 0 .. Width - 1
         /\ run[t].at = "subStore" => run[t].reg \in 0 .. Width - 1
BY DEF Ind, Records, RunRec

\* The events are loaded: if another thread is about to take them away too, the task is one
\* of overlap.
LEMMA Popped ==
  ASSUME Ind, NEW t \in Threads, Pop(t), UNCHANGED setup
  PROVE  Ind'
<1>1. /\ run[t].at = "pop"
      /\ UNCHANGED <<events, deleted, queue, inQueue, heap, taskOf, due, push, stop, pushed, setup>>
  BY DEF Pop, tasks, lists, time
<1>2. PICK k0 \in Tasks : k0 = run[t].task
  BY <1>1, RunFields
<1>3. PICK e0 \in 0 .. Width - 1 : e0 = events[k0]
  BY DEF Ind, TypeOK
<1>4. PICK r \in RunRec : /\ run' = [run EXCEPT ![t] = r]
                          /\ r.at = "sub" /\ r.task = k0 /\ r.got = e0
  <2> DEFINE r == [at |-> "sub", task |-> k0, left |-> run[t].left, got |-> e0]
  <2>1. r \in RunRec
    BY <1>1, RunFields DEF RunRec
  <2> QED BY <1>2, <1>3, <2>1 DEF Pop
<1>5. /\ run' \in [Threads -> RunRec] /\ run'[t] = r
      /\ \A s \in Threads : s # t => run'[s] = run[s]
  BY <1>4, RunAt DEF Ind
<1>6. /\ overlap \subseteq overlap'
      /\ \A s \in Threads : Pops(s, k0) => k0 \in overlap'
      /\ overlap' \subseteq overlap \cup {k0}
  BY <1>2 DEF Pop, Pops
<1>7. TypeOK'
  BY <1>1 DEF Ind, TypeOK, Due
<1>8. Records'
  BY <1>1, <1>5 DEF Ind, Records
<1>9. Hands'
  BY <1>1, <1>4, <1>5 DEF Ind, Hands
<1>10. \A s \in Threads, k \in Tasks : s # t \/ k # k0 => (Pops(s, k)' <=> Pops(s, k))
  BY <1>1, <1>4, <1>5 DEF Pops, Popping
<1>11. Single'
  <2> SUFFICES ASSUME NEW k \in Tasks \ overlap', NEW s \in Threads, NEW u \in Threads, Pops(s, k)', Pops(u, k)'
               PROVE  s = u
    BY DEF Single
  <2>1. CASE k = k0
    <3>1. \A v \in Threads : ~Pops(v, k)
      BY <1>6, <2>1
    <3> QED BY <1>10, <2>1, <3>1
  <2>2. CASE k # k0
    BY <1>6, <1>10, <2>2 DEF Ind, Single
  <2> QED BY <2>1, <2>2
<1>12. Counted'
  <2> SUFFICES ASSUME ~Removing, NEW k \in Tasks \ (deleted \cup overlap') PROVE CountedFor(k)'
    BY <1>1 DEF Counted, Removing
  <2>1. CountedFor(k)
    BY <1>6 DEF Ind, Counted
  <2>2. CASE k = k0
    <3>1. \A s \in Threads : s # t => ~Pops(s, k)'
      BY <1>6, <1>10, <2>2
    <3>2. Pops(t, k)'
      BY <1>4, <1>5, <2>2 DEF Pops, Popping
    <3>3. run'[t].at = "sub" /\ run'[t].got = events'[k]
      BY <1>1, <1>3, <1>4, <1>5, <2>2
    <3> QED BY <3>1, <3>2, <3>3 DEF CountedFor, Pops, Popping
  <2>3. CASE k # k0
    <3>1. \A s \in Threads : Pops(s, k)' => run'[s] = run[s]
      BY <1>4, <1>5, <2>3 DEF Pops
    <3>2. \A s \in Threads : Looks(s, k) => Looks(s, k)'
      BY <1>2, <1>5, <2>3 DEF Looks
    <3>3. Coming(k) => Coming(k)'
      BY <1>1, <3>2 DEF Coming, Queued, Timed, Carries
    <3> QED BY <1>1, <1>10, <2>1, <2>3, <3>1, <3>3, CountKept
  <2> QED BY <2>2, <2>3
<1> QED BY <1>7, <1>8, <1>9, <1>11, <1>12 DEF Ind

\* m_Events is loaded once more.
LEMMA Subbed ==
  ASSUME Ind, NEW t \in Threads, Sub(t), UNCHANGED setup
  PROVE  Ind'
<1>1. /\ run[t].at = "sub"
      /\ UNCHANGED <<events, deleted, queue, inQueue, heap, taskOf, due, push, stop, pushed, overlap, setup>>
  BY DEF Sub, tasks, lists, time
<1>2. PICK k0 \in Tasks : k0 = run[t].task
  BY <1>1, RunFields
<1>3. PICK e0 \in 0 .. Width - 1 : e0 = events[k0]
  BY DEF Ind, TypeOK
<1>4. PICK r \in RunRec : /\ run' = [run EXCEPT ![t] = r]
                          /\ r.at = "subStore" /\ r.task = k0 /\ r.got = run[t].got /\ r.reg = e0
  <2> DEFINE r == [at |-> "subStore", task |-> k0, left |-> run[t].left, got |-> run[t].got, reg |-> e0]
  <2>1. r \in RunRec
    BY <1>1, RunFields DEF RunRec
  <2> QED BY <1>2, <1>3, <2>1 DEF Sub
<1>5. /\ run' \in [Threads -> RunRec] /\ run'[t] = r
      /\ \A s \in Threads : s # t => run'[s] = run[s]
  BY <1>4, RunAt DEF Ind
<1>6. TypeOK'
  BY <1>1 DEF Ind, TypeOK, Due
<1>7. Records'
  BY <1>1, <1>5 DEF Ind, Records
<1>8. Hands'
  BY <1>1, <1>4, <1>5 DEF Ind, Hands
<1>9. \A s \in Threads, k \in Tasks : Pops(s, k)' <=> Pops(s, k)
  BY <1>1, <1>2, <1>4, <1>5 DEF Pops, Popping
<1>10. Single'
  BY <1>1, <1>9 DEF Ind, Single
<1>11. \A s \in Threads, k \in Tasks : Looks(s, k) => Looks(s, k)'
  BY <1>1, <1>5 DEF Looks
<1>12. \A k \in Tasks : Coming(k) => Coming(k)'
  BY <1>1, <1>11 DEF Coming, Queued, Timed, Carries
<1>13. Counted'
  <2> SUFFICES ASSUME ~Removing, NEW k \in Tasks \ (deleted \cup overlap) PROVE CountedFor(k)'
    BY <1>1 DEF Counted, Removing
  <2>1. CountedFor(k)
    BY DEF Ind, Counted
  <2>2. Unseen(k) => Unseen(k)'
    BY <1>1, <1>12 DEF Unseen
  <2>3. (events[k] # 0 => Coming(k) \/ \E s \in Threads : Pops(s, k))'
    BY <1>1, <1>9, <1>12, <2>1 DEF CountedFor
  <2>4. ASSUME NEW s \in Threads, run'[s].at = "sub", run'[s].task = k
        PROVE  run'[s].got = events'[k] \/ Unseen(k)'
    BY <1>1, <1>4, <1>5, <2>1, <2>2, <2>4 DEF CountedFor
  <2>5. ASSUME NEW s \in Threads, run'[s].at = "subStore", run'[s].task = k
        PROVE  run'[s].got = run'[s].reg \/ Unseen(k)'
    <3>1. CASE s = t
      <4>1. run[t].got = events[k] \/ Unseen(k)
        BY <1>1, <1>2, <1>4, <1>5, <2>1, <2>5, <3>1 DEF CountedFor
      <4>2. run'[s].got = run[t].got /\ run'[s].reg = events[k]
        BY <1>3, <1>4, <1>5, <2>5, <3>1
      <4> QED BY <2>2, <4>1, <4>2
    <3>2. CASE s # t
      BY <1>5, <2>1, <2>2, <2>5, <3>2 DEF CountedFor
    <3> QED BY <3>1, <3>2
  <2> QED BY <2>3, <2>4, <2>5 DEF CountedFor
<1> QED BY <1>6, <1>7, <1>8, <1>10, <1>13 DEF Ind

\* What was taken away is stored: the events are none, unless others are on their way.
LEMMA SubStored ==
  ASSUME Ind, NEW t \in Threads, SubStore(t), UNCHANGED setup
  PROVE  Ind'
<1>1. /\ run[t].at = "subStore"
      /\ UNCHANGED <<deleted, queue, inQueue, heap, taskOf, due, push, stop, pushed, overlap, setup>>
  BY DEF SubStore, lists, time
<1>2. PICK k0 \in Tasks : k0 = run[t].task
  BY <1>1, RunFields
<1>3. PICK e0 \in 0 .. Width - 1 : e0 = (run[t].reg + Width - run[t].got) % Width
  BY <1>1, RunFields, Subtracted
<1>4. PICK r \in RunRec : /\ run' = [run EXCEPT ![t] = r]
                          /\ r.at = "return" /\ r.task = k0
  <2> DEFINE r == [at |-> "return", task |-> k0, left |-> run[t].left, got |-> run[t].got]
  <2>1. r \in RunRec
    BY <1>1, RunFields DEF RunRec
  <2> QED BY <1>2, <2>1 DEF SubStore
<1>5. /\ run' \in [Threads -> RunRec] /\ run'[t] = r
      /\ \A s \in Threads : s # t => run'[s] = run[s]
  BY <1>4, RunAt DEF Ind
<1>6. events' = [events EXCEPT ![k0] = e0]
  BY <1>2, <1>3 DEF SubStore
<1>7. /\ events' \in [Tasks -> 0 .. Width - 1] /\ events'[k0] = e0
      /\ \A k \in Tasks : k # k0 => events'[k] = events[k]
  BY <1>6 DEF Ind, TypeOK
<1>8. TypeOK'
  BY <1>1, <1>7 DEF Ind, TypeOK, Due
<1>9. Records'
  BY <1>1, <1>5 DEF Ind, Records
<1>10. Hands'
  BY <1>1, <1>4, <1>5 DEF Ind, Hands
<1>11. \A s \in Threads, k \in Tasks : Pops(s, k)' <=> Pops(s, k) /\ s # t
  BY <1>4, <1>5 DEF Pops, Popping
<1>12. Single'
  BY <1>1, <1>11 DEF Ind, Single
<1>13. \A s \in Threads, k \in Tasks : Looks(s, k) => Looks(s, k)'
  BY <1>1, <1>5 DEF Looks
<1>14. \A k \in Tasks : Coming(k) => Coming(k)'
  BY <1>1, <1>13 DEF Coming, Queued, Timed, Carries
<1>15. Counted'
  <2> SUFFICES ASSUME ~Removing, NEW k \in Tasks \ (deleted \cup overlap) PROVE CountedFor(k)'
    BY <1>1 DEF Counted, Removing
  <2>1. CountedFor(k)
    BY DEF Ind, Counted
  <2>2. CASE k = k0
    <3>1. Pops(t, k)
      BY <1>1, <1>2, <2>2 DEF Pops, Popping
    <3>2. \A s \in Threads : ~Pops(s, k)'
      BY <1>11, <3>1 DEF Ind, Single
    <3>3. run[t].got = run[t].reg \/ Unseen(k)
      BY <1>1, <1>2, <2>1, <2>2 DEF CountedFor
    <3>4. events'[k] # 0 => Coming(k)'
      <4>1. CASE run[t].got = run[t].reg
        BY <1>1, <1>3, <1>7, <2>2, <4>1, RunFields, Subtracted
      <4>2. CASE Unseen(k)
        BY <1>14, <4>2 DEF Unseen
      <4> QED BY <3>3, <4>1, <4>2
    <3> QED BY <3>2, <3>4 DEF CountedFor, Pops, Popping
  <2>3. CASE k # k0
    <3>1. \A s \in Threads : Pops(s, k) => Pops(s, k)'
      BY <1>2, <1>11, <2>3 DEF Pops
    <3>2. \A s \in Threads : Pops(s, k)' => run'[s] = run[s]
      BY <1>5, <1>11
    <3> QED BY <1>7, <1>14, <2>1, <2>3, <3>1, <3>2, CountKept
  <2> QED BY <2>2, <2>3
<1> QED BY <1>8, <1>9, <1>10, <1>12, <1>15 DEF Ind

\* A task that was killed is deleted; another one runs again; or it asks to be called later.
LEMMA Returned ==
  ASSUME Ind, NEW t \in Threads, Return(t), UNCHANGED setup
  PROVE  Ind'
<1>1. /\ run[t].at = "return"
      /\ UNCHANGED <<queue, inQueue, heap, taskOf, due, stop, pushed, overlap, setup>>
  BY DEF Return, lists, time
<1>2. PICK k0 \in Tasks : k0 = run[t].task
  BY <1>1, RunFields
<1>3. \A k \in Tasks : ~Looks(t, k) /\ ~Pops(t, k)
  BY <1>1 DEF Looks, Pops, Popping
<1>4. CASE /\ deleted' = deleted \cup {k0} /\ events' = [events EXCEPT ![k0] = 0]
           /\ run' = [run EXCEPT ![t] = [at |-> "look"]]
           /\ UNCHANGED push
  <2>1. PICK r \in RunRec : r = [at |-> "look"]
    BY DEF RunRec
  <2>2. /\ run' \in [Threads -> RunRec] /\ run'[t] = r
        /\ \A s \in Threads : s # t => run'[s] = run[s]
    BY <1>4, <2>1, RunAt DEF Ind
  <2>3. /\ events' \in [Tasks -> 0 .. Width - 1]
        /\ \A k \in Tasks : k # k0 => events'[k] = events[k]
    BY <1>4 DEF Ind, TypeOK, Width
  <2>4. TypeOK'
    BY <1>1, <1>4, <2>3 DEF Ind, TypeOK, Due
  <2>5. Records'
    BY <1>4, <2>2 DEF Ind, Records
  <2>6. Hands'
    BY <1>1, <1>4, <2>1, <2>2 DEF Ind, Hands
  <2>7. \A s \in Threads, k \in Tasks : Pops(s, k)' <=> Pops(s, k)
    BY <1>3, <2>1, <2>2 DEF Pops, Popping
  <2>8. Single'
    BY <1>1, <2>7 DEF Ind, Single
  <2>9. Counted'
    <3> SUFFICES ASSUME ~Removing, NEW k \in Tasks \ (deleted' \cup overlap) PROVE CountedFor(k)'
      BY <1>1 DEF Counted, Removing
    <3>1. CountedFor(k) /\ k # k0
      BY <1>4 DEF Ind, Counted
    <3>2. \A s \in Threads : Looks(s, k) => Looks(s, k)'
      BY <1>3, <2>2 DEF Looks
    <3>3. Coming(k) => Coming(k)'
      BY <1>1, <1>4, <3>2 DEF Coming, Queued, Timed, Carries
    <3>4. \A s \in Threads : Pops(s, k)' => run'[s] = run[s]
      BY <1>3, <2>2, <2>7
    <3> QED BY <2>3, <2>7, <3>1, <3>3, <3>4, CountKept
  <2> QED BY <2>4, <2>5, <2>6, <2>8, <2>9 DEF Ind
<1>5. CASE run' = [run EXCEPT ![t] = [at |-> "loop", task |-> k0, left |-> run[t].left]] /\ UNCHANGED <<tasks, push>>
  <2>1. [at |-> "loop", task |-> k0, left |-> run[t].left] \in RunRec
    BY <1>1, RunFields DEF RunRec
  <2> QED BY <1>1, <1>3, <1>5, <2>1, OnlyRun, Quiet DEF Popping, lists, time
<1>6. CASE /\ push' = [push EXCEPT ![t] = Loaded(k0, Idle, TRUE)]
           /\ run' = [run EXCEPT ![t] = [at |-> "pushing", task |-> k0]]
           /\ UNCHANGED tasks
  <2>1. PICK r \in RunRec : r = [at |-> "pushing", task |-> k0]
    BY DEF RunRec
  <2>2. /\ run' \in [Threads -> RunRec] /\ run'[t] = r
        /\ \A s \in Threads : s # t => run'[s] = run[s]
    BY <1>6, <2>1, RunAt DEF Ind
  <2>3. PICK w \in PushRec : w = Loaded(k0, Idle, TRUE) /\ w.at = "store"
    <3>1. events[k0] \in 0 .. Width - 1 /\ Idle \in Bit
      BY DEF Ind, TypeOK, Bit
    <3>2. Loaded(k0, Idle, TRUE) \in PushRec /\ Loaded(k0, Idle, TRUE).at = "store"
      BY <3>1 DEF PushRec, Loaded
    <3> QED BY <3>2
  <2>4. /\ push' \in [Pushers -> PushRec] /\ push'[t] = w
        /\ \A p \in Pushers : p # t => push'[p] = push[p]
    BY <1>6, <2>3, Numbers, PushAt DEF Ind
  <2>5. UNCHANGED <<events, deleted>>
    BY <1>6 DEF tasks
  <2>6. push[t].at = "none"
    BY <1>1, Quiet
  <2>7. TypeOK'
    BY <1>1, <2>5 DEF Ind, TypeOK, Due
  <2>8. Records'
    BY <2>2, <2>4 DEF Ind, Records
  <2>9. Hands'
    <3>1. \A p \in Pushers : push'[p].at = "heap" => push[p].at = "heap" /\ push'[p] = push[p]
      BY <2>3, <2>4
    <3>2. \A s \in Threads : run'[s].at # "pushing" => push'[s].at = "none"
      BY <2>1, <2>2, <2>4, Numbers DEF Ind, Hands
    <3> QED BY <1>1, <3>1, <3>2 DEF Ind, Hands
  <2>10. \A s \in Threads, k \in Tasks : Pops(s, k)' <=> Pops(s, k)
    BY <1>3, <2>1, <2>2 DEF Pops, Popping
  <2>11. Single'
    BY <1>1, <2>10 DEF Ind, Single
  <2>12. Counted'
    <3> SUFFICES ASSUME ~Removing, NEW k \in Tasks \ (deleted \cup overlap) PROVE CountedFor(k)'
      BY <1>1, <2>5 DEF Counted, Removing
    <3>1. CountedFor(k)
      BY DEF Ind, Counted
    <3>2. \A s \in Threads : Looks(s, k) => Looks(s, k)'
      BY <1>3, <2>2 DEF Looks
    <3>3. \A p \in Pushers : Carries(p, k) => Carries(p, k)'
      BY <2>4, <2>6 DEF Carries
    <3>4. Coming(k) => Coming(k)'
      BY <1>1, <3>2, <3>3 DEF Coming, Queued, Timed
    <3>5. \A s \in Threads : Pops(s, k)' => run'[s] = run[s]
      BY <1>3, <2>2, <2>10
    <3> QED BY <2>5, <2>10, <3>1, <3>4, <3>5, CountKept
  <2> QED BY <2>7, <2>8, <2>9, <2>11, <2>12 DEF Ind
<1> QED BY <1>1, <1>2, <1>4, <1>5, <1>6 DEF Return

LEMMA ThreadKeeps ==
  ASSUME Ind, NEW t \in Threads, ThreadStep(t), UNCHANGED setup
  PROVE  Ind'
BY Looking, Looping, PushEnds, Sleeping, Taking, Popped, Subbed, SubStored, Returned DEF ThreadStep

(***************************************************************************)
(* The pushers.                                                            *)
(***************************************************************************)

\* What the records hold.
LEMMA PushFields ==
  ASSUME Ind, NEW p \in Pushers
  PROVE  /\ push[p].at # "none" => push[p].task \in Tasks
         /\ push[p].at = "store" =>
              push[p] \in [at : {"store"}, task : Tasks, event : Bit, delay : BOOLEAN, reg : 0 .. Width - 1]
         /\ push[p].at \in {"alive", "find", "stamp"} =>
              push[p] \in [at : {"alive", "find", "stamp"}, task : Tasks, event : Bit, delay : BOOLEAN, reg : 0 .. Width - 1]
         /\ push[p].at \in {"insert", "heap"} => push[p].thread \in Threads
         /\ push[p].at = "heap" => push[p].timer \in Timers
BY DEF Ind, Records, PushRec

\* Threads that push are in PushEvents.
LEMMA InPush ==
  ASSUME Ind, NEW p \in Pushers, push[p].at # "none", p \in Threads
  PROVE  run[p].at = "pushing"
BY DEF Ind, Hands

\* A step of p in which nothing else moves: it goes on with its task, or need not.
LEMMA OnlyPush ==
  ASSUME Ind, NEW p \in Pushers, NEW w \in PushRec, push' = [push EXCEPT ![p] = w],
         UNCHANGED <<tasks, lists, time, run, stop, overlap, setup>>,
         pushed' \in 0 .. setup.pushes, w.at # "heap",
         p \in Threads => run[p].at = "pushing",
         \A k \in Tasks \ deleted : ~Removing /\ Carries(p, k) => Coming(k)'
  PROVE  Ind'
<1>1. /\ push' \in [Pushers -> PushRec] /\ push'[p] = w
      /\ \A q \in Pushers : q # p => push'[q] = push[q]
  BY PushAt DEF Ind
<1>2. UNCHANGED <<events, deleted, queue, inQueue, heap, taskOf, due, run, stop, overlap, setup>>
  BY DEF tasks, lists, time
<1>3. TypeOK'
  BY <1>2 DEF Ind, TypeOK, Due
<1>4. Records'
  BY <1>1, <1>2 DEF Ind, Records
<1>5. Hands'
  <2>1. \A q \in Pushers : push'[q].at = "heap" => push[q].at = "heap" /\ push'[q] = push[q]
    BY <1>1
  <2>2. \A s \in Threads : run'[s].at # "pushing" => push'[s].at = "none"
    BY <1>1, <1>2, Numbers DEF Ind, Hands
  <2> QED BY <1>2, <2>1, <2>2 DEF Ind, Hands
<1>6. \A s \in Threads, k \in Tasks : (Pops(s, k)' <=> Pops(s, k)) /\ (Looks(s, k)' <=> Looks(s, k))
  BY <1>2 DEF Pops, Looks
<1>7. Single'
  BY <1>2, <1>6 DEF Ind, Single
<1>8. Counted'
  <2> SUFFICES ASSUME ~Removing, NEW k \in Tasks \ (deleted \cup overlap) PROVE CountedFor(k)'
    BY <1>2 DEF Counted, Removing
  <2>1. CountedFor(k)
    BY DEF Ind, Counted
  <2>2. ASSUME Coming(k) PROVE Coming(k)'
    <3>1. CASE Carries(p, k)
      BY <3>1
    <3>2. CASE ~Carries(p, k)
      <4>1. (\E q \in Pushers : Carries(q, k)) => \E q \in Pushers : Carries(q, k)'
        BY <1>1, <3>2 DEF Carries
      <4> QED BY <1>2, <1>6, <2>2, <4>1 DEF Coming, Queued, Timed
    <3> QED BY <3>1, <3>2
  <2> QED BY <1>2, <1>6, <2>1, <2>2, CountKept
<1> QED BY <1>3, <1>4, <1>5, <1>7, <1>8 DEF Ind

\* A client has loaded m_Events, and carries nothing yet.
LEMMA ClientLoads ==
  ASSUME Ind, NEW c \in Clients, ClientPush(c), UNCHANGED setup
  PROVE  Ind'
<1>1. /\ push[c].at = "none" /\ pushed < setup.pushes /\ pushed' = pushed + 1
      /\ UNCHANGED <<tasks, lists, time, run, stop, overlap, setup>>
  BY DEF ClientPush
<1>2. PICK k0 \in setup.tasks \ deleted, e \in setup.kinds, delay \in setup.delays :
        push' = [push EXCEPT ![c] = Loaded(k0, e, delay)]
  BY DEF ClientPush
<1>3. k0 \in Tasks /\ e \in Bit /\ delay \in BOOLEAN
  BY <1>2, SetupFacts DEF Ind
<1>4. Loaded(k0, e, delay) \in PushRec /\ Loaded(k0, e, delay).at = "store"
  <2>1. events[k0] \in 0 .. Width - 1
    BY <1>3 DEF Ind, TypeOK
  <2> QED BY <1>3, <2>1 DEF PushRec, Loaded
<1>5. pushed' \in 0 .. setup.pushes
  BY <1>1, SetupFacts DEF Ind, TypeOK
<1>6. \A k \in Tasks : ~Carries(c, k)
  BY <1>1 DEF Carries
<1> QED BY <1>1, <1>2, <1>4, <1>5, <1>6, OnlyPush, Numbers

\* A task that is not deleted is carried on to a list.
LEMMA Alive ==
  ASSUME Ind, NEW p \in Pushers, PushAlive(p), UNCHANGED setup
  PROVE  Ind'
<1>1. /\ push[p].at = "alive"
      /\ UNCHANGED <<tasks, lists, time, run, stop, pushed, overlap, setup>>
  BY DEF PushAlive
<1>2. pushed' \in 0 .. setup.pushes
  BY <1>1 DEF Ind, TypeOK
<1>3. CASE push[p].task \in deleted
  <2>1. Resting \in PushRec /\ Resting.at = "none"
    BY DEF PushRec, Resting
  <2>2. push' = [push EXCEPT ![p] = Resting]
    BY <1>3 DEF PushAlive
  <2>3. \A k \in Tasks \ deleted : ~Carries(p, k)
    BY <1>3 DEF Carries
  <2> QED BY <1>1, <1>2, <2>1, <2>2, <2>3, OnlyPush, InPush
<1>4. CASE push[p].task \notin deleted
  <2> DEFINE w == [push[p] EXCEPT !.at = IF push[p].delay THEN "stamp" ELSE "find"]
  <2>1. /\ w \in [at : {"alive", "find", "stamp"}, task : Tasks, event : Bit, delay : BOOLEAN, reg : 0 .. Width - 1]
        /\ w.at \in {"stamp", "find"} /\ w.task = push[p].task
    BY <1>1, PushFields
  <2>2. w \in PushRec
    BY <2>1 DEF PushRec
  <2>3. push' = [push EXCEPT ![p] = w]
    BY <1>4 DEF PushAlive
  <2> HIDE DEF w
  <2>4. PICK v \in PushRec : v = w
    BY <2>2
  <2>5. push'[p] = v
    BY <2>3, <2>4, PushAt DEF Ind
  <2>6. \A k \in Tasks : Carries(p, k) => Carries(p, k)'
    BY <2>1, <2>4, <2>5 DEF Carries
  <2>7. \A k \in Tasks : Carries(p, k) => Coming(k)'
    BY <2>6 DEF Coming
  <2> QED BY <1>1, <1>2, <2>1, <2>3, <2>4, <2>7, OnlyPush, InPush
<1> QED BY <1>3, <1>4

\* A task that the thread picked has queued already is in its queue.
LEMMA Finding ==
  ASSUME Ind, NEW p \in Pushers, PushFind(p), UNCHANGED setup
  PROVE  Ind'
<1>1. /\ push[p].at = "find"
      /\ UNCHANGED <<tasks, lists, time, run, stop, pushed, overlap, setup>>
  BY DEF PushFind
<1>2. pushed' \in 0 .. setup.pushes
  BY <1>1 DEF Ind, TypeOK
<1>3. PICK t \in Threads :
         push' = [push EXCEPT ![p] = IF t \in stop \/ @.task \in inQueue[t] THEN Resting
                                     ELSE [at |-> "insert", task |-> @.task, thread |-> t]]
  BY SetupFacts DEF PushFind, Ind
<1>4. CASE t \in stop \/ push[p].task \in inQueue[t]
  <2>1. Resting \in PushRec /\ Resting.at = "none"
    BY DEF PushRec, Resting
  <2>2. push' = [push EXCEPT ![p] = Resting]
    BY <1>3, <1>4
  <2>3. ASSUME NEW k \in Tasks, ~Removing, Carries(p, k) PROVE Coming(k)'
    <3>1. k \in inQueue[t]
      BY <1>4, <2>3 DEF Removing, Carries
    <3>2. Queued(k)
      <4>1. k \in {queue[t][i] : i \in 1 .. Len(queue[t])}
        BY <3>1 DEF Ind, TypeOK
      <4>2. PICK i \in 1 .. Len(queue[t]) : queue[t][i] = k
        BY <4>1
      <4> QED BY <4>2 DEF Queued
    <3> QED BY <1>1, <3>2 DEF Coming, Queued, lists
  <2> QED BY <1>1, <1>2, <2>1, <2>2, <2>3, OnlyPush, InPush
<1>5. CASE ~(t \in stop \/ push[p].task \in inQueue[t])
  <2>1. PICK w \in PushRec : /\ w = [at |-> "insert", task |-> push[p].task, thread |-> t]
                             /\ w.at = "insert" /\ w.task = push[p].task
    <3> DEFINE w == [at |-> "insert", task |-> push[p].task, thread |-> t]
    <3>1. w \in PushRec
      BY <1>1, PushFields DEF PushRec
    <3> QED BY <3>1
  <2>2. push' = [push EXCEPT ![p] = w]
    BY <1>3, <1>5, <2>1
  <2>3. push'[p] = w
    BY <2>2, PushAt DEF Ind
  <2>4. \A k \in Tasks : Carries(p, k) => Carries(p, k)'
    BY <2>1, <2>3 DEF Carries
  <2>5. \A k \in Tasks : Carries(p, k) => Coming(k)'
    BY <2>4 DEF Coming
  <2> QED BY <1>1, <1>2, <2>1, <2>2, <2>5, OnlyPush, InPush
<1> QED BY <1>4, <1>5

\* |= is stored, and the pusher goes on.
LEMMA Storing ==
  ASSUME Ind, NEW p \in Pushers, PushStore(p), UNCHANGED setup
  PROVE  Ind'
<1>1. /\ push[p].at = "store"
      /\ UNCHANGED <<deleted, queue, inQueue, heap, taskOf, due, run, stop, pushed, overlap, setup>>
  BY DEF PushStore, lists, time
<1>2. push[p] \in [at : {"store"}, task : Tasks, event : Bit, delay : BOOLEAN, reg : 0 .. Width - 1]
  BY <1>1, PushFields
<1>3. PICK k0 \in Tasks : k0 = push[p].task
  BY <1>2
<1>4. PICK e0 \in 0 .. Width - 1 : e0 = Or(push[p].reg, push[p].event) /\ e0 # 0
  BY <1>2, Ored
<1>5. PICK w \in PushRec : w.at = "alive" /\ w.task = k0 /\ push' = [push EXCEPT ![p] = w]
  <2> DEFINE w == [push[p] EXCEPT !.at = "alive"]
  <2>1. /\ w \in [at : {"alive", "find", "stamp"}, task : Tasks, event : Bit, delay : BOOLEAN, reg : 0 .. Width - 1]
        /\ w.at = "alive" /\ w.task = push[p].task
    BY <1>2
  <2>2. w \in PushRec
    BY <2>1 DEF PushRec
  <2>3. push' = [push EXCEPT ![p] = w]
    BY DEF PushStore
  <2> QED BY <1>3, <2>1, <2>2, <2>3
<1>6. /\ push' \in [Pushers -> PushRec] /\ push'[p] = w
      /\ \A q \in Pushers : q # p => push'[q] = push[q]
  BY <1>5, PushAt DEF Ind
<1>7. /\ events' \in [Tasks -> 0 .. Width - 1] /\ events'[k0] = e0
      /\ \A k \in Tasks : k # k0 => events'[k] = events[k]
  BY <1>3, <1>4 DEF PushStore, Ind, TypeOK
<1>8. TypeOK'
  BY <1>1, <1>7 DEF Ind, TypeOK, Due
<1>9. Records'
  BY <1>1, <1>6 DEF Ind, Records
<1>10. Hands'
  <2>1. \A q \in Pushers : push'[q].at = "heap" => push[q].at = "heap" /\ push'[q] = push[q]
    BY <1>5, <1>6
  <2>2. \A s \in Threads : run'[s].at # "pushing" => push'[s].at = "none"
    BY <1>1, <1>6, Numbers DEF Ind, Hands
  <2> QED BY <1>1, <2>1, <2>2 DEF Ind, Hands
<1>11. \A s \in Threads, k \in Tasks : (Pops(s, k)' <=> Pops(s, k)) /\ (Looks(s, k)' <=> Looks(s, k))
  BY <1>1 DEF Pops, Looks
<1>12. Single'
  BY <1>1, <1>11 DEF Ind, Single
<1>13. Counted'
  <2> SUFFICES ASSUME ~Removing, NEW k \in Tasks \ (deleted \cup overlap) PROVE CountedFor(k)'
    BY <1>1 DEF Counted, Removing
  <2>1. CountedFor(k)
    BY DEF Ind, Counted
  <2>2. CASE k = k0
    <3>1. Carries(p, k)'
      BY <1>5, <1>6, <2>2 DEF Carries
    <3>2. Coming(k)' /\ Unseen(k)'
      BY <1>4, <1>7, <2>2, <3>1 DEF Coming, Unseen
    <3> QED BY <3>2 DEF CountedFor
  <2>3. CASE k # k0
    <3>1. \A q \in Pushers : Carries(q, k) => Carries(q, k)'
      BY <1>1, <1>6 DEF Carries
    <3>2. Coming(k) => Coming(k)'
      BY <1>1, <1>11, <3>1 DEF Coming, Queued, Timed
    <3> QED BY <1>1, <1>7, <1>11, <2>1, <2>3, <3>2, CountKept
  <2> QED BY <2>2, <2>3
<1> QED BY <1>8, <1>9, <1>10, <1>12, <1>13 DEF Ind

\* The task is queued, and the thread awake if it slept.
LEMMA Inserting ==
  ASSUME Ind, NEW p \in Pushers, PushInsert(p), UNCHANGED setup
  PROVE  Ind'
<1>1. /\ push[p].at = "insert"
      /\ UNCHANGED <<events, deleted, heap, taskOf, due, stop, pushed, overlap, setup>>
  BY DEF PushInsert, tasks, time
<1>2. PICK t \in Threads, k0 \in Tasks : t = push[p].thread /\ k0 = push[p].task
  BY <1>1, PushFields
<1>3. /\ push' \in [Pushers -> PushRec] /\ push'[p].at = "none"
      /\ \A q \in Pushers : q # p => push'[q] = push[q]
  <2>1. Resting \in PushRec /\ Resting.at = "none"
    BY DEF PushRec, Resting
  <2> QED BY <2>1, PushAt DEF Ind, PushInsert
<1>4. PICK r \in RunRec : /\ run' = [run EXCEPT ![t] = r]
                          /\ r = run[t] \/ (run[t].at = "asleep" /\ r.at = "awake")
  <2>1. [at |-> "awake"] \in RunRec
    BY DEF RunRec
  <2>2. run[t] \in RunRec
    BY DEF Ind, Records
  <2>3. run' = [run EXCEPT ![t] = IF run[t].at = "asleep" THEN [at |-> "awake"] ELSE run[t]]
    BY <1>2 DEF PushInsert
  <2>4. CASE run[t].at = "asleep"
    BY <2>1, <2>3, <2>4
  <2>5. CASE run[t].at # "asleep"
    BY <2>2, <2>3, <2>5
  <2> QED BY <2>4, <2>5
<1>5. /\ run' \in [Threads -> RunRec] /\ run'[t] = r
      /\ \A s \in Threads : s # t => run'[s] = run[s]
  BY <1>4, RunAt DEF Ind
<1>6. /\ queue' = [queue EXCEPT ![t] = Append(queue[t], k0)]
      /\ inQueue' = [inQueue EXCEPT ![t] = inQueue[t] \cup {k0}]
  BY <1>2 DEF PushInsert
<1>7. /\ queue[t] \in Seq(Tasks) /\ Append(queue[t], k0) \in Seq(Tasks)
      /\ Len(queue[t]) \in Nat /\ Len(Append(queue[t], k0)) = Len(queue[t]) + 1
      /\ \A i \in 1 .. Len(queue[t]) : Append(queue[t], k0)[i] = queue[t][i]
      /\ Append(queue[t], k0)[Len(queue[t]) + 1] = k0
  BY DEF Ind, TypeOK
<1>8. /\ queue' \in [Threads -> Seq(Tasks)] /\ queue'[t] = Append(queue[t], k0)
      /\ \A s \in Threads : s # t => queue'[s] = queue[s]
  BY <1>6, <1>7 DEF Ind, TypeOK
<1>9. /\ inQueue' \in [Threads -> SUBSET Tasks] /\ inQueue'[t] = inQueue[t] \cup {k0}
      /\ \A s \in Threads : s # t => inQueue'[s] = inQueue[s]
  BY <1>6 DEF Ind, TypeOK
<1>10. \E i \in 1 .. Len(queue'[t]) : queue'[t][i] = k0
  <2>1. Len(queue[t]) + 1 \in 1 .. Len(queue'[t])
    BY <1>7, <1>8
  <2> QED BY <1>7, <1>8, <2>1
<1>11. \A s \in Threads, k \in Tasks : (\E i \in 1 .. Len(queue[s]) : queue[s][i] = k)
                                        => \E i \in 1 .. Len(queue'[s]) : queue'[s][i] = k
  <2> SUFFICES ASSUME NEW s \in Threads, NEW i \in 1 .. Len(queue[s])
               PROVE  \E j \in 1 .. Len(queue'[s]) : queue'[s][j] = queue[s][i]
    OBVIOUS
  <2>1. CASE s = t
    <3>1. i \in 1 .. Len(queue'[s]) /\ queue'[s][i] = queue[s][i]
      BY <1>7, <1>8, <2>1
    <3> QED BY <3>1
  <2>2. CASE s # t
    BY <1>8, <2>2
  <2> QED BY <2>1, <2>2
<1>12. TypeOK'
  <2>1. ASSUME NEW s \in Threads, NEW k \in inQueue'[s] PROVE \E i \in 1 .. Len(queue'[s]) : queue'[s][i] = k
    <3>1. CASE s = t /\ k = k0
      BY <1>10, <3>1
    <3>2. CASE ~(s = t /\ k = k0)
      <4>1. k \in inQueue[s] /\ k \in Tasks
        BY <1>9, <2>1, <3>2
      <4>2. k \in {queue[s][i] : i \in 1 .. Len(queue[s])}
        BY <4>1 DEF Ind, TypeOK
      <4>3. \E i \in 1 .. Len(queue[s]) : queue[s][i] = k
        BY <4>2
      <4> QED BY <1>11, <4>1, <4>3
    <3> QED BY <3>1, <3>2
  <2>2. \A s \in Threads : inQueue'[s] \subseteq {queue'[s][i] : i \in 1 .. Len(queue'[s])}
    BY <2>1
  <2> QED BY <1>1, <1>8, <1>9, <2>2 DEF Ind, TypeOK, Due
<1>13. Records'
  BY <1>3, <1>5 DEF Ind, Records
<1>14. Hands'
  <2>1. \A q \in Pushers : push'[q].at = "heap" => push[q].at = "heap" /\ push'[q] = push[q]
    BY <1>3
  <2>2. \A s \in Threads : run'[s].at # "pushing" => push'[s].at = "none"
    BY <1>3, <1>4, <1>5, Numbers DEF Ind, Hands
  <2> QED BY <1>1, <2>1, <2>2 DEF Ind, Hands
<1>15. \A s \in Threads, k \in Tasks : (Pops(s, k)' <=> Pops(s, k)) /\ (Looks(s, k) => Looks(s, k)')
  BY <1>4, <1>5 DEF Pops, Popping, Looks
<1>16. Single'
  BY <1>1, <1>15 DEF Ind, Single
<1>17. Counted'
  <2> SUFFICES ASSUME ~Removing, NEW k \in Tasks \ (deleted \cup overlap) PROVE CountedFor(k)'
    BY <1>1 DEF Counted, Removing
  <2>1. CountedFor(k)
    BY DEF Ind, Counted
  <2>2. ASSUME Coming(k) PROVE Coming(k)'
    <3>1. Queued(k) => Queued(k)'
      BY <1>11 DEF Queued
    <3>2. k = k0 => Queued(k)'
      BY <1>10 DEF Queued
    <3>3. \A q \in Pushers : Carries(q, k) => Carries(q, k)' \/ k = k0
      BY <1>2, <1>3 DEF Carries
    <3> QED BY <1>1, <1>15, <2>2, <3>1, <3>2, <3>3 DEF Coming, Timed
  <2>3. \A s \in Threads : Pops(s, k)' => run'[s] = run[s]
    BY <1>4, <1>5 DEF Pops, Popping
  <2> QED BY <1>1, <1>15, <2>1, <2>2, <2>3, CountKept
<1> QED BY <1>12, <1>13, <1>14, <1>16, <1>17 DEF Ind

\* A timer is made: nobody else has it.
LEMMA Stamping ==
  ASSUME Ind, NEW p \in Pushers, PushStamp(p), UNCHANGED setup
  PROVE  Ind'
<1>1. /\ push[p].at = "stamp"
      /\ UNCHANGED <<events, deleted, queue, inQueue, heap, due, run, stop, pushed, overlap, setup>>
  BY DEF PushStamp, tasks, lists
<1>2. PICK k0 \in Tasks : k0 = push[p].task
  BY <1>1, PushFields
<1>3. PICK id \in Free : taskOf' = [i \in DOMAIN taskOf \cup {id} |-> IF i = id THEN k0 ELSE taskOf[i]] /\
                        \E t \in setup.threads :
                          push' = [push EXCEPT ![p] = [at |-> "heap", task |-> k0, thread |-> t, timer |-> id]]
  BY <1>2 DEF PushStamp
<1>4. PICK w \in PushRec : w.at = "heap" /\ w.task = k0 /\ w.timer = id /\ push' = [push EXCEPT ![p] = w]
  <2>1. PICK t \in Threads : push' = [push EXCEPT ![p] = [at |-> "heap", task |-> k0, thread |-> t, timer |-> id]]
    BY <1>3, SetupFacts DEF Ind
  <2> DEFINE w == [at |-> "heap", task |-> k0, thread |-> t, timer |-> id]
  <2>2. w \in PushRec
    BY <1>3 DEF PushRec, Free
  <2> QED BY <2>1, <2>2
<1>5. /\ push' \in [Pushers -> PushRec] /\ push'[p] = w
      /\ \A q \in Pushers : q # p => push'[q] = push[q]
  BY <1>4, PushAt DEF Ind
<1>6. id \in Timers /\ id \notin DOMAIN taskOf
  BY <1>3 DEF Free
<1>7. /\ DOMAIN taskOf' = DOMAIN taskOf \cup {id} /\ taskOf' \in [DOMAIN taskOf' -> Tasks]
      /\ \A i \in DOMAIN taskOf : taskOf'[i] = taskOf[i]
      /\ taskOf'[id] = k0
  BY <1>3, <1>6 DEF Ind, Hands
<1>8. heap' \in [Threads -> SUBSET DOMAIN taskOf']
  BY <1>1, <1>7 DEF Ind, TypeOK
<1>9. TypeOK'
  BY <1>1, <1>6, <1>7, <1>8 DEF Ind, TypeOK, Due
<1>10. Records'
  BY <1>1, <1>5 DEF Ind, Records
<1>11. Hands'
  <2>1. \A q \in Pushers : push'[q].at = "heap" =>
          q = p \/ (push[q].at = "heap" /\ push'[q] = push[q] /\ push[q].timer \in DOMAIN taskOf)
    BY <1>5 DEF Ind, Hands
  <2>2. \A s \in Threads : id \notin heap[s]
    BY <1>6 DEF Ind, TypeOK
  <2>3. \A q \in Pushers : push'[q].at = "heap" =>
          /\ push'[q].timer \in DOMAIN taskOf' /\ taskOf'[push'[q].timer] = push'[q].task
          /\ \A s \in Threads : push'[q].timer \notin heap'[s]
    BY <1>1, <1>4, <1>5, <1>7, <2>1, <2>2 DEF Ind, Hands
  <2>4. \A q, v \in Pushers : q # v /\ push'[q].at = "heap" /\ push'[v].at = "heap" => push'[q].timer # push'[v].timer
    BY <1>4, <1>5, <1>6, <2>1 DEF Ind, Hands
  <2>5. \A s \in Threads : run'[s].at # "pushing" => push'[s].at = "none"
    BY <1>1, <1>5, Numbers DEF Ind, Hands
  <2> QED BY <1>7, <2>3, <2>4, <2>5 DEF Hands
<1>12. \A s \in Threads, k \in Tasks : (Pops(s, k)' <=> Pops(s, k)) /\ (Looks(s, k)' <=> Looks(s, k))
  BY <1>1 DEF Pops, Looks
<1>13. Single'
  BY <1>1, <1>12 DEF Ind, Single
<1>14. Counted'
  <2> SUFFICES ASSUME ~Removing, NEW k \in Tasks \ (deleted \cup overlap) PROVE CountedFor(k)'
    BY <1>1 DEF Counted, Removing
  <2>1. CountedFor(k)
    BY DEF Ind, Counted
  <2>2. \A q \in Pushers : Carries(q, k) => Carries(q, k)'
    BY <1>2, <1>4, <1>5 DEF Carries
  <2>3. Timed(k) => Timed(k)'
    BY <1>7 DEF Timed
  <2>4. Coming(k) => Coming(k)'
    BY <1>1, <1>12, <2>2, <2>3 DEF Coming, Queued
  <2> QED BY <1>1, <1>12, <2>1, <2>4, CountKept
<1> QED BY <1>9, <1>10, <1>11, <1>13, <1>14 DEF Ind

\* The timer is in a heap, or the thread was stopped.
LEMMA Heaping ==
  ASSUME Ind, NEW p \in Pushers, PushHeap(p), UNCHANGED setup
  PROVE  Ind'
<1>1. /\ push[p].at = "heap"
      /\ UNCHANGED <<events, deleted, queue, inQueue, run, stop, pushed, overlap, setup>>
  BY DEF PushHeap, tasks
<1>2. PICK t \in Threads, i \in Timers, k0 \in Tasks : t = push[p].thread /\ i = push[p].timer /\ k0 = push[p].task
  BY <1>1, PushFields
<1>3. /\ i \in DOMAIN taskOf /\ taskOf[i] = k0 /\ \A s \in Threads : i \notin heap[s]
  BY <1>1, <1>2 DEF Ind, Hands
<1>4. /\ push' \in [Pushers -> PushRec] /\ push'[p].at = "none"
      /\ \A q \in Pushers : q # p => push'[q] = push[q]
  <2>1. Resting \in PushRec /\ Resting.at = "none"
    BY DEF PushRec, Resting
  <2> QED BY <2>1, PushAt DEF Ind, PushHeap
<1>5. \A q \in Pushers : push'[q].at = "heap" => q # p /\ push[q].at = "heap" /\ push'[q] = push[q] /\ push[q].timer # i
  BY <1>1, <1>2, <1>4 DEF Ind, Hands
<1>6. \A s \in Threads : run'[s].at # "pushing" => push'[s].at = "none"
  BY <1>1, <1>4, Numbers DEF Ind, Hands
<1>7. Records'
  BY <1>1, <1>4 DEF Ind, Records
<1>8. \A s \in Threads, k \in Tasks : (Pops(s, k)' <=> Pops(s, k)) /\ (Looks(s, k)' <=> Looks(s, k))
  BY <1>1 DEF Pops, Looks
<1>9. Single'
  BY <1>1, <1>8 DEF Ind, Single
<1>10. CASE t \in stop
  <2>1. Forget({i}) /\ heap' = heap
    BY <1>2, <1>10 DEF PushHeap
  <2>2. /\ DOMAIN taskOf' = DOMAIN taskOf \ {i} /\ taskOf' \in [DOMAIN taskOf' -> Tasks]
        /\ \A j \in DOMAIN taskOf' : taskOf'[j] = taskOf[j]
        /\ DOMAIN taskOf' \subseteq Timers
        /\ Due' \subseteq DOMAIN taskOf' /\ \A j \in Due' : due'[j] \subseteq Due'
    BY <2>1, Forgotten
  <2>3. heap' \in [Threads -> SUBSET DOMAIN taskOf']
    BY <1>3, <2>1, <2>2 DEF Ind, TypeOK
  <2>4. TypeOK'
    BY <1>1, <2>1, <2>2, <2>3 DEF Ind, TypeOK
  <2>5. Hands'
    BY <1>5, <1>6, <2>1, <2>2 DEF Ind, Hands
  <2>6. Counted'
    BY <1>1, <1>10 DEF Counted, Removing
  <2> QED BY <1>7, <1>9, <2>4, <2>5, <2>6 DEF Ind
<1>11. CASE t \notin stop
  <2>1. heap' = [heap EXCEPT ![t] = heap[t] \cup {i}] /\ UNCHANGED <<taskOf, due>>
    BY <1>2, <1>11 DEF PushHeap, time
  <2>2. /\ heap' \in [Threads -> SUBSET DOMAIN taskOf'] /\ heap'[t] = heap[t] \cup {i}
        /\ \A s \in Threads : s # t => heap'[s] = heap[s]
    BY <1>3, <2>1 DEF Ind, TypeOK
  <2>3. ASSUME NEW s \in Threads, NEW u \in Threads, s # u PROVE heap'[s] \cap heap'[u] = {}
    <3>1. heap[s] \cap heap[u] = {} /\ i \notin heap[s] /\ i \notin heap[u]
      BY <1>3, <2>3 DEF Ind, TypeOK
    <3>2. CASE s = t
      BY <2>2, <2>3, <3>1, <3>2
    <3>3. CASE s # t
      BY <2>2, <3>1, <3>3
    <3> QED BY <3>2, <3>3
  <2>4. TypeOK'
    BY <1>1, <2>1, <2>2, <2>3 DEF Ind, TypeOK, Due
  <2>5. Hands'
    <3>1. \A q \in Pushers : push'[q].at = "heap" =>
            /\ push'[q].timer \in DOMAIN taskOf' /\ taskOf'[push'[q].timer] = push'[q].task
            /\ \A s \in Threads : push'[q].timer \notin heap'[s]
      BY <1>5, <2>1, <2>2 DEF Ind, Hands
    <3> QED BY <1>5, <1>6, <2>1, <3>1 DEF Ind, Hands
  <2>6. Counted'
    <3> SUFFICES ASSUME ~Removing, NEW k \in Tasks \ (deleted \cup overlap) PROVE CountedFor(k)'
      BY <1>1 DEF Counted, Removing
    <3>1. CountedFor(k)
      BY DEF Ind, Counted
    <3>2. \A q \in Pushers : Carries(q, k) => Carries(q, k)' \/ Timed(k)'
      BY <1>2, <1>3, <1>4, <2>1 DEF Carries, Timed
    <3>3. Coming(k) => Coming(k)'
      BY <1>1, <1>8, <2>1, <3>2 DEF Coming, Queued, Timed
    <3> QED BY <1>1, <1>8, <3>1, <3>3, CountKept
  <2> QED BY <1>7, <1>9, <2>4, <2>5, <2>6 DEF Ind
<1> QED BY <1>10, <1>11

LEMMA PushKeeps ==
  ASSUME Ind, NEW p \in Pushers, PushStep(p), UNCHANGED setup
  PROVE  Ind'
BY Storing, Alive, Finding, Inserting, Stamping, Heaping DEF PushStep

(***************************************************************************)
(* Time, and the end of the threads.                                       *)
(***************************************************************************)

LEMMA Ticks ==
  ASSUME Ind, Tick, UNCHANGED setup
  PROVE  Ind'
<1>1. UNCHANGED <<events, deleted, queue, inQueue, heap, taskOf, push, run, stop, pushed, overlap, setup>>
  BY DEF Tick, tasks, lists
<1>2. PICK i \in DOMAIN taskOf \ Due : due' = [j \in Due \cup {i} |-> IF j = i THEN Due ELSE due[j]]
  BY DEF Tick
<1>3. Due' = Due \cup {i} /\ \A j \in Due' : due'[j] \subseteq Due'
  BY <1>2 DEF Ind, TypeOK, Due
<1>4. TypeOK'
  BY <1>1, <1>2, <1>3 DEF Ind, TypeOK
<1>5. Records' /\ Hands' /\ Single'
  BY <1>1 DEF Ind, Records, Hands, Single, Pops
<1>6. \A k \in Tasks : CountedFor(k) => CountedFor(k)'
  BY <1>1 DEF CountedFor, Unseen, Coming, Queued, Timed, Carries, Looks, Pops
<1>7. Counted'
  BY <1>1, <1>6 DEF Ind, Counted, Removing
<1> QED BY <1>4, <1>5, <1>7 DEF Ind

LEMMA Removed ==
  ASSUME Ind, NEW t \in Threads, RemoveThread(t), UNCHANGED setup
  PROVE  Ind'
<1>1. /\ UNCHANGED <<events, deleted, push, run, pushed, overlap, setup>>
      /\ stop' = stop \cup {t} /\ Forget(heap[t])
      /\ queue' = [queue EXCEPT ![t] = <<>>] /\ inQueue' = [inQueue EXCEPT ![t] = {}]
      /\ heap' = [heap EXCEPT ![t] = {}]
  BY DEF RemoveThread, tasks
<1>2. /\ DOMAIN taskOf' = DOMAIN taskOf \ heap[t] /\ taskOf' \in [DOMAIN taskOf' -> Tasks]
      /\ \A j \in DOMAIN taskOf' : taskOf'[j] = taskOf[j]
      /\ DOMAIN taskOf' \subseteq Timers
      /\ Due' \subseteq DOMAIN taskOf' /\ \A j \in Due' : due'[j] \subseteq Due'
  BY <1>1, Forgotten
<1>3. heap'[t] = {} /\ \A s \in Threads : s # t => heap'[s] = heap[s] /\ heap[s] \cap heap[t] = {}
  BY <1>1 DEF Ind, TypeOK
<1>4. heap' \in [Threads -> SUBSET DOMAIN taskOf']
  BY <1>1, <1>2, <1>3 DEF Ind, TypeOK
<1>5. /\ queue' \in [Threads -> Seq(Tasks)] /\ inQueue' \in [Threads -> SUBSET Tasks]
      /\ inQueue'[t] = {} /\ \A s \in Threads : s # t => inQueue'[s] = inQueue[s] /\ queue'[s] = queue[s]
  BY <1>1 DEF Ind, TypeOK
<1>6. ASSUME NEW s \in Threads PROVE inQueue'[s] \subseteq {queue'[s][i] : i \in 1 .. Len(queue'[s])}
  <2>1. inQueue[s] \subseteq {queue[s][i] : i \in 1 .. Len(queue[s])}
    BY DEF Ind, TypeOK
  <2>2. CASE s = t
    BY <1>5, <2>2
  <2>3. CASE s # t
    BY <1>5, <2>1, <2>3
  <2> QED BY <2>2, <2>3
<1>7. TypeOK'
  BY <1>1, <1>2, <1>3, <1>4, <1>5, <1>6 DEF Ind, TypeOK
<1>8. Records' /\ Single'
  BY <1>1 DEF Ind, Records, Single, Pops
<1>9. Hands'
  <2>1. \A p \in Pushers : push'[p].at = "heap" =>
            /\ push'[p].timer \in DOMAIN taskOf' /\ taskOf'[push'[p].timer] = push'[p].task
            /\ \A s \in Threads : push'[p].timer \notin heap'[s]
    BY <1>1, <1>2, <1>3 DEF Ind, Hands
  <2> QED BY <1>1, <1>2, <2>1 DEF Ind, Hands
<1>10. Counted'
  BY <1>1 DEF Counted, Removing
<1> QED BY <1>7, <1>8, <1>9, <1>10 DEF Ind

LEMMA Stutters ==
  ASSUME Ind, UNCHANGED <<vars, setup>>
  PROVE  Ind'
<1>1. UNCHANGED <<events, deleted, queue, inQueue, heap, taskOf, due, push, run, stop, pushed, overlap, setup>>
  BY DEF vars, tasks, lists, time
<1>2. TypeOK' /\ Records' /\ Hands' /\ Single'
  BY <1>1 DEF Ind, TypeOK, Due, Records, Hands, Single, Pops
<1>3. \A k \in Tasks : CountedFor(k) => CountedFor(k)'
  BY <1>1 DEF CountedFor, Unseen, Coming, Queued, Timed, Carries, Looks, Pops
<1>4. Counted'
  BY <1>1, <1>3 DEF Ind, Counted, Removing
<1> QED BY <1>2, <1>4 DEF Ind

LEMMA StepKeeps ==
  ASSUME Ind, [Next]_<<vars, setup, fate>>
  PROVE  Ind'
<1>1. CASE Next
  <2>1. UNCHANGED setup
    BY <1>1 DEF Next
  <2>2. CASE \E p \in Pushers : PushStep(p)
    BY <2>1, <2>2, PushKeeps
  <2>3. CASE \E c \in Clients : ClientPush(c)
    BY <2>1, <2>3, ClientLoads
  <2>4. CASE \E t \in setup.threads : ThreadStep(t) \/ RemoveThread(t)
    BY <2>1, <2>4, ThreadKeeps, Removed, SetupFacts DEF Ind
  <2>5. CASE Tick
    BY <2>1, <2>5, Ticks
  <2>6. CASE Done
    BY <2>1, <2>6, Stutters DEF Done
  <2> QED BY <1>1, <2>2, <2>3, <2>4, <2>5, <2>6 DEF Next, Step
<1>2. CASE UNCHANGED <<vars, setup, fate>>
  BY <1>2, Stutters
<1> QED BY <1>1, <1>2

(***************************************************************************)
(* What is loaded and not stored yet is what m_Events holds, or an event   *)
(* is on its way to a thread, in every state of every pool.                *)
(***************************************************************************)
THEOREM EventsCounted == Spec => []Ind
<1>1. Ind /\ [Next]_<<vars, setup, fate>> => Ind'
  BY StepKeeps
<1> QED BY <1>1, StartsRight, PTL DEF Spec

\* The history says one of three things of each event.
LEMMA HistoryKept == Spec => []HistoryOK
<1>1. Init => HistoryOK
  BY DEF Init, HistoryOK
<1>2. HistoryOK /\ [Next]_<<vars, setup, fate>> => HistoryOK'
  <2>1. ASSUME HistoryOK, Next PROVE HistoryOK'
    BY <2>1 DEF Next, Remember, HistoryOK
  <2>2. ASSUME HistoryOK, UNCHANGED <<vars, setup, fate>> PROVE HistoryOK'
    BY <2>2 DEF HistoryOK
  <2> QED BY <2>1, <2>2
<1> QED BY <1>1, <1>2, PTL DEF Spec

(***************************************************************************)
(* The scheduler is well typed, and no event is stranded: an event set in  *)
(* m_Events of a task that two threads have never popped at once is one    *)
(* that somebody will look at.                                             *)
(***************************************************************************)
THEOREM NoEventStranded == Spec => []SchedulerInv
<1>1. Ind => NotStranded
  <2> SUFFICES ASSUME Ind, ~Removing, NEW k \in Tasks \ (deleted \cup overlap), events[k] # 0 PROVE Expected(k)
    BY DEF NotStranded
  <2>1. Coming(k) \/ \E t \in Threads : Pops(t, k)
    BY DEF Ind, Counted, CountedFor
  <2>2. CASE \E t \in Threads : Pops(t, k)
    BY <2>2 DEF Expected, Pops, Popping
  <2>3. CASE Coming(k)
    BY <2>3 DEF Expected, Coming, Queued, Timed, Carries, Looks
  <2> QED BY <2>1, <2>2, <2>3
<1>2. Ind /\ HistoryOK => SchedulerInv
  BY <1>1 DEF Ind, SchedulerInv
<1> QED BY <1>2, EventsCounted, HistoryKept, PTL
=============================================================================
