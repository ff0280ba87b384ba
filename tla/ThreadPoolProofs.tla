-------------------------- MODULE ThreadPoolProofs --------------------------
(***************************************************************************)
(* Proofs about ThreadPool, for any number of workers and tasks and any    *)
(* posting of tasks by tasks.                                              *)
(***************************************************************************)
EXTENDS ThreadPool, FiniteSetTheorems, TLAPS

Labels == {"wait", "asleep", "look", "run", "done"}

Thread == Worker \cup {Owner}

-----------------------------------------------------------------------------
(* Workers, counted by where they are *)

LEMMA Counting ==
  ASSUME NEW l
  PROVE  IsFiniteSet(At(l)) /\ Cardinality(At(l)) \in Nat
<1>1. At(l) \subseteq Worker
  BY DEF At
<1>2. IsFiniteSet(At(l))
  BY <1>1, PoolAssumption, FS_Subset
<1> QED BY <1>2, FS_CardinalityType

LEMMA UnlockedCounts ==
  ASSUME TypeOK
  PROVE  IsFiniteSet(unlocked) /\ Cardinality(unlocked) \in Nat
<1>1. IsFiniteSet(Worker \cup {Owner})
  BY PoolAssumption, FS_AddElement
<1>2. unlocked \subseteq Worker \cup {Owner}
  BY DEF TypeOK
<1>3. IsFiniteSet(unlocked)
  BY <1>1, <1>2, FS_Subset
<1> QED BY <1>3, FS_CardinalityType

\* A worker that goes from one place to another is one less here, one more there.
LEMMA Moved ==
  ASSUME TypeOK, NEW w \in Worker, NEW k \in Labels, NEW l \in Labels, k # l,
         pc[w] = k, pc' = [pc EXCEPT ![w] = l]
  PROVE  /\ pc' \in [Worker -> Labels]
         /\ At(k)' = At(k) \ {w} /\ At(l)' = At(l) \cup {w}
         /\ Cardinality(At(k)') = Cardinality(At(k)) - 1
         /\ Cardinality(At(l)') = Cardinality(At(l)) + 1
         /\ \A m \in Labels : m # k /\ m # l => At(m)' = At(m)
<1>1. pc \in [Worker -> Labels]
  BY DEF TypeOK, Labels
<1>2. pc' \in [Worker -> Labels]
  BY <1>1
<1>3. /\ At(k)' = At(k) \ {w} /\ At(l)' = At(l) \cup {w}
      /\ \A m \in Labels : m # k /\ m # l => At(m)' = At(m)
  BY <1>1 DEF At
<1>4. w \in At(k) /\ w \notin At(l)
  BY DEF At
<1>5. Cardinality(At(k) \ {w}) = Cardinality(At(k)) - 1
  BY <1>4, Counting, FS_RemoveElement
<1>6. Cardinality(At(l) \cup {w}) = Cardinality(At(l)) + 1
  BY <1>4, Counting, FS_AddElement
<1> QED BY <1>2, <1>3, <1>5, <1>6

LEMMA Stayed ==
  ASSUME UNCHANGED pc
  PROVE  \A l : At(l)' = At(l)
BY DEF At

\* A permit wakes a worker or finds none asleep.
LEMMA PermitGiven ==
  ASSUME TypeOK, Permit
  PROVE  /\ count' \in Nat /\ count' = count + 1
         /\ pc' \in [Worker -> Labels]
         /\ \A l \in {"look", "run", "done"} : At(l)' = At(l)
         /\ \/ At("asleep")' = {}
            \/ Cardinality(At("wait")') = Cardinality(At("wait")) + 1
               /\ At("asleep") # {}
<1>1. count' \in Nat /\ count' = count + 1
  BY DEF TypeOK, Permit
<1>2. CASE At("asleep") # {}
  <2>1. PICK w \in At("asleep") : pc' = [pc EXCEPT ![w] = "wait"]
    BY <1>2 DEF Permit
  <2>2. w \in Worker /\ pc[w] = "asleep"
    BY DEF At
  <2>3. /\ pc' \in [Worker -> Labels]
        /\ Cardinality(At("wait")') = Cardinality(At("wait")) + 1
        /\ \A m \in Labels : m # "asleep" /\ m # "wait" => At(m)' = At(m)
    BY <2>1, <2>2, Moved DEF Labels
  <2> QED BY <1>1, <1>2, <2>3 DEF Labels
<1>3. CASE At("asleep") = {}
  <2>1. UNCHANGED pc
    BY <1>3 DEF Permit
  <2>2. \A l : At(l)' = At(l)
    BY <2>1, Stayed
  <2>3. pc' \in [Worker -> Labels]
    BY <2>1 DEF TypeOK, Labels
  <2> QED BY <1>1, <1>3, <2>2, <2>3
<1> QED BY <1>2, <1>3

-----------------------------------------------------------------------------
(* Types *)

LEMMA TypesInit == Init => TypeOK
<1> SUFFICES ASSUME Init PROVE TypeOK
  OBVIOUS
<1> USE DEF Init
<1>1. queue \in Seq(Task) /\ count \in Nat /\ permits \in Nat
  OBVIOUS
<1>2. /\ pc \in [Worker -> {"wait", "asleep", "look", "run", "done"}]
      /\ task \in [Worker -> Task \cup {Idle}]
      /\ runs \in [Task -> Nat]
  OBVIOUS
<1> QED BY <1>1, <1>2 DEF TypeOK

LEMMA StartTypes ==
  ASSUME TypeOK, NEW w \in Worker, queue # <<>>, Start(w)
  PROVE  /\ queue' \in Seq(Task) /\ Head(queue) \in Task
         /\ task' \in [Worker -> Task \cup {Idle}]
         /\ runs' \in [Task -> Nat]
<1>1. queue \in Seq(Task)
  BY DEF TypeOK
<1>2. Head(queue) \in Task /\ Tail(queue) \in Seq(Task)
  BY <1>1
<1>3. runs[Head(queue)] + 1 \in Nat
  BY <1>2 DEF TypeOK
<1> QED BY <1>2, <1>3 DEF Start, TypeOK

LEMMA TypesStep ==
  ASSUME TypeOK, [Next]_vars
  PROVE  TypeOK'
<1> USE DEF TypeOK, poolVars
<1>1. ASSUME NEW w \in Worker, Wait(w)
      PROVE  TypeOK'
  <2>1. count' \in Nat
    BY <1>1 DEF Wait
  <2>2. pc' \in [Worker -> {"wait", "asleep", "look", "run", "done"}]
    BY <1>1 DEF Wait
  <2> QED BY <1>1, <2>1, <2>2 DEF Wait
<1>2. ASSUME NEW w \in Worker, SpuriousWake(w)
      PROVE  TypeOK'
  BY <1>2 DEF SpuriousWake
<1>3. ASSUME NEW p \in Thread, NEW t \in Task, Push(p, t)
      PROVE  TypeOK'
  <2>1. queue' \in Seq(Task)
    BY <1>3 DEF Push
  <2>2. posted' \subseteq Task /\ unlocked' \subseteq Worker \cup {Owner}
    BY <1>3 DEF Push, Thread
  <2> QED BY <1>3, <2>1, <2>2 DEF Push
<1>4. ASSUME NEW p \in Thread, Announce(p)
      PROVE  TypeOK'
  <2>1. count' \in Nat /\ pc' \in [Worker -> {"wait", "asleep", "look", "run", "done"}]
    BY <1>4, PermitGiven DEF Announce, Labels
  <2> QED BY <1>4, <2>1 DEF Announce
<1>5. ASSUME NEW w \in Worker, Look(w)
      PROVE  TypeOK'
  <2>1. /\ queue' \in Seq(Task)
        /\ task' \in [Worker -> Task \cup {Idle}]
        /\ runs' \in [Task -> Nat]
    <3>1. CASE queue # <<>> /\ Start(w)
      BY <3>1, StartTypes
    <3>2. CASE UNCHANGED <<queue, task, runs>>
      BY <3>2
    <3> QED BY <1>5, <3>1, <3>2 DEF Look
  <2>2. pc' \in [Worker -> {"wait", "asleep", "look", "run", "done"}]
    BY <1>5 DEF Look, Start
  <2> QED BY <1>5, <2>1, <2>2 DEF Look
<1>6. ASSUME NEW w \in Worker, Finish(w)
      PROVE  TypeOK'
  BY <1>6 DEF Finish
<1>7. CASE SetExit
  BY <1>7 DEF SetExit
<1>8. CASE PostExit
  <2>1. count' \in Nat /\ pc' \in [Worker -> {"wait", "asleep", "look", "run", "done"}]
    BY <1>8, PermitGiven DEF PostExit, Labels
  <2>2. permits' \in Nat
    BY <1>8 DEF PostExit
  <2> QED BY <1>8, <2>1, <2>2 DEF PostExit
<1>9. CASE StartJoin
  BY <1>9 DEF StartJoin
<1>10. CASE Joined
  BY <1>10 DEF Joined
<1>11. CASE UNCHANGED vars
  BY <1>11 DEF vars
<1> QED
  BY <1>1, <1>2, <1>3, <1>4, <1>5, <1>6, <1>7, <1>8, <1>9, <1>10, <1>11
  DEF Next, WorkerStep, OwnerStep, Thread

(***************************************************************************)
(* Every reachable state is well typed.                                    *)
(***************************************************************************)
THEOREM PoolTypes == Spec => []TypeOK
<1>1. TypeOK /\ [Next]_vars => TypeOK'
  BY TypesStep
<1> QED BY <1>1, TypesInit, PTL DEF Spec

-----------------------------------------------------------------------------
(* Shutting down *)

(***************************************************************************)
(* Workers end only when the pool is being destroyed, and only a thread    *)
(* that is able to finish what it does is between a push and its permit.   *)
(***************************************************************************)
CloseInv ==
  /\ exit <=> closing # "no"
  /\ At("done") # {} => exit
  /\ Owner \in unlocked => ~ exit
  /\ unlocked \cap Worker \subseteq At("run")
  /\ closing = "joined" => At("done") = Worker

(***************************************************************************)
(* While tasks are queued some worker is left to run them: the last one to *)
(* end saw an empty queue, and nobody was running who could add to it.     *)
(***************************************************************************)
DrainInv == ~ fast /\ queue # <<>> => At("done") # Worker

LEMMA CloseInit == Init => CloseInv /\ DrainInv
BY DEF Init, CloseInv, DrainInv, At

LEMMA CloseStep ==
  ASSUME TypeOK, CloseInv, [Next]_vars
  PROVE  CloseInv'
<1> USE DEF CloseInv, poolVars
<1>1. ASSUME NEW w \in Worker, Wait(w)
      PROVE  CloseInv'
  <2>1. PICK l \in {"look", "asleep"} : pc' = [pc EXCEPT ![w] = l] /\ pc[w] = "wait"
    BY <1>1 DEF Wait
  <2>2. At("done")' = At("done") /\ At("run")' = At("run")
    BY <2>1, Moved DEF Labels
  <2> QED BY <1>1, <2>2 DEF Wait
<1>2. ASSUME NEW w \in Worker, SpuriousWake(w)
      PROVE  CloseInv'
  <2>1. At("done")' = At("done") /\ At("run")' = At("run")
    BY <1>2, Moved DEF Labels, SpuriousWake
  <2> QED BY <1>2, <2>1 DEF SpuriousWake
<1>3. ASSUME NEW p \in Thread, NEW t \in Task, Push(p, t)
      PROVE  CloseInv'
  <2>1. \A l : At(l)' = At(l)
    BY <1>3, Stayed DEF Push
  <2>2. (p = Owner /\ closing = "no") \/ p \in At("run")
    BY <1>3 DEF Push, MayPost
  <2>3. Owner \notin At("run")
    BY PoolAssumption DEF At
  <2> QED BY <1>3, <2>1, <2>2, <2>3, PoolAssumption DEF Push
<1>4. ASSUME NEW p \in Thread, Announce(p)
      PROVE  CloseInv'
  <2>1. At("done")' = At("done") /\ At("run")' = At("run")
    BY <1>4, PermitGiven DEF Announce
  <2> QED BY <1>4, <2>1 DEF Announce
<1>5. ASSUME NEW w \in Worker, Look(w)
      PROVE  CloseInv'
  <2>1. PICK l \in {"run", "done", "wait"} :
          /\ pc' = [pc EXCEPT ![w] = l] /\ pc[w] = "look"
          /\ l = "done" => exit
    BY <1>5 DEF Look, Start
  <2>2. /\ At("run") \subseteq At("run")'
        /\ At("done") \subseteq At("done")' /\ At("done")' \subseteq Worker
        /\ l # "done" => At("done")' = At("done")
    BY <2>1, Moved DEF Labels, At
  <2>3. exit' = exit /\ closing' = closing /\ unlocked' = unlocked
    BY <1>5 DEF Look
  <2> QED BY <2>1, <2>2, <2>3
<1>6. ASSUME NEW w \in Worker, Finish(w)
      PROVE  CloseInv'
  <2>1. At("done")' = At("done") /\ At("run")' = At("run") \ {w}
    BY <1>6, Moved DEF Labels, Finish
  <2> QED BY <1>6, <2>1 DEF Finish
<1>7. CASE SetExit
  <2>1. \A l : At(l)' = At(l)
    BY <1>7, Stayed DEF SetExit
  <2> QED BY <1>7, <2>1 DEF SetExit
<1>8. CASE PostExit
  <2>1. At("done")' = At("done") /\ At("run")' = At("run")
    BY <1>8, PermitGiven DEF PostExit
  <2> QED BY <1>8, <2>1 DEF PostExit
<1>9. CASE StartJoin
  <2>1. \A l : At(l)' = At(l)
    BY <1>9, Stayed DEF StartJoin
  <2> QED BY <1>9, <2>1 DEF StartJoin
<1>10. CASE Joined
  <2>1. \A l : At(l)' = At(l)
    BY <1>10, Stayed DEF Joined
  <2> QED BY <1>10, <2>1 DEF Joined
<1>11. CASE UNCHANGED vars
  <2>1. \A l : At(l)' = At(l)
    BY <1>11, Stayed DEF vars
  <2> QED BY <1>11, <2>1 DEF vars
<1> QED
  BY <1>1, <1>2, <1>3, <1>4, <1>5, <1>6, <1>7, <1>8, <1>9, <1>10, <1>11
  DEF Next, WorkerStep, OwnerStep, Thread

LEMMA DrainStep ==
  ASSUME TypeOK, CloseInv, DrainInv, [Next]_vars
  PROVE  DrainInv'
<1> USE DEF DrainInv, poolVars
<1>1. ASSUME At("done")' = At("done"), UNCHANGED <<queue, fast>>
      PROVE  DrainInv'
  BY <1>1
<1>2. ASSUME NEW p \in Thread, NEW t \in Task, Push(p, t)
      PROVE  DrainInv'
  <2>1. \A l : At(l)' = At(l)
    BY <1>2, Stayed DEF Push
  <2>2. CASE p = Owner /\ closing = "no"
    BY <2>1, <2>2, PoolAssumption DEF CloseInv
  <2>3. CASE p \in At("run")
    BY <2>1, <2>3 DEF At
  <2> QED BY <1>2, <2>2, <2>3 DEF Push, MayPost
<1>3. ASSUME NEW w \in Worker, Look(w)
      PROVE  DrainInv'
  <2>1. CASE Start(w) /\ queue # <<>>
    <3>1. pc'[w] = "run"
      BY <2>1 DEF Start, TypeOK
    <3> QED BY <3>1 DEF At
  <2>2. CASE (queue = <<>> \/ (fast /\ exit)) /\ UNCHANGED <<queue, task, runs>>
    BY <1>3, <2>2 DEF Look
  <2> QED BY <1>3, <2>1, <2>2 DEF Look
<1>4. ASSUME NEW w \in Worker, Wait(w) \/ SpuriousWake(w) \/ Finish(w)
      PROVE  DrainInv'
  <2>1. PICK k \in Labels \ {"done"}, l \in Labels \ {"done"} :
          k # l /\ pc[w] = k /\ pc' = [pc EXCEPT ![w] = l]
    BY <1>4 DEF Wait, SpuriousWake, Finish, Labels
  <2>2. At("done")' = At("done")
    BY <2>1, Moved DEF Labels
  <2>3. UNCHANGED <<queue, fast>>
    BY <1>4 DEF Wait, SpuriousWake, Finish
  <2> QED BY <1>1, <2>2, <2>3
<1>5. ASSUME NEW p \in Thread, Announce(p)
      PROVE  DrainInv'
  BY <1>1, <1>5, PermitGiven DEF Announce
<1>6. CASE PostExit
  BY <1>1, <1>6, PermitGiven DEF PostExit
<1>7. CASE SetExit \/ StartJoin \/ Joined \/ UNCHANGED vars
  <2>1. UNCHANGED <<pc, queue, fast>>
    BY <1>7 DEF SetExit, StartJoin, Joined, vars
  <2> QED BY <1>1, <2>1, Stayed
<1> QED
  BY <1>2, <1>3, <1>4, <1>5, <1>6, <1>7
  DEF Next, WorkerStep, OwnerStep, Thread

-----------------------------------------------------------------------------
(* Every task runs once *)

\* A task is queued, was started once, or was never posted.
QueueInv ==
  /\ \A i, j \in DOMAIN queue : queue[i] = queue[j] => i = j
  /\ Queued \subseteq posted
  /\ \A t \in Task : runs[t] = IF t \in posted \ Queued THEN 1 ELSE 0

LEMMA QueueInit == Init => QueueInv
BY DEF Init, QueueInv, Queued

LEMMA PushQueues ==
  ASSUME TypeOK, QueueInv, NEW p \in Thread, NEW t \in Task, Push(p, t)
  PROVE  QueueInv'
<1>1. /\ queue \in Seq(Task) /\ queue' = Append(queue, t)
      /\ posted' = posted \cup {t} /\ runs' = runs /\ t \notin posted
  BY DEF Push, MayPost, TypeOK
<1>2. \A i \in DOMAIN queue : queue[i] # t
  BY <1>1 DEF QueueInv, Queued
<1>3. /\ Len(queue') = Len(queue) + 1
      /\ \A i \in 1..Len(queue) : queue'[i] = queue[i]
      /\ queue'[Len(queue) + 1] = t
      /\ DOMAIN queue = 1..Len(queue) /\ DOMAIN queue' = 1..Len(queue')
      /\ Len(queue) \in Nat
  BY <1>1
<1>4. \A i, j \in DOMAIN queue' : queue'[i] = queue'[j] => i = j
  <2> SUFFICES ASSUME NEW i \in DOMAIN queue', NEW j \in DOMAIN queue',
                      queue'[i] = queue'[j]
               PROVE  i = j
    OBVIOUS
  <2>1. CASE i \in DOMAIN queue /\ j \in DOMAIN queue
    BY <1>3, <2>1 DEF QueueInv
  <2>2. CASE i = Len(queue) + 1 \/ j = Len(queue) + 1
    BY <1>2, <1>3, <2>2
  <2> QED BY <1>3, <2>1, <2>2
<1>5. Queued' = Queued \cup {t}
  <2>1. DOMAIN queue' = DOMAIN queue \cup {Len(queue) + 1}
    BY <1>3
  <2> QED BY <1>3, <2>1 DEF Queued
<1>6. posted' \ Queued' = posted \ Queued
  BY <1>1, <1>5
<1> QED BY <1>1, <1>4, <1>5, <1>6 DEF QueueInv

LEMMA StartDequeues ==
  ASSUME TypeOK, QueueInv, NEW w \in Worker, queue # <<>>, Start(w),
         UNCHANGED posted
  PROVE  QueueInv'
<1> DEFINE t == Head(queue)
<1>1. /\ queue \in Seq(Task) /\ queue' = Tail(queue) /\ t \in Task
      /\ runs' = [runs EXCEPT ![t] = @ + 1]
  BY StartTypes DEF Start, TypeOK
<1>2. /\ Len(queue) \in Nat /\ Len(queue) > 0
      /\ Len(queue') = Len(queue) - 1
      /\ \A i \in 1..Len(queue') : queue'[i] = queue[i + 1]
      /\ DOMAIN queue = 1..Len(queue) /\ DOMAIN queue' = 1..Len(queue')
      /\ t = queue[1]
  BY <1>1
<1> HIDE DEF t
<1>3. \A i, j \in DOMAIN queue' : queue'[i] = queue'[j] => i = j
  <2> SUFFICES ASSUME NEW i \in DOMAIN queue', NEW j \in DOMAIN queue',
                      queue'[i] = queue'[j]
               PROVE  i = j
    OBVIOUS
  <2>1. i + 1 \in DOMAIN queue /\ j + 1 \in DOMAIN queue
    BY <1>2
  <2>2. queue[i + 1] = queue[j + 1]
    BY <1>2
  <2>3. i + 1 = j + 1
    BY <2>1, <2>2 DEF QueueInv
  <2> QED BY <1>2, <2>3
<1>4. Queued' = Queued \ {t}
  <2>1. ASSUME NEW u \in Queued'
        PROVE  u \in Queued /\ u # t
    <3>1. PICK i \in DOMAIN queue' : u = queue'[i]
      BY <2>1 DEF Queued
    <3>2. i + 1 \in DOMAIN queue /\ 1 \in DOMAIN queue /\ i + 1 # 1 /\ u = queue[i + 1]
      BY <1>2, <3>1
    <3>3. queue[i + 1] # queue[1]
      BY <3>2 DEF QueueInv
    <3> QED BY <1>2, <3>2, <3>3 DEF Queued
  <2>2. ASSUME NEW u \in Queued, u # t
        PROVE  u \in Queued'
    <3>1. PICK i \in DOMAIN queue : u = queue[i]
      BY <2>2 DEF Queued
    <3>2. i - 1 \in DOMAIN queue' /\ i = (i - 1) + 1
      BY <1>2, <2>2, <3>1
    <3>3. u = queue'[i - 1]
      BY <1>2, <3>1, <3>2
    <3> QED BY <3>2, <3>3 DEF Queued
  <2> QED BY <2>1, <2>2
<1>5. t \in Queued
  BY <1>2 DEF Queued
<1>6. posted' \ Queued' = (posted \ Queued) \cup {t}
  BY <1>4, <1>5 DEF QueueInv
<1>7. \A u \in Task : runs'[u] = IF u = t THEN runs[u] + 1 ELSE runs[u]
  BY <1>1 DEF TypeOK
<1>8. runs[t] = 0
  BY <1>1, <1>5 DEF QueueInv
<1>9. \A u \in Task : runs'[u] = IF u \in posted' \ Queued' THEN 1 ELSE 0
  BY <1>6, <1>7, <1>8 DEF QueueInv
<1>10. Queued' \subseteq posted'
  BY <1>4 DEF QueueInv
<1> QED BY <1>3, <1>9, <1>10 DEF QueueInv

LEMMA QueueStep ==
  ASSUME TypeOK, QueueInv, [Next]_vars
  PROVE  QueueInv'
<1>1. ASSUME UNCHANGED <<queue, posted, runs>>
      PROVE  QueueInv'
  BY <1>1 DEF QueueInv, Queued
<1>2. ASSUME NEW p \in Thread, NEW t \in Task, Push(p, t)
      PROVE  QueueInv'
  BY <1>2, PushQueues
<1>3. ASSUME NEW w \in Worker, Look(w)
      PROVE  QueueInv'
  <2>1. CASE queue # <<>> /\ Start(w)
    BY <1>3, <2>1, StartDequeues DEF Look
  <2>2. CASE UNCHANGED <<queue, task, runs>>
    BY <1>1, <1>3, <2>2 DEF Look
  <2> QED BY <1>3, <2>1, <2>2 DEF Look
<1>4. ASSUME NEW w \in Worker, Wait(w) \/ SpuriousWake(w) \/ Finish(w)
      PROVE  QueueInv'
  BY <1>1, <1>4 DEF Wait, SpuriousWake, Finish, poolVars
<1>5. ASSUME NEW p \in Thread, Announce(p)
      PROVE  QueueInv'
  BY <1>1, <1>5 DEF Announce, poolVars
<1>6. CASE PostExit \/ SetExit \/ StartJoin \/ Joined \/ UNCHANGED vars
  BY <1>1, <1>6 DEF PostExit, SetExit, StartJoin, Joined, vars, poolVars
<1> QED
  BY <1>2, <1>3, <1>4, <1>5, <1>6
  DEF Next, WorkerStep, OwnerStep, Thread

(***************************************************************************)
(* When ~threadpool returns, every task that was posted, whoever posted it *)
(* and however late, was run exactly once, unless the pool is fast and the *)
(* task is still in the queue.                                             *)
(***************************************************************************)
THEOREM PoolDrains == Spec => []AllRunOnce
<1> DEFINE Inv == TypeOK /\ CloseInv /\ DrainInv /\ QueueInv
<1>1. Init => Inv
  BY TypesInit, CloseInit, QueueInit
<1>2. Inv /\ [Next]_vars => Inv'
  BY TypesStep, CloseStep, DrainStep, QueueStep
<1>3. Inv => AllRunOnce
  <2> SUFFICES ASSUME Inv, closing = "joined"
               PROVE  /\ \A t \in posted : runs[t] = IF t \in Queued THEN 0 ELSE 1
                      /\ ~ fast => queue = <<>>
    BY DEF AllRunOnce
  <2>1. ~ fast => queue = <<>>
    BY DEF CloseInv, DrainInv
  <2>2. posted \subseteq Task
    BY DEF TypeOK
  <2> QED BY <2>1, <2>2 DEF QueueInv
<1> QED BY <1>1, <1>2, <1>3, PTL DEF Spec

-----------------------------------------------------------------------------
(* Permits *)

\* No permit to end is posted before the flag is set.
PermitInv == PermitsMatch /\ (~ exit => permits = 0)

Looking == Cardinality(At("look"))

Done == Cardinality(At("done"))

Unannounced == Cardinality(unlocked)

\* The sum that PermitsMatch is about.
Surplus == count + Looking - Len(queue) + Unannounced - permits + Done

LEMMA Numbers ==
  ASSUME TypeOK
  PROVE  /\ count \in Nat /\ Looking \in Nat /\ Len(queue) \in Nat
         /\ Unannounced \in Nat /\ permits \in Nat /\ Done \in Nat
<1>1. Len(queue) \in Nat
  BY DEF TypeOK
<1> QED BY <1>1, Counting, UnlockedCounts DEF Looking, Done, Unannounced, TypeOK

LEMMA Balance ==
  ASSUME NEW c \in Nat, NEW l \in Nat, NEW q \in Nat, NEW u \in Nat,
         NEW p \in Nat, NEW d \in Nat
  PROVE  c + l = q - u + p - d <=> c + l - q + u - p + d = 0
OBVIOUS

LEMMA SurplusZero == TypeOK => (PermitsMatch <=> (~ fast \/ ~ exit => Surplus = 0))
<1> SUFFICES ASSUME TypeOK
             PROVE  PermitsMatch <=> (~ fast \/ ~ exit => Surplus = 0)
  OBVIOUS
<1>1. /\ count \in Nat /\ Looking \in Nat /\ Len(queue) \in Nat
      /\ Unannounced \in Nat /\ permits \in Nat /\ Done \in Nat
  BY Numbers
<1>2. count + Looking = Len(queue) - Unannounced + permits - Done
        <=> count + Looking - Len(queue) + Unannounced - permits + Done = 0
  BY <1>1, Balance
<1> QED BY <1>2 DEF PermitsMatch, Surplus, Looking, Done, Unannounced

LEMMA SurplusZeroNext ==
  TypeOK' => (PermitsMatch' <=> (~ fast' \/ ~ exit' => Surplus' = 0))
<1>1. TypeOK => (PermitsMatch <=> (~ fast \/ ~ exit => Surplus = 0))
  BY SurplusZero
<1>2. TypeOK' => (PermitsMatch' <=> (~ fast' \/ ~ exit' => (Surplus = 0)'))
  BY <1>1, PTL
<1> QED BY <1>2

LEMMA PermitInit == Init => PermitInv
<1> SUFFICES ASSUME Init PROVE PermitInv
  OBVIOUS
<1>1. TypeOK
  BY TypesInit
<1>2. At("look") = {} /\ At("done") = {} /\ unlocked = {}
  BY DEF Init, At
<1>3. Looking = 0 /\ Done = 0 /\ Unannounced = 0
  BY <1>2, FS_EmptySet DEF Looking, Done, Unannounced
<1>4. count = 0 /\ Len(queue) = 0 /\ permits = 0
  BY DEF Init
<1>5. Surplus = 0
  BY <1>3, <1>4 DEF Surplus
<1> QED BY <1>1, <1>4, <1>5, SurplusZero DEF PermitInv

\* A step that keeps the sum, the flag and what permits there are to end.
LEMMA SumKept ==
  ASSUME TypeOK, TypeOK', PermitInv, Surplus' = Surplus,
         UNCHANGED <<exit, fast>>, exit \/ permits' = permits
  PROVE  PermitInv'
<1>1. ~ fast \/ ~ exit => Surplus = 0
  BY SurplusZero DEF PermitInv
<1>2. ~ fast' \/ ~ exit' => Surplus' = 0
  BY <1>1
<1> QED BY <1>2, SurplusZeroNext DEF PermitInv

\* How the parts of the sum move together.
LEMMA SumMoves ==
  ASSUME NEW c \in Nat, NEW l \in Nat, NEW q \in Nat, NEW u \in Nat,
         NEW p \in Nat, NEW d \in Nat
  PROVE  /\ (c - 1) + (l + 1) - q + u - p + d = c + l - q + u - p + d
         /\ c + l - (q + 1) + (u + 1) - p + d = c + l - q + u - p + d
         /\ (c + 1) + l - q + (u - 1) - p + d = c + l - q + u - p + d
         /\ c + (l - 1) - (q - 1) + u - p + d = c + l - q + u - p + d
         /\ c + (l - 1) - q + u - p + (d + 1) = c + l - q + u - p + d
         /\ (c + 1) + l - q + u - (p + 1) + d = c + l - q + u - p + d
OBVIOUS

\* Without the flag, a worker that holds a permit finds a task.
LEMMA PermitFinds ==
  ASSUME TypeOK, CloseInv, PermitInv, NEW w \in Worker, pc[w] = "look", ~ exit
  PROVE  queue # <<>>
<1>1. Surplus = 0 /\ permits = 0
  BY SurplusZero DEF PermitInv
<1>2. At("done") = {}
  BY DEF CloseInv
<1>3. Done = 0
  BY <1>2, FS_EmptySet DEF Done
<1>4. w \in At("look")
  BY DEF At
<1>5. Looking # 0
  BY <1>4, Counting, FS_EmptySet DEF Looking
<1>6. ASSUME NEW c \in Nat, NEW l \in Nat, NEW u \in Nat, l # 0
      PROVE  c + l - 0 + u - 0 + 0 # 0
  BY <1>6
<1>7. Len(queue) # 0
  BY <1>1, <1>3, <1>5, <1>6, Numbers DEF Surplus
<1> QED BY <1>7

LEMMA LookPermits ==
  ASSUME TypeOK, TypeOK', CloseInv, PermitInv, NEW w \in Worker, Look(w)
  PROVE  PermitInv'
<1>1. /\ UNCHANGED <<exit, fast, count, unlocked, permits>> /\ pc[w] = "look"
      /\ Unannounced' = Unannounced
  BY DEF Look, Unannounced
<1>2. CASE queue # <<>> /\ Start(w)
  <2>1. pc' = [pc EXCEPT ![w] = "run"]
    BY <1>2 DEF Start
  <2>2. Looking' = Looking - 1 /\ Done' = Done
    BY <1>1, <2>1, Moved DEF Labels, Looking, Done
  <2>3. Len(queue') = Len(queue) - 1
    BY <1>2 DEF Start, TypeOK
  <2>4. Surplus' = Surplus
    BY <1>1, <2>2, <2>3, Numbers, SumMoves DEF Surplus
  <2> QED BY <1>1, <2>4, SumKept
<1>3. CASE pc' = [pc EXCEPT ![w] = "done"] /\ UNCHANGED queue
  <2>1. Looking' = Looking - 1 /\ Done' = Done + 1
    BY <1>1, <1>3, Moved DEF Labels, Looking, Done
  <2>2. Surplus' = count + (Looking - 1) - Len(queue) + Unannounced - permits + (Done + 1)
    BY <1>1, <1>3, <2>1 DEF Surplus
  <2>3. Surplus' = Surplus
    BY <2>2, Numbers, SumMoves DEF Surplus
  <2> QED BY <1>1, <2>3, SumKept
<1>4. CASE ~ exit /\ queue = <<>>
  BY <1>1, <1>4, PermitFinds
<1> QED
  BY <1>2, <1>3, <1>4 DEF Look

LEMMA PermitStep ==
  ASSUME TypeOK, TypeOK', CloseInv, PermitInv, [Next]_vars
  PROVE  PermitInv'
<1> USE DEF poolVars
<1>1. ASSUME NEW w \in Worker, Wait(w)
      PROVE  PermitInv'
  <2>1. UNCHANGED <<queue, exit, fast, unlocked, permits>> /\ Unannounced' = Unannounced
    BY <1>1 DEF Wait, Unannounced
  <2>2. CASE count' = count - 1 /\ pc' = [pc EXCEPT ![w] = "look"]
    <3>1. Looking' = Looking + 1 /\ Done' = Done
      BY <1>1, <2>2, Moved DEF Wait, Labels, Looking, Done
    <3>2. Surplus' = Surplus
      BY <2>1, <2>2, <3>1, Numbers, SumMoves DEF Surplus
    <3> QED BY <2>1, <3>2, SumKept
  <2>3. CASE UNCHANGED count /\ pc' = [pc EXCEPT ![w] = "asleep"]
    <3>1. Looking' = Looking /\ Done' = Done
      BY <1>1, <2>3, Moved DEF Wait, Labels, Looking, Done
    <3>2. Surplus' = Surplus
      BY <2>1, <2>3, <3>1 DEF Surplus
    <3> QED BY <2>1, <3>2, SumKept
  <2> QED BY <1>1, <2>2, <2>3 DEF Wait
<1>2. ASSUME NEW w \in Worker, SpuriousWake(w) \/ Finish(w)
      PROVE  PermitInv'
  <2>1. /\ UNCHANGED <<queue, exit, fast, count, unlocked, permits>>
        /\ Unannounced' = Unannounced
    BY <1>2 DEF SpuriousWake, Finish, Unannounced
  <2>2. PICK k \in {"asleep", "run"} : pc[w] = k /\ pc' = [pc EXCEPT ![w] = "wait"]
    BY <1>2 DEF SpuriousWake, Finish
  <2>3. Looking' = Looking /\ Done' = Done
    BY <2>2, Moved DEF Labels, Looking, Done
  <2>4. Surplus' = Surplus
    BY <2>1, <2>3 DEF Surplus
  <2> QED BY <2>1, <2>4, SumKept
<1>3. ASSUME NEW p \in Thread, NEW t \in Task, Push(p, t)
      PROVE  PermitInv'
  <2>1. /\ UNCHANGED <<exit, fast, count, pc, permits>>
        /\ queue' = Append(queue, t)
        /\ unlocked' = unlocked \cup {p} /\ p \notin unlocked
    BY <1>3 DEF Push
  <2>2. Looking' = Looking /\ Done' = Done
    BY <2>1, Stayed DEF Looking, Done
  <2>3. Len(queue') = Len(queue) + 1
    BY <2>1 DEF TypeOK
  <2>4. Unannounced' = Unannounced + 1
    BY <2>1, UnlockedCounts, FS_AddElement DEF Unannounced
  <2>5. Surplus' = Surplus
    BY <2>1, <2>2, <2>3, <2>4, Numbers, SumMoves DEF Surplus
  <2> QED BY <2>1, <2>5, SumKept
<1>4. ASSUME NEW p \in Thread, Announce(p)
      PROVE  PermitInv'
  <2>1. /\ UNCHANGED <<exit, fast, queue, permits>> /\ Permit
        /\ unlocked' = unlocked \ {p} /\ p \in unlocked
    BY <1>4 DEF Announce
  <2>2. count' = count + 1 /\ Looking' = Looking /\ Done' = Done
    BY <2>1, PermitGiven DEF Looking, Done
  <2>3. Unannounced' = Unannounced - 1
    BY <2>1, UnlockedCounts, FS_RemoveElement DEF Unannounced
  <2>4. Surplus' = Surplus
    BY <2>1, <2>2, <2>3, Numbers, SumMoves DEF Surplus
  <2> QED BY <2>1, <2>4, SumKept
<1>5. ASSUME NEW w \in Worker, Look(w)
      PROVE  PermitInv'
  BY <1>5, LookPermits
<1>6. CASE PostExit
  <2>1. UNCHANGED <<exit, fast, queue, unlocked>> /\ permits' = permits + 1
    BY <1>6 DEF PostExit
  <2>2. /\ count' = count + 1 /\ Looking' = Looking /\ Done' = Done
        /\ Unannounced' = Unannounced
    BY <1>6, <2>1, PermitGiven DEF PostExit, Looking, Done, Unannounced
  <2>3. Surplus' = Surplus
    BY <2>1, <2>2, Numbers, SumMoves DEF Surplus
  <2>4. exit
    BY <1>6 DEF PostExit, CloseInv
  <2> QED BY <2>1, <2>3, <2>4, SumKept
<1>7. CASE SetExit \/ StartJoin \/ Joined \/ UNCHANGED vars
  <2>1. UNCHANGED <<fast, queue, count, pc, unlocked, permits>>
    BY <1>7 DEF SetExit, StartJoin, Joined, vars
  <2>2. Looking' = Looking /\ Done' = Done /\ Unannounced' = Unannounced
    BY <2>1, Stayed DEF Looking, Done, Unannounced
  <2>3. Surplus' = Surplus
    BY <2>1, <2>2 DEF Surplus
  <2>4. CASE exit' = exit
    BY <2>1, <2>3, <2>4, SumKept
  <2>5. CASE ~ exit /\ exit'
    <3>1. Surplus = 0
      BY <2>5, SurplusZero DEF PermitInv
    <3> QED BY <2>3, <2>5, <3>1, SurplusZeroNext DEF PermitInv
  <2>6. exit' = exit \/ (~ exit /\ exit')
    <3>1. CASE SetExit
      BY <3>1 DEF SetExit, CloseInv
    <3>2. CASE StartJoin \/ Joined \/ UNCHANGED vars
      BY <3>2 DEF StartJoin, Joined, vars
    <3> QED BY <1>7, <3>1, <3>2
  <2> QED BY <2>4, <2>5, <2>6
<1> QED
  BY <1>1, <1>2, <1>3, <1>4, <1>5, <1>6, <1>7
  DEF Next, WorkerStep, OwnerStep, Thread

(***************************************************************************)
(* The permits of the semaphore are, at every interleaving, as many as the *)
(* tasks queued and announced plus the workers still to end.               *)
(***************************************************************************)
THEOREM PermitsBalance == Spec => []PermitsMatch
<1> DEFINE Inv == TypeOK /\ CloseInv /\ PermitInv
<1>1. Init => Inv
  BY TypesInit, CloseInit, PermitInit
<1>2. Inv /\ [Next]_vars => Inv'
  BY TypesStep, CloseStep, PermitStep
<1>3. Inv => PermitsMatch
  BY DEF PermitInv
<1> QED BY <1>1, <1>2, <1>3, PTL DEF Spec

-----------------------------------------------------------------------------
(* Wake-ups *)

Waiting == Cardinality(At("wait"))

\* Whatever keeps as many workers awake as there are permits.
LEMMA AwakeEnough ==
  ASSUME TypeOK, NoLostWakeup, Waiting' \in Nat, count' \in Nat,
         \/ At("asleep")' = {}
         \/ At("asleep") # {} /\ count' - count <= Waiting' - Waiting
         \/ count' = 0
  PROVE  NoLostWakeup'
<1>1. count \in Nat /\ Waiting \in Nat
  BY Counting DEF TypeOK, Waiting
<1>2. \A c, d, x, y \in Nat : c <= x /\ d - c <= y - x => d <= y
  OBVIOUS
<1>3. CASE At("asleep")' = {}
  BY <1>3 DEF NoLostWakeup
<1>4. CASE At("asleep") # {} /\ count' - count <= Waiting' - Waiting
  <2>1. count <= Waiting
    BY <1>4 DEF NoLostWakeup, Waiting
  <2>2. count' <= Waiting'
    BY <1>1, <1>2, <1>4, <2>1
  <2> QED BY <2>2 DEF NoLostWakeup, Waiting
<1>5. CASE count' = 0
  <2>1. count' <= Waiting'
    BY <1>5
  <2> QED BY <2>1 DEF NoLostWakeup, Waiting
<1> QED BY <1>3, <1>4, <1>5

LEMMA WaitingNext == Waiting' \in Nat
<1>1. Waiting \in Nat
  BY Counting DEF Waiting
<1>2. (Waiting \in Nat)'
  BY <1>1, PTL
<1> QED BY <1>2

LEMMA WakeInit == Init => NoLostWakeup
<1> SUFFICES ASSUME Init PROVE NoLostWakeup
  OBVIOUS
<1>1. At("asleep") = {}
  BY DEF Init, At
<1> QED BY <1>1 DEF NoLostWakeup

LEMMA WakeStep ==
  ASSUME TypeOK, TypeOK', NoLostWakeup, [Next]_vars
  PROVE  NoLostWakeup'
<1> USE WaitingNext DEF poolVars
<1>1. count \in Nat /\ count' \in Nat /\ Waiting \in Nat
  BY Counting DEF TypeOK, Waiting
<1>2. ASSUME UNCHANGED <<count, pc>>
      PROVE  NoLostWakeup'
  BY <1>2, Stayed DEF NoLostWakeup
<1>3. ASSUME NEW w \in Worker, Wait(w)
      PROVE  NoLostWakeup'
  <2>1. CASE count > 0 /\ count' = count - 1 /\ pc' = [pc EXCEPT ![w] = "look"]
    <3>1. At("asleep")' = At("asleep") /\ Waiting' = Waiting - 1
      BY <1>3, <2>1, Moved DEF Wait, Labels, Waiting
    <3>2. \A c, x \in Nat : (c - 1) - c <= (x - 1) - x
      OBVIOUS
    <3>3. count' - count <= Waiting' - Waiting
      BY <1>1, <2>1, <3>1, <3>2
    <3> QED BY <1>1, <3>1, <3>3, AwakeEnough
  <2>2. CASE count = 0 /\ UNCHANGED count
    BY <1>1, <2>2, AwakeEnough
  <2> QED BY <1>3, <2>1, <2>2 DEF Wait
<1>4. ASSUME Permit
      PROVE  NoLostWakeup'
  <2>1. CASE At("asleep")' = {}
    BY <2>1 DEF NoLostWakeup
  <2>2. CASE At("asleep") # {} /\ Waiting' = Waiting + 1
    <3>1. count' = count + 1
      BY <1>4 DEF Permit
    <3>2. \A c, x \in Nat : (c + 1) - c <= (x + 1) - x
      OBVIOUS
    <3>3. count' - count <= Waiting' - Waiting
      BY <1>1, <2>2, <3>1, <3>2
    <3> QED BY <1>1, <2>2, <3>3, AwakeEnough
  <2> QED BY <1>4, <2>1, <2>2, PermitGiven DEF Waiting
<1>5. ASSUME NEW w \in Worker, NEW k \in {"asleep", "look", "run"},
             NEW l \in {"wait", "run", "done"}, k # l, pc[w] = k,
             pc' = [pc EXCEPT ![w] = l], UNCHANGED count
      PROVE  NoLostWakeup'
  <2>1. At("asleep")' \subseteq At("asleep")
    BY <1>5, Moved DEF Labels
  <2>2. Waiting' = Waiting \/ Waiting' = Waiting + 1
    BY <1>5, Moved DEF Labels, Waiting
  <2>3. \A c, x, y \in Nat : y = x \/ y = x + 1 => c - c <= y - x
    OBVIOUS
  <2>4. count' - count <= Waiting' - Waiting
    BY <1>1, <1>5, <2>2, <2>3
  <2> QED BY <1>1, <2>1, <2>4, AwakeEnough
<1>6. ASSUME NEW w \in Worker, SpuriousWake(w)
      PROVE  NoLostWakeup'
  BY <1>5, <1>6 DEF SpuriousWake
<1>7. ASSUME NEW w \in Worker, Look(w)
      PROVE  NoLostWakeup'
  <2>1. PICK l \in {"run", "done", "wait"} :
          pc' = [pc EXCEPT ![w] = l] /\ pc[w] = "look" /\ UNCHANGED count
    BY <1>7 DEF Look, Start
  <2> QED BY <1>5, <2>1
<1>8. ASSUME NEW w \in Worker, Finish(w)
      PROVE  NoLostWakeup'
  BY <1>5, <1>8 DEF Finish
<1>9. ASSUME NEW p \in Thread, NEW t \in Task, Push(p, t)
      PROVE  NoLostWakeup'
  BY <1>2, <1>9 DEF Push
<1>10. ASSUME NEW p \in Thread, Announce(p)
       PROVE  NoLostWakeup'
  BY <1>4, <1>10 DEF Announce
<1>11. CASE PostExit
  BY <1>4, <1>11 DEF PostExit
<1>12. CASE SetExit \/ StartJoin \/ Joined \/ UNCHANGED vars
  BY <1>2, <1>12 DEF SetExit, StartJoin, Joined, vars
<1> QED
  BY <1>3, <1>6, <1>7, <1>8, <1>9, <1>10, <1>11, <1>12
  DEF Next, WorkerStep, OwnerStep, Thread

(***************************************************************************)
(* While a worker sleeps, no permit is left without a worker awake for it. *)
(***************************************************************************)
THEOREM NoWakeupLost == Spec => []NoLostWakeup
<1> DEFINE Inv == TypeOK /\ NoLostWakeup
<1>1. Init => Inv
  BY TypesInit, WakeInit
<1>2. Inv /\ [Next]_vars => Inv'
  BY TypesStep, WakeStep
<1> QED BY <1>1, <1>2, PTL DEF Spec
=============================================================================
