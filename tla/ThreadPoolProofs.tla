--------------------------- MODULE ThreadPoolProofs ---------------------------
(***************************************************************************)
(* Proofs about module ThreadPool, for any number of workers, tasks and    *)
(* clients.                                                                *)
(***************************************************************************)
EXTENDS ThreadPool, FiniteSetTheorems, TLAPS

(***************************************************************************)
(* What pushing to either end of a sequence and popping its front do to    *)
(* its elements.                                                           *)
(***************************************************************************)

\* The elements of a sequence.
Elements(s) == {s[i] : i \in 1..Len(s)}

\* No element occurs twice.
Distinct(s) == \A i, j \in 1..Len(s) : s[i] = s[j] => i = j

(* Append adds one element, at the end.                                    *)
LEMMA AppendElements ==
    ASSUME NEW S, NEW s \in Seq(S), NEW e \in S
    PROVE  /\ Append(s, e) \in Seq(S) /\ Append(s, e) # <<>>
           /\ Len(Append(s, e)) = Len(s) + 1
           /\ \A i \in 1..Len(s) : Append(s, e)[i] = s[i]
           /\ Append(s, e)[Len(s) + 1] = e
           /\ Elements(Append(s, e)) = Elements(s) \cup {e}
           /\ Distinct(s) /\ e \notin Elements(s) => Distinct(Append(s, e))
<1> DEFINE q == Append(s, e)
<1>1. /\ q \in Seq(S) /\ q # <<>> /\ Len(q) = Len(s) + 1 /\ Len(s) \in Nat
      /\ \A i \in 1..Len(s) : q[i] = s[i]
      /\ q[Len(s) + 1] = e
  OBVIOUS
<1> HIDE DEF q
<1>2. 1..Len(q) = (1..Len(s)) \cup {Len(s) + 1}
  BY <1>1
<1>3. Elements(q) = Elements(s) \cup {e}
  BY <1>1, <1>2 DEF Elements
<1>4. Distinct(s) /\ e \notin Elements(s) => Distinct(q)
  BY <1>1, <1>2 DEF Distinct, Elements
<1> QED BY <1>1, <1>3, <1>4 DEF q

(* Pushing to the front adds one element and shifts the others.            *)
LEMMA ConsElements ==
    ASSUME NEW S, NEW s \in Seq(S), NEW e \in S
    PROVE  /\ <<e>> \o s \in Seq(S) /\ <<e>> \o s # <<>>
           /\ Len(<<e>> \o s) = Len(s) + 1
           /\ (<<e>> \o s)[1] = e
           /\ \A i \in 2..(Len(s) + 1) : (<<e>> \o s)[i] = s[i - 1]
           /\ Elements(<<e>> \o s) = Elements(s) \cup {e}
           /\ Distinct(s) /\ e \notin Elements(s) => Distinct(<<e>> \o s)
<1> DEFINE q == <<e>> \o s
<1>1. /\ q \in Seq(S) /\ q # <<>> /\ Len(q) = Len(s) + 1 /\ Len(s) \in Nat
      /\ q[1] = e
      /\ \A i \in 2..(Len(s) + 1) : q[i] = s[i - 1]
  OBVIOUS
<1> HIDE DEF q
<1>2. /\ 1..Len(q) = {1} \cup {i + 1 : i \in 1..Len(s)}
      /\ \A i \in 1..Len(s) : q[i + 1] = s[i]
  BY <1>1
<1>3. Elements(q) = Elements(s) \cup {e}
  <2>1. \A i \in 1..Len(q) : i = 1 \/ (i - 1 \in 1..Len(s) /\ q[i] = s[i - 1])
    BY <1>1
  <2>2. \A i \in 1..Len(s) : i + 1 \in 1..Len(q) /\ q[i + 1] = s[i]
    BY <1>1, <1>2
  <2>3. e \in Elements(q)
    BY <1>1 DEF Elements
  <2>4. Elements(s) \subseteq Elements(q)
    BY <2>2 DEF Elements
  <2>5. Elements(q) \subseteq Elements(s) \cup {e}
    BY <1>1, <2>1 DEF Elements
  <2> QED BY <2>3, <2>4, <2>5
<1>4. ASSUME Distinct(s), e \notin Elements(s), NEW i \in 1..Len(q), NEW j \in 1..Len(q),
             q[i] = q[j]
      PROVE  i = j
  <2>1. \A k \in 2..Len(q) : k - 1 \in 1..Len(s) /\ q[k] # e
    BY <1>1, <1>4 DEF Elements
  <2>2. CASE i = 1 \/ j = 1
    BY <1>1, <1>4, <2>1, <2>2
  <2>3. CASE i # 1 /\ j # 1
    <3>1. i - 1 = j - 1
      BY <1>1, <1>4, <2>1, <2>3 DEF Distinct
    <3> QED BY <3>1
  <2> QED BY <2>2, <2>3
<1> QED BY <1>1, <1>3, <1>4 DEF q, Distinct

(* Popping the front takes out its first element, and only that one when   *)
(* no element occurs twice.                                                *)
LEMMA TailElements ==
    ASSUME NEW S, NEW s \in Seq(S), s # <<>>
    PROVE  /\ Head(s) \in S /\ Head(s) = s[1] /\ Head(s) \in Elements(s)
           /\ Tail(s) \in Seq(S) /\ Len(Tail(s)) = Len(s) - 1
           /\ \A i \in 1..Len(Tail(s)) : i + 1 \in 1..Len(s) /\ Tail(s)[i] = s[i + 1]
           /\ Elements(s) = {Head(s)} \cup Elements(Tail(s))
           /\ Distinct(s) => Distinct(Tail(s)) /\ Head(s) \notin Elements(Tail(s))
<1> DEFINE q == Tail(s)
<1>1. /\ Len(s) \in Nat \ {0} /\ Head(s) \in S /\ Head(s) = s[1]
      /\ q \in Seq(S) /\ Len(q) = Len(s) - 1
      /\ \A i \in 1..Len(q) : q[i] = s[i + 1]
  OBVIOUS
<1> HIDE DEF q
<1>2. /\ 1 \in 1..Len(s)
      /\ \A i \in 1..Len(q) : i + 1 \in 1..Len(s)
      /\ \A i \in 1..Len(s) : i = 1 \/ (i - 1 \in 1..Len(q) /\ (i - 1) + 1 = i)
  BY <1>1
<1>3. Elements(s) = {Head(s)} \cup Elements(q) /\ Head(s) \in Elements(s)
  <2>1. \A i \in 1..Len(s) : i = 1 \/ (i - 1 \in 1..Len(q) /\ q[i - 1] = s[i])
    BY <1>1, <1>2
  <2>2. Head(s) \in Elements(s)
    BY <1>1 DEF Elements
  <2>3. Elements(q) \subseteq Elements(s)
    BY <1>1, <1>2 DEF Elements
  <2>4. Elements(s) \subseteq {Head(s)} \cup Elements(q)
    BY <1>1, <2>1 DEF Elements
  <2> QED BY <2>2, <2>3, <2>4
<1>4. ASSUME Distinct(s) PROVE Distinct(q) /\ Head(s) \notin Elements(q)
  <2>1. \A i \in 1..Len(q) : s[i + 1] # s[1]
    BY <1>1, <1>2, <1>4 DEF Distinct
  <2>2. ASSUME NEW i \in 1..Len(q), NEW j \in 1..Len(q), q[i] = q[j] PROVE i = j
    <3>1. i + 1 = j + 1
      BY <1>1, <1>2, <1>4, <2>2 DEF Distinct
    <3> QED BY <3>1
  <2> QED BY <1>1, <2>1, <2>2 DEF Distinct, Elements
<1> QED BY <1>1, <1>2, <1>3, <1>4 DEF q

(***************************************************************************)
(* Who holds the mutex, and what each worker has while it is where it is.  *)
(***************************************************************************)

LockInv == \A w \in Workers : wpc[w] \in Holding <=> mut = w

WorkerInv ==
    /\ \A w \in Workers : task[w] # NoTask <=> wpc[w] = "run"
    /\ \A w \in Workers : wpc[w] = "take" => task_deque # <<>>
    /\ \A w \in Workers : wpc[w] = "check" => task_deque # <<>> \/ done
    /\ \A w \in Workers : wpc[w] \notin {"unborn", "failed"} => w \in threads

OwnerInv ==
    /\ done <=> owner \in {"notify", "join", "gone"}
    /\ NoThreadOutlivesPool

\* Stamps count the pushes.
StampInv ==
    /\ IsFiniteSet(Pushed)
    /\ \A t \in Tasks : stamp[t] <= Cardinality(Pushed)
    /\ front \subseteq Pushed

ThreadInv == TPTypeOK /\ LockInv /\ WorkerInv /\ OwnerInv /\ StampInv

\* A push gives the task the largest stamp so far.
LEMMA PushStamps ==
    ASSUME TPTypeOK, StampInv, NEW t \in Tasks, stamp[t] = 0, stamp' = Stamped(t)
    PROVE  /\ stamp' \in [Tasks -> Nat]
           /\ stamp'[t] = Cardinality(Pushed) + 1
           /\ \A s \in Tasks : s # t => stamp'[s] = stamp[s]
           /\ t \notin Pushed
           /\ Pushed' = Pushed \cup {t}
           /\ IsFiniteSet(Pushed')
           /\ \A s \in Tasks : stamp'[s] <= Cardinality(Pushed')
<1>1. Cardinality(Pushed) \in Nat
  BY FS_CardinalityType DEF StampInv
<1>2. /\ stamp' \in [Tasks -> Nat]
      /\ stamp'[t] = Cardinality(Pushed) + 1
      /\ \A s \in Tasks : s # t => stamp'[s] = stamp[s]
  BY <1>1 DEF TPTypeOK, Stamped
<1>3. t \notin Pushed
  BY DEF Pushed
<1>4. Pushed' = Pushed \cup {t}
  BY <1>1, <1>2 DEF Pushed
<1>5. IsFiniteSet(Pushed') /\ Cardinality(Pushed') = Cardinality(Pushed) + 1
  BY <1>3, <1>4, FS_AddElement DEF StampInv
<1>6. \A s \in Tasks : stamp'[s] <= Cardinality(Pushed')
  <2> SUFFICES ASSUME NEW s \in Tasks PROVE stamp'[s] <= Cardinality(Pushed) + 1
    BY <1>5
  <2>1. stamp[s] \in Nat /\ stamp[s] <= Cardinality(Pushed)
    BY DEF TPTypeOK, StampInv
  <2> QED BY <1>1, <1>2, <2>1
<1> QED BY <1>2, <1>3, <1>4, <1>5, <1>6

LEMMA ThreadInit == TPInit => ThreadInv
<1> SUFFICES ASSUME TPInit PROVE ThreadInv
  OBVIOUS
<1>1. TPTypeOK
  <2>1. task_deque \in Seq(Tasks)
    BY DEF TPInit
  <2>2. mut \in Workers \cup {Nobody} /\ threads \subseteq Workers
    BY DEF TPInit
  <2> QED BY <2>1, <2>2 DEF TPInit, TPTypeOK, WorkerStates, OwnerStates
<1>2. LockInv /\ WorkerInv /\ OwnerInv
  BY ThreadPoolAssumption
  DEF TPInit, LockInv, WorkerInv, OwnerInv, Holding, NoThreadOutlivesPool
<1>3. Pushed = {}
  BY DEF TPInit, Pushed
<1>4. StampInv
  BY <1>3, FS_EmptySet DEF StampInv, TPInit
<1> QED BY <1>1, <1>2, <1>4 DEF ThreadInv

LEMMA ThreadStep == ThreadInv /\ [TPNext]_tpVars => ThreadInv'
<1> SUFFICES ASSUME ThreadInv, [TPNext]_tpVars PROVE ThreadInv'
  OBVIOUS
<1> USE ThreadPoolAssumption DEF ThreadInv, TPTypeOK, LockInv, WorkerInv, OwnerInv, Holding,
        WorkerStates, OwnerStates, ownerVars, clientVars, history, Goto, NoThreadOutlivesPool
\* Only a push disturbs the stamps.
<1>0. ASSUME UNCHANGED <<stamp, front>> PROVE StampInv'
  BY <1>0 DEF StampInv, Pushed
<1>1. ASSUME NEW w \in Workers, StartThread(w) PROVE ThreadInv'
  BY <1>0, <1>1 DEF StartThread
<1>2. ASSUME NEW w \in Workers, WorkerLoop(w) PROVE ThreadInv'
  BY <1>0, <1>2 DEF WorkerLoop
<1>3. ASSUME NEW w \in Workers, WorkerLock(w) PROVE ThreadInv'
  BY <1>0, <1>3 DEF WorkerLock
<1>4. ASSUME NEW w \in Workers, WorkerPred(w) PROVE ThreadInv'
  BY <1>0, <1>4 DEF WorkerPred
<1>5. ASSUME NEW w \in Workers, WorkerBlock(w) PROVE ThreadInv'
  BY <1>0, <1>5 DEF WorkerBlock
<1>6. ASSUME NEW w \in Workers, WorkerCheck(w) PROVE ThreadInv'
  BY <1>0, <1>6 DEF WorkerCheck
<1>7. ASSUME NEW w \in Workers, WorkerTake(w) PROVE ThreadInv'
  <2>1. /\ Head(task_deque) \in Tasks
        /\ Tail(task_deque) \in Seq(Tasks)
    BY <1>7, TailElements DEF WorkerTake
  <2> QED BY <1>0, <1>7, <2>1 DEF WorkerTake, pull_task
<1>8. ASSUME NEW w \in Workers, WorkerFinish(w) PROVE ThreadInv'
  BY <1>0, <1>8 DEF WorkerFinish
<1>9. ASSUME NEW w \in Workers, SpuriousWakeup(w) PROVE ThreadInv'
  BY <1>0, <1>9 DEF SpuriousWakeup
<1>10. ASSUME NEW c \in Clients, NEW t \in Tasks, push_task_back(c, t) PROVE ThreadInv'
  <2>1. /\ Append(task_deque, t) \in Seq(Tasks)
        /\ Append(task_deque, t) # <<>>
    BY AppendElements
  <2>2. stamp[t] = 0 /\ stamp' = Stamped(t)
    BY <1>10 DEF push_task_back, CanPush
  <2>3. stamp' \in [Tasks -> Nat]
    BY <2>2, PushStamps
  <2>4. StampInv'
    <3>1. /\ IsFiniteSet(Pushed')
          /\ \A s \in Tasks : stamp'[s] <= Cardinality(Pushed')
          /\ Pushed' = Pushed \cup {t}
      BY <2>2, PushStamps
    <3>2. front' \subseteq front \cup {t}
      BY <1>10 DEF push_task_back
    <3> QED BY <3>1, <3>2 DEF StampInv
  <2> QED BY <1>10, <2>1, <2>3, <2>4 DEF push_task_back, CanPush
<1>11. ASSUME NEW c \in Clients, NEW t \in Tasks, push_task_front(c, t) PROVE ThreadInv'
  <2>1. /\ <<t>> \o task_deque \in Seq(Tasks)
        /\ <<t>> \o task_deque # <<>>
    BY ConsElements
  <2>2. stamp[t] = 0 /\ stamp' = Stamped(t)
    BY <1>11 DEF push_task_front, CanPush
  <2>3. stamp' \in [Tasks -> Nat]
    BY <2>2, PushStamps
  <2>4. StampInv'
    <3>1. /\ IsFiniteSet(Pushed')
          /\ \A s \in Tasks : stamp'[s] <= Cardinality(Pushed')
          /\ Pushed' = Pushed \cup {t}
      BY <2>2, PushStamps
    <3>2. front' \subseteq front \cup {t}
      BY <1>11 DEF push_task_front
    <3> QED BY <3>1, <3>2 DEF StampInv
  <2> QED BY <1>11, <2>1, <2>3, <2>4 DEF push_task_front, CanPush
<1>12. ASSUME NEW c \in Clients, NotifyOne(c) PROVE ThreadInv'
  BY <1>0, <1>12 DEF NotifyOne, Blocked
<1>13. CASE Constructed
  BY <1>0, <1>13 DEF Constructed
<1>14. CASE SetDone
  BY <1>0, <1>14 DEF SetDone
<1>15. CASE NotifyAll
  BY <1>0, <1>15 DEF NotifyAll, Blocked
<1>16. CASE JoinAll
  <2>1. \A w \in Workers : wpc[w] \notin {"take", "check"}
    BY <1>16 DEF JoinAll
  <2>2. Queued \subseteq Tasks
    BY DEF Queued
  <2> QED BY <1>0, <1>16, <2>1, <2>2 DEF JoinAll
<1>17. CASE UNCHANGED tpVars
  BY <1>0, <1>17 DEF tpVars
<1> QED
  BY <1>1, <1>2, <1>3, <1>4, <1>5, <1>6, <1>7, <1>8, <1>9, <1>10, <1>11, <1>12, <1>13,
     <1>14, <1>15, <1>16, <1>17 DEF TPNext, WorkerStep, Gone

(* The invariant of the control holds.                                     *)
LEMMA ThreadInvariant == TPSpec => []ThreadInv
BY ThreadInit, ThreadStep, PTL DEF TPSpec

(* Every variable keeps its type, in particular a worker pulls from a      *)
(* deque that is not empty.                                                *)
THEOREM ThreadPoolTypes == TPSpec => []TPTypeOK
BY ThreadInvariant, PTL DEF ThreadInv

(* When ~thread_pool has returned, no thread of the pool runs.             *)
THEOREM ThreadsJoined == TPSpec => []NoThreadOutlivesPool
BY ThreadInvariant, PTL DEF ThreadInv, OwnerInv

-------------------------------------------------------------------------------
(***************************************************************************)
(* Destruction.                                                            *)
(***************************************************************************)

(* At most one task starts after done was set: a worker is at "take" then  *)
(* only if it had passed its test before, and it holds the mutex.          *)
LateInv == late = 0 \/ (late = 1 /\ done /\ \A w \in Workers : wpc[w] # "take")

LEMMA LateStep == ThreadInv /\ LateInv /\ [TPNext]_tpVars => LateInv'
<1> SUFFICES ASSUME ThreadInv, LateInv, [TPNext]_tpVars PROVE LateInv'
  OBVIOUS
<1> USE DEF ThreadInv, TPTypeOK, LockInv, OwnerInv, LateInv, Holding, ownerVars, clientVars,
        history, Goto
<1>1. ASSUME NEW w \in Workers, WorkerTake(w) PROVE LateInv'
  <2>1. late = 0
    BY <1>1 DEF WorkerTake
  <2>2. \A v \in Workers : wpc'[v] # "take"
    BY <1>1 DEF WorkerTake
  <2> QED BY <1>1, <2>1, <2>2 DEF WorkerTake
<1>2. ASSUME NEW w \in Workers, WorkerCheck(w) PROVE LateInv'
  BY <1>2 DEF WorkerCheck
<1>3. ASSUME NEW w \in Workers,
             \/ StartThread(w) \/ WorkerLoop(w) \/ WorkerLock(w) \/ WorkerPred(w)
             \/ WorkerBlock(w) \/ WorkerFinish(w) \/ SpuriousWakeup(w)
      PROVE LateInv'
  BY <1>3 DEF StartThread, WorkerLoop, WorkerLock, WorkerPred, WorkerBlock, WorkerFinish,
              SpuriousWakeup
<1>4. ASSUME NEW c \in Clients, NEW t \in Tasks, push_task_back(c, t) \/ push_task_front(c, t)
      PROVE LateInv'
  BY <1>4 DEF push_task_back, push_task_front
<1>5. ASSUME NEW c \in Clients, NotifyOne(c) PROVE LateInv'
  BY <1>5 DEF NotifyOne, Blocked
<1>6. CASE Constructed \/ SetDone \/ NotifyAll \/ JoinAll \/ UNCHANGED tpVars
  BY <1>6 DEF Constructed, SetDone, NotifyAll, Blocked, JoinAll, tpVars
<1> QED BY <1>1, <1>2, <1>3, <1>4, <1>5, <1>6 DEF TPNext, WorkerStep, Gone

(* Once the destructor has set done, at most one more task is pulled.      *)
THEOREM OneLateTask == TPSpec => []AtMostOneLateTask
<1>1. TPInit => LateInv
  BY DEF TPInit, LateInv
<1>2. LateInv => AtMostOneLateTask
  BY DEF LateInv, AtMostOneLateTask
<1> QED BY <1>1, <1>2, LateStep, ThreadInvariant, PTL DEF TPSpec

(* After notify_all a worker sleeps only if it was on its way to sleep,    *)
(* and the mutex lets one worker at a time be there.                       *)
SleepInv ==
    owner = "join" =>
        \A v, w \in Workers :
            wpc[v] \in {"block", "blocked"} /\ wpc[w] \in {"block", "blocked"} => v = w

LEMMA SleepStep == ThreadInv /\ SleepInv /\ [TPNext]_tpVars => SleepInv'
<1> SUFFICES ASSUME ThreadInv, SleepInv, [TPNext]_tpVars PROVE SleepInv'
  OBVIOUS
<1> USE DEF ThreadInv, TPTypeOK, LockInv, OwnerInv, SleepInv, Holding, ownerVars, clientVars,
        history, Goto
<1>1. ASSUME NEW w \in Workers, WorkerPred(w) PROVE SleepInv'
  BY <1>1 DEF WorkerPred
<1>2. ASSUME NEW w \in Workers, WorkerBlock(w) PROVE SleepInv'
  BY <1>2 DEF WorkerBlock
<1>3. ASSUME NEW w \in Workers,
             \/ StartThread(w) \/ WorkerLoop(w) \/ WorkerLock(w) \/ WorkerTake(w)
             \/ WorkerCheck(w) \/ WorkerFinish(w) \/ SpuriousWakeup(w)
      PROVE SleepInv'
  BY <1>3 DEF StartThread, WorkerLoop, WorkerLock, WorkerTake, WorkerCheck, WorkerFinish,
              SpuriousWakeup
<1>4. ASSUME NEW c \in Clients, NEW t \in Tasks, push_task_back(c, t) \/ push_task_front(c, t)
      PROVE SleepInv'
  BY <1>4 DEF push_task_back, push_task_front
<1>5. ASSUME NEW c \in Clients, NotifyOne(c) PROVE SleepInv'
  BY <1>5 DEF NotifyOne, Blocked
<1>6. CASE NotifyAll
  <2>1. \A w \in Workers : wpc'[w] # "blocked" /\ (wpc'[w] = "block" => wpc[w] = "block")
    BY <1>6 DEF NotifyAll, Blocked
  <2>2. \A v, w \in Workers : wpc[v] = "block" /\ wpc[w] = "block" => v = w
    OBVIOUS
  <2> QED BY <2>1, <2>2
<1>7. CASE Constructed \/ SetDone \/ JoinAll \/ UNCHANGED tpVars
  BY <1>7 DEF Constructed, SetDone, JoinAll, tpVars
<1> QED BY <1>1, <1>2, <1>3, <1>4, <1>5, <1>6, <1>7 DEF TPNext, WorkerStep, Gone

(* notify_all leaves at most one worker asleep for the destructor to wait  *)
(* for.                                                                    *)
THEOREM OneSleeper == TPSpec => []AtMostOneSleeper
<1>1. TPInit => SleepInv
  BY DEF TPInit, SleepInv
<1>2. ASSUME SleepInv PROVE AtMostOneSleeper
  <2> DEFINE S == {w \in Workers : wpc[w] \in {"block", "blocked"}}
  <2> SUFFICES ASSUME owner = "join" PROVE Cardinality(S) <= 1
    BY DEF AtMostOneSleeper
  <2>1. CASE S = {}
    BY <2>1, FS_EmptySet
  <2>2. CASE S # {}
    <3>1. PICK w \in S : TRUE
      BY <2>2
    <3>2. S = {w}
      BY <1>2, <3>1 DEF SleepInv
    <3> HIDE DEF S
    <3>3. Cardinality({w}) = 1
      BY FS_Singleton
    <3> QED BY <3>2, <3>3
  <2> QED BY <2>1, <2>2
<1> QED BY <1>1, <1>2, SleepStep, ThreadInvariant, PTL DEF TPSpec

-------------------------------------------------------------------------------
(***************************************************************************)
(* Wakeups.                                                                *)
(***************************************************************************)

Notifying == {c \in Clients : cpc[c] = "notify"}

\* A worker on its way to sleep found the deque empty and still holds the
\* mutex; as many threads were started and clients notify as can be counted.
DrowsyInv ==
    /\ \A w \in Workers : wpc[w] = "block" => task_deque = <<>>
    /\ IsFiniteSet(threads)
    /\ IsFiniteSet(Notifying)

LEMMA DrowsyStep == ThreadInv /\ DrowsyInv /\ [TPNext]_tpVars => DrowsyInv'
<1> SUFFICES ASSUME ThreadInv, DrowsyInv, [TPNext]_tpVars PROVE DrowsyInv'
  OBVIOUS
<1> USE ThreadPoolAssumption DEF ThreadInv, TPTypeOK, LockInv, Holding, ownerVars, clientVars,
        history, Goto
<1>1. ASSUME NEW w \in Workers, StartThread(w) PROVE DrowsyInv'
  <2>1. \A v \in Workers : wpc'[v] = "block" => wpc[v] = "block"
    BY <1>1 DEF StartThread
  <2>2. IsFiniteSet(threads \cup {w})
    BY FS_AddElement DEF DrowsyInv
  <2> QED BY <1>1, <2>1, <2>2 DEF StartThread, DrowsyInv, Notifying
<1>2. ASSUME NEW w \in Workers,
             \/ WorkerLoop(w) \/ WorkerLock(w) \/ WorkerPred(w) \/ WorkerBlock(w)
             \/ WorkerCheck(w) \/ WorkerFinish(w) \/ SpuriousWakeup(w)
      PROVE DrowsyInv'
  <2>1. \A v \in Workers : wpc'[v] = "block" => task_deque' = <<>>
    BY <1>2 DEF DrowsyInv, WorkerLoop, WorkerLock, WorkerPred, WorkerBlock, WorkerCheck,
                WorkerFinish, SpuriousWakeup
  <2>2. UNCHANGED <<threads, cpc>>
    BY <1>2 DEF WorkerLoop, WorkerLock, WorkerPred, WorkerBlock, WorkerCheck, WorkerFinish,
                SpuriousWakeup
  <2> QED BY <2>1, <2>2 DEF DrowsyInv, Notifying
<1>3. ASSUME NEW w \in Workers, WorkerTake(w) PROVE DrowsyInv'
  <2>1. \A v \in Workers : wpc'[v] # "block"
    BY <1>3 DEF WorkerTake
  <2> QED BY <1>3, <2>1 DEF WorkerTake, DrowsyInv, Notifying
<1>4. ASSUME NEW c \in Clients, NEW t \in Tasks, push_task_back(c, t) \/ push_task_front(c, t)
      PROVE DrowsyInv'
  <2>1. \A v \in Workers : wpc'[v] # "block"
    BY <1>4 DEF push_task_back, push_task_front, CanPush
  <2>2. Notifying' = Notifying \cup {c} /\ threads' = threads
    BY <1>4 DEF push_task_back, push_task_front, Notifying
  <2>3. IsFiniteSet(Notifying')
    BY <2>2, FS_AddElement DEF DrowsyInv
  <2> QED BY <2>1, <2>2, <2>3 DEF DrowsyInv
<1>5. ASSUME NEW c \in Clients, NotifyOne(c) PROVE DrowsyInv'
  <2>1. \A v \in Workers : wpc'[v] = "block" => wpc[v] = "block"
    BY <1>5 DEF NotifyOne, Blocked
  <2>2. Notifying' \subseteq Notifying /\ UNCHANGED <<threads, task_deque>>
    BY <1>5 DEF NotifyOne, Notifying
  <2>3. IsFiniteSet(Notifying')
    BY <2>2, FS_Subset DEF DrowsyInv
  <2> QED BY <2>1, <2>2, <2>3 DEF DrowsyInv
<1>6. CASE NotifyAll
  <2>1. \A v \in Workers : wpc'[v] = "block" => wpc[v] = "block"
    BY <1>6 DEF NotifyAll, Blocked
  <2> QED BY <1>6, <2>1 DEF NotifyAll, DrowsyInv, Notifying
<1>7. CASE Constructed \/ SetDone \/ JoinAll \/ UNCHANGED tpVars
  BY <1>7 DEF Constructed, SetDone, JoinAll, tpVars, DrowsyInv, Notifying
<1> QED BY <1>1, <1>2, <1>3, <1>4, <1>5, <1>6, <1>7 DEF TPNext, WorkerStep, Gone

\* What is compared are numbers.
Counted ==
    /\ IsFiniteSet(Awake) /\ Cardinality(Awake) \in Nat
    /\ IsFiniteSet(Notifying) /\ Cardinality(Notifying) \in Nat
    /\ Len(task_deque) \in Nat

LEMMA AwakeCounted == ThreadInv /\ DrowsyInv => Counted
<1> SUFFICES ASSUME ThreadInv, DrowsyInv PROVE Counted
  OBVIOUS
<1>1. Awake \in SUBSET threads
  BY DEF Awake, ThreadInv, WorkerInv
<1>2. IsFiniteSet(Awake)
  BY <1>1, FS_Subset DEF DrowsyInv
<1>3. Len(task_deque) \in Nat
  BY DEF ThreadInv, TPTypeOK
<1> QED BY <1>2, <1>3, FS_CardinalityType DEF DrowsyInv, Counted

LEMMA SleepThroughStep ==
    /\ ThreadInv /\ DrowsyInv /\ Counted /\ ThreadInv' /\ Counted'
    /\ NoTaskSleptThrough
    /\ [TPNext]_tpVars
    => NoTaskSleptThrough'
<1> DEFINE Promised == Len(task_deque) <= Cardinality(Awake) + Cardinality(Notifying)
<1> SUFFICES ASSUME ThreadInv, DrowsyInv, Counted, ThreadInv', Counted', NoTaskSleptThrough,
                    [TPNext]_tpVars, ~done', Blocked' # {}
             PROVE  Promised'
  BY DEF NoTaskSleptThrough, Notifying
<1> USE DEF ownerVars, clientVars, history, Goto
<1>1. ~done
  BY DEF ThreadInv, OwnerInv, TPTypeOK, TPNext, WorkerStep, Gone, StartThread, WorkerLoop, WorkerLock,
         WorkerPred, WorkerBlock, WorkerCheck, WorkerTake, WorkerFinish, SpuriousWakeup,
         push_task_back, push_task_front, NotifyOne, Constructed, SetDone, NotifyAll, JoinAll,
         tpVars
<1>2. Blocked # {} => Promised
  BY <1>1 DEF NoTaskSleptThrough, Notifying
\* A step that puts nobody to sleep and leaves the deque and the clients alone.
<1>3. ASSUME Awake \subseteq Awake', Blocked' \subseteq Blocked,
             UNCHANGED <<task_deque, cpc>>
      PROVE  Promised'
  <2>1. Promised
    BY <1>2, <1>3
  <2>2. Notifying' = Notifying
    BY <1>3 DEF Notifying
  <2>3. Cardinality(Awake) <= Cardinality(Awake')
    BY <1>3, FS_Subset DEF Counted
  <2> QED BY <1>3, <2>1, <2>2, <2>3 DEF Counted
<1>4. ASSUME task_deque = <<>>, task_deque' = <<>> PROVE Promised'
  <2>1. Len(task_deque') = 0
    BY <1>4
  <2> QED BY <2>1 DEF Counted
<1>5. ASSUME NEW w \in Workers,
             \/ StartThread(w) \/ WorkerLoop(w) \/ WorkerLock(w)
             \/ WorkerCheck(w) \/ WorkerFinish(w) \/ SpuriousWakeup(w)
      PROVE  Promised'
  <2>1. UNCHANGED <<task_deque, cpc>>
    BY <1>5 DEF StartThread, WorkerLoop, WorkerLock, WorkerCheck, WorkerFinish, SpuriousWakeup
  <2>2. Awake \subseteq Awake' /\ Blocked' \subseteq Blocked
    BY <1>1, <1>5 DEF ThreadInv, TPTypeOK, Awake, Blocked, StartThread, WorkerLoop, WorkerLock,
                      WorkerCheck, WorkerFinish, SpuriousWakeup
  <2> QED BY <1>3, <2>1, <2>2
<1>6. ASSUME NEW w \in Workers, WorkerPred(w) PROVE Promised'
  <2>1. CASE task_deque = <<>>
    BY <1>4, <1>6, <2>1 DEF WorkerPred
  <2>2. CASE task_deque # <<>>
    <3>1. Awake \subseteq Awake' /\ Blocked' \subseteq Blocked
      BY <1>6, <2>2 DEF ThreadInv, TPTypeOK, Awake, Blocked, WorkerPred
    <3> QED BY <1>3, <1>6, <3>1 DEF WorkerPred
  <2> QED BY <2>1, <2>2
<1>7. ASSUME NEW w \in Workers, WorkerBlock(w) PROVE Promised'
  BY <1>4, <1>7 DEF WorkerBlock, DrowsyInv
\* One task and one worker less.
<1>8. ASSUME NEW w \in Workers, WorkerTake(w) PROVE Promised'
  <2>1. /\ w \in Awake
        /\ Awake' = Awake \ {w}
        /\ Blocked' = Blocked
    BY <1>8 DEF ThreadInv, TPTypeOK, Awake, Blocked, WorkerTake
  <2>2. Cardinality(Awake') = Cardinality(Awake) - 1
    BY <2>1, FS_RemoveElement DEF Counted
  <2>3. Len(task_deque') = Len(task_deque) - 1
    BY <1>8, TailElements DEF ThreadInv, TPTypeOK, WorkerInv, WorkerTake, pull_task
  <2>4. Notifying' = Notifying
    BY <1>8 DEF WorkerTake, Notifying
  <2> QED BY <1>2, <2>1, <2>2, <2>3, <2>4 DEF Counted
\* One task and one notification more.
<1>9. ASSUME NEW c \in Clients, NEW t \in Tasks, push_task_back(c, t) \/ push_task_front(c, t)
      PROVE  Promised'
  <2>1. c \notin Notifying /\ Notifying' = Notifying \cup {c}
    BY <1>9 DEF ThreadInv, TPTypeOK, push_task_back, push_task_front, CanPush, Notifying
  <2>2. Cardinality(Notifying') = Cardinality(Notifying) + 1
    BY <2>1, FS_AddElement DEF Counted
  <2>3. Len(task_deque') = Len(task_deque) + 1
    BY <1>9, AppendElements, ConsElements DEF ThreadInv, TPTypeOK, push_task_back, push_task_front
  <2>4. Awake' = Awake /\ Blocked' = Blocked
    BY <1>9 DEF push_task_back, push_task_front, Awake, Blocked
  <2> QED BY <1>2, <2>2, <2>3, <2>4 DEF Counted
\* The notification becomes a worker that looks at the deque.
<1>10. ASSUME NEW c \in Clients, NotifyOne(c) PROVE Promised'
  <2>1. PICK w \in Blocked : wpc' = [wpc EXCEPT ![w] = "lock"]
    BY <1>10 DEF NotifyOne, Blocked
  <2>2. w \notin Awake /\ Awake' = Awake \cup {w}
    BY <2>1 DEF ThreadInv, TPTypeOK, Awake, Blocked
  <2>3. Cardinality(Awake') = Cardinality(Awake) + 1
    BY <2>2, FS_AddElement DEF Counted
  <2>4. c \in Notifying /\ Notifying' = Notifying \ {c}
    BY <1>10 DEF ThreadInv, TPTypeOK, NotifyOne, Notifying
  <2>5. Cardinality(Notifying') = Cardinality(Notifying) - 1
    BY <2>4, FS_RemoveElement DEF Counted
  <2>6. task_deque' = task_deque
    BY <1>10 DEF NotifyOne
  <2> QED BY <1>2, <2>1, <2>3, <2>5, <2>6 DEF Counted
<1>11. CASE Constructed \/ UNCHANGED tpVars
  <2>1. UNCHANGED <<wpc, task_deque, cpc>>
    BY <1>11 DEF Constructed, tpVars
  <2> QED BY <1>3, <2>1 DEF Awake, Blocked
<1>12. ~SetDone /\ ~NotifyAll /\ ~JoinAll
  BY <1>1 DEF ThreadInv, OwnerInv, SetDone, NotifyAll, JoinAll
<1> QED BY <1>5, <1>6, <1>7, <1>8, <1>9, <1>10, <1>11, <1>12 DEF TPNext, WorkerStep, Gone

(* No push is slept through: while the pool lives, as many notifications   *)
(* are under way and workers about to look at the deque as tasks wait.     *)
THEOREM NoLostWakeup == TPSpec => []NoTaskSleptThrough
<1>1. TPInit => DrowsyInv /\ NoTaskSleptThrough
  <2> SUFFICES ASSUME TPInit PROVE DrowsyInv /\ NoTaskSleptThrough
    OBVIOUS
  <2>1. Notifying = {} /\ threads = {} /\ Blocked = {}
    BY DEF TPInit, Notifying, Blocked
  <2> QED BY <2>1, FS_EmptySet DEF TPInit, DrowsyInv, NoTaskSleptThrough
<1> QED BY <1>1, DrowsyStep, AwakeCounted, SleepThroughStep, ThreadInvariant, PTL DEF TPSpec

-------------------------------------------------------------------------------
(***************************************************************************)
(* The tasks.                                                              *)
(***************************************************************************)

\* A worker that pulls adds its task to those that run.
LEMMA RunningGrows ==
    ASSUME ThreadInv, NEW w \in Workers, WorkerTake(w)
    PROVE  /\ task_deque # <<>>
           /\ Running' = Running \cup {Head(task_deque)}
           /\ task'[w] = Head(task_deque)
           /\ \A v \in Workers : v # w => task'[v] = task[v]
<1>1. task_deque # <<>> /\ task[w] = NoTask /\ Head(task_deque) # NoTask
  BY TailElements, ThreadPoolAssumption DEF ThreadInv, TPTypeOK, WorkerInv, WorkerTake
<1>2. /\ task'[w] = Head(task_deque)
      /\ \A v \in Workers : v # w => task'[v] = task[v]
  BY DEF ThreadInv, TPTypeOK, WorkerTake, pull_task
<1>3. Running' = Running \cup {Head(task_deque)}
  BY <1>1, <1>2 DEF Running
<1> QED BY <1>1, <1>2, <1>3

\* A worker that finishes takes its task out of those that run.
LEMMA RunningShrinks ==
    ASSUME ThreadInv, TaskConservation, NEW w \in Workers, WorkerFinish(w)
    PROVE  /\ task[w] \in Running
           /\ Running' = Running \ {task[w]}
           /\ task'[w] = NoTask
           /\ \A v \in Workers : v # w => task'[v] = task[v]
<1>1. task[w] # NoTask
  BY DEF ThreadInv, WorkerInv, WorkerFinish
<1>2. /\ task'[w] = NoTask
      /\ \A v \in Workers : v # w => task'[v] = task[v]
  BY DEF ThreadInv, TPTypeOK, WorkerFinish
<1>3. \A v \in Workers : v # w => task[v] # task[w]
  BY <1>1 DEF TaskConservation
<1>4. Running' = Running \ {task[w]}
  BY <1>1, <1>2, <1>3 DEF Running
<1> QED BY <1>1, <1>2, <1>4 DEF Running

LEMMA ConservationStep == ThreadInv /\ TaskConservation /\ [TPNext]_tpVars => TaskConservation'
<1> SUFFICES ASSUME ThreadInv, TaskConservation, [TPNext]_tpVars PROVE TaskConservation'
  OBVIOUS
<1> USE DEF ownerVars, clientVars, history
<1>1. ASSUME UNCHANGED <<task_deque, task, stamp, completed, dropped>>
      PROVE  TaskConservation'
  BY <1>1 DEF TaskConservation, Pushed, Queued, Running
<1>2. ASSUME NEW w \in Workers, WorkerTake(w) PROVE TaskConservation'
  <2> DEFINE h == Head(task_deque)
  <2>1. /\ task_deque # <<>>
        /\ Running' = Running \cup {h}
        /\ task'[w] = h
        /\ \A v \in Workers : v # w => task'[v] = task[v]
    BY <1>2, RunningGrows
  <2>2. task_deque' = Tail(task_deque)
    BY <1>2 DEF WorkerTake, pull_task
  <2>3. Distinct(task_deque)
    BY DEF TaskConservation, Distinct
  <2>4. /\ Queued = {h} \cup Queued'
        /\ h \notin Queued'
        /\ Distinct(task_deque')
    <3>1. task_deque \in Seq(Tasks)
      BY DEF ThreadInv, TPTypeOK
    <3>2. Queued = Elements(task_deque) /\ Queued' = Elements(task_deque')
      BY DEF Queued, Elements
    <3> QED BY <2>1, <2>2, <2>3, <3>1, <3>2, TailElements
  <2>5. UNCHANGED <<Pushed, completed, dropped>>
    BY <1>2 DEF WorkerTake, Pushed
  <2>6. \A v \in Workers : v # w => task[v] # h
    <3> SUFFICES ASSUME NEW v \in Workers, task[v] = h PROVE FALSE
      OBVIOUS
    <3>1. h \in Tasks
      BY <2>1, TailElements DEF ThreadInv, TPTypeOK
    <3>2. h \in Running
      BY <3>1, ThreadPoolAssumption DEF Running
    <3> QED BY <2>4, <3>2 DEF TaskConservation
  <2>7. \A u, v \in Workers : task'[u] = task'[v] /\ task'[u] # NoTask => u = v
    BY <2>1, <2>6 DEF TaskConservation
  <2> HIDE DEF h
  <2> QED BY <2>1, <2>4, <2>5, <2>7 DEF TaskConservation, Distinct
<1>3. ASSUME NEW w \in Workers, WorkerFinish(w) PROVE TaskConservation'
  <2>1. /\ task[w] \in Running
        /\ Running' = Running \ {task[w]}
        /\ task'[w] = NoTask
        /\ \A v \in Workers : v # w => task'[v] = task[v]
    BY <1>3, RunningShrinks
  <2>2. /\ UNCHANGED <<task_deque, Pushed, Queued, dropped>>
        /\ completed' = completed \cup {task[w]}
    BY <1>3 DEF WorkerFinish, Pushed, Queued
  <2> QED BY <2>1, <2>2 DEF TaskConservation
<1>4. ASSUME NEW t \in Tasks, stamp[t] = 0, stamp' = Stamped(t),
             task_deque' \in {Append(task_deque, t), <<t>> \o task_deque},
             UNCHANGED <<task, completed, dropped>>
      PROVE  TaskConservation'
  <2>1. t \notin Pushed /\ Pushed' = Pushed \cup {t}
    BY <1>4, PushStamps DEF ThreadInv
  <2>2. t \notin Elements(task_deque) /\ Distinct(task_deque)
    BY <2>1 DEF TaskConservation, Distinct, Queued, Elements
  <2>3. Queued' = Queued \cup {t} /\ Distinct(task_deque')
    <3>1. task_deque \in Seq(Tasks)
      BY DEF ThreadInv, TPTypeOK
    <3>2. Queued = Elements(task_deque) /\ Queued' = Elements(task_deque')
      BY DEF Queued, Elements
    <3>3. CASE task_deque' = Append(task_deque, t)
      BY <2>2, <3>1, <3>2, <3>3, AppendElements
    <3>4. CASE task_deque' = <<t>> \o task_deque
      BY <2>2, <3>1, <3>2, <3>4, ConsElements
    <3> QED BY <1>4, <3>3, <3>4
  <2>4. UNCHANGED Running
    BY <1>4 DEF Running
  <2> QED BY <1>4, <2>1, <2>3, <2>4 DEF TaskConservation, Distinct
<1>5. ASSUME NEW c \in Clients, NEW t \in Tasks, push_task_back(c, t) \/ push_task_front(c, t)
      PROVE TaskConservation'
  BY <1>4, <1>5 DEF push_task_back, push_task_front, CanPush
<1>6. CASE JoinAll
  <2>1. UNCHANGED <<Pushed, Running, task, completed>>
    BY <1>6 DEF JoinAll, Pushed, Running
  <2>2. task_deque' = <<>> /\ dropped' = dropped \cup Queued
    BY <1>6 DEF JoinAll
  <2>3. Queued' = {}
    BY <2>2 DEF Queued
  <2> QED BY <2>1, <2>2, <2>3 DEF TaskConservation
<1>7. ASSUME NEW w \in Workers,
             \/ StartThread(w) \/ WorkerLoop(w) \/ WorkerLock(w) \/ WorkerPred(w)
             \/ WorkerBlock(w) \/ WorkerCheck(w) \/ SpuriousWakeup(w)
      PROVE TaskConservation'
  BY <1>1, <1>7 DEF StartThread, WorkerLoop, WorkerLock, WorkerPred, WorkerBlock,
                    WorkerCheck, SpuriousWakeup
<1>8. ASSUME NEW c \in Clients, NotifyOne(c) PROVE TaskConservation'
  BY <1>1, <1>8 DEF NotifyOne
<1>9. CASE Constructed \/ SetDone \/ NotifyAll \/ UNCHANGED tpVars
  BY <1>1, <1>9 DEF Constructed, SetDone, NotifyAll, tpVars
<1> QED BY <1>2, <1>3, <1>5, <1>6, <1>7, <1>8, <1>9 DEF TPNext, WorkerStep, Gone

LEMMA ConservationInit == TPInit => TaskConservation
<1> SUFFICES ASSUME TPInit PROVE TaskConservation
  OBVIOUS
<1>1. Pushed = {} /\ Queued = {} /\ Running = {}
  BY DEF TPInit, Pushed, Queued, Running
<1> QED BY <1>1 DEF TPInit, TaskConservation

(* No task is lost, none is run twice.                                     *)
THEOREM TasksConserved == TPSpec => []TaskConservation
BY ConservationInit, ConservationStep, ThreadInvariant, PTL DEF TPSpec

-------------------------------------------------------------------------------
(***************************************************************************)
(* The order of service.                                                   *)
(***************************************************************************)

LEMMA OrderStep ==
    ThreadInv /\ TaskConservation /\ ServiceOrder /\ [TPNext]_tpVars => ServiceOrder'
<1> SUFFICES ASSUME ThreadInv, TaskConservation, ServiceOrder, [TPNext]_tpVars
             PROVE  ServiceOrder'
  OBVIOUS
<1> USE DEF ownerVars, clientVars, history
<1>1. ASSUME UNCHANGED <<task_deque, stamp, front>> PROVE ServiceOrder'
  BY <1>1 DEF ServiceOrder, Precedes
\* The tasks of the deque keep their order among themselves when t is pushed.
<1>2. ASSUME NEW t \in Tasks, stamp[t] = 0, stamp' = Stamped(t),
             front' = front \/ front' = front \cup {t}
      PROVE  /\ t \notin Queued
             /\ t \notin front
             /\ \A s \in Queued : s \in Tasks /\ stamp[s] < stamp'[t] /\ stamp'[s] = stamp[s]
             /\ \A r, s \in Queued : Precedes(r, s) => Precedes(r, s)'
  <2>1. t \notin Pushed /\ stamp'[t] = Cardinality(Pushed) + 1
    BY <1>2, PushStamps DEF ThreadInv
  <2>2. Queued \subseteq Pushed /\ Queued \subseteq Tasks
    BY DEF TaskConservation, Pushed
  <2>3. \A s \in Tasks : s # t => stamp'[s] = stamp[s]
    BY <1>2, PushStamps DEF ThreadInv
  <2>4. \A s \in Queued : stamp[s] \in Nat /\ stamp[s] <= Cardinality(Pushed)
    BY <2>2 DEF ThreadInv, StampInv, TPTypeOK
  <2>5. Cardinality(Pushed) \in Nat
    BY FS_CardinalityType DEF ThreadInv, StampInv
  <2>6. t \notin Queued /\ t \notin front
    BY <2>1, <2>2 DEF ThreadInv, StampInv
  <2>7. \A s \in Queued : s \in Tasks /\ stamp[s] < stamp'[t] /\ stamp'[s] = stamp[s]
    BY <2>1, <2>2, <2>3, <2>4, <2>5, <2>6
  <2>8. \A r, s \in Queued : Precedes(r, s) => Precedes(r, s)'
    BY <1>2, <2>6, <2>7 DEF Precedes
  <2> QED BY <2>6, <2>7, <2>8
<1>3. ASSUME NEW c \in Clients, NEW t \in Tasks, push_task_back(c, t) PROVE ServiceOrder'
  <2>1. /\ stamp[t] = 0
        /\ stamp' = Stamped(t)
        /\ front' = front
        /\ task_deque' = Append(task_deque, t)
    BY <1>3 DEF push_task_back, CanPush
  <2>2. /\ Len(task_deque') = Len(task_deque) + 1
        /\ \A i \in 1..Len(task_deque) : task_deque'[i] = task_deque[i]
        /\ task_deque'[Len(task_deque) + 1] = t
        /\ Len(task_deque) \in Nat
    BY <2>1, AppendElements DEF ThreadInv, TPTypeOK
  <2>3. \A s \in Queued : Precedes(s, t)'
    BY <1>2, <2>1 DEF Precedes
  <2> SUFFICES ASSUME NEW i \in 1..(Len(task_deque) + 1), NEW j \in 1..(Len(task_deque) + 1),
                      i < j
               PROVE  Precedes(task_deque[i], task_deque[j])'
    BY <2>2 DEF ServiceOrder
  <2>4. i \in 1..Len(task_deque) /\ task_deque[i] \in Queued
    BY <2>2 DEF Queued
  <2>5. CASE j = Len(task_deque) + 1
    BY <2>2, <2>3, <2>4, <2>5
  <2>6. CASE j \in 1..Len(task_deque)
    <3>1. Precedes(task_deque[i], task_deque[j]) /\ task_deque[j] \in Queued
      BY <2>4, <2>6 DEF ServiceOrder, Queued
    <3>2. \A r, s \in Queued : Precedes(r, s) => Precedes(r, s)'
      BY <1>2, <2>1
    <3>3. task_deque'[i] = task_deque[i] /\ task_deque'[j] = task_deque[j]
      BY <2>2, <2>4, <2>6
    <3> QED BY <2>4, <3>1, <3>2, <3>3 DEF Precedes
  <2> QED BY <2>2, <2>5, <2>6
<1>4. ASSUME NEW c \in Clients, NEW t \in Tasks, push_task_front(c, t) PROVE ServiceOrder'
  <2>1. /\ stamp[t] = 0
        /\ stamp' = Stamped(t)
        /\ front' = front \cup {t}
        /\ task_deque' = <<t>> \o task_deque
    BY <1>4 DEF push_task_front, CanPush
  <2>2. /\ Len(task_deque') = Len(task_deque) + 1
        /\ task_deque'[1] = t
        /\ \A k \in 2..(Len(task_deque) + 1) : task_deque'[k] = task_deque[k - 1]
        /\ Len(task_deque) \in Nat
    BY <2>1, ConsElements DEF ThreadInv, TPTypeOK
  <2>3. \A s \in Queued : Precedes(t, s)'
    BY <1>2, <2>1 DEF Precedes
  <2> SUFFICES ASSUME NEW i \in 1..(Len(task_deque) + 1), NEW j \in 1..(Len(task_deque) + 1),
                      i < j
               PROVE  Precedes(task_deque[i], task_deque[j])'
    BY <2>2 DEF ServiceOrder
  <2>4. /\ j - 1 \in 1..Len(task_deque)
        /\ task_deque'[j] = task_deque[j - 1]
    BY <2>2
  <2>5. task_deque[j - 1] \in Queued
    BY <2>4 DEF Queued
  <2>6. CASE i = 1
    BY <2>2, <2>3, <2>4, <2>5, <2>6 DEF Precedes
  <2>7. CASE i # 1
    <3>1. /\ i - 1 \in 1..Len(task_deque)
          /\ i - 1 < j - 1
          /\ task_deque'[i] = task_deque[i - 1]
      BY <2>2, <2>7
    <3>2. Precedes(task_deque[i - 1], task_deque[j - 1]) /\ task_deque[i - 1] \in Queued
      BY <2>4, <3>1 DEF ServiceOrder, Queued
    <3>3. \A r, s \in Queued : Precedes(r, s) => Precedes(r, s)'
      BY <1>2, <2>1
    <3> QED BY <2>4, <2>5, <3>1, <3>2, <3>3 DEF Precedes
  <2> QED BY <2>6, <2>7
<1>5. ASSUME NEW w \in Workers, WorkerTake(w) PROVE ServiceOrder'
  <2>1. task_deque # <<>> /\ task_deque \in Seq(Tasks)
    BY <1>5 DEF ThreadInv, TPTypeOK, WorkerInv, WorkerTake
  <2>2. task_deque' = Tail(task_deque) /\ UNCHANGED <<stamp, front>>
    BY <1>5 DEF WorkerTake, pull_task
  <2>3. \A k \in 1..Len(task_deque') :
            k + 1 \in 1..Len(task_deque) /\ task_deque'[k] = task_deque[k + 1]
    BY <2>1, <2>2, TailElements
  <2> SUFFICES ASSUME NEW i \in 1..Len(task_deque'), NEW j \in 1..Len(task_deque'), i < j
               PROVE  Precedes(task_deque[i], task_deque[j])'
    BY DEF ServiceOrder
  <2>4. Precedes(task_deque[i + 1], task_deque[j + 1])
    BY <2>3 DEF ServiceOrder
  <2> QED BY <2>2, <2>3, <2>4 DEF Precedes
<1>6. CASE JoinAll
  BY <1>6 DEF JoinAll, ServiceOrder
<1>7. ASSUME NEW w \in Workers,
             \/ StartThread(w) \/ WorkerLoop(w) \/ WorkerLock(w) \/ WorkerPred(w)
             \/ WorkerBlock(w) \/ WorkerCheck(w) \/ WorkerFinish(w) \/ SpuriousWakeup(w)
      PROVE ServiceOrder'
  BY <1>1, <1>7 DEF StartThread, WorkerLoop, WorkerLock, WorkerPred, WorkerBlock,
                    WorkerCheck, WorkerFinish, SpuriousWakeup
<1>8. ASSUME NEW c \in Clients, NotifyOne(c) PROVE ServiceOrder'
  BY <1>1, <1>8 DEF NotifyOne
<1>9. CASE Constructed \/ SetDone \/ NotifyAll \/ UNCHANGED tpVars
  BY <1>1, <1>9 DEF Constructed, SetDone, NotifyAll, tpVars
<1> QED BY <1>3, <1>4, <1>5, <1>6, <1>7, <1>8, <1>9 DEF TPNext, WorkerStep, Gone

(* Out-of-turn tasks run first, the latest of them before the others, and  *)
(* the rest in the order they were pushed.                                 *)
THEOREM TasksOrdered == TPSpec => []ServiceOrder
<1>1. TPInit => ServiceOrder
  BY DEF TPInit, ServiceOrder
<1> QED BY <1>1, OrderStep, ThreadInvariant, TasksConserved, PTL DEF TPSpec

-------------------------------------------------------------------------------
(***************************************************************************)
(* The pool implements the abstract queue of tasks.                        *)
(***************************************************************************)

LEMMA RefinementInit == TPInit => TQ!Init
<1> SUFFICES ASSUME TPInit PROVE TQ!Init
  OBVIOUS
<1>1. Running = {}
  BY DEF TPInit, Running
<1> QED BY <1>1 DEF TPInit, TQ!Init

LEMMA RefinementStep ==
    ThreadInv /\ TaskConservation /\ [TPNext]_tpVars => [TQ!Next]_TQ!vars
<1> SUFFICES ASSUME ThreadInv, TaskConservation, [TPNext]_tpVars PROVE [TQ!Next]_TQ!vars
  OBVIOUS
<1> USE DEF ownerVars, clientVars, history
<1>1. ASSUME UNCHANGED <<task_deque, task, completed, dropped, done>> PROVE UNCHANGED TQ!vars
  BY <1>1 DEF TQ!vars, Running
<1>2. ASSUME NEW c \in Clients, NEW t \in Tasks, push_task_back(c, t) \/ push_task_front(c, t)
      PROVE  TQ!Next
  <2>1. t \notin TQ!Known
    <3>1. t \notin Pushed
      BY <1>2 DEF push_task_back, push_task_front, CanPush, Pushed
    <3>2. TQ!Known = Pushed
      BY DEF TaskConservation, TQ!Known, TQ!Waiting, Queued
    <3> QED BY <3>1, <3>2
  <2>2. ~done
    BY <1>2 DEF push_task_back, push_task_front, CanPush, ThreadInv, OwnerInv
  <2>3. task_deque' \in {Append(task_deque, t), <<t>> \o task_deque}
    BY <1>2 DEF push_task_back, push_task_front
  <2>4. UNCHANGED <<Running, completed, dropped, done>>
    BY <1>2 DEF push_task_back, push_task_front, Running
  <2>5. TQ!Submit(t)
    BY <2>1, <2>2, <2>3, <2>4 DEF TQ!Submit
  <2> QED BY <2>5 DEF TQ!Next
<1>3. ASSUME NEW w \in Workers, WorkerTake(w) PROVE TQ!Next
  <2>1. task_deque # <<>> /\ Running' = Running \cup {Head(task_deque)}
    BY <1>3, RunningGrows
  <2>2. TQ!Start
    BY <1>3, <2>1 DEF WorkerTake, pull_task, TQ!Start
  <2> QED BY <2>2 DEF TQ!Next
<1>4. ASSUME NEW w \in Workers, WorkerFinish(w) PROVE TQ!Next
  <2>1. task[w] \in Running /\ Running' = Running \ {task[w]}
    BY <1>4, RunningShrinks
  <2>2. task[w] \in Tasks
    BY <2>1 DEF ThreadInv, TPTypeOK, Running
  <2>3. TQ!Finish(task[w])
    BY <1>4, <2>1 DEF WorkerFinish, TQ!Finish
  <2> QED BY <2>2, <2>3 DEF TQ!Next
<1>5. ASSUME SetDone PROVE TQ!Next
  <2>1. ~done /\ UNCHANGED Running
    BY <1>5 DEF SetDone, ThreadInv, OwnerInv, Running
  <2>2. TQ!Close
    BY <1>5, <2>1 DEF SetDone, TQ!Close
  <2> QED BY <2>2 DEF TQ!Next
<1>6. ASSUME JoinAll PROVE TQ!Next
  <2>1. \A w \in Workers : task[w] = NoTask
    BY <1>6 DEF JoinAll, ThreadInv, WorkerInv
  <2>2. Running = {} /\ Running' = {}
    BY <1>6, <2>1 DEF JoinAll, Running
  <2>3. done
    BY <1>6 DEF JoinAll, ThreadInv, OwnerInv
  <2>4. Queued = TQ!Waiting
    BY DEF Queued, TQ!Waiting
  <2>5. TQ!Discard
    BY <1>6, <2>2, <2>3, <2>4 DEF JoinAll, TQ!Discard
  <2> QED BY <2>5 DEF TQ!Next
<1>7. ASSUME NEW w \in Workers,
             \/ StartThread(w) \/ WorkerLoop(w) \/ WorkerLock(w) \/ WorkerPred(w)
             \/ WorkerBlock(w) \/ WorkerCheck(w) \/ SpuriousWakeup(w)
      PROVE UNCHANGED TQ!vars
  BY <1>1, <1>7 DEF StartThread, WorkerLoop, WorkerLock, WorkerPred, WorkerBlock,
                    WorkerCheck, SpuriousWakeup
<1>8. ASSUME NEW c \in Clients, NotifyOne(c) PROVE UNCHANGED TQ!vars
  BY <1>1, <1>8 DEF NotifyOne
<1>9. ASSUME Constructed \/ NotifyAll \/ UNCHANGED tpVars PROVE UNCHANGED TQ!vars
  BY <1>1, <1>9 DEF Constructed, NotifyAll, tpVars
<1> QED BY <1>2, <1>3, <1>4, <1>5, <1>6, <1>7, <1>8, <1>9 DEF TPNext, WorkerStep, Gone

(* thread_pool is a queue of tasks that are started at most once, from its *)
(* front, and never after it was destroyed.                                *)
THEOREM PoolImplementsTaskQueue == TPSpec => ImplementsTaskQueue
<1>1. TPInit => TQ!Init
  BY RefinementInit
<1>2. ThreadInv /\ TaskConservation /\ [TPNext]_tpVars => [TQ!Next]_TQ!vars
  BY RefinementStep
<1>3. TPInit /\ [][TPNext]_tpVars => TQ!Init /\ [][TQ!Next]_TQ!vars
  BY <1>1, <1>2, ThreadInvariant, TasksConserved, PTL DEF TPSpec
<1> QED BY <1>3 DEF TPSpec, ImplementsTaskQueue, TQ!Spec

===============================================================================
