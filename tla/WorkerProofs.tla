----------------------------- MODULE WorkerProofs -----------------------------
(***************************************************************************)
(* Proofs about WorkerJobs, for any jobs, workers, feeds, limit of a pass, *)
(* interval and backoff: the queue of due jobs says of each job what its   *)
(* next_run_at says, and lists it once.                                    *)
(***************************************************************************)
EXTENDS WorkerJobs, SequenceTheorems, FiniteSetTheorems, TLAPS

-----------------------------------------------------------------------------
(* Sequences without repetition *)

\* A sequence of the elements of a finite set has each of them once.
LEMMA SequenceOfSet ==
    ASSUME NEW S, IsFiniteSet(S), NEW s \in SetToSeqs(S)
    PROVE  /\ s \in Seq(S) /\ DOMAIN s = 1 .. Len(s)
           /\ IsInjective(s)
           /\ ToSet(s) = S
<1> DEFINE D == 1 .. Cardinality(S)
<1>1. Cardinality(S) \in Nat
  BY FS_CardinalityType
<1>2. s \in [D -> S] /\ \A i, j \in D : i # j => s[i] # s[j]
  BY DEF SetToSeqs
<1>3. IsFiniteSet(D) /\ Cardinality(D) = Cardinality(S)
  BY <1>1, FS_Interval
<1>4. s \in Injection(D, S)
  BY <1>2 DEF Injection, IsInjective
<1>5. s \in Surjection(D, S)
  BY <1>3, <1>4, FS_Injection
<1>6. s \in Seq(S) /\ DOMAIN s = 1 .. Len(s)
  BY <1>1, <1>2
<1>7. IsInjective(s)
  BY <1>2 DEF IsInjective
<1>8. ToSet(s) = S
  BY <1>2, <1>5 DEF Surjection, ToSet
<1> QED BY <1>6, <1>7, <1>8

\* New elements behind a queue.
LEMMA QueueJoined ==
    ASSUME NEW S, NEW s \in Seq(S), NEW t \in Seq(S), IsInjective(s), IsInjective(t),
           ToSet(s) \cap ToSet(t) = {}
    PROVE  /\ s \o t \in Seq(S) /\ IsInjective(s \o t)
           /\ ToSet(s \o t) = ToSet(s) \cup ToSet(t)
<1> DEFINE u == s \o t
           a == Len(s)
           b == Len(t)
<1>1. /\ u \in Seq(S) /\ Len(u) = a + b
      /\ \A i \in 1 .. a + b : u[i] = IF i <= a THEN s[i] ELSE t[i - a]
  BY ConcatProperties
<1>2. /\ a \in Nat /\ b \in Nat
      /\ DOMAIN s = 1 .. a /\ DOMAIN t = 1 .. b /\ DOMAIN u = 1 .. a + b
  BY <1>1
<1> HIDE DEF u, a, b
<1>3. \A i \in 1 .. a : s[i] \in ToSet(s)
  BY <1>2 DEF ToSet
<1>4. \A i \in 1 .. b : t[i] \in ToSet(t)
  BY <1>2 DEF ToSet
<1>5. ASSUME NEW i \in 1 .. a + b, NEW j \in 1 .. a + b, u[i] = u[j]
      PROVE  i = j
  <2>1. CASE i <= a /\ j <= a
    <3>1. i \in DOMAIN s /\ j \in DOMAIN s /\ s[i] = s[j]
      BY <1>1, <1>2, <1>5, <2>1
    <3> QED BY <3>1 DEF IsInjective
  <2>2. CASE i > a /\ j > a
    <3>1. i - a \in 1 .. b /\ j - a \in 1 .. b /\ t[i - a] = t[j - a]
      BY <1>1, <1>2, <1>5, <2>2
    <3>2. i - a = j - a
      BY <1>2, <3>1 DEF IsInjective
    <3> QED BY <1>2, <3>2
  <2>3. ASSUME NEW m \in 1 .. a, NEW n \in (a + 1) .. a + b PROVE u[m] # u[n]
    <3>1. u[m] \in ToSet(s)
      BY <1>1, <1>2, <1>3
    <3>2. u[n] \in ToSet(t)
      BY <1>1, <1>2, <1>4
    <3> QED BY <3>1, <3>2
  <2> QED BY <1>2, <1>5, <2>1, <2>2, <2>3
<1>6. IsInjective(u)
  BY <1>2, <1>5 DEF IsInjective
<1>7. \A i \in 1 .. a : s[i] = u[i] /\ i \in DOMAIN u
  BY <1>1, <1>2
<1>8. \A i \in 1 .. b : t[i] = u[a + i] /\ a + i \in DOMAIN u
  BY <1>1, <1>2
<1>9. ToSet(u) \subseteq ToSet(s) \cup ToSet(t)
  <2> SUFFICES ASSUME NEW i \in 1 .. a + b PROVE u[i] \in ToSet(s) \cup ToSet(t)
    BY <1>2 DEF ToSet
  <2>1. CASE i <= a
    BY <1>1, <1>2, <1>3, <2>1
  <2>2. CASE i > a
    BY <1>1, <1>2, <1>4, <2>2
  <2> QED BY <1>2, <2>1, <2>2
<1>10. ToSet(s) \subseteq ToSet(u) /\ ToSet(t) \subseteq ToSet(u)
  BY <1>2, <1>7, <1>8 DEF ToSet
<1> QED BY <1>1, <1>6, <1>9, <1>10 DEF u

\* A place taken out of a queue.
LEMMA QueueLeft ==
    ASSUME NEW S, NEW s \in Seq(S), IsInjective(s), NEW n \in DOMAIN s
    PROVE  /\ RemoveAt(s, n) \in Seq(S) /\ IsInjective(RemoveAt(s, n))
           /\ ToSet(RemoveAt(s, n)) = ToSet(s) \ {s[n]}
<1> DEFINE u == RemoveAt(s, n)
           a == Len(s)
           front == SubSeq(s, 1, n - 1)
           back == SubSeq(s, n + 1, a)
<1>1. a \in Nat /\ DOMAIN s = 1 .. a /\ n \in 1 .. a /\ \A i \in 1 .. a : s[i] \in S
  OBVIOUS
<1> HIDE DEF a
<1>2. /\ front \in Seq(S) /\ Len(front) = n - 1
      /\ \A i \in 1 .. n - 1 : front[i] = s[i]
  <2>1. \A i \in 1 .. n - 1 : s[i] \in S
    BY <1>1
  <2> QED BY <1>1, <2>1, SubSeqProperties
<1>3. /\ back \in Seq(S) /\ Len(back) = a - n
      /\ \A i \in 1 .. a - n : back[i] = s[n + i]
  <2>1. \A i \in n + 1 .. a : s[i] \in S
    BY <1>1
  <2>2. /\ back \in Seq(S) /\ Len(back) = IF n + 1 <= a THEN a - (n + 1) + 1 ELSE 0
        /\ \A i \in 1 .. a - (n + 1) + 1 : back[i] = s[(n + 1) + i - 1]
    BY <1>1, <2>1, SubSeqProperties
  <2>3. /\ a - (n + 1) + 1 = a - n
        /\ (IF n + 1 <= a THEN a - n ELSE 0) = a - n
        /\ \A i \in 1 .. a - n : (n + 1) + i - 1 = n + i
    BY <1>1
  <2> HIDE DEF back
  <2>4. Len(back) = a - n
    BY <2>2, <2>3
  <2> QED BY <2>2, <2>3, <2>4
<1>4. u = front \o back
  BY DEF RemoveAt, a
<1> HIDE DEF u, front, back
<1>5. /\ u \in Seq(S) /\ Len(u) = a - 1
      /\ \A i \in 1 .. a - 1 : u[i] = IF i < n THEN s[i] ELSE s[i + 1]
  <2>1. /\ u \in Seq(S) /\ Len(u) = Len(front) + Len(back)
        /\ \A i \in 1 .. Len(front) + Len(back) :
              u[i] = IF i <= Len(front) THEN front[i] ELSE back[i - Len(front)]
    BY <1>2, <1>3, <1>4, ConcatProperties
  <2>2. Len(front) + Len(back) = a - 1
    BY <1>1, <1>2, <1>3
  <2>3. \A i \in 1 .. a - 1 : u[i] = IF i <= n - 1 THEN front[i] ELSE back[i - (n - 1)]
    BY <1>2, <2>1, <2>2
  <2>4. ASSUME NEW i \in 1 .. a - 1 PROVE u[i] = IF i < n THEN s[i] ELSE s[i + 1]
    <3>1. CASE i < n
      <4>1. i \in 1 .. n - 1 /\ i <= n - 1
        BY <1>1, <3>1
      <4> QED BY <1>2, <2>3, <3>1, <4>1
    <3>2. CASE ~(i < n)
      <4>1. i - (n - 1) \in 1 .. a - n /\ n + (i - (n - 1)) = i + 1 /\ ~(i <= n - 1)
        BY <1>1, <3>2
      <4>2. u[i] = back[i - (n - 1)]
        BY <2>3, <4>1
      <4>3. back[i - (n - 1)] = s[n + (i - (n - 1))]
        BY <1>3, <4>1
      <4> QED BY <3>2, <4>1, <4>2, <4>3
    <3> QED BY <3>1, <3>2
  <2> QED BY <2>1, <2>2, <2>4
<1>6. DOMAIN u = 1 .. a - 1
  BY <1>1, <1>5
<1>7. \A i, j \in 1 .. a : s[i] = s[j] => i = j
  BY <1>1 DEF IsInjective
<1>8. IsInjective(u)
  BY <1>1, <1>5, <1>6, <1>7 DEF IsInjective
<1>9. ToSet(u) \subseteq ToSet(s) \ {s[n]}
  <2> SUFFICES ASSUME NEW i \in 1 .. a - 1 PROVE u[i] \in ToSet(s) \ {s[n]}
    BY <1>6 DEF ToSet
  <2>1. PICK k \in 1 .. a : u[i] = s[k] /\ k # n
    <3>1. CASE i < n
      <4>1. i \in 1 .. a /\ i # n
        BY <1>1, <3>1
      <4> QED BY <1>5, <3>1, <4>1
    <3>2. CASE ~(i < n)
      <4>1. i + 1 \in 1 .. a /\ i + 1 # n
        BY <1>1, <3>2
      <4> QED BY <1>5, <3>2, <4>1
    <3> QED BY <3>1, <3>2
  <2>2. s[k] \in ToSet(s)
    BY <1>1 DEF ToSet
  <2> QED BY <1>1, <1>7, <2>1, <2>2
<1>10. ASSUME NEW i \in 1 .. a, s[i] # s[n] PROVE s[i] \in ToSet(u)
  <2>1. CASE i < n
    <3>1. i \in 1 .. a - 1 /\ u[i] = s[i]
      BY <1>1, <1>5, <2>1
    <3> QED BY <1>6, <3>1 DEF ToSet
  <2>2. CASE i > n
    <3>1. i - 1 \in 1 .. a - 1 /\ u[i - 1] = s[i]
      BY <1>1, <1>5, <2>2
    <3> QED BY <1>6, <3>1 DEF ToSet
  <2> QED BY <1>1, <1>10, <2>1, <2>2
<1>11. ToSet(s) \ {s[n]} \subseteq ToSet(u)
  BY <1>1, <1>10 DEF ToSet
<1> QED BY <1>5, <1>8, <1>9, <1>11 DEF u

-----------------------------------------------------------------------------
(* The queue *)

\* The queue agrees with the clocks of the jobs.
QueueSound(queue, left) ==
    /\ queue \in Seq(Jobs) /\ IsInjective(queue)
    /\ \A j \in Jobs : left[j] = 0 <=> j \in ToSet(queue)

\* A job that is scheduled again leaves the queue, if it was in it.
LEMMA RescheduleSound ==
    ASSUME WorkerTypeOK, NEW j \in Jobs, NEW d \in Nat \ {0}, Reschedule(j, d)
    PROVE  wait' \in [Jobs -> Nat] /\ QueueSound(due', wait')
<1>1. /\ wait' = [wait EXCEPT ![j] = d] /\ wait \in [Jobs -> Nat]
      /\ due' = LeaveDue(j)
      /\ due \in Seq(Jobs) /\ IsInjective(due)
      /\ \A k \in Jobs : wait[k] = 0 <=> k \in ToSet(due)
  BY DEF Reschedule, WorkerTypeOK
<1>2. /\ wait' \in [Jobs -> Nat]
      /\ \A k \in Jobs : wait'[k] = 0 <=> wait[k] = 0 /\ k # j
  BY <1>1
<1>3. due' \in Seq(Jobs) /\ IsInjective(due') /\ ToSet(due') = ToSet(due) \ {j}
  <2>1. CASE wait[j] = 0
    <3> DEFINE n == CHOOSE n \in DOMAIN due : due[n] = j
    <3>1. n \in DOMAIN due /\ due[n] = j
      BY <1>1, <2>1 DEF ToSet
    <3>2. due' = RemoveAt(due, n)
      BY <1>1, <2>1 DEF LeaveDue
    <3> HIDE DEF n
    <3> QED BY <1>1, <3>1, <3>2, QueueLeft
  <2>2. CASE wait[j] # 0
    BY <1>1, <2>2 DEF LeaveDue
  <2> QED BY <2>1, <2>2
<1> QED BY <1>1, <1>2, <1>3 DEF QueueSound

\* At a tick the jobs whose time has come join the queue, in any order.
LEMMA TickSound ==
    ASSUME WorkerTypeOK, Tick
    PROVE  wait' \in [Jobs -> Nat] /\ QueueSound(due', wait')
<1> DEFINE soon == {j \in Jobs : wait[j] = 1}
<1>1. /\ wait \in [Jobs -> Nat]
      /\ wait' = [j \in Jobs |-> IF wait[j] > 0 THEN wait[j] - 1 ELSE 0]
      /\ due \in Seq(Jobs) /\ IsInjective(due)
      /\ \A j \in Jobs : wait[j] = 0 <=> j \in ToSet(due)
  BY DEF Tick, WorkerTypeOK
<1>2. /\ wait' \in [Jobs -> Nat]
      /\ \A j \in Jobs : wait'[j] = 0 <=> wait[j] = 0 \/ j \in soon
  BY <1>1
<1>3. PICK s \in SetToSeqs(soon) : due' = due \o s
  BY DEF Tick
<1>4. IsFiniteSet(soon)
  BY WorkerAssumption, FS_Subset
<1>5. s \in Seq(soon) /\ IsInjective(s) /\ ToSet(s) = soon
  BY <1>4, SequenceOfSet
<1>6. s \in Seq(Jobs)
  BY <1>5, SeqMonotonic
<1>7. ToSet(due) \cap soon = {}
  BY <1>1
<1> HIDE DEF soon
<1>8. due' \in Seq(Jobs) /\ IsInjective(due') /\ ToSet(due') = ToSet(due) \cup soon
  BY <1>1, <1>3, <1>5, <1>6, <1>7, QueueJoined
<1> QED BY <1>1, <1>2, <1>8 DEF QueueSound

-----------------------------------------------------------------------------
(* Runs and passes *)

\* A run of a job, by a worker or by hand, keeps the rows sound.
LEMMA RunKeepsTypes ==
    ASSUME WorkerTypeOK, NEW j \in Jobs, RunJob(j), stale' = stale,
           list' \in [Workers -> Seq(Jobs)]
    PROVE  WorkerTypeOK'
<1> USE DEF WorkerTypeOK, QueueSound
<1>1. CASE Succeed(j)
  <2>1. wait' \in [Jobs -> Nat] /\ QueueSound(due', wait')
    BY <1>1, WorkerAssumption, RescheduleSound DEF Succeed
  <2>2. alert' \in [Feeds -> SUBSET AlertStatuses]
    BY <1>1 DEF Succeed, AlertAfter, AlertStatuses
  <2>3. status' \in [Jobs -> {"idle", "running", "failed"}] /\ UNCHANGED <<retries, faults>>
    BY <1>1 DEF Succeed
  <2> QED BY <2>1, <2>2, <2>3
<1>2. CASE Fail(j)
  <2> DEFINE n == IF retries[j] < Len(Backoff) THEN retries[j] + 1 ELSE retries[j]
  <2>1. Len(Backoff) \in Nat \ {0} /\ \A k \in 1 .. Len(Backoff) : Backoff[k] \in Nat \ {0}
    BY WorkerAssumption, EmptySeq, ElementOfSeq
  <2>2. n \in 1 .. Len(Backoff)
    BY <2>1
  <2>3. /\ Reschedule(j, Backoff[n])
        /\ status' = [status EXCEPT ![j] = "failed"]
        /\ retries' = [retries EXCEPT ![j] = n]
        /\ UNCHANGED <<alert, faults>>
    BY <1>2 DEF Fail
  <2> HIDE DEF n
  <2>4. wait' \in [Jobs -> Nat] /\ QueueSound(due', wait')
    BY <2>1, <2>2, <2>3, RescheduleSound
  <2>5. retries' \in [Jobs -> 0 .. Len(Backoff)]
    BY <2>1, <2>2, <2>3
  <2> QED BY <2>3, <2>4, <2>5
<1>3. CASE ReturnEarly(j)
  BY <1>3 DEF ReturnEarly
<1>4. CASE RollBack(j)
  <2>1. faults' \in 0 .. MaxFaults
    BY <1>4, WorkerAssumption DEF RollBack
  <2>2. UNCHANGED <<status, wait, due, retries, alert>>
    BY <1>4 DEF RollBack, jobRow
  <2> QED BY <2>1, <2>2
<1> QED BY <1>1, <1>2, <1>3, <1>4 DEF RunJob

\* A pass is a list of jobs.
LEMMA PassOfJobs ==
    ASSUME WorkerTypeOK, NEW w \in Workers, ListDue(w)
    PROVE  list' \in [Workers -> Seq(Jobs)]
<1>1. DOMAIN due = 1 .. Len(due) /\ Len(due) \in Nat /\ \A n \in DOMAIN due : due[n] \in Jobs
  BY DEF WorkerTypeOK
<1>2. Listed \subseteq DOMAIN due
  BY DEF Listed
<1>3. IsFiniteSet(Listed)
  <2>1. IsFiniteSet(DOMAIN due)
    BY <1>1, FS_Interval
  <2> QED BY <1>2, <2>1, FS_Subset
<1>4. PICK s \in SetToSeqs(Listed) :
          list' = [list EXCEPT ![w] = [n \in DOMAIN s |-> due[s[n]]]]
  BY DEF ListDue
<1>5. s \in Seq(Listed) /\ DOMAIN s = 1 .. Len(s)
  BY <1>3, SequenceOfSet
<1> DEFINE pass == [n \in DOMAIN s |-> due[s[n]]]
<1>6. Len(s) \in Nat /\ pass \in [1 .. Len(s) -> Jobs]
  BY <1>1, <1>2, <1>5
<1>7. pass \in Seq(Jobs)
  BY <1>6, SeqDef
<1> HIDE DEF pass
<1> QED BY <1>4, <1>7 DEF WorkerTypeOK, pass

\* The rows of jobs and alerts are of their types, and the queue of due jobs lists
\* each job whose next_run_at is past once, and no other, whatever fails.
THEOREM WorkerTypeCorrect == WorkerSpec => []WorkerTypeOK
<1>1. WorkerInit => WorkerTypeOK
  <2> SUFFICES ASSUME WorkerInit PROVE WorkerTypeOK
    OBVIOUS
  <2>1. due \in Seq(Jobs) /\ IsInjective(due) /\ ToSet(due) = Jobs
    BY WorkerAssumption, SequenceOfSet DEF WorkerInit
  <2>2. Len(Backoff) \in Nat
    BY WorkerAssumption
  <2>3. <<>> \in Seq(Jobs)
    BY EmptySeq
  <2> QED BY <2>1, <2>2, <2>3, WorkerAssumption DEF WorkerInit, WorkerTypeOK, AlertStatuses
<1>2. WorkerTypeOK /\ [WorkerNext]_jobsVars => WorkerTypeOK'
  <2> SUFFICES ASSUME WorkerTypeOK, [WorkerNext]_jobsVars PROVE WorkerTypeOK'
    OBVIOUS
  <2>1. CASE Tick
    <3>1. wait' \in [Jobs -> Nat] /\ QueueSound(due', wait')
      BY <2>1, TickSound
    <3>2. UNCHANGED <<status, retries, alert, stale, list, faults>>
      BY <2>1 DEF Tick
    <3> QED BY <3>1, <3>2 DEF WorkerTypeOK, QueueSound
  <2>2. ASSUME NEW f \in Feeds, FeedChanges(f) PROVE WorkerTypeOK'
    BY <2>2 DEF FeedChanges, jobRow, WorkerTypeOK
  <2>3. ASSUME NEW j \in Jobs, RunManually(j) PROVE WorkerTypeOK'
    <3>1. RunJob(j) /\ stale' = stale /\ list' \in [Workers -> Seq(Jobs)]
      BY <2>3 DEF RunManually, WorkerTypeOK
    <3> QED BY <3>1, RunKeepsTypes
  <2>4. ASSUME NEW w \in Workers, ListDue(w) PROVE WorkerTypeOK'
    <3>1. list' \in [Workers -> Seq(Jobs)]
      BY <2>4, PassOfJobs
    <3>2. UNCHANGED <<status, wait, due, retries, alert, stale, faults>>
      BY <2>4 DEF ListDue, jobRow
    <3> QED BY <3>1, <3>2 DEF WorkerTypeOK
  <2>5. ASSUME NEW w \in Workers, RunNext(w) PROVE WorkerTypeOK'
    <3>1. list \in [Workers -> Seq(Jobs)] /\ list[w] \in Seq(Jobs) /\ list[w] # <<>>
      BY <2>5 DEF RunNext, WorkerTypeOK
    <3>2. Head(list[w]) \in Jobs /\ Tail(list[w]) \in Seq(Jobs)
      BY <3>1, HeadTailProperties
    <3>3. list' \in [Workers -> Seq(Jobs)] /\ stale' = stale /\ RunJob(Head(list[w]))
      BY <2>5, <3>1, <3>2 DEF RunNext
    <3> QED BY <3>2, <3>3, RunKeepsTypes
  <2>6. ASSUME NEW w \in Workers, Restart(w) PROVE WorkerTypeOK'
    <3>1. list' \in [Workers -> Seq(Jobs)]
      BY <2>6, EmptySeq DEF Restart, WorkerTypeOK
    <3>2. faults' \in 0 .. MaxFaults
      BY <2>6, WorkerAssumption DEF Restart, WorkerTypeOK
    <3>3. UNCHANGED <<status, wait, due, retries, alert, stale>>
      BY <2>6 DEF Restart, jobRow
    <3> QED BY <3>1, <3>2, <3>3 DEF WorkerTypeOK
  <2>7. CASE UNCHANGED jobsVars
    BY <2>7 DEF jobsVars, jobRow, WorkerTypeOK
  <2> QED BY <2>1, <2>2, <2>3, <2>4, <2>5, <2>6, <2>7 DEF WorkerNext
<1> QED BY <1>1, <1>2, PTL DEF WorkerSpec
=============================================================================
