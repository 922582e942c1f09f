-------------------------- MODULE SubagentJobsProofs --------------------------
(* Proofs about background subagents, for any jobs, limits and attempts:    *)
(* nobody waits at the gate beside room, the gate is charged for exactly    *)
(* the tools that escaped, the work alive stays within the limit, what is   *)
(* published of a job is its last word, and a cancelled row is revived by   *)
(* Retry only.                                                              *)
EXTENDS SubagentJobs, FiniteSetTheorems, SequenceTheorems, WellFoundedInduction, TLAPS

RunStates == {"none", "queued", "running", "unwinding", "done"}

\* No job waits twice in the queue q.
Distinct(q) == \A i, k \in 1..Len(q) : q[i] = q[k] => i = k

\* Everybody in the queue q is queued, by the run states r.
AllQueued(q, r) == \A i \in 1..Len(q) : r[q[i]] = "queued"

Held(r) == {j \in Jobs : r[j] \in {"running", "unwinding"}}

\* What an admission makes of the queue and of the run states.
Taken(q, r, lim, off)  == Admitted(q, Held(r), lim, off)
Rest(q, r, lim, off)   == SubSeq(q, Taken(q, r, lim, off) + 1, Len(q))
Started(q, r, lim, off) == {q[i] : i \in 1..Taken(q, r, lim, off)}
After(q, r, lim, off)  == [j \in Jobs |-> IF j \in Started(q, r, lim, off) THEN "running" ELSE r[j]]

GateOK(q, r, lim, off) ==
    /\ q \in Seq(Jobs)
    /\ r \in [Jobs -> RunStates]
    /\ Distinct(q)
    /\ AllQueued(q, r)
    /\ q # <<>> => Cardinality(Held(r)) + off >= lim

\* The permits held are a finite set of jobs.
LEMMA HeldFinite ==
    ASSUME NEW r
    PROVE  IsFiniteSet(Held(r)) /\ Cardinality(Held(r)) \in Nat
<1>1. Held(r) \in SUBSET Jobs
  BY DEF Held
<1>2. IsFiniteSet(Held(r))
  BY <1>1, FS_Subset, JobsAssumption
<1> QED
  BY <1>2, FS_CardinalityType

\* An admission takes waiters from the head of the queue, at most all of them,
\* all of them unless the room runs out, and none beyond the room.
LEMMA TakenBounds ==
    ASSUME NEW q \in Seq(Jobs), NEW r \in [Jobs -> RunStates], NEW lim \in Nat, NEW off \in Int
    PROVE  /\ Taken(q, r, lim, off) \in 0..Len(q)
           /\ Taken(q, r, lim, off) < Len(q) => Cardinality(Held(r)) + Taken(q, r, lim, off) + off >= lim
           /\ Taken(q, r, lim, off) > 0 => Cardinality(Held(r)) + Taken(q, r, lim, off) + off <= lim
<1>1. Cardinality(Held(r)) \in Nat
  BY HeldFinite
<1>2. Len(q) \in Nat
  OBVIOUS
<1> QED
  BY <1>1, <1>2 DEF Taken, Admitted, Allowance

\* What an admission leaves in the queue is its tail, in order.
LEMMA RestFacts ==
    ASSUME NEW q \in Seq(Jobs), NEW n \in 0..Len(q)
    PROVE  /\ SubSeq(q, n + 1, Len(q)) \in Seq(Jobs)
           /\ Len(SubSeq(q, n + 1, Len(q))) = Len(q) - n
           /\ \A i \in 1..(Len(q) - n) : SubSeq(q, n + 1, Len(q))[i] = q[i + n]
<1>1. Len(q) \in Nat /\ n \in Nat /\ n <= Len(q)
  OBVIOUS
<1>2. \A i \in (n + 1)..Len(q) : q[i] \in Jobs
  BY <1>1, ElementOfSeq
<1>3. n + 1 \in Int /\ Len(q) \in Int
  BY <1>1
<1>4. /\ SubSeq(q, n + 1, Len(q)) \in Seq(Jobs)
      /\ Len(SubSeq(q, n + 1, Len(q))) = IF n + 1 <= Len(q) THEN Len(q) - (n + 1) + 1 ELSE 0
      /\ \A i \in 1..(Len(q) - (n + 1) + 1) : SubSeq(q, n + 1, Len(q))[i] = q[(n + 1) + i - 1]
  BY <1>2, <1>3, SubSeqProperties
<1>5. \A i \in 1..(Len(q) - n) : (n + 1) + i - 1 = i + n
  BY <1>1
<1> QED
  BY <1>1, <1>4, <1>5

\* Those an admission starts are as many as it takes.
LEMMA StartedCount ==
    ASSUME NEW q \in Seq(Jobs), NEW n \in 0..Len(q), Distinct(q)
    PROVE  LET s == {q[i] : i \in 1..n} IN IsFiniteSet(s) /\ Cardinality(s) = n
<1> DEFINE s == {q[i] : i \in 1..n}
           f == [i \in 1..n |-> q[i]]
<1>1. f \in Bijection(1..n, s)
  <2>1. f \in [1..n -> s]
    OBVIOUS
  <2>2. \A a, b \in 1..n : f[a] = f[b] => a = b
    BY DEF Distinct
  <2>3. \A t \in s : \E i \in 1..n : f[i] = t
    OBVIOUS
  <2> HIDE DEF f, s
  <2> QED
    BY <2>1, <2>2, <2>3 DEF Bijection, Injection, Surjection, IsInjective
<1>2. ExistsBijection(1..n, s)
  BY <1>1 DEF ExistsBijection
<1>3. IsFiniteSet(1..n) /\ Cardinality(1..n) = n
  BY FS_Interval
<1> HIDE DEF s
<1> QED
  BY <1>2, <1>3, FS_Bijection DEF s

\* An admission leaves the gate in order, whatever queue it starts from.
LEMMA Admission ==
    ASSUME NEW q \in Seq(Jobs), NEW r \in [Jobs -> RunStates], NEW lim \in Nat, NEW off \in Int,
           Distinct(q), AllQueued(q, r)
    PROVE  /\ GateOK(Rest(q, r, lim, off), After(q, r, lim, off), lim, off)
           /\ \A j \in Jobs : \/ After(q, r, lim, off)[j] = r[j]
                              \/ r[j] = "queued" /\ After(q, r, lim, off)[j] = "running"
           /\ (\E j \in Jobs : r[j] # "running" /\ After(q, r, lim, off)[j] = "running")
                => Cardinality(Held(After(q, r, lim, off))) + off <= lim
<1> DEFINE n == Taken(q, r, lim, off)
           w == Rest(q, r, lim, off)
           s == Started(q, r, lim, off)
           a == After(q, r, lim, off)
<1>1. n \in 0..Len(q)
  BY TakenBounds
<1>2. Len(q) \in Nat /\ \A i \in 1..Len(q) : q[i] \in Jobs
  OBVIOUS
<1>3. s = {q[i] : i \in 1..n}
  BY DEF Started
<1>4. a \in [Jobs -> RunStates]
  BY DEF After, RunStates
<1>5. \A j \in Jobs : a[j] = r[j] \/ (r[j] = "queued" /\ a[j] = "running")
  <2> SUFFICES ASSUME NEW j \in Jobs, j \in s
               PROVE  r[j] = "queued" /\ a[j] = "running"
    BY DEF After
  <2>1. PICK i \in 1..n : j = q[i]
    BY <1>3
  <2> QED
    BY <2>1, <1>1, <1>2 DEF AllQueued, After
<1>6. w \in Seq(Jobs) /\ Len(w) = Len(q) - n /\ \A i \in 1..Len(w) : w[i] = q[i + n]
  BY <1>1, RestFacts DEF Rest
<1> HIDE DEF n, w, s, a
<1>7. Distinct(w)
  BY <1>1, <1>2, <1>6 DEF Distinct
<1>8. AllQueued(w, a)
  <2> SUFFICES ASSUME NEW i \in 1..Len(w) PROVE a[w[i]] = "queued"
    BY DEF AllQueued
  <2>1. i + n \in 1..Len(q) /\ w[i] = q[i + n]
    BY <1>1, <1>2, <1>6
  <2>2. q[i + n] \notin s
    BY <2>1, <1>1, <1>2, <1>3 DEF Distinct
  <2>3. a[q[i + n]] = r[q[i + n]]
    BY <2>1, <2>2, <1>2 DEF a, s, After
  <2> QED
    BY <2>1, <2>3 DEF AllQueued
<1>9. Cardinality(Held(a)) = Cardinality(Held(r)) + n /\ Cardinality(Held(r)) \in Nat
  <2>3. Held(a) = Held(r) \cup s
    <3>1. s \subseteq Jobs
      BY <1>1, <1>2, <1>3
    <3> QED
      BY <3>1, <1>5 DEF Held, a, s, After
  <2>4. Held(r) \cap s = {}
    <3>1. \A j \in s : r[j] = "queued"
      BY <1>1, <1>2, <1>3 DEF AllQueued
    <3> QED
      BY <3>1 DEF Held
  <2>5. IsFiniteSet(s) /\ Cardinality(s) = n
    BY <1>1, <1>3, StartedCount
  <2>6. IsFiniteSet(Held(r)) /\ Cardinality(Held(r)) \in Nat
    BY HeldFinite
  <2>7. Cardinality(Held(a)) = Cardinality(Held(r)) + Cardinality(s) - Cardinality(Held(r) \cap s)
    BY <2>3, <2>5, <2>6, FS_Union
  <2>8. Cardinality(Held(r) \cap s) = 0
    BY <2>4, FS_EmptySet
  <2> QED
    BY <2>5, <2>6, <2>7, <2>8, <1>1
<1>10. w # <<>> => Cardinality(Held(a)) + off >= lim
  <2> SUFFICES ASSUME w # <<>> PROVE Cardinality(Held(a)) + off >= lim
    OBVIOUS
  <2>1. n < Len(q)
    BY <1>1, <1>2, <1>6
  <2>2. Cardinality(Held(r)) + n + off >= lim
    BY <2>1, TakenBounds DEF n
  <2> QED
    BY <2>2, <1>1, <1>9
<1>11. ASSUME NEW j \in Jobs, r[j] # "running", a[j] = "running"
       PROVE  Cardinality(Held(a)) + off <= lim
  <2>1. j \in s
    BY <1>11 DEF a, s, After
  <2>2. n > 0
    BY <2>1, <1>1, <1>3
  <2>3. Cardinality(Held(r)) + n + off <= lim
    BY <2>2, TakenBounds DEF n
  <2> QED
    BY <2>3, <1>1, <1>9
<1> QED
  BY <1>4, <1>5, <1>6, <1>7, <1>8, <1>10, <1>11 DEF GateOK, a, w

-----------------------------------------------------------------------------
(* The inductive invariant.                                                *)

JobStates == {"none", "running", "completed", "failed", "cancelled"}

Kinds ==
    /\ job \in [Jobs -> [st : JobStates, retryable : BOOLEAN, attempt : Nat]]
    /\ outcome \in [Jobs -> [st : JobStates \ {"running"}, retryable : BOOLEAN]]
    /\ row \in [Jobs -> {"none", "running", "cancelling", "completed", "failed", "cancelled"}]
    /\ leftover \in [Jobs -> {0, 1}]
    /\ claimed \in [Jobs -> Nat]
    /\ withheld \in Int
    /\ limit \in Limits
    /\ cancels \subseteq Jobs
    /\ \A n \in notices : n.job \in Jobs

Gate == GateOK(waiters, run, limit, withheld)

\* A job that was not started has left no trace, the record of a job at work
\* says so, a run that ended has a result, and only a run that ended and has
\* not settled leaves a tool behind that nobody is charged for.
Begun ==
    \A j \in Jobs :
        /\ job[j].st = "none" => run[j] = "none" /\ row[j] = "none" /\ j \notin cancels
        /\ run[j] = "unwinding" => outcome[j].st # "none"
        /\ run[j] \in {"queued", "running", "unwinding"} => job[j].st = "running"
        /\ leftover[j] = 1 => run[j] = "unwinding"

\* A callback that will publish a single job has seen the last of it.
NoticesAreLast ==
    \A n \in notices : n.job \in Singles => run[n.job] = "done" /\ ~job[n.job].retryable

\* A job starts only within what the limit leaves to permits.
AdmittedWithin ==
    (\E j \in Jobs : run[j] # "running" /\ run'[j] = "running")
        => Cardinality(Held(run')) + withheld' <= limit'

IInv == Kinds /\ Gate /\ Begun /\ NoticesAreLast /\ PublishedIsLast

\* A set in some order is a sequence of its elements without repetition.
LEMMA OrderedSet ==
    ASSUME NEW S \in SUBSET Jobs
    PROVE  /\ SetToSeq(S) \in Seq(S)
           /\ Distinct(SetToSeq(S))
<1>1. IsFiniteSet(S)
  BY FS_Subset, JobsAssumption
<1>2. Cardinality(S) \in Nat /\ ExistsBijection(1..Cardinality(S), S)
  BY <1>1, FS_CardinalityType
<1>3. \E f \in [1..Cardinality(S) -> S] : IsInjective(f)
  BY <1>2 DEF ExistsBijection, Bijection, Injection
<1>4. SetToSeq(S) \in [1..Cardinality(S) -> S] /\ IsInjective(SetToSeq(S))
  BY <1>3 DEF SetToSeq
<1> DEFINE t == SetToSeq(S)
<1>5. t \in [1..Cardinality(S) -> S] /\ IsInjective(t)
  BY <1>4
<1> HIDE DEF t
<1>6. t \in Seq(S) /\ Len(t) = Cardinality(S)
  BY <1>2, <1>5
<1>7. Distinct(t)
  BY <1>2, <1>5, <1>6 DEF Distinct, IsInjective
<1> QED
  BY <1>6, <1>7 DEF t

\* What an action that admits leaves at the gate.
LEMMA AdmitStep ==
    ASSUME NEW q \in Seq(Jobs), NEW r \in [Jobs -> RunStates], NEW lim \in Nat, NEW off \in Int,
           Distinct(q), AllQueued(q, r), Admit(q, r, lim, off),
           limit' = lim, withheld' = off
    PROVE  /\ Gate'
           /\ \A j \in Jobs : \/ run'[j] = r[j]
                              \/ r[j] = "queued" /\ run'[j] = "running"
           /\ (\E j \in Jobs : r[j] # "running" /\ run'[j] = "running")
                => Cardinality(Held(run')) + withheld' <= limit'
<1>1. waiters' = Rest(q, r, lim, off) /\ run' = After(q, r, lim, off)
  BY DEF Admit, Rest, After, Started, Taken, Held
<1>2. /\ GateOK(waiters', run', lim, off)
      /\ \A j \in Jobs : \/ run'[j] = r[j]
                         \/ r[j] = "queued" /\ run'[j] = "running"
      /\ (\E j \in Jobs : r[j] # "running" /\ run'[j] = "running")
            => Cardinality(Held(run')) + off <= lim
  BY <1>1, Admission
<1> QED
  BY <1>2 DEF Gate, GateOK, Distinct, AllQueued, Held

\* What has been said of a job stays its last word while the job keeps its
\* record and the job has ended.
LEMMA LastWordKept ==
    ASSUME NoticesAreLast, PublishedIsLast, notices' \subseteq notices, published' = published,
           \A j \in Singles : run[j] = "done" /\ ~job[j].retryable
                              => run'[j] = "done" /\ job'[j] = job[j]
    PROVE  NoticesAreLast' /\ PublishedIsLast'
<1>1. NoticesAreLast'
  BY DEF NoticesAreLast
<1>2. ASSUME NEW e \in DOMAIN published, NEW j \in Singles, e.items = {j}
      PROVE  ~job'[j].retryable /\ published[e] = Report({j})' /\ run'[j] = "done"
  <2>1. ~job[j].retryable /\ published[e] = Report({j}) /\ run[j] = "done"
    BY <1>2 DEF PublishedIsLast
  <2>2. run'[j] = "done" /\ job'[j] = job[j]
    BY <2>1
  <2>3. Report({j})' = Report({j})
    BY <2>2 DEF Report
  <2> QED
    BY <2>1, <2>2, <2>3
<1>3. PublishedIsLast'
  BY <1>2 DEF PublishedIsLast
<1> QED
  BY <1>1, <1>3

-----------------------------------------------------------------------------
(* Every operation keeps the invariant.                                    *)

\* Starting jobs keeps the invariant, in whatever order they queue.
LEMMA StartJobsStep ==
    ASSUME IInv, NEW new \in SUBSET Jobs, StartJobs(new)
    PROVE  IInv' /\ AdmittedWithin
<1>1. PICK q \in Seq(Jobs) : q = SetToSeq(new) /\ Distinct(q) /\ \A i \in 1..Len(q) : q[i] \in new
  <2>1. SetToSeq(new) \in Seq(new) /\ Distinct(SetToSeq(new))
    BY OrderedSet
  <2>2. \A t \in Seq(new) : t \in Seq(Jobs) /\ \A i \in 1..Len(t) : t[i] \in new
    BY SeqMonotonic, ElementOfSeq
  <2> QED
    BY <2>1, <2>2
<1>2. PICK w \in Seq(Jobs) : w = waiters /\ Distinct(w) /\ \A i \in 1..Len(w) : run[w[i]] = "queued"
  BY DEF IInv, Gate, GateOK, AllQueued
<1>3. PICK r \in [Jobs -> RunStates] : r = [j \in Jobs |-> IF j \in new THEN "queued" ELSE run[j]]
  BY DEF IInv, Gate, GateOK, RunStates
<1>4. PICK lim \in Nat, off \in Int : lim = limit /\ off = withheld
  BY LimitsAssumption DEF IInv, Kinds
<1>5. \A j \in new : job[j].st = "none" /\ run[j] = "none" /\ row[j] = "none" /\ j \notin cancels
  BY DEF StartJobs, IInv, Begun
<1>6. PICK z \in Seq(Jobs) : /\ z = w \o q
                            /\ Len(z) = Len(w) + Len(q)
                            /\ \A i \in 1..(Len(w) + Len(q)) :
                                  z[i] = IF i <= Len(w) THEN w[i] ELSE q[i - Len(w)]
  <2>1. /\ w \o q \in Seq(Jobs)
        /\ Len(w \o q) = Len(w) + Len(q)
        /\ \A i \in 1..(Len(w) + Len(q)) : (w \o q)[i] = IF i <= Len(w) THEN w[i] ELSE q[i - Len(w)]
    BY ConcatProperties, Zenon
  <2> QED
    BY <2>1, Zenon
<1>7. Len(w) \in Nat /\ Len(q) \in Nat
  OBVIOUS
<1>8. \A i \in 1..Len(w) : w[i] \in Jobs /\ w[i] \notin new
  BY <1>2, <1>5, ElementOfSeq
<1>9. Distinct(z)
  <2> SUFFICES ASSUME NEW i \in 1..Len(z), NEW k \in 1..Len(z), z[i] = z[k] PROVE i = k
    BY DEF Distinct
  <2>1. CASE i <= Len(w) /\ k <= Len(w)
    BY <2>1, <1>2, <1>6, <1>7 DEF Distinct
  <2>2. CASE i <= Len(w) /\ ~(k <= Len(w))
    <3>1. z[i] \notin new
      BY <2>2, <1>6, <1>7, <1>8
    <3>2. z[k] \in new
      BY <2>2, <1>1, <1>6, <1>7
    <3> QED
      BY <3>1, <3>2
  <2>3. CASE ~(i <= Len(w)) /\ k <= Len(w)
    <3>1. z[k] \notin new
      BY <2>3, <1>6, <1>7, <1>8
    <3>2. z[i] \in new
      BY <2>3, <1>1, <1>6, <1>7
    <3> QED
      BY <3>1, <3>2
  <2>4. CASE ~(i <= Len(w)) /\ ~(k <= Len(w))
    <3>1. i - Len(w) \in 1..Len(q) /\ k - Len(w) \in 1..Len(q)
      BY <2>4, <1>6, <1>7
    <3>2. q[i - Len(w)] = q[k - Len(w)]
      BY <2>4, <1>6, <1>7
    <3>3. i - Len(w) = k - Len(w)
      BY <3>1, <3>2, <1>1 DEF Distinct
    <3> QED
      BY <3>3, <1>7
  <2> QED
    BY <2>1, <2>2, <2>3, <2>4
<1>10. AllQueued(z, r)
  <2> SUFFICES ASSUME NEW i \in 1..Len(z) PROVE r[z[i]] = "queued"
    BY DEF AllQueued
  <2>1. CASE i <= Len(w)
    <3>1. z[i] = w[i] /\ i \in 1..Len(w)
      BY <2>1, <1>6, <1>7
    <3> QED
      BY <3>1, <1>2, <1>3, <1>8
  <2>2. CASE ~(i <= Len(w))
    <3>1. z[i] \in new
      BY <2>2, <1>1, <1>6, <1>7
    <3> QED
      BY <3>1, <1>3
  <2> QED
    BY <2>1, <2>2
<1>11. Admit(z, r, lim, off) /\ limit' = lim /\ withheld' = off
  BY <1>1, <1>2, <1>3, <1>4, <1>6 DEF StartJobs
<1>12. /\ Gate'
       /\ \A j \in Jobs : run'[j] = r[j] \/ (r[j] = "queued" /\ run'[j] = "running")
       /\ (\E j \in Jobs : r[j] # "running" /\ run'[j] = "running")
            => Cardinality(Held(run')) + withheld' <= limit'
  BY <1>9, <1>10, <1>11, AdmitStep
<1>13. \A j \in Jobs : job'[j] = IF j \in new THEN [st |-> "running", retryable |-> FALSE, attempt |-> 1]
                                 ELSE job[j]
  BY DEF StartJobs
<1>14. Kinds'
  <2>1. job' \in [Jobs -> [st : JobStates, retryable : BOOLEAN, attempt : Nat]]
    BY DEF StartJobs, IInv, Kinds, JobStates
  <2>2. row' \in [Jobs -> {"none", "running", "cancelling", "completed", "failed", "cancelled"}]
    BY DEF StartJobs, RowsAfter, IInv, Kinds
  <2> QED
    BY <2>1, <2>2 DEF StartJobs, IInv, Kinds
<1>15. Begun'
  <2> SUFFICES ASSUME NEW j \in Jobs
               PROVE  /\ job'[j].st = "none" => run'[j] = "none" /\ row'[j] = "none" /\ j \notin cancels'
                      /\ run'[j] = "unwinding" => outcome'[j].st # "none"
                      /\ run'[j] \in {"queued", "running", "unwinding"} => job'[j].st = "running"
                      /\ leftover'[j] = 1 => run'[j] = "unwinding"
    BY DEF Begun
  <2>1. CASE j \in new
    <3>1. leftover'[j] # 1
      BY <2>1, <1>5 DEF StartJobs, IInv, Begun
    <3> QED
      BY <2>1, <3>1, <1>3, <1>12, <1>13
  <2>2. CASE j \notin new
    <3>1. job'[j] = job[j] /\ r[j] = run[j]
      BY <2>2, <1>3, <1>13
    <3>2. row'[j] = IF run'[j] = "running" /\ run[j] # "running" /\ row[j] # "cancelled"
                    THEN "running" ELSE row[j]
      BY <2>2 DEF StartJobs, RowsAfter
    <3> QED
      BY <3>1, <3>2, <1>12 DEF StartJobs, IInv, Begun
  <2> QED
    BY <2>1, <2>2
<1>16. \A j \in Singles : run[j] = "done" /\ ~job[j].retryable => run'[j] = "done" /\ job'[j] = job[j]
  BY <1>3, <1>5, <1>12, <1>13 DEF Jobs
<1>17. notices' = notices /\ published' = published
  BY DEF StartJobs
<1>18. NoticesAreLast' /\ PublishedIsLast'
  BY <1>16, <1>17, LastWordKept DEF IInv
<1>19. AdmittedWithin
  BY <1>3, <1>12 DEF AdmittedWithin
<1> QED
  BY <1>12, <1>14, <1>15, <1>18, <1>19 DEF IInv

\* An admission that changes no record keeps what is said of the jobs.
LEMMA AdmitOnly ==
    ASSUME IInv, NEW lim \in Limits, NEW off \in Int,
           Admit(waiters, run, lim, off), RowsAfter(row), limit' = lim, withheld' = off,
           UNCHANGED <<job, outcome, leftover, cancels, notices, published>>,
           claimed' \in [Jobs -> Nat]
    PROVE  IInv' /\ AdmittedWithin
<1>1. PICK w \in Seq(Jobs), r \in [Jobs -> RunStates] :
          w = waiters /\ r = run /\ Distinct(w) /\ AllQueued(w, r)
  BY DEF IInv, Gate, GateOK, AllQueued
<1>2. /\ Gate'
      /\ \A j \in Jobs : run'[j] = r[j] \/ (r[j] = "queued" /\ run'[j] = "running")
      /\ (\E j \in Jobs : r[j] # "running" /\ run'[j] = "running")
           => Cardinality(Held(run')) + withheld' <= limit'
  <2>1. lim \in Nat /\ Admit(w, r, lim, off)
    BY <1>1, LimitsAssumption
  <2> QED
    BY <2>1, <1>1, AdmitStep
<1>3. \A j \in Jobs : row'[j] = IF run'[j] = "running" /\ run[j] # "running" /\ row[j] # "cancelled"
                                THEN "running" ELSE row[j]
  BY DEF RowsAfter
<1>4. Kinds'
  <2>1. row' \in [Jobs -> {"none", "running", "cancelling", "completed", "failed", "cancelled"}]
    BY DEF RowsAfter, IInv, Kinds
  <2> QED
    BY <2>1 DEF IInv, Kinds
<1>5. Begun'
  <2> SUFFICES ASSUME NEW j \in Jobs
               PROVE  /\ job'[j].st = "none" => run'[j] = "none" /\ row'[j] = "none" /\ j \notin cancels'
                      /\ run'[j] = "unwinding" => outcome'[j].st # "none"
                      /\ run'[j] \in {"queued", "running", "unwinding"} => job'[j].st = "running"
                      /\ leftover'[j] = 1 => run'[j] = "unwinding"
    BY DEF Begun
  <2> QED
    BY <1>1, <1>2, <1>3 DEF IInv, Begun
<1>6. NoticesAreLast' /\ PublishedIsLast'
  <2>1. \A j \in Singles : run[j] = "done" /\ ~job[j].retryable => run'[j] = "done" /\ job'[j] = job[j]
    BY <1>1, <1>2 DEF Jobs
  <2> QED
    BY <2>1, LastWordKept DEF IInv
<1>7. AdmittedWithin
  BY <1>1, <1>2 DEF AdmittedWithin
<1> QED
  BY <1>2, <1>4, <1>5, <1>6, <1>7 DEF IInv

\* A new limit keeps the invariant.
LEMMA SetLimitStep ==
    ASSUME IInv, NEW n \in Limits, SetLimit(n)
    PROVE  IInv' /\ AdmittedWithin
<1>1. PICK off \in Int : off = withheld
  BY DEF IInv, Kinds
<1> QED
  BY <1>1, AdmitOnly DEF SetLimit, IInv, Kinds

\* A step that leaves the gate, the jobs and what was said alone keeps the invariant.
LEMMA RowStep ==
    ASSUME IInv, UNCHANGED <<job, run, outcome, waiters, withheld, limit, published>>,
           leftover' \in [Jobs -> {0, 1}], claimed' \in [Jobs -> Nat],
           \A j \in Jobs : leftover'[j] <= leftover[j],
           notices' \subseteq notices, cancels' \subseteq Jobs,
           row' \in [Jobs -> {"none", "running", "cancelling", "completed", "failed", "cancelled"}],
           \A j \in Jobs : job[j].st = "none" => row'[j] = "none" /\ j \notin cancels'
    PROVE  IInv' /\ AdmittedWithin
<1>1. Kinds'
  BY DEF IInv, Kinds
<1>2. Gate'
  BY DEF IInv, Gate, GateOK, Distinct, AllQueued, Held
<1>3. Begun'
  <2>1. \A j \in Jobs : leftover'[j] = 1 => leftover[j] = 1
    BY DEF IInv, Kinds
  <2> QED
    BY <2>1 DEF IInv, Begun
<1>4. NoticesAreLast' /\ PublishedIsLast'
  BY LastWordKept DEF IInv, Jobs
<1> QED
  BY <1>1, <1>2, <1>3, <1>4 DEF IInv, AdmittedWithin

\* A run that ends keeps the invariant: its permit is held until it settles.
LEMMA EndsStep ==
    ASSUME IInv, NEW j \in Jobs, run[j] = "running", Ends(j, outcome'[j]),
           outcome'[j] \in [st : {"completed", "failed", "cancelled"}, retryable : BOOLEAN],
           leftover' \in [Jobs -> {0, 1}], \A i \in Jobs : i # j => leftover'[i] = leftover[i]
    PROVE  IInv' /\ AdmittedWithin
<1>1. run' = [run EXCEPT ![j] = "unwinding"] /\ outcome' = [outcome EXCEPT ![j] = outcome'[j]]
  BY DEF Ends
<1>2. run \in [Jobs -> RunStates]
  BY DEF IInv, Gate, GateOK
<1>3. row' \in [Jobs -> {"none", "running", "cancelling", "completed", "failed", "cancelled"}]
  BY DEF Ends, Shown, IInv, Kinds
<1>4. Kinds'
  <2>1. outcome' \in [Jobs -> [st : JobStates \ {"running"}, retryable : BOOLEAN]]
    BY <1>1 DEF IInv, Kinds, JobStates
  <2> QED
    BY <2>1, <1>3 DEF Ends, gateVars, IInv, Kinds
<1>5. Gate'
  <2>1. run' \in [Jobs -> RunStates]
    BY <1>1, <1>2 DEF RunStates
  <2>2. Held(run') = Held(run)
    BY <1>1, <1>2 DEF Held
  <2>3. \A i \in 1..Len(waiters) : run'[waiters[i]] = "queued"
    BY <1>1, <1>2, ElementOfSeq DEF IInv, Gate, GateOK, AllQueued
  <2>4. waiters' = waiters /\ limit' = limit /\ withheld' = withheld
    BY DEF Ends, gateVars
  <2>5. GateOK(waiters', run', limit', withheld')
    BY <2>1, <2>2, <2>3, <2>4 DEF IInv, Gate, GateOK, AllQueued
  <2> QED
    BY <2>5 DEF Gate, GateOK, Distinct, AllQueued, Held
<1>6. Begun'
  <2> SUFFICES ASSUME NEW i \in Jobs
               PROVE  /\ job'[i].st = "none" => run'[i] = "none" /\ row'[i] = "none" /\ i \notin cancels'
                      /\ run'[i] = "unwinding" => outcome'[i].st # "none"
                      /\ run'[i] \in {"queued", "running", "unwinding"} => job'[i].st = "running"
                      /\ leftover'[i] = 1 => run'[i] = "unwinding"
    BY DEF Begun
  <2>1. job'[i] = job[i] /\ cancels' = cancels
    BY DEF Ends
  <2>2. CASE i = j
    BY <2>1, <2>2, <1>1, <1>2 DEF IInv, Begun
  <2>3. CASE i # j
    <3>1. run'[i] = run[i] /\ outcome'[i] = outcome[i] /\ row'[i] = row[i]
      BY <2>3, <1>1, <1>2 DEF Ends, IInv, Kinds
    <3>2. leftover'[i] = leftover[i]
      BY <2>3
    <3> QED
      BY <2>1, <3>1, <3>2 DEF IInv, Begun
  <2> QED
    BY <2>2, <2>3
<1>7. NoticesAreLast' /\ PublishedIsLast'
  <2>1. \A i \in Singles : run[i] = "done" /\ ~job[i].retryable => run'[i] = "done" /\ job'[i] = job[i]
    BY <1>1, <1>2 DEF Ends, Jobs
  <2>2. notices' = notices /\ published' = published
    BY DEF Ends
  <2> QED
    BY <2>1, <2>2, LastWordKept DEF IInv
<1>8. AdmittedWithin
  BY <1>1, <1>2 DEF AdmittedWithin
<1> QED
  BY <1>4, <1>5, <1>6, <1>7, <1>8 DEF IInv

\* A job that settles keeps the invariant, whatever the gate withholds by then.
LEMMA SettledStep ==
    ASSUME IInv, NEW j \in Jobs, run[j] = "unwinding", NEW off \in Int, Settled(j, off),
           withheld' = off, leftover' \in [Jobs -> {0, 1}], claimed' \in [Jobs -> Nat],
           leftover'[j] = 0, \A i \in Jobs : i # j => leftover'[i] = leftover[i]
    PROVE  IInv' /\ AdmittedWithin
<1>1. PICK w \in Seq(Jobs), o \in [Jobs -> RunStates] :
          w = waiters /\ o = run /\ Distinct(w) /\ AllQueued(w, o)
  BY DEF IInv, Gate, GateOK, AllQueued
<1>2. PICK r \in [Jobs -> RunStates] : r = [run EXCEPT ![j] = "done"]
  BY <1>1 DEF RunStates
<1>3. PICK lim \in Nat : lim = limit
  BY LimitsAssumption DEF IInv, Kinds
<1>4. \A i \in Jobs : r[i] = IF i = j THEN "done" ELSE run[i]
  BY <1>1, <1>2
<1>5. AllQueued(w, r)
  BY <1>1, <1>4, ElementOfSeq DEF AllQueued
<1>6. Admit(w, r, lim, off) /\ limit' = lim
  BY <1>1, <1>2, <1>3 DEF Settled
<1>7. /\ Gate'
      /\ \A i \in Jobs : run'[i] = r[i] \/ (r[i] = "queued" /\ run'[i] = "running")
      /\ (\E i \in Jobs : r[i] # "running" /\ run'[i] = "running")
           => Cardinality(Held(run')) + withheld' <= limit'
  BY <1>1, <1>5, <1>6, AdmitStep
<1>8. /\ \A i \in Jobs : i # j => job'[i] = job[i]
      /\ job'[j].st = outcome[j].st
      /\ job'[j].retryable = outcome[j].retryable
      /\ job' \in [Jobs -> [st : JobStates, retryable : BOOLEAN, attempt : Nat]]
  <2>1. job' = [job EXCEPT ![j].st = outcome[j].st, ![j].retryable = outcome[j].retryable]
    BY DEF Settled
  <2>2. /\ job \in [Jobs -> [st : JobStates, retryable : BOOLEAN, attempt : Nat]]
        /\ outcome[j].st \in JobStates /\ outcome[j].retryable \in BOOLEAN
    BY DEF IInv, Kinds
  <2> QED
    BY <2>1, <2>2
<1>9. row' \in [Jobs -> {"none", "running", "cancelling", "completed", "failed", "cancelled"}]
  <2>1. \A i \in Jobs : Shown(i, outcome[i].st) \in {"none", "running", "cancelling", "completed", "failed", "cancelled"}
    BY DEF Shown, IInv, Kinds, JobStates
  <2> QED
    BY <2>1 DEF Settled, RowsAfter, IInv, Kinds
<1>10. /\ outcome' = [outcome EXCEPT ![j] = NoOutcome]
       /\ limit' = limit
       /\ cancels' = cancels
       /\ published' = published
       /\ notices' \subseteq notices \cup {n \in notices' : n.job = j /\ ~outcome[j].retryable}
  BY DEF Settled, Reporting
<1>11. Kinds'
  <2>1. outcome' \in [Jobs -> [st : JobStates \ {"running"}, retryable : BOOLEAN]]
    BY <1>10 DEF IInv, Kinds, JobStates, NoOutcome
  <2>2. \A n \in notices' : n.job \in Jobs
    BY <1>10 DEF IInv, Kinds
  <2> QED
    BY <2>1, <2>2, <1>8, <1>9, <1>10 DEF IInv, Kinds
<1>12. Begun'
  <2> SUFFICES ASSUME NEW i \in Jobs
               PROVE  /\ job'[i].st = "none" => run'[i] = "none" /\ row'[i] = "none" /\ i \notin cancels'
                      /\ run'[i] = "unwinding" => outcome'[i].st # "none"
                      /\ run'[i] \in {"queued", "running", "unwinding"} => job'[i].st = "running"
                      /\ leftover'[i] = 1 => run'[i] = "unwinding"
    BY DEF Begun
  <2>1. CASE i = j
    <3>1. job'[j].st # "none"
      BY <1>8 DEF IInv, Begun
    <3>2. run'[j] = "done"
      BY <1>4, <1>7
    <3> QED
      BY <2>1, <3>1, <3>2
  <2>2. CASE i # j
    <3>1. job'[i] = job[i] /\ outcome'[i] = outcome[i] /\ cancels' = cancels
      BY <2>2, <1>8, <1>10 DEF IInv, Kinds
    <3>2. run'[i] = run[i] \/ (run[i] = "queued" /\ run'[i] = "running")
      BY <2>2, <1>4, <1>7
    <3>3. row'[i] = IF run'[i] = "running" /\ run[i] # "running" /\ row[i] # "cancelled"
                    THEN "running" ELSE row[i]
      BY <2>2 DEF Settled, RowsAfter, IInv, Kinds
    <3> QED
      BY <3>1, <3>2, <3>3 DEF IInv, Begun
  <2> QED
    BY <2>1, <2>2
<1>13. NoticesAreLast' /\ PublishedIsLast'
  <2>1. \A i \in Jobs : run[i] = "done" => run'[i] = "done" /\ job'[i] = job[i]
    BY <1>4, <1>7, <1>8
  <2>2. NoticesAreLast'
    <3> SUFFICES ASSUME NEW n \in notices', n.job \in Singles
                 PROVE  run'[n.job] = "done" /\ ~job'[n.job].retryable
      BY DEF NoticesAreLast
    <3>1. CASE n \in notices
      BY <3>1, <2>1 DEF IInv, NoticesAreLast, Jobs
    <3>2. CASE n \notin notices
      BY <3>2, <1>4, <1>7, <1>8, <1>10
    <3> QED
      BY <3>1, <3>2
  <2>3. PublishedIsLast'
    <3>1. ASSUME NEW e \in DOMAIN published, NEW i \in Singles, e.items = {i}
          PROVE  ~job'[i].retryable /\ published[e] = Report({i})' /\ run'[i] = "done"
      <4>1. ~job[i].retryable /\ published[e] = Report({i}) /\ run[i] = "done"
        BY <3>1 DEF IInv, PublishedIsLast
      <4>2. run'[i] = "done" /\ job'[i] = job[i]
        BY <4>1, <2>1 DEF Jobs
      <4> QED
        BY <4>1, <4>2 DEF Report
    <3> QED
      BY <3>1, <1>10 DEF PublishedIsLast
  <2> QED
    BY <2>2, <2>3
<1>14. AdmittedWithin
  BY <1>4, <1>7 DEF AdmittedWithin
<1> QED
  BY <1>7, <1>11, <1>12, <1>13, <1>14 DEF IInv

\* A retry keeps the invariant: the job queues behind everybody who waits.
LEMMA RetryStep ==
    ASSUME IInv, NEW j \in Jobs, Retry(j)
    PROVE  IInv' /\ AdmittedWithin
<1>1. PICK w \in Seq(Jobs), o \in [Jobs -> RunStates] :
          w = waiters /\ o = run /\ Distinct(w) /\ AllQueued(w, o)
  BY DEF IInv, Gate, GateOK, AllQueued
<1>2. PICK r \in [Jobs -> RunStates] : r = [run EXCEPT ![j] = "queued"]
  BY <1>1 DEF RunStates
<1>3. PICK lim \in Nat, off \in Int : lim = limit /\ off = withheld
  BY LimitsAssumption DEF IInv, Kinds
<1>4. \A i \in Jobs : r[i] = IF i = j THEN "queued" ELSE run[i]
  BY <1>1, <1>2
<1>5. PICK q \in Seq(Jobs) : /\ q = Append(w, j)
                            /\ Len(q) = Len(w) + 1
                            /\ \A i \in 1..Len(w) : q[i] = w[i]
                            /\ q[Len(w) + 1] = j
  <2>1. /\ Append(w, j) \in Seq(Jobs)
        /\ Len(Append(w, j)) = Len(w) + 1
        /\ \A i \in 1..Len(w) : Append(w, j)[i] = w[i]
        /\ Append(w, j)[Len(w) + 1] = j
    BY AppendProperties
  <2> QED
    BY <2>1, Zenon
<1>6. Len(w) \in Nat /\ run[j] # "queued"
  BY DEF Retry, Recoverable, IInv, Begun
<1>7. \A i \in 1..Len(w) : w[i] \in Jobs /\ w[i] # j /\ r[w[i]] = "queued"
  BY <1>1, <1>4, <1>6, ElementOfSeq DEF AllQueued
<1>8. Distinct(q)
  BY <1>1, <1>5, <1>6, <1>7 DEF Distinct
<1>9. AllQueued(q, r)
  BY <1>4, <1>5, <1>6, <1>7 DEF AllQueued
<1>10. Admit(q, r, lim, off) /\ limit' = lim /\ withheld' = off
  BY <1>1, <1>2, <1>3, <1>5 DEF Retry
<1>11. /\ Gate'
       /\ \A i \in Jobs : run'[i] = r[i] \/ (r[i] = "queued" /\ run'[i] = "running")
       /\ (\E i \in Jobs : r[i] # "running" /\ run'[i] = "running")
            => Cardinality(Held(run')) + withheld' <= limit'
  BY <1>8, <1>9, <1>10, AdmitStep
<1>12. /\ job' = [job EXCEPT ![j] = [st |-> "running", retryable |-> FALSE, attempt |-> job[j].attempt + 1]]
       /\ job[j].retryable
       /\ UNCHANGED <<outcome, leftover, claimed, limit, cancels, notices, published>>
  BY DEF Retry
<1>13. \A i \in Jobs : row'[i] = IF run'[i] = "running" /\ run[i] # "running"
                                    /\ [row EXCEPT ![j] = "running"][i] # "cancelled"
                                 THEN "running" ELSE [row EXCEPT ![j] = "running"][i]
  BY DEF Retry, RowsAfter
<1>14. row' \in [Jobs -> {"none", "running", "cancelling", "completed", "failed", "cancelled"}]
  BY DEF Retry, RowsAfter, IInv, Kinds
<1>15. Kinds'
  <2>1. job' \in [Jobs -> [st : JobStates, retryable : BOOLEAN, attempt : Nat]]
    BY <1>12 DEF IInv, Kinds, JobStates
  <2>2. withheld' \in Int
    BY <1>10
  <2> QED
    BY <2>1, <2>2, <1>12, <1>14 DEF IInv, Kinds
<1>16. Begun'
  <2> SUFFICES ASSUME NEW i \in Jobs
               PROVE  /\ job'[i].st = "none" => run'[i] = "none" /\ row'[i] = "none" /\ i \notin cancels'
                      /\ run'[i] = "unwinding" => outcome'[i].st # "none"
                      /\ run'[i] \in {"queued", "running", "unwinding"} => job'[i].st = "running"
                      /\ leftover'[i] = 1 => run'[i] = "unwinding"
    BY DEF Begun
  <2>1. CASE i = j
    <3>1. job'[j].st = "running"
      BY <1>12 DEF IInv, Kinds
    <3>2. run'[j] # "unwinding"
      BY <1>4, <1>11
    <3>3. leftover'[j] # 1
      BY <1>12 DEF Retry, Recoverable, IInv, Begun
    <3> QED
      BY <2>1, <3>1, <3>2, <3>3
  <2>2. CASE i # j
    <3>1. job'[i] = job[i] /\ r[i] = run[i]
      BY <2>2, <1>4, <1>12 DEF IInv, Kinds
    <3>2. [row EXCEPT ![j] = "running"][i] = row[i]
      BY <2>2 DEF IInv, Kinds
    <3> QED
      BY <3>1, <3>2, <1>11, <1>12, <1>13 DEF IInv, Begun
  <2> QED
    BY <2>1, <2>2
<1>17. NoticesAreLast' /\ PublishedIsLast'
  <2>1. \A i \in Singles : run[i] = "done" /\ ~job[i].retryable => run'[i] = "done" /\ job'[i] = job[i]
    BY <1>4, <1>11, <1>12 DEF Jobs, IInv, Kinds
  <2> QED
    BY <2>1, <1>12, LastWordKept DEF IInv
<1>18. AdmittedWithin
  BY <1>4, <1>11 DEF AdmittedWithin
<1> QED
  BY <1>11, <1>15, <1>16, <1>17, <1>18 DEF IInv

\* A message that goes out keeps the invariant.
LEMMA PublishStep ==
    ASSUME IInv, NEW n \in notices, Publish(n)
    PROVE  IInv' /\ AdmittedWithin
<1>1. /\ UNCHANGED <<job, run, outcome, leftover, claimed, waiters, withheld, limit, row, cancels>>
      /\ notices' \subseteq notices
  BY DEF Publish, gateVars, runnerVars, panelVars
<1>2. Kinds' /\ Begun' /\ NoticesAreLast'
  BY <1>1 DEF IInv, Kinds, Begun, NoticesAreLast
<1>3. Gate'
  BY <1>1 DEF IInv, Gate, GateOK, Distinct, AllQueued, Held
<1>4. PublishedIsLast'
  <2> SUFFICES ASSUME NEW e \in DOMAIN published', NEW j \in Singles, e.items = {j}
               PROVE  ~job[j].retryable /\ published'[e] = Report({j}) /\ run[j] = "done"
    BY <1>1 DEF PublishedIsLast, Report
  <2> DEFINE new == IF Reportable(n) THEN {EntryOf(n)} \ DOMAIN published ELSE {}
  <2>1. published' = [x \in DOMAIN published \cup new |-> IF x \in new THEN Report(x.items) ELSE published[x]]
    BY DEF Publish
  <2>2. CASE e \in new
    <3>1. e = EntryOf(n) /\ published'[e] = Report(e.items)
      BY <2>1, <2>2
    <3>2. n.job \notin Batch
      <4> SUFFICES ASSUME n.job \in Batch PROVE FALSE
        OBVIOUS
      <4>1. e.items = Batch
        BY <3>1 DEF EntryOf, BatchEntry
      <4> QED
        BY <4>1, JobsAssumption
    <3>3. n.job = j
      BY <3>1, <3>2 DEF EntryOf, SingleEntry
    <3> QED
      BY <3>1, <3>3 DEF IInv, NoticesAreLast
  <2>3. CASE e \notin new
    BY <2>1, <2>3 DEF IInv, PublishedIsLast
  <2> QED
    BY <2>2, <2>3
<1> QED
  BY <1>1, <1>2, <1>3, <1>4 DEF IInv, AdmittedWithin

\* Every step keeps the invariant.
LEMMA Inductive ==
    ASSUME IInv, [Next]_vars
    PROVE  IInv' /\ AdmittedWithin
<1>0. ASSUME leftover' = leftover, claimed' = claimed
      PROVE  /\ leftover' \in [Jobs -> {0, 1}] /\ claimed' \in [Jobs -> Nat]
             /\ \A j \in Jobs : leftover'[j] <= leftover[j]
  BY <1>0 DEF IInv, Kinds
<1>1. ASSUME StartBatch PROVE IInv' /\ AdmittedWithin
  <2>1. Batch \in SUBSET Jobs
    BY DEF Jobs
  <2> QED
    BY <1>1, <2>1, StartJobsStep DEF StartBatch
<1>2. ASSUME NEW js \in SUBSET Jobs, Cancel(js) PROVE IInv' /\ AdmittedWithin
  <2>1. \A j \in js : row[j] = "running"
    BY <1>2 DEF Cancel
  <2>2. \A j \in Jobs : job[j].st = "none" => row'[j] = "none" /\ j \notin cancels'
    BY <1>2, <2>1 DEF Cancel, IInv, Begun
  <2>3. row' \in [Jobs -> {"none", "running", "cancelling", "completed", "failed", "cancelled"}]
    BY <1>2 DEF Cancel, IInv, Kinds
  <2>4. cancels' \subseteq Jobs
    BY <1>2 DEF Cancel, IInv, Kinds
  <2>5. UNCHANGED <<job, run, outcome, leftover, claimed, waiters, withheld, limit, published, notices>>
    BY <1>2 DEF Cancel, gateVars
  <2> QED
    BY <2>2, <2>3, <2>4, <2>5, <1>0, RowStep
<1>3. ASSUME NEW n \in Limits, SetLimit(n) PROVE IInv' /\ AdmittedWithin
  BY <1>3, SetLimitStep
<1>4. ASSUME NEW n \in notices, Publish(n) PROVE IInv' /\ AdmittedWithin
  BY <1>4, PublishStep
<1>5. ASSUME NEW j \in Jobs, StartJob(j) PROVE IInv' /\ AdmittedWithin
  <2>1. {j} \in SUBSET Jobs
    OBVIOUS
  <2> QED
    BY <1>5, <2>1, StartJobsStep DEF StartJob
<1>6. ASSUME NEW j \in Jobs, StartTool(j) PROVE IInv' /\ AdmittedWithin
  <2>1. job[j].st # "none"
    BY <1>6 DEF StartTool, IInv, Begun
  <2>2. row' \in [Jobs -> {"none", "running", "cancelling", "completed", "failed", "cancelled"}]
    BY <1>6 DEF StartTool, Shown, IInv, Kinds
  <2>3. UNCHANGED <<job, run, outcome, leftover, claimed, waiters, withheld, limit, published, notices, cancels>>
    BY <1>6 DEF StartTool, gateVars
  <2>4. \A i \in Jobs : job[i].st = "none" => row'[i] = "none" /\ i \notin cancels'
    BY <1>6, <2>1, <2>3 DEF StartTool, IInv, Kinds, Begun
  <2> QED
    BY <2>2, <2>3, <2>4, <1>0, RowStep DEF IInv, Kinds
<1>7. ASSUME NEW j \in Jobs, ToolReturns(j) PROVE IInv' /\ AdmittedWithin
  <2>1. UNCHANGED <<job, run, outcome, leftover, claimed, waiters, withheld, limit, published, notices, cancels, row>>
    BY <1>7 DEF ToolReturns, gateVars, panelVars
  <2> QED
    BY <2>1, <1>0, RowStep DEF IInv, Kinds, Begun
<1>8. ASSUME NEW j \in Jobs, RunEnds(j) PROVE IInv' /\ AdmittedWithin
  <2>1. PICK res \in [st : {"completed", "failed", "cancelled"}, retryable : BOOLEAN] : Ends(j, res)
    BY <1>8 DEF RunEnds
  <2>2. outcome'[j] = res
    BY <2>1 DEF Ends, IInv, Kinds
  <2>3. leftover' = leftover /\ claimed' = claimed
    BY <1>8, <2>1 DEF RunEnds, Ends
  <2> QED
    BY <1>8, <1>0, <2>1, <2>2, <2>3, EndsStep DEF RunEnds
<1>9. ASSUME NEW j \in Jobs, RunCancelled(j) PROVE IInv' /\ AdmittedWithin
  <2>1. PICK res \in [st : {"completed", "failed", "cancelled"}, retryable : BOOLEAN] : Ends(j, res)
    BY <1>9 DEF RunCancelled
  <2>2. outcome'[j] = res
    BY <2>1 DEF Ends, IInv, Kinds
  <2>3. leftover[j] = 0
    BY <1>9 DEF RunCancelled, IInv, Kinds, Begun
  <2>4. leftover' \in [Jobs -> {0, 1}] /\ \A i \in Jobs : i # j => leftover'[i] = leftover[i]
    BY <1>9, <2>3 DEF RunCancelled, IInv, Kinds
  <2> QED
    BY <1>9, <2>1, <2>2, <2>4, EndsStep DEF RunCancelled
<1>10. ASSUME NEW j \in Jobs, ToolStops(j) PROVE IInv' /\ AdmittedWithin
  <2>1. CASE /\ leftover[j] > 0
             /\ leftover' = [leftover EXCEPT ![j] = @ - 1]
             /\ UNCHANGED <<job, batch, gateVars, run, outcome, aborted, tool, claimed,
                            panelVars, notices, published>>
    <3>1. UNCHANGED <<job, run, outcome, claimed, waiters, withheld, limit, published, notices, cancels, row>>
      BY <2>1 DEF gateVars, panelVars
    <3>2. /\ leftover' \in [Jobs -> {0, 1}]
          /\ \A i \in Jobs : leftover'[i] <= leftover[i]
      <4>1. leftover \in [Jobs -> {0, 1}]
        BY DEF IInv, Kinds
      <4>2. leftover[j] = 1
        BY <2>1, <4>1
      <4>3. leftover' = [leftover EXCEPT ![j] = 0]
        BY <2>1, <4>2
      <4> QED
        BY <4>1, <4>3
    <3>3. claimed' \in [Jobs -> Nat]
      BY <3>1 DEF IInv, Kinds
    <3> QED
      BY <3>1, <3>2, <3>3, RowStep DEF IInv, Kinds, Begun
  <2>2. CASE /\ claimed[j] > 0
             /\ claimed' = [claimed EXCEPT ![j] = @ - 1]
             /\ withheld' = withheld - 1
             /\ Admit(waiters, run, limit, withheld - 1)
             /\ RowsAfter(row)
             /\ UNCHANGED <<job, batch, outcome, leftover, limit, cancels, retrier,
                            notices, published>>
    <3>1. PICK lim \in Limits, off \in Int : lim = limit /\ off = withheld - 1
      BY DEF IInv, Kinds
    <3>2. claimed' \in [Jobs -> Nat]
      BY <2>2 DEF IInv, Kinds
    <3> QED
      BY <2>2, <3>1, <3>2, AdmitOnly
  <2> QED
    BY <1>10, <2>1, <2>2 DEF ToolStops
<1>11. ASSUME NEW j \in Jobs, Settle(j) PROVE IInv' /\ AdmittedWithin
  <2>1. PICK off \in Int : off = withheld
    BY DEF IInv, Kinds
  <2>2. leftover[j] = 0
    BY <1>11 DEF Settle, IInv, Kinds
  <2>3. leftover' = leftover /\ claimed' = claimed
    BY <1>11 DEF Settle
  <2> QED
    BY <1>11, <1>0, <2>1, <2>2, <2>3, SettledStep DEF Settle
<1>12. ASSUME NEW j \in Jobs, GiveUpWaiting(j) PROVE IInv' /\ AdmittedWithin
  <2>1. PICK off \in Int : off = withheld + (IF leftover[j] > 0 THEN 1 ELSE 0)
    BY DEF IInv, Kinds
  <2>2. /\ leftover' \in [Jobs -> {0, 1}]
        /\ leftover'[j] = 0
        /\ \A i \in Jobs : i # j => leftover'[i] = leftover[i]
    BY <1>12 DEF GiveUpWaiting, IInv, Kinds
  <2>3. claimed' \in [Jobs -> Nat]
    BY <1>12 DEF GiveUpWaiting, IInv, Kinds
  <2> QED
    BY <1>12, <2>1, <2>2, <2>3, SettledStep DEF GiveUpWaiting
<1>13. ASSUME NEW j \in Jobs, CancelReturns(j) PROVE IInv' /\ AdmittedWithin
  <2>1. job[j].st # "none"
    BY <1>13 DEF CancelReturns, IInv, Begun
  <2>2. row' \in [Jobs -> {"none", "running", "cancelling", "completed", "failed", "cancelled"}]
    BY <1>13 DEF CancelReturns, Shown, IInv, Kinds
  <2>3. UNCHANGED <<job, run, outcome, leftover, claimed, waiters, withheld, limit, published, notices>>
    BY <1>13 DEF CancelReturns, gateVars, runnerVars
  <2>4. \A i \in Jobs : job[i].st = "none" => row'[i] = "none" /\ i \notin cancels'
    BY <1>13, <2>1 DEF CancelReturns, IInv, Kinds, Begun
  <2>5. cancels' \subseteq Jobs
    BY <1>13 DEF CancelReturns, IInv, Kinds
  <2> QED
    BY <2>2, <2>3, <2>4, <2>5, <1>0, RowStep
<1>14. ASSUME NEW j \in Jobs, Retry(j) PROVE IInv' /\ AdmittedWithin
  BY <1>14, RetryStep
<1>15. ASSUME UNCHANGED vars PROVE IInv' /\ AdmittedWithin
  <2>1. UNCHANGED <<job, run, outcome, leftover, claimed, waiters, withheld, limit, published, notices, cancels, row>>
    BY <1>15 DEF vars, gateVars, runnerVars, panelVars
  <2> QED
    BY <2>1, <1>0, RowStep DEF IInv, Kinds, Begun
<1> QED
  BY <1>1, <1>2, <1>3, <1>4, <1>5, <1>6, <1>7, <1>8, <1>9, <1>10, <1>11, <1>12, <1>13, <1>14, <1>15 DEF Next

-----------------------------------------------------------------------------
(* The theorems.                                                           *)

\* The invariant holds when the task's session opens.
LEMMA Initial ==
    ASSUME Init
    PROVE  IInv
<1>1. Kinds
  BY DEF Init, Kinds, JobStates, NoJob, NoOutcome
<1>2. Gate
  <2>1. waiters = <<>> /\ waiters \in Seq(Jobs) /\ Len(waiters) = 0
    BY EmptySeq DEF Init
  <2>2. run \in [Jobs -> RunStates]
    BY DEF Init, RunStates
  <2> QED
    BY <2>1, <2>2 DEF Gate, GateOK, Distinct, AllQueued
<1>3. Begun /\ NoticesAreLast /\ PublishedIsLast
  BY DEF Init, Begun, NoJob, NoticesAreLast, PublishedIsLast
<1> QED
  BY <1>1, <1>2, <1>3 DEF IInv

\* The gate, the records and what was said stay consistent for ever.
THEOREM JobsStayConsistent == Spec => []IInv
<1>1. Init => IInv
  BY Initial
<1>2. IInv /\ [Next]_vars => IInv'
  BY Inductive, Zenon
<1> QED
  BY <1>1, <1>2, PTL DEF Spec

\* Nobody waits at the gate while it has room, for any jobs, any limits and any
\* number of attempts, whatever escaped tools are charged (admitWaiters).
THEOREM NobodyWaits == Spec => []NobodyWaitsBesideRoom
<1>1. IInv => NobodyWaitsBesideRoom
  BY DEF IInv, Gate, GateOK, Held, NobodyWaitsBesideRoom, Holders
<1> QED
  BY <1>1, JobsStayConsistent, PTL

\* What is published of a single job is its last word, for ever
\* (publishSubagentSettlement).
THEOREM LastWord == Spec => []PublishedIsLast
<1>1. IInv => PublishedIsLast
  BY DEF IInv
<1> QED
  BY <1>1, JobsStayConsistent, PTL

\* One step revives a cancelled row only by a retry.
LEMMA RevivedByRetry ==
    ASSUME IInv, Next, NEW j \in Jobs, row[j] = "cancelled", row'[j] # row[j]
    PROVE  job'[j].attempt = job[j].attempt + 1
<1> USE DEF IInv, Kinds
<1>1. ASSUME NEW new \in SUBSET Jobs, StartJobs(new) PROVE FALSE
  <2>1. j \notin new
    BY <1>1 DEF StartJobs, Begun
  <2> QED
    BY <1>1, <2>1 DEF StartJobs, RowsAfter
<1>2. ASSUME NEW js \in SUBSET Jobs, Cancel(js) PROVE FALSE
  BY <1>2 DEF Cancel
<1>3. ASSUME NEW n \in Limits, SetLimit(n) PROVE FALSE
  BY <1>3 DEF SetLimit, RowsAfter
<1>4. ASSUME NEW n \in notices, Publish(n) PROVE FALSE
  BY <1>4 DEF Publish, panelVars
<1>5. ASSUME NEW i \in Jobs, StartTool(i) PROVE FALSE
  BY <1>5 DEF StartTool, Shown
<1>6. ASSUME NEW i \in Jobs, ToolReturns(i) PROVE FALSE
  BY <1>6 DEF ToolReturns, panelVars
<1>7. ASSUME NEW i \in Jobs, RunEnds(i) \/ RunCancelled(i) PROVE FALSE
  <2>1. ASSUME NEW res, Ends(i, res) PROVE FALSE
    BY <2>1 DEF Ends, Shown
  <2>2. CASE RunEnds(i)
    BY <2>1, <2>2 DEF RunEnds
  <2>3. CASE RunCancelled(i)
    BY <2>1, <2>3 DEF RunCancelled
  <2> QED
    BY <1>7, <2>2, <2>3
<1>8. ASSUME NEW i \in Jobs, ToolStops(i) PROVE FALSE
  BY <1>8 DEF ToolStops, RowsAfter, panelVars
<1>9. ASSUME NEW i \in Jobs, NEW off, Settled(i, off) PROVE FALSE
  BY <1>9 DEF Settled, RowsAfter, Shown
<1>10. ASSUME NEW i \in Jobs, Settle(i) \/ GiveUpWaiting(i) PROVE FALSE
  <2>1. \E off : Settled(i, off)
    BY <1>10 DEF Settle, GiveUpWaiting
  <2> QED
    BY <2>1, <1>9
<1>11. ASSUME NEW i \in Jobs, CancelReturns(i) PROVE FALSE
  BY <1>11 DEF CancelReturns, Shown
<1>12. ASSUME NEW i \in Jobs, Retry(i) PROVE job'[j].attempt = job[j].attempt + 1
  <2>1. CASE i = j
    BY <1>12, <2>1 DEF Retry
  <2>2. CASE i # j
    BY <1>12, <2>2 DEF Retry, RowsAfter
  <2> QED
    BY <2>1, <2>2
<1>13. ASSUME StartBatch PROVE FALSE
  BY <1>13, <1>1 DEF StartBatch, Jobs
<1>14. ASSUME NEW i \in Jobs, StartJob(i) PROVE FALSE
  <2>1. {i} \in SUBSET Jobs
    OBVIOUS
  <2> QED
    BY <1>14, <2>1, <1>1 DEF StartJob
<1> QED
  BY <1>2, <1>3, <1>4, <1>5, <1>6, <1>7, <1>8, <1>10, <1>11, <1>12, <1>13, <1>14 DEF Next

\* A cancelled row comes back to life only when the user retries the job, for
\* any number of jobs, attempts, late results and callbacks (applyUpdate).
THEOREM RetryAlone == Spec => OnlyRetryRevives
<1>1. IInv /\ [Next]_vars => [\A j \in Jobs : row[j] = "cancelled" /\ row'[j] # row[j]
                                 => job'[j].attempt = job[j].attempt + 1]_vars
  BY RevivedByRetry
<1> QED
  BY <1>1, JobsStayConsistent, PTL DEF Spec, OnlyRetryRevives

-----------------------------------------------------------------------------
(* What the tools that outlived their run cost.  SumFunction adds up a      *)
(* function of a finite set; the recursion it stands for is unfolded here.  *)

\* The element the recursion takes from s, and one level of the recursion.
AnyOf(s) == CHOOSE x \in s : TRUE
Level(f, h, s) == IF s = {} THEN 0 ELSE f[AnyOf(s)] + h[s \ {AnyOf(s)}]
Sums(f, D, h) == h = [s \in SUBSET D |-> Level(f, h, s)]

LEMMA SumUnfolds ==
    ASSUME NEW f
    PROVE  SumFunction(f) = (CHOOSE h : Sums(f, DOMAIN f, h))[DOMAIN f]
BY Zenon DEF SumFunction, SumFunctionOnSet, FoldFunctionOnSet, MapThenFoldSet, Sums, Level, AnyOf

\* A set of natural numbers that is not empty has a least element.
LEMMA LeastOf ==
    ASSUME NEW S \in SUBSET Nat, S # {}
    PROVE  \E m \in S : \A n \in Nat : n < m => n \notin S
<1>1. PICK x \in S : \A y \in S : ~(<<y, x>> \in OpToRel(<, Nat))
  BY NatLessThanWellFounded, WFMin
<1>2. ASSUME NEW y \in S, y < x PROVE FALSE
  <2>1. y \in Nat /\ x \in Nat /\ y < x
    BY <1>2
  <2>2. <<y, x>> \in OpToRel(<, Nat)
    BY <2>1, Zenon DEF OpToRel
  <2> QED
    BY <1>1, <2>2
<1> QED
  BY <1>2

\* What is left of a finite set that is not empty is smaller.
LEMMA Smaller ==
    ASSUME NEW D, IsFiniteSet(D), NEW s \in SUBSET D
    PROVE  /\ IsFiniteSet(s) /\ Cardinality(s) \in Nat
           /\ s = {} => Cardinality(s) = 0
           /\ s # {} => /\ AnyOf(s) \in s
                        /\ s \ {AnyOf(s)} \in SUBSET D
                        /\ Cardinality(s \ {AnyOf(s)}) = Cardinality(s) - 1
                        /\ Cardinality(s) > 0
<1>1. IsFiniteSet(s)
  BY FS_Subset
<1>2. Cardinality(s) \in Nat /\ (Cardinality(s) = 0 <=> s = {})
  BY <1>1, FS_CardinalityType, FS_EmptySet
<1>3. s # {} => AnyOf(s) \in s
  BY DEF AnyOf
<1>4. ASSUME s # {} PROVE Cardinality(s \ {AnyOf(s)}) = Cardinality(s) - 1
  BY <1>1, <1>3, <1>4, FS_RemoveElement
<1> QED
  BY <1>1, <1>2, <1>3, <1>4

\* An induction on the subsets of D by their size: a set G that contains s
\* whenever it contains what is left of s has them all.
LEMMA BySize ==
    ASSUME NEW D, IsFiniteSet(D), NEW G,
           \A s \in SUBSET D : (s = {} \/ s \ {AnyOf(s)} \in G) => s \in G
    PROVE  SUBSET D \subseteq G
<1> SUFFICES ASSUME NEW t \in SUBSET D, t \notin G
             PROVE  FALSE
  OBVIOUS
<1> DEFINE Sizes == {n \in Nat : \E s \in SUBSET D : s \notin G /\ Cardinality(s) = n}
<1>1. Cardinality(t) \in Sizes
  BY Smaller
<1> HIDE DEF Sizes
<1>2. PICK m \in Sizes : \A n \in Nat : n < m => n \notin Sizes
  <2>1. Sizes \in SUBSET Nat
    BY DEF Sizes
  <2> QED
    BY <1>1, <2>1, LeastOf
<1>3. PICK s \in SUBSET D : s \notin G /\ Cardinality(s) = m
  BY <1>2 DEF Sizes
<1>4. s # {} /\ s \ {AnyOf(s)} \notin G
  BY <1>3
<1>5. s \ {AnyOf(s)} \in SUBSET D /\ Cardinality(s \ {AnyOf(s)}) = m - 1 /\ m > 0 /\ m \in Nat
  BY <1>3, <1>4, Smaller
<1>6. m - 1 \in Sizes
  BY <1>4, <1>5 DEF Sizes
<1> QED
  BY <1>2, <1>5, <1>6

\* The recursion has a solution: one for the sets up to each size.
SumsUpTo(f, D, h, n) ==
    \A s \in SUBSET D : Cardinality(s) <= n => h[s] = Level(f, h, s)

LEMMA SumsNext ==
    ASSUME NEW D, IsFiniteSet(D), NEW f, NEW n \in Nat, NEW h, SumsUpTo(f, D, h, n)
    PROVE  \E g : SumsUpTo(f, D, g, n + 1)
<1> DEFINE g == [s \in SUBSET D |-> Level(f, h, s)]
<1>1. \A s \in SUBSET D : g[s] = Level(f, h, s)
  OBVIOUS
<1> HIDE DEF g
<1>2. ASSUME NEW s \in SUBSET D, Cardinality(s) <= n + 1
      PROVE  g[s] = Level(f, g, s)
  <2>1. CASE s = {}
    BY <1>1, <2>1 DEF Level
  <2>2. CASE s # {}
    <3>1. PICK r \in SUBSET D : r = s \ {AnyOf(s)} /\ Cardinality(r) <= n
      <4>1. Cardinality(s) \in Nat
        BY Smaller
      <4>2. s \ {AnyOf(s)} \in SUBSET D /\ Cardinality(s \ {AnyOf(s)}) = Cardinality(s) - 1
        BY <2>2, Smaller
      <4> QED
        BY <1>2, <4>1, <4>2
    <3>2. g[r] = h[r]
      BY <1>1, <3>1 DEF SumsUpTo
    <3> QED
      BY <1>1, <2>2, <3>1, <3>2 DEF Level
  <2> QED
    BY <2>1, <2>2
<1> QED
  BY <1>2 DEF SumsUpTo

LEMMA SumsExist ==
    ASSUME NEW D, IsFiniteSet(D), NEW f
    PROVE  \E h : Sums(f, D, h)
<1> DEFINE Missing == {n \in Nat : ~ \E h : SumsUpTo(f, D, h, n)}
<1>1. 0 \notin Missing
  <2>1. ASSUME NEW s \in SUBSET D, Cardinality(s) <= 0 PROVE s = {}
    <3>1. Cardinality(s) \in Nat
      BY Smaller
    <3>2. s # {} => Cardinality(s) > 0
      BY Smaller
    <3> QED
      BY <2>1, <3>1, <3>2
  <2>2. PICK h : h = [s \in SUBSET D |-> 0]
    OBVIOUS
  <2>3. SumsUpTo(f, D, h, 0)
    BY <2>1, <2>2 DEF SumsUpTo, Level
  <2> QED
    BY <2>3
<1>2. ASSUME NEW n \in Nat, n + 1 \in Missing PROVE n \in Missing
  BY <1>2, SumsNext
<1>3. Missing = {}
  <2> SUFFICES ASSUME Missing # {} PROVE FALSE
    OBVIOUS
  <2> HIDE DEF Missing
  <2>1. PICK m \in Missing : \A n \in Nat : n < m => n \notin Missing
    <3>1. Missing \in SUBSET Nat
      BY DEF Missing
    <3> QED
      BY <3>1, LeastOf
  <2>2. m \in Nat /\ m # 0
    BY <1>1 DEF Missing
  <2>3. m - 1 \in Nat /\ (m - 1) + 1 = m /\ m - 1 < m
    BY <2>2
  <2>4. m - 1 \in Missing
    BY <1>2, <2>1, <2>3
  <2> QED
    BY <2>1, <2>3, <2>4
<1>4. Cardinality(D) \in Nat
  BY FS_CardinalityType
<1>5. PICK h : SumsUpTo(f, D, h, Cardinality(D))
  BY <1>3, <1>4
<1> DEFINE g == [s \in SUBSET D |-> h[s]]
<1>6. \A s \in SUBSET D : Cardinality(s) <= Cardinality(D)
  BY FS_Subset
<1>7. \A s \in SUBSET D : g[s] = h[s] /\ h[s] = Level(f, h, s)
  BY <1>5, <1>6 DEF SumsUpTo
<1>8. \A s \in SUBSET D : Level(f, h, s) = Level(f, g, s)
  <2> SUFFICES ASSUME NEW s \in SUBSET D, s # {} PROVE Level(f, h, s) = Level(f, g, s)
    BY DEF Level
  <2>1. s \ {AnyOf(s)} \in SUBSET D
    OBVIOUS
  <2> QED
    BY <1>7, <2>1 DEF Level
<1>9. g = [s \in SUBSET D |-> Level(f, g, s)]
  BY <1>7, <1>8
<1> QED
  BY <1>9 DEF Sums

\* The recursion of SumFunction.
SumTo(f) == CHOOSE h : Sums(f, DOMAIN f, h)

LEMMA SumRecursion ==
    ASSUME NEW D, IsFiniteSet(D), NEW f \in [D -> Int]
    PROVE  /\ SumFunction(f) = SumTo(f)[D]
           /\ SumTo(f)[{}] = 0
           /\ \A s \in SUBSET D : s # {} =>
                SumTo(f)[s] = f[AnyOf(s)] + SumTo(f)[s \ {AnyOf(s)}]
<1>1. DOMAIN f = D
  OBVIOUS
<1>2. Sums(f, D, SumTo(f))
  BY <1>1, SumsExist DEF SumTo
<1>3. \A s \in SUBSET D : SumTo(f)[s] = Level(f, SumTo(f), s)
  BY <1>2 DEF Sums
<1>4. SumFunction(f) = SumTo(f)[D]
  BY <1>1, SumUnfolds DEF SumTo
<1> QED
  BY <1>3, <1>4 DEF Level

LEMMA SumType ==
    ASSUME NEW D, IsFiniteSet(D), NEW f \in [D -> Int]
    PROVE  \A s \in SUBSET D : SumTo(f)[s] \in Int
<1>0. \A s \in SUBSET D : s # {} => SumTo(f)[s] = f[AnyOf(s)] + SumTo(f)[s \ {AnyOf(s)}]
  BY SumRecursion
<1> DEFINE G == {s \in SUBSET D : SumTo(f)[s] \in Int}
<1>1. ASSUME NEW s \in SUBSET D, s = {} \/ s \ {AnyOf(s)} \in G
      PROVE  s \in G
  <2>1. CASE s = {}
    BY <2>1, SumRecursion
  <2>2. CASE s # {}
    <3>1. SumTo(f)[s] = f[AnyOf(s)] + SumTo(f)[s \ {AnyOf(s)}]
      BY <2>2, <1>0
    <3>2. AnyOf(s) \in D
      BY <2>2 DEF AnyOf
    <3>3. f[AnyOf(s)] \in Int
      BY <3>2
    <3>4. SumTo(f)[s \ {AnyOf(s)}] \in Int
      BY <1>1, <2>2
    <3> QED
      BY <3>1, <3>3, <3>4
  <2> QED
    BY <2>1, <2>2
<1> HIDE DEF G
<1>2. SUBSET D \subseteq G
  BY <1>1, BySize
<1> QED
  BY <1>2 DEF G

\* A change at one place changes the sum by as much.
LEMMA SumChange ==
    ASSUME NEW D, IsFiniteSet(D), NEW f \in [D -> Int], NEW g \in [D -> Int], NEW d \in D,
           \A x \in D \ {d} : g[x] = f[x]
    PROVE  /\ SumFunction(f) \in Int
           /\ SumFunction(g) = SumFunction(f) + (g[d] - f[d])
<1> DEFINE extra(s) == IF d \in s THEN g[d] - f[d] ELSE 0
           G == {s \in SUBSET D : SumTo(g)[s] = SumTo(f)[s] + extra(s)}
<1>1. ASSUME NEW s \in SUBSET D, s = {} \/ s \ {AnyOf(s)} \in G
      PROVE  s \in G
  <2>1. CASE s = {}
    BY <2>1, SumRecursion
  <2>2. CASE s # {}
    <3>1. PICK x, r : x = AnyOf(s) /\ r = s \ {AnyOf(s)}
      OBVIOUS
    <3>2. x \in s /\ r \in SUBSET D /\ r \in G /\ r = s \ {x}
      BY <1>1, <2>2, <3>1, Smaller
    <3>3. SumTo(g)[s] = g[x] + SumTo(g)[r] /\ SumTo(f)[s] = f[x] + SumTo(f)[r]
      BY <2>2, <3>1, SumRecursion
    <3>4. SumTo(f)[r] \in Int /\ SumTo(g)[r] = SumTo(f)[r] + extra(r)
      BY <3>2, SumType
    <3>5. f[x] \in Int /\ g[x] \in Int /\ f[d] \in Int /\ g[d] \in Int
      BY <3>2
    <3>6. CASE x = d
      BY <3>2, <3>3, <3>4, <3>5, <3>6
    <3>7. CASE x # d
      <4>1. g[x] = f[x] /\ (d \in r <=> d \in s)
        BY <3>2, <3>7
      <4> QED
        BY <3>3, <3>4, <3>5, <4>1
    <3> QED
      BY <3>6, <3>7
  <2> QED
    BY <2>1, <2>2
<1>2. D \in G
  <2> HIDE DEF G
  <2>1. SUBSET D \subseteq G
    BY <1>1, BySize
  <2> QED
    BY <2>1
<1> QED
  BY <1>2, SumRecursion, SumType

\* A function that is 0 or 1 adds up to the number of its ones.
LEMMA SumCounts ==
    ASSUME NEW D, IsFiniteSet(D), NEW f \in [D -> {0, 1}]
    PROVE  SumFunction(f) = Cardinality({x \in D : f[x] = 1})
<1> DEFINE ones(s) == {x \in s : f[x] = 1}
           G == {s \in SUBSET D : SumTo(f)[s] = Cardinality(ones(s))}
<1>0. f \in [D -> Int]
  OBVIOUS
<1>1. ASSUME NEW s \in SUBSET D, s = {} \/ s \ {AnyOf(s)} \in G
      PROVE  s \in G
  <2>1. CASE s = {}
    <3>1. ones(s) = {} /\ Cardinality({}) = 0
      BY <2>1, FS_EmptySet
    <3> QED
      BY <1>0, <2>1, <3>1, SumRecursion
  <2>2. CASE s # {}
    <3>1. PICK x, r : x = AnyOf(s) /\ r = s \ {AnyOf(s)}
      OBVIOUS
    <3>2. x \in s /\ r \in SUBSET D /\ r \in G /\ r = s \ {x}
      BY <1>1, <2>2, <3>1, Smaller
    <3>3. SumTo(f)[s] = f[x] + SumTo(f)[r] /\ SumTo(f)[r] = Cardinality(ones(r))
      BY <1>0, <2>2, <3>1, <3>2, SumRecursion
    <3>4. IsFiniteSet(ones(r)) /\ Cardinality(ones(r)) \in Nat /\ x \notin ones(r)
      BY <3>2, FS_Subset, FS_CardinalityType
    <3>5. CASE f[x] = 1
      <4>1. ones(s) = ones(r) \cup {x}
        BY <3>2, <3>5
      <4>2. Cardinality(ones(r) \cup {x}) = Cardinality(ones(r)) + 1
        BY <3>4, FS_AddElement
      <4> QED
        BY <3>3, <3>4, <3>5, <4>1, <4>2
    <3>6. CASE f[x] = 0
      <4>1. ones(s) = ones(r)
        BY <3>2, <3>6
      <4> QED
        BY <3>3, <3>4, <3>6, <4>1
    <3> QED
      BY <3>2, <3>5, <3>6
  <2> QED
    BY <2>1, <2>2
<1>2. D \in G
  <2> HIDE DEF G
  <2>1. SUBSET D \subseteq G
    BY <1>1, BySize
  <2> QED
    BY <2>1
<1> QED
  BY <1>0, <1>2, SumRecursion


-----------------------------------------------------------------------------
(* The gate is charged for what works.                                     *)

\* The charges are right at the start.
LEMMA NothingCharged ==
    ASSUME Init
    PROVE  ChargedForLiveTools
<1>1. claimed \in [Jobs -> {0, 1}] /\ {j \in Jobs : claimed[j] = 1} = {}
  BY DEF Init
<1>2. SumFunction(claimed) = Cardinality({})
  BY <1>1, SumCounts, JobsAssumption
<1>3. Cardinality({}) = 0
  BY FS_EmptySet
<1> QED
  BY <1>2, <1>3 DEF Init, ChargedForLiveTools

\* A change of what one runner has claimed keeps the charges right when the
\* gate's allowance changes by as much.
LEMMA ChargeMoves ==
    ASSUME IInv, ChargedForLiveTools, NEW j \in Jobs, NEW d \in Int,
           claimed[j] + d \in Nat,
           claimed' = [claimed EXCEPT ![j] = @ + d], withheld' = withheld + d
    PROVE  ChargedForLiveTools'
<1>1. claimed \in [Jobs -> Nat]
  BY DEF IInv, Kinds
<1>2. PICK f \in [Jobs -> Int] : f = claimed
  BY <1>1
<1>3. PICK g \in [Jobs -> Int] : g = claimed'
  <2>1. PICK c \in Nat : c = claimed[j] + d
    OBVIOUS
  <2>2. claimed' = [claimed EXCEPT ![j] = c]
    BY <2>1
  <2>3. claimed \in [Jobs -> Int] /\ c \in Int
    BY <1>1
  <2>4. [claimed EXCEPT ![j] = c] \in [Jobs -> Int]
    BY <2>3
  <2> QED
    BY <2>2, <2>4, Zenon
<1>4. g[j] - f[j] = d /\ \A i \in Jobs \ {j} : g[i] = f[i]
  BY <1>1, <1>2, <1>3
<1>5. SumFunction(f) \in Int /\ SumFunction(g) = SumFunction(f) + (g[j] - f[j])
  BY <1>4, SumChange, JobsAssumption
<1>6. SumFunction(claimed') = SumFunction(claimed) + d
  BY <1>2, <1>3, <1>4, <1>5
<1> QED
  BY <1>6 DEF ChargedForLiveTools

\* Every step charges and forgives what it should.
LEMMA ChargedStep ==
    ASSUME IInv, ChargedForLiveTools, [Next]_vars
    PROVE  ChargedForLiveTools'
<1>1. ASSUME claimed' = claimed, withheld' = withheld
      PROVE  ChargedForLiveTools'
  BY <1>1 DEF ChargedForLiveTools
<1>2. ASSUME NEW j \in Jobs, ToolStops(j) PROVE ChargedForLiveTools'
  <2>1. CASE UNCHANGED <<job, batch, gateVars, run, outcome, aborted, tool, claimed,
                         panelVars, notices, published>>
    BY <1>1, <2>1 DEF gateVars
  <2>2. CASE /\ claimed[j] > 0
             /\ claimed' = [claimed EXCEPT ![j] = @ - 1]
             /\ withheld' = withheld - 1
    <3>1. claimed[j] \in Nat /\ withheld \in Int
      BY DEF IInv, Kinds
    <3>2. -1 \in Int /\ claimed[j] + (-1) \in Nat /\ withheld' = withheld + (-1)
      BY <2>2, <3>1
    <3>3. claimed' = [claimed EXCEPT ![j] = @ + (-1)]
      BY <2>2, <3>1
    <3> QED
      BY <3>2, <3>3, ChargeMoves
  <2> QED
    BY <1>2, <2>1, <2>2 DEF ToolStops
<1>3. ASSUME NEW j \in Jobs, GiveUpWaiting(j) PROVE ChargedForLiveTools'
  <2>1. PICK d \in {0, 1} : d = leftover[j]
    BY DEF IInv, Kinds
  <2>2. withheld' = withheld + d /\ claimed' = [claimed EXCEPT ![j] = @ + d]
    BY <1>3, <2>1 DEF GiveUpWaiting
  <2>3. d \in Int /\ claimed[j] + d \in Nat
    BY <2>1 DEF IInv, Kinds
  <2> QED
    BY <2>2, <2>3, ChargeMoves
<1>4. ASSUME NEW new, StartJobs(new) PROVE ChargedForLiveTools'
  BY <1>1, <1>4 DEF StartJobs
<1>5. ASSUME NEW j \in Jobs, RunEnds(j) \/ RunCancelled(j) PROVE ChargedForLiveTools'
  <2>1. ASSUME NEW res, Ends(j, res) PROVE ChargedForLiveTools'
    BY <1>1, <2>1 DEF Ends, gateVars
  <2> QED
    BY <1>5, <2>1 DEF RunEnds, RunCancelled
<1>6. ASSUME \/ \E js \in SUBSET Jobs : Cancel(js)
             \/ \E n \in Limits : SetLimit(n)
             \/ \E n \in notices : Publish(n)
             \/ \E j \in Jobs : \/ StartTool(j) \/ ToolReturns(j)
                                \/ Settle(j) \/ CancelReturns(j) \/ Retry(j)
             \/ UNCHANGED vars
      PROVE  claimed' = claimed /\ withheld' = withheld
  BY <1>6 DEF Cancel, SetLimit, Publish, StartTool, ToolReturns, Settle, CancelReturns,
              Retry, vars, gateVars, runnerVars
<1> QED
  BY <1>1, <1>2, <1>3, <1>4, <1>5, <1>6 DEF Next, StartBatch, StartJob

\* The gate withholds exactly as much as there are escaped tools that still
\* work, for any jobs, limits and attempts: nothing is charged twice by a retry
\* on the same runner, and nothing is forgiven or kept
\* (claimOutstandingAbandonedWork, withholdCapacity).
THEOREM ChargesAreRight == Spec => []ChargedForLiveTools
<1>1. Init => ChargedForLiveTools
  BY NothingCharged
<1>2. IInv /\ ChargedForLiveTools /\ [Next]_vars => ChargedForLiveTools'
  BY ChargedStep
<1> QED
  BY <1>1, <1>2, JobsStayConsistent, PTL DEF Spec

Covered == LiveWork \in Int /\ LiveWork <= Cardinality(Held(run)) + withheld

\* A tool that nobody is charged for yet belongs to a run that keeps its permit,
\* so the work alive is within the permits held and what the gate withholds.
LEMMA WorkIsCovered ==
    ASSUME IInv, ChargedForLiveTools
    PROVE  Covered
<1> DEFINE running == {j \in Jobs : run[j] = "running"}
           behind == {j \in Jobs : leftover[j] = 1}
<1>1. leftover \in [Jobs -> {0, 1}] /\ withheld \in Int
  BY DEF IInv, Kinds
<1>2. SumFunction(leftover) = Cardinality(behind)
  BY <1>1, SumCounts, JobsAssumption
<1>3. running \cap behind = {} /\ running \cup behind \subseteq Held(run)
  BY DEF IInv, Begun, Held
<1>4. IsFiniteSet(running) /\ IsFiniteSet(behind)
  <2>1. running \in SUBSET Jobs /\ behind \in SUBSET Jobs
    OBVIOUS
  <2> HIDE DEF running, behind
  <2> QED
    BY <2>1, FS_Subset, JobsAssumption
<1> HIDE DEF running, behind
<1>5. Cardinality(running \cup behind) = Cardinality(running) + Cardinality(behind)
  <2>1. Cardinality(running \cup behind)
          = Cardinality(running) + Cardinality(behind) - Cardinality(running \cap behind)
    BY <1>4, FS_Union
  <2>2. Cardinality(running \cap behind) = 0
    BY <1>3, FS_EmptySet
  <2>3. Cardinality(running) \in Nat /\ Cardinality(behind) \in Nat
    BY <1>4, FS_CardinalityType
  <2> QED
    BY <2>1, <2>2, <2>3
<1>6. Cardinality(running \cup behind) <= Cardinality(Held(run))
  BY <1>3, HeldFinite, FS_Subset
<1>7. LiveWork = Cardinality(running) + Cardinality(behind) + withheld
  BY <1>2 DEF LiveWork, ChargedForLiveTools, running
<1>8. Cardinality(running) \in Nat /\ Cardinality(behind) \in Nat /\ Cardinality(Held(run)) \in Nat
  BY <1>4, FS_CardinalityType, HeldFinite
<1> QED
  BY <1>1, <1>5, <1>6, <1>7, <1>8 DEF Covered

\* A job is admitted only while the runs and the tools that outlived their run,
\* taken together, stay within the limit, for any jobs, limits and attempts,
\* whatever was cancelled, retried or given up before (BoundedGate,
\* runBudgetedSubagent).
THEOREM WorkStaysWithinLimit == Spec => WorkWithinLimit
<1>1. IInv /\ ChargedForLiveTools => Covered
  BY WorkIsCovered
<1>2. ASSUME IInv, Covered', Next,
             \E j \in Jobs : run[j] # "running" /\ run'[j] = "running"
      PROVE  LiveWork' <= limit'
  <2>1. PICK held \in Nat : held = Cardinality(Held(run'))
    BY HeldFinite
  <2>2. PICK work \in Int, off \in Int, lim \in Nat :
            work = LiveWork' /\ off = withheld' /\ lim = limit'
    <3>1. IInv'
      BY <1>2, Inductive
    <3>2. LiveWork' \in Int /\ withheld' \in Int /\ limit' \in Nat
      BY <1>2, <3>1, LimitsAssumption DEF IInv, Kinds, Covered
    <3> QED
      BY <3>2
  <2>3. held + off <= lim
    BY <1>2, <2>1, <2>2, Inductive DEF AdmittedWithin
  <2>4. work <= held + off
    BY <1>2, <2>1, <2>2 DEF Covered, Held
  <2>5. work <= lim
    BY <2>3, <2>4
  <2> QED
    BY <2>2, <2>5
<1>3. IInv /\ Covered' /\ [Next]_vars
        => [(\E j \in Jobs : run[j] # "running" /\ run'[j] = "running") => LiveWork' <= limit']_vars
  BY <1>2
<1> QED
  BY <1>1, <1>3, JobsStayConsistent, ChargesAreRight, PTL DEF Spec, WorkWithinLimit

=============================================================================
