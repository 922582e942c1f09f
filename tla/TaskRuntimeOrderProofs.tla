------------------------- MODULE TaskRuntimeOrderProofs -------------------------
(***************************************************************************)
(* More proofs about the durable task runtime, on top of its invariant: no *)
(* effect is started beside itself, the view is told of the revisions in   *)
(* order and only when they are on disk, every accepted command is where   *)
(* it will be published from unless a restore passed it over, and what is  *)
(* on disk carries what is due.                                            *)
(***************************************************************************)
EXTENDS TaskRuntimeProofs

(***************************************************************************)
(* One effect per key.                                                     *)
(***************************************************************************)

\* A queue holds the commands of its own domain, so that no other lane can start
\* what this one has looked up.
QueuesAreOwn ==
  \A d \in Domains : \A i \in 1..Len(queue[d]) : queue[d][i].cmd.domain = d

LookedUpIsIdle ==
  \A d \in Domains :
    at[d] = "lookup" => queue[d] # <<>> /\ ~IsInFlight(queue[d][1].cmd)

EffectsAreSingle == \A e, f \in inFlight : e.cmd = f.cmd => e = f

OneLane == QueuesAreOwn /\ LookedUpIsIdle /\ EffectsAreSingle

LEMMA FirstEntry ==
  ASSUME TypeOK, NEW d \in Domains, queue[d] # <<>>
  PROVE  /\ queue[d] \in Seq(Entry) /\ Len(queue[d]) \in Nat
         /\ 1 \in 1..Len(queue[d]) /\ Head(queue[d]) = queue[d][1]
         /\ queue[d][1] \in Entry
<1>1. queue[d] \in Seq(Entry) /\ Len(queue[d]) \in Nat
  BY LenProperties DEF TypeOK
<1> QED BY <1>1, EmptySeq, HeadTailProperties

\* The lookup of the specification is that of the invariant.
LEMMA OneLaneGivesOneEffect ==
  ASSUME TypeOK, OneLane
  PROVE  OneEffectPerKey
<1>1. ASSUME NEW d \in Domains, at[d] = "lookup", queue[d] # <<>>
      PROVE  ~IsInFlight(Head(queue[d]).cmd)
  BY <1>1, FirstEntry DEF OneLane, LookedUpIsIdle
<1> QED BY <1>1 DEF OneLane, EffectsAreSingle, OneEffectPerKey

\* A push leaves what is looked up alone.
LEMMA PushKeepsLane ==
  ASSUME TypeOK, OneLane, NEW S \in SUBSET Command, NEW r \in BOOLEAN, Push(S, r),
         UNCHANGED <<at, inFlight>>
  PROVE  OneLane'
<1>1. queue \in Queues /\ queue' \in Queues /\ Grows(queue, queue', S, r)
  <2>1. queue \in Queues /\ queue' \in Pushed(queue, S, r)
    BY DEF Queues, TypeOK, Push
  <2> QED BY <2>1, PushEntries
<1>2. \A d \in Domains : Len(queue[d]) \in Nat /\ Len(queue'[d]) \in Nat
  BY <1>1, LenProperties DEF Queues
<1>3. QueuesAreOwn'
  <2>1. ASSUME NEW d \in Domains, NEW i \in 1..Len(queue'[d])
        PROVE  queue'[d][i].cmd.domain = d
    <3>1. CASE i <= Len(queue[d])
      BY <1>1, <1>2, <3>1 DEF Grows, OneLane, QueuesAreOwn
    <3>2. CASE ~(i <= Len(queue[d]))
      BY <1>1, <3>2 DEF Grows, InDomain
    <3> QED BY <3>1, <3>2
  <2> QED BY <2>1 DEF QueuesAreOwn
<1>4. LookedUpIsIdle'
  <2>1. ASSUME NEW d \in Domains, at[d] = "lookup"
        PROVE  queue'[d] # <<>> /\ queue'[d][1] = queue[d][1]
    <3>1. queue[d] # <<>>
      BY <2>1 DEF OneLane, LookedUpIsIdle
    <3>2. 1 \in 1..Len(queue[d]) /\ 1 \in 1..Len(queue'[d])
      BY <1>1, <1>2, <3>1, FirstEntry DEF Grows
    <3>3. queue'[d] # <<>>
      BY <3>2, EmptySeq
    <3> QED BY <1>1, <1>2, <3>2, <3>3 DEF Grows
  <2> QED BY <2>1 DEF OneLane, LookedUpIsIdle, IsInFlight
<1>5. EffectsAreSingle'
  BY DEF OneLane, EffectsAreSingle
<1> QED BY <1>3, <1>4, <1>5 DEF OneLane

\* A shift leaves the other queues alone and looks nothing up.
LEMMA ShiftKeepsLane ==
  ASSUME TypeOK, OneLane, NEW d \in Domains, queue[d] # <<>>, Shift(d)
  PROVE  /\ QueuesAreOwn'
         /\ at'[d] = "next"
         /\ \A x \in Domains \ {d} : queue'[x] = queue[x] /\ at'[x] = at[x]
<1>1. /\ at'[d] = "next"
      /\ \A x \in Domains \ {d} : queue'[x] = queue[x] /\ at'[x] = at[x]
      /\ \A i \in 1..Len(queue'[d]) :
           i + 1 \in 1..Len(queue[d]) /\ queue'[d][i] = queue[d][i + 1]
  BY ShiftEntries DEF TypeOK
<1>2. ASSUME NEW x \in Domains, NEW i \in 1..Len(queue'[x])
      PROVE  queue'[x][i].cmd.domain = x
  <2>1. CASE x = d
    BY <1>1, <1>2, <2>1 DEF OneLane, QueuesAreOwn
  <2>2. CASE x # d
    BY <1>1, <1>2, <2>2 DEF OneLane, QueuesAreOwn
  <2> QED BY <2>1, <2>2
<1> QED BY <1>1, <1>2 DEF QueuesAreOwn

\* When the queues and the drains stand still, effects may end and new records
\* of them may replace the old ones.
LEMMA EffectsKeepLane ==
  ASSUME OneLane, UNCHANGED <<queue, at>>,
         \A f \in inFlight' : \E e \in inFlight : e.cmd = f.cmd,
         \A f, g \in inFlight' : f.cmd = g.cmd => f = g
  PROVE  OneLane'
<1>1. \A c : IsInFlight(c)' => IsInFlight(c)
  BY DEF IsInFlight
<1> QED BY <1>1 DEF OneLane, QueuesAreOwn, LookedUpIsIdle, EffectsAreSingle

LEMMA CancelKeepsLane ==
  ASSUME TypeOK, OneLane, Cancel
  PROVE  OneLane'
<1>1. /\ queue' = [d \in Domains |-> [i \in DOMAIN queue[d] |-> Fenced(queue[d][i], rev + 1)]]
      /\ inFlight' = {Fenced(e, rev + 1) : e \in inFlight}
      /\ UNCHANGED at
  BY DEF Cancel
<1>2. ASSUME NEW d \in Domains
      PROVE  /\ Len(queue'[d]) = Len(queue[d])
             /\ \A i \in 1..Len(queue[d]) : queue'[d][i].cmd = queue[d][i].cmd
             /\ queue[d] # <<>> => queue'[d] # <<>> /\ 1 \in 1..Len(queue[d])
  <2>1. /\ queue[d] \in Seq(Entry) /\ Len(queue[d]) \in Nat
        /\ DOMAIN queue[d] = 1..Len(queue[d])
        /\ \A i \in 1..Len(queue[d]) : queue[d][i] \in Entry
    BY LenProperties, ElementOfSeq DEF TypeOK
  <2>2. \A e \in Entry : Fenced(e, rev + 1) \in Entry /\ Fenced(e, rev + 1).cmd = e.cmd
    BY DEF Fenced, Entry
  <2>3. queue'[d] = [i \in 1..Len(queue[d]) |-> Fenced(queue[d][i], rev + 1)]
    BY <1>1, <2>1
  <2>4. queue'[d] \in [1..Len(queue[d]) -> Entry]
    BY <2>1, <2>2, <2>3
  <2>5. queue'[d] \in Seq(Entry) /\ Len(queue'[d]) = Len(queue[d])
    BY <2>1, <2>4, FunctionIsSeq
  <2>6. queue[d] # <<>> => Len(queue[d]) \in Nat \ {0}
    BY <2>1, EmptySeq
  <2>7. queue'[d] = <<>> => Len(queue'[d]) = 0
    BY EmptySeq
  <2> QED BY <2>1, <2>2, <2>3, <2>5, <2>6, <2>7
<1>3. \A e \in inFlight : Fenced(e, rev + 1).cmd = e.cmd
  BY DEF Fenced, TypeOK, Effect
<1>4. \A c : IsInFlight(c)' => IsInFlight(c)
  BY <1>1, <1>3 DEF IsInFlight
<1>5. QueuesAreOwn'
  BY <1>2 DEF OneLane, QueuesAreOwn
<1>6. LookedUpIsIdle'
  BY <1>1, <1>2, <1>4 DEF OneLane, LookedUpIsIdle
<1>7. EffectsAreSingle'
  BY <1>1, <1>3 DEF OneLane, EffectsAreSingle
<1> QED BY <1>5, <1>6, <1>7 DEF OneLane

LEMMA DrainKeepsLane ==
  ASSUME TypeOK, OneLane, NEW d \in Domains, Drain(d)
  PROVE  OneLane'
<1>1. queue[d] # <<>>
  BY DEF Drain, AwaitDurability, LookUp, DropRejected, Dispatch
<1>2. Head(queue[d]) = queue[d][1] /\ 1 \in 1..Len(queue[d])
  BY <1>1, FirstEntry
<1>3. CASE Shift(d) /\ UNCHANGED inFlight
  BY <1>1, <1>3, ShiftKeepsLane DEF OneLane, LookedUpIsIdle, EffectsAreSingle, IsInFlight
<1>4. CASE at' = [at EXCEPT ![d] = "durability"] /\ UNCHANGED <<queue, inFlight>>
  BY <1>4 DEF OneLane, QueuesAreOwn, LookedUpIsIdle, EffectsAreSingle, IsInFlight, TypeOK
<1>5. CASE /\ at' = [at EXCEPT ![d] = "lookup"] /\ UNCHANGED <<queue, inFlight>>
           /\ ~IsInFlight(queue[d][1].cmd)
  BY <1>1, <1>5 DEF OneLane, QueuesAreOwn, LookedUpIsIdle, EffectsAreSingle, IsInFlight, TypeOK
<1>6. CASE Dispatch(d)
  <2> DEFINE c == queue[d][1].cmd
             effect == [cmd |-> c, fenced |-> FALSE, marking |-> FALSE]
  <2>1. Shift(d) /\ at[d] = "lookup"
    BY <1>6 DEF Dispatch
  <2>2. inFlight' = inFlight \/ inFlight' = inFlight \cup {effect}
    BY <1>2, <1>6 DEF Dispatch
  <2>3. c.domain = d /\ ~IsInFlight(c)
    BY <1>2, <2>1 DEF OneLane, QueuesAreOwn, LookedUpIsIdle
  <2>4. effect.cmd = c
    OBVIOUS
  <2> HIDE DEF c, effect
  <2>5. /\ QueuesAreOwn' /\ at'[d] = "next"
        /\ \A x \in Domains \ {d} : queue'[x] = queue[x] /\ at'[x] = at[x]
    BY <1>1, <2>1, ShiftKeepsLane
  <2>6. \A x : IsInFlight(x)' => IsInFlight(x) \/ x = c
    BY <2>2, <2>4 DEF IsInFlight
  <2>7. LookedUpIsIdle'
    <3>1. ASSUME NEW x \in Domains, at'[x] = "lookup"
          PROVE  queue'[x] # <<>> /\ ~IsInFlight(queue[x][1].cmd)'
      <4>1. x # d /\ queue'[x] = queue[x] /\ at[x] = "lookup"
        BY <2>5, <3>1
      <4>2. queue[x] # <<>> /\ ~IsInFlight(queue[x][1].cmd)
        BY <4>1 DEF OneLane, LookedUpIsIdle
      <4>3. 1 \in 1..Len(queue[x])
        BY <4>2, FirstEntry
      <4>4. queue[x][1].cmd # c
        BY <2>3, <4>1, <4>3 DEF OneLane, QueuesAreOwn
      <4>5. PICK k : k = queue[x][1].cmd
        OBVIOUS
      <4>6. ~IsInFlight(k)'
        BY <2>6, <4>2, <4>4, <4>5
      <4> QED BY <4>1, <4>2, <4>5, <4>6 DEF IsInFlight
    <3> QED BY <3>1 DEF LookedUpIsIdle
  <2>8. EffectsAreSingle'
    BY <2>2, <2>3, <2>4 DEF OneLane, EffectsAreSingle, IsInFlight
  <2> QED BY <2>5, <2>7, <2>8 DEF OneLane
<1>7. CASE LookUp(d)
  BY <1>2, <1>3, <1>5, <1>7 DEF LookUp
<1> QED BY <1>3, <1>4, <1>6, <1>7 DEF Drain, AwaitDurability, DropRejected

LEMMA EffectKeepsLane ==
  ASSUME TypeOK, OneLane, NEW e \in inFlight,
         EffectCompletes(e) \/ Marked(e) \/ EffectFails(e)
  PROVE  OneLane'
<1>1. PICK m : m = [e EXCEPT !.marking = TRUE]
  OBVIOUS
<1>2. m.cmd = e.cmd
  BY <1>1 DEF TypeOK, Effect
<1>3. /\ UNCHANGED <<queue, at>>
      /\ inFlight' = (inFlight \ {e}) \cup {m} \/ inFlight' = inFlight \ {e}
  BY <1>1 DEF EffectCompletes, Marked, EffectFails
<1>4. \A f \in inFlight' : f # m => f \in inFlight \ {e}
  BY <1>3
<1>5. \A f \in inFlight' : \E g \in inFlight : g.cmd = f.cmd
  BY <1>2, <1>4
<1>6. ASSUME NEW f \in inFlight', NEW g \in inFlight', f.cmd = g.cmd
      PROVE  f = g
  BY <1>2, <1>4, <1>6 DEF OneLane, EffectsAreSingle
<1> QED BY <1>3, <1>5, <1>6, EffectsKeepLane

LEMMA InitLane == Init => OneLane
<1> SUFFICES ASSUME Init PROVE OneLane
  OBVIOUS
<1>1. Len(<<>>) = 0
  BY EmptySeq
<1> QED BY <1>1 DEF Init, OneLane, QueuesAreOwn, LookedUpIsIdle, EffectsAreSingle

LEMMA NextLane == IInv /\ OneLane /\ [Next]_vars => OneLane'
<1> SUFFICES ASSUME IInv, OneLane, [Next]_vars PROVE OneLane'
  OBVIOUS
<1>0. TypeOK
  BY DEF IInv
<1>1. CASE UNCHANGED <<queue, at, inFlight>>
  BY <1>1 DEF OneLane, QueuesAreOwn, LookedUpIsIdle, EffectsAreSingle, IsInFlight
<1>2. ASSUME NEW D \in SUBSET Domains, Submit(D)
      PROVE  OneLane'
  <2>1. PICK S : S = {Cmd(rev + 1, gen, d) : d \in D}
    OBVIOUS
  <2>2. rev + 1 \in Revisions /\ gen \in Revisions
    BY <1>0, <1>2, RuntimeAssumption
       DEF IInv, TypeOK, PipelineOrdered, Submit, Accepts, Revisions
  <2>3. \A d \in D : Cmd(rev + 1, gen, d) \in Command
    BY <2>2 DEF Cmd, Command
  <2>4. Push(S, FALSE) /\ UNCHANGED <<at, inFlight>>
    BY <1>2, <2>1 DEF Submit
  <2>5. S \subseteq Command
    BY <2>1, <2>3
  <2> QED BY <1>0, <2>4, <2>5, PushKeepsLane
<1>3. CASE Cancel
  BY <1>0, <1>3, CancelKeepsLane
<1>4. CASE SaveLands \/ SaveFails
  BY <1>1, <1>4 DEF SaveLands, SaveFails
<1>5. ASSUME NEW S \in SUBSET Command, Restore(S), UNCHANGED <<at, inFlight>>
      PROVE  OneLane'
  <2>1. PICK T \in SUBSET Command : T = S \ {e.cmd : e \in AllPending}
    OBVIOUS
  <2> QED BY <1>0, <1>5, <2>1, PushKeepsLane DEF Restore
<1>6. CASE RetryLands
  <2>1. Recovered \subseteq Command
    BY <1>0 DEF Recovered, TypeOK, Batch
  <2> QED BY <1>1, <1>5, <1>6, <2>1 DEF RetryLands
<1>7. CASE AllowRestored
  BY <1>0, <1>5, <1>7 DEF AllowRestored, TypeOK
<1>8. CASE \E d \in Domains : Drain(d)
  BY <1>0, <1>8, DrainKeepsLane
<1>9. CASE \E e \in inFlight : EffectCompletes(e) \/ Marked(e) \/ EffectFails(e)
  BY <1>0, <1>9, EffectKeepsLane
<1>10. CASE \E D \in SUBSET Rederived : Reopen(D)
  <2>1. /\ queue' = [d \in Domains |-> <<>>] /\ at' = [d \in Domains |-> "next"]
        /\ inFlight' = {}
    BY <1>10 DEF Reopen
  <2>2. Len(<<>>) = 0
    BY EmptySeq
  <2> QED BY <2>1, <2>2 DEF OneLane, QueuesAreOwn, LookedUpIsIdle, EffectsAreSingle
<1>11. CASE UNCHANGED vars
  BY <1>1, <1>11 DEF vars, memory
<1> QED BY <1>2, <1>3, <1>4, <1>6, <1>7, <1>8, <1>9, <1>10, <1>11 DEF Next

\* An effect is never started while an effect of the same key runs, across the
\* await of the publication store (DurableCommandOutbox.drain).
THEOREM StartsOnce == Spec => []OneEffectPerKey
BY InitLane, NextLane, Invariance, OneLaneGivesOneEffect, PTL DEF Spec, IInv

(***************************************************************************)
(* What the view is told.                                                  *)
(***************************************************************************)

\* The last elements of an uninterrupted run of revisions that ends with n.
RunUpTo(s, n) == \A i \in 1..Len(s) : s[i] = n - Len(s) + i

\* Each batch carries the revisions that lead to its own, and begins where the
\* one before it ends; the view is where the disk is.  Right after a reopening
\* the view has been told nothing, and the first batch may begin anywhere.
Follows(b) == RunUpTo(b.committed, b.rev)
Begins(b, n) == b.rev = n + Len(b.committed)

Unbroken ==
  /\ RunUpTo(told, disk.rev)
  /\ writing # NoBatch =>
       Follows(writing) /\ (told # <<>> => Begins(writing, disk.rev))
  /\ pending # NoBatch => Follows(pending) /\ Begins(pending, writing.rev)
  /\ failed # NoBatch =>
       Follows(failed) /\ (told # <<>> => Begins(failed, disk.rev)) /\ failed.rev = rev
  /\ pending # NoBatch => pending.rev = rev
  /\ writing # NoBatch /\ pending = NoBatch => writing.rev = rev
  /\ told # <<>> /\ writing = NoBatch /\ failed = NoBatch => disk.rev = rev

LEMMA UnbrokenIsInOrder ==
  ASSUME TypeOK, Unbroken
  PROVE  ViewInOrder
<1>1. told \in Seq(Nat) /\ Len(told) \in Nat /\ disk.rev \in Nat
  BY LenProperties DEF TypeOK
<1>2. \A i \in 1..Len(told) : told[i] = disk.rev - Len(told) + i
  BY DEF Unbroken, RunUpTo
<1>3. \A i \in 1..(Len(told) - 1) : i \in 1..Len(told) /\ i + 1 \in 1..Len(told)
  BY <1>1
<1>4. told # <<>> => Len(told) \in 1..Len(told)
  BY <1>1, EmptySeq
<1>5. ASSUME NEW i \in 1..(Len(told) - 1) PROVE told[i + 1] = told[i] + 1
  <2>1. told[i] = disk.rev - Len(told) + i /\ told[i + 1] = disk.rev - Len(told) + (i + 1)
    BY <1>2, <1>3
  <2> QED BY <1>1, <2>1
<1>6. told # <<>> => told[Len(told)] = disk.rev
  <2>1. told # <<>> => told[Len(told)] = disk.rev - Len(told) + Len(told)
    BY <1>2, <1>4
  <2> QED BY <1>1, <2>1
<1> QED BY <1>5, <1>6 DEF ViewInOrder

\* Two runs, the second beginning where the first ends, make one.
LEMMA RunsJoin ==
  ASSUME NEW s \in Seq(Nat), NEW t \in Seq(Nat), NEW n \in Nat, NEW m \in Nat,
         RunUpTo(s, n), RunUpTo(t, m), s # <<>> => m = n + Len(t)
  PROVE  /\ RunUpTo(s \o t, m)
         /\ s \o t \in Seq(Nat) /\ Len(s \o t) = Len(s) + Len(t)
<1>1. Len(s) \in Nat /\ Len(t) \in Nat
  BY LenProperties
<1>2. /\ s \o t \in Seq(Nat) /\ Len(s \o t) = Len(s) + Len(t)
      /\ \A i \in 1..(Len(s) + Len(t)) :
           (s \o t)[i] = IF i <= Len(s) THEN s[i] ELSE t[i - Len(s)]
  BY ConcatProperties
<1>3. ASSUME NEW i \in 1..(Len(s) + Len(t))
      PROVE  (s \o t)[i] = m - (Len(s) + Len(t)) + i
  <2>1. CASE i <= Len(s)
    <3>1. i \in 1..Len(s) /\ s # <<>>
      BY <1>1, <2>1, EmptySeq
    <3>2. s[i] = n - Len(s) + i
      BY <3>1 DEF RunUpTo
    <3> QED BY <1>1, <1>2, <2>1, <3>1, <3>2
  <2>2. CASE ~(i <= Len(s))
    <3>1. i - Len(s) \in 1..Len(t)
      BY <1>1, <2>2
    <3>2. t[i - Len(s)] = m - Len(t) + (i - Len(s))
      BY <3>1 DEF RunUpTo
    <3> QED BY <1>1, <1>2, <2>2, <3>1, <3>2
  <2> QED BY <2>1, <2>2
<1> QED BY <1>2, <1>3 DEF RunUpTo

\* A commit adds the next revision to the run of the batch that waits.
LEMMA NextRevisionJoins ==
  ASSUME NEW s \in Seq(Nat), NEW n \in Nat, s # <<>> => RunUpTo(s, n)
  PROVE  /\ RunUpTo(Append(s, n + 1), n + 1)
         /\ Append(s, n + 1) # <<>>
         /\ Len(Append(s, n + 1)) = Len(s) + 1
<1>1. Len(s) \in Nat
  BY LenProperties
<1>2. /\ Append(s, n + 1) \in Seq(Nat) /\ Len(Append(s, n + 1)) = Len(s) + 1
      /\ \A i \in 1..Len(s) : Append(s, n + 1)[i] = s[i]
      /\ Append(s, n + 1)[Len(s) + 1] = n + 1
  BY AppendProperties
<1>3. ASSUME NEW i \in 1..(Len(s) + 1)
      PROVE  Append(s, n + 1)[i] = n + 1 - (Len(s) + 1) + i
  <2>1. CASE i <= Len(s)
    <3>1. i \in 1..Len(s) /\ s # <<>>
      BY <1>1, <2>1, EmptySeq
    <3>2. s[i] = n - Len(s) + i
      BY <3>1 DEF RunUpTo
    <3> QED BY <1>1, <1>2, <3>1, <3>2
  <2>2. CASE ~(i <= Len(s))
    BY <1>1, <1>2, <2>2
  <2> QED BY <2>1, <2>2
<1>4. PICK a : a = Append(s, n + 1)
  OBVIOUS
<1>5. Len(a) = Len(s) + 1 /\ \A i \in 1..Len(a) : a[i] = n + 1 - Len(a) + i
  BY <1>2, <1>3, <1>4
<1>6. a # <<>>
  BY <1>1, <1>5, EmptySeq
<1> QED BY <1>4, <1>5, <1>6 DEF RunUpTo

LEMMA CommitKeepsRuns ==
  ASSUME IInv, Unbroken, Accepts, NEW outbox, NEW g,
         CommitBatch(outbox, rev + 1, g), rev' = rev + 1,
         UNCHANGED <<failed, disk, told>>
  PROVE  Unbroken'
<1>1. TypeOK /\ PipelineOrdered /\ failed = NoBatch
  BY DEF IInv, Accepts
<1>2. /\ rev \in Nat /\ disk.rev \in Nat /\ disk.rev <= rev
      /\ pending \in Batch /\ pending.committed \in Seq(Nat) /\ writing.rev \in Nat
      /\ pending.rev \in Nat
  BY <1>1 DEF TypeOK, Batch, PipelineOrdered
<1>3. PICK b : b = Batched(outbox, rev + 1, g)
  OBVIOUS
<1>4. /\ b.rev = rev + 1 /\ b.committed = Append(pending.committed, rev + 1)
      /\ b # NoBatch
  BY <1>2, <1>3 DEF Batched, NoBatch
<1>5. NoBatch.committed = <<>> /\ Len(<<>>) = 0
  BY EmptySeq DEF NoBatch
<1>6. pending # NoBatch => RunUpTo(pending.committed, rev)
  BY DEF Unbroken, Follows
<1>7. Follows(b) /\ Len(b.committed) = Len(pending.committed) + 1
      /\ Len(pending.committed) \in Nat
  BY <1>2, <1>4, <1>5, <1>6, NextRevisionJoins, LenProperties DEF Follows
<1>8. CASE writing # NoBatch
  <2>1. pending' = b /\ writing' = writing
    BY <1>3, <1>8 DEF CommitBatch
  <2>2. Begins(b, writing.rev)
    <3>1. CASE pending = NoBatch
      BY <1>2, <1>4, <1>5, <1>7, <1>8, <3>1 DEF Unbroken, Begins
    <3>2. CASE pending # NoBatch
      <4>1. pending.rev = writing.rev + Len(pending.committed) /\ pending.rev = rev
        BY <3>2 DEF Unbroken, Begins
      <4> QED BY <1>2, <1>4, <1>7, <4>1 DEF Begins
    <3> QED BY <3>1, <3>2
  <2> QED BY <1>1, <1>4, <1>7, <1>8, <2>1, <2>2 DEF Unbroken, Follows, Begins, RunUpTo
<1>9. CASE writing = NoBatch
  <2>1. pending = NoBatch /\ writing' = b /\ pending' = NoBatch
    BY <1>1, <1>3, <1>9 DEF CommitBatch, PipelineOrdered
  <2>2. told # <<>> => Begins(b, disk.rev)
    BY <1>1, <1>2, <1>4, <1>5, <1>7, <1>9, <2>1 DEF Unbroken, Begins
  <2> QED BY <1>1, <1>4, <1>7, <2>1, <2>2 DEF Unbroken, Follows, Begins, RunUpTo
<1> QED BY <1>8, <1>9

\* A batch that lands joins what the view was told before.
LEMMA LandsKeepsRuns ==
  ASSUME TypeOK, Unbroken, NEW b \in Batch, Lands(b), Follows(b),
         told # <<>> => Begins(b, disk.rev)
  PROVE  /\ disk'.rev = b.rev /\ RunUpTo(told, disk.rev)'
         /\ told' # <<>> => told # <<>> \/ b.committed # <<>>
<1>1. /\ told \in Seq(Nat) /\ b.committed \in Seq(Nat) /\ b.rev \in Nat
      /\ disk.rev \in Nat
  BY DEF TypeOK, Batch
<1>2. told' = told \o b.committed /\ disk'.rev = b.rev
  BY DEF Lands
<1>3. RunUpTo(told \o b.committed, b.rev)
  BY <1>1, RunsJoin DEF Unbroken, Follows, Begins
<1>4. RunUpTo(told, disk.rev)'
  BY <1>2, <1>3 DEF RunUpTo
<1>5. <<>> \o <<>> = <<>>
  OBVIOUS
<1> QED BY <1>2, <1>4, <1>5

LEMMA SaveLandsKeepsRuns ==
  ASSUME IInv, Unbroken, SaveLands
  PROVE  Unbroken'
<1>1. TypeOK /\ PipelineOrdered
  BY DEF IInv
<1>2. /\ writing # NoBatch /\ Lands(writing) /\ writing' = pending /\ pending' = NoBatch
      /\ UNCHANGED <<rev, failed>>
  BY DEF SaveLands
<1>3. writing \in Batch /\ Follows(writing) /\ (told # <<>> => Begins(writing, disk.rev))
  BY <1>1, <1>2 DEF TypeOK, Unbroken
<1>4. disk'.rev = writing.rev /\ RunUpTo(told, disk.rev)'
  BY <1>1, <1>2, <1>3, LandsKeepsRuns
<1>5. failed' = NoBatch
  BY <1>1, <1>2 DEF PipelineOrdered
<1> QED BY <1>2, <1>4, <1>5 DEF Unbroken, Follows, Begins, RunUpTo

LEMMA SaveFailsKeepsRuns ==
  ASSUME IInv, Unbroken, SaveFails
  PROVE  Unbroken'
<1>1. TypeOK /\ PipelineOrdered
  BY DEF IInv
<1>2. /\ writing # NoBatch /\ failed' = MergedFailure
      /\ writing' = NoBatch /\ pending' = NoBatch
      /\ UNCHANGED <<rev, told, disk>>
  BY DEF SaveFails
<1>3. /\ writing.committed \in Seq(Nat) /\ pending.committed \in Seq(Nat)
      /\ writing.rev \in Nat /\ pending.rev \in Nat /\ disk.rev \in Nat
      /\ pending \in Batch
  BY <1>1 DEF TypeOK, Batch
<1>4. Follows(writing) /\ (told # <<>> => Begins(writing, disk.rev))
  BY <1>2 DEF Unbroken
<1>5. PICK f : f = MergedFailure
  OBVIOUS
<1>6. f.rev = rev /\ Follows(f) /\ (told # <<>> => Begins(f, disk.rev))
  <2>1. CASE pending = NoBatch
    BY <1>2, <1>4, <1>5, <2>1 DEF MergedFailure, Unbroken
  <2>2. CASE pending # NoBatch
    <3>1. f.rev = pending.rev /\ f.committed = writing.committed \o pending.committed
      BY <1>3, <1>5, <2>2 DEF MergedFailure, Batch
    <3>2. Follows(pending) /\ Begins(pending, writing.rev) /\ pending.rev = rev
      BY <2>2 DEF Unbroken
    <3>3. /\ RunUpTo(f.committed, f.rev)
          /\ Len(f.committed) = Len(writing.committed) + Len(pending.committed)
      BY <1>3, <1>4, <3>1, <3>2, RunsJoin DEF Follows, Begins
    <3>4. Len(writing.committed) \in Nat /\ Len(pending.committed) \in Nat
      BY <1>3, LenProperties
    <3>5. ASSUME told # <<>>
          PROVE  f.rev = disk.rev + (Len(writing.committed) + Len(pending.committed))
      <4>1. /\ writing.rev = disk.rev + Len(writing.committed)
            /\ f.rev = writing.rev + Len(pending.committed)
        BY <1>4, <3>1, <3>2, <3>5 DEF Begins
      <4>2. PICK x \in Nat, y \in Nat : x = Len(writing.committed) /\ y = Len(pending.committed)
        BY <3>4
      <4>3. PICK v \in Nat, w \in Nat : v = disk.rev /\ w = writing.rev
        BY <1>3
      <4>4. w = v + x /\ f.rev = w + y
        BY <4>1, <4>2, <4>3
      <4>5. f.rev = v + (x + y)
        BY <4>4
      <4> QED BY <4>2, <4>3, <4>5
    <3> QED BY <3>1, <3>2, <3>3, <3>5 DEF Follows, Begins
  <2> QED BY <2>1, <2>2
<1>7. f # NoBatch => failed' # NoBatch
  BY <1>2, <1>5
<1>8. failed' # NoBatch \/ rev = disk.rev
  <2>1. failed' = f /\ f.rev = rev /\ rev \in Nat /\ disk.rev < writing.rev /\ writing.rev <= rev
    BY <1>1, <1>2, <1>5, <1>6 DEF PipelineOrdered, BatchBehind, TypeOK
  <2> QED BY <1>3, <2>1 DEF NoBatch
<1> QED BY <1>2, <1>5, <1>6, <1>8 DEF Unbroken, Follows, Begins, RunUpTo

LEMMA RetryLandsKeepsRuns ==
  ASSUME IInv, Unbroken, RetryLands
  PROVE  Unbroken'
<1>1. TypeOK /\ PipelineOrdered
  BY DEF IInv
<1>2. failed # NoBatch /\ Lands(failed) /\ failed' = NoBatch
      /\ UNCHANGED <<rev, pending, writing>>
  BY DEF RetryLands
<1>3. failed \in Batch /\ Follows(failed) /\ (told # <<>> => Begins(failed, disk.rev))
      /\ failed.rev = rev
  BY <1>1, <1>2 DEF TypeOK, Unbroken
<1>4. disk'.rev = rev /\ RunUpTo(told, disk.rev)'
  BY <1>1, <1>2, <1>3, LandsKeepsRuns
<1>5. writing' = NoBatch /\ pending' = NoBatch
  BY <1>1, <1>2 DEF PipelineOrdered
<1> QED BY <1>2, <1>4, <1>5 DEF Unbroken, Follows, Begins, RunUpTo

LEMMA InitRuns == Init => Unbroken
<1> SUFFICES ASSUME Init PROVE Unbroken
  OBVIOUS
<1>1. Len(<<>>) = 0
  BY EmptySeq
<1> QED BY <1>1 DEF Init, Unbroken, RunUpTo

LEMMA NextRuns == IInv /\ Unbroken /\ [Next]_vars => Unbroken'
<1> SUFFICES ASSUME IInv, Unbroken, [Next]_vars PROVE Unbroken'
  OBVIOUS
<1>1. CASE UNCHANGED <<rev, pending, writing, failed, told, disk>>
  BY <1>1 DEF Unbroken, Follows, Begins, RunUpTo
<1>2. CASE \E D \in SUBSET Domains : Submit(D)
  <2>1. PICK outbox : CommitBatch(outbox, rev + 1, gen)
    BY <1>2 DEF Submit
  <2>2. Accepts /\ rev' = rev + 1 /\ UNCHANGED <<failed, disk, told>>
    BY <1>2 DEF Submit
  <2> QED BY <2>1, <2>2, CommitKeepsRuns
<1>3. CASE Cancel
  <2>1. CommitBatch(Persistable({}, TRUE, rev + 1), rev + 1, gen + 1)
    BY <1>3 DEF Cancel
  <2>2. Accepts /\ rev' = rev + 1 /\ UNCHANGED <<failed, disk, told>>
    BY <1>3 DEF Cancel
  <2> QED BY <2>1, <2>2, CommitKeepsRuns
<1>4. CASE SaveLands
  BY <1>4, SaveLandsKeepsRuns
<1>5. CASE SaveFails
  BY <1>5, SaveFailsKeepsRuns
<1>6. CASE RetryLands
  BY <1>6, RetryLandsKeepsRuns
<1>7. CASE AllowRestored
  BY <1>1, <1>7 DEF AllowRestored, pipeline
<1>8. CASE \E d \in Domains : Drain(d)
  BY <1>1, <1>8 DEF Drain, AwaitDurability, LookUp, DropRejected, Dispatch, pipeline
<1>9. CASE \E e \in inFlight : EffectCompletes(e) \/ Marked(e) \/ EffectFails(e)
  BY <1>1, <1>9 DEF EffectCompletes, Marked, EffectFails, pipeline
<1>10. CASE \E D \in SUBSET Rederived : Reopen(D)
  <2>1. /\ pending' = NoBatch /\ writing' = NoBatch /\ failed' = NoBatch /\ told' = <<>>
    BY <1>10 DEF Reopen
  <2>2. Len(<<>>) = 0
    BY EmptySeq
  <2> QED BY <2>1, <2>2 DEF Unbroken, RunUpTo
<1>11. CASE UNCHANGED vars
  BY <1>1, <1>11 DEF vars, memory, pipeline
<1> QED BY <1>2, <1>3, <1>4, <1>5, <1>6, <1>7, <1>8, <1>9, <1>10, <1>11 DEF Next

\* The view is told of the revisions one by one and only when they are on disk,
\* however writes are merged, fail and are retried (CommitPipeline).
THEOREM ViewFollowsTheDisk == Spec => []ViewInOrder
BY InitRuns, NextRuns, Invariance, UnbrokenIsInOrder, PTL DEF Spec, IInv
(***************************************************************************)
(* What the task owes.  Through failed and retried writes, halts and any   *)
(* number of reopenings, every due command is kept, or waits in the failed *)
(* snapshot; and every snapshot on its way carries it.                     *)
(***************************************************************************)

\* Where a due command waits: behind no fence and no refused receipt.
Kept == held \cup {e.cmd : e \in {f \in inFlight : ~f.fenced}}
             \cup {e.cmd : e \in {f \in AllPending : ~f.fenced /\ ~IsRejected(f)}}

DueIsKept == \A c \in Due : c \in Kept \/ (failed # NoBatch /\ c \in failed.outbox)

\* What is due is in the snapshots that know of it.
Carries(b) == \A c \in Due : c.rev <= b.rev => c \in b.outbox

DueIsCarried ==
  /\ Carries(disk)
  /\ writing # NoBatch => Carries(writing)
  /\ pending # NoBatch => Carries(pending)
  /\ failed # NoBatch => Carries(failed)

\* A halt takes back what it fences; nothing owed is behind a fence.
FencedIsFree ==
  /\ \A e \in AllPending : e.fenced => e.cmd \notin owed
  /\ \A e \in inFlight : e.fenced => e.cmd \notin owed

\* What is owed was issued, by the generation that runs, and the newest batch is
\* of that generation: the restore of a retried write lets all of it through.
OwedIsCurrent == \A c \in owed : c.rev <= rev /\ c.gen = gen

NewestIsCurrent ==
  /\ failed # NoBatch => failed.gen = gen
  /\ pending # NoBatch => pending.gen = gen
  /\ writing # NoBatch /\ pending = NoBatch => writing.gen = gen

\* A receipt is refused after its revision was accepted.
RefusedIsIssued == \A r \in rejected : r <= rev

Accounted == /\ DueIsKept /\ DueIsCarried /\ FencedIsFree
             /\ OwedIsCurrent /\ NewestIsCurrent /\ RefusedIsIssued

\* The invariant says what the runs check.
LEMMA AccountedGivesProperties ==
  ASSUME Accounted
  PROVE  CommandsAccounted /\ SnapshotCarriesOwed
<1>1. \A c \in Kept : Carried(c)
  BY DEF Kept, Carried, IsInFlight
<1>2. CommandsAccounted
  BY <1>1 DEF Accounted, DueIsKept, CommandsAccounted, Carried
<1>3. SnapshotCarriesOwed
  BY DEF Accounted, DueIsCarried, Carries, SnapshotCarriesOwed
<1> QED BY <1>2, <1>3

-------------------------------------------------------------------------------
(***************************************************************************)
(* The entries of the queues, as a set.                                    *)
(***************************************************************************)

\* A listing names every command of the set.
LEMMA ListingComplete ==
  ASSUME NEW S \in SUBSET Command, NEW q \in Listings(S), NEW c \in S
  PROVE  \E i \in DOMAIN q : q[i] = c
<1>1. IsFiniteSet(S)
  BY CommandFinite, FS_Subset
<1>2. Cardinality(S) \in Nat
  BY <1>1, FS_CardinalityType
<1> DEFINE n == Cardinality(S)
<1>3. q \in [1..n -> S] /\ \A i, j \in 1..n : i < j => q[i].rev < q[j].rev
  BY DEF Listings
<1>4. \A x \in S : x.rev \in Nat
  BY DEF Command, Revisions
<1>5. \A i, j \in 1..n : q[i] = q[j] => i = j
  <2> SUFFICES ASSUME NEW i \in 1..n, NEW j \in 1..n, q[i] = q[j], i # j
               PROVE  FALSE
    OBVIOUS
  <2>1. i < j \/ j < i
    BY <1>2
  <2>2. q[i].rev < q[j].rev \/ q[j].rev < q[i].rev
    BY <1>3, <2>1
  <2>3. q[i].rev \in Nat /\ q[i].rev = q[j].rev
    BY <1>3, <1>4
  <2> QED BY <2>2, <2>3
<1>6. q \in Injection(1..n, S)
  BY <1>3, <1>5 DEF Injection, IsInjective
<1>7. Cardinality(1..n) = n
  BY <1>2, FS_Interval
<1>8. q \in Surjection(1..n, S)
  BY <1>1, <1>6, <1>7, FS_Injection
<1> QED BY <1>3, <1>8 DEF Surjection

\* A push keeps the entries of the queues and adds one for each command.
LEMMA PushIsComplete ==
  ASSUME TypeOK, NEW S \in SUBSET Command, NEW r \in BOOLEAN, Push(S, r)
  PROVE  /\ \A e \in AllPending : e \in AllPending'
         /\ \A e \in AllPending' : e \in AllPending \/ (e.cmd \in S /\ ~e.fenced)
         /\ \A c \in S : \E e \in AllPending' : e.cmd = c /\ ~e.fenced /\ e.restored = r
<1>1. queue \in [Domains -> Seq(Entry)]
  BY DEF TypeOK
<1>2. PICK order : /\ \A d \in Domains : order[d] \in Listings(InDomain(S, d))
                   /\ queue' = [d \in Domains |-> queue[d] \o Fresh(order[d], r)]
  BY DEF Push, Pushed
<1>3. ASSUME NEW d \in Domains
      PROVE  /\ \A e \in Queued(d) : e \in Queued(d)'
             /\ \A e \in Queued(d)' : e \in Queued(d) \/ (e.cmd \in S /\ ~e.fenced)
             /\ \A c \in InDomain(S, d) :
                  \E e \in Queued(d)' : e.cmd = c /\ ~e.fenced /\ e.restored = r
  <2>0. InDomain(S, d) \in SUBSET Command /\ InDomain(S, d) \subseteq S
    BY DEF InDomain
  <2>1. PICK q : q = order[d]
    OBVIOUS
  <2>2. q \in Seq(InDomain(S, d)) /\ q \in Listings(InDomain(S, d))
    BY <1>2, <2>0, <2>1, ListingType
  <2>3. Len(q) \in Nat /\ DOMAIN q = 1..Len(q) /\ \A i \in 1..Len(q) : q[i] \in InDomain(S, d)
    BY <2>2, LenProperties, ElementOfSeq
  <2>4. PICK new : new = Fresh(q, r)
    OBVIOUS
  <2>5. new = [i \in 1..Len(q) |-> [cmd |-> q[i], restored |-> r, fenced |-> FALSE]]
    BY <2>3, <2>4 DEF Fresh
  <2>6. \A i \in 1..Len(q) : /\ new[i] \in Entry /\ new[i].cmd = q[i]
                              /\ ~new[i].fenced /\ new[i].restored = r
    BY <2>0, <2>3, <2>5 DEF Entry
  <2>7. new \in [1..Len(q) -> Entry]
    BY <2>5, <2>6
  <2>8. new \in Seq(Entry) /\ Len(new) = Len(q) /\ DOMAIN new = 1..Len(q)
    BY <2>3, <2>7, FunctionIsSeq
  <2>9. PICK old : old = queue[d]
    OBVIOUS
  <2>10. old \in Seq(Entry) /\ Len(old) \in Nat /\ DOMAIN old = 1..Len(old)
    BY <1>1, <2>9, LenProperties
  <2>11. /\ DOMAIN (old \o new) = 1..(Len(old) + Len(q))
         /\ \A i \in 1..(Len(old) + Len(q)) :
              (old \o new)[i] = IF i <= Len(old) THEN old[i] ELSE new[i - Len(old)]
    <3>1. /\ old \o new \in Seq(Entry) /\ Len(old \o new) = Len(old) + Len(new)
          /\ \A i \in 1..(Len(old) + Len(new)) :
               (old \o new)[i] = IF i <= Len(old) THEN old[i] ELSE new[i - Len(old)]
      BY <2>8, <2>10, ConcatProperties
    <3>2. DOMAIN (old \o new) = 1..Len(old \o new)
      BY <3>1, LenProperties
    <3> QED BY <2>8, <3>1, <3>2
  <2>12. queue'[d] = old \o new
    BY <1>2, <2>1, <2>4, <2>9
  <2>13. ASSUME NEW e \in Queued(d) PROVE e \in Queued(d)'
    <3>1. PICK i \in 1..Len(old) : e = old[i]
      BY <2>9, <2>10 DEF Queued
    <3>2. i \in DOMAIN (old \o new) /\ (old \o new)[i] = e
      BY <2>3, <2>10, <2>11, <3>1
    <3> QED BY <2>12, <3>2 DEF Queued
  <2>14. ASSUME NEW e \in Queued(d)' PROVE e \in Queued(d) \/ (e.cmd \in S /\ ~e.fenced)
    <3>1. PICK i \in 1..(Len(old) + Len(q)) : e = (old \o new)[i]
      BY <2>11, <2>12 DEF Queued
    <3>2. CASE i <= Len(old)
      BY <2>9, <2>10, <2>11, <3>1, <3>2 DEF Queued
    <3>3. CASE ~(i <= Len(old))
      <4>1. i - Len(old) \in 1..Len(q)
        BY <2>3, <2>10, <3>3
      <4> QED BY <2>0, <2>3, <2>6, <2>11, <3>1, <3>3, <4>1
    <3> QED BY <3>2, <3>3
  <2>15. ASSUME NEW c \in InDomain(S, d)
         PROVE  \E e \in Queued(d)' : e.cmd = c /\ ~e.fenced /\ e.restored = r
    <3>1. PICK i \in 1..Len(q) : q[i] = c
      BY <2>0, <2>2, <2>3, ListingComplete
    <3>2. PICK k : k = Len(old) + i
      OBVIOUS
    <3>3. k \in 1..(Len(old) + Len(q)) /\ ~(k <= Len(old)) /\ k - Len(old) = i
      BY <2>3, <2>10, <3>1, <3>2
    <3>4. (old \o new)[k] = new[i]
      BY <2>11, <3>3
    <3>5. new[i] \in Queued(d)'
      BY <2>11, <2>12, <3>3, <3>4 DEF Queued
    <3> QED BY <2>6, <3>1, <3>5
  <2> QED BY <2>13, <2>14, <2>15
<1>4. \A c \in S : c.domain \in Domains /\ c \in InDomain(S, c.domain)
  BY DEF Command, InDomain
<1>5. ASSUME NEW c \in S
      PROVE  \E e \in AllPending' : e.cmd = c /\ ~e.fenced /\ e.restored = r
  BY <1>3, <1>4 DEF AllPending
<1>6. \A e \in AllPending : e \in AllPending'
  BY <1>3 DEF AllPending
<1>7. \A e \in AllPending' : e \in AllPending \/ (e.cmd \in S /\ ~e.fenced)
  BY <1>3 DEF AllPending
<1> QED BY <1>5, <1>6, <1>7

\* A shift drops the head of one queue.
LEMMA ShiftDropsHead ==
  ASSUME TypeOK, NEW d \in Domains, queue[d] # <<>>, Shift(d)
  PROVE  /\ AllPending' \subseteq AllPending
         /\ \A e \in AllPending : e = queue[d][1] \/ e \in AllPending'
         /\ queue[d][1] \in AllPending /\ Head(queue[d]) = queue[d][1]
<1>1. /\ queue[d] \in Seq(Entry) /\ Len(queue[d]) \in Nat
      /\ 1 \in 1..Len(queue[d]) /\ Head(queue[d]) = queue[d][1]
      /\ DOMAIN queue[d] = 1..Len(queue[d])
  BY FirstEntry, LenProperties DEF TypeOK
<1>2. PICK s : s = queue[d]
  OBVIOUS
<1>3. PICK t : t = Tail(s)
  OBVIOUS
<1>4. /\ t \in Seq(Entry) /\ Len(t) = Len(s) - 1 /\ DOMAIN t = 1..(Len(s) - 1)
      /\ \A i \in 1..(Len(s) - 1) : t[i] = s[i + 1]
  BY <1>1, <1>2, <1>3, HeadTailProperties, LenProperties
<1>5. queue'[d] = t /\ \A x \in Domains \ {d} : queue'[x] = queue[x]
  BY <1>2, <1>3 DEF Shift, TypeOK
<1>6. Queued(d)' \subseteq Queued(d)
  <2>1. ASSUME NEW i \in 1..(Len(s) - 1) PROVE i + 1 \in 1..Len(s)
    BY <1>1, <1>2
  <2> QED BY <1>1, <1>2, <1>4, <1>5, <2>1 DEF Queued
<1>7. ASSUME NEW e \in Queued(d) PROVE e = queue[d][1] \/ e \in Queued(d)'
  <2>1. PICK i \in 1..Len(s) : e = s[i]
    BY <1>1, <1>2, <1>7 DEF Queued
  <2>2. CASE i = 1
    BY <1>2, <2>1, <2>2
  <2>3. CASE i # 1
    <3>1. i - 1 \in 1..(Len(s) - 1) /\ (i - 1) + 1 = i
      BY <1>1, <1>2, <2>3
    <3>2. t[i - 1] = e
      BY <1>4, <2>1, <3>1
    <3> QED BY <1>4, <1>5, <3>1, <3>2 DEF Queued
  <2> QED BY <2>2, <2>3
<1>8. \A x \in Domains \ {d} : Queued(x)' = Queued(x)
  BY <1>5 DEF Queued
<1>9. queue[d][1] \in Queued(d)
  BY <1>1 DEF Queued
<1>10. AllPending' \subseteq AllPending
  <2>1. ASSUME NEW e \in AllPending' PROVE e \in AllPending
    <3>1. PICK x \in Domains : e \in Queued(x)'
      BY DEF AllPending
    <3>2. e \in Queued(x)
      BY <1>6, <1>8, <3>1
    <3> QED BY <3>2 DEF AllPending
  <2> QED BY <2>1
<1>11. ASSUME NEW e \in AllPending PROVE e = queue[d][1] \/ e \in AllPending'
  <2>1. PICK x \in Domains : e \in Queued(x)
    BY DEF AllPending
  <2>2. e = queue[d][1] \/ e \in Queued(x)'
    BY <1>7, <1>8, <2>1
  <2> QED BY <2>2 DEF AllPending
<1> QED BY <1>1, <1>9, <1>10, <1>11 DEF AllPending

\* The entries of the queues are entries, of commands issued before.
LEMMA PendingKnown ==
  ASSUME TypeOK, CommandsSafe, NEW e \in AllPending
  PROVE  e \in Entry /\ e.cmd \in Command /\ e.cmd.rev <= rev
<1>1. PICK d \in Domains : e \in Queued(d)
  BY DEF AllPending
<1>2. queue[d] \in Seq(Entry)
  BY DEF TypeOK
<1>3. PICK i \in 1..Len(queue[d]) : e = queue[d][i]
  BY <1>1, <1>2, LenProperties DEF Queued
<1>4. e \in Entry /\ EntryOK(e)
  BY <1>2, <1>3, ElementOfSeq DEF CommandsSafe, QueuesSafe
<1> QED BY <1>4 DEF Entry, EntryOK

-------------------------------------------------------------------------------
(***************************************************************************)
(* The steps.                                                              *)
(***************************************************************************)

\* Steps that issue nothing and leave the pipeline alone: what is owed and due
\* only shrinks, and what is still due stays kept.
LEMMA NothingIssued ==
  ASSUME Accounted,
         UNCHANGED <<rev, gen, pending, writing, failed, rejected, disk>>,
         owed' \subseteq owed, Due' \subseteq Due, FencedIsFree',
         \A c \in Due' : c \in Kept => c \in Kept'
  PROVE  Accounted'
<1>1. DueIsKept'
  BY DEF Accounted, DueIsKept
<1>2. DueIsCarried'
  BY DEF Accounted, DueIsCarried, Carries
<1>3. OwedIsCurrent' /\ NewestIsCurrent' /\ RefusedIsIssued'
  BY DEF Accounted, OwedIsCurrent, NewestIsCurrent, RefusedIsIssued
<1> QED BY <1>1, <1>2, <1>3 DEF Accounted

\* A drain passes an entry over when it is fenced, refused, runs already, or was
\* done.
LEMMA DrainAccounts ==
  ASSUME IInv, Accounted, NEW d \in Domains, Drain(d)
  PROVE  Accounted'
<1>1. TypeOK /\ CommandsSafe /\ FencedIsFree
  BY DEF IInv, Accounted
<1>2. /\ queue[d] # <<>>
      /\ UNCHANGED <<rev, gen, owed, skipped, held, published, pending, writing, failed,
                     rejected, disk>>
  BY DEF Drain, AwaitDurability, LookUp, DropRejected, Dispatch, pipeline, history
<1>3. Due' = Due
  BY <1>2 DEF Due
<1>4. \A e : IsRejected(e)' <=> IsRejected(e)
  BY <1>2 DEF IsRejected
<1>5. CASE UNCHANGED <<queue, inFlight>>
  <2>1. AllPending' = AllPending
    BY <1>5 DEF AllPending, Queued
  <2>2. Kept' = Kept
    BY <1>2, <1>4, <1>5, <2>1 DEF Kept
  <2>3. FencedIsFree'
    BY <1>1, <1>2, <1>5, <2>1 DEF FencedIsFree
  <2> QED BY <1>2, <1>3, <2>2, <2>3, NothingIssued
<1>6. CASE Shift(d)
  <2> DEFINE h == queue[d][1]
             effect == [cmd |-> h.cmd, fenced |-> FALSE, marking |-> FALSE]
  <2>1. /\ AllPending' \subseteq AllPending
        /\ \A e \in AllPending : e = h \/ e \in AllPending'
        /\ h \in AllPending /\ Head(queue[d]) = h
    BY <1>1, <1>2, <1>6, ShiftDropsHead
  <2>2. \/ /\ UNCHANGED inFlight
           /\ h.fenced \/ IsRejected(h) \/ IsInFlight(h.cmd) \/ h.cmd \in published
        \/ inFlight' = inFlight \cup {effect}
    <3>1. CASE AwaitDurability(d)
      <4>1. h.fenced
        <5>1. h.fenced \/ (UNCHANGED queue /\ at' = [at EXCEPT ![d] = "durability"])
          BY <2>1, <3>1 DEF AwaitDurability
        <5>2. at' # [at EXCEPT ![d] = "durability"]
          BY <1>1, <1>6 DEF Shift, TypeOK
        <5> QED BY <5>1, <5>2
      <4> QED BY <3>1, <4>1 DEF AwaitDurability
    <3>2. CASE LookUp(d)
      <4>1. h.fenced \/ IsInFlight(h.cmd)
        <5>1. \/ h.fenced \/ IsInFlight(h.cmd)
              \/ (UNCHANGED queue /\ at' = [at EXCEPT ![d] = "lookup"])
          BY <2>1, <3>2 DEF LookUp
        <5>2. at' # [at EXCEPT ![d] = "lookup"]
          BY <1>1, <1>6 DEF Shift, TypeOK
        <5> QED BY <5>1, <5>2
      <4> QED BY <3>2, <4>1 DEF LookUp
    <3>3. CASE DropRejected(d)
      BY <2>1, <3>3 DEF DropRejected
    <3>4. CASE Dispatch(d)
      BY <2>1, <3>4 DEF Dispatch
    <3> QED BY <3>1, <3>2, <3>3, <3>4 DEF Drain
  <2>3. effect.cmd = h.cmd /\ ~effect.fenced
    OBVIOUS
  <2> HIDE DEF h, effect
  <2>5. inFlight \subseteq inFlight'
    BY <2>2
  <2>6. \A e \in inFlight' : e \in inFlight \/ (e.cmd = h.cmd /\ ~e.fenced)
    BY <2>2, <2>3
  <2>9. ASSUME NEW k \in Due, k \in Kept
        PROVE  k \in Kept'
    <3>2. CASE k \in held
      BY <1>2, <3>2 DEF Kept
    <3>3. ASSUME NEW e \in inFlight, e.cmd = k, ~e.fenced
          PROVE  k \in Kept'
      BY <2>5, <3>3 DEF Kept
    <3>4. ASSUME NEW e \in AllPending, e.cmd = k, ~e.fenced, ~IsRejected(e)
          PROVE  k \in Kept'
      <4>1. CASE e \in AllPending'
        BY <1>4, <3>4, <4>1 DEF Kept
      <4>2. CASE e = h
        <5>1. CASE effect \in inFlight'
          <6>1. effect.cmd = k /\ ~effect.fenced
            BY <2>3, <3>4, <4>2
          <6> QED BY <5>1, <6>1 DEF Kept
        <5>2. CASE effect \notin inFlight'
          <6>1. IsInFlight(k)
            BY <2>2, <2>9, <3>4, <4>2, <5>2 DEF Due
          <6>2. PICK f \in inFlight : f.cmd = k
            BY <6>1 DEF IsInFlight
          <6>3. ~f.fenced
            BY <1>1, <2>9, <6>2 DEF FencedIsFree, Due
          <6> QED BY <3>3, <6>2, <6>3
        <5> QED BY <5>1, <5>2
      <4> QED BY <2>1, <4>1, <4>2
    <3> QED BY <2>9, <3>2, <3>3, <3>4 DEF Kept
  <2>10. FencedIsFree'
    <3>1. \A e \in AllPending' : e.fenced => e.cmd \notin owed'
      BY <1>1, <1>2, <2>1 DEF FencedIsFree
    <3>2. \A e \in inFlight' : e.fenced => e.cmd \notin owed'
      BY <1>1, <1>2, <2>6 DEF FencedIsFree
    <3> QED BY <3>1, <3>2 DEF FencedIsFree
  <2> QED BY <1>2, <1>3, <2>9, <2>10, NothingIssued
<1>7. UNCHANGED <<queue, inFlight>> \/ Shift(d)
  BY DEF Drain, AwaitDurability, LookUp, DropRejected, Dispatch
<1> QED BY <1>5, <1>6, <1>7

\* An effect that completes settles its command; one that fails settles it too,
\* or puts it back.
LEMMA EffectAccounts ==
  ASSUME IInv, Accounted, NEW e \in inFlight,
         EffectCompletes(e) \/ Marked(e) \/ EffectFails(e)
  PROVE  Accounted'
<1>1. TypeOK /\ CommandsSafe /\ FencedIsFree
  BY DEF IInv, Accounted
<1>2. UNCHANGED <<rev, gen, queue, pending, writing, failed, rejected, disk, skipped>>
  BY DEF EffectCompletes, Marked, EffectFails, pipeline, budgets, history
<1>4. AllPending' = AllPending /\ \A f : IsRejected(f)' <=> IsRejected(f)
  BY <1>2 DEF AllPending, Queued, IsRejected
<1>5. PICK m : m = [e EXCEPT !.marking = TRUE]
  OBVIOUS
<1>6. m.cmd = e.cmd /\ m.fenced = e.fenced
  BY <1>1, <1>5 DEF TypeOK, Effect
<1>7. /\ inFlight \ {e} \subseteq inFlight' /\ inFlight' \subseteq (inFlight \ {e}) \cup {m}
      /\ published \subseteq published' /\ owed' \subseteq owed /\ held \subseteq held'
      /\ e.cmd \in owed' => m \in inFlight' \/ e.cmd \in held'
  BY <1>5 DEF EffectCompletes, Marked, EffectFails, history
<1>8. \A f \in inFlight' : \E g \in inFlight : g.cmd = f.cmd /\ g.fenced = f.fenced
  BY <1>6, <1>7
<1>9. Due' \subseteq Due
  BY <1>2, <1>7 DEF Due
<1>11. FencedIsFree'
  BY <1>1, <1>4, <1>7, <1>8 DEF FencedIsFree
<1>12. ASSUME NEW c \in Due', c \in Kept
       PROVE  c \in Kept'
  <2>1. c \in owed'
    BY <1>12 DEF Due
  <2>2. CASE c = e.cmd
    <3>1. CASE c \in held'
      BY <3>1 DEF Kept
    <3>2. CASE m \in inFlight'
      <4>1. ~m.fenced
        BY <1>11, <1>6, <2>1, <2>2, <3>2 DEF FencedIsFree
      <4> QED BY <1>6, <2>2, <3>2, <4>1 DEF Kept
    <3> QED BY <1>7, <2>1, <2>2, <3>1, <3>2
  <2>3. CASE c # e.cmd
    BY <1>4, <1>7, <1>12, <2>3 DEF Kept
  <2> QED BY <2>2, <2>3
<1> QED BY <1>2, <1>7, <1>9, <1>11, <1>12, NothingIssued

\* A write that lands puts a snapshot on disk that carries what is due.
LEMMA SaveLandsAccounts ==
  ASSUME IInv, Accounted, SaveLands
  PROVE  Accounted'
<1>1. /\ writing # NoBatch /\ disk'.rev = writing.rev /\ disk'.outbox = writing.outbox
      /\ writing' = pending /\ pending' = NoBatch
      /\ UNCHANGED <<rev, gen, failed, rejected, queue, inFlight, held, published,
                     owed, skipped>>
  BY DEF SaveLands, Lands, budgets, history
<1>2. AllPending' = AllPending /\ Due' = Due /\ \A e : IsRejected(e)' <=> IsRejected(e)
  BY <1>1 DEF AllPending, Queued, Due, IsRejected
<1>3. Kept' = Kept
  BY <1>1, <1>2 DEF Kept
<1>4. DueIsKept' /\ FencedIsFree'
  BY <1>1, <1>2, <1>3 DEF Accounted, DueIsKept, FencedIsFree
<1>5. DueIsCarried'
  BY <1>1, <1>2 DEF Accounted, DueIsCarried, Carries
<1>6. OwedIsCurrent' /\ NewestIsCurrent' /\ RefusedIsIssued'
  BY <1>1 DEF Accounted, OwedIsCurrent, NewestIsCurrent, RefusedIsIssued
<1> QED BY <1>4, <1>5, <1>6 DEF Accounted

\* A write that fails leaves the newest snapshot, which carries all that is due.
LEMMA SaveFailsAccounts ==
  ASSUME IInv, Unbroken, Accounted, SaveFails
  PROVE  Accounted'
<1>1. /\ writing # NoBatch /\ failed' = MergedFailure
      /\ rejected' = rejected \cup Revs(writing) \cup Revs(pending)
      /\ writing' = NoBatch /\ pending' = NoBatch
      /\ UNCHANGED <<rev, gen, disk, queue, inFlight, held, published, owed, skipped>>
  BY DEF SaveFails, history
<1>2. TypeOK /\ PipelineOrdered
  BY DEF IInv
<1>3. AllPending' = AllPending /\ Due' = Due
  BY <1>1 DEF AllPending, Queued, Due
<1>4. PICK f : f = MergedFailure
  OBVIOUS
<1>5. f.rev = rev /\ f.gen = gen /\ Carries(f)
  <2>1. CASE pending = NoBatch
    BY <1>1, <1>4, <2>1
       DEF MergedFailure, Unbroken, Accounted, NewestIsCurrent, DueIsCarried
  <2>2. CASE pending # NoBatch
    <3>1. f.rev = pending.rev /\ f.gen = pending.gen /\ f.outbox = pending.outbox
      BY <1>2, <1>4, <2>2 DEF MergedFailure, TypeOK, Batch
    <3> QED BY <2>2, <3>1
            DEF Unbroken, Accounted, NewestIsCurrent, DueIsCarried, Carries
  <2> QED BY <2>1, <2>2
<1>6. f # NoBatch
  <2>1. rev # 0
    BY <1>1, <1>2 DEF TypeOK, PipelineOrdered, BatchBehind, Batch
  <2> QED BY <1>5, <2>1 DEF NoBatch
<1>7. \A c \in Due : c \in f.outbox
  BY <1>5 DEF Accounted, OwedIsCurrent, Carries, Due
<1>8. DueIsKept'
  BY <1>1, <1>3, <1>4, <1>6, <1>7 DEF DueIsKept
<1>9. DueIsCarried'
  BY <1>1, <1>3, <1>4, <1>5 DEF Accounted, DueIsCarried, Carries
<1>10. FencedIsFree' /\ OwedIsCurrent' /\ NewestIsCurrent'
  BY <1>1, <1>3, <1>4, <1>5
     DEF Accounted, FencedIsFree, OwedIsCurrent, NewestIsCurrent
<1>11. RefusedIsIssued'
  <2>1. \A r \in Revs(writing) \cup Revs(pending) : r \in Nat /\ r <= rev
    <3>1. /\ rev \in Nat /\ writing.rev \in Nat /\ pending.rev \in Nat
          /\ writing.rev <= rev /\ pending.rev <= rev
          /\ writing.committed \in Seq(Nat) /\ pending.committed \in Seq(Nat)
      BY <1>2 DEF TypeOK, PipelineOrdered, BatchBehind, Batch
    <3>2. Revs(writing) \subseteq Nat /\ Revs(pending) \subseteq Nat
      BY <3>1, ElementOfSeq, LenProperties DEF Revs
    <3>3. /\ \A r \in Revs(writing) : r <= writing.rev
          /\ \A r \in Revs(pending) : r <= pending.rev
      BY <1>2 DEF PipelineOrdered, BatchBehind
    <3> QED BY <3>1, <3>2, <3>3
  <2> QED BY <1>1, <2>1 DEF Accounted, RefusedIsIssued
<1> QED BY <1>8, <1>9, <1>10, <1>11 DEF Accounted

\* What is restored is queued again, or was queued before, or is passed over.
LEMMA RestoreQueues ==
  ASSUME TypeOK, NEW S \in SUBSET Command, Restore(S), UNCHANGED rejected
  PROVE  /\ \A e \in AllPending : e \in AllPending'
         /\ \A e \in AllPending' : e \in AllPending \/ (e.cmd \in S /\ ~e.fenced)
         /\ \A c \in S \ skipped' : \E e \in AllPending' :
              e.cmd = c /\ (e \in AllPending \/ ~e.fenced) /\ ~IsRejected(e)'
         /\ skipped \subseteq skipped'
<1>1. PICK T \in SUBSET Command : T = S \ {e.cmd : e \in AllPending}
  OBVIOUS
<1>2. /\ \A e \in AllPending : e \in AllPending'
      /\ \A e \in AllPending' : e \in AllPending \/ (e.cmd \in T /\ ~e.fenced)
      /\ \A c \in T : \E e \in AllPending' : e.cmd = c /\ ~e.fenced /\ e.restored = TRUE
  BY <1>1, PushIsComplete DEF Restore
<1>3. ASSUME NEW c \in S \ skipped'
      PROVE  \E e \in AllPending' :
               e.cmd = c /\ (e \in AllPending \/ ~e.fenced) /\ ~IsRejected(e)'
  <2>1. CASE c \in T
    BY <1>2, <2>1 DEF IsRejected
  <2>2. CASE c \notin T
    <3>1. PICK e \in AllPending : e.cmd = c
      BY <1>1, <1>3, <2>2
    <3>2. ~IsRejected(e)
      BY <1>3, <3>1 DEF Restore
    <3> QED BY <1>2, <3>1, <3>2 DEF IsRejected
  <2> QED BY <2>1, <2>2
<1> QED BY <1>1, <1>2, <1>3 DEF Restore

\* A restore queues what was held, and nothing that is due is lost by it.
LEMMA RestoreKeeps ==
  ASSUME IInv, FencedIsFree, NEW S \in SUBSET Command, Restore(S), held \subseteq S,
         UNCHANGED <<rejected, inFlight, published, owed>>
  PROVE  /\ FencedIsFree' /\ Due' \subseteq Due
         /\ \A c \in Due' : c \in Kept \/ c \in S => c \in Kept'
<1>1. /\ \A e \in AllPending : e \in AllPending'
      /\ \A e \in AllPending' : e \in AllPending \/ (e.cmd \in S /\ ~e.fenced)
      /\ \A c \in S \ skipped' : \E e \in AllPending' :
           e.cmd = c /\ (e \in AllPending \/ ~e.fenced) /\ ~IsRejected(e)'
      /\ skipped \subseteq skipped'
  BY RestoreQueues DEF IInv
<1>2. FencedIsFree'
  BY <1>1 DEF FencedIsFree
<1>3. Due' \subseteq Due
  BY <1>1 DEF Due
<1>4. ASSUME NEW c \in Due', c \in S PROVE c \in Kept'
  <2>1. c \in owed' /\ c \in S \ skipped'
    BY <1>4 DEF Due
  <2>2. PICK e \in AllPending' : e.cmd = c /\ ~IsRejected(e)'
    BY <1>1, <2>1
  <2>3. ~e.fenced
    BY <1>2, <2>1, <2>2 DEF FencedIsFree
  <2> QED BY <2>2, <2>3 DEF Kept
<1>5. ASSUME NEW c \in Due', c \in Kept PROVE c \in Kept'
  <2>1. CASE c \in held
    BY <1>4, <1>5, <2>1
  <2>2. CASE c \notin held
    <3>1. \A e \in AllPending : ~IsRejected(e) => ~IsRejected(e)'
      BY DEF IsRejected
    <3> QED BY <1>1, <1>5, <2>2, <3>1 DEF Kept
  <2> QED BY <2>1, <2>2
<1> QED BY <1>2, <1>3, <1>4, <1>5

\* The retried write lands with the snapshot that carries all that is due, and
\* what waited there is queued, or held for the barrier.
LEMMA RetryLandsAccounts ==
  ASSUME IInv, Accounted, RetryLands
  PROVE  Accounted'
<1>1. /\ failed # NoBatch /\ failed' = NoBatch
      /\ disk'.rev = failed.rev /\ disk'.outbox = failed.outbox
      /\ IF released THEN held' = {} /\ Restore(Recovered)
                     ELSE held' = Recovered /\ UNCHANGED <<queue, skipped>>
      /\ UNCHANGED <<rev, gen, pending, writing, rejected, inFlight, published, owed>>
  BY DEF RetryLands, Lands, budgets
<1>2. TypeOK /\ PipelineOrdered /\ FencedIsFree
  BY DEF IInv, Accounted
<1>3. Recovered \in SUBSET Command /\ held \subseteq Recovered
  BY <1>2 DEF Recovered, TypeOK, Batch
<1>4. \A c \in Due : c \in Kept \/ c \in Recovered
  BY <1>1 DEF Accounted, DueIsKept, OwedIsCurrent, NewestIsCurrent, Recovered, Due
<1>5. /\ FencedIsFree' /\ Due' \subseteq Due
      /\ \A c \in Due' : c \in Kept'
  <2>1. CASE released
    <3>1. Restore(Recovered)
      BY <1>1, <2>1
    <3> QED BY <1>1, <1>2, <1>3, <1>4, <3>1, RestoreKeeps
  <2>2. CASE ~released
    <3>1. /\ AllPending' = AllPending /\ Due' = Due /\ held' = Recovered
          /\ \A e : IsRejected(e)' <=> IsRejected(e)
      BY <1>1, <2>2 DEF AllPending, Queued, Due, IsRejected
    <3>2. FencedIsFree'
      BY <1>1, <1>2, <3>1 DEF FencedIsFree
    <3>3. \A c \in Kept \cup Recovered : c \in Kept'
      BY <1>1, <1>3, <3>1 DEF Kept
    <3> QED BY <1>4, <3>1, <3>2, <3>3
  <2> QED BY <2>1, <2>2
<1>6. DueIsKept'
  BY <1>5 DEF DueIsKept
<1>7. DueIsCarried'
  <2>1. writing' = NoBatch /\ pending' = NoBatch
    BY <1>1, <1>2 DEF PipelineOrdered
  <2> QED BY <1>1, <1>5, <2>1 DEF Accounted, DueIsCarried, Carries
<1>8. OwedIsCurrent' /\ NewestIsCurrent' /\ RefusedIsIssued'
  BY <1>1 DEF Accounted, OwedIsCurrent, NewestIsCurrent, RefusedIsIssued
<1> QED BY <1>5, <1>6, <1>7, <1>8 DEF Accounted

LEMMA AllowRestoredAccounts ==
  ASSUME IInv, Accounted, AllowRestored
  PROVE  Accounted'
<1>1. /\ held' = {} /\ Restore(held) /\ held \in SUBSET Command /\ FencedIsFree
      /\ UNCHANGED <<rev, gen, pending, writing, failed, rejected, inFlight, published,
                     owed, disk>>
  BY DEF AllowRestored, budgets, pipeline, IInv, TypeOK, Accounted
<1>2. /\ FencedIsFree' /\ Due' \subseteq Due
      /\ \A c \in Due' : c \in Kept => c \in Kept'
  BY <1>1, RestoreKeeps
<1> QED BY <1>1, <1>2, NothingIssued

\* A commit makes the newest batch, whichever place it takes.
LEMMA CommitTakesPlace ==
  ASSUME NEW outbox, NEW r, NEW g, CommitBatch(outbox, r, g)
  PROVE  \/ writing' = Batched(outbox, r, g) /\ UNCHANGED pending /\ pending = NoBatch
         \/ pending' = Batched(outbox, r, g) /\ UNCHANGED writing
BY DEF CommitBatch

LEMMA SubmitAccounts ==
  ASSUME IInv, Accounted, NEW D \in SUBSET Domains, Submit(D)
  PROVE  Accounted'
<1>1. PICK incoming : incoming = {Cmd(rev + 1, gen, d) : d \in D}
  OBVIOUS
<1>2. PICK outbox : outbox = Persistable(incoming, FALSE, rev + 1)
  OBVIOUS
<1>3. /\ Accepts /\ CommitBatch(outbox, rev + 1, gen) /\ Push(incoming, FALSE)
      /\ owed' = owed \cup incoming /\ rev' = rev + 1
      /\ UNCHANGED <<gen, failed, rejected, inFlight, held, disk, published, skipped>>
  BY <1>1, <1>2 DEF Submit, budgets
<1>4. /\ TypeOK /\ PipelineOrdered /\ CommandsSafe
      /\ FencedIsFree /\ OwedIsCurrent /\ RefusedIsIssued /\ failed = NoBatch
  BY <1>3 DEF IInv, Accounted, Accepts
<1>5. /\ rev \in Nat /\ rev + 1 \in Revisions /\ gen \in Revisions
      /\ disk.rev \in Nat /\ disk.rev <= rev
  BY <1>3, <1>4, RuntimeAssumption DEF TypeOK, Accepts, PipelineOrdered, Revisions
<1>6. /\ incoming \in SUBSET Command
      /\ \A c \in incoming : c.rev = rev + 1 /\ c.gen = gen
  <2>1. ASSUME NEW d \in D
        PROVE  /\ Cmd(rev + 1, gen, d) \in Command /\ Cmd(rev + 1, gen, d).rev = rev + 1
               /\ Cmd(rev + 1, gen, d).gen = gen
    BY <1>5 DEF Cmd, Command
  <2> QED BY <1>1, <2>1
<1>7. /\ \A e \in AllPending : e \in AllPending'
      /\ \A e \in AllPending' : e \in AllPending \/ (e.cmd \in incoming /\ ~e.fenced)
      /\ \A c \in incoming : \E e \in AllPending' : e.cmd = c /\ ~e.fenced
  BY <1>3, <1>4, <1>6, PushIsComplete
<1>8. outbox = Retained \cup incoming
  BY <1>2 DEF Persistable
<1>9. PICK b : b = Batched(outbox, rev + 1, gen)
  OBVIOUS
<1>10. b.rev = rev + 1 /\ b.outbox = outbox /\ b.gen = gen
  BY <1>9 DEF Batched
<1>11. \/ writing' = b /\ pending' = pending /\ pending = NoBatch
       \/ pending' = b /\ writing' = writing
  BY <1>3, <1>9, CommitTakesPlace
<1>12. Due' \subseteq Due \cup incoming
  BY <1>3 DEF Due
<1>13. rev + 1 \notin rejected
  BY <1>4, <1>5 DEF RefusedIsIssued
<1>14. ASSUME NEW e \in AllPending \cup inFlight PROVE e.cmd \notin incoming
  <2>1. e.cmd \in Command /\ e.cmd.rev <= rev
    BY <1>4, <1>14, PendingKnown DEF CommandsSafe, TypeOK, Effect
  <2> QED BY <1>5, <1>6, <2>1 DEF Command, Revisions
<1>15. FencedIsFree'
  BY <1>3, <1>4, <1>7, <1>14 DEF FencedIsFree
<1>16. OwedIsCurrent'
  <2>1. \A c \in owed : c.rev \in Nat /\ c.rev <= rev
    BY <1>4 DEF OwedIsCurrent, TypeOK, Command, Revisions
  <2>2. \A c \in owed : c.rev <= rev + 1
    BY <1>5, <2>1
  <2> QED BY <1>3, <1>4, <1>5, <1>6, <2>2 DEF OwedIsCurrent
<1>17. NewestIsCurrent'
  <2>1. b # NoBatch
    BY <1>5, <1>10 DEF NoBatch
  <2> QED BY <1>3, <1>4, <1>10, <1>11, <2>1 DEF Accounted, NewestIsCurrent
<1>18. RefusedIsIssued'
  <2>1. \A r \in rejected : r \in Nat /\ r <= rev
    BY <1>4 DEF RefusedIsIssued, TypeOK
  <2> QED BY <1>3, <1>5, <2>1 DEF RefusedIsIssued
<1>19. Due \subseteq Kept
  BY <1>4 DEF Accounted, DueIsKept
<1>20. Kept \subseteq Retained
  BY DEF Kept, Retained
<1>21. DueIsKept'
  <2>1. ASSUME NEW c \in incoming PROVE c \in Kept'
    <3>1. PICK e \in AllPending' : e.cmd = c /\ ~e.fenced
      BY <1>7
    <3>2. ~IsRejected(e)'
      BY <1>3, <1>6, <1>13, <3>1 DEF IsRejected
    <3> QED BY <3>1, <3>2 DEF Kept
  <2>2. \A e : IsRejected(e)' <=> IsRejected(e)
    BY <1>3 DEF IsRejected
  <2>3. Kept \subseteq Kept'
    BY <1>3, <1>7, <2>2 DEF Kept
  <2> QED BY <1>12, <1>19, <2>1, <2>3 DEF DueIsKept
<1>22. DueIsCarried'
  <2>1. \A x \in [rev : Nat, gen : Nat, outbox : SUBSET Command] \cup Batch :
          x.rev <= rev /\ Carries(x) => Carries(x)'
    BY <1>5, <1>6, <1>12 DEF Carries, Batch
  <2>2. Carries(b)'
    BY <1>8, <1>10, <1>12, <1>19, <1>20 DEF Carries
  <2>3. disk \in [rev : Nat, gen : Nat, outbox : SUBSET Command]
        /\ writing \in Batch /\ pending \in Batch
        /\ writing.rev <= rev /\ pending.rev <= rev
    BY <1>4 DEF TypeOK, PipelineOrdered, BatchBehind
  <2>4. Carries(disk) /\ (writing # NoBatch => Carries(writing))
        /\ (pending # NoBatch => Carries(pending))
    BY DEF Accounted, DueIsCarried
  <2>5. Carries(disk)'
    BY <1>3, <1>5, <2>1, <2>3, <2>4 DEF Carries
  <2>6. writing' # NoBatch => Carries(writing)'
    BY <1>11, <2>1, <2>2, <2>3, <2>4 DEF Carries
  <2>7. pending' # NoBatch => Carries(pending)'
    BY <1>11, <2>1, <2>2, <2>3, <2>4 DEF Carries
  <2> QED BY <1>3, <1>4, <2>5, <2>6, <2>7 DEF DueIsCarried
<1> QED BY <1>15, <1>16, <1>17, <1>18, <1>21, <1>22 DEF Accounted

\* A halt fences what was issued before and is owed no more.
LEMMA CancelAccounts ==
  ASSUME IInv, Accounted, Cancel
  PROVE  Accounted'
<1>1. PICK outbox : outbox = Persistable({}, TRUE, rev + 1)
  OBVIOUS
<1>2. /\ Accepts /\ CommitBatch(outbox, rev + 1, gen + 1)
      /\ owed' = {c \in owed : c.rev >= rev + 1}
      /\ rev' = rev + 1 /\ gen' = gen + 1
      /\ UNCHANGED <<failed, rejected>>
  BY <1>1 DEF Cancel
<1>3. /\ TypeOK /\ OwedIsCurrent /\ RefusedIsIssued /\ failed = NoBatch
  BY <1>2 DEF IInv, Accounted, Accepts
<1>4. owed' = {} /\ Due' = {}
  <2>1. \A c \in owed : c.rev \in Nat /\ c.rev <= rev /\ rev \in Nat
    BY <1>3 DEF OwedIsCurrent, TypeOK, Command, Revisions
  <2>2. \A c \in owed : ~(c.rev >= rev + 1)
    BY <2>1
  <2> QED BY <1>2, <2>2 DEF Due
<1>5. PICK b : b = Batched(outbox, rev + 1, gen + 1)
  OBVIOUS
<1>6. b.gen = gen + 1
  BY <1>5 DEF Batched
<1>7. \/ writing' = b /\ pending' = pending /\ pending = NoBatch
      \/ pending' = b /\ writing' = writing
  BY <1>2, <1>5, CommitTakesPlace
<1>8. b # NoBatch
  BY <1>3, <1>6 DEF NoBatch, TypeOK
<1>9. NewestIsCurrent'
  BY <1>2, <1>3, <1>6, <1>7, <1>8 DEF NewestIsCurrent
<1>10. RefusedIsIssued'
  <2>1. rev \in Nat /\ \A r \in rejected : r \in Nat /\ r <= rev
    BY <1>3 DEF RefusedIsIssued, TypeOK
  <2> QED BY <1>2, <2>1 DEF RefusedIsIssued
<1> QED BY <1>4, <1>9, <1>10
        DEF Accounted, DueIsKept, DueIsCarried, Carries, FencedIsFree, OwedIsCurrent

\* A reopened task holds what it derives, which is all that is due.
LEMMA ReopenAccounts ==
  ASSUME IInv, Accounted, NEW D \in SUBSET Rederived, Reopen(D)
  PROVE  Accounted'
<1>1. /\ pending' = NoBatch /\ writing' = NoBatch /\ failed' = NoBatch
      /\ rev' = disk.rev + 1 /\ gen' = disk.gen + 1 /\ rejected' = {} /\ inFlight' = {}
      /\ queue' = [d \in Domains |-> <<>>]
      /\ owed' = Derived(D)
      /\ held' = {c \in disk.outbox \cup Derived(D) : c.gen = disk.gen + 1}
      /\ UNCHANGED disk
  BY DEF Reopen
<1>2. disk.rev \in Nat
  BY DEF IInv, TypeOK
<1>3. \A c \in Derived(D) : c.rev = disk.rev + 1 /\ c.gen = disk.gen + 1
  BY DEF Derived
<1>4. AllPending' = {}
  <2>1. DOMAIN <<>> = {}
    BY EmptySeq, LenProperties
  <2> QED BY <1>1, <2>1 DEF AllPending, Queued
<1>5. Due' \subseteq Derived(D)
  BY <1>1 DEF Due
<1>6. DueIsKept'
  BY <1>1, <1>3, <1>5 DEF DueIsKept, Kept
<1>7. DueIsCarried'
  BY <1>1, <1>2, <1>3, <1>5 DEF DueIsCarried, Carries
<1>8. FencedIsFree' /\ OwedIsCurrent' /\ NewestIsCurrent' /\ RefusedIsIssued'
  BY <1>1, <1>2, <1>3, <1>4
     DEF FencedIsFree, OwedIsCurrent, NewestIsCurrent, RefusedIsIssued
<1> QED BY <1>6, <1>7, <1>8 DEF Accounted

LEMMA InitAccounts == Init => Accounted
<1> SUFFICES ASSUME Init PROVE Accounted
  OBVIOUS
<1>1. DOMAIN <<>> = {}
  BY EmptySeq, LenProperties
<1>2. AllPending = {} /\ Due = {}
  BY <1>1 DEF Init, AllPending, Queued, Due
<1> QED BY <1>2 DEF Init, Accounted, DueIsKept, DueIsCarried, Carries, FencedIsFree,
                    OwedIsCurrent, NewestIsCurrent, RefusedIsIssued

LEMMA NextAccounts == IInv /\ Unbroken /\ Accounted /\ [Next]_vars => Accounted'
<1> SUFFICES ASSUME IInv, Unbroken, Accounted, [Next]_vars PROVE Accounted'
  OBVIOUS
<1>1. CASE UNCHANGED vars
  <2>1. UNCHANGED <<rev, gen, queue, pending, writing, failed, rejected, disk,
                    inFlight, held, published, owed, skipped>>
    BY <1>1 DEF vars, memory, history
  <2>2. AllPending' = AllPending /\ Due' = Due /\ \A e : IsRejected(e)' <=> IsRejected(e)
    BY <2>1 DEF AllPending, Queued, Due, IsRejected
  <2>3. Kept' = Kept
    BY <2>1, <2>2 DEF Kept
  <2>4. FencedIsFree'
    BY <2>1, <2>2 DEF Accounted, FencedIsFree
  <2> QED BY <2>1, <2>2, <2>3, <2>4, NothingIssued
<1>2. CASE \E D \in SUBSET Domains : Submit(D)
  BY <1>2, SubmitAccounts
<1>3. CASE Cancel
  BY <1>3, CancelAccounts
<1>4. CASE SaveLands
  BY <1>4, SaveLandsAccounts
<1>5. CASE SaveFails
  BY <1>5, SaveFailsAccounts
<1>6. CASE RetryLands
  BY <1>6, RetryLandsAccounts
<1>7. CASE AllowRestored
  BY <1>7, AllowRestoredAccounts
<1>8. CASE \E d \in Domains : Drain(d)
  BY <1>8, DrainAccounts
<1>9. CASE \E e \in inFlight : EffectCompletes(e) \/ Marked(e) \/ EffectFails(e)
  BY <1>9, EffectAccounts
<1>10. CASE \E D \in SUBSET Rederived : Reopen(D)
  BY <1>10, ReopenAccounts
<1> QED BY <1>1, <1>2, <1>3, <1>4, <1>5, <1>6, <1>7, <1>8, <1>9, <1>10 DEF Next

LEMMA AccountedAlways == Spec => []Accounted
BY InitAccounts, NextAccounts, InitRuns, NextRuns, Invariance, PTL DEF Spec

\* Every accepted command stays where it will be published from until it settles
\* or is fenced, or waits in the failed snapshot the next event retries, through
\* any writes that fail and any reopenings; only a command whose refused entry a
\* restore finds still queued is passed over (DurableCommandOutbox.restore).
THEOREM NothingAcceptedIsLost == Spec => []CommandsAccounted
BY AccountedAlways, AccountedGivesProperties, PTL

\* The snapshot on disk carries every due command of a revision it holds, also
\* when it is a failed one written again (persistableAfter with
\* CommitPipeline.commit, fail and retryFailed).
THEOREM SnapshotsAreComplete == Spec => []SnapshotCarriesOwed
BY AccountedAlways, AccountedGivesProperties, PTL
===============================================================================
