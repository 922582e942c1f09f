--------------------------- MODULE TaskRuntimeProofs ---------------------------
(***************************************************************************)
(* Proofs about the durable task runtime for any number of domains and any *)
(* bounds: its types, the write-ahead order of its effects, the truth of   *)
(* its receipts, and the refinement of WriteAhead.                         *)
(***************************************************************************)
EXTENDS TaskRuntime, TLAPS, FiniteSetTheorems, SequenceTheorems

\* A command that may run: its revision is on disk, or hydrate derived it from
\* the snapshot on disk.
Safe(c) == c.rev <= disk.rev \/ (c.hydrated /\ c.rev <= disk.rev + 1)

\* Revisions move forward through the pipeline: disk, writing, pending, memory;
\* a failed batch stands alone between disk and memory.
BatchBehind(b) ==
  /\ b.rev <= rev
  /\ b.gen <= b.rev
  /\ \A r \in Revs(b) : r <= b.rev
  /\ \A c \in b.outbox : c.rev <= b.rev

PipelineOrdered ==
  /\ rev <= MaxRevision /\ gen <= rev
  /\ disk.rev <= rev /\ disk.gen <= disk.rev
  /\ \A c \in disk.outbox : c.rev <= disk.rev
  /\ BatchBehind(pending) /\ BatchBehind(writing) /\ BatchBehind(failed)
  /\ writing # NoBatch => disk.rev < writing.rev
  /\ pending # NoBatch => writing # NoBatch /\ writing.rev < pending.rev
  /\ failed # NoBatch =>
       disk.rev < failed.rev /\ writing = NoBatch /\ pending = NoBatch

\* Whatever a drain can start is safe before it is dispatched.
EntryOK(e) == e.cmd.rev <= rev /\ (e.restored => Safe(e.cmd))

QueuesSafe ==
  /\ \A d \in Domains : \A i \in 1..Len(queue[d]) : EntryOK(queue[d][i])
  /\ \A d \in Domains : at[d] = "lookup" => queue[d] # <<>> /\ Safe(queue[d][1].cmd)

CommandsSafe ==
  /\ QueuesSafe
  /\ \A c \in held : c.rev <= rev /\ Safe(c)
  /\ \A e \in inFlight : e.cmd.rev <= rev /\ Safe(e.cmd)

IInv == /\ TypeOK
        /\ PipelineOrdered
        /\ ReceiptsAreTrue
        /\ CommandsSafe
        /\ StartedIsDurable

-------------------------------------------------------------------------------
(***************************************************************************)
(* Pushing commands on the queues.                                         *)
(***************************************************************************)

\* There are finitely many commands, so that any set of them has listings.
LEMMA CommandFinite == IsFiniteSet(Command)
<1> DEFINE Tuples == (Revisions \X Revisions) \X (Domains \X BOOLEAN)
           f == [t \in Tuples |-> [rev |-> t[1][1], gen |-> t[1][2],
                                   domain |-> t[2][1], hydrated |-> t[2][2]]]
<1>1. IsFiniteSet(Revisions)
  BY FS_Interval, RuntimeAssumption DEF Revisions
<1>2. IsFiniteSet(BOOLEAN)
  <2>1. IsFiniteSet({TRUE})
    BY FS_Singleton
  <2>2. IsFiniteSet({TRUE} \cup {FALSE})
    BY <2>1, FS_AddElement
  <2>3. BOOLEAN = {TRUE} \cup {FALSE}
    OBVIOUS
  <2> QED BY <2>2, <2>3
<1>3. IsFiniteSet(Revisions \X Revisions) /\ IsFiniteSet(Domains \X BOOLEAN)
  BY <1>1, <1>2, FS_Product, RuntimeAssumption
<1>4. IsFiniteSet(Tuples)
  BY <1>3, FS_Product
<1>5. f \in Surjection(Tuples, Command)
  <2>1. f \in [Tuples -> Command]
    BY DEF Command
  <2>2. ASSUME NEW c \in Command
        PROVE  \E t \in Tuples : f[t] = c
    <3> DEFINE t == <<<<c.rev, c.gen>>, <<c.domain, c.hydrated>>>>
    <3>1. t \in Tuples
      BY DEF Command
    <3>2. f[t] = [rev |-> c.rev, gen |-> c.gen, domain |-> c.domain,
                  hydrated |-> c.hydrated]
      BY <3>1
    <3>3. c = [rev |-> c.rev, gen |-> c.gen, domain |-> c.domain,
               hydrated |-> c.hydrated]
      BY DEF Command
    <3> QED BY <3>1, <3>2, <3>3
  <2> QED BY <2>1, <2>2 DEF Surjection
<1> QED BY <1>4, <1>5, FS_Surjection

\* A function on an initial interval is a sequence.
LEMMA FunctionIsSeq ==
  ASSUME NEW S, NEW n \in Nat, NEW f \in [1..n -> S]
  PROVE  f \in Seq(S) /\ Len(f) = n /\ DOMAIN f = 1..n
OBVIOUS

\* A listing of a set of commands is a sequence of its elements.
LEMMA ListingType ==
  ASSUME NEW S \in SUBSET Command, NEW q \in Listings(S)
  PROVE  q \in Seq(S)
<1>1. IsFiniteSet(S)
  BY CommandFinite, FS_Subset
<1>2. Cardinality(S) \in Nat
  BY <1>1, FS_CardinalityType
<1> QED BY <1>2 DEF Listings

\* The entries of base stay where they were, and every entry behind them holds a
\* command of S for the queue's domain.
Queues == [Domains -> Seq(Entry)]
Grows(base, next, S, r) ==
  \A d \in Domains :
    /\ Len(next[d]) >= Len(base[d])
    /\ \A i \in 1..Len(next[d]) :
         IF i <= Len(base[d])
         THEN next[d][i] = base[d][i]
         ELSE next[d][i].cmd \in InDomain(S, d) /\ next[d][i].restored = r

\* A push grows the queues.
LEMMA PushEntries ==
  ASSUME NEW base \in Queues, NEW S \in SUBSET Command,
         NEW r \in BOOLEAN, NEW next \in Pushed(base, S, r)
  PROVE  next \in Queues /\ Grows(base, next, S, r)
<1> USE DEF Queues
<1>1. PICK order : /\ \A d \in Domains : order[d] \in Listings(InDomain(S, d))
                   /\ next = [d \in Domains |-> base[d] \o Fresh(order[d], r)]
  BY DEF Pushed
<1>2. ASSUME NEW d \in Domains
      PROVE  /\ next[d] \in Seq(Entry)
             /\ Len(next[d]) >= Len(base[d])
             /\ \A i \in 1..Len(next[d]) :
                  IF i <= Len(base[d])
                  THEN next[d][i] = base[d][i]
                  ELSE next[d][i].cmd \in InDomain(S, d) /\ next[d][i].restored = r
  <2> DEFINE q == order[d]
             new == Fresh(q, r)
  <2>1. q \in Seq(InDomain(S, d))
    BY <1>1, ListingType DEF InDomain
  <2>2. PICK C \in SUBSET Command : C = InDomain(S, d)
    BY DEF InDomain
  <2>3. Len(q) \in Nat /\ DOMAIN q = 1..Len(q) /\ \A i \in 1..Len(q) : q[i] \in C
    BY <2>1, <2>2, LenProperties, ElementOfSeq
  <2>4. /\ new \in Seq(Entry) /\ Len(new) = Len(q)
        /\ \A i \in 1..Len(q) : new[i].cmd \in C /\ new[i].restored = r
    <3>1. new = [i \in 1..Len(q) |-> [cmd |-> q[i], restored |-> r, fenced |-> FALSE]]
      BY <2>3 DEF Fresh
    <3>2. \A i \in 1..Len(q) : new[i] \in Entry /\ new[i].cmd \in C /\ new[i].restored = r
      BY <2>3, <3>1 DEF Entry
    <3>3. new \in [1..Len(q) -> Entry]
      BY <3>1, <3>2
    <3>4. new \in Seq(Entry) /\ Len(new) = Len(q)
      BY <3>3, <2>3, FunctionIsSeq
    <3> QED BY <3>2, <3>4
  <2>5. base[d] \in Seq(Entry) /\ next[d] = base[d] \o new
    BY <1>1
  <2>6. PICK old, extra : old = base[d] /\ extra = new
    OBVIOUS
  <2> HIDE DEF new, q
  <2>7. /\ old \in Seq(Entry) /\ extra \in Seq(Entry)
        /\ Len(old) \in Nat /\ Len(extra) \in Nat
    BY <2>4, <2>5, <2>6, LenProperties
  <2>8. /\ old \o extra \in Seq(Entry)
        /\ Len(old \o extra) = Len(old) + Len(extra)
        /\ \A i \in 1..Len(old) + Len(extra) :
             (old \o extra)[i] = IF i <= Len(old) THEN old[i] ELSE extra[i - Len(old)]
    BY <2>7, ConcatProperties
  <2>9. \A i \in 1..Len(extra) : extra[i].cmd \in C /\ extra[i].restored = r
    BY <2>4, <2>6
  <2>10. next[d] = old \o extra /\ base[d] = old
    BY <2>5, <2>6
  <2>11. ASSUME NEW i \in 1..Len(old \o extra)
         PROVE  IF i <= Len(old)
                THEN (old \o extra)[i] = old[i]
                ELSE (old \o extra)[i].cmd \in C /\ (old \o extra)[i].restored = r
    <3>1. CASE i <= Len(old)
      BY <2>7, <2>8, <3>1
    <3>2. CASE ~(i <= Len(old))
      <4>1. i - Len(old) \in 1..Len(extra)
        BY <2>7, <2>8, <3>2
      <4> QED BY <2>7, <2>8, <2>9, <3>2, <4>1
    <3> QED BY <3>1, <3>2
  <2> QED BY <2>2, <2>7, <2>8, <2>10, <2>11
<1>3. next = [d \in Domains |-> next[d]]
  BY <1>1
<1> QED BY <1>2, <1>3 DEF Grows

\* What a shift does to the queues: the head of one queue goes, the entries
\* behind it move up.
LEMMA ShiftEntries ==
  ASSUME NEW d \in Domains, queue \in [Domains -> Seq(Entry)], queue[d] # <<>>,
         at \in [Domains -> {"next", "durability", "lookup"}], Shift(d)
  PROVE  /\ queue' \in [Domains -> Seq(Entry)]
         /\ at' \in [Domains -> {"next", "durability", "lookup"}]
         /\ at'[d] = "next"
         /\ \A x \in Domains \ {d} : queue'[x] = queue[x] /\ at'[x] = at[x]
         /\ \A i \in 1..Len(queue'[d]) :
              i + 1 \in 1..Len(queue[d]) /\ queue'[d][i] = queue[d][i + 1]
<1>1. queue[d] \in Seq(Entry)
  OBVIOUS
<1>2. /\ Tail(queue[d]) \in Seq(Entry)
      /\ Len(Tail(queue[d])) = Len(queue[d]) - 1
      /\ \A i \in 1..Len(Tail(queue[d])) : Tail(queue[d])[i] = queue[d][i + 1]
  BY <1>1, HeadTailProperties
<1>3. Len(queue[d]) \in Nat
  BY <1>1, LenProperties
<1>4. queue' = [queue EXCEPT ![d] = Tail(queue[d])]
  BY DEF Shift
<1>5. queue'[d] = Tail(queue[d])
  BY <1>4
<1>6. \A i \in 1..Len(queue'[d]) :
        i + 1 \in 1..Len(queue[d]) /\ queue'[d][i] = queue[d][i + 1]
  BY <1>2, <1>3, <1>5
<1>7. queue' \in [Domains -> Seq(Entry)] /\ \A x \in Domains \ {d} : queue'[x] = queue[x]
  BY <1>2, <1>4
<1>8. /\ at' \in [Domains -> {"next", "durability", "lookup"}]
      /\ at'[d] = "next" /\ \A x \in Domains \ {d} : at'[x] = at[x]
  BY DEF Shift
<1> QED BY <1>6, <1>7, <1>8

-------------------------------------------------------------------------------
(***************************************************************************)
(* The inductive invariant.                                                *)
(***************************************************************************)

\* A safe command stays safe while the disk moves forward.
LEMMA SafeMonotone ==
  ASSUME NEW c \in Command, disk.rev \in Nat, disk'.rev \in Nat,
         disk.rev <= disk'.rev, Safe(c)
  PROVE  Safe(c)'
BY DEF Safe, Command, Revisions

LEMMA NoBatchType == NoBatch \in Batch /\ Revs(NoBatch) = {}
<1>1. <<>> \in Seq(Nat) /\ DOMAIN <<>> = {}
  BY EmptySeq, LenProperties
<1> QED BY <1>1 DEF NoBatch, Batch, Revs

\* The initial state is in the invariant.
LEMMA InitIInv == Init => IInv
<1> SUFFICES ASSUME Init PROVE IInv
  OBVIOUS
<1> USE DEF Init
<1>1. <<>> \in Seq(Nat) /\ <<>> \in Seq(Entry) /\ Len(<<>>) = 0
  BY EmptySeq
<1>2. TypeOK
  BY <1>1, NoBatchType DEF TypeOK
<1>3. PipelineOrdered
  BY NoBatchType, RuntimeAssumption DEF PipelineOrdered, BatchBehind, NoBatch
<1>4. CommandsSafe
  BY <1>1 DEF CommandsSafe, QueuesSafe
<1> QED BY <1>2, <1>3, <1>4 DEF IInv, ReceiptsAreTrue, StartedIsDurable

\* A step that leaves the pipeline and the disk alone keeps their order.
LEMMA PipelineFrame ==
  ASSUME PipelineOrdered, ReceiptsAreTrue,
         UNCHANGED <<rev, gen, pipeline, disk>>
  PROVE  PipelineOrdered' /\ ReceiptsAreTrue'
BY DEF pipeline, PipelineOrdered, ReceiptsAreTrue, BatchBehind, Revs

\* A commit joins the pipeline behind every revision accepted before it.
LEMMA CommitOrder ==
  ASSUME TypeOK, PipelineOrdered, ReceiptsAreTrue, Accepts,
         NEW outbox \in SUBSET Command, \A c \in outbox : c.rev <= rev + 1,
         NEW g \in Nat, g <= rev + 1,
         CommitBatch(outbox, rev + 1, g), rev' = rev + 1, gen' = g,
         UNCHANGED <<failed, resolved, disk>>
  PROVE  /\ pending' \in Batch /\ writing' \in Batch
         /\ PipelineOrdered' /\ ReceiptsAreTrue'
<1>0. /\ rev \in Nat /\ gen \in Nat /\ disk.rev \in Nat /\ disk.gen \in Nat
      /\ pending \in Batch /\ writing \in Batch /\ failed \in Batch
  BY DEF TypeOK
<1>b. PICK b : b = Batched(outbox, rev + 1, g)
  OBVIOUS
<1>1. /\ b \in Batch /\ b.rev = rev + 1 /\ b.gen = g /\ b.outbox = outbox
      /\ \A r \in Revs(b) : r <= rev + 1
  <2>1. pending.committed \in Seq(Nat)
    BY <1>0 DEF Batch
  <2>2. /\ Append(pending.committed, rev + 1) \in Seq(Nat)
        /\ \A i \in DOMAIN Append(pending.committed, rev + 1) :
             \/ Append(pending.committed, rev + 1)[i] = rev + 1
             \/ i \in DOMAIN pending.committed
                /\ Append(pending.committed, rev + 1)[i] = pending.committed[i]
    BY <1>0, <2>1, AppendProperties, LenProperties
  <2>3. \A i \in DOMAIN pending.committed : pending.committed[i] <= rev
    <3>1. \A i \in DOMAIN pending.committed : pending.committed[i] \in Nat
      BY <2>1, ElementOfSeq, LenProperties
    <3>2. \A i \in DOMAIN pending.committed : pending.committed[i] \in Revs(pending)
      BY DEF Revs
    <3>3. pending.rev \in Nat /\ pending.rev <= rev /\ \A r \in Revs(pending) : r <= pending.rev
      BY <1>0 DEF PipelineOrdered, BatchBehind, Batch
    <3>4. ASSUME NEW i \in DOMAIN pending.committed
          PROVE  pending.committed[i] <= rev
      BY <1>0, <3>1, <3>2, <3>3
    <3> QED BY <3>4
  <2>4. \A i \in DOMAIN pending.committed : pending.committed[i] \in Nat
    BY <2>1, ElementOfSeq, LenProperties
  <2>5. \A i \in DOMAIN Append(pending.committed, rev + 1) :
          Append(pending.committed, rev + 1)[i] <= rev + 1
    BY <1>0, <2>2, <2>3, <2>4
  <2>6. /\ b.rev = rev + 1 /\ b.gen = g /\ b.outbox = outbox
        /\ b.committed = Append(pending.committed, rev + 1)
    BY <1>b DEF Batched
  <2>7. b \in Batch
    BY <1>b, <1>0, <2>2 DEF Batched, Batch
  <2>8. \A r \in Revs(b) : r <= rev + 1
    BY <2>5, <2>6 DEF Revs
  <2> QED BY <2>6, <2>7, <2>8
<1>2. b # NoBatch
  BY <1>0, <1>1 DEF NoBatch
<1>3. \/ pending = NoBatch /\ writing = NoBatch /\ writing' = b /\ pending' = pending
      \/ writing # NoBatch /\ pending' = b /\ writing' = writing
  BY <1>b DEF CommitBatch, PipelineOrdered
<1>4. /\ b.rev <= rev' /\ b.gen <= b.rev
      /\ \A r \in Revs(b) : r <= b.rev
      /\ \A c \in b.outbox : c.rev <= b.rev
  BY <1>0, <1>1
<1>5. ASSUME NEW x \in Batch, BatchBehind(x) PROVE BatchBehind(x)'
  BY <1>0, <1>5 DEF BatchBehind, Batch
<1>6. BatchBehind(pending)' /\ BatchBehind(writing)' /\ BatchBehind(failed)'
  <2>1. BatchBehind(pending) /\ BatchBehind(writing) /\ BatchBehind(failed)
    BY DEF PipelineOrdered
  <2>2. (pending' = b \/ pending' = pending) /\ (writing' = b \/ writing' = writing)
    BY <1>3
  <2> QED BY <1>0, <1>4, <1>5, <2>1, <2>2 DEF BatchBehind
<1>7. failed' = NoBatch
  BY DEF Accepts
<1>8. /\ writing' # NoBatch => disk.rev < writing'.rev
      /\ pending' # NoBatch => writing' # NoBatch /\ writing'.rev < pending'.rev
  BY <1>0, <1>1, <1>3 DEF PipelineOrdered, BatchBehind, Batch
<1>9. rev' <= MaxRevision /\ gen' <= rev' /\ disk'.rev <= rev' /\ disk'.gen <= disk'.rev
  BY <1>0, RuntimeAssumption DEF PipelineOrdered, Accepts
<1> QED BY <1>0, <1>1, <1>3, <1>6, <1>7, <1>8, <1>9 DEF PipelineOrdered, ReceiptsAreTrue

\* While revisions and the disk only move forward, whatever was safe stays so.
Forward == /\ rev \in Nat /\ rev' \in Nat /\ rev <= rev'
           /\ disk.rev \in Nat /\ disk'.rev \in Nat /\ disk.rev <= disk'.rev

LEMMA EntryMonotone ==
  ASSUME NEW e \in Entry, Forward, EntryOK(e)
  PROVE  EntryOK(e)'
<1>1. e.cmd \in Command /\ e.cmd.rev \in Nat
  BY DEF Entry, Command, Revisions
<1>2. e.restored => Safe(e.cmd)'
  BY <1>1, SafeMonotone DEF EntryOK, Forward
<1> QED BY <1>1, <1>2 DEF EntryOK, Forward

LEMMA EffectsMonotone ==
  ASSUME TypeOK, CommandsSafe, Forward, StartedIsDurable
  PROVE  /\ \A c \in held : c.rev <= rev' /\ Safe(c)'
         /\ \A e \in inFlight : e.cmd.rev <= rev' /\ Safe(e.cmd)'
         /\ \A c \in started : Safe(c)'
<1>1. ASSUME NEW c \in Command, c.rev <= rev PROVE c.rev <= rev'
  BY <1>1 DEF Forward, Command, Revisions
<1>2. held \subseteq Command /\ started \subseteq Command
      /\ \A e \in inFlight : e.cmd \in Command
  BY DEF TypeOK, Effect
<1>3. \A c \in started : Safe(c)
  BY DEF StartedIsDurable, Safe
<1> QED BY <1>1, <1>2, <1>3, SafeMonotone DEF CommandsSafe, Forward

\* A push of known commands, safe ones when they are restored, keeps the queues
\* safe.
LEMMA PushSafe ==
  ASSUME TypeOK, QueuesSafe, Forward, UNCHANGED at,
         NEW S \in SUBSET Command, NEW r \in BOOLEAN, Push(S, r),
         \A c \in S : c.rev <= rev' /\ (r => Safe(c)')
  PROVE  queue' \in [Domains -> Seq(Entry)] /\ QueuesSafe'
<1>0. queue \in [Domains -> Seq(Entry)]
  BY DEF TypeOK
<1>1. /\ queue' \in [Domains -> Seq(Entry)]
      /\ \A d \in Domains :
           /\ Len(queue'[d]) >= Len(queue[d])
           /\ \A i \in 1..Len(queue'[d]) :
                IF i <= Len(queue[d])
                THEN queue'[d][i] = queue[d][i]
                ELSE queue'[d][i].cmd \in S /\ queue'[d][i].restored = r
  <2>1. queue \in Queues /\ queue' \in Pushed(queue, S, r)
    BY <1>0 DEF Push, Queues
  <2>2. queue' \in Queues /\ Grows(queue, queue', S, r)
    BY <2>1, PushEntries
  <2> QED BY <2>2 DEF Queues, Grows, InDomain
<1>2. \A d \in Domains : Len(queue[d]) \in Nat /\ Len(queue'[d]) \in Nat
                         /\ (queue[d] # <<>> => Len(queue[d]) >= 1)
                         /\ (Len(queue'[d]) >= 1 => queue'[d] # <<>>)
  BY <1>0, <1>1, LenProperties, EmptySeq
<1>3. ASSUME NEW d \in Domains, NEW i \in 1..Len(queue'[d])
      PROVE  EntryOK(queue[d][i])'
  <2>1. CASE i <= Len(queue[d])
    <3>1. i \in 1..Len(queue[d])
      BY <1>2, <2>1
    <3>2. queue[d][i] \in Entry /\ EntryOK(queue[d][i])
      BY <1>0, <3>1, ElementOfSeq DEF QueuesSafe
    <3>3. queue'[d][i] = queue[d][i]
      BY <1>1, <2>1
    <3>4. PICK e : e = queue[d][i]
      OBVIOUS
    <3>5. EntryOK(e)'
      BY <3>2, <3>4, EntryMonotone
    <3> QED BY <3>3, <3>4, <3>5 DEF EntryOK, Safe
  <2>2. CASE ~(i <= Len(queue[d]))
    BY <1>1, <2>2 DEF EntryOK, Safe
  <2> QED BY <2>1, <2>2
<1>4. ASSUME NEW d \in Domains, at'[d] = "lookup"
      PROVE  queue'[d] # <<>> /\ Safe(queue[d][1].cmd)'
  <2>1. queue[d] # <<>> /\ Safe(queue[d][1].cmd)
    BY <1>4 DEF QueuesSafe
  <2>2. 1 \in 1..Len(queue[d]) /\ queue'[d] # <<>> /\ queue'[d][1] = queue[d][1]
    BY <1>1, <1>2, <2>1
  <2>3. queue[d][1] \in Entry
    BY <1>0, <2>2, ElementOfSeq
  <2>4. PICK c : c = queue[d][1].cmd
    OBVIOUS
  <2>5. Safe(c)'
    BY <2>1, <2>3, <2>4, SafeMonotone DEF Entry, Forward
  <2> QED BY <2>2, <2>4, <2>5 DEF Safe
<1> QED BY <1>1, <1>3, <1>4 DEF QueuesSafe

\* Whatever the outbox retains was issued by a revision accepted before.
LEMMA RetainedKnown ==
  ASSUME TypeOK, CommandsSafe
  PROVE  Retained \subseteq Command /\ \A c \in Retained : c.rev <= rev
<1>1. ASSUME NEW e \in AllPending PROVE e.cmd \in Command /\ e.cmd.rev <= rev
  <2>1. PICK d \in Domains : e \in Queued(d)
    BY DEF AllPending
  <2>2. queue[d] \in Seq(Entry)
    BY DEF TypeOK
  <2>3. PICK i \in 1..Len(queue[d]) : e = queue[d][i]
    BY <2>1, <2>2, LenProperties DEF Queued
  <2>4. e \in Entry /\ EntryOK(e)
    BY <2>2, <2>3, ElementOfSeq DEF CommandsSafe, QueuesSafe
  <2> QED BY <2>4 DEF Entry, EntryOK
<1>2. \A c \in held : c \in Command /\ c.rev <= rev
  BY DEF TypeOK, CommandsSafe
<1>3. \A e \in inFlight : e.cmd \in Command /\ e.cmd.rev <= rev
  BY DEF TypeOK, CommandsSafe, Effect
<1> QED BY <1>1, <1>2, <1>3 DEF Retained

LEMMA SubmitStep ==
  ASSUME IInv, NEW D \in SUBSET Domains, Submit(D)
  PROVE  IInv'
<1> DEFINE incoming == {Cmd(rev + 1, gen, d) : d \in D}
           outbox == Persistable(incoming, FALSE, rev + 1)
<1>1. /\ TypeOK /\ PipelineOrdered /\ ReceiptsAreTrue /\ CommandsSafe
      /\ StartedIsDurable /\ Accepts
  BY DEF IInv, Submit
<1>2. /\ rev \in Nat /\ gen \in Nat /\ rev + 1 \in Revisions /\ gen \in Revisions
      /\ gen <= rev + 1
  BY <1>1, RuntimeAssumption DEF TypeOK, Accepts, PipelineOrdered, Revisions
<1>3. incoming \subseteq Command /\ \A c \in incoming : c.rev = rev + 1
  <2>1. ASSUME NEW d \in D
        PROVE  Cmd(rev + 1, gen, d) \in Command /\ Cmd(rev + 1, gen, d).rev = rev + 1
    BY <1>2 DEF Cmd, Command
  <2> QED BY <2>1
<1>4. outbox \subseteq Command /\ \A c \in outbox : c.rev <= rev + 1
  <2>1. Retained \subseteq Command /\ \A c \in Retained : c.rev <= rev
    BY <1>1, RetainedKnown
  <2>2. \A c \in outbox : c \in Retained \/ c \in incoming
    BY DEF Persistable
  <2>3. ASSUME NEW c \in Command, c.rev <= rev PROVE c.rev <= rev + 1
    BY <1>2, <2>3 DEF Command, Revisions
  <2>4. ASSUME NEW c \in outbox PROVE c \in Command /\ c.rev <= rev + 1
    <3>1. CASE c \in Retained
      BY <2>1, <2>3, <3>1
    <3>2. CASE c \in incoming
      BY <1>2, <1>3, <3>2
    <3> QED BY <2>2, <3>1, <3>2
  <2> QED BY <2>4
<1>5. CommitBatch(outbox, rev + 1, gen) /\ Push(incoming, FALSE)
  BY DEF Submit
<1> HIDE DEF incoming, outbox
<1>6. /\ rev' = rev + 1 /\ gen' = gen /\ owed' = owed \cup incoming
      /\ UNCHANGED <<failed, resolved, disk, at, inFlight, held, released, started,
                     skipped, rejected, told, published, failures, effectFailures, crashes>>
  BY DEF Submit, budgets, incoming
<1>7. /\ pending' \in Batch /\ writing' \in Batch
      /\ PipelineOrdered' /\ ReceiptsAreTrue'
  BY <1>1, <1>2, <1>4, <1>5, <1>6, CommitOrder
<1>8. Forward
  BY <1>1, <1>6 DEF Forward, TypeOK
<1>9. queue' \in [Domains -> Seq(Entry)] /\ QueuesSafe'
  <2>1. \A c \in incoming : c.rev <= rev' /\ (FALSE => Safe(c)')
    BY <1>2, <1>3, <1>6
  <2> QED BY <1>1, <1>3, <1>5, <1>6, <1>8, <2>1, PushSafe DEF CommandsSafe
<1>10. TypeOK'
  BY <1>1, <1>2, <1>3, <1>6, <1>7, <1>9 DEF TypeOK
<1>11. CommandsSafe' /\ StartedIsDurable'
  BY <1>1, <1>6, <1>8, <1>9, EffectsMonotone DEF CommandsSafe, StartedIsDurable, Safe
<1> QED BY <1>7, <1>10, <1>11 DEF IInv

LEMMA CancelStep ==
  ASSUME IInv, Cancel
  PROVE  IInv'
<1> DEFINE outbox == Persistable({}, TRUE, rev + 1)
<1>1. /\ TypeOK /\ PipelineOrdered /\ ReceiptsAreTrue /\ CommandsSafe
      /\ StartedIsDurable /\ Accepts
  BY DEF IInv, Cancel
<1>2. /\ rev \in Nat /\ gen + 1 \in Nat /\ gen + 1 <= rev + 1
  BY <1>1 DEF TypeOK, PipelineOrdered
<1>3. outbox \subseteq Command /\ \A c \in outbox : c.rev <= rev + 1
  <2>1. ASSUME NEW c \in Command, c.rev <= rev PROVE c.rev <= rev + 1
    BY <1>2, <2>1 DEF Command, Revisions
  <2> QED BY <1>1, <2>1, RetainedKnown DEF Persistable
<1>4. CommitBatch(outbox, rev + 1, gen + 1)
  BY DEF Cancel
<1> HIDE DEF outbox
<1>5. /\ rev' = rev + 1 /\ gen' = gen + 1
      /\ owed' = {c \in owed : c.rev >= rev + 1}
      /\ held' = {c \in held : c.rev >= rev + 1}
      /\ queue' = [d \in Domains |-> [i \in DOMAIN queue[d] |-> Fenced(queue[d][i], rev + 1)]]
      /\ inFlight' = {Fenced(e, rev + 1) : e \in inFlight}
      /\ UNCHANGED <<failed, resolved, disk, at, released, started, skipped, rejected, told,
                     published, failures, effectFailures, crashes>>
  BY DEF Cancel, budgets
<1>6. /\ pending' \in Batch /\ writing' \in Batch
      /\ PipelineOrdered' /\ ReceiptsAreTrue'
  BY <1>1, <1>2, <1>3, <1>4, <1>5, CommitOrder
<1>7. Forward
  BY <1>1, <1>5 DEF Forward, TypeOK
<1>8. ASSUME NEW e \in Entry
      PROVE  /\ Fenced(e, rev + 1) \in Entry
             /\ Fenced(e, rev + 1).cmd = e.cmd
             /\ Fenced(e, rev + 1).restored = e.restored
  BY DEF Fenced, Entry
<1>9. ASSUME NEW e \in Effect
      PROVE  Fenced(e, rev + 1) \in Effect /\ Fenced(e, rev + 1).cmd = e.cmd
  BY DEF Fenced, Effect
<1>10. ASSUME NEW d \in Domains
       PROVE  /\ queue'[d] \in Seq(Entry)
              /\ Len(queue'[d]) = Len(queue[d])
              /\ \A i \in 1..Len(queue[d]) :
                   queue'[d][i].cmd = queue[d][i].cmd
                   /\ queue'[d][i].restored = queue[d][i].restored
              /\ queue[d] # <<>> => queue'[d] # <<>> /\ 1 \in 1..Len(queue[d])
  <2>1. /\ queue[d] \in Seq(Entry) /\ Len(queue[d]) \in Nat
        /\ DOMAIN queue[d] = 1..Len(queue[d])
        /\ \A i \in 1..Len(queue[d]) : queue[d][i] \in Entry
    BY <1>1, LenProperties, ElementOfSeq DEF TypeOK
  <2>2. queue'[d] = [i \in 1..Len(queue[d]) |-> Fenced(queue[d][i], rev + 1)]
    BY <1>5, <2>1
  <2>3. queue'[d] \in [1..Len(queue[d]) -> Entry]
    BY <1>8, <2>1, <2>2
  <2>4. queue'[d] \in Seq(Entry) /\ Len(queue'[d]) = Len(queue[d])
    BY <2>1, <2>3, FunctionIsSeq
  <2>5. queue[d] # <<>> => Len(queue[d]) \in Nat \ {0}
    BY <2>1, EmptySeq
  <2>6. queue'[d] = <<>> => Len(queue'[d]) = 0
    BY EmptySeq
  <2> QED BY <1>8, <2>1, <2>2, <2>4, <2>5, <2>6
<1>11. queue' \in [Domains -> Seq(Entry)]
  BY <1>5, <1>10
<1>12. QueuesSafe'
  <2>1. ASSUME NEW d \in Domains, NEW i \in 1..Len(queue'[d])
        PROVE  EntryOK(queue[d][i])'
    <3>1. PICK e : e = queue[d][i]
      OBVIOUS
    <3>2. e \in Entry /\ EntryOK(e)
      BY <1>1, <1>10, <2>1, <3>1, ElementOfSeq DEF TypeOK, CommandsSafe, QueuesSafe
    <3>3. EntryOK(e)'
      BY <1>7, <3>2, EntryMonotone
    <3> QED BY <1>10, <2>1, <3>1, <3>3 DEF EntryOK, Safe
  <2>2. ASSUME NEW d \in Domains, at'[d] = "lookup"
        PROVE  queue'[d] # <<>> /\ Safe(queue[d][1].cmd)'
    <3>1. queue[d] # <<>> /\ Safe(queue[d][1].cmd)
      BY <1>1, <1>5, <2>2 DEF CommandsSafe, QueuesSafe
    <3>2. queue[d][1].cmd \in Command
      <4>1. queue[d] \in Seq(Entry) /\ 1 \in 1..Len(queue[d])
        BY <1>1, <1>10, <3>1 DEF TypeOK
      <4>2. queue[d][1] \in Entry
        BY <4>1, ElementOfSeq
      <4> QED BY <4>2 DEF Entry
    <3>3. PICK c : c = queue[d][1].cmd
      OBVIOUS
    <3>4. Safe(c)'
      BY <1>7, <3>1, <3>2, <3>3, SafeMonotone DEF Forward
    <3> QED BY <1>10, <3>1, <3>3, <3>4 DEF Safe
  <2> QED BY <2>1, <2>2 DEF QueuesSafe
<1>13. /\ \A c \in held' : c.rev <= rev' /\ Safe(c)'
       /\ \A e \in inFlight' : e.cmd.rev <= rev' /\ Safe(e.cmd)'
       /\ StartedIsDurable'
  <2>1. inFlight \subseteq Effect
    BY <1>1 DEF TypeOK
  <2> QED BY <1>1, <1>5, <1>7, <1>9, <2>1, EffectsMonotone DEF StartedIsDurable, Safe
<1>14. TypeOK'
  <2>1. inFlight' \subseteq Effect
    BY <1>1, <1>5, <1>9 DEF TypeOK
  <2> QED BY <1>1, <1>2, <1>5, <1>6, <1>11, <2>1 DEF TypeOK
<1> QED BY <1>6, <1>12, <1>13, <1>14 DEF IInv, CommandsSafe

\* A step that leaves the queues alone keeps them safe.
LEMMA QueuesFrame ==
  ASSUME TypeOK, QueuesSafe, Forward, UNCHANGED <<queue, at>>
  PROVE  QueuesSafe'
<1>1. \A d \in Domains : queue[d] \in Seq(Entry) /\ Len(queue[d]) \in Nat
  BY LenProperties DEF TypeOK
<1>2. ASSUME NEW d \in Domains, NEW i \in 1..Len(queue'[d])
      PROVE  EntryOK(queue[d][i])'
  <2>1. PICK e : e = queue[d][i]
    OBVIOUS
  <2>2. e \in Entry /\ EntryOK(e)
    BY <1>1, <2>1, ElementOfSeq DEF QueuesSafe
  <2>3. EntryOK(e)'
    BY <2>2, EntryMonotone
  <2> QED BY <2>1, <2>3 DEF EntryOK, Safe
<1>3. ASSUME NEW d \in Domains, at'[d] = "lookup"
      PROVE  queue'[d] # <<>> /\ Safe(queue[d][1].cmd)'
  <2>1. queue[d] # <<>> /\ Safe(queue[d][1].cmd)
    BY <1>3 DEF QueuesSafe
  <2>2. 1 \in 1..Len(queue[d])
    BY <1>1, <2>1, EmptySeq
  <2>3. queue[d][1] \in Entry
    BY <1>1, <2>2, ElementOfSeq
  <2>4. PICK c : c = queue[d][1].cmd
    OBVIOUS
  <2>5. Safe(c)'
    BY <2>1, <2>3, <2>4, SafeMonotone DEF Forward, Entry
  <2> QED BY <2>1, <2>4, <2>5 DEF Safe
<1> QED BY <1>2, <1>3 DEF QueuesSafe

\* A batch that lands puts on disk what PipelineOrdered says of it.
LEMMA LandsType ==
  ASSUME TypeOK, NEW b \in Batch, Lands(b)
  PROVE  /\ disk' \in [rev : Nat, gen : Nat, outbox : SUBSET Command]
         /\ disk'.rev = b.rev /\ disk'.gen = b.gen /\ disk'.outbox = b.outbox
         /\ told' \in Seq(Nat)
<1>1. told \in Seq(Nat) /\ b.committed \in Seq(Nat)
  BY DEF TypeOK, Batch
<1>2. told' \in Seq(Nat)
  BY <1>1, ConcatProperties DEF Lands
<1> QED BY <1>2 DEF Lands, Batch

LEMMA SaveLandsStep ==
  ASSUME IInv, SaveLands
  PROVE  IInv'
<1>1. /\ TypeOK /\ PipelineOrdered /\ ReceiptsAreTrue /\ CommandsSafe
      /\ StartedIsDurable
  BY DEF IInv
<1>2. /\ writing # NoBatch /\ Lands(writing)
      /\ resolved' = resolved \cup Revs(writing)
      /\ writing' = pending /\ pending' = NoBatch
      /\ UNCHANGED <<rev, gen, failed, rejected, queue, at, inFlight, held, released,
                     published, failures, effectFailures, crashes, started, owed,
                     skipped>>
  BY DEF SaveLands, budgets, history
<1>3. /\ disk' \in [rev : Nat, gen : Nat, outbox : SUBSET Command]
      /\ disk'.rev = writing.rev /\ disk'.gen = writing.gen
      /\ disk'.outbox = writing.outbox /\ told' \in Seq(Nat)
  BY <1>1, <1>2, LandsType DEF TypeOK
<1>4. /\ rev \in Nat /\ disk.rev \in Nat /\ writing \in Batch /\ writing.rev \in Nat
      /\ pending \in Batch /\ pending.rev \in Nat
  BY <1>1 DEF TypeOK, Batch
<1>5. Revs(writing) \subseteq Nat
  BY <1>4, ElementOfSeq, LenProperties DEF Revs, Batch
<1>6. PipelineOrdered'
  <2>1. BatchBehind(NoBatch)'
    BY <1>2, <1>4, NoBatchType DEF BatchBehind, NoBatch
  <2>2. failed' = NoBatch
    BY <1>1, <1>2 DEF PipelineOrdered
  <2>3. BatchBehind(writing)'
    BY <1>1, <1>2 DEF PipelineOrdered, BatchBehind
  <2> QED BY <1>1, <1>2, <1>3, <1>4, <2>1, <2>2, <2>3
          DEF PipelineOrdered, BatchBehind
<1>7. ReceiptsAreTrue'
  <2>1. ASSUME NEW r \in resolved' PROVE r <= disk'.rev
    <3>1. CASE r \in resolved
      <4>1. r \in Nat /\ r <= disk.rev /\ disk.rev < writing.rev
        BY <1>1, <1>2, <3>1 DEF ReceiptsAreTrue, PipelineOrdered, TypeOK
      <4> QED BY <1>3, <1>4, <4>1
    <3>2. CASE r \in Revs(writing)
      BY <1>1, <1>3, <3>2 DEF PipelineOrdered, BatchBehind
    <3> QED BY <1>2, <2>1, <3>1, <3>2
  <2> QED BY <2>1 DEF ReceiptsAreTrue
<1>8. Forward
  BY <1>1, <1>2, <1>3, <1>4 DEF Forward, PipelineOrdered
<1>9. CommandsSafe' /\ StartedIsDurable'
  BY <1>1, <1>2, <1>8, QueuesFrame, EffectsMonotone DEF CommandsSafe, StartedIsDurable, Safe
<1>10. TypeOK'
  BY <1>1, <1>2, <1>3, <1>5, NoBatchType DEF TypeOK
<1> QED BY <1>6, <1>7, <1>9, <1>10 DEF IInv

LEMMA SaveFailsStep ==
  ASSUME IInv, SaveFails
  PROVE  IInv'
<1>1. /\ TypeOK /\ PipelineOrdered /\ ReceiptsAreTrue /\ CommandsSafe
      /\ StartedIsDurable
  BY DEF IInv
<1>2. /\ writing # NoBatch /\ failed' = MergedFailure
      /\ rejected' = rejected \cup Revs(writing) \cup Revs(pending)
      /\ writing' = NoBatch /\ pending' = NoBatch /\ failures' = failures + 1
      /\ UNCHANGED <<rev, gen, resolved, told, queue, at, inFlight, held, released,
                     disk, published, effectFailures, crashes, started, owed, skipped>>
  BY DEF SaveFails, history
<1>3. /\ rev \in Nat /\ disk.rev \in Nat /\ writing \in Batch /\ writing.rev \in Nat
      /\ pending \in Batch /\ pending.rev \in Nat
      /\ pending.committed \in Seq(Nat) /\ writing.committed \in Seq(Nat)
  BY <1>1 DEF TypeOK, Batch
<1>4. Revs(writing) \subseteq Nat /\ Revs(pending) \subseteq Nat
  BY <1>3, ElementOfSeq, LenProperties DEF Revs
<1>5. PICK f : f = MergedFailure
  OBVIOUS
<1>6. /\ f \in Batch /\ f # NoBatch /\ disk.rev < f.rev /\ f.rev <= rev /\ f.gen <= f.rev
      /\ \A c \in f.outbox : c.rev <= f.rev
      /\ \A r \in Revs(f) : r <= f.rev
  <2>1. CASE pending = NoBatch
    BY <1>1, <1>2, <1>3, <1>5, <2>1 DEF MergedFailure, PipelineOrdered, BatchBehind
  <2>2. CASE pending # NoBatch
    <3>1. /\ f.rev = pending.rev /\ f.gen = pending.gen /\ f.outbox = pending.outbox
          /\ f.committed = writing.committed \o pending.committed
          /\ f \in Batch
      <4>1. writing.committed \o pending.committed \in Seq(Nat)
        BY <1>3, ConcatProperties
      <4> QED BY <1>3, <1>5, <2>2, <4>1 DEF MergedFailure, Batch
    <3>2. \A r \in Revs(f) : r \in Revs(writing) \/ r \in Revs(pending)
      <4>1. PICK a, b : a = writing.committed /\ b = pending.committed
        OBVIOUS
      <4>2. /\ a \in Seq(Nat) /\ b \in Seq(Nat) /\ Len(a) \in Nat /\ Len(b) \in Nat
            /\ DOMAIN a = 1..Len(a) /\ DOMAIN b = 1..Len(b)
        BY <1>3, <4>1, LenProperties
      <4>3. /\ DOMAIN (a \o b) = 1..(Len(a) + Len(b))
            /\ \A i \in 1..(Len(a) + Len(b)) :
                 (a \o b)[i] = IF i <= Len(a) THEN a[i] ELSE b[i - Len(a)]
        BY <4>2, ConcatProperties, LenProperties
      <4>4. ASSUME NEW i \in 1..(Len(a) + Len(b))
            PROVE  \/ \E j \in DOMAIN a : (a \o b)[i] = a[j]
                   \/ \E j \in DOMAIN b : (a \o b)[i] = b[j]
        <5>1. CASE i <= Len(a)
          BY <4>2, <4>3, <5>1
        <5>2. CASE ~(i <= Len(a))
          <6>1. i - Len(a) \in DOMAIN b
            BY <4>2, <5>2
          <6> QED BY <4>3, <5>2, <6>1
        <5> QED BY <5>1, <5>2
      <4>5. ASSUME NEW r \in Revs(f) PROVE r \in Revs(writing) \/ r \in Revs(pending)
        <5>1. PICK i \in 1..(Len(a) + Len(b)) : r = (a \o b)[i]
          BY <3>1, <4>1, <4>3 DEF Revs
        <5>2. (\E j \in DOMAIN a : r = a[j]) \/ (\E j \in DOMAIN b : r = b[j])
          BY <4>4, <5>1
        <5> QED BY <4>1, <5>2 DEF Revs
      <4> QED BY <4>5
    <3>3. /\ \A r \in Revs(pending) : r <= pending.rev
          /\ \A r \in Revs(writing) : r <= writing.rev
          /\ disk.rev < writing.rev /\ writing.rev < pending.rev
          /\ pending.rev <= rev /\ pending.gen <= pending.rev
          /\ \A c \in pending.outbox : c.rev <= pending.rev
      BY <1>1, <1>2, <2>2 DEF PipelineOrdered, BatchBehind
    <3>4. \A r \in Revs(f) : r <= f.rev
      BY <1>3, <1>4, <3>1, <3>2, <3>3
    <3>5. f.rev # NoBatch.rev
      BY <1>3, <3>1, <3>3 DEF NoBatch
    <3> QED BY <1>3, <3>1, <3>3, <3>4, <3>5
  <2> QED BY <2>1, <2>2
<1>7. PipelineOrdered'
  <2>1. BatchBehind(NoBatch)'
    BY <1>2, <1>3, NoBatchType DEF BatchBehind, NoBatch
  <2>2. BatchBehind(failed)'
    BY <1>2, <1>5, <1>6 DEF BatchBehind
  <2>3. BatchBehind(pending)' /\ BatchBehind(writing)'
    BY <1>2, <2>1 DEF BatchBehind
  <2> QED BY <1>1, <1>2, <1>5, <1>6, <2>2, <2>3 DEF PipelineOrdered
<1>8. ReceiptsAreTrue'
  BY <1>1, <1>2 DEF ReceiptsAreTrue
<1>9. Forward
  BY <1>1, <1>2, <1>3 DEF Forward
<1>10. CommandsSafe' /\ StartedIsDurable'
  BY <1>1, <1>2, <1>9, QueuesFrame, EffectsMonotone DEF CommandsSafe, StartedIsDurable, Safe
<1>11. TypeOK'
  <2>1. failed' \in Batch /\ writing' \in Batch /\ pending' \in Batch
    BY <1>2, <1>5, <1>6, NoBatchType
  <2>2. rejected' \subseteq Nat
    <3>1. rejected \subseteq Nat
      BY <1>1 DEF TypeOK
    <3> QED BY <1>2, <1>4, <3>1, Zenon
  <2>3. failures' \in Nat
    <3>1. failures \in Nat
      BY <1>1 DEF TypeOK
    <3> QED BY <1>2, <3>1
  <2> QED BY <1>1, <1>2, <2>1, <2>2, <2>3 DEF TypeOK
<1> QED BY <1>7, <1>8, <1>10, <1>11 DEF IInv

\* What a retry recovers was on the way to the disk the retry wrote.
LEMMA RetryLandsStep ==
  ASSUME IInv, RetryLands
  PROVE  IInv'
<1>1. /\ TypeOK /\ PipelineOrdered /\ ReceiptsAreTrue /\ CommandsSafe
      /\ StartedIsDurable
  BY DEF IInv
<1>2. /\ failed # NoBatch /\ Lands(failed) /\ failed' = NoBatch
      /\ IF released THEN held' = {} /\ Restore(Recovered)
                     ELSE held' = Recovered /\ UNCHANGED <<queue, skipped>>
      /\ UNCHANGED <<rev, gen, pending, writing, resolved, rejected, at, inFlight,
                     released, published, failures, effectFailures, crashes,
                     started, owed>>
  BY DEF RetryLands, budgets
<1>3. /\ rev \in Nat /\ disk.rev \in Nat /\ failed \in Batch /\ failed.rev \in Nat
      /\ failed.outbox \subseteq Command /\ held \subseteq Command
  BY <1>1 DEF TypeOK, Batch
<1>4. /\ disk' \in [rev : Nat, gen : Nat, outbox : SUBSET Command]
      /\ disk'.rev = failed.rev /\ disk'.gen = failed.gen
      /\ disk'.outbox = failed.outbox /\ told' \in Seq(Nat)
  BY <1>1, <1>2, <1>3, LandsType
<1>5. /\ disk.rev < failed.rev /\ failed.rev <= rev
      /\ \A c \in failed.outbox : c.rev <= failed.rev
  BY <1>1, <1>2 DEF PipelineOrdered, BatchBehind
<1>6. Forward
  BY <1>2, <1>3, <1>4, <1>5 DEF Forward
<1>7. PipelineOrdered'
  <2>1. BatchBehind(NoBatch)'
    BY <1>2, <1>3, NoBatchType DEF BatchBehind, NoBatch
  <2> QED BY <1>1, <1>2, <1>3, <1>4, <1>5, <2>1 DEF PipelineOrdered, BatchBehind
<1>8. ReceiptsAreTrue'
  <2>1. ASSUME NEW r \in resolved PROVE r <= disk'.rev
    <3>1. r \in Nat /\ r <= disk.rev
      BY <1>1, <2>1 DEF ReceiptsAreTrue, TypeOK
    <3> QED BY <1>3, <1>4, <1>5, <3>1
  <2> QED BY <1>2, <2>1 DEF ReceiptsAreTrue
<1>9. Recovered \subseteq Command /\ \A c \in Recovered : c.rev <= rev' /\ Safe(c)'
  <2>1. ASSUME NEW c \in failed.outbox PROVE c.rev <= rev' /\ Safe(c)'
    <3>1. c.rev \in Nat /\ c.rev <= failed.rev
      BY <1>3, <1>5 DEF Command, Revisions
    <3> QED BY <1>2, <1>3, <1>4, <1>5, <3>1 DEF Safe
  <2> QED BY <1>1, <1>3, <1>6, <2>1, EffectsMonotone DEF Recovered
<1>10. queue' \in [Domains -> Seq(Entry)] /\ QueuesSafe'
  <2>1. CASE released
    <3>1. PICK S \in SUBSET Command : S = Recovered \ {e.cmd : e \in AllPending}
      BY <1>9
    <3>2. Push(S, TRUE)
      BY <1>2, <2>1, <3>1 DEF Restore
    <3>3. \A c \in S : c.rev <= rev' /\ (TRUE => Safe(c)')
      BY <1>9, <3>1
    <3> QED BY <1>1, <1>2, <1>6, <3>2, <3>3, PushSafe DEF CommandsSafe
  <2>2. CASE ~released
    BY <1>1, <1>2, <1>6, <2>2, QueuesFrame DEF CommandsSafe, TypeOK
  <2> QED BY <2>1, <2>2
<1>11. held' \subseteq Command /\ \A c \in held' : c.rev <= rev' /\ Safe(c)'
  BY <1>2, <1>9
<1>12. CommandsSafe' /\ StartedIsDurable'
  BY <1>1, <1>2, <1>6, <1>10, <1>11, EffectsMonotone
     DEF CommandsSafe, StartedIsDurable, Safe
<1>13. skipped' \subseteq Command
  BY <1>1, <1>2, <1>9 DEF Restore, TypeOK
<1>14. TypeOK'
  BY <1>1, <1>2, <1>4, <1>10, <1>11, <1>13, NoBatchType DEF TypeOK
<1> QED BY <1>7, <1>8, <1>12, <1>14 DEF IInv

LEMMA AllowRestoredStep ==
  ASSUME IInv, AllowRestored
  PROVE  IInv'
<1>1. /\ TypeOK /\ PipelineOrdered /\ ReceiptsAreTrue /\ CommandsSafe
      /\ StartedIsDurable
  BY DEF IInv
<1>2. /\ released' = TRUE /\ held' = {} /\ Restore(held)
      /\ UNCHANGED <<rev, gen, pipeline, pending, writing, failed, resolved, rejected,
                     told, at, inFlight, disk, published, failures, effectFailures,
                     crashes, started, owed>>
  BY DEF AllowRestored, budgets, pipeline
<1>3. Forward
  BY <1>1, <1>2 DEF Forward, TypeOK
<1>4. PipelineOrdered' /\ ReceiptsAreTrue'
  BY <1>1, <1>2, PipelineFrame
<1>5. queue' \in [Domains -> Seq(Entry)] /\ QueuesSafe'
  <2>1. PICK S \in SUBSET Command : S = held \ {e.cmd : e \in AllPending}
    BY <1>1 DEF TypeOK
  <2>2. Push(S, TRUE)
    BY <1>2, <2>1 DEF Restore
  <2>3. \A c \in S : c.rev <= rev' /\ (TRUE => Safe(c)')
    BY <1>1, <1>3, <2>1, EffectsMonotone
  <2> QED BY <1>1, <1>2, <1>3, <2>2, <2>3, PushSafe DEF CommandsSafe
<1>6. CommandsSafe' /\ StartedIsDurable'
  BY <1>1, <1>2, <1>3, <1>5, EffectsMonotone DEF CommandsSafe, StartedIsDurable, Safe
<1>7. skipped' \subseteq Command
  BY <1>1, <1>2 DEF Restore, TypeOK
<1>8. TypeOK'
  BY <1>1, <1>2, <1>5, <1>7 DEF TypeOK
<1> QED BY <1>4, <1>6, <1>8 DEF IInv

-------------------------------------------------------------------------------
(***************************************************************************)
(* The drains and the effects: the disk and the pipeline stand still.      *)
(***************************************************************************)
OutboxOnly == UNCHANGED <<rev, gen, pipeline, released, disk, skipped>>

LEMMA ShiftSafe ==
  ASSUME TypeOK, QueuesSafe, NEW d \in Domains, queue[d] # <<>>, Shift(d),
         UNCHANGED <<rev, disk>>
  PROVE  /\ queue' \in [Domains -> Seq(Entry)]
         /\ at' \in [Domains -> {"next", "durability", "lookup"}]
         /\ QueuesSafe'
<1>1. /\ queue' \in [Domains -> Seq(Entry)]
      /\ at' \in [Domains -> {"next", "durability", "lookup"}]
      /\ at'[d] = "next"
      /\ \A x \in Domains \ {d} : queue'[x] = queue[x] /\ at'[x] = at[x]
      /\ \A i \in 1..Len(queue'[d]) :
           i + 1 \in 1..Len(queue[d]) /\ queue'[d][i] = queue[d][i + 1]
  BY ShiftEntries DEF TypeOK
<1>2. \A e : EntryOK(e) => EntryOK(e)'
  BY DEF EntryOK, Safe
<1>3. ASSUME NEW x \in Domains, NEW i \in 1..Len(queue'[x])
      PROVE  EntryOK(queue[x][i])'
  <2>1. CASE x = d
    <3>1. EntryOK(queue[d][i + 1]) /\ queue'[d][i] = queue[d][i + 1]
      BY <1>1, <1>3, <2>1 DEF QueuesSafe
    <3> QED BY <2>1, <3>1 DEF EntryOK, Safe
  <2>2. CASE x # d
    <3>1. EntryOK(queue[x][i]) /\ queue'[x] = queue[x]
      BY <1>1, <1>3, <2>2 DEF QueuesSafe
    <3> QED BY <3>1 DEF EntryOK, Safe
  <2> QED BY <2>1, <2>2
<1>4. ASSUME NEW x \in Domains, at'[x] = "lookup"
      PROVE  queue'[x] # <<>> /\ Safe(queue[x][1].cmd)'
  <2>1. x # d
    BY <1>1, <1>4
  <2>2. queue[x] # <<>> /\ Safe(queue[x][1].cmd) /\ queue'[x] = queue[x]
    BY <1>1, <1>4, <2>1 DEF QueuesSafe
  <2> QED BY <2>2 DEF Safe
<1> QED BY <1>1, <1>3, <1>4 DEF QueuesSafe

LEMMA OutboxStep ==
  ASSUME IInv, OutboxOnly,
         queue' \in [Domains -> Seq(Entry)],
         at' \in [Domains -> {"next", "durability", "lookup"}], QueuesSafe',
         inFlight' \subseteq Effect,
         \A e \in inFlight' : e.cmd.rev <= rev /\ Safe(e.cmd),
         held' \subseteq Command, \A c \in held' : c.rev <= rev /\ Safe(c),
         started' \subseteq Command, \A c \in started' : Safe(c),
         published' \subseteq Command, owed' \subseteq Command,
         failures' \in Nat, effectFailures' \in Nat, crashes' \in Nat
  PROVE  IInv'
<1>1. /\ TypeOK /\ PipelineOrdered /\ ReceiptsAreTrue
  BY DEF IInv
<1>2. UNCHANGED <<rev, gen, pending, writing, failed, resolved, rejected, told,
                  released, disk, skipped>>
  BY DEF OutboxOnly, pipeline
<1>3. PipelineOrdered' /\ ReceiptsAreTrue'
  BY <1>1, PipelineFrame DEF OutboxOnly
<1>4. CommandsSafe' /\ StartedIsDurable'
  BY <1>2 DEF CommandsSafe, StartedIsDurable, Safe
<1>5. TypeOK'
  BY <1>1, <1>2 DEF TypeOK
<1> QED BY <1>3, <1>4, <1>5 DEF IInv

\* A drain that only moves on: it drops the head of its queue, or waits for the
\* next answer about it, for the publication store only when the head is safe.
LEMMA MoveOnStep ==
  ASSUME IInv, NEW d \in Domains, queue[d] # <<>>,
         \/ Shift(d)
         \/ at' = [at EXCEPT ![d] = "durability"] /\ UNCHANGED queue
         \/ /\ at' = [at EXCEPT ![d] = "lookup"] /\ UNCHANGED queue
            /\ Safe(queue[d][1].cmd),
         OutboxOnly, UNCHANGED <<inFlight, held, published, budgets, started, owed>>
  PROVE  IInv'
<1>1. /\ TypeOK /\ CommandsSafe /\ StartedIsDurable /\ QueuesSafe
  BY DEF IInv, CommandsSafe
<1>2. UNCHANGED <<rev, disk, inFlight, held, published, failures, effectFailures,
                  crashes, started, owed>>
  BY DEF OutboxOnly, budgets
<1>3. /\ queue' \in [Domains -> Seq(Entry)]
      /\ at' \in [Domains -> {"next", "durability", "lookup"}] /\ QueuesSafe'
  <2>1. CASE Shift(d)
    BY <1>1, <1>2, <2>1, ShiftSafe
  <2>2. CASE at' = [at EXCEPT ![d] = "durability"] /\ UNCHANGED queue
    BY <1>1, <1>2, <2>2 DEF TypeOK, QueuesSafe, EntryOK, Safe
  <2>3. CASE /\ at' = [at EXCEPT ![d] = "lookup"] /\ UNCHANGED queue
             /\ Safe(queue[d][1].cmd)
    BY <1>1, <1>2, <2>3 DEF TypeOK, QueuesSafe, EntryOK, Safe
  <2> QED BY <2>1, <2>2, <2>3
<1> QED BY <1>1, <1>2, <1>3, OutboxStep DEF TypeOK, CommandsSafe, StartedIsDurable, Safe

LEMMA DrainStep ==
  ASSUME IInv, NEW d \in Domains, Drain(d)
  PROVE  IInv'
<1>1. /\ TypeOK /\ PipelineOrdered /\ ReceiptsAreTrue /\ CommandsSafe
      /\ StartedIsDurable
  BY DEF IInv
<1>2. queue[d] \in Seq(Entry) /\ Len(queue[d]) \in Nat
  BY <1>1, LenProperties DEF TypeOK
<1>3. queue[d] # <<>> =>
        1 \in 1..Len(queue[d]) /\ Head(queue[d]) = queue[d][1] /\ queue[d][1] \in Entry
  BY <1>2, EmptySeq, HeadTailProperties
<1>4. CASE AwaitDurability(d)
  <2>1. /\ queue[d] # <<>>
        /\ \/ Shift(d)
           \/ at' = [at EXCEPT ![d] = "durability"] /\ UNCHANGED queue
        /\ OutboxOnly /\ UNCHANGED <<inFlight, held, published, budgets, started, owed>>
    BY <1>4 DEF AwaitDurability, OutboxOnly, history
  <2> QED BY <2>1, MoveOnStep
<1>5. CASE LookUp(d)
  <2>1. /\ queue[d] # <<>>
        /\ IsDurable(queue[d][1])
        /\ \/ Shift(d)
           \/ at' = [at EXCEPT ![d] = "lookup"] /\ UNCHANGED queue
        /\ OutboxOnly /\ UNCHANGED <<inFlight, held, published, budgets, started, owed>>
    BY <1>3, <1>5 DEF LookUp, OutboxOnly, history
  <2>2. Safe(queue[d][1].cmd)
    <3>1. CASE queue[d][1].restored
      BY <1>1, <1>3, <2>1, <3>1 DEF CommandsSafe, QueuesSafe, EntryOK
    <3>2. CASE queue[d][1].cmd.rev \in resolved
      BY <1>1, <3>2 DEF ReceiptsAreTrue, Safe
    <3> QED BY <2>1, <3>1, <3>2 DEF IsDurable
  <2> QED BY <2>1, <2>2, MoveOnStep
<1>6. CASE DropRejected(d)
  <2>1. /\ queue[d] # <<>> /\ Shift(d)
        /\ OutboxOnly /\ UNCHANGED <<inFlight, held, published, budgets, started, owed>>
    BY <1>6 DEF DropRejected, OutboxOnly, history
  <2> QED BY <2>1, MoveOnStep
<1>7. CASE Dispatch(d)
  <2> DEFINE c == queue[d][1].cmd
             effect == [cmd |-> c, fenced |-> FALSE, marking |-> FALSE]
  <2>1. /\ queue[d] # <<>> /\ at[d] = "lookup" /\ Shift(d)
        /\ OutboxOnly /\ UNCHANGED <<held, published, budgets, owed>>
        /\ \/ UNCHANGED <<inFlight, started>>
           \/ inFlight' = inFlight \cup {effect} /\ started' = started \cup {c}
    BY <1>3, <1>7 DEF Dispatch, OutboxOnly
  <2>2. c \in Command /\ c.rev <= rev /\ Safe(c)
    BY <1>1, <1>3, <2>1 DEF Entry, CommandsSafe, QueuesSafe, EntryOK
  <2>3. effect \in Effect /\ effect.cmd = c
    BY <2>2 DEF Effect
  <2> HIDE DEF c, effect
  <2>4. UNCHANGED <<rev, disk, held, published, failures, effectFailures, crashes, owed>>
    BY <2>1 DEF OutboxOnly, budgets
  <2>5. /\ queue' \in [Domains -> Seq(Entry)]
        /\ at' \in [Domains -> {"next", "durability", "lookup"}] /\ QueuesSafe'
    BY <1>1, <2>1, <2>4, ShiftSafe DEF CommandsSafe
  <2>6. /\ inFlight' \subseteq Effect /\ started' \subseteq Command
        /\ \A e \in inFlight' : e.cmd.rev <= rev /\ Safe(e.cmd)
        /\ \A x \in started' : Safe(x)
    BY <1>1, <2>1, <2>2, <2>3 DEF TypeOK, CommandsSafe, StartedIsDurable, Safe
  <2> QED BY <1>1, <2>1, <2>4, <2>5, <2>6, OutboxStep DEF TypeOK, CommandsSafe
<1> QED BY <1>4, <1>5, <1>6, <1>7 DEF Drain

LEMMA EffectStep ==
  ASSUME IInv, NEW e \in inFlight, EffectCompletes(e) \/ Marked(e) \/ EffectFails(e)
  PROVE  IInv'
<1>1. /\ TypeOK /\ CommandsSafe /\ StartedIsDurable /\ QueuesSafe
  BY DEF IInv, CommandsSafe
<1>2. e \in Effect /\ e.cmd \in Command /\ e.cmd.rev <= rev /\ Safe(e.cmd)
  BY <1>1 DEF TypeOK, CommandsSafe, Effect
<1>3. OutboxOnly /\ UNCHANGED <<queue, at, rev, disk, failures, crashes, started>>
  BY DEF EffectCompletes, Marked, EffectFails, OutboxOnly, budgets, history
<1>4. QueuesSafe'
  BY <1>1, <1>3 DEF QueuesSafe, EntryOK, Safe
<1>5. CASE EffectCompletes(e)
  <2>1. PICK m : m = [e EXCEPT !.marking = TRUE]
    OBVIOUS
  <2>2. m \in Effect /\ m.cmd = e.cmd
    BY <1>2, <2>1 DEF Effect
  <2>3. inFlight' = (inFlight \ {e}) \cup {m}
    BY <1>5, <2>1 DEF EffectCompletes
  <2>4. UNCHANGED <<held, published, effectFailures, owed>>
    BY <1>5 DEF EffectCompletes, budgets, history
  <2>5. inFlight' \subseteq Effect /\ \A f \in inFlight' : f.cmd.rev <= rev /\ Safe(f.cmd)
    BY <1>1, <1>2, <2>2, <2>3 DEF TypeOK, CommandsSafe
  <2> QED BY <1>1, <1>3, <1>4, <2>4, <2>5, OutboxStep
          DEF TypeOK, CommandsSafe, StartedIsDurable, Safe
<1>6. CASE Marked(e)
  <2>1. /\ published' = published \cup {e.cmd} /\ inFlight' = inFlight \ {e}
        /\ owed' = owed \ {e.cmd} /\ UNCHANGED <<held, effectFailures>>
    BY <1>6 DEF Marked, budgets
  <2> QED BY <1>1, <1>2, <1>3, <1>4, <2>1, OutboxStep
          DEF TypeOK, CommandsSafe, StartedIsDurable, Safe
<1>7. CASE EffectFails(e)
  <2>1. /\ effectFailures' = effectFailures + 1 /\ inFlight' = inFlight \ {e}
        /\ held' = held \/ held' = held \cup {e.cmd}
        /\ owed' = owed \/ owed' = owed \ {e.cmd}
        /\ UNCHANGED published
    BY <1>7 DEF EffectFails
  <2>2. held' \subseteq Command /\ \A c \in held' : c.rev <= rev /\ Safe(c)
    BY <1>1, <1>2, <2>1 DEF TypeOK, CommandsSafe
  <2>3. effectFailures' \in Nat
    BY <1>1, <2>1 DEF TypeOK
  <2>4. inFlight' \subseteq Effect /\ owed' \subseteq Command
    BY <1>1, <2>1 DEF TypeOK
  <2> QED BY <1>1, <1>3, <1>4, <2>1, <2>2, <2>3, <2>4, OutboxStep
          DEF TypeOK, CommandsSafe, StartedIsDurable, Safe
<1> QED BY <1>5, <1>6, <1>7

\* A reopened task holds only commands of the snapshot on disk and those hydrate
\* derives from it.
LEMMA ReopenStep ==
  ASSUME IInv, NEW D \in SUBSET Rederived, Reopen(D)
  PROVE  IInv'
<1>1. /\ TypeOK /\ PipelineOrdered /\ StartedIsDurable
  BY DEF IInv
<1>2. /\ disk.rev < MaxRevision /\ rev' = disk.rev + 1 /\ gen' = disk.gen + 1
      /\ pending' = NoBatch /\ writing' = NoBatch /\ failed' = NoBatch
      /\ resolved' = {} /\ rejected' = {} /\ told' = <<>>
      /\ queue' = [d \in Domains |-> <<>>] /\ at' = [d \in Domains |-> "next"]
      /\ inFlight' = {} /\ released' = FALSE /\ owed' = Derived(D) /\ skipped' = {}
      /\ held' = {c \in disk.outbox \cup Derived(D) : c.gen = disk.gen + 1}
      /\ crashes' = crashes + 1
      /\ UNCHANGED <<disk, published, failures, effectFailures, started>>
  BY DEF Reopen
<1>3. /\ disk.rev \in Nat /\ disk.gen \in Nat /\ disk.gen <= disk.rev
      /\ disk.outbox \subseteq Command /\ \A c \in disk.outbox : c.rev <= disk.rev
      /\ MaxRevision \in Nat
  BY <1>1, RuntimeAssumption DEF TypeOK, PipelineOrdered
<1>4. /\ Derived(D) \subseteq Command
      /\ \A c \in Derived(D) : c.hydrated /\ c.rev = disk.rev + 1
  <2>1. disk.rev + 1 \in Revisions /\ disk.gen + 1 \in Revisions
    BY <1>2, <1>3 DEF Revisions
  <2>2. ASSUME NEW d \in D
        PROVE  [rev |-> disk.rev + 1, gen |-> disk.gen + 1, domain |-> d,
                hydrated |-> TRUE] \in Command
    BY <2>1, RuntimeAssumption DEF Command
  <2> QED BY <2>2 DEF Derived
<1>5. held' \subseteq Command /\ \A c \in held' : c.rev <= rev' /\ Safe(c)'
  <2>1. ASSUME NEW c \in disk.outbox PROVE c.rev <= rev' /\ Safe(c)'
    <3>1. c.rev \in Nat /\ c.rev <= disk.rev
      BY <1>3 DEF Command, Revisions
    <3> QED BY <1>2, <1>3, <3>1 DEF Safe
  <2>2. ASSUME NEW c \in Derived(D) PROVE c.rev <= rev' /\ Safe(c)'
    BY <1>2, <1>3, <1>4 DEF Safe
  <2> QED BY <1>2, <1>3, <1>4, <2>1, <2>2
<1>6. PipelineOrdered'
  <2>1. BatchBehind(NoBatch)'
    BY <1>2, <1>3, NoBatchType DEF BatchBehind, NoBatch
  <2> QED BY <1>2, <1>3, <2>1 DEF PipelineOrdered, BatchBehind
<1>7. ReceiptsAreTrue' /\ StartedIsDurable'
  BY <1>1, <1>2 DEF ReceiptsAreTrue, StartedIsDurable
<1>8. queue' \in [Domains -> Seq(Entry)] /\ QueuesSafe'
  <2>1. <<>> \in Seq(Entry) /\ Len(<<>>) = 0
    BY EmptySeq
  <2> QED BY <1>2, <2>1 DEF QueuesSafe
<1>9. CommandsSafe'
  BY <1>2, <1>5, <1>8 DEF CommandsSafe
<1>10. TypeOK'
  <2>1. <<>> \in Seq(Nat)
    BY EmptySeq
  <2>2. /\ rev' \in Nat /\ gen' \in Nat /\ crashes' \in Nat
        /\ failures' \in Nat /\ effectFailures' \in Nat
    BY <1>1, <1>2, <1>3 DEF TypeOK
  <2>3. /\ pending' \in Batch /\ writing' \in Batch /\ failed' \in Batch
        /\ resolved' \subseteq Nat /\ rejected' \subseteq Nat /\ told' \in Seq(Nat)
    BY <1>2, <2>1, NoBatchType
  <2>4. /\ at' \in [Domains -> {"next", "durability", "lookup"}]
        /\ inFlight' \subseteq Effect /\ released' \in BOOLEAN
        /\ owed' \subseteq Command /\ skipped' \subseteq Command
    BY <1>2, <1>4
  <2>5. /\ disk' \in [rev : Nat, gen : Nat, outbox : SUBSET Command]
        /\ published' \subseteq Command /\ started' \subseteq Command
    BY <1>1, <1>2 DEF TypeOK
  <2> QED BY <1>5, <1>8, <2>2, <2>3, <2>4, <2>5 DEF TypeOK
<1> QED BY <1>6, <1>7, <1>9, <1>10 DEF IInv

\* Every step keeps the invariant.
LEMMA NextIInv == IInv /\ [Next]_vars => IInv'
<1> SUFFICES ASSUME IInv, [Next]_vars PROVE IInv'
  OBVIOUS
<1>1. CASE UNCHANGED vars
  BY <1>1 DEF vars, memory, budgets, history, IInv, TypeOK, PipelineOrdered, BatchBehind,
              ReceiptsAreTrue, CommandsSafe, QueuesSafe, EntryOK, Safe, StartedIsDurable
<1>2. CASE \E D \in SUBSET Domains : Submit(D)
  BY <1>2, SubmitStep
<1>3. CASE Cancel
  BY <1>3, CancelStep
<1>4. CASE SaveLands
  BY <1>4, SaveLandsStep
<1>5. CASE SaveFails
  BY <1>5, SaveFailsStep
<1>6. CASE RetryLands
  BY <1>6, RetryLandsStep
<1>7. CASE AllowRestored
  BY <1>7, AllowRestoredStep
<1>8. CASE \E d \in Domains : Drain(d)
  BY <1>8, DrainStep
<1>9. CASE \E e \in inFlight : EffectCompletes(e) \/ Marked(e) \/ EffectFails(e)
  BY <1>9, EffectStep
<1>10. CASE \E D \in SUBSET Rederived : Reopen(D)
  BY <1>10, ReopenStep
<1> QED BY <1>1, <1>2, <1>3, <1>4, <1>5, <1>6, <1>7, <1>8, <1>9, <1>10 DEF Next

-------------------------------------------------------------------------------
(***************************************************************************)
(* The theorems.                                                           *)
(***************************************************************************)

LEMMA Invariance == Spec => []IInv
BY InitIInv, NextIInv, PTL DEF Spec

\* Every variable keeps its type, and no revision passes the bound.
THEOREM TypeCorrect == Spec => []TypeOK
BY Invariance, PTL DEF IInv

\* No effect runs before the revision that issued it is on disk, whatever
\* writes, failures, retries, halts and crashes come between (EventLoop,
\* CommitPipeline and DurableCommandOutbox together).
THEOREM WriteAheadOrder == Spec => []StartedIsDurable
BY Invariance, PTL DEF IInv

\* A durability receipt that resolved never lies (CommitPipeline).
THEOREM ReceiptsTrue == Spec => []ReceiptsAreTrue
BY Invariance, PTL DEF IInv

\* The runtime implements the abstract specification: every step of it is an
\* Accept, a Land, a Start, a Reopen or a stutter of WriteAhead.
THEOREM Refinement == Spec => KeepsWriteAhead
<1> USE DEF Promise!Accept, Promise!Land, Promise!Start, Promise!Reopen, Promise!waVars
<1>1. Init => Promise!WAInit
  BY DEF Init, Promise!WAInit
<1>2. IInv /\ [Next]_vars => [Promise!WANext]_(Promise!waVars)
  <2> SUFFICES ASSUME IInv, [Next]_vars
               PROVE  [Promise!WANext]_(Promise!waVars)
    OBVIOUS
  <2>0. TypeOK /\ PipelineOrdered /\ CommandsSafe
    BY DEF IInv
  <2>1. CASE UNCHANGED vars
    BY <2>1 DEF vars, memory, history
  <2>2. CASE (\E D \in SUBSET Domains : Submit(D)) \/ Cancel
    BY <2>2 DEF Submit, Cancel, Promise!WANext
  <2>3. CASE SaveLands
    <3>1. disk'.rev = writing.rev /\ UNCHANGED <<rev, started>>
      BY <2>3 DEF SaveLands, Lands, history
    <3>2. /\ rev \in Nat /\ disk.rev \in Nat /\ writing.rev \in Nat
          /\ disk.rev < writing.rev /\ writing.rev <= rev
      BY <2>0, <2>3 DEF SaveLands, TypeOK, Batch, PipelineOrdered, BatchBehind
    <3> QED BY <3>1, <3>2 DEF Promise!WANext
  <2>4. CASE RetryLands
    <3>1. disk'.rev = failed.rev /\ UNCHANGED <<rev, started>>
      BY <2>4 DEF RetryLands, Lands
    <3>2. /\ rev \in Nat /\ disk.rev \in Nat /\ failed.rev \in Nat
          /\ disk.rev < failed.rev /\ failed.rev <= rev
      BY <2>0, <2>4 DEF RetryLands, TypeOK, Batch, PipelineOrdered, BatchBehind
    <3> QED BY <3>1, <3>2 DEF Promise!WANext
  <2>5. CASE SaveFails \/ AllowRestored
    BY <2>5 DEF SaveFails, AllowRestored, history
  <2>6. ASSUME NEW d \in Domains, Drain(d)
        PROVE  [Promise!WANext]_(Promise!waVars)
    <3>1. CASE AwaitDurability(d) \/ LookUp(d) \/ DropRejected(d)
      BY <3>1 DEF AwaitDurability, LookUp, DropRejected, history
    <3>2. CASE Dispatch(d)
      <4>1. PICK c : c = Head(queue[d]).cmd
        OBVIOUS
      <4>2. /\ queue[d] # <<>> /\ at[d] = "lookup" /\ UNCHANGED <<rev, disk>>
            /\ UNCHANGED started \/ started' = started \cup {c}
        BY <3>2, <4>1 DEF Dispatch
      <4>3. queue[d] \in Seq(Entry) /\ Head(queue[d]) = queue[d][1] /\ Head(queue[d]) \in Entry
        BY <2>0, <4>2, HeadTailProperties DEF TypeOK
      <4>4. c \in Command /\ Safe(c)
        BY <2>0, <4>1, <4>2, <4>3 DEF CommandsSafe, QueuesSafe, Entry
      <4> QED BY <4>2, <4>4 DEF Safe, Promise!MayStart, Promise!WANext
    <3> QED BY <2>6, <3>1, <3>2 DEF Drain
  <2>7. CASE \E e \in inFlight : EffectCompletes(e) \/ Marked(e) \/ EffectFails(e)
    BY <2>7 DEF EffectCompletes, Marked, EffectFails, history
  <2>8. CASE \E D \in SUBSET Rederived : Reopen(D)
    BY <2>8 DEF Reopen, Promise!WANext
  <2> QED BY <2>1, <2>2, <2>3, <2>4, <2>5, <2>6, <2>7, <2>8 DEF Next
<1> QED BY <1>1, <1>2, Invariance, PTL DEF Spec, KeepsWriteAhead, Promise!WASpec
===============================================================================
