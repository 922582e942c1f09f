------------------------------ MODULE TaskRuntime ------------------------------
(***************************************************************************)
(* The durable task runtime: the event loop commits kernel states through  *)
(* the commit pipeline and publishes their commands from the durable       *)
(* outbox, across failed writes, retries, halts and process crashes.       *)
(*                                                                         *)
(* A step is what the code does between two awaits.  The kernel is         *)
(* abstracted to its revision, its generation and the commands a           *)
(* transition issues; a command stands for itself where the code compares  *)
(* effect keys.  A commit issues at most one command per executor domain.  *)
(* dialog.prepare is left out: it is dispatched at once and never enters   *)
(* any of the state below.                                                 *)
(***************************************************************************)
EXTENDS Naturals, Sequences, FiniteSets

CONSTANTS Domains,      \* the executor domains, one publication lane each
          Redelivered,  \* the domains whose commands are dialog.deliver_automatic
          Rederived,    \* the domains hydrate issues commands for (dialog)
          MaxRevision,  \* bound on the kernel revision
          MaxFailures,  \* bound on failed vault writes
          MaxEffectFailures,  \* bound on failed effects
          MaxCrashes    \* bound on process crashes

ASSUME RuntimeAssumption == /\ IsFiniteSet(Domains)
                            /\ Redelivered \subseteq Domains
                            /\ Rederived \subseteq Domains
                            /\ MaxRevision \in Nat
                            /\ MaxFailures \in Nat
                            /\ MaxEffectFailures \in Nat
                            /\ MaxCrashes \in Nat

VARIABLES
  rev, gen,        \* revision and generation of the kernel state in memory
  pending,         \* the batch waiting for the write in flight
  writing,         \* the batch vault.save is writing
  failed,          \* the batch a failed write left behind; fatalError is set
  resolved,        \* revisions whose durability receipt resolved
  rejected,        \* revisions whose durability receipt rejected
  queue,           \* per domain, the entries not published yet
  at,              \* per domain, what the drain of its queue awaits
  inFlight,        \* publicationsInFlight: effects started and not yet marked
  held,            \* heldRestored
  released,        \* restoredReleaseAllowed
  disk,            \* the snapshot in the state vault
  published,       \* the publication store
  told,            \* the revisions the view was told of, in order
  failures, effectFailures, crashes,
  started,         \* history: the commands whose effect was started
  owed,            \* history: accepted commands not fenced and not yet settled
  skipped          \* history: commands a restore left to an entry already refused

memory  == <<rev, gen, pending, writing, failed, resolved, rejected, queue,
             at, inFlight, held, released, told>>
budgets == <<failures, effectFailures, crashes>>
history == <<started, owed, skipped>>
vars    == <<memory, disk, published, budgets, history>>
pipeline == <<pending, writing, failed, resolved, rejected, told>>

-------------------------------------------------------------------------------
Revisions == 0..MaxRevision
Command   == [rev : Revisions, gen : Revisions, domain : Domains, hydrated : BOOLEAN]
Entry     == [cmd : Command, restored : BOOLEAN, fenced : BOOLEAN]
Effect    == [cmd : Command, fenced : BOOLEAN, marking : BOOLEAN]
Batch     == [rev : Nat, gen : Nat, outbox : SUBSET Command, committed : Seq(Nat)]

NoBatch == [rev |-> 0, gen |-> 0, outbox |-> {}, committed |-> <<>>]

Cmd(r, g, d) == [rev |-> r, gen |-> g, domain |-> d, hydrated |-> FALSE]

Queued(d) == {queue[d][i] : i \in DOMAIN queue[d]}
AllPending == UNION {Queued(d) : d \in Domains}

\* Mutant: publish without waiting for the receipt.
IsDurableUnawaited(e) == e.restored \/ e.cmd.rev \notin rejected

IsDurable(e)  == e.restored \/ e.cmd.rev \in resolved
IsRejected(e) == ~e.restored /\ e.cmd.rev \in rejected
IsInFlight(c) == \E e \in inFlight : e.cmd = c

\* Mutant: an effect leaves the snapshot as soon as it is admitted.
RetainedQueuedOnly == held \cup {e.cmd : e \in {f \in AllPending : ~f.fenced}}

\* The commands the next snapshot carries over; a commit that halts the task
\* at revision r keeps none issued before it.
Retained == held \cup {e.cmd : e \in {f \in inFlight : ~f.fenced}}
                 \cup {e.cmd : e \in {f \in AllPending : ~f.fenced}}
Persistable(incoming, halts, r) ==
  {c \in Retained : halts => c.rev >= r} \cup incoming

\* The commands of a set in the order they were committed; a queue and the
\* maps of the outbox keep one domain's commands in this order.
Listings(S) == {q \in [1..Cardinality(S) -> S] :
                  \A i, j \in 1..Cardinality(S) : i < j => q[i].rev < q[j].rev}
InDomain(S, d) == {c \in S : c.domain = d}
Fresh(q, isRestored) ==
  [i \in DOMAIN q |-> [cmd |-> q[i], restored |-> isRestored, fenced |-> FALSE]]

\* The queues with the commands of S behind the entries of base.
Pushed(base, S, isRestored) ==
  {[d \in Domains |-> base[d] \o Fresh(order[d], isRestored)] :
     order \in {f \in [Domains -> UNION {Listings(InDomain(S, d)) : d \in Domains}] :
                  \A d \in Domains : f[d] \in Listings(InDomain(S, d))}}

Push(S, isRestored) == queue' \in Pushed(queue, S, isRestored)

\* restore: a command a queue still holds is not pushed a second time, also
\* when the entry it finds was refused with its write and is only dropped later.
Restore(S) ==
  /\ Push(S \ {e.cmd : e \in AllPending}, TRUE)
  /\ skipped' = skipped \cup {c \in S : \E e \in AllPending : e.cmd = c /\ IsRejected(e)}

Batched(outbox, r, g) ==
  [rev |-> r, gen |-> g, outbox |-> outbox,
   committed |-> Append(pending.committed, r)]

\* commit: join the waiting batch, or start a write when none is in flight.
CommitBatch(outbox, r, g) ==
  IF pending = NoBatch /\ writing = NoBatch
  THEN writing' = Batched(outbox, r, g) /\ UNCHANGED pending
  ELSE pending' = Batched(outbox, r, g) /\ UNCHANGED writing

Revs(batch) == {batch.committed[i] : i \in DOMAIN batch.committed}

-------------------------------------------------------------------------------
\* Initially a fresh task: nothing committed, the snapshot of revision 0.
Init ==
  /\ rev = 0 /\ gen = 0
  /\ pending = NoBatch /\ writing = NoBatch /\ failed = NoBatch
  /\ resolved = {} /\ rejected = {} /\ told = <<>>
  /\ queue = [d \in Domains |-> <<>>] /\ at = [d \in Domains |-> "next"]
  /\ inFlight = {} /\ held = {} /\ released = TRUE
  /\ disk = [rev |-> 0, gen |-> 0, outbox |-> {}]
  /\ published = {} /\ failures = 0 /\ effectFailures = 0 /\ crashes = 0
  /\ started = {} /\ owed = {} /\ skipped = {}

\* EventLoop.drain: one accepted event, from the transition to the enqueue.
\* While a failed write stands, submit retries it first and commit throws.
Accepts == failed = NoBatch /\ rev < MaxRevision

Submit(D) ==
  /\ Accepts
  /\ LET incoming == {Cmd(rev + 1, gen, d) : d \in D}
     IN /\ CommitBatch(Persistable(incoming, FALSE, rev + 1), rev + 1, gen)
        /\ Push(incoming, FALSE)
        /\ owed' = owed \cup incoming
  /\ rev' = rev + 1
  /\ UNCHANGED <<gen, failed, resolved, rejected, told, at, inFlight, held,
                 released, disk, published, budgets, started, skipped>>

\* user.cancel: a new generation, and halt.stop fences what was issued before.
Fenced(e, r) == [e EXCEPT !.fenced = @ \/ e.cmd.rev < r]

Cancel ==
  /\ Accepts
  /\ CommitBatch(Persistable({}, TRUE, rev + 1), rev + 1, gen + 1)
  /\ held' = {c \in held : c.rev >= rev + 1}
  /\ queue' = [d \in Domains |->
                 [i \in DOMAIN queue[d] |-> Fenced(queue[d][i], rev + 1)]]
  /\ inFlight' = {Fenced(e, rev + 1) : e \in inFlight}
  /\ owed' = {c \in owed : c.rev >= rev + 1}
  /\ rev' = rev + 1
  /\ gen' = gen + 1
  /\ UNCHANGED <<failed, resolved, rejected, told, at, released, disk,
                 published, budgets, started, skipped>>

\* CommitPipeline.drain: the write landed; its waiters learn it, the view is
\* told, and the waiting batch is written next.
Lands(batch) ==
  /\ disk' = [rev |-> batch.rev, gen |-> batch.gen, outbox |-> batch.outbox]
  /\ told' = told \o batch.committed

\* Mutant: the batch that is still waiting is reported durable too.
SaveLandsEarly ==
  /\ writing # NoBatch
  /\ Lands(writing)
  /\ resolved' = resolved \cup Revs(writing) \cup Revs(pending)
  /\ writing' = pending
  /\ pending' = NoBatch
  /\ UNCHANGED <<rev, gen, failed, rejected, queue, at, inFlight, held, released,
                 published, budgets, history>>

SaveLands ==
  /\ writing # NoBatch
  /\ Lands(writing)
  /\ resolved' = resolved \cup Revs(writing)
  /\ writing' = pending
  /\ pending' = NoBatch
  /\ UNCHANGED <<rev, gen, failed, rejected, queue, at, inFlight, held, released,
                 published, budgets, history>>

\* Mutant: only the newest waiting commits are shown after the retry.
MergedFailureNewest == IF pending = NoBatch THEN writing ELSE pending

\* fail: the failed batch takes the newest waiting snapshot with it, and every
\* waiter of both is rejected.
MergedFailure ==
  IF pending = NoBatch THEN writing
  ELSE [pending EXCEPT !.committed = writing.committed \o pending.committed]

SaveFails ==
  /\ writing # NoBatch
  /\ failures < MaxFailures
  /\ failed' = MergedFailure
  /\ rejected' = rejected \cup Revs(writing) \cup Revs(pending)
  /\ writing' = NoBatch
  /\ pending' = NoBatch
  /\ failures' = failures + 1
  /\ UNCHANGED <<rev, gen, resolved, told, queue, at, inFlight, held, released,
                 disk, published, effectFailures, crashes, history>>

\* retryFailedCommit: the exact failed snapshot is written again; its outbox is
\* held and, once the bootstrap barrier is open, released to the queues.
\* The next submit starts the retry; before its write can land, every drain has
\* run until it waits for the publication store.
DrainsAwaitStore == \A d \in Domains : queue[d] # <<>> => at[d] = "lookup"

Recovered == held \cup {c \in failed.outbox : c.gen = failed.gen}

RetryLands ==
  /\ failed # NoBatch
  /\ DrainsAwaitStore
  /\ Lands(failed)
  /\ failed' = NoBatch
  /\ IF released THEN held' = {} /\ Restore(Recovered)
                 ELSE held' = Recovered /\ UNCHANGED <<queue, skipped>>
  /\ UNCHANGED <<rev, gen, pending, writing, resolved, rejected, at, inFlight,
                 released, published, budgets, started, owed>>

\* Mutant: the barrier opens without publishing what it held.
AllowRestoredForgets ==
  /\ ~released
  /\ released' = TRUE
  /\ held' = {}
  /\ UNCHANGED <<rev, gen, pipeline, queue, at, inFlight, disk, published, budgets,
                 history>>

\* allowRestoredCommands, once the reopened session has bound its receivers.
AllowRestored ==
  /\ ~released
  /\ released' = TRUE
  /\ held' = {}
  /\ Restore(held)
  /\ UNCHANGED <<rev, gen, pipeline, at, inFlight, disk, published, budgets, started, owed>>

-------------------------------------------------------------------------------
\* DurableCommandOutbox.drain, one step per await, on the queue of domain d.
Shift(d) == /\ queue' = [queue EXCEPT ![d] = Tail(@)]
            /\ at' = [at EXCEPT ![d] = "next"]

AwaitDurability(d) ==
  /\ queue[d] # <<>> /\ at[d] = "next"
  /\ IF Head(queue[d]).fenced THEN Shift(d)
     ELSE at' = [at EXCEPT ![d] = "durability"] /\ UNCHANGED queue
  /\ UNCHANGED <<rev, gen, pipeline, inFlight, held, released, disk, published,
                 budgets, history>>

\* Mutant: the lookup does not ask whether the effect already runs.
LookUpBlind(d) ==
  /\ queue[d] # <<>> /\ at[d] = "durability"
  /\ LET e == Head(queue[d])
     IN /\ IsDurable(e)
        /\ IF e.fenced THEN Shift(d)
           ELSE at' = [at EXCEPT ![d] = "lookup"] /\ UNCHANGED queue
  /\ UNCHANGED <<rev, gen, pipeline, inFlight, held, released, disk, published,
                 budgets, history>>

\* The receipt resolved: check the fence again, then look the effect key up.
\* A command whose effect already runs is not looked up and not started.
LookUp(d) ==
  /\ queue[d] # <<>> /\ at[d] = "durability"
  /\ LET e == Head(queue[d])
     IN /\ IsDurable(e)
        /\ IF e.fenced \/ IsInFlight(e.cmd) THEN Shift(d)
           ELSE at' = [at EXCEPT ![d] = "lookup"] /\ UNCHANGED queue
  /\ UNCHANGED <<rev, gen, pipeline, inFlight, held, released, disk, published,
                 budgets, history>>

\* The receipt rejected: the entry is reported and dropped.
DropRejected(d) ==
  /\ queue[d] # <<>> /\ at[d] = "durability"
  /\ IsRejected(Head(queue[d]))
  /\ Shift(d)
  /\ UNCHANGED <<rev, gen, pipeline, inFlight, held, released, disk, published,
                 budgets, history>>

\* Mutant: one lane for all domains, the next effect waits for the running one.
DispatchOneLane(d) ==
  /\ queue[d] # <<>> /\ at[d] = "lookup" /\ inFlight = {}
  /\ inFlight' = {[cmd |-> Head(queue[d]).cmd, fenced |-> FALSE, marking |-> FALSE]}
  /\ started' = started \cup {Head(queue[d]).cmd}
  /\ Shift(d)
  /\ UNCHANGED <<rev, gen, pipeline, held, released, disk, published, budgets, owed,
                 skipped>>

\* publications.has answered: dispatch and track a command never published.
\* The fence is not read again on this side of the await.
Dispatch(d) ==
  /\ queue[d] # <<>> /\ at[d] = "lookup"
  /\ LET c == Head(queue[d]).cmd
     IN IF c \in published
        THEN UNCHANGED <<inFlight, started>>
        ELSE /\ inFlight' = inFlight \cup {[cmd |-> c, fenced |-> FALSE, marking |-> FALSE]}
             /\ started' = started \cup {c}
  /\ Shift(d)
  /\ UNCHANGED <<rev, gen, pipeline, held, released, disk, published, budgets, owed,
                 skipped>>

\* trackPublication: the effect completed, so its key is marked; only then does
\* the command leave the outbox.
EffectCompletes(e) ==
  /\ ~e.marking
  /\ inFlight' = (inFlight \ {e}) \cup {[e EXCEPT !.marking = TRUE]}
  /\ UNCHANGED <<rev, gen, pipeline, queue, at, held, released, disk, published,
                 budgets, history>>

Marked(e) ==
  /\ e.marking
  /\ published' = published \cup {e.cmd}
  /\ inFlight' = inFlight \ {e}
  /\ owed' = owed \ {e.cmd}
  /\ UNCHANGED <<rev, gen, pipeline, queue, at, held, released, disk, budgets, started,
                 skipped>>

\* The effect or its mark failed: the command is given up, except a timed
\* answer no halt fenced, which is held for the next restore.
EffectFails(e) ==
  LET reheld == ~e.fenced /\ e.cmd.domain \in Redelivered
  IN /\ effectFailures < MaxEffectFailures
     /\ effectFailures' = effectFailures + 1
     /\ inFlight' = inFlight \ {e}
     /\ held' = IF reheld THEN held \cup {e.cmd} ELSE held
     /\ owed' = IF reheld THEN owed ELSE owed \ {e.cmd}
     /\ UNCHANGED <<rev, gen, pipeline, queue, at, released, disk, published,
                    failures, crashes, started, skipped>>
-------------------------------------------------------------------------------
\* The process dies and the task is opened again: hydrate continues from the
\* snapshot with the next revision and generation, and the runtime is built
\* with the stored outbox and the commands hydrate derives, of which only
\* those of the new generation are held.
Derived(D) == {[rev |-> disk.rev + 1, gen |-> disk.gen + 1, domain |-> d,
                hydrated |-> TRUE] : d \in D}

Reopen(D) ==
  /\ crashes < MaxCrashes
  /\ disk.rev < MaxRevision
  /\ crashes' = crashes + 1
  /\ rev' = disk.rev + 1
  /\ gen' = disk.gen + 1
  /\ pending' = NoBatch /\ writing' = NoBatch /\ failed' = NoBatch
  /\ resolved' = {} /\ rejected' = {} /\ told' = <<>>
  /\ queue' = [d \in Domains |-> <<>>] /\ at' = [d \in Domains |-> "next"]
  /\ inFlight' = {}
  /\ held' = {c \in disk.outbox \cup Derived(D) : c.gen = disk.gen + 1}
  /\ released' = FALSE
  /\ owed' = Derived(D) /\ skipped' = {}
  /\ UNCHANGED <<disk, published, failures, effectFailures, started>>

-------------------------------------------------------------------------------
Drain(d) == AwaitDurability(d) \/ LookUp(d) \/ DropRejected(d) \/ Dispatch(d)

Next ==
  \/ \E D \in SUBSET Domains : Submit(D)
  \/ Cancel
  \/ SaveLands \/ SaveFails \/ RetryLands \/ AllowRestored
  \/ \E d \in Domains : Drain(d)
  \/ \E e \in inFlight : EffectCompletes(e) \/ Marked(e) \/ EffectFails(e)
  \/ \E D \in SUBSET Rederived : Reopen(D)

Spec == Init /\ [][Next]_vars

\* What the event loop of the process runs by itself: a write settles, a drain
\* whose await settled continues, the reopened session opens its barrier.  The
\* user's submissions, the failures, the crashes and the completion of an
\* effect are the environment's.
Fairness == /\ WF_vars(SaveLands)
            /\ WF_vars(AllowRestored)
            /\ \A d \in Domains : WF_vars(Drain(d))

FairSpec == Spec /\ Fairness

-------------------------------------------------------------------------------
TypeOK ==
  /\ rev \in Nat /\ gen \in Nat
  /\ pending \in Batch /\ writing \in Batch /\ failed \in Batch
  /\ resolved \subseteq Nat /\ rejected \subseteq Nat
  /\ queue \in [Domains -> Seq(Entry)]
  /\ at \in [Domains -> {"next", "durability", "lookup"}]
  /\ inFlight \subseteq Effect /\ held \subseteq Command
  /\ released \in BOOLEAN
  /\ disk \in [rev : Nat, gen : Nat, outbox : SUBSET Command]
  /\ published \subseteq Command /\ told \in Seq(Nat)
  /\ failures \in Nat /\ effectFailures \in Nat /\ crashes \in Nat
  /\ started \subseteq Command /\ owed \subseteq Command /\ skipped \subseteq Command

\* No effect runs before the revision that issued it is on disk: a crash can
\* repeat work the snapshot asks for, and never has done work it knows nothing
\* of.  A command hydrate derived belongs to the revision after the snapshot.
StartedIsDurable ==
  \A c \in started : c.rev <= disk.rev \/ (c.hydrated /\ c.rev <= disk.rev + 1)

\* A receipt that resolved speaks of a revision on disk, also when the write
\* that made it durable was a later one that absorbed it.
ReceiptsAreTrue == \A r \in resolved : r <= disk.rev

\* The view is told of every revision once, in order, and never of one that a
\* crash could still take back, also when a failed batch is retried.
ViewInOrder ==
  /\ \A i \in 1..(Len(told) - 1) : told[i + 1] = told[i] + 1
  /\ told # <<>> => told[Len(told)] = disk.rev

\* One effect per key: the drain checks for a running effect before the lookup
\* of the publication store and starts the effect after it, and nothing else
\* has started that effect meanwhile.
OneEffectPerKey ==
  /\ \A d \in Domains : at[d] = "lookup" /\ queue[d] # <<>>
       => ~IsInFlight(Head(queue[d]).cmd)
  /\ \A e, f \in inFlight : e.cmd = f.cmd => e = f

\* A command the runtime still has to carry out.  A reopening can derive the
\* command of an earlier one again, whose effect is done; and a command the
\* restore of a retried write passed over is lost (DurableCommandOutbox.ts:98).
Due == owed \ (published \cup skipped)

Carried(c) ==
  \/ c \in held
  \/ IsInFlight(c)
  \/ \E e \in AllPending : e.cmd = c /\ ~e.fenced /\ ~IsRejected(e)
  \/ failed # NoBatch /\ c \in failed.outbox

\* No accepted command disappears: until its effect settles or a halt fences it,
\* it is held, queued behind a receipt that can still resolve, in flight, or in
\* the failed snapshot the next event has to retry.  The one exception is the
\* restore that finds a refused entry of the command in a queue.
CommandsAccounted == \A c \in Due : Carried(c)

\* The snapshot on disk carries every command it owes, also when it is the
\* failed one written again: no write lets go of a command that still has to run.
SnapshotCarriesOwed ==
  \A c \in Due : c.rev <= disk.rev => c \in disk.outbox

\* The commands of revision r for domain d that are due and did not start yet.
Outstanding(r, d) ==
  {c \in Due \ started : c.rev = r /\ c.domain = d}

\* A queued command reaches its effect, its fence or its end even when no effect
\* ever completes: a lane never waits for another lane's effect.  Only a failed
\* write stops it, until the next event has it written again.
LanesAreIndependent ==
  \A r \in 1..MaxRevision, d \in Domains :
     []<>(Outstanding(r, d) = {} \/ failed # NoBatch)

\* The runtime keeps the promises of the abstract specification.
Promise == INSTANCE WriteAhead WITH
             Commands <- Command, accepted <- rev, landed <- disk.rev
KeepsWriteAhead == Promise!WASpec
===============================================================================
