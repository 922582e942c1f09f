----------------------------- MODULE SubagentJobs -----------------------------
(* Background subagents: the budget they share, their jobs, their rows in   *)
(* the activity panel, and what they report to the conversation.            *)
(*                                                                          *)
(* A job queues at the task's gate, runs under a permit, and keeps the      *)
(* permit while a tool it abandoned still works, for at most thirty         *)
(* seconds; after that the permit goes back and one unit of the limit is    *)
(* withheld until the tool stops.  The user cancels and retries jobs from   *)
(* the panel, changes the limit, and closes the task.  A settled job or     *)
(* batch is published unless it can be retried.                             *)
(*                                                                          *)
(* Runs, the panel's calls, tools that outlive their run and the row a      *)
(* status callback awaits before it publishes interleave freely.  A run     *)
(* makes one tool call, the last one of its transcript; what a run is told  *)
(* to finish early (Finish, timeout, context pressure) only changes what    *)
(* its result says, and is one of the ways a run ends.                      *)
EXTENDS Integers, FiniteSets, Sequences, SequencesExt, FiniteSetsExt

CONSTANTS Singles,      \* jobs started by use_subagent in the background
          Batch,        \* items of one background batch
          Limits,       \* values the parallelism setting may take
          MaxAttempts   \* bound on the attempts of a job

Jobs == Singles \cup Batch

ASSUME JobsAssumption == Singles \cap Batch = {} /\ IsFiniteSet(Jobs)
ASSUME LimitsAssumption == Limits \subseteq Nat \ {0}
ASSUME AttemptsAssumption == MaxAttempts \in Nat \ {0}

VARIABLES job,        \* the manager's record of each job
          batch,      \* the manager's status of the batch
          run,        \* how far the current attempt of each job is
          outcome,    \* what a run that has ended returned
          aborted,    \* the runner's abortRequested
          tool,       \* the tool call of the current run
          leftover,   \* tools a runner abandoned and nobody is charged for
          claimed,    \* tools a runner abandoned that the gate is charged for
          waiters,    \* the gate's queue
          withheld,   \* allowance the gate withholds
          limit,      \* the configured limit
          row,        \* status of each job's row in the activity panel
          cancels,    \* cancellations that await their canceller
          retrier,    \* rows that offer Retry
          notices,    \* status callbacks that await their message
          published   \* what each published entry said of its jobs

gateVars   == <<waiters, withheld, limit>>
runnerVars == <<run, outcome, aborted, tool, leftover, claimed>>
panelVars  == <<row, cancels, retrier>>
vars == <<job, batch, gateVars, runnerVars, panelVars, notices, published>>

Recoverable == {"failed", "cancelled"}
NoOutcome   == [st |-> "none", retryable |-> FALSE]
NoJob       == [st |-> "none", retryable |-> FALSE, attempt |-> 0]

-----------------------------------------------------------------------------
(* The gate.                                                               *)

\* Jobs that hold a permit.
Holders == {j \in Jobs : run[j] \in {"running", "unwinding"}}

\* The limit less what is withheld.
Allowance(lim, off) == IF lim > off THEN lim - off ELSE 0

\* How many waiters are admitted, given who still holds a permit.
Admitted(queue, holders, lim, off) ==
    LET room == Allowance(lim, off) - Cardinality(holders)
    IN  IF room <= 0 THEN 0 ELSE IF room < Len(queue) THEN room ELSE Len(queue)

\* Mutant: a late report revives a cancelled row.
ShownAnyway(j, st) == st

\* A row that was cancelled takes no other status, except from Retry.
Shown(j, st) == IF row[j] = "cancelled" THEN row[j] ELSE st

\* Admission of the queue's first waiters.  The run starts with its permit: it
\* resets abortRequested and reports that it is running.  `old` is the run
\* state the caller leaves behind.
Admit(queue, old, lim, off) ==
    LET n == Admitted(queue, {j \in Jobs : old[j] \in {"running", "unwinding"}}, lim, off)
        started == {queue[i] : i \in 1..n}
    IN  /\ waiters' = SubSeq(queue, n + 1, Len(queue))
        /\ run' = [j \in Jobs |-> IF j \in started THEN "running" ELSE old[j]]
        /\ aborted' = [j \in Jobs |-> aborted[j] /\ j \notin started]
        /\ UNCHANGED tool

\* The rows of the jobs a step admits, over what the step itself shows.
RowsAfter(rows) ==
    row' = [j \in Jobs |-> IF run'[j] = "running" /\ run[j] # "running" /\ rows[j] # "cancelled"
                           THEN "running" ELSE rows[j]]

-----------------------------------------------------------------------------
Init ==
    /\ job = [j \in Jobs |-> NoJob]
    /\ batch = "none"
    /\ run = [j \in Jobs |-> "none"]
    /\ outcome = [j \in Jobs |-> NoOutcome]
    /\ aborted = [j \in Jobs |-> FALSE]
    /\ tool = [j \in Jobs |-> "unused"]
    /\ leftover = [j \in Jobs |-> 0]
    /\ claimed = [j \in Jobs |-> 0]
    /\ waiters = <<>>
    /\ withheld = 0
    /\ limit \in Limits
    /\ row = [j \in Jobs |-> "none"]
    /\ cancels = {}
    /\ retrier = {}
    /\ notices = {}
    /\ published = [e \in {} |-> {}]

\* Jobs are recorded and given their rows, then queue for a permit in order.
StartJobs(new) ==
    LET queue == waiters \o SetToSeq(new)
        old   == [j \in Jobs |-> IF j \in new THEN "queued" ELSE run[j]]
    IN  /\ \A j \in new : job[j].st = "none"
        /\ job' = [j \in Jobs |-> IF j \in new
                                  THEN [st |-> "running", retryable |-> FALSE, attempt |-> 1]
                                  ELSE job[j]]
        /\ Admit(queue, old, limit, withheld)
        /\ RowsAfter([j \in Jobs |-> IF j \in new THEN "running" ELSE row[j]])
        /\ UNCHANGED <<outcome, leftover, claimed, withheld, limit, cancels, retrier,
                       notices, published>>

StartJob(j) == j \in Singles /\ StartJobs({j}) /\ UNCHANGED batch

StartBatch == Batch # {} /\ StartJobs(Batch) /\ batch' = "running"

\* The setting changes and the task's gate is told.
SetLimit(n) ==
    /\ n # limit
    /\ limit' = n
    /\ Admit(waiters, run, n, withheld)
    /\ RowsAfter(row)
    /\ UNCHANGED <<job, batch, outcome, leftover, claimed, withheld, cancels, retrier,
                   notices, published>>

-----------------------------------------------------------------------------
(* A run.                                                                  *)

\* The run starts its tool call and reports progress.
StartTool(j) ==
    /\ run[j] = "running"
    /\ tool[j] = "unused"
    /\ tool' = [tool EXCEPT ![j] = "working"]
    /\ row' = [row EXCEPT ![j] = Shown(j, "running")]
    /\ UNCHANGED <<job, batch, gateVars, run, outcome, aborted, leftover, claimed,
                   cancels, retrier, notices, published>>

\* The tool call returns to the run that waits for it.
ToolReturns(j) ==
    /\ run[j] = "running"
    /\ tool[j] = "working"
    /\ tool' = [tool EXCEPT ![j] = "done"]
    /\ UNCHANGED <<job, batch, gateVars, run, outcome, aborted, leftover, claimed,
                   panelVars, notices, published>>

\* The run ends with result `res` and shows it before its job settles.
Ends(j, res) ==
    /\ run' = [run EXCEPT ![j] = "unwinding"]
    /\ outcome' = [outcome EXCEPT ![j] = res]
    /\ tool' = [tool EXCEPT ![j] = "unused"]
    /\ row' = [row EXCEPT ![j] = Shown(j, res.st)]
    /\ UNCHANGED <<job, batch, gateVars, aborted, claimed, cancels, retrier,
                   notices, published>>

RunEnds(j) ==
    /\ run[j] = "running"
    /\ tool[j] # "working"
    /\ \E res \in {[st |-> "completed", retryable |-> FALSE]}
                  \cup [st : {"failed"}, retryable : {FALSE, ~aborted[j]}] : Ends(j, res)
    /\ UNCHANGED leftover

\* The run meets its abort; a tool call it was waiting for is abandoned.
RunCancelled(j) ==
    /\ run[j] = "running"
    /\ aborted[j]
    /\ Ends(j, [st |-> "cancelled", retryable |-> TRUE])
    /\ leftover' = [leftover EXCEPT ![j] = @ + IF tool[j] = "working" THEN 1 ELSE 0]

\* Mutant: the allowance returns, but nobody looks at the queue.
ToolStopsQuietly(j) ==
    \/ /\ leftover[j] > 0
       /\ leftover' = [leftover EXCEPT ![j] = @ - 1]
       /\ UNCHANGED <<job, batch, gateVars, run, outcome, aborted, tool, claimed,
                      panelVars, notices, published>>
    \/ /\ claimed[j] > 0
       /\ claimed' = [claimed EXCEPT ![j] = @ - 1]
       /\ withheld' = withheld - 1
       /\ UNCHANGED <<job, batch, waiters, limit, run, outcome, aborted, tool, leftover,
                      panelVars, notices, published>>

\* A tool that outlived its run stops; if the gate was charged, the allowance
\* returns and the queue moves.
ToolStops(j) ==
    \/ /\ leftover[j] > 0
       /\ leftover' = [leftover EXCEPT ![j] = @ - 1]
       /\ UNCHANGED <<job, batch, gateVars, run, outcome, aborted, tool, claimed,
                      panelVars, notices, published>>
    \/ /\ claimed[j] > 0
       /\ claimed' = [claimed EXCEPT ![j] = @ - 1]
       /\ withheld' = withheld - 1
       /\ Admit(waiters, run, limit, withheld - 1)
       /\ RowsAfter(row)
       /\ UNCHANGED <<job, batch, outcome, leftover, limit, cancels, retrier,
                      notices, published>>

-----------------------------------------------------------------------------
(* A job settles.                                                          *)

\* The manager's status of the batch, after its records are `jobs`.
BatchStatus(jobs) ==
    CASE \E i \in Batch : jobs[i].st = "running"   -> "running"
      [] \E i \in Batch : jobs[i].st = "failed"    -> "failed"
      [] \E i \in Batch : jobs[i].st = "cancelled" -> "cancelled"
      [] OTHER -> "completed"

\* Mutant: a failure the user may retry is reported too.
ReportingEarly(j, bst) ==
    {[job |-> j, attempt |-> job[j].attempt, batch |-> IF j \in Batch THEN bst ELSE "none"]}

\* What the callback will publish from: copies of the record and of the batch.
\* It publishes nothing for a result that can be retried.
Reporting(j, bst) ==
    IF outcome[j].retryable THEN {}
    ELSE {[job |-> j, attempt |-> job[j].attempt, batch |-> IF j \in Batch THEN bst ELSE "none"]}

\* The permit goes back, the record takes the result, and the status callback
\* updates the row, offers Retry or withdraws it, and awaits its message.
Settled(j, off) ==
    LET new == [job EXCEPT ![j].st = outcome[j].st, ![j].retryable = outcome[j].retryable]
        old == [run EXCEPT ![j] = "done"]
        bst == IF j \in Batch THEN BatchStatus(new) ELSE batch
        shown == [row EXCEPT ![j] = Shown(j, outcome[j].st)]
    IN  /\ job' = new
        /\ batch' = bst
        /\ Admit(waiters, old, limit, off)
        /\ RowsAfter(shown)
        /\ retrier' = IF outcome[j].retryable THEN retrier \cup {j} ELSE retrier \ {j}
        /\ notices' = notices \cup Reporting(j, bst)
        /\ outcome' = [outcome EXCEPT ![j] = NoOutcome]
        /\ UNCHANGED <<limit, cancels, published>>

\* Mutant: the permit goes back while an abandoned tool still works.
SettleUnwaited(j) ==
    /\ run[j] = "unwinding"
    /\ Settled(j, withheld)
    /\ UNCHANGED <<leftover, claimed, withheld>>

\* Every tool the runner abandoned has stopped.
Settle(j) ==
    /\ run[j] = "unwinding"
    /\ leftover[j] + claimed[j] = 0
    /\ Settled(j, withheld)
    /\ UNCHANGED <<leftover, claimed, withheld>>

\* Mutant: a tool an earlier attempt was charged for is charged again.
GiveUpWaitingTwice(j) ==
    /\ run[j] = "unwinding"
    /\ leftover[j] + claimed[j] > 0
    /\ claimed' = [claimed EXCEPT ![j] = @ + leftover[j]]
    /\ leftover' = [leftover EXCEPT ![j] = 0]
    /\ withheld' = withheld + 1
    /\ Settled(j, withheld + 1)

\* Thirty seconds have passed: what nobody is charged for yet is claimed once.
GiveUpWaiting(j) ==
    LET charge == IF leftover[j] > 0 THEN 1 ELSE 0
    IN  /\ run[j] = "unwinding"
        /\ leftover[j] + claimed[j] > 0
        /\ claimed' = [claimed EXCEPT ![j] = @ + leftover[j]]
        /\ leftover' = [leftover EXCEPT ![j] = 0]
        /\ withheld' = withheld + charge
        /\ Settled(j, withheld + charge)

\* What an entry says of its jobs: their status and attempt.
Report(items) == {[job |-> i, st |-> job[i].st, attempt |-> job[i].attempt] : i \in items}

SingleEntry(n) == [items |-> {n.job}, attempt |-> n.attempt]
BatchEntry     == [items |-> Batch, attempt |-> Max({job[i].attempt : i \in Batch})]

\* Mutant: only a batch that succeeded is reported.
ReportableSuccess(n) == n.job \in Batch => n.batch = "completed"

\* Nothing is published while the copy of the batch runs, or an item of the
\* batch can be retried.
Reportable(n) == n.job \in Batch => n.batch # "running" /\ \A i \in Batch : ~job[i].retryable

EntryOf(n) == IF n.job \in Batch THEN BatchEntry ELSE SingleEntry(n)

\* The message is out; the callback publishes.  An entry that exists already is
\* kept as it is: the same text is a duplicate, another one is refused.
Publish(n) ==
    LET new == IF Reportable(n) THEN {EntryOf(n)} \ DOMAIN published ELSE {}
    IN  /\ n \in notices
        /\ notices' = notices \ {n}
        /\ published' = [e \in DOMAIN published \cup new |->
                            IF e \in new THEN Report(e.items) ELSE published[e]]
        /\ UNCHANGED <<job, batch, gateVars, runnerVars, panelVars>>

-----------------------------------------------------------------------------
(* The panel.                                                              *)

\* Cancellation of the rows that run among `js`: one row, or all of them when the
\* task closes.  A canceller returns at once unless a command of its run has to
\* be stopped first.
Cancel(js) ==
    LET slow == {j \in js : run[j] = "running" /\ tool[j] = "working"}
    IN  /\ js # {}
        /\ \A j \in js : row[j] = "running"
        /\ row' = [j \in Jobs |-> IF j \in slow THEN "cancelling"
                                  ELSE IF j \in js THEN "cancelled" ELSE row[j]]
        /\ aborted' = [j \in Jobs |-> aborted[j] \/ j \in js]
        /\ cancels' = cancels \cup slow
        /\ UNCHANGED <<job, batch, gateVars, run, outcome, tool, leftover, claimed, retrier,
                       notices, published>>

\* The canceller returns and the row is marked, even if its run completed.
CancelReturns(j) ==
    /\ j \in cancels
    /\ cancels' = cancels \ {j}
    /\ row' = [row EXCEPT ![j] = Shown(j, "cancelled")]
    /\ UNCHANGED <<job, batch, gateVars, runnerVars, retrier, notices, published>>

\* The job of a row that offers Retry queues again on the same runner.  A job
\* whose record cannot be retried is left as it was.
Retry(j) ==
    LET old == [run EXCEPT ![j] = "queued"]
    IN  /\ j \in retrier
        /\ row[j] \in Recoverable
        /\ job[j].st \in Recoverable /\ job[j].retryable
        /\ job[j].attempt < MaxAttempts
        /\ job' = [job EXCEPT ![j] = [st |-> "running", retryable |-> FALSE, attempt |-> @.attempt + 1]]
        /\ batch' = IF j \in Batch THEN "running" ELSE batch
        /\ Admit(Append(waiters, j), old, limit, withheld)
        /\ RowsAfter([row EXCEPT ![j] = "running"])
        /\ UNCHANGED <<outcome, leftover, claimed, withheld, limit, cancels, retrier,
                       notices, published>>

-----------------------------------------------------------------------------
Next ==
    \/ StartBatch
    \/ \E js \in SUBSET Jobs : Cancel(js)
    \/ \E n \in Limits : SetLimit(n)
    \/ \E n \in notices : Publish(n)
    \/ \E j \in Jobs :
          \/ StartJob(j)
          \/ StartTool(j)
          \/ ToolReturns(j)
          \/ RunEnds(j)
          \/ RunCancelled(j)
          \/ ToolStops(j)
          \/ Settle(j)
          \/ GiveUpWaiting(j)
          \/ CancelReturns(j)
          \/ Retry(j)

Spec == Init /\ [][Next]_vars

\* A run ends, a tool stops, a timer fires, a message goes out.
Fairness ==
    /\ \A j \in Jobs :
          /\ WF_vars(ToolReturns(j) \/ RunEnds(j) \/ RunCancelled(j) \/ Settle(j) \/ GiveUpWaiting(j))
          /\ WF_vars(ToolStops(j))
          /\ WF_vars(\E n \in notices : n.job = j /\ Publish(n))

FairSpec == Spec /\ Fairness

-----------------------------------------------------------------------------
(* Properties.                                                             *)

\* Runs and tools that use the resources the limit protects.
LiveWork == Cardinality({j \in Jobs : run[j] = "running"}) + SumFunction(leftover) + SumFunction(claimed)

\* A job is admitted only while the runs and the tools that outlived their run,
\* taken together, stay within the limit, whatever was cancelled, retried or
\* given up before (BoundedGate, runBudgetedSubagent).
WorkWithinLimit ==
    [][(\E j \in Jobs : run[j] # "running" /\ run'[j] = "running") => LiveWork' <= limit']_vars

\* The gate withholds exactly as much as there are escaped tools that still
\* work: nothing is charged twice by a retry on the same runner, and nothing is
\* forgiven or kept (claimOutstandingAbandonedWork, withholdCapacity).
ChargedForLiveTools == withheld = SumFunction(claimed)

\* Nobody waits at the gate while it has room: every release, every tool that
\* stops and every new limit moves the queue (admitWaiters).
NobodyWaitsBesideRoom ==
    waiters # <<>> => Cardinality(Holders) + withheld >= limit

\* What is published of a single job is its last word: it has ended, it cannot
\* be retried, and it made no attempt since (publishSubagentSettlement).
PublishedIsLast ==
    \A e \in DOMAIN published : \A j \in Singles :
        e.items = {j} => /\ ~job[j].retryable
                         /\ published[e] = Report({j})
                         /\ run[j] = "done"

\* A row that says cancelled leaves that status only when the
\* user retries the job: no late progress or result revives it (applyUpdate).
OnlyRetryRevives ==
    [][\A j \in Jobs : row[j] = "cancelled" /\ row'[j] # row[j]
                          => job'[j].attempt = job[j].attempt + 1]_vars

\* Every job started comes to a result that is published, alone or with its
\* batch, or an item can be retried: no wait for a permit, for an abandoned tool
\* or for a message lasts for ever.
EveryJobReports ==
    /\ \A j \in Singles :
          job[j].st = "running" ~> \/ job[j].retryable
                                   \/ SingleEntry([job |-> j, attempt |-> job[j].attempt]) \in DOMAIN published
    /\ batch = "running" ~> \/ \E i \in Batch : job[i].retryable
                            \/ BatchEntry \in DOMAIN published

\* A job the user cancelled does not start: "its own job cancellation, not the
\* parent turn's abort, ends it" (SubagentToolHandler.ts:965).
CancelledDoesNotStart ==
    [][\A j \in Jobs : run[j] = "queued" /\ run'[j] = "running" => row[j] # "cancelled"]_vars

=============================================================================
