------------------------------ MODULE HaltBarrier ------------------------------
(***************************************************************************)
(* Stopping a task: the kernel's halt barrier, the halt executor that      *)
(* fences, stops and drains the participants, the shell calls that cancel  *)
(* or terminate, and the rounds and dialogs the barrier interrupts.        *)
(*                                                                         *)
(* A step is what the code does between two awaits.  Three executors do    *)
(* work: compose and provider, which together run one round, and dialog,   *)
(* whose prepare and reveal are one piece of work.  Writes and receipts    *)
(* of durability are the matter of TaskRuntime and are left out; what      *)
(* remains of an outbox lane is its queue and the publication lookup that  *)
(* precedes a dispatch.  The answer to an open dialog is one step with the *)
(* submission it leads to.                                                 *)
(***************************************************************************)
EXTENDS Naturals, Sequences, FiniteSets

CONSTANTS Participants, \* what a halt waits for; the three executors are among them
          Halts,        \* halt identities, one for each cancel or terminate call
          NoHalt,       \* no halt
          Slow,         \* executors that may miss the halt deadline
          Hung,         \* executors that may never return from an aborted effect
          MaxRounds     \* bound on the rounds submitted

Executors == {"compose", "provider", "dialog"}
Round     == {"compose", "provider"}

ASSUME BarrierAssumption == /\ Executors \subseteq Participants
                            /\ NoHalt \notin Halts
                            /\ Slow \subseteq Executors
                            /\ Hung \subseteq Slow
                            /\ MaxRounds \in Nat

VARIABLES
  gen, phase,   \* the kernel's generation and flow phase ("active" stands for
                \* every phase but paused and terminated)
  halt,         \* the kernel's halt slice; an idle one has id NoHalt
  owner,        \* per executor, the command the kernel holds as running
  primary,      \* the primary dialog: none, planned or open
  issued,       \* how many commands were issued
  rounds,       \* how many rounds were submitted
  queued,       \* per executor, its outbox lane
  lookup,       \* per executor, the command its lane looks up before dispatch
  stops,        \* the halt.stop commands not dispatched yet
  overtaken,    \* history: what the lanes held when a late rearm last lifted the
                \* fences, until the next stop is dispatched
  fence,        \* fencedHaltId of each participant
  active,       \* per executor, the effect that runs
  run,          \* HaltCommandExecutor.run of each halt, per participant
  awaited,      \* the effect the drain of each halt awaits, per executor
  forceClosed,  \* forcedClosedHaltIds
  call          \* the shell call that brought each halt identity

kernel == <<gen, phase, halt, owner, primary, issued, rounds>>
lanes  == <<queued, lookup, stops, overtaken>>
vars   == <<kernel, lanes, fence, active, run, awaited, forceClosed, call>>

-------------------------------------------------------------------------------
Command == [id : Nat, gen : Nat]
NoCmd   == [id |-> 0, gen |-> 0]
Effect  == [cmd : Command, aborted : BOOLEAN]
Idle    == [cmd |-> NoCmd, aborted |-> FALSE]

IdleHalt == [id |-> NoHalt, target |-> "paused", pending |-> {}]
Stopping == halt.id # NoHalt

NextCmd == [id |-> issued + 1, gen |-> gen]

\* The commands in the lanes of these executors.
InLanes(D) ==
  UNION {({lookup[d]} \ {NoCmd}) \cup {queued[d][i] : i \in DOMAIN queued[d]} : d \in D}

\* Mutant: only a running compose counts as an active round.
HasActiveCompose == owner["compose"] # NoCmd

HasActiveRound == \E d \in Round : owner[d] # NoCmd

\* Mutant: a participant is drained as soon as it was told to stop.
DrainedUnawaited(h, p) == run[h][p] # "none"

\* The drain of a halt is over when the effect it found running has returned.
Drained(h, p) ==
  p \in Executors => \/ awaited[h][p] = NoCmd
                     \/ active[p].cmd # awaited[h][p]

\* The completion of halt.stop, which rejects on the first rejected receipt.
RunFailed(h) == \E p \in Participants : run[h][p] = "rejected"

\* Mutant: a rejected halt.stop stays in the router for good.
RunEndedAccepted(h) ==
  ~RunFailed(h) /\ \A p \in Participants : run[h][p] # "draining"

RunEnded(h)  == \/ RunFailed(h)
                \/ \A p \in Participants : run[h][p] # "draining"

\* whenIdle: no lane drains and no effect it tracks is under way.
OutboxIdle ==
  \A d \in Round : queued[d] = <<>> /\ lookup[d] = NoCmd /\ active[d] = Idle

\* Mutant: a command between its lookup and its dispatch is overlooked.
QuiescentBlind == /\ stops = {}
                  /\ \A d \in Executors : queued[d] = <<>> /\ active[d] = Idle
                  /\ \A h \in Halts : RunEnded(h)

\* waitForQuiescence: lanes, publications and dispatches are all idle.
Quiescent == /\ stops = {}
             /\ \A d \in Executors :
                  queued[d] = <<>> /\ lookup[d] = NoCmd /\ active[d] = Idle
             /\ \A h \in Halts : RunEnded(h)

-------------------------------------------------------------------------------
\* Initially an opened task with nothing under way.
Init ==
  /\ gen = 0 /\ phase = "active" /\ halt = IdleHalt
  /\ owner = [d \in Executors |-> NoCmd] /\ primary = "none" /\ issued = 0 /\ rounds = 0
  /\ queued = [d \in Executors |-> <<>>] /\ lookup = [d \in Executors |-> NoCmd]
  /\ stops = {} /\ overtaken = {} /\ fence = [p \in Participants |-> NoHalt]
  /\ active = [d \in Executors |-> Idle]
  /\ run = [h \in Halts |-> [p \in Participants |-> "none"]]
  /\ awaited = [h \in Halts |-> [d \in Executors |-> NoCmd]]
  /\ forceClosed = {}
  /\ call = [h \in Halts |-> [at |-> "unused", kind |-> "cancel", early |-> FALSE,
                              late |-> FALSE, force |-> NoHalt]]

\* A fenced executor resolves a command at once, and a busy one refuses it:
\* either way the command is never run.
Run(d, c) ==
  active' = IF fence[d] = NoHalt /\ active[d] = Idle
            THEN [active EXCEPT ![d] = [cmd |-> c, aborted |-> FALSE]]
            ELSE active

\* dialog.requested, and the error dialog of a failed round: dialog.prepare is
\* dispatched as soon as it is committed.
OpenDialog(base) ==
  /\ issued' = issued + 1
  /\ primary' = "planned"
  /\ owner' = [base EXCEPT !["dialog"] = NextCmd]

\* user.submit: it ends a pause, and opens a round unless one is under way.
Submit ==
  /\ phase # "terminated"
  /\ rounds < MaxRounds
  /\ ~HasActiveRound
  /\ phase' = "active"
  /\ primary' = IF primary = "open" THEN "none" ELSE primary
  /\ issued' = issued + 1
  /\ rounds' = rounds + 1
  /\ owner' = [owner EXCEPT !["compose"] = NextCmd]
  /\ queued' = [queued EXCEPT !["compose"] = Append(@, NextCmd)]
  /\ UNCHANGED <<gen, halt, lookup, stops, overtaken, fence, active, run, awaited,
                 forceClosed, call>>

\* A lane passed the durability and fence checks of its head and looks it up.
LookUp(d) ==
  /\ queued[d] # <<>> /\ lookup[d] = NoCmd
  /\ lookup' = [lookup EXCEPT ![d] = Head(queued[d])]
  /\ queued' = [queued EXCEPT ![d] = Tail(@)]
  /\ UNCHANGED <<kernel, stops, overtaken, fence, active, run, awaited, forceClosed, call>>

Dispatch(d) ==
  /\ lookup[d] # NoCmd
  /\ Run(d, lookup[d])
  /\ lookup' = [lookup EXCEPT ![d] = NoCmd]
  /\ UNCHANGED <<kernel, queued, stops, overtaken, fence, run, awaited, forceClosed, call>>

\* Feedback is accepted from the running owner of this generation only.
Accepts(d, c) ==
  /\ c.gen = gen /\ owner[d] = c
  /\ d \in Round => ~Stopping /\ phase = "active"

Unfinished(d) == active[d] # Idle /\ ~active[d].aborted
Settled(d)    == [owner EXCEPT ![d] = NoCmd]
Returned(d)   == [active EXCEPT ![d] = Idle]

\* compose.completed derives provider.start.
ComposeCompletes ==
  /\ Unfinished("compose") /\ Accepts("compose", active["compose"].cmd)
  /\ issued' = issued + 1
  /\ owner' = [Settled("compose") EXCEPT !["provider"] = NextCmd]
  /\ queued' = [queued EXCEPT !["provider"] = Append(@, NextCmd)]
  /\ active' = Returned("compose")
  /\ UNCHANGED <<gen, phase, halt, primary, rounds, lookup, stops, overtaken, fence, run,
                 awaited, forceClosed, call>>

\* provider.turn_ready ends the round; dialog.presented opens the dialog.
EffectCompletes(d) ==
  /\ d # "compose" /\ Unfinished(d) /\ Accepts(d, active[d].cmd)
  /\ owner' = Settled(d)
  /\ primary' = IF d = "dialog" THEN "open" ELSE primary
  /\ active' = Returned(d)
  /\ UNCHANGED <<gen, phase, halt, issued, rounds, lanes, fence, run, awaited,
                 forceClosed, call>>

\* compose.failed and provider.failed open an error dialog if none is open.
RoundFails(d) ==
  /\ d \in Round /\ Unfinished(d) /\ Accepts(d, active[d].cmd)
  /\ \/ /\ primary = "none"
        /\ OpenDialog(Settled(d))
        /\ active' = [Returned(d) EXCEPT !["dialog"] =
                        IF fence["dialog"] = NoHalt
                        THEN [cmd |-> NextCmd, aborted |-> FALSE] ELSE @]
     \/ /\ primary # "none"
        /\ owner' = Settled(d)
        /\ active' = Returned(d)
        /\ UNCHANGED <<primary, issued>>
  /\ UNCHANGED <<gen, phase, halt, rounds, lanes, fence, run, awaited, forceClosed, call>>

\* An aborted effect reports nothing, and late feedback is rejected.
EffectReturns(d) ==
  /\ active[d] # Idle
  /\ active[d].aborted \/ ~Accepts(d, active[d].cmd)
  /\ active' = Returned(d)
  /\ UNCHANGED <<kernel, lanes, fence, run, awaited, forceClosed, call>>

-------------------------------------------------------------------------------
\* user.cancel and user.terminate on a task that is not stopping: halt.stop is
\* queued, and what was queued before it is fenced.
StartHalt(h, target) ==
  /\ gen' = gen + 1
  /\ halt' = [id |-> h, target |-> target, pending |-> Participants]
  /\ stops' = stops \cup {h}
  /\ queued' = [d \in Executors |-> <<>>]
  /\ UNCHANGED <<phase, owner, overtaken>>

\* The barrier is complete: the task takes its target phase and the round's
\* owners are cancelled.
Complete(target) ==
  /\ phase' = target
  /\ halt' = IdleHalt
  /\ owner' = [d \in Executors |-> IF d \in Round THEN NoCmd ELSE owner[d]]

\* user.terminate on a stopping task closes the barrier at once.  It fences
\* nothing: behind fences that are lifted already the lanes go on.
Escalate ==
  /\ gen' = gen + 1
  /\ Complete("terminated")
  /\ overtaken' = overtaken \cup InLanes({d \in Executors : fence[d] = NoHalt})
  /\ UNCHANGED <<stops, queued>>

\* TaskShell.haltTask up to its first await.  The controller sends one cancel
\* at a time (controller/index.ts:2449); a cancel returns to it before it
\* finishes a halt whose participants timed out.
Cancel(h) ==
  /\ call[h].at = "unused"
  /\ \A o \in Halts : \/ call[o].kind = "terminate" \/ call[o].late
                      \/ call[o].at \in {"unused", "done", "threw"}
  /\ ~Stopping /\ phase # "terminated"
  /\ StartHalt(h, "paused")
  /\ call' = [call EXCEPT ![h].at = "stopping"]
  /\ UNCHANGED <<primary, issued, rounds, lookup, fence, active, run, awaited, forceClosed>>

Terminate(h) ==
  /\ call[h].at = "unused" /\ phase # "terminated"
  /\ \/ /\ ~Stopping
        /\ StartHalt(h, "terminated")
        /\ call' = [call EXCEPT ![h] = [@ EXCEPT !.at = "stopping", !.kind = "terminate"]]
     \/ /\ Stopping
        /\ Escalate
        /\ call' = [call EXCEPT ![h] = [@ EXCEPT !.at = "quiescing", !.kind = "terminate",
                                                 !.force = halt.id]]
  /\ UNCHANGED <<primary, issued, rounds, lookup, fence, active, run, awaited, forceClosed>>

\* HaltCommandExecutor.run: every participant is fenced before any is stopped.
DispatchStop(h) ==
  /\ h \in stops
  /\ stops' = stops \ {h}
  /\ fence' = [p \in Participants |-> h]
  /\ active' = [d \in Executors |->
                  IF active[d] = Idle THEN Idle ELSE [active[d] EXCEPT !.aborted = TRUE]]
  /\ run' = [run EXCEPT ![h] = [p \in Participants |-> "draining"]]
  /\ awaited' = [awaited EXCEPT ![h] = [d \in Executors |-> active[d].cmd]]
  /\ overtaken' = {}
  /\ UNCHANGED <<kernel, queued, lookup, forceClosed, call>>

\* halt.halted or halt.failed: the barrier counts both the same way.
Receipt(h, p) ==
  /\ halt.id = h /\ p \in halt.pending
  /\ IF halt.pending = {p} THEN Complete(halt.target)
     ELSE /\ halt' = [halt EXCEPT !.pending = @ \ {p}]
          /\ UNCHANGED <<phase, owner>>

\* The first refused receipt rejects halt.stop, and with it the
\* waitForQuiescence of every call that had got past the outbox by then.
Refused(h, p) ==
  /\ run' = [run EXCEPT ![h][p] = "rejected"]
  /\ \E W \in SUBSET {o \in Halts : /\ ~RunFailed(h) /\ OutboxIdle
                                    /\ call[o].at \in {"quiescing", "late_quiescing"}} :
       call' = [o \in Halts |-> IF o \in W THEN [call[o] EXCEPT !.at = "threw"] ELSE call[o]]

Acknowledge(h, p) ==
  /\ run[h][p] = "draining" /\ Drained(h, p)
  /\ \/ Receipt(h, p) /\ run' = [run EXCEPT ![h][p] = "acknowledged"] /\ UNCHANGED call
     \/ /\ halt.id # h \/ p \notin halt.pending
        /\ Refused(h, p)
        /\ UNCHANGED <<phase, halt, owner>>
  /\ UNCHANGED <<gen, primary, issued, rounds, lanes, fence, active, awaited, forceClosed>>

\* Mutant: a missed deadline counts as an acknowledgement.
TimeOutCounts(h, p) ==
  /\ p \in Slow /\ run[h][p] = "draining" /\ ~Drained(h, p)
  /\ run' = [run EXCEPT ![h][p] = "timed_out"]
  /\ IF halt.id = h THEN Receipt(h, p) ELSE UNCHANGED <<phase, halt, owner>>
  /\ UNCHANGED <<gen, primary, issued, rounds, lanes, fence, active, awaited,
                 forceClosed, call>>

\* The deadline passes while the participant still drains.
TimeOut(h, p) ==
  /\ p \in Slow /\ run[h][p] = "draining" /\ ~Drained(h, p)
  /\ \/ halt.id = h /\ run' = [run EXCEPT ![h][p] = "timed_out"] /\ UNCHANGED call
     \/ halt.id # h /\ Refused(h, p)
  /\ UNCHANGED <<kernel, lanes, fence, active, awaited, forceClosed>>

\* Mutant: nobody observes a participant that settles after its deadline.
ReportLateNever(h, p) ==
  /\ run[h][p] = "timed_out" /\ Drained(h, p)
  /\ run' = [run EXCEPT ![h][p] = "late"]
  /\ UNCHANGED <<kernel, lanes, fence, active, awaited, forceClosed, call>>

\* observeLateSettlement: a rejected late receipt is ignored.
ReportLate(h, p) ==
  /\ run[h][p] = "timed_out" /\ Drained(h, p)
  /\ run' = [run EXCEPT ![h][p] = "late"]
  /\ \/ h \notin forceClosed /\ Receipt(h, p)
     \/ /\ h \in forceClosed \/ halt.id # h \/ p \notin halt.pending
        /\ UNCHANGED <<phase, halt, owner>>
  /\ UNCHANGED <<gen, primary, issued, rounds, lanes, fence, active, awaited, forceClosed, call>>

-------------------------------------------------------------------------------
\* waitForDomainCompletion: the receipts are in, or one was rejected.
StopThrows(h) ==
  /\ call[h].at = "stopping" /\ h \notin stops /\ RunFailed(h)
  /\ call' = [call EXCEPT ![h].at = "threw"]
  /\ UNCHANGED <<kernel, lanes, fence, active, run, awaited, forceClosed>>

StopReturns(h) ==
  /\ call[h].at = "stopping" /\ h \notin stops /\ RunEnded(h) /\ ~RunFailed(h)
  /\ call' = [call EXCEPT ![h] = [@ EXCEPT !.at = IF Stopping THEN "stopped" ELSE "quiescing",
                                           !.early = Stopping]]
  /\ UNCHANGED <<kernel, lanes, fence, active, run, awaited, forceClosed>>

\* waitForQuiescence, then the settlement of the retained queue.  Its I/O
\* outlasts the submission of a late report of the same halt.
BecomesQuiet(h) ==
  /\ call[h].at \in {"quiescing", "late_quiescing"} /\ Quiescent
  /\ \A p \in Participants : run[h][p] # "timed_out"
  /\ call' = [call EXCEPT ![h].at = IF @ = "quiescing" THEN "stopped" ELSE "offering"]
  /\ UNCHANGED <<kernel, lanes, fence, active, run, awaited, forceClosed>>

\* haltUntilQuiescent returned to a cancel.
CancelStopped(h) ==
  /\ call[h].at = "stopped" /\ call[h].kind = "cancel"
  /\ call' = [call EXCEPT ![h] =
                [@ EXCEPT !.at = IF ~Stopping /\ phase = "terminated" THEN "done"
                                 ELSE "rearming",
                          !.late = Stopping]]
  /\ UNCHANGED <<kernel, lanes, fence, active, run, awaited, forceClosed>>

\* haltUntilQuiescent returned to a terminate: it closes a barrier that still
\* waits by a second user.terminate, and force-closes the halt in the end.
TerminateStopped(h) ==
  /\ call[h].at = "stopped" /\ call[h].kind = "terminate"
  /\ \/ /\ Stopping
        /\ Escalate
        /\ call' = [call EXCEPT ![h] = [@ EXCEPT !.at = "quiescing", !.force = halt.id]]
        /\ UNCHANGED forceClosed
     \/ /\ ~Stopping
        /\ forceClosed' = forceClosed \cup ({call[h].force} \ {NoHalt})
        /\ call' = [call EXCEPT ![h].at = "done"]
        /\ UNCHANGED <<gen, phase, halt, owner, stops, queued, overtaken>>
  /\ UNCHANGED <<primary, issued, rounds, lookup, fence, active, run, awaited>>

\* HaltCommandExecutor.rearm.
Rearmed(h) == [p \in Participants |-> IF fence[p] = h THEN NoHalt ELSE fence[p]]

\* A cancel whose participants timed out rearms without a wait for the lanes:
\* what they still hold is overtaken by the rearm.
OvertakenBy(h) == IF call[h].early THEN overtaken \cup InLanes(Executors) ELSE overtaken

\* Mutant: the rearm does not wait for the drains.
RearmUnawaited(h) ==
  /\ call[h].at = "rearming"
  /\ \/ h \in forceClosed /\ UNCHANGED <<fence, overtaken>>
     \/ h \notin forceClosed /\ fence' = Rearmed(h) /\ overtaken' = OvertakenBy(h)
  /\ call' = [call EXCEPT ![h].at = IF call[h].late THEN "late_quiescing" ELSE "offering"]
  /\ UNCHANGED <<kernel, queued, lookup, stops, active, run, awaited, forceClosed>>

Rearm(h) ==
  /\ call[h].at = "rearming"
  /\ \/ h \in forceClosed /\ UNCHANGED <<fence, overtaken>>
     \/ /\ h \notin forceClosed /\ \A p \in Participants : Drained(h, p)
        /\ fence' = Rearmed(h) /\ overtaken' = OvertakenBy(h)
  /\ call' = [call EXCEPT ![h].at = IF call[h].late THEN "late_quiescing" ELSE "offering"]
  /\ UNCHANGED <<kernel, queued, lookup, stops, active, run, awaited, forceClosed>>

\* offerResume: a paused task without a dialog gets one.
Offer(h) ==
  /\ call[h].at = "offering"
  /\ call' = [call EXCEPT ![h].at = "done"]
  /\ \/ /\ phase = "paused" /\ primary = "none"
        /\ OpenDialog(owner)
        /\ Run("dialog", NextCmd)
     \/ /\ phase # "paused" \/ primary # "none"
        /\ UNCHANGED <<owner, primary, issued, active>>
  /\ UNCHANGED <<gen, phase, halt, rounds, lanes, fence, run, awaited, forceClosed>>

-------------------------------------------------------------------------------
Next ==
  \/ Submit
  \/ ComposeCompletes
  \/ \E d \in Executors : \/ LookUp(d) \/ Dispatch(d) \/ EffectCompletes(d)
                          \/ RoundFails(d) \/ EffectReturns(d)
  \/ \E h \in Halts :
       \/ Cancel(h) \/ Terminate(h) \/ DispatchStop(h)
       \/ StopThrows(h) \/ StopReturns(h) \/ BecomesQuiet(h)
       \/ CancelStopped(h) \/ TerminateStopped(h) \/ Rearm(h) \/ Offer(h)
       \/ \E p \in Participants : Acknowledge(h, p) \/ TimeOut(h, p) \/ ReportLate(h, p)

\* The event loop, the lanes, the timers and the shell always go on, and an
\* executor returns from an aborted or finished effect unless it hangs.
Fairness ==
  /\ \A d \in Executors : WF_vars(LookUp(d)) /\ WF_vars(Dispatch(d))
  /\ \A d \in Executors \ Hung :
       WF_vars(EffectReturns(d) \/ EffectCompletes(d) \/ RoundFails(d))
  /\ \A h \in Halts :
       /\ WF_vars(DispatchStop(h)) /\ WF_vars(StopThrows(h)) /\ WF_vars(StopReturns(h))
       /\ WF_vars(BecomesQuiet(h)) /\ WF_vars(CancelStopped(h))
       /\ WF_vars(TerminateStopped(h)) /\ WF_vars(Rearm(h)) /\ WF_vars(Offer(h))
       /\ \A p \in Participants : /\ WF_vars(Acknowledge(h, p)) /\ WF_vars(TimeOut(h, p))
                                  /\ WF_vars(ReportLate(h, p))

Spec     == Init /\ [][Next]_vars
FairSpec == Spec /\ Fairness
-------------------------------------------------------------------------------
\* The types of the variables.
TypeOK ==
  /\ gen \in Nat /\ phase \in {"active", "paused", "terminated"}
  /\ halt \in [id : Halts \cup {NoHalt}, target : {"paused", "terminated"},
               pending : SUBSET Participants]
  /\ owner \in [Executors -> Command]
  /\ primary \in {"none", "planned", "open"}
  /\ issued \in Nat /\ rounds \in 0..MaxRounds
  /\ queued \in [Executors -> Seq(Command)]
  /\ lookup \in [Executors -> Command]
  /\ stops \subseteq Halts /\ overtaken \subseteq Command
  /\ fence \in [Participants -> Halts \cup {NoHalt}]
  /\ active \in [Executors -> Effect]
  /\ run \in [Halts -> [Participants -> {"none", "draining", "acknowledged",
                                        "timed_out", "late", "rejected"}]]
  /\ awaited \in [Halts -> [Executors -> Command]]
  /\ forceClosed \subseteq Halts
  /\ call \in [Halts -> [at : {"unused", "stopping", "stopped", "quiescing", "rearming",
                               "late_quiescing", "offering", "done", "threw"},
                         kind : {"cancel", "terminate"}, early : BOOLEAN,
                         late : BOOLEAN, force : Halts \cup {NoHalt}]]

\* While a halt is active the kernel waits for exactly the participants whose
\* receipt the halt executor still owes: no receipt is lost, refused or counted
\* twice, however acknowledgements, time-outs and late reports interleave.
PendingIsOutstanding ==
  \A h \in Halts \ stops :
    halt.id = h => halt.pending = {p \in Participants : run[h][p] \in {"draining", "timed_out"}}

\* A fence is retired only after its participant stopped: an aborted effect
\* that still runs is behind a fence, whichever halt installed it.
AbortedIsFenced == \A d \in Executors : active[d].aborted => fence[d] # NoHalt

\* A task is paused by a completed barrier only: no effect a halt aborted
\* still runs in a paused task that is not stopping.
PausedIsQuiet ==
  phase = "paused" /\ ~Stopping => \A d \in Executors : ~active[d].aborted

\* A force-closed halt never reopens a fence it still holds.
ForcedFencesHold ==
  [][\A h \in forceClosed, p \in Participants : fence[p] = h => fence'[p] # NoHalt]_vars

\* One round runs at a time: in a task that neither stops nor is terminated,
\* compose and provider never run together, so no two requests overlap, unless
\* one of the two was overtaken by a rearm that did not wait for the lanes.
OneRoundRuns ==
  ~Stopping /\ phase # "terminated" =>
    \/ ~(Unfinished("compose") /\ Unfinished("provider"))
    \/ \E d \in Round : active[d].cmd \in overtaken

\* Every accepted stop ends, in a paused or a terminated task.
StopsEnd == Stopping ~> ~Stopping

\* Every cancel or terminate returns to its caller, and none throws unless a
\* terminate escalated a halt whose receipts were still outstanding.
CallsFinish ==
  \A h \in Halts : call[h].at # "unused" ~>
    \/ call[h].at = "done"
    \/ call[h].at = "threw" /\ \E o \in Halts : call[o].force # NoHalt

\* A cancel that finished leaves a paused task with a dialog the user can
\* answer, or one that is being prepared.
CallsFinished == \A h \in Halts : call[h].at \in {"unused", "done"}
ResumeIsOffered ==
  phase = "paused" /\ CallsFinished =>
    primary = "open" \/ (primary = "planned" /\ active["dialog"] # Idle)

\* Work issued before a stop never starts once the stop was dispatched: its
\* fence is there until the lanes hold nothing older than the stop.  The one
\* exception is a cancel that timed out (TaskShell.ts:237), which lifts the fences
\* first: what the lanes held just then was overtaken, and may start.
Starts(d) == active'[d] # active[d] /\ active'[d].cmd # NoCmd /\ ~active'[d].aborted
StartsCurrent ==
  [][stops = {} => \A d \in Executors :
       Starts(d) => active'[d].cmd.gen = gen \/ active'[d].cmd \in overtaken]_vars
===============================================================================
