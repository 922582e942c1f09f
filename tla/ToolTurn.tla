------------------------------ MODULE ToolTurn ------------------------------
(***************************************************************************)
(* The tool calls of one turn, from the plan the provider returned to the  *)
(* settlement that opens the next round: the turn slice of the kernel, the *)
(* tool executor, the turn scheduler and its execution pool.               *)
(*                                                                         *)
(* A block is its index in assistant order.  The kernel keeps a phase per  *)
(* block; the pool keeps where the block's execution stands (its stage).   *)
(* They meet only through messages: tool.run commands one way, tool.started *)
(* and the terminal tool events the other, so each side may act on a view  *)
(* of the other that is already old.                                       *)
(*                                                                         *)
(* One piece of work of the event loop is one action; a piece ends at the  *)
(* await of the permit, of the receipt of tool.started, and of the effect. *)
(* A failed block is a completed one.  The gate behind the pool never      *)
(* makes a block wait, because the pool asks it only for slots the         *)
(* admission already counted.                                              *)
(***************************************************************************)
EXTENDS Naturals, Sequences, FiniteSets

CONSTANTS Last,       \* index of the turn's last block
          LaneSets,   \* the sets of lanes a block may need
          MaxEndings, \* how many blocks of a turn may end it
          Limits      \* values of the parallel tool call setting, all usable

ASSUME TurnAssumption == /\ Last \in Nat
                         /\ MaxEndings \in Nat
                         /\ Limits \subseteq Nat \ {0}
                         /\ Limits # {}

VARIABLES plan,    \* what the turn's blocks need: constant during the turn
          phase,   \* kernel: the phase of each block
          stage,   \* executor and pool: where each block's execution stands
          runs,    \* tool.run commands not yet dispatched, oldest first
          limit,   \* the configured ceiling as the pool now reads it
          closing, \* the ending block that began and closed the turn, or Unset
          closed,  \* the pool was cancelled, by a fence or by tool.retire
          stopped, \* the generation of the turn is over: a cancel was accepted
          settled  \* the kernel handed the turn's outcomes on

vars == <<plan, phase, stage, runs, limit, closing, closed, stopped, settled>>

Blocks == 0..Last
Unset == Last + 1

Phases == {"asked", "ready", "executing", "completed", "rejected", "skipped",
           "cancelled"}
Terminal == {"completed", "rejected", "skipped", "cancelled"}

\* Mutant: a block is registered only once its effect starts.
HoldingLate == {"accepted", "effect", "reporting", "leaving"}

\* A block the pool registered keeps its lanes and its slot until it leaves.
Holding == {"granted", "starting", "accepted", "effect", "reporting", "leaving"}
Stages == Holding \union {"unreleased", "queued", "dropped", "done"}

-----------------------------------------------------------------------------
(* What the provider plans: the blocks that end the turn come last.        *)

Plans ==
    {p \in [lanes : [Blocks -> LaneSets], ending : SUBSET Blocks,
            asked : SUBSET Blocks] :
        /\ Cardinality(p.ending) <= MaxEndings
        /\ \A e \in p.ending : \A b \in Blocks : e < b => b \in p.ending}

Running(s) == {b \in Blocks : s[b] \in Holding}
Waiting(s) == {b \in Blocks : s[b] = "queued"}
Effects(s) == {b \in Blocks : s[b] = "effect"}
Released(s) == {b \in Blocks : s[b] # "unreleased"}

Earlier(S, b) == {c \in S : c < b}

\* Mutant: the drain barrier sees only what the pool already holds.
UnfinishedInPool(p, s) == FALSE

\* A block before every released ending one is still to be released.
Unfinished(p, s) ==
    /\ p.ending \intersect Released(s) # {}
    /\ \E b \in Blocks \ Released(s) :
          \A e \in p.ending \intersect Released(s) : b < e

Conflict(p, b, S) == \E c \in S : p.lanes[b] \intersect p.lanes[c] # {}

\* An ending block starts alone, and only when nothing is left before it.
MayEnd(p, s, held, refused) == held = {} /\ refused = {} /\ ~Unfinished(p, s)

\* Mutant: only the lanes of running blocks are refused.
MayRunPast(p, s, l, b, held, refused) ==
    /\ Earlier(Waiting(s), b) \intersect p.ending = {}
    /\ Cardinality(held) < l
    /\ ~Conflict(p, b, held)

\* Mutant: one block more than the ceiling.
MayRunOneMore(p, s, l, b, held, refused) ==
    /\ Earlier(Waiting(s), b) \intersect p.ending = {}
    /\ Cardinality(held) <= l
    /\ ~Conflict(p, b, refused)
    /\ ~Conflict(p, b, held)

\* Any other block needs a slot and lanes that neither a block in the pool nor
\* an earlier block that was refused needs, and never passes an ending block.
MayRun(p, s, l, b, held, refused) ==
    /\ Earlier(Waiting(s), b) \intersect p.ending = {}
    /\ Cardinality(held) < l
    /\ ~Conflict(p, b, refused)
    /\ ~Conflict(p, b, held)

\* Whether b may start, given that the blocks of A start in the same decision.
Admissible(p, s, l, A, b) ==
    LET held == Running(s) \union Earlier(A, b)
        refused == Earlier(Waiting(s) \ A, b)
    IN /\ Running(s) \intersect p.ending = {}
       /\ IF b \in p.ending THEN MayEnd(p, s, held, refused)
          ELSE MayRun(p, s, l, b, held, refused)

\* The pool's decision: the one set of waiting blocks consistent with it.
Decision(p, s, l) ==
    {A \in SUBSET Waiting(s) :
        \A b \in Waiting(s) : b \in A <=> Admissible(p, s, l, A, b)}

Granted(s, A) == [b \in Blocks |-> IF b \in A THEN "granted" ELSE s[b]]

\* Stages after the pool rescheduled; a cancelled pool has nothing waiting.
Scheduled(p, s, l) == {Granted(s, A) : A \in Decision(p, s, l)}

-----------------------------------------------------------------------------
Init ==
    /\ plan \in Plans
    /\ phase = [b \in Blocks |-> IF b \in plan.asked THEN "asked" ELSE "ready"]
    /\ stage = [b \in Blocks |-> "unreleased"]
    /\ runs = IF plan.asked = Blocks THEN << >> ELSE <<Blocks \ plan.asked>>
    /\ limit \in Limits
    /\ closing = Unset
    /\ closed = FALSE
    /\ stopped = FALSE
    /\ settled = FALSE

AllTerminal(ph) == \A b \in Blocks : ph[b] \in Terminal

(* The kernel *)

\* approval.responded or approval.evaluated with approval.
Approve(b) ==
    /\ ~stopped
    /\ phase[b] = "asked"
    /\ phase' = [phase EXCEPT ![b] = "ready"]
    /\ runs' = Append(runs, {b})
    /\ UNCHANGED <<plan, stage, limit, closing, closed, stopped, settled>>

\* A refusal rejects the block and skips every later one that has not begun.
RejectAndSkipLater(ph, b) ==
    [c \in Blocks |->
        IF c = b THEN "rejected"
        ELSE IF c > b /\ ph[c] \notin Terminal \union {"executing"} THEN "skipped"
        ELSE ph[c]]

Deny(b) ==
    /\ ~stopped
    /\ phase[b] = "asked"
    /\ phase' = RejectAndSkipLater(phase, b)
    /\ settled' = AllTerminal(phase')
    /\ UNCHANGED <<plan, stage, runs, limit, closing, closed, stopped>>

\* The user cancels: feedback of the generation that ended is refused from here.
Cancel ==
    /\ ~stopped
    /\ stopped' = TRUE
    /\ UNCHANGED <<plan, phase, stage, runs, limit, closing, closed, settled>>

\* tool.completed, tool.failed or tool.cancelled of b reaches the kernel.
Finish(b, outcome) ==
    IF ~stopped /\ phase[b] = "executing"
      THEN /\ phase' = [phase EXCEPT ![b] = outcome]
           /\ settled' = AllTerminal(phase')
      ELSE UNCHANGED <<phase, settled>>

-----------------------------------------------------------------------------
(* The executor and its pool *)

\* Blocks submitted behind the ending block that closed the turn are dropped.
Submitted(s, S, c) ==
    [b \in Blocks |-> IF b \notin S THEN s[b]
                      ELSE IF b > c THEN "dropped" ELSE "queued"]

\* A tool.run command is dispatched: its blocks enter the pool together.
RunTools ==
    /\ runs # << >>
    /\ runs' = Tail(runs)
    /\ IF closed
         THEN UNCHANGED stage
         ELSE stage' \in Scheduled(plan, Submitted(stage, Head(runs), closing), limit)
    /\ UNCHANGED <<plan, phase, limit, closing, closed, stopped, settled>>

\* Mutant: an ending block leaves the queue behind it alone.
SkipNobodyAfter(s, e) == s

\* Blocks behind e whose effect has not been started are given up.
SkipBlocksAfter(s, e) ==
    [b \in Blocks |-> IF b > e /\ s[b] \in {"queued", "granted"} THEN "dropped"
                      ELSE s[b]]

\* The permit arrived: an ending block closes the turn behind it.
Begin(b) ==
    /\ stage[b] = "granted"
    /\ LET begun == [stage EXCEPT ![b] = "starting"]
           first == IF b < closing THEN b ELSE closing
       IN IF b \in plan.ending
            THEN /\ closing' = first
                 /\ stage' = SkipBlocksAfter(begun, first)
            ELSE /\ stage' = begun
                 /\ UNCHANGED closing
    /\ UNCHANGED <<plan, phase, runs, limit, closed, stopped, settled>>

\* Mutant: the executor does not look at the receipt of tool.started.
StartedRegardless(b) ==
    /\ stage[b] = "starting"
    /\ phase' = IF ~stopped /\ phase[b] = "ready"
                  THEN [phase EXCEPT ![b] = "executing"] ELSE phase
    /\ stage' = [stage EXCEPT ![b] = "accepted"]
    /\ UNCHANGED <<plan, runs, limit, closing, closed, stopped, settled>>

\* The kernel decides tool.started.
Started(b) ==
    /\ stage[b] = "starting"
    /\ IF ~stopped /\ phase[b] = "ready"
         THEN /\ phase' = [phase EXCEPT ![b] = "executing"]
              /\ stage' = [stage EXCEPT ![b] = "accepted"]
         ELSE /\ stage' = [stage EXCEPT ![b] = "leaving"]
              /\ UNCHANGED phase
    /\ UNCHANGED <<plan, runs, limit, closing, closed, stopped, settled>>

\* The executor continues with the receipt: only now does the effect start.
Handle(b) ==
    /\ stage[b] = "accepted"
    /\ stage' = [stage EXCEPT ![b] = IF closed THEN "leaving" ELSE "effect"]
    /\ UNCHANGED <<plan, phase, runs, limit, closing, closed, stopped, settled>>

\* A result produced behind a fence is dropped by the domain.
EffectEnds(b) ==
    /\ stage[b] = "effect"
    /\ stage' = [stage EXCEPT ![b] = IF closed THEN "leaving" ELSE "reporting"]
    /\ UNCHANGED <<plan, phase, runs, limit, closing, closed, stopped, settled>>

Report(b) ==
    /\ stage[b] = "reporting"
    /\ stage' = [stage EXCEPT ![b] = "leaving"]
    /\ Finish(b, "completed")
    /\ UNCHANGED <<plan, runs, limit, closing, closed, stopped>>

\* Mutant: a block leaves without letting waiting work in.
LeaveQuietly(b) ==
    /\ stage[b] = "leaving"
    /\ stage' = [stage EXCEPT ![b] = "done"]
    /\ UNCHANGED <<plan, phase, runs, limit, closing, closed, stopped, settled>>

\* The block gives up its lanes and its slot, and waiting work is let in.
Leave(b) ==
    /\ stage[b] = "leaving"
    /\ stage' \in Scheduled(plan, [stage EXCEPT ![b] = "done"], limit)
    /\ UNCHANGED <<plan, phase, runs, limit, closing, closed, stopped, settled>>

\* A block the pool dropped unrun is reported as cancelled.
ReportUnrun(b) ==
    /\ stage[b] = "dropped"
    /\ stage' = [stage EXCEPT ![b] = "done"]
    /\ Finish(b, "cancelled")
    /\ UNCHANGED <<plan, runs, limit, closing, closed, stopped>>

\* cancelAll: what has not been started never will be.
CancelAll ==
    /\ closed' = TRUE
    /\ stage' = [b \in Blocks |->
                    IF stage[b] \in {"queued", "granted"} THEN "dropped"
                    ELSE stage[b]]

\* The halt barrier fences the executor of a cancelled task.
Fence ==
    /\ stopped
    /\ ~closed
    /\ CancelAll
    /\ UNCHANGED <<plan, phase, runs, limit, closing, stopped, settled>>

\* tool.retire follows the turn's tool.run commands in the executor's lane.
Retire ==
    /\ settled
    /\ runs = << >>
    /\ ~closed
    /\ CancelAll
    /\ UNCHANGED <<plan, phase, runs, limit, closing, stopped, settled>>

\* Mutant: the new ceiling waits for the next event of the pool.
SetLimitQuietly(l) ==
    /\ limit' = l
    /\ UNCHANGED <<plan, phase, stage, runs, closing, closed, stopped, settled>>

\* The user moves the ceiling, and the pool decides again at once.
SetLimit(l) ==
    /\ limit' = l
    /\ IF closed THEN UNCHANGED stage ELSE stage' \in Scheduled(plan, stage, l)
    /\ UNCHANGED <<plan, phase, runs, closing, closed, stopped, settled>>

-----------------------------------------------------------------------------
Next ==
    \/ \E b \in Blocks : Approve(b)
    \/ \E b \in Blocks : Deny(b)
    \/ Cancel
    \/ RunTools
    \/ \E b \in Blocks : Begin(b)
    \/ \E b \in Blocks : Started(b)
    \/ \E b \in Blocks : Handle(b)
    \/ \E b \in Blocks : EffectEnds(b)
    \/ \E b \in Blocks : Report(b)
    \/ \E b \in Blocks : Leave(b)
    \/ \E b \in Blocks : ReportUnrun(b)
    \/ Fence
    \/ Retire
    \/ \E l \in Limits : SetLimit(l)

Spec == Init /\ [][Next]_vars

\* The event loop runs every piece of work that is due.  Answers to approvals
\* and the end of an effect are not its to give.
Fairness ==
    /\ WF_vars(RunTools)
    /\ WF_vars(Fence)
    /\ WF_vars(Retire)
    /\ \A b \in Blocks :
          /\ WF_vars(Begin(b))
          /\ WF_vars(Started(b))
          /\ WF_vars(Handle(b))
          /\ WF_vars(Report(b))
          /\ WF_vars(Leave(b))
          /\ WF_vars(ReportUnrun(b))

FairSpec == Spec /\ Fairness

-----------------------------------------------------------------------------
(* Properties *)

\* Every variable has its type.
TypeOK ==
    /\ plan \in Plans
    /\ phase \in [Blocks -> Phases]
    /\ stage \in [Blocks -> Stages]
    /\ runs \in Seq(SUBSET Blocks)
    /\ limit \in Limits
    /\ closing \in 0..Unset
    /\ closed \in BOOLEAN
    /\ stopped \in BOOLEAN
    /\ settled \in BOOLEAN

\* Two blocks of the pool that hold a slot at once need no lane in common, even
\* while one still waits for its permit or its receipt, and after its effect
\* until it left (TurnExecutionPool.schedule registers before start awaits).
LanesExclusive ==
    \A b, c \in Running(stage) :
        b # c => plan.lanes[b] \intersect plan.lanes[c] = {}

\* A block that ends the turn holds its slot alone in the pool.
EndingHoldsAlone ==
    \A e \in plan.ending \intersect Running(stage) : Running(stage) = {e}

\* While the effect of an ending block runs it is the only effect, and the
\* kernel has every earlier block of the turn in a terminal phase: control goes
\* back to the user only when nothing else is outstanding.
EndingIsLast ==
    \A e \in plan.ending \intersect Effects(stage) :
        /\ Effects(stage) = {e}
        /\ \A b \in Earlier(Blocks, e) : phase[b] \in Terminal

\* The kernel's "executing" is the truth about the executor: an effect runs only
\* for a block the kernel holds executing, so never for one that was rejected,
\* skipped or never approved; and in a live turn an executing block has an
\* execution behind it that will report.
EffectsAreExecuting ==
    /\ \A b \in Effects(stage) : phase[b] = "executing"
    /\ ~stopped => \A b \in Blocks :
          phase[b] = "executing" =>
             stage[b] \in {"accepted", "effect", "reporting"}

\* Once an ending block began, no other block of the turn starts its effect.
NothingAfterEnding ==
    [][\A b \in Blocks :
          closing # Unset /\ b # closing => b \notin Effects(stage') \ Effects(stage)]_vars

\* A pool at rest left nobody behind: no block waits that its own rules would
\* admit now, whichever of a submission, a departure, a cleared barrier or a
\* moved ceiling came last.
NoMissedWakeup ==
    ~closed => Decision(plan, stage, limit) \subseteq {{}}

NewlyGranted == {b \in Blocks : stage[b] # "granted" /\ stage'[b] = "granted"}

\* Waiting is head-of-line by lane: a block is never let in past an earlier one
\* that keeps waiting and ends the turn or needs one of its lanes.
NoOvertaking ==
    [][\A b \in NewlyGranted : \A w \in Earlier(Waiting(stage'), b) :
          /\ w \notin plan.ending
          /\ plan.lanes[b] \intersect plan.lanes[w] = {}]_vars

\* Letting blocks in never takes the pool over the ceiling in force, however it
\* moved since the running ones were let in.
WithinLimit ==
    [][NewlyGranted # {} => Cardinality(Running(stage')) <= limit']_vars

\* Once every approval is answered and every effect has returned, the turn is
\* settled, so that the next round reports all its calls, or it was cancelled.
TurnSettles ==
    <>[](Effects(stage) = {} /\ \A b \in Blocks : phase[b] # "asked")
        => <>(settled \/ stopped)
=============================================================================
