----------------------------- MODULE InputQueue -----------------------------
(***************************************************************************)
(* The retained input queue of a task: what the user types while a turn    *)
(* runs, and how each message reaches the model exactly once.              *)
(*                                                                         *)
(* A message waits in the intake until one of two deliveries takes it.  At *)
(* a tool round the steering messages ride on the round that reports the   *)
(* tools' outcomes; at a turn end a message answers the question the turn  *)
(* ended on.  A round is composed in the journal (the rows of its material *)
(* plan, the staged batch, the prepared draft), and the entry is settled   *)
(* from what the journal holds, after a cancel or when the task is opened  *)
(* again.  Sources: kernel/machines/intake.ts, kernel/round-material.ts,   *)
(* executors/compose, shell/TaskShellFactory.ts, kernel/hydrate.ts and     *)
(* session/CanonicalInputQueueApplication.ts.                              *)
(*                                                                         *)
(* The write-ahead order itself (a command starts after its state is on    *)
(* disk) is TaskRuntime's; here an effect has the guard that its command,  *)
(* or the event it waits for, is in `saved`.  How a halt drains its        *)
(* participants is HaltBarrier's; here they return once aborted.           *)
(***************************************************************************)
EXTENDS Integers, FiniteSets

CONSTANTS
    Messages,             \* what the user enqueues
    MaxRounds,            \* rounds opened
    MaxCancels,           \* user.cancel
    MaxCrashes,           \* process ends, task opened again by its owner
    MaxDisturbances       \* rounds a barrier, a guard or an I/O error stops,
                          \* requests that end in provider.failed, messages
                          \* removed after a delivery took them

ASSUME QueueAssumption ==
    /\ MaxRounds \in Nat \ {0}
    /\ {MaxCancels, MaxCrashes, MaxDisturbances} \subseteq Nat

VARIABLES
    task,       \* the kernel's state, as far as the queue reads it
    saved,      \* its last durable snapshot
    owed,       \* the round command of this generation not yet dispatched
    halt,       \* the stop in progress and the settlement that follows it
    composer,   \* the compose executor: how far its round has come
    sender,     \* the provider executor
    answering,  \* the queue's turn-end drain and the batch it materialized
    rows,       \* journal: live material rows of each round's plan
    batch,      \* journal: each round's staged retained batch
    prepared,   \* journal: each round's compose.prepared checkpoint
    final,      \* journal: rounds that have a provider result
    opened, cancels, crashes, disturbances,
    reopened,   \* the task was opened again and not cancelled since
    leftover    \* history: what a failed request still held when a later
                \* round was opened

journal  == <<rows, batch, prepared, final>>
counters == <<opened, cancels, crashes, disturbances, reopened, leftover>>
vars == <<task, saved, owed, halt, composer, sender, answering, journal,
          counters>>

-----------------------------------------------------------------------------
NoDelivery == 0
Rounds     == 1 .. MaxRounds
TurnEnd    == MaxRounds + 1   \* queue:turn_end:<interaction>; a round is its own delivery

NoEntry    == [state |-> "none", steering |-> FALSE, editing |-> FALSE,
               delivery |-> NoDelivery]
NoCompose  == [id |-> 0, status |-> "none", admitted |-> {}, planned |-> FALSE,
               plan |-> {}, draft |-> FALSE, receipt |-> FALSE]
NoProvider == [id |-> 0, status |-> "none"]

InDelivery == {"reserved", "included", "uncertain"}

Mutable(e) == e.state \in {"accepted", "released"}

DeliverableEdited(entry) == {m \in Messages : Mutable(entry[m])}

Deliverable(entry) == {m \in Messages : Mutable(entry[m]) /\ ~entry[m].editing}

Steering(entry) == {m \in Deliverable(entry) : entry[m].steering}

(* What one delivery holds. *)
Held(entry, d) ==
    {m \in Messages : entry[m].delivery = d /\ entry[m].state \in InDelivery}

Reserved(entry, S, d) ==
    [m \in Messages |-> IF m \in S
                        THEN [entry[m] EXCEPT !.state = "reserved", !.delivery = d]
                        ELSE entry[m]]

Released(entry, S) ==
    [m \in Messages |-> IF m \in S
                        THEN [entry[m] EXCEPT !.state = "released",
                                              !.delivery = NoDelivery]
                        ELSE entry[m]]

(* Consumed for good; what the entry was no longer matters. *)
Consumed(entry, S) ==
    [m \in Messages |-> IF m \in S THEN [NoEntry EXCEPT !.state = "consumed"]
                        ELSE entry[m]]

InState(entry, state) == {m \in Messages : entry[m].state = state}

ActiveRound(t) == "running" \in {t.compose.status, t.provider.status}

Init ==
    /\ task = [entry |-> [m \in Messages |-> NoEntry], feedback |-> {},
               compose |-> NoCompose, provider |-> NoProvider,
               phase |-> "waiting", turn |-> "none"]
    /\ saved = task
    /\ owed = "none"
    /\ halt = "no"
    /\ composer = "off"
    /\ sender = "off"
    /\ answering = [at |-> "off", members |-> {}]
    /\ rows = [r \in Rounds |-> {}]
    /\ batch = [r \in Rounds |-> [state |-> "absent", members |-> {}]]
    /\ prepared = [r \in Rounds |-> "absent"]
    /\ final = {}
    /\ opened = 0 /\ cancels = 0 /\ crashes = 0 /\ disturbances = 0
    /\ reopened = FALSE /\ leftover = {}

(* What a snapshot is read for: an edit in progress ends with the process   *)
(* (hydrate.ts, normalizeState), so it is left out.                         *)
Snapshot(t) == [t EXCEPT !.entry = [m \in Messages |-> [@[m] EXCEPT !.editing = FALSE]]]

(* The snapshot in which the kernel now stands reaches the disk. *)
Save ==
    /\ saved # Snapshot(task)
    /\ saved' = Snapshot(task)
    /\ UNCHANGED <<task, owed, halt, composer, sender, answering, journal, counters>>

-----------------------------------------------------------------------------
(* The queue the user sees: input_queue.* events.                          *)

Alter(m, e) == task' = [task EXCEPT !.entry[m] = e]

OnlyTask == UNCHANGED <<saved, owed, halt, composer, sender, answering, journal>>

Enqueue(m) ==
    /\ task.entry[m].state = "none"
    /\ \E steering \in BOOLEAN :
          Alter(m, [NoEntry EXCEPT !.state = "accepted", !.steering = steering])
    /\ OnlyTask /\ UNCHANGED counters

Toggle(m) ==
    /\ Mutable(task.entry[m])
    /\ Alter(m, [task.entry[m] EXCEPT !.steering = ~@])
    /\ OnlyTask /\ UNCHANGED counters

StartEdit(m) ==
    /\ Mutable(task.entry[m]) /\ ~task.entry[m].editing
    /\ Alter(m, [task.entry[m] EXCEPT !.editing = TRUE])
    /\ OnlyTask /\ UNCHANGED counters

(* Committed or cancelled. *)
EndEdit(m) ==
    /\ Mutable(task.entry[m]) /\ task.entry[m].editing
    /\ Alter(m, [task.entry[m] EXCEPT !.editing = FALSE])
    /\ OnlyTask /\ UNCHANGED counters

(* The one mutation the kernel accepts in every state of the entry: a view *)
(* not yet refreshed can remove what a delivery already holds.             *)
Remove(m) ==
    /\ \/ /\ Mutable(task.entry[m])
          /\ UNCHANGED disturbances
       \/ /\ task.entry[m].state \in InDelivery
          /\ disturbances < MaxDisturbances
          /\ disturbances' = disturbances + 1
    /\ Alter(m, [NoEntry EXCEPT !.state = "removed"])
    /\ OnlyTask
    /\ UNCHANGED <<opened, cancels, crashes, reopened, leftover>>

-----------------------------------------------------------------------------
(* Rounds the kernel opens: composeRoundCommand and applyCommandOwnership. *)

OpenRound(admitted, phase) ==
    /\ opened < MaxRounds
    /\ opened' = opened + 1
    /\ task' = [task EXCEPT
                  !.compose = [NoCompose EXCEPT !.id = opened + 1,
                                 !.status = "running", !.admitted = admitted],
                  !.entry = Reserved(@, admitted, opened + 1),
                  !.phase = phase, !.turn = "none"]
    /\ owed' = "compose"
    /\ leftover' = leftover \cup InState(task.entry, "included")
    /\ UNCHANGED <<saved, halt, composer, sender, answering, journal, cancels,
                   crashes, disturbances, reopened>>

(* A direct submission, or a recovery dialog answered with text.  Only a   *)
(* pause is ended here: an error lasts until the provider's turn is ready. *)
Submit ==
    /\ halt = "no" /\ task.turn \in {"none", "recovery"} /\ ~ActiveRound(task)
    /\ OpenRound({}, IF task.phase = "paused" THEN "running" ELSE task.phase)

(* The last block of the turn is terminal: the round that reports it takes *)
(* the steering messages along.                                            *)
ToolsSettle ==
    /\ halt = "no" /\ task.turn = "tools" /\ ~ActiveRound(task)
    /\ OpenRound(Steering(task.entry), task.phase)

(* A recovery dialog answered without text sends the prepared draft again. *)
Retry ==
    /\ halt = "no" /\ task.turn = "recovery" /\ task.compose.draft
    /\ task' = [task EXCEPT
                  !.provider = [id |-> task.compose.id, status |-> "running"],
                  !.phase = "running", !.turn = "none"]
    /\ owed' = "provider"
    /\ UNCHANGED <<saved, halt, composer, sender, answering, journal, counters>>

-----------------------------------------------------------------------------
(* The turn-end delivery: CanonicalInputQueueApplication.tryTurnEndDelivery *)

TurnEndChoices(entry) ==
    IF Steering(entry) # {} THEN {Steering(entry)}
                            ELSE {{m} : m \in Deliverable(entry)}

ReserveTurnEnd ==
    /\ answering.at = "off" /\ halt = "no" /\ task.turn = "asking"
    /\ \E S \in TurnEndChoices(task.entry) :
          task' = [task EXCEPT !.entry = Reserved(@, S, TurnEnd)]
    /\ answering' = [at |-> "reserved", members |-> {}]
    /\ UNCHANGED <<saved, owed, halt, composer, sender, journal, counters>>

(* The reservation is durable; whatever it still holds is materialized. *)
Materialize ==
    LET S == Held(task.entry, TurnEnd) IN
    /\ answering.at = "reserved"
    /\ S = Held(saved.entry, TurnEnd) \cap S
    /\ answering' = [at |-> IF S = {} THEN "off" ELSE "ready", members |-> S]
    /\ UNCHANGED <<task, saved, owed, halt, composer, sender, journal, counters>>

CanAnswer ==
    /\ halt = "no" /\ task.turn = "asking"
    /\ Held(task.entry, TurnEnd) = answering.members

(* dialog.responded consumes the batch in the commit that answers. *)
Respond ==
    /\ answering.at = "ready" /\ CanAnswer
    /\ task' = [task EXCEPT !.entry = Consumed(@, answering.members),
                            !.feedback = @ \cup answering.members,
                            !.turn = "tools"]
    /\ answering' = [at |-> "off", members |-> {}]
    /\ UNCHANGED <<saved, owed, halt, composer, sender, journal, counters>>

(* Stale or changed: what the reservation still holds goes back. *)
GiveBack ==
    /\ answering.at = "ready" /\ ~CanAnswer
    /\ task' = IF halt = "no"
               THEN [task EXCEPT !.entry = Released(@, Held(@, TurnEnd))]
               ELSE task
    /\ answering' = [at |-> "off", members |-> {}]
    /\ UNCHANGED <<saved, owed, halt, composer, sender, journal, counters>>

(* The user answers the question before the queue does. *)
AnswerByHand ==
    /\ halt = "no" /\ task.turn = "asking"
    /\ task' = [task EXCEPT !.turn = "tools"]
    /\ OnlyTask /\ UNCHANGED counters

-----------------------------------------------------------------------------
(* The compose executor and the journal rows it writes.                    *)

Round == task.compose.id

Complete(S) == \A m \in S : task.entry[m].state # "removed"

Retracted(b) == IF b.state = "staged" THEN [b EXCEPT !.state = "retracted"] ELSE b

(* input_queue.delivery_accepted; refused when nothing of the delivery is  *)
(* left, and then the executor returns without a word.                     *)
Take ==
    /\ owed = "compose" /\ composer = "off"
    /\ saved.compose.id = Round
    /\ owed' = "none"
    /\ composer' = IF task.compose.admitted = {} \/ Held(task.entry, Round) # {}
                   THEN "taken" ELSE "off"
    /\ UNCHANGED <<task, saved, halt, sender, answering, journal, counters>>

(* compose.freeze_requested: the plan is the admitted batch and the        *)
(* answers no round has carried yet.                                       *)
Freeze ==
    /\ composer = "taken" /\ halt = "no" /\ Complete(task.compose.admitted)
    /\ task' = [task EXCEPT !.compose.planned = TRUE,
                            !.compose.plan = task.compose.admitted \cup task.feedback]
    /\ composer' = "frozen"
    /\ UNCHANGED <<saved, owed, halt, sender, answering, journal, counters>>

AppendRow(m) ==
    /\ composer = "frozen" /\ halt # "stopping"
    /\ saved.compose.id = Round /\ saved.compose.planned
    /\ m \in task.compose.plan \ rows[Round]
    /\ rows' = [rows EXCEPT ![Round] = @ \cup {m}]
    /\ UNCHANGED <<task, saved, owed, halt, composer, sender, answering, batch,
                   prepared, final, counters>>

Stage ==
    /\ composer = "frozen" /\ halt # "stopping"
    /\ saved.compose.id = Round /\ saved.compose.planned
    /\ task.compose.plan \subseteq rows[Round]
    /\ batch' = IF task.compose.admitted = {} THEN batch
                ELSE [batch EXCEPT ![Round] = [state |-> "staged",
                                               members |-> task.compose.admitted]]
    /\ composer' = "staged"
    /\ UNCHANGED <<task, saved, owed, halt, sender, answering, rows, prepared,
                   final, counters>>

Prepare ==
    /\ composer = "staged" /\ halt # "stopping"
    /\ prepared' = [prepared EXCEPT ![Round] = "live"]
    /\ composer' = "prepared"
    /\ UNCHANGED <<task, saved, owed, halt, sender, answering, rows, batch,
                   final, counters>>

DiscardRows == rows' = [rows EXCEPT ![Round] = {}]

(* rollbackRetainedQueue: rows and checkpoint are tombstoned, the staged   *)
(* batch is retracted.                                                     *)
Rollback ==
    /\ DiscardRows
    /\ prepared' = [prepared EXCEPT ![Round] = IF @ = "live" THEN "discarded" ELSE @]
    /\ batch' = [batch EXCEPT ![Round] = Retracted(@)]

GivenUpHeld(status, phase, turn) ==
    task' = [task EXCEPT !.compose.status = status, !.phase = phase, !.turn = turn]

GivenUp(status, phase, turn) ==
    task' = [task EXCEPT !.compose.status = status, !.phase = phase, !.turn = turn,
                         !.entry = Released(@, Held(@, Round))]

(* compose.completed, accepted: the batch is in the draft, and the draft   *)
(* goes to the provider.                                                   *)
CompleteRound ==
    /\ composer = "prepared" /\ halt = "no"
    /\ Held(task.entry, Round) = task.compose.admitted
    /\ task' = [task EXCEPT
                  !.compose.status = "completed", !.compose.draft = TRUE,
                  !.compose.receipt = task.compose.admitted # {},
                  !.entry = [m \in Messages |->
                               IF m \in task.compose.admitted
                               THEN [@[m] EXCEPT !.state = "included"] ELSE @[m]],
                  !.feedback = @ \ task.compose.plan,
                  !.provider = [id |-> Round, status |-> "running"]]
    /\ owed' = "provider"
    /\ composer' = "off"
    /\ UNCHANGED <<saved, halt, sender, answering, journal, counters>>

(* compose.completed, refused: by the generation of a cancel, and then     *)
(* compose.withdrawn is refused too, or because a message of the batch was *)
(* removed.                                                                *)
RefuseRound ==
    /\ composer = "prepared" /\ halt \in {"no", "called"}
    /\ halt = "no" => Held(task.entry, Round) # task.compose.admitted
    /\ IF task.compose.admitted = {} THEN UNCHANGED <<rows, batch, prepared>>
                                     ELSE Rollback
    /\ IF halt = "no" THEN GivenUp("cancelled", "waiting", "none")
                      ELSE UNCHANGED task
    /\ composer' = "off"
    /\ UNCHANGED <<saved, owed, halt, sender, answering, final, counters>>

(* compose.failed: a barrier, a guard, an I/O error, or a message that is  *)
(* no longer there when the plan is frozen.                                *)
FailRound ==
    /\ composer \in {"taken", "frozen", "staged"} /\ halt = "no"
    /\ \/ /\ disturbances < MaxDisturbances
          /\ disturbances' = disturbances + 1
       \/ /\ composer = "taken" /\ ~Complete(task.compose.admitted)
          /\ UNCHANGED disturbances
    /\ Rollback
    /\ GivenUp("failed", "error", "recovery")
    /\ composer' = "off"
    /\ UNCHANGED <<saved, owed, halt, sender, answering, final, opened, cancels,
                   crashes, reopened, leftover>>

(* A barrier or the guard withdraws the round: the rows go; a staged batch,*)
(* which carries no text of its own, stays.                                *)
WithdrawRound ==
    /\ composer \in {"taken", "staged"} /\ halt = "no"
    /\ disturbances < MaxDisturbances
    /\ disturbances' = disturbances + 1
    /\ DiscardRows
    /\ GivenUp("cancelled", "waiting", "none")
    /\ composer' = "off"
    /\ UNCHANGED <<saved, owed, halt, sender, answering, batch, prepared, final,
                   opened, cancels, crashes, reopened, leftover>>

(* An aborted round discards its rows unless its draft is prepared, and    *)
(* reports nothing.  A freeze refused by the generation ends the same way. *)
StopRound ==
    /\ \/ halt = "stopping" /\ composer \in {"taken", "frozen", "staged"} /\ DiscardRows
       \/ halt = "stopping" /\ composer = "prepared" /\ UNCHANGED rows
       \/ halt = "called" /\ composer = "taken" /\ UNCHANGED rows
    /\ composer' = "off"
    /\ UNCHANGED <<task, saved, owed, halt, sender, answering, batch, prepared,
                   final, counters>>

-----------------------------------------------------------------------------
(* The provider executor.                                                  *)

Send ==
    /\ owed = "provider" /\ sender = "off"
    /\ saved.provider = task.provider
    /\ owed' = "none"
    /\ sender' = "running"
    /\ UNCHANGED <<task, saved, halt, composer, answering, journal, counters>>

(* provider.final, or provider.interrupted for a stopped reply that had    *)
(* already said something.                                                 *)
JournalResult ==
    /\ sender = "running"
    /\ final' = final \cup {task.provider.id}
    /\ sender' = "journaled"
    /\ UNCHANGED <<task, saved, owed, halt, composer, answering, rows, batch,
                   prepared, counters>>

(* provider.turn_ready. *)
TurnReady ==
    /\ sender = "journaled" /\ halt = "no"
    /\ \E turn \in {"tools", "asking"} :
          task' = [task EXCEPT
                     !.provider.status = "completed", !.phase = "running",
                     !.turn = turn,
                     !.entry = Consumed(@, InState(@, "included"))]
    /\ sender' = "off"
    /\ UNCHANGED <<saved, owed, halt, composer, answering, journal, counters>>

(* provider.failed says nothing about the messages the request carried. *)
FailRequest ==
    /\ sender = "running" /\ halt = "no"
    /\ disturbances < MaxDisturbances
    /\ disturbances' = disturbances + 1
    /\ task' = [task EXCEPT !.provider.status = "failed", !.phase = "error",
                            !.turn = "recovery"]
    /\ sender' = "off"
    /\ UNCHANGED <<saved, owed, halt, composer, answering, journal, opened,
                   cancels, crashes, reopened, leftover>>

(* An aborted request that said nothing withdraws its transient row; one   *)
(* whose result is journaled has its report refused.                       *)
StopRequest ==
    /\ \/ sender = "running" /\ halt = "stopping"
       \/ sender = "journaled" /\ halt # "no"
    /\ sender' = "off"
    /\ UNCHANGED <<task, saved, owed, halt, composer, answering, journal, counters>>

-----------------------------------------------------------------------------
(* Cancel, and the settlement after the participants drained.              *)

(* user.cancel: what a tool round holds may or may not be in the journal;  *)
(* a turn-end reservation has sent nothing.                                *)
Cancelled(entry) ==
    [m \in Messages |->
       IF entry[m].state \notin {"reserved", "included"} THEN entry[m]
       ELSE IF entry[m].delivery = TurnEnd
            THEN [entry[m] EXCEPT !.state = "released", !.delivery = NoDelivery]
            ELSE [entry[m] EXCEPT !.state = "uncertain"]]

Cancel ==
    /\ halt = "no" /\ cancels < MaxCancels
    /\ ActiveRound(task) \/ task.turn \in {"tools", "asking"}
    /\ cancels' = cancels + 1
    /\ task' = [task EXCEPT !.entry = Cancelled(@)]
    /\ owed' = "none"
    /\ halt' = "called"
    /\ reopened' = FALSE
    /\ UNCHANGED <<saved, composer, sender, answering, journal, opened, crashes,
                   disturbances, leftover>>

(* halt.stop is dispatched, once the cancel is durable. *)
Stop ==
    /\ halt = "called" /\ saved = Snapshot(task)
    /\ halt' = "stopping"
    /\ UNCHANGED <<task, saved, owed, composer, sender, answering, journal, counters>>

HaltDone ==
    LET over(s) == IF s = "running" THEN "cancelled" ELSE s IN
    /\ halt = "stopping" /\ composer = "off" /\ sender = "off"
    /\ task' = [task EXCEPT !.compose.status = over(@), !.provider.status = over(@),
                            !.phase = "paused", !.turn = "recovery"]
    /\ halt' = "settling"
    /\ UNCHANGED <<saved, owed, composer, sender, answering, journal, counters>>

(* reconcilePreparedRound, for the round whose plan is still frozen. *)
Retired == [task EXCEPT !.compose.planned = FALSE, !.compose.plan = {},
                        !.compose.draft = FALSE]

Restored ==
    [task EXCEPT !.compose.status = "completed", !.compose.draft = TRUE,
                 !.compose.receipt = task.compose.admitted # {},
                 !.entry = Consumed(@, {m \in task.compose.admitted :
                                          @[m].state # "removed"}),
                 !.feedback = @ \ task.compose.plan]

ReconcileKept ==
    /\ halt = "settling"
    /\ \/ ~task.compose.planned /\ UNCHANGED task
       \/ task.compose.planned /\ Round \in final /\ task' = Retired
       \/ /\ task.compose.planned /\ Round \notin final
          /\ prepared[Round] = "live" /\ task' = Restored
       \/ /\ task.compose.planned /\ Round \notin final
          /\ prepared[Round] # "live" /\ task' = Retired
    /\ halt' = "deciding"
    /\ UNCHANGED <<saved, owed, composer, sender, answering, journal, counters>>

Reconcile ==
    /\ halt = "settling"
    /\ \/ /\ ~task.compose.planned
          /\ UNCHANGED <<task, rows>>
       \/ /\ task.compose.planned /\ Round \in final
          /\ task' = Retired
          /\ UNCHANGED rows
       \/ /\ task.compose.planned /\ Round \notin final /\ prepared[Round] = "live"
          /\ task' = Restored
          /\ UNCHANGED rows
       \/ /\ task.compose.planned /\ Round \notin final /\ prepared[Round] # "live"
          /\ task' = Retired
          /\ DiscardRows
    /\ halt' = "deciding"
    /\ UNCHANGED <<saved, owed, composer, sender, answering, batch, prepared,
                   final, counters>>

DecisionTrusting(t, r) ==
    IF batch[r].state = "staged" THEN "consumed" ELSE "released"

(* settleRetainedQueueDeliveries on the delivery of round r, as state t    *)
(* knows it: "none" is the failure that leaves it undecided.               *)
Decision(t, r) ==
    LET own == t.compose.id = r IN
    CASE batch[r].state # "staged"                      -> "released"
      [] /\ batch[r].state = "staged"
         /\ batch[r].members # Held(t.entry, r)         -> "none"
      [] OTHER ->
           IF own /\ t.compose.planned /\ prepared[r] = "live" THEN "consumed"
           ELSE IF own /\ t.provider.id \in final
                THEN IF t.compose.receipt THEN "consumed" ELSE "none"
                ELSE "retracted"

Pending(t) == {r \in Rounds : Held(t.entry, r) # {}}

Decided(t, entry) ==
    [m \in Messages |->
       LET r == entry[m].delivery IN
       IF entry[m].state \notin InDelivery \/ r \notin Rounds THEN entry[m]
       ELSE CASE Decision(t, r) = "none" -> [entry[m] EXCEPT !.state = "uncertain"]
              [] Decision(t, r) = "consumed" -> [NoEntry EXCEPT !.state = "consumed"]
              [] OTHER ->
                   [entry[m] EXCEPT !.state = "released", !.delivery = NoDelivery]]

Retract(t) ==
    batch' = [r \in Rounds |->
                IF r \in Pending(t) /\ Decision(t, r) = "retracted"
                THEN Retracted(batch[r]) ELSE batch[r]]

Decide ==
    /\ halt = "deciding"
    /\ task' = [task EXCEPT !.entry = Decided(task, @)]
    /\ Retract(task)
    /\ halt' = "no"
    /\ UNCHANGED <<saved, owed, composer, sender, answering, rows, prepared,
                   final, counters>>

-----------------------------------------------------------------------------
(* The process ends; the owner opens the task from the saved snapshot, and *)
(* `open` settles it again before anything else is accepted.               *)

Normalized(entry) ==
    [m \in Messages |->
       IF entry[m].state = "reserved" /\ entry[m].delivery = TurnEnd
       THEN [entry[m] EXCEPT !.state = "released", !.delivery = NoDelivery]
       ELSE entry[m]]

HydrateKept(t) ==
    IF t.phase = "error" THEN t
    ELSE [t EXCEPT !.phase = "paused",
                   !.compose = IF ~@.planned THEN NoCompose
                               ELSE IF @.status = "running"
                                    THEN [@ EXCEPT !.status = "cancelled"] ELSE @]

(* An error restores its flow as it was; everything else is interrupted    *)
(* and keeps only a round whose plan was frozen.                           *)
Hydrate(t) ==
    IF t.phase = "error" THEN t
    ELSE [t EXCEPT !.phase = "paused", !.provider = NoProvider,
                   !.compose = IF ~@.planned THEN NoCompose
                               ELSE IF @.status = "running"
                                    THEN [@ EXCEPT !.status = "cancelled"] ELSE @]

Crash ==
    /\ crashes < MaxCrashes
    /\ crashes' = crashes + 1
    /\ task' = [Hydrate(saved) EXCEPT
                  !.entry = Normalized(Decided(saved, saved.entry)),
                  !.turn = "recovery"]
    /\ Retract(saved)
    /\ owed' = "none" /\ composer' = "off" /\ sender' = "off"
    /\ answering' = [at |-> "off", members |-> {}]
    /\ halt' = "settling"
    /\ reopened' = TRUE
    /\ UNCHANGED <<saved, rows, prepared, final, opened, cancels,
                   disturbances, leftover>>

-----------------------------------------------------------------------------
Next ==
    \/ Save
    \/ \E m \in Messages :
          \/ Enqueue(m) \/ Toggle(m) \/ StartEdit(m) \/ EndEdit(m) \/ Remove(m)
          \/ AppendRow(m)
    \/ Submit \/ ToolsSettle \/ Retry
    \/ ReserveTurnEnd \/ Materialize \/ Respond \/ GiveBack \/ AnswerByHand
    \/ Take \/ Freeze \/ Stage \/ Prepare \/ CompleteRound \/ RefuseRound
    \/ FailRound \/ WithdrawRound \/ StopRound
    \/ Send \/ JournalResult \/ TurnReady \/ FailRequest \/ StopRequest
    \/ Cancel \/ Stop \/ HaltDone \/ Reconcile \/ Decide
    \/ Crash

Spec == Init /\ [][Next]_vars
-----------------------------------------------------------------------------
(* Properties.                                                             *)

Statuses == {"none", "running", "completed", "failed", "cancelled"}

TaskType ==
    [entry    : [Messages -> [state : {"none", "accepted", "released", "removed",
                                       "consumed"} \cup InDelivery,
                              steering : BOOLEAN, editing : BOOLEAN,
                              delivery : {NoDelivery, TurnEnd} \cup Rounds]],
     feedback : SUBSET Messages,
     compose  : [id : {0} \cup Rounds, status : Statuses, admitted : SUBSET Messages,
                 planned : BOOLEAN, plan : SUBSET Messages,
                 draft : BOOLEAN, receipt : BOOLEAN],
     provider : [id : {0} \cup Rounds, status : Statuses],
     phase    : {"waiting", "running", "paused", "error"},
     turn     : {"none", "tools", "asking", "recovery"}]

(* Every variable of the code stays in its domain; an entry names a        *)
(* delivery exactly while one holds it (settleRetainedQueueDelivery drops  *)
(* the reservation).                                                       *)
TypeOK ==
    /\ task \in TaskType /\ saved \in TaskType
    /\ \A m \in Messages : task.entry[m].delivery # NoDelivery
                            <=> task.entry[m].state \in InDelivery
    /\ owed \in {"none", "compose", "provider"}
    /\ halt \in {"no", "called", "stopping", "settling", "deciding"}
    /\ composer \in {"off", "taken", "frozen", "staged", "prepared"}
    /\ sender \in {"off", "running", "journaled"}
    /\ answering \in [at : {"off", "reserved", "ready"}, members : SUBSET Messages]
    /\ rows \in [Rounds -> SUBSET Messages]
    /\ batch \in [Rounds -> [state : {"absent", "staged", "retracted"},
                             members : SUBSET Messages]]
    /\ prepared \in [Rounds -> {"absent", "live", "discarded"}]
    /\ final \subseteq Rounds

LiveIn(m) == {r \in Rounds : m \in rows[r]}

(* A message is in the conversation at most once: no two rounds hold a live *)
(* row of it, and outside a stop and a round being composed it has none if  *)
(* it is yet to be sent, being back in the queue or an answer that no round *)
(* has carried.                                                             *)
SentOnceBy(m) ==
    /\ Cardinality(LiveIn(m)) <= 1
    /\ /\ halt = "no" /\ composer = "off"
       /\ Mutable(task.entry[m]) \/ m \in task.feedback
       => LiveIn(m) = {}

(* So it is for every message, through stops, settlements, failed rounds    *)
(* and reopenings (executors/compose: RetainedQueueSettlement,              *)
(* PreparedRoundRecovery; round-material).                                  *)
SentOnce == \A m \in Messages : SentOnceBy(m)

(* The one way a message is sent twice is the one queue_resent shows: a     *)
(* request that failed still held it when a later round was opened.  Every  *)
(* other message is sent once, over any number of rounds, failed requests,  *)
(* cancels and crashes, and whatever becomes of the ones left over, the     *)
(* batches it shares with them included (RetainedQueueSettlement.ts).       *)
OnlyLeftAreResent == \A m \in Messages \ leftover : SentOnceBy(m)

(* A message the queue calls consumed is in the conversation, or is an      *)
(* answer the next round still has to carry: no cancel, failed round, crash *)
(* or settlement makes one disappear (intake.ts, round-material.ts).        *)
NothingLost ==
    \A m \in Messages :
        task.entry[m].state = "consumed" => m \in task.feedback \/ LiveIn(m) # {}

(* While the task is not being stopped, a message a tool round holds belongs *)
(* to a round in flight: reserved while that round is composed, included     *)
(* from then on, with its row in the conversation, until a request succeeds. *)
(* A request that failed leaves it included while later rounds run, which is *)
(* why provider.turn_ready may consume every included entry without asking   *)
(* whose it is (intake.ts, "turn_ready").                                    *)
HeldByTheRound ==
    \A m \in Messages : LET e == task.entry[m] IN
        halt = "no" /\ e.delivery \in Rounds =>
            /\ e.state = "reserved" => /\ e.delivery = Round /\ m \in task.compose.admitted
                                      /\ task.compose.status = "running"
            /\ e.state = "included" => /\ e.delivery <= task.provider.id
                                      /\ m \in rows[e.delivery]
                                      /\ task.provider.status \in {"running", "failed"}

(* A message the user is editing is out of reach: no delivery holds it, no   *)
(* answer has used it and no round being composed carries it, so the edit    *)
(* still decides what is sent (isDeliverableRetainedEntry).                  *)
EditedIsHeldBack ==
    \A m \in Messages :
        task.entry[m].editing =>
            /\ Mutable(task.entry[m]) /\ m \notin task.feedback
            /\ task.compose.status = "running" =>
                  m \notin task.compose.admitted \cup task.compose.plan

(* When the owner has opened a task, the journal has decided every delivery  *)
(* the crash interrupted, unless a message of its batch was removed in the   *)
(* meantime (TaskShellFactory.ts: inspectQueueSettlements, settle).          *)
OpeningDecides ==
    \A m \in Messages :
        halt = "no" /\ reopened /\ task.entry[m].state = "uncertain" =>
            ~Complete(batch[task.entry[m].delivery].members)

=============================================================================
