------------------------------- MODULE AwayMode -------------------------------
(***************************************************************************)
(* Away mode: the settings that permit it, the configuration each open     *)
(* task is told, the deadlines the kernel puts on questions and on         *)
(* approvals of external commands, and the one timer that answers them     *)
(* when nobody does.                                                       *)
(*                                                                         *)
(* Permission lives in two places.  AwaySettings publishes what the        *)
(* settings file and the feature gate say, at once; the kernel learns it   *)
(* through a queue of away.configured events.  A deadline carries the      *)
(* revocation numbers of the configuration it was armed under, and only    *)
(* those numbers tell an old permission from a renewed one.                *)
(*                                                                         *)
(* A step is what the code does between two awaits.  How the accepted      *)
(* answer reaches its receiver is left out: the outbox that delivers it is *)
(* TaskRuntime's.  So is the closing of a window, which only stops timers, *)
(* and the review of a compaction that interrupts a question.              *)
(***************************************************************************)
EXTENDS Naturals, Sequences

CONSTANTS Questions,    \* follow-up questions a task may ask, one open at a time
          Commands,     \* external commands that need an approval
          None,         \* no deadline, no mode, no timer
          AskTime,      \* ASK_AWAY_TIMEOUT_MS on the model's clock
          CommandTime,  \* EXTERNAL_COMMAND_TIMEOUT_MS on the model's clock
          MaxTime,      \* bound on the clock
          Preferred,    \* what each preference may be at first
          Bound         \* bound on what is asked, returns of the user, answers that
                        \* fail, writes of the settings, moves of the gate, cancels,
                        \* crashes and failed writes together

Items == Questions \cup Commands

ASSUME AwayAssumption == /\ Questions \cap Commands = {}
                         /\ None \notin Nat
                         /\ None \notin [at : Nat, mode : Nat, auto : Nat]
                         /\ None \notin [of : Items, at : Nat]
                         /\ {AskTime, CommandTime, MaxTime, Bound} \subseteq Nat
                         /\ Preferred \subseteq BOOLEAN

VARIABLES
  file,         \* the settings document: both preferences and both revocations
  host,         \* AwaySettings: the snapshot it has, the gate, what it withholds
  revoking,     \* a call that persists the pending revocation is under way
  facts,        \* the binding's queue of configurations for the kernel
  configuring,  \* the binding awaits the durability of its last one
  behind,       \* how many facts the opening of the task still waits for
  window,       \* the session: opening, reconciling, or open to timers
  kernel,       \* the task state in memory
  disk,         \* the task state of the last snapshot written
  store,        \* the commit pipeline: clean, writing or failed
  timer,        \* the scheduler's one wakeup
  delivering,   \* the deadline events between the timer and the kernel
  now,          \* the wall clock
  spent,        \* how many of the events that Bound bounds happened
  unseen,       \* history: preferences switched off and not yet adopted here
  withdrawn,    \* history: items whose permission was withdrawn once armed
  forgettable,  \* history: those of them that no file records yet
  missed        \* history: a write failed and no event became durable since

settings == <<file, host, revoking, unseen, withdrawn, forgettable>>
binding  == <<facts, configuring, behind, window>>
commit   == <<kernel, store>>
vars     == <<settings, binding, commit, disk, timer, delivering, now, spent, missed>>

-------------------------------------------------------------------------------
Settings == [away : BOOLEAN, automatic : BOOLEAN, mode : Nat, auto : Nat]
Facts    == [enabled : BOOLEAN, automatic : BOOLEAN, mode : Nat, auto : Nat]
Deadline == [at : Nat, mode : Nat, auto : Nat]
Status   == {"absent", "planned", "stranded", "awaiting", "resolving", "timed_out", "closed"}
Item     == [status : Status, deadline : Deadline \cup {None}]
State    == [cfg : Facts, away : Nat \cup {None}, active : BOOLEAN, halting : BOOLEAN,
             gen : Nat, item : [Items -> Item]]
Timer    == [of : Items, at : Nat]
Event    == [of : Items, at : Nat, gen : Nat]

TypeOK ==
  /\ file \in Settings
  /\ host \in [seen : Settings, gate : BOOLEAN, pending : BOOLEAN]
  /\ revoking \in BOOLEAN /\ configuring \in BOOLEAN /\ missed \in BOOLEAN
  /\ facts \in Seq(Facts)
  /\ behind \in Nat
  /\ window \in {"opening", "reconciling", "open"}
  /\ kernel \in State /\ disk \in State
  /\ store \in {"clean", "writing", "failed"}
  /\ timer \in Timer \cup {None}
  /\ delivering \in SUBSET Event
  /\ now \in Nat
  /\ spent \in Nat
  /\ unseen \in SUBSET {"mode", "auto"}
  /\ withdrawn \in SUBSET Items /\ forgettable \in SUBSET Items

Disabled == [enabled |-> FALSE, automatic |-> FALSE, mode |-> 0, auto |-> 0]

Init ==
  /\ file \in [away : Preferred, automatic : Preferred, mode : {0}, auto : {0}]
  /\ host = [seen |-> file, gate |-> TRUE, pending |-> FALSE]
  /\ revoking = FALSE
  /\ facts = <<>> /\ configuring = FALSE /\ behind = 0
  /\ window = "opening"
  /\ kernel = [cfg |-> Disabled, away |-> None, active |-> TRUE, halting |-> FALSE, gen |-> 0,
               item |-> [i \in Items |-> [status |-> "absent", deadline |-> None]]]
  /\ disk = kernel
  /\ store = "clean"
  /\ timer = None /\ delivering = {}
  /\ now = 0
  /\ spent = 0
  /\ unseen = {} /\ withdrawn = {} /\ forgettable = {} /\ missed = FALSE

-------------------------------------------------------------------------------
(* What the code reads of these states. *)

\* Storage that is not available has always left a revocation pending.
Enabled(h) == ~h.pending /\ h.gate /\ h.seen.away

Fact(h) == [enabled |-> Enabled(h), automatic |-> h.seen.automatic,
            mode |-> h.seen.mode, auto |-> h.seen.auto]

IsAway(k) == k.cfg.enabled /\ k.away = k.cfg.mode

Armed(k, i) == k.item[i].deadline # None

\* Mutant: no revocation numbers are compared.
ValidEver(k, i) == Armed(k, i) /\ k.cfg.enabled /\ (i \in Questions => k.cfg.automatic)

Valid(k, i) ==
  /\ Armed(k, i)
  /\ k.cfg.enabled
  /\ k.item[i].deadline.mode = k.cfg.mode
  /\ i \in Questions => k.cfg.automatic /\ k.item[i].deadline.auto = k.cfg.auto

\* dueAwayInteraction, apart from the clock.
Due(k, i) ==
  /\ ~k.halting /\ k.active
  /\ k.item[i].status = "awaiting"
  /\ Valid(k, i)
  /\ i \in Commands => IsAway(k)

DueItems(k) == {i \in Items : Due(k, i)}

Permitted(h, k, w) ==
  /\ w = "open"
  /\ Enabled(h)
  /\ k.cfg.mode = h.seen.mode
  /\ k.cfg.auto = h.seen.auto

First(k) == CHOOSE i \in DueItems(k) :
               \A j \in DueItems(k) : k.item[i].deadline.at <= k.item[j].deadline.at

\* TaskDeadlineScheduler.refresh: the timer it leaves.
Wakeup(h, k, w) ==
  IF Permitted(h, k, w) /\ DueItems(k) # {}
    THEN [of |-> First(k), at |-> k.item[First(k)].deadline.at]
    ELSE None

OpenQuestion(k) ==
  \E q \in Questions : k.item[q].status \notin {"absent", "closed"}

-------------------------------------------------------------------------------
(* The transitions of the kernel, as functions of its state. *)

SetItem(k, i, status) == [k EXCEPT !.item[i].status = status]

Revoke(k, I) == [k EXCEPT !.item = [i \in Items |->
  IF i \in I THEN [k.item[i] EXCEPT !.deadline = None] ELSE k.item[i]]]

Later(m, n) == IF m > n THEN m ELSE n

Configured(k, f) ==
  LET c == [k EXCEPT !.cfg = [f EXCEPT !.mode = Later(@, k.cfg.mode),
                                       !.auto = Later(@, k.cfg.auto)]]
      d == [c EXCEPT !.away = IF IsAway(c) THEN @ ELSE None]
  IN  Revoke(d, {i \in Items : ~Valid(d, i)})

\* The user's return and the button that stops the mode.
Returned(k) == [Revoke(k, Commands) EXCEPT !.away = None]

Entered(k) == IF k.cfg.enabled THEN [k EXCEPT !.away = k.cfg.mode] ELSE k

Arm(k, I, at) == [k EXCEPT !.item = [i \in Items |->
  IF i \in I
    THEN [status |-> "planned", deadline |->
           IF \/ i \in Questions /\ k.cfg.enabled /\ k.cfg.automatic
              \/ i \in Commands /\ IsAway(k)
             THEN [at |-> at, mode |-> k.cfg.mode, auto |-> k.cfg.auto]
             ELSE None]
    ELSE k.item[i]]]

\* acceptAwayDeadline.
TimedOut(k, i) ==
  LET a == [k EXCEPT !.item[i] = [status |-> "timed_out", deadline |-> None]]
  IN  IF i \in Questions THEN Entered(a) ELSE a

Accepts(k, e) ==
  /\ e.gen = k.gen
  /\ Due(k, e.of)
  /\ k.item[e.of].deadline.at = e.at
  /\ now >= e.at

\* A cancel fences the executors: what they prepare is not resumed.
Stopping(k) == [k EXCEPT !.halting = TRUE, !.gen = @ + 1, !.item = [i \in Items |->
  IF k.item[i].status = "planned" THEN [k.item[i] EXCEPT !.status = "stranded"]
                                  ELSE k.item[i]]]

\* Restorable approvals wake the task and take the place of its question;
\* without them it stays paused. What nobody settled is answerable again.
Hydrated(k) ==
  LET restorable == {c \in Commands : k.item[c].status \notin {"absent", "closed"}}
      dropped(i) == /\ i \in Questions /\ restorable # {}
                    /\ k.item[i].status \notin {"absent", "timed_out"}
      status(i)  == CASE k.item[i].status = "resolving" -> "awaiting"
                      [] k.item[i].status = "stranded"  -> "planned"
                      [] OTHER                          -> k.item[i].status
  IN  [k EXCEPT !.active = (restorable # {}), !.halting = FALSE, !.gen = @ + 1,
                !.item = [i \in Items |->
                  IF dropped(i) THEN [status |-> "closed", deadline |-> None]
                                ELSE [k.item[i] EXCEPT !.status = status(i)]]]

-------------------------------------------------------------------------------
(* The settings of the window and their binding to the task. *)

Spend == spent < Bound /\ spent' = spent + 1

\* The listeners of a publication run at once: the binding renews the timer
\* and queues the configuration for the kernel.
Publish(h) ==
  /\ host' = h
  /\ facts' = Append(facts, Fact(h))
  /\ timer' = Wakeup(h, kernel, window)
  /\ UNCHANGED <<configuring, behind, window, commit, disk, delivering, now, missed>>

ArmedItems == {i \in Items : Armed(kernel, i) \/ Armed(disk, i)}

Withdrawing(kinds) == CASE "mode" \in kinds -> ArmedItems
                        [] kinds = {"auto"} -> ArmedItems \cap Questions
                        [] OTHER            -> {}

\* A preference switched off leaves a new revocation number in the document,
\* whichever window writes it.
WriteSettings(away, automatic) ==
  LET mode == file.away /\ ~away
      auto == mode \/ (file.automatic /\ ~automatic)
  IN  /\ Spend
      /\ <<away, automatic>> # <<file.away, file.automatic>>
      /\ file' = [away |-> away, automatic |-> automatic,
                  mode |-> IF mode THEN file.mode + 1 ELSE file.mode,
                  auto |-> IF auto THEN file.auto + 1 ELSE file.auto]
      /\ unseen' = unseen \cup (IF mode THEN {"mode"} ELSE {})
                          \cup (IF auto THEN {"auto"} ELSE {})
      /\ UNCHANGED <<host, revoking, withdrawn, forgettable, binding, commit, disk,
                     timer, delivering, now, missed>>

\* The commit reaches this window. Its own call goes on to reconcile.
Adopt(own) ==
  /\ file # host.seen
  /\ Publish([host EXCEPT !.seen = file])
  /\ revoking' = (revoking \/ (own /\ host.pending))
  /\ unseen' = {}
  /\ withdrawn' = withdrawn \cup Withdrawing(unseen)
  /\ forgettable' = forgettable \ Withdrawing(unseen)
  /\ UNCHANGED <<file, spent>>

\* A write this window asked for fails: it withholds what it cannot record.
SettingsFail ==
  /\ Spend
  /\ Publish([host EXCEPT !.pending = TRUE])
  /\ withdrawn' = withdrawn \cup ArmedItems
  /\ forgettable' = forgettable \cup ArmedItems
  /\ UNCHANGED <<file, revoking, unseen>>

MoveGate ==
  /\ Spend
  /\ Publish([host EXCEPT !.gate = ~@, !.pending = @ \/ host.gate])
  /\ revoking' = (revoking \/ host.pending \/ host.gate)
  /\ withdrawn' = withdrawn \cup (IF host.gate THEN ArmedItems ELSE {})
  /\ forgettable' = forgettable \cup (IF host.gate THEN ArmedItems ELSE {})
  /\ UNCHANGED <<file, unseen>>

MayRevoke == host.pending /\ (revoking \/ window = "opening")

PersistRevocation ==
  /\ MayRevoke
  /\ file' = [file EXCEPT !.mode = @ + 1, !.auto = @ + 1]
  /\ Publish([host EXCEPT !.seen = file', !.pending = FALSE])
  /\ revoking' = FALSE
  /\ unseen' = {}
  /\ withdrawn' = withdrawn \cup ArmedItems
  /\ forgettable' = {}
  /\ UNCHANGED spent

\* It fails: nobody tries again before the next change or opening, and a task
\* that is opening goes on without the permission.
RevocationFails ==
  /\ MayRevoke
  /\ Spend
  /\ revoking' = FALSE
  /\ facts' = Append(facts, Fact(host))
  /\ IF window = "opening"
       THEN window' = "reconciling" /\ behind' = Len(facts')
       ELSE UNCHANGED <<window, behind>>
  /\ timer' = None
  /\ UNCHANGED <<file, host, unseen, withdrawn, forgettable, configuring, commit, disk,
                 delivering, now, missed>>

\* AwaySettings.reconcile, before a task that opens releases anything.
Reconcile ==
  /\ window = "opening" /\ ~host.pending
  /\ host' = [host EXCEPT !.seen = file]
  /\ facts' = Append(facts, Fact(host'))
  /\ window' = "reconciling" /\ behind' = Len(facts')
  /\ unseen' = {}
  /\ withdrawn' = withdrawn \cup Withdrawing(unseen)
  /\ UNCHANGED <<file, revoking, forgettable, configuring, commit, disk, timer,
                 delivering, now, spent, missed>>

\* Mutant: the restored deadlines wait for the next event.
ReleaseQuietly ==
  /\ window = "reconciling" /\ behind = 0 /\ ~configuring
  /\ window' = "open"
  /\ UNCHANGED <<settings, facts, configuring, behind, commit, disk, timer, delivering,
                 now, spent, missed>>

Release ==
  /\ window = "reconciling" /\ behind = 0 /\ ~configuring
  /\ window' = "open"
  /\ timer' = Wakeup(host, kernel, "open")
  /\ UNCHANGED <<settings, facts, configuring, behind, commit, disk, delivering, now,
                 spent, missed>>

TakeFact ==
  /\ facts # <<>> /\ ~configuring /\ window # "opening"
  /\ facts' = Tail(facts)
  /\ behind' = IF behind = 0 THEN 0 ELSE behind - 1
  /\ UNCHANGED <<settings, window, disk, timer, delivering, now, missed>>

\* away.configured; a configuration the kernel has already is not submitted.
Configure ==
  /\ TakeFact
  /\ store # "failed"
  /\ IF Head(facts) = kernel.cfg
       THEN UNCHANGED <<commit, configuring>>
       ELSE /\ kernel' = Configured(kernel, Head(facts))
            /\ store' = "writing"
            /\ configuring' = TRUE
  /\ UNCHANGED spent

\* The retry of the failed write fails too: the fact is reported and lost.
ConfigureThrows ==
  /\ TakeFact
  /\ store = "failed"
  /\ Spend
  /\ UNCHANGED <<commit, configuring>>

-------------------------------------------------------------------------------
(* The events of the task. *)

Accepted(k) ==
  /\ window = "open" /\ store # "failed"
  /\ kernel' = k
  /\ store' = "writing"
  /\ UNCHANGED <<file, host, revoking, unseen, forgettable, binding, disk, now, missed>>

Submit(k) ==
  /\ Accepted(k)
  /\ UNCHANGED <<timer, delivering, withdrawn>>

Working == kernel.active /\ ~kernel.halting

\* An interaction that is armed anew has the permission of this moment.
Ask(I, time) ==
  /\ Working
  /\ \A i \in I : kernel.item[i].status = "absent"
  /\ now + time <= MaxTime
  /\ Accepted(Arm(kernel, I, now + time))
  /\ withdrawn' = withdrawn \ I
  /\ UNCHANGED <<timer, delivering>>
  /\ Spend

AskQuestion(q) == ~OpenQuestion(kernel) /\ Ask({q}, AskTime)

PlanCommands(I) == I # {} /\ Ask(I, CommandTime)

Present(i) ==
  /\ ~kernel.halting /\ kernel.item[i].status = "planned"
  /\ Submit(SetItem(kernel, i, "awaiting"))
  /\ UNCHANGED spent

Answer(i, returned) ==
  /\ kernel.item[i].status = "awaiting"
  /\ Submit(SetItem(IF returned THEN Returned(kernel) ELSE kernel, i, "resolving"))
  /\ IF returned THEN Spend ELSE UNCHANGED spent

\* The answer could not be handed on: the interaction waits again.
Reopen(i) ==
  /\ ~kernel.halting /\ kernel.item[i].status = "resolving"
  /\ Spend
  /\ Submit(SetItem(kernel, i, "awaiting"))

\* Its receiver has the answer, or the task goes on with it.
Settle(i) ==
  /\ ~kernel.halting
  /\ \/ kernel.item[i].status = "resolving"
     \/ kernel.item[i].status = "timed_out" /\ kernel.active
  /\ Submit([SetItem(Revoke(kernel, {i}), i, "closed") EXCEPT !.active = TRUE])
  /\ UNCHANGED spent

EnterAway ==
  /\ kernel.cfg.enabled /\ ~IsAway(kernel)
  /\ Submit(Entered(kernel))
  /\ UNCHANGED spent

LeaveAway ==
  /\ Returned(kernel) # kernel
  /\ Spend
  /\ Submit(Returned(kernel))

Cancel ==
  /\ ~kernel.halting
  /\ Spend
  /\ Submit(Stopping(kernel))

Halted ==
  /\ kernel.halting
  /\ Submit([kernel EXCEPT !.halting = FALSE, !.active = FALSE])
  /\ UNCHANGED spent

Resume ==
  /\ ~kernel.active /\ ~kernel.halting
  /\ Submit([kernel EXCEPT !.active = TRUE])
  /\ UNCHANGED spent

-------------------------------------------------------------------------------
(* Deadlines. *)

Tick ==
  /\ now < MaxTime
  /\ now' = now + 1
  /\ UNCHANGED <<settings, binding, commit, disk, timer, delivering, spent, missed>>

Fire ==
  /\ timer # None
  /\ now >= timer.at
  /\ timer' = None
  /\ delivering' = IF Permitted(host, kernel, window)
                     THEN delivering \cup {[of |-> timer.of, at |-> timer.at, gen |-> kernel.gen]}
                     ELSE delivering
  /\ UNCHANGED <<settings, binding, commit, disk, now, spent, missed>>

\* away.deadline_due, after the await of recoverDurability.
AcceptDeadline(e) ==
  /\ e \in delivering /\ store # "failed"
  /\ Permitted(host, kernel, window) /\ Accepts(kernel, e)
  /\ Accepted(TimedOut(kernel, e.of))
  /\ delivering' = delivering \ {e}
  /\ timer' = Wakeup(host, kernel', window)
  /\ UNCHANGED <<withdrawn, spent>>

RefuseDeadline(e) ==
  /\ e \in delivering /\ store # "failed"
  /\ ~(Permitted(host, kernel, window) /\ Accepts(kernel, e))
  /\ delivering' = delivering \ {e}
  /\ timer' = Wakeup(host, kernel, window)
  /\ UNCHANGED <<settings, binding, commit, disk, now, spent, missed>>

\* The submission throws; the scheduler reports it and sets no timer.
DeadlineThrows(e) ==
  /\ e \in delivering /\ store = "failed"
  /\ Spend
  /\ delivering' = delivering \ {e}
  /\ UNCHANGED <<settings, binding, commit, disk, timer, now, missed>>

-------------------------------------------------------------------------------
(* Durability and the process. *)

\* Mutant: no timer is renewed when an event is durable.
SaveUnheard ==
  /\ store = "writing"
  /\ disk' = kernel
  /\ store' = "clean"
  /\ configuring' = FALSE
  /\ missed' = FALSE
  /\ UNCHANGED <<settings, facts, behind, window, kernel, timer, delivering, now, spent>>

\* Every accepted event renews the timer once it is durable.
Save ==
  /\ store = "writing"
  /\ disk' = kernel
  /\ store' = "clean"
  /\ configuring' = FALSE
  /\ missed' = FALSE
  /\ timer' = Wakeup(host, kernel, window)
  /\ UNCHANGED <<settings, facts, behind, window, kernel, delivering, now, spent>>

SaveFails ==
  /\ store = "writing"
  /\ Spend
  /\ store' = "failed"
  /\ configuring' = FALSE
  /\ missed' = TRUE
  /\ UNCHANGED <<settings, facts, behind, window, kernel, disk, timer, delivering, now>>

\* The next submission, or somebody's waitForDurable, writes it after all.
Recover ==
  /\ store = "failed"
  /\ disk' = kernel
  /\ store' = "clean"
  /\ UNCHANGED <<settings, binding, kernel, timer, delivering, now, spent, missed>>

\* The process dies and the task is opened again, with the gate as it then is.
Crash(gate) ==
  LET kept  == withdrawn \ forgettable
      again == {i \in Items : Armed(disk, i)}
      kinds == unseen \cup (IF gate THEN {} ELSE {"mode"})
  IN  /\ Spend
      /\ host' = [seen |-> file, gate |-> gate, pending |-> ~gate]
      /\ revoking' = ~gate
      /\ kernel' = Hydrated(disk)
      /\ store' = "clean"
      /\ facts' = <<>> /\ configuring' = FALSE /\ behind' = 0
      /\ window' = "opening"
      /\ timer' = None /\ delivering' = {}
      /\ unseen' = {} /\ missed' = FALSE
      /\ withdrawn' = kept \cup (again \cap Withdrawing(kinds))
      /\ forgettable' = IF gate THEN {} ELSE again
      /\ UNCHANGED <<file, disk, now>>

-------------------------------------------------------------------------------
Host == \/ \E away, automatic \in BOOLEAN : WriteSettings(away, automatic)
        \/ \E own \in BOOLEAN : Adopt(own)
        \/ SettingsFail \/ MoveGate \/ PersistRevocation \/ RevocationFails

Opening == Reconcile \/ Release \/ Configure \/ ConfigureThrows

Task == \/ \E q \in Questions : AskQuestion(q)
        \/ \E I \in SUBSET Commands : PlanCommands(I)
        \/ \E i \in Items : Present(i) \/ Reopen(i) \/ Settle(i)
        \/ \E i \in Items, returned \in BOOLEAN : Answer(i, returned)
        \/ EnterAway \/ LeaveAway \/ Cancel \/ Halted \/ Resume

Timed == \/ Tick \/ Fire
         \/ \E e \in delivering :
              AcceptDeadline(e) \/ RefuseDeadline(e) \/ DeadlineThrows(e)

Durable == Save \/ SaveFails \/ Recover \/ \E gate \in BOOLEAN : Crash(gate)

Next == Host \/ Opening \/ Task \/ Timed \/ Durable

Spec == Init /\ [][Next]_vars

\* Time passes, and what the process has under way goes on: promises settle,
\* the timer fires. Nothing is assumed of the user, of the gate, or of a store
\* that has failed.
Fairness ==
  /\ WF_vars(Tick) /\ WF_vars(Fire)
  /\ \A i \in Items : WF_vars(\E e \in delivering : e.of = i /\ (AcceptDeadline(e) \/ RefuseDeadline(e)))
  /\ WF_vars(Save) /\ WF_vars(Configure)
  /\ WF_vars(Reconcile) /\ WF_vars(Release) /\ WF_vars(PersistRevocation)

FairSpec == Spec /\ Fairness

-------------------------------------------------------------------------------
(* An answer given for the user needs a permission that was never          *)
(* interrupted since the deadline was set: once the mode, or for questions *)
(* its automatic entry, was switched off or the gate closed, no later      *)
(* switch, queue of configurations or reopening brings the deadline back.  *)
(* A crash may, before any file records the withdrawal: `forgettable'.     *)
(* (awaySettings.ts:133, away.ts:125, TaskRuntime.ts:154)                *)
WithdrawnNeverAnswers ==
  [][\A i \in Items : kernel.item[i].status = "awaiting" /\ kernel'.item[i].status = "timed_out"
                        => i \notin withdrawn]_vars

(* Between the saves the one timer is not lost: while timers are permitted *)
(* and an item is due, the wakeup is set for the earliest deadline or a    *)
(* deadline is on its way to the kernel.  Only a write that failed, with   *)
(* no event durable since, may leave it unset.                             *)
(* (TaskDeadlineScheduler.ts:29, TaskRuntime.ts:140)                       *)
WakeupIsKept ==
  Permitted(host, kernel, window) /\ DueItems(kernel) # {} /\ store = "clean" /\ ~missed
    => \/ timer = [of |-> First(kernel), at |-> kernel.item[First(kernel)].deadline.at]
       \/ delivering # {}

Owed(i) ==
  /\ Permitted(host, kernel, window) /\ Due(kernel, i)
  /\ now >= kernel.item[i].deadline.at
  /\ store # "failed" /\ ~missed

(* An interaction past its deadline is answered, unless its user, a        *)
(* withdrawal, a stop, a failing disk or the end of the process comes      *)
(* first: no order of publications, configurations, other deadlines and    *)
(* reopened answers leaves it waiting for ever.                            *)
DueIsAnswered == \A i \in Items : Owed(i) ~> ~Owed(i)
===============================================================================
