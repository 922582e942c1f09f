---------------------------- MODULE AwayModeProofs ----------------------------
(* Proofs about away mode, for any questions, commands, times and number of *)
(* events: a permission once withdrawn never answers, and the one timer is  *)
(* not lost between the saves.                                              *)
EXTENDS AwayMode, SequenceTheorems, WellFoundedInduction, TLAPS

\* The revocations an open task and its disk know are at most the window's s.
Behind(k, s) ==
    /\ k.cfg.mode <= s.mode /\ k.cfg.auto <= s.auto
    /\ \A i \in Items : Armed(k, i) => /\ k.item[i].deadline.mode <= s.mode
                                       /\ k.item[i].deadline.auto <= s.auto

\* The items of W whose deadlines the window's revocations s refuse, unless
\* they are in F.
Refused(k, s, W, F) ==
    \A i \in W : Armed(k, i) => \/ k.item[i].deadline.mode < s.mode
                                \/ i \in Questions /\ k.item[i].deadline.auto < s.auto
                                \/ i \in F

Withheld == IF host.pending THEN forgettable ELSE {}

\* The file is ahead of what the window has seen exactly where it switched off.
FileIsAhead ==
    /\ host.seen.mode <= file.mode /\ host.seen.auto <= file.auto
    /\ "mode" \in unseen => host.seen.mode < file.mode
    /\ "auto" \in unseen => host.seen.auto < file.auto

FactsAreSeen ==
    \A n \in 1..Len(facts) : facts[n].mode <= host.seen.mode /\ facts[n].auto <= host.seen.auto

NobodyIsAhead == Behind(kernel, host.seen) /\ Behind(disk, host.seen)

WithdrawnIsRefused ==
    /\ Refused(kernel, host.seen, withdrawn, Withheld)
    /\ Refused(disk, host.seen, withdrawn, Withheld)

FailureIsMissed == store = "failed" => missed

IInv ==
    /\ TypeOK
    /\ FileIsAhead
    /\ FactsAreSeen
    /\ NobodyIsAhead
    /\ WithdrawnIsRefused
    /\ FailureIsMissed
    /\ WakeupIsKept

-------------------------------------------------------------------------------
\* What a transition that arms nothing may do to the task k.
Inherits(m, k) ==
    /\ m \in State
    /\ m.cfg = k.cfg
    /\ \A i \in Items : Armed(m, i) => m.item[i].deadline = k.item[i].deadline

\* A task made of one that the window's revocations bound is bounded by them.
LEMMA InheritedBounds ==
    ASSUME NEW k, NEW m, NEW s, NEW W \in SUBSET Items, NEW F,
           Inherits(m, k), Behind(k, s), Refused(k, s, W, F)
    PROVE  Behind(m, s) /\ Refused(m, s, W, F)
<1>1. \A i \in Items : Armed(m, i) => Armed(k, i) /\ m.item[i].deadline = k.item[i].deadline
  BY DEF Inherits, Armed
<1>2. Behind(m, s)
  BY <1>1 DEF Inherits, Behind
<1>3. Refused(m, s, W, F)
  BY <1>1 DEF Refused
<1> QED
  BY <1>2, <1>3

\* Later revocations of the window still bound the task and still refuse.
LEMMA LaterBounds ==
    ASSUME NEW k \in State, NEW s \in Settings, NEW t \in Settings, NEW W \in SUBSET Items,
           NEW F, NEW G, s.mode <= t.mode, s.auto <= t.auto,
           Behind(k, s), Refused(k, s, W, F), (F \cap W) \subseteq G
    PROVE  Behind(k, t) /\ Refused(k, t, W, G)
<1>1. \A i \in Items : Armed(k, i) => k.item[i].deadline \in Deadline
  BY DEF State, Item, Armed
<1>2. k.cfg \in Facts
  BY DEF State
<1>3. Behind(k, t)
  BY <1>1, <1>2 DEF Behind, Settings, Deadline, Facts
<1>4. Refused(k, t, W, G)
  BY <1>1 DEF Refused, Settings, Deadline
<1> QED
  BY <1>3, <1>4

\* A new status arms nothing.
LEMMA SetItemInherits ==
    ASSUME NEW k \in State, NEW i \in Items, NEW status \in Status
    PROVE  Inherits(SetItem(k, i, status), k)
<1>1. SetItem(k, i, status) \in State
  BY DEF SetItem, State, Item
<1> QED
  BY <1>1 DEF Inherits, SetItem, State, Item, Armed

\* A revocation only takes deadlines away.
LEMMA RevokeInherits ==
    ASSUME NEW k \in State, NEW I
    PROVE  Inherits(Revoke(k, I), k)
<1> DEFINE item == [i \in Items |-> IF i \in I THEN [k.item[i] EXCEPT !.deadline = None] ELSE k.item[i]]
<1>1. item \in [Items -> Item]
  BY DEF State, Item
<1>2. Revoke(k, I) = [k EXCEPT !.item = item]
  BY DEF Revoke
<1>3. Revoke(k, I) \in State
  <2> HIDE DEF item
  <2> QED
    BY <1>1, <1>2 DEF State
<1>4. Revoke(k, I).cfg = k.cfg /\ Revoke(k, I).item = item
  BY <1>2 DEF State
<1>5. \A i \in Items : item[i].deadline # None => item[i].deadline = k.item[i].deadline
  BY DEF State, Item
<1> HIDE DEF item
<1> QED
  BY <1>3, <1>4, <1>5 DEF Inherits, Armed

\* Each transition of the kernel that arms nothing, in turn.
LEMMA ReturnedInherits ==
    ASSUME NEW k \in State
    PROVE  Inherits(Returned(k), k)
<1>1. Inherits(Revoke(k, Commands), k)
  BY RevokeInherits
<1>2. Returned(k) \in State
  BY <1>1 DEF Returned, Inherits, State
<1> QED
  BY <1>1, <1>2 DEF Returned, Inherits, State, Armed

\* Nor does entering the mode arm anything.
LEMMA EnteredInherits ==
    ASSUME NEW k \in State
    PROVE  Inherits(Entered(k), k)
<1>1. Entered(k) \in State
  BY DEF Entered, State, Facts
<1> QED
  BY <1>1 DEF Entered, Inherits, State, Armed

\* Two transitions that arm nothing arm nothing together.
LEMMA InheritsTwice ==
    ASSUME NEW k, NEW m, NEW n, Inherits(m, k), Inherits(n, m)
    PROVE  Inherits(n, k)
<1>1. \A i \in Items : Armed(n, i) => Armed(m, i)
  BY DEF Inherits, Armed
<1> QED
  BY <1>1 DEF Inherits

\* The accepted deadline is taken away.
LEMMA TimedOutInherits ==
    ASSUME NEW k \in State, NEW i \in Items
    PROVE  Inherits(TimedOut(k, i), k)
<1> DEFINE a == [k EXCEPT !.item[i] = [status |-> "timed_out", deadline |-> None]]
<1>1. a \in State
  BY DEF State, Item, Status
<1>2. Inherits(a, k)
  BY <1>1 DEF Inherits, State, Armed
<1> HIDE DEF a
<1>3. Inherits(Entered(a), k)
  BY <1>1, <1>2, EnteredInherits, InheritsTwice
<1>4. TimedOut(k, i) = IF i \in Questions THEN Entered(a) ELSE a
  BY DEF TimedOut, a
<1> QED
  BY <1>2, <1>3, <1>4

\* A stop keeps the deadlines of what waits.
LEMMA StoppingInherits ==
    ASSUME NEW k \in State
    PROVE  Inherits(Stopping(k), k)
<1> DEFINE item == [i \in Items |-> IF k.item[i].status = "planned"
                                      THEN [k.item[i] EXCEPT !.status = "stranded"] ELSE k.item[i]]
<1>1. item \in [Items -> Item]
  BY DEF State, Item, Status
<1>2. \A i \in Items : item[i].deadline = k.item[i].deadline
  BY DEF State, Item
<1>3. Stopping(k) = [k EXCEPT !.halting = TRUE, !.gen = k.gen + 1, !.item = item]
  BY DEF Stopping
<1> HIDE DEF item
<1>4. Stopping(k) = [cfg |-> k.cfg, away |-> k.away, active |-> k.active, halting |-> TRUE,
                     gen |-> k.gen + 1, item |-> item]
  BY <1>3 DEF State
<1>5. Stopping(k) \in State
  BY <1>1, <1>4 DEF State
<1> QED
  BY <1>2, <1>4, <1>5 DEF Inherits, Armed

\* A reopened task has at most the deadlines of its disk.
LEMMA HydratedInherits ==
    ASSUME NEW k \in State
    PROVE  Inherits(Hydrated(k), k)
<1> DEFINE restorable == {c \in Commands : k.item[c].status \notin {"absent", "closed"}}
           dropped(i) == /\ i \in Questions /\ restorable # {}
                         /\ k.item[i].status \notin {"absent", "timed_out"}
           status(i)  == CASE k.item[i].status = "resolving" -> "awaiting"
                           [] k.item[i].status = "stranded"  -> "planned"
                           [] OTHER                          -> k.item[i].status
           item == [i \in Items |-> IF dropped(i) THEN [status |-> "closed", deadline |-> None]
                                                  ELSE [k.item[i] EXCEPT !.status = status(i)]]
<1>1. Hydrated(k) = [k EXCEPT !.active = (restorable # {}), !.halting = FALSE, !.gen = k.gen + 1,
                              !.item = item]
  BY DEF Hydrated
<1>2. \A i \in Items : k.item[i] \in Item
  BY DEF State
<1>3. \A i \in Items : status(i) \in Status
  BY <1>2 DEF Item, Status
<1>4. item \in [Items -> Item]
  <2> HIDE DEF status
  <2> SUFFICES ASSUME NEW i \in Items
               PROVE  item[i] \in Item
    BY DEF item
  <2>1. [k.item[i] EXCEPT !.status = status(i)] \in Item
    BY <1>2, <1>3 DEF Item
  <2>2. [status |-> "closed", deadline |-> None] \in Item
    BY DEF Item, Status
  <2> QED
    BY <2>1, <2>2
<1>5. \A i \in Items : item[i].deadline # None => item[i].deadline = k.item[i].deadline
  <2> HIDE DEF status
  <2> SUFFICES ASSUME NEW i \in Items
               PROVE  item[i].deadline # None => item[i].deadline = k.item[i].deadline
    OBVIOUS
  <2>1. [k.item[i] EXCEPT !.status = status(i)].deadline = k.item[i].deadline
    BY <1>2 DEF Item
  <2> QED
    BY <2>1
<1> HIDE DEF item, restorable
<1>6. Hydrated(k) = [cfg |-> k.cfg, away |-> k.away, active |-> (restorable # {}), halting |-> FALSE,
                     gen |-> k.gen + 1, item |-> item]
  BY <1>1 DEF State
<1>7. Hydrated(k) \in State
  BY <1>4, <1>6 DEF State
<1> QED
  BY <1>5, <1>6, <1>7 DEF Inherits, Armed

\* A configuration the window has seen leaves the task within its bounds.
LEMMA ConfiguredBounds ==
    ASSUME NEW k \in State, NEW f \in Facts, NEW s \in Settings, NEW W \in SUBSET Items, NEW F,
           f.mode <= s.mode, f.auto <= s.auto, Behind(k, s), Refused(k, s, W, F)
    PROVE  /\ Configured(k, f) \in State
           /\ Behind(Configured(k, f), s)
           /\ Refused(Configured(k, f), s, W, F)
<1> DEFINE g == [f EXCEPT !.mode = Later(f.mode, k.cfg.mode), !.auto = Later(f.auto, k.cfg.auto)]
           c == [k EXCEPT !.cfg = g]
           d == [c EXCEPT !.away = IF IsAway(c) THEN c.away ELSE None]
<1>1. g \in Facts /\ g.mode <= s.mode /\ g.auto <= s.auto
  BY DEF Facts, State, Later, Behind
<1> HIDE DEF g
<1>2. c \in State /\ c.cfg = g /\ c.item = k.item
  BY <1>1 DEF State
<1> HIDE DEF c
<1>3. d \in State /\ d.cfg = g /\ d.item = k.item
  BY <1>2 DEF State
<1>4. Configured(k, f) = Revoke(d, {i \in Items : ~Valid(d, i)})
  BY DEF Configured, c, g
<1> HIDE DEF d
<1>5. Behind(d, s) /\ Refused(d, s, W, F)
  BY <1>1, <1>3 DEF Behind, Refused, Armed
<1>6. Inherits(Configured(k, f), d)
  BY <1>3, <1>4, RevokeInherits
<1> QED
  BY <1>5, <1>6, InheritedBounds DEF Inherits

\* A deadline is armed with the revocations the task knows.
LEMMA ArmBounds ==
    ASSUME NEW k \in State, NEW I \in SUBSET Items, NEW at \in Nat, NEW s, NEW W \in SUBSET Items, NEW F,
           Behind(k, s), Refused(k, s, W, F)
    PROVE  /\ Arm(k, I, at) \in State
           /\ Behind(Arm(k, I, at), s)
           /\ Refused(Arm(k, I, at), s, W \ I, F)
<1> DEFINE due(i) == IF \/ i \in Questions /\ k.cfg.enabled /\ k.cfg.automatic
                        \/ i \in Commands /\ IsAway(k)
                       THEN [at |-> at, mode |-> k.cfg.mode, auto |-> k.cfg.auto]
                       ELSE None
           item == [i \in Items |-> IF i \in I THEN [status |-> "planned", deadline |-> due(i)] ELSE k.item[i]]
<1>1. Arm(k, I, at) = [k EXCEPT !.item = item]
  BY DEF Arm
<1>2. [at |-> at, mode |-> k.cfg.mode, auto |-> k.cfg.auto] \in Deadline
  BY DEF State, Facts, Deadline
<1>3. \A i \in Items : /\ due(i) \in Deadline \cup {None}
                       /\ due(i) # None => due(i).mode = k.cfg.mode /\ due(i).auto = k.cfg.auto
  BY <1>2
<1> HIDE DEF due
<1>4. item \in [Items -> Item]
  BY <1>3 DEF State, Item, Status
<1>5. \A i \in Items : item[i] = IF i \in I THEN [status |-> "planned", deadline |-> due(i)] ELSE k.item[i]
  OBVIOUS
<1> HIDE DEF item
<1>6. Arm(k, I, at) \in State /\ Arm(k, I, at).cfg = k.cfg /\ Arm(k, I, at).item = item
  BY <1>1, <1>4 DEF State
<1>7. \A i \in Items : item[i].deadline # None
         => IF i \in I THEN item[i].deadline.mode = k.cfg.mode /\ item[i].deadline.auto = k.cfg.auto
                       ELSE item[i].deadline = k.item[i].deadline
  <2> SUFFICES ASSUME NEW i \in Items, item[i].deadline # None
               PROVE  IF i \in I THEN item[i].deadline.mode = k.cfg.mode /\ item[i].deadline.auto = k.cfg.auto
                                 ELSE item[i].deadline = k.item[i].deadline
    OBVIOUS
  <2>1. CASE i \in I
    <3>1. item[i] = [status |-> "planned", deadline |-> due(i)]
      BY <1>5, <2>1
    <3>2. item[i].deadline = due(i)
      BY <3>1
    <3> QED
      BY <1>3, <2>1, <3>2
  <2>2. CASE i \notin I
    BY <1>5, <2>2
  <2> QED
    BY <2>1, <2>2
<1>8. Behind(Arm(k, I, at), s)
  BY <1>6, <1>7 DEF Behind, Armed
<1>9. Refused(Arm(k, I, at), s, W \ I, F)
  BY <1>5, <1>6 DEF Refused, Armed
<1> QED
  BY <1>6, <1>8, <1>9

\* The wakeup is for an item: among those due one has the earliest deadline.
LEMMA WakeupTyped ==
    ASSUME NEW h, NEW k \in State, NEW w
    PROVE  Wakeup(h, k, w) \in Timer \cup {None}
<1> SUFFICES ASSUME DueItems(k) # {}
             PROVE  [of |-> First(k), at |-> k.item[First(k)].deadline.at] \in Timer
  BY DEF Wakeup
<1> DEFINE T == {k.item[i].deadline.at : i \in DueItems(k)}
<1>1. \A i \in DueItems(k) : i \in Items /\ k.item[i].deadline \in Deadline
  BY DEF DueItems, Due, Valid, Armed, State, Item
<1>2. T \subseteq Nat /\ T # {}
  BY <1>1 DEF Deadline
<1>3. PICK x \in T : \A y \in T : ~(<<y, x>> \in OpToRel(<, Nat))
  <2> HIDE DEF T
  <2> QED
    BY <1>2, NatLessThanWellFounded, WFMin
<1>4. \A y \in T : x <= y
  <2> HIDE DEF T
  <2> SUFFICES ASSUME NEW y \in T, ~(x <= y)
               PROVE  FALSE
    OBVIOUS
  <2>1. x \in T
    BY <1>3, Zenon
  <2>2. <<y, x>> \in {ss \in Nat \X Nat : ss[1] < ss[2]}
    BY <1>2, <2>1
  <2>3. <<y, x>> \in OpToRel(<, Nat)
    BY <2>2, Zenon DEF OpToRel
  <2> QED
    BY <1>3, <2>3, Zenon
<1>5. PICK i \in DueItems(k) : x = k.item[i].deadline.at
  OBVIOUS
<1>6. \A j \in DueItems(k) : k.item[i].deadline.at <= k.item[j].deadline.at
  BY <1>4, <1>5
<1>7. First(k) \in DueItems(k)
  BY <1>6 DEF First
<1> QED
  BY <1>1, <1>7 DEF Timer, Deadline

-------------------------------------------------------------------------------
\* The invariant from its parts in the state after a step, where TypeOK is
\* given by the variables that steps change together.
SettingsTyped ==
    /\ file \in Settings
    /\ host \in [seen : Settings, gate : BOOLEAN, pending : BOOLEAN]
    /\ revoking \in BOOLEAN
    /\ unseen \in SUBSET {"mode", "auto"}
    /\ withdrawn \in SUBSET Items /\ forgettable \in SUBSET Items

BindingTyped ==
    /\ facts \in Seq(Facts)
    /\ configuring \in BOOLEAN
    /\ behind \in Nat
    /\ window \in {"opening", "reconciling", "open"}

TaskTyped ==
    /\ kernel \in State /\ disk \in State
    /\ store \in {"clean", "writing", "failed"}
    /\ missed \in BOOLEAN

TimerTyped ==
    /\ timer \in Timer \cup {None}
    /\ delivering \in SUBSET Event
    /\ now \in Nat
    /\ spent \in Nat

\* The type invariant is that of its four parts.
LEMMA TypeParts == TypeOK <=> SettingsTyped /\ BindingTyped /\ TaskTyped /\ TimerTyped
BY DEF TypeOK, SettingsTyped, BindingTyped, TaskTyped, TimerTyped

(* A window that opens a new task withholds and withdraws nothing, and the *)
(* invariant holds of it. (awaySettings.ts:32) *)
THEOREM InitEstablishes == Init => IInv
<1> SUFFICES ASSUME Init PROVE IInv
  OBVIOUS
<1>1. file \in Settings /\ file.mode = 0 /\ file.auto = 0
  BY AwayAssumption DEF Init, Settings
<1>2. SettingsTyped
  BY <1>1 DEF Init, SettingsTyped
<1>3. kernel \in State
  BY DEF Init, State, Disabled, Facts, Item, Status
<1>4. BindingTyped /\ TaskTyped /\ TimerTyped
  <2>1. BindingTyped
    <3>1. facts = <<>> /\ configuring = FALSE /\ behind = 0 /\ window = "opening"
      BY DEF Init
    <3>2. facts \in Seq(Facts)
      BY <3>1
    <3> QED
      BY <3>1, <3>2 DEF BindingTyped
  <2>2. TaskTyped
    BY <1>3 DEF Init, TaskTyped
  <2>3. TimerTyped
    BY DEF Init, TimerTyped
  <2> QED
    BY <2>1, <2>2, <2>3
<1>5. FileIsAhead /\ FactsAreSeen /\ FailureIsMissed
  BY <1>1 DEF Init, FileIsAhead, FactsAreSeen, FailureIsMissed
<1>6. NobodyIsAhead /\ WithdrawnIsRefused
  BY <1>1 DEF Init, NobodyIsAhead, WithdrawnIsRefused, Behind, Refused, Disabled, Armed
<1>7. WakeupIsKept
  BY DEF Init, WakeupIsKept, Permitted
<1> QED
  BY <1>2, <1>4, <1>5, <1>6, <1>7, TypeParts DEF IInv

\* The bound on events counts upwards.
LEMMA SpendTyped == ASSUME spent \in Nat, Spend PROVE spent' \in Nat
BY DEF Spend

\* A step that leaves the settings, the task and the disk alone.
LEMMA QuietStep ==
    ASSUME IInv, UNCHANGED <<file, host, unseen, withdrawn, forgettable, kernel, disk>>,
           revoking' \in BOOLEAN, BindingTyped', TimerTyped', FactsAreSeen',
           store' \in {"clean", "writing", "failed"}, missed' \in BOOLEAN,
           FailureIsMissed', WakeupIsKept'
    PROVE  IInv'
<1>1. SettingsTyped' /\ TaskTyped'
  BY TypeParts DEF IInv, SettingsTyped, TaskTyped
<1>2. TypeOK'
  BY <1>1, TypeParts DEF TypeOK, SettingsTyped, TaskTyped, BindingTyped, TimerTyped
<1>3. FileIsAhead'
  BY DEF IInv, FileIsAhead
<1>4. NobodyIsAhead'
  BY DEF IInv, NobodyIsAhead
<1>5. WithdrawnIsRefused'
  BY DEF IInv, WithdrawnIsRefused, Withheld
<1> QED
  BY <1>2, <1>3, <1>4, <1>5 DEF IInv

\* An accepted event that leaves the task within the window's bounds.
LEMMA AcceptedStep ==
    ASSUME IInv, NEW k \in State, Accepted(k), spent' \in Nat,
           timer' \in Timer \cup {None}, delivering' \in SUBSET Event,
           withdrawn' \in SUBSET withdrawn,
           Behind(k, host.seen), Refused(k, host.seen, withdrawn', Withheld)
    PROVE  IInv'
<1>1. /\ kernel' = k /\ store' = "writing"
      /\ UNCHANGED <<file, host, revoking, unseen, forgettable, facts, configuring, behind,
                     window, disk, now, missed>>
  BY DEF Accepted, binding
<1>2. SettingsTyped' /\ BindingTyped' /\ TaskTyped' /\ TimerTyped'
  BY <1>1, TypeParts DEF IInv, SettingsTyped, BindingTyped, TaskTyped, TimerTyped
<1>3. TypeOK'
  BY <1>2 DEF TypeOK, SettingsTyped, BindingTyped, TaskTyped, TimerTyped
<1>4. FileIsAhead' /\ FactsAreSeen' /\ FailureIsMissed'
  BY <1>1 DEF IInv, FileIsAhead, FactsAreSeen, FailureIsMissed
<1>5. NobodyIsAhead'
  BY <1>1 DEF IInv, NobodyIsAhead
<1>6. Withheld' = Withheld
  BY <1>1 DEF Withheld
<1>7. Refused(disk, host.seen, withdrawn', Withheld)
  BY DEF IInv, WithdrawnIsRefused, Refused
<1>8. WithdrawnIsRefused'
  BY <1>1, <1>6, <1>7 DEF WithdrawnIsRefused
<1>9. WakeupIsKept'
  BY <1>1 DEF WakeupIsKept
<1> QED
  BY <1>3, <1>4, <1>5, <1>8, <1>9 DEF IInv

\* The window hears of settings h and queues the configuration for the kernel.
LEMMA SettingsStep ==
    ASSUME IInv, NEW h \in [seen : Settings, gate : BOOLEAN, pending : BOOLEAN],
           host' = h, facts' = Append(facts, Fact(h)),
           UNCHANGED <<configuring, kernel, store, disk, delivering, now, missed>>,
           window' \in {"opening", "reconciling", "open"}, behind' \in Nat,
           timer' \in Timer \cup {None}, spent' \in Nat,
           file' \in Settings, revoking' \in BOOLEAN, unseen' \in SUBSET {"mode", "auto"},
           withdrawn' \in SUBSET Items, forgettable' \in SUBSET Items,
           host.seen.mode <= h.seen.mode, host.seen.auto <= h.seen.auto,
           FileIsAhead', WakeupIsKept',
           \A k \in {kernel, disk} : Refused(k, h.seen, withdrawn', Withheld')
    PROVE  IInv'
<1>1. Fact(h) \in Facts /\ Fact(h).mode = h.seen.mode /\ Fact(h).auto = h.seen.auto
  BY DEF Fact, Facts, Enabled, Settings
<1>2. facts \in Seq(Facts) /\ host.seen \in Settings
  BY DEF IInv, TypeOK
<1>3. facts' \in Seq(Facts)
  BY <1>1, <1>2
<1>4. SettingsTyped' /\ BindingTyped' /\ TaskTyped' /\ TimerTyped'
  BY <1>3, TypeParts DEF IInv, SettingsTyped, BindingTyped, TaskTyped, TimerTyped
<1>5. TypeOK'
  BY <1>4 DEF TypeOK, SettingsTyped, BindingTyped, TaskTyped, TimerTyped
<1>6. FactsAreSeen'
  <2> SUFFICES ASSUME NEW n \in 1..Len(facts')
               PROVE  facts'[n].mode <= h.seen.mode /\ facts'[n].auto <= h.seen.auto
    BY DEF FactsAreSeen
  <2>1. facts'[n] = IF n = Len(facts) + 1 THEN Fact(h) ELSE facts[n]
    BY <1>1, <1>2
  <2>2. Len(facts') = Len(facts) + 1
    BY <1>1, <1>2
  <2>3. CASE n = Len(facts) + 1
    BY <1>1, <2>1, <2>3 DEF Settings
  <2>4. CASE n # Len(facts) + 1
    <3>1. n \in 1..Len(facts) /\ facts[n] \in Facts
      BY <1>2, <2>2, <2>4
    <3>2. facts[n].mode <= host.seen.mode /\ facts[n].auto <= host.seen.auto
      BY <3>1 DEF IInv, FactsAreSeen
    <3>3. facts'[n] = facts[n]
      BY <2>1, <2>4
    <3>4. /\ facts[n].mode \in Nat /\ facts[n].auto \in Nat
          /\ host.seen.mode \in Nat /\ host.seen.auto \in Nat
          /\ h.seen.mode \in Nat /\ h.seen.auto \in Nat
      BY <1>2, <3>1 DEF Facts, Settings
    <3> QED
      BY <3>2, <3>3, <3>4
  <2> QED
    BY <2>3, <2>4
<1>7. NobodyIsAhead'
  <2>1. \A k \in {kernel, disk} : Refused(k, host.seen, {}, {})
    BY DEF Refused
  <2>2. \A k \in {kernel, disk} : k \in State /\ Behind(k, host.seen)
    BY DEF IInv, TypeOK, NobodyIsAhead
  <2>3. \A k \in {kernel, disk} : Behind(k, h.seen)
    BY <1>2, <2>1, <2>2, LaterBounds
  <2> QED
    BY <2>3 DEF NobodyIsAhead
<1>8. WithdrawnIsRefused'
  BY DEF WithdrawnIsRefused
<1>9. FailureIsMissed'
  BY DEF IInv, FailureIsMissed
<1> QED
  BY <1>5, <1>6, <1>7, <1>8, <1>9 DEF IInv

\* A publication: the listeners renew the timer besides.
LEMMA PublishStep ==
    ASSUME IInv, NEW h \in [seen : Settings, gate : BOOLEAN, pending : BOOLEAN], Publish(h),
           file' \in Settings, revoking' \in BOOLEAN, unseen' \in SUBSET {"mode", "auto"},
           withdrawn' \in SUBSET Items, forgettable' \in SUBSET Items, spent' \in Nat,
           host.seen.mode <= h.seen.mode, host.seen.auto <= h.seen.auto,
           FileIsAhead',
           \A k \in {kernel, disk} : Refused(k, h.seen, withdrawn', Withheld')
    PROVE  IInv'
<1>1. /\ host' = h /\ facts' = Append(facts, Fact(h)) /\ timer' = Wakeup(h, kernel, window)
      /\ UNCHANGED <<configuring, behind, window, kernel, store, disk, delivering, now, missed>>
  BY DEF Publish, commit
<1>2. timer' \in Timer \cup {None}
  BY <1>1, WakeupTyped DEF IInv, TypeOK
<1>3. window' \in {"opening", "reconciling", "open"} /\ behind' \in Nat
  BY <1>1 DEF IInv, TypeOK
<1>4. WakeupIsKept'
  BY <1>1 DEF WakeupIsKept, Wakeup
<1> QED
  BY <1>1, <1>2, <1>3, <1>4, SettingsStep

\* Whatever is armed is refused once the window has seen a later withdrawal.
LEMMA WithdrawingRefuses ==
    ASSUME IInv, NEW k \in {kernel, disk}, NEW kinds \in SUBSET {"mode", "auto"},
           NEW s \in Settings, host.seen.mode <= s.mode, host.seen.auto <= s.auto,
           "mode" \in kinds => host.seen.mode < s.mode,
           "auto" \in kinds => host.seen.auto < s.auto,
           NEW G, \A i \in Withheld \cap ArmedItems : i \in G \cup Withdrawing(kinds)
    PROVE  Refused(k, s, withdrawn \cup Withdrawing(kinds), G)
<1>1. k \in State /\ withdrawn \subseteq Items /\ host.seen \in Settings
  BY DEF IInv, TypeOK
<1>2. \A i \in Items : Armed(k, i) => k.item[i].deadline \in Deadline
  BY <1>1 DEF State, Item, Armed
<1>3. \A i \in Items : Armed(k, i) => /\ k.item[i].deadline.mode <= host.seen.mode
                                      /\ k.item[i].deadline.auto <= host.seen.auto
  BY DEF IInv, NobodyIsAhead, Behind
<1>4. \A i \in Withdrawing(kinds) :
         /\ i \in Items
         /\ "mode" \in kinds \/ (i \in Questions /\ "auto" \in kinds)
  BY DEF Withdrawing, ArmedItems
<1>5. \A i \in Withdrawing(kinds) : Armed(k, i) => \/ k.item[i].deadline.mode < s.mode
                                                   \/ i \in Questions /\ k.item[i].deadline.auto < s.auto
  BY <1>1, <1>2, <1>3, <1>4 DEF Settings, Deadline
<1>6. Refused(k, host.seen, withdrawn, Withheld)
  BY DEF IInv, WithdrawnIsRefused
<1>7. \A i \in withdrawn : Armed(k, i) => \/ k.item[i].deadline.mode < s.mode
                                          \/ i \in Questions /\ k.item[i].deadline.auto < s.auto
                                          \/ i \in Withheld
  BY <1>1, <1>2, <1>6 DEF Refused, Settings, Deadline
<1>8. \A i \in withdrawn : Armed(k, i) => i \in ArmedItems
  BY <1>1 DEF ArmedItems
<1> QED
  BY <1>5, <1>7, <1>8 DEF Refused

-------------------------------------------------------------------------------
\* The steps of the settings.
LEMMA WriteSettingsKeeps ==
    ASSUME IInv, NEW away \in BOOLEAN, NEW automatic \in BOOLEAN, WriteSettings(away, automatic)
    PROVE  IInv'
<1> DEFINE mode == file.away /\ ~away
           auto == mode \/ (file.automatic /\ ~automatic)
<1>1. /\ file' = [away |-> away, automatic |-> automatic,
                  mode |-> IF mode THEN file.mode + 1 ELSE file.mode,
                  auto |-> IF auto THEN file.auto + 1 ELSE file.auto]
      /\ unseen' = unseen \cup (IF mode THEN {"mode"} ELSE {}) \cup (IF auto THEN {"auto"} ELSE {})
      /\ UNCHANGED <<host, revoking, withdrawn, forgettable, facts, configuring, behind, window,
                     kernel, store, disk, timer, delivering, now, missed>>
  BY DEF WriteSettings, binding, commit
<1>2. file \in Settings /\ host.seen \in Settings /\ unseen \in SUBSET {"mode", "auto"} /\ spent \in Nat
  BY DEF IInv, TypeOK
<1>3. spent' \in Nat
  BY <1>2, SpendTyped DEF WriteSettings
<1>4. file' \in Settings
  BY <1>1, <1>2 DEF Settings
<1>5. unseen' \in SUBSET {"mode", "auto"}
  BY <1>1, <1>2
<1>6. SettingsTyped' /\ BindingTyped' /\ TaskTyped' /\ TimerTyped'
  BY <1>1, <1>3, <1>4, <1>5, TypeParts DEF IInv, SettingsTyped, BindingTyped, TaskTyped, TimerTyped
<1>7. TypeOK'
  BY <1>6 DEF TypeOK, SettingsTyped, BindingTyped, TaskTyped, TimerTyped
<1>8. FileIsAhead'
  <2>1. FileIsAhead
    BY DEF IInv
  <2>2. /\ file'.mode = IF mode THEN file.mode + 1 ELSE file.mode
        /\ file'.auto = IF auto THEN file.auto + 1 ELSE file.auto
    BY <1>1
  <2>3. "mode" \in unseen' => "mode" \in unseen \/ mode
    BY <1>1
  <2>4. "auto" \in unseen' => "auto" \in unseen \/ auto
    BY <1>1
  <2> HIDE DEF mode, auto
  <2> QED
    BY <1>1, <1>2, <2>1, <2>2, <2>3, <2>4 DEF FileIsAhead, Settings
<1>9. FactsAreSeen' /\ NobodyIsAhead' /\ FailureIsMissed' /\ WakeupIsKept'
  BY <1>1 DEF IInv, FactsAreSeen, NobodyIsAhead, FailureIsMissed, WakeupIsKept
<1>10. WithdrawnIsRefused'
  BY <1>1 DEF IInv, WithdrawnIsRefused, Withheld
<1> QED
  BY <1>7, <1>8, <1>9, <1>10 DEF IInv

\* What the file has and the window had not seen becomes a refusal.
LEMMA AdoptKeeps ==
    ASSUME IInv, NEW own \in BOOLEAN, Adopt(own)
    PROVE  IInv'
<1> DEFINE h == [host EXCEPT !.seen = file]
<1>1. /\ Publish(h) /\ revoking' = (revoking \/ (own /\ host.pending)) /\ unseen' = {}
      /\ withdrawn' = withdrawn \cup Withdrawing(unseen)
      /\ forgettable' = forgettable \ Withdrawing(unseen)
      /\ UNCHANGED <<file, spent>>
  BY DEF Adopt
<1>2. /\ file \in Settings /\ host \in [seen : Settings, gate : BOOLEAN, pending : BOOLEAN]
      /\ revoking \in BOOLEAN /\ unseen \in SUBSET {"mode", "auto"}
      /\ withdrawn \subseteq Items /\ forgettable \subseteq Items /\ spent \in Nat
  BY DEF IInv, TypeOK
<1>3. h \in [seen : Settings, gate : BOOLEAN, pending : BOOLEAN] /\ h.seen = file /\ h.pending = host.pending
  BY <1>2
<1> HIDE DEF h
<1>4. host' = h
  BY <1>1 DEF Publish
<1>5. host.seen.mode <= file.mode /\ host.seen.auto <= file.auto
  BY DEF IInv, FileIsAhead
<1>6. FileIsAhead'
  BY <1>1, <1>2, <1>3, <1>4 DEF FileIsAhead, Settings
<1>7. Withdrawing(unseen) \subseteq Items
  BY DEF Withdrawing, ArmedItems
<1>8. \A i \in Withheld \cap ArmedItems : i \in Withheld' \cup Withdrawing(unseen)
  BY <1>1, <1>3, <1>4 DEF Withheld
<1>9. \A k \in {kernel, disk} : Refused(k, file, withdrawn \cup Withdrawing(unseen), Withheld')
  BY <1>2, <1>5, <1>8, WithdrawingRefuses DEF IInv, FileIsAhead
<1> QED
  BY <1>1, <1>2, <1>3, <1>5, <1>6, <1>7, <1>9, PublishStep

\* What the window withholds until it has recorded it is withheld by itself.
LEMMA WithholdingRefuses ==
    ASSUME IInv, Withheld \subseteq Withheld', NEW W, W \subseteq withdrawn \cup Withheld'
    PROVE  \A k \in {kernel, disk} : Refused(k, host.seen, W, Withheld')
BY DEF IInv, WithdrawnIsRefused, Refused

\* The pending revocation withholds every deadline.
LEMMA SettingsFailKeeps ==
    ASSUME IInv, SettingsFail
    PROVE  IInv'
<1> DEFINE h == [host EXCEPT !.pending = TRUE]
<1>1. /\ Publish(h) /\ withdrawn' = withdrawn \cup ArmedItems /\ forgettable' = forgettable \cup ArmedItems
      /\ UNCHANGED <<file, revoking, unseen>>
  BY DEF SettingsFail
<1>2. /\ file \in Settings /\ host \in [seen : Settings, gate : BOOLEAN, pending : BOOLEAN]
      /\ revoking \in BOOLEAN /\ unseen \in SUBSET {"mode", "auto"}
      /\ withdrawn \subseteq Items /\ forgettable \subseteq Items /\ spent \in Nat
  BY DEF IInv, TypeOK
<1>3. h \in [seen : Settings, gate : BOOLEAN, pending : BOOLEAN] /\ h.seen = host.seen /\ h.pending
  BY <1>2
<1> HIDE DEF h
<1>4. host' = h /\ spent' \in Nat
  BY <1>1, <1>2, SpendTyped DEF Publish, SettingsFail
<1>5. FileIsAhead'
  BY <1>1, <1>3, <1>4 DEF IInv, FileIsAhead
<1>6. Withheld' = forgettable \cup ArmedItems
  BY <1>1, <1>3, <1>4 DEF Withheld
<1>7. \A k \in {kernel, disk} : Refused(k, host.seen, withdrawn', Withheld')
  BY <1>1, <1>6, WithholdingRefuses DEF Withheld
<1>8. ArmedItems \subseteq Items
  BY DEF ArmedItems
<1>9. host.seen.mode <= h.seen.mode /\ host.seen.auto <= h.seen.auto
  BY <1>2, <1>3 DEF Settings
<1> QED
  BY <1>1, <1>2, <1>3, <1>4, <1>5, <1>7, <1>8, <1>9, PublishStep

\* So it does when the gate closes.
LEMMA MoveGateKeeps ==
    ASSUME IInv, MoveGate
    PROVE  IInv'
<1> DEFINE h == [host EXCEPT !.gate = ~host.gate, !.pending = host.pending \/ host.gate]
           I == IF host.gate THEN ArmedItems ELSE {}
<1>1. /\ Publish(h) /\ withdrawn' = withdrawn \cup I /\ forgettable' = forgettable \cup I
      /\ revoking' = (revoking \/ host.pending \/ host.gate) /\ UNCHANGED <<file, unseen>>
  BY DEF MoveGate
<1>2. /\ file \in Settings /\ host \in [seen : Settings, gate : BOOLEAN, pending : BOOLEAN]
      /\ revoking \in BOOLEAN /\ unseen \in SUBSET {"mode", "auto"}
      /\ withdrawn \subseteq Items /\ forgettable \subseteq Items /\ spent \in Nat
  BY DEF IInv, TypeOK
<1>3. /\ h \in [seen : Settings, gate : BOOLEAN, pending : BOOLEAN] /\ h.seen = host.seen
      /\ h.pending = (host.pending \/ host.gate)
  BY <1>2
<1>4. I \subseteq Items /\ (I # {} => host.gate)
  BY DEF ArmedItems
<1> HIDE DEF h, I
<1>5. host' = h /\ spent' \in Nat
  BY <1>1, <1>2, SpendTyped DEF Publish, MoveGate
<1>6. FileIsAhead'
  BY <1>1, <1>3, <1>5 DEF IInv, FileIsAhead
<1>7. Withheld \subseteq Withheld' /\ I \subseteq Withheld'
  BY <1>1, <1>3, <1>4, <1>5 DEF Withheld
<1>8. \A k \in {kernel, disk} : Refused(k, host.seen, withdrawn', Withheld')
  BY <1>1, <1>7, WithholdingRefuses
<1>9. host.seen.mode <= h.seen.mode /\ host.seen.auto <= h.seen.auto
  BY <1>2, <1>3 DEF Settings
<1> QED
  BY <1>1, <1>2, <1>3, <1>4, <1>5, <1>6, <1>8, <1>9, PublishStep

\* Both revocation numbers move on.
LEMMA RevokedTyped ==
    ASSUME NEW f \in Settings, NEW g, g = [f EXCEPT !.mode = f.mode + 1, !.auto = f.auto + 1]
    PROVE  g \in Settings /\ g.mode = f.mode + 1 /\ g.auto = f.auto + 1
<1>1. f.mode + 1 \in Nat /\ f.auto + 1 \in Nat
  BY DEF Settings
<1> SUFFICES ASSUME NEW m \in Nat, NEW a \in Nat, g = [f EXCEPT !.mode = m, !.auto = a]
             PROVE  g \in Settings /\ g.mode = m /\ g.auto = a
  BY <1>1
<1> QED
  BY DEF Settings

\* The new numbers refuse whatever was armed before them.
LEMMA PersistRevocationKeeps ==
    ASSUME IInv, PersistRevocation
    PROVE  IInv'
<1> DEFINE s == [file EXCEPT !.mode = file.mode + 1, !.auto = file.auto + 1]
           h == [host EXCEPT !.seen = s, !.pending = FALSE]
           kinds == {"mode", "auto"}
<1>1. /\ file' = s /\ Publish(h) /\ revoking' = FALSE /\ unseen' = {} /\ forgettable' = {}
      /\ withdrawn' = withdrawn \cup ArmedItems /\ spent' = spent
  BY DEF PersistRevocation
<1>2. /\ file \in Settings /\ host \in [seen : Settings, gate : BOOLEAN, pending : BOOLEAN]
      /\ withdrawn \subseteq Items /\ spent \in Nat
  BY DEF IInv, TypeOK
<1>3. s \in Settings /\ s.mode = file.mode + 1 /\ s.auto = file.auto + 1
  <2>1. s = [file EXCEPT !.mode = file.mode + 1, !.auto = file.auto + 1]
    OBVIOUS
  <2> HIDE DEF s
  <2> QED
    BY <1>2, <2>1, RevokedTyped
<1> HIDE DEF s
<1>4. h \in [seen : Settings, gate : BOOLEAN, pending : BOOLEAN] /\ h.seen = s /\ ~h.pending
  BY <1>2, <1>3
<1> HIDE DEF h
<1>5. host' = h
  BY <1>1 DEF Publish
<1>6. host.seen.mode < s.mode /\ host.seen.auto < s.auto
  BY <1>2, <1>3 DEF IInv, FileIsAhead, Settings
<1>7. host.seen.mode <= s.mode /\ host.seen.auto <= s.auto
  BY <1>2, <1>3, <1>6 DEF Settings
<1>8. FileIsAhead'
  BY <1>1, <1>3, <1>4, <1>5 DEF FileIsAhead, Settings
<1>9. Withdrawing(kinds) = ArmedItems /\ ArmedItems \subseteq Items
  BY DEF Withdrawing, ArmedItems
<1>10. \A k \in {kernel, disk} : Refused(k, s, withdrawn', Withheld')
  <2>1. Withheld' = {}
    BY <1>4, <1>5 DEF Withheld
  <2>2. \A i \in Withheld \cap ArmedItems : i \in Withheld' \cup Withdrawing(kinds)
    BY <1>9
  <2>3. \A k \in {kernel, disk} : Refused(k, s, withdrawn \cup Withdrawing(kinds), Withheld')
    BY <1>3, <1>6, <1>7, <2>2, WithdrawingRefuses
  <2> QED
    BY <1>1, <1>9, <2>3
<1> QED
  BY <1>1, <1>2, <1>3, <1>4, <1>7, <1>8, <1>9, <1>10, PublishStep

\* The revocation stays pending, and withholds.
LEMMA RevocationFailsKeeps ==
    ASSUME IInv, RevocationFails
    PROVE  IInv'
<1>1. /\ host.pending /\ facts' = Append(facts, Fact(host)) /\ revoking' = FALSE /\ timer' = None
      /\ UNCHANGED <<file, host, unseen, withdrawn, forgettable, configuring, kernel, store, disk,
                     delivering, now, missed>>
  BY DEF RevocationFails, MayRevoke, commit
<1>2. /\ file \in Settings /\ host \in [seen : Settings, gate : BOOLEAN, pending : BOOLEAN]
      /\ unseen \in SUBSET {"mode", "auto"} /\ withdrawn \subseteq Items /\ forgettable \subseteq Items
      /\ spent \in Nat /\ facts \in Seq(Facts)
      /\ window \in {"opening", "reconciling", "open"} /\ behind \in Nat
  BY DEF IInv, TypeOK
<1>3. Fact(host) \in Facts
  BY <1>2 DEF Fact, Facts, Enabled, Settings
<1>4. Len(facts') \in Nat
  BY <1>1, <1>2, <1>3
<1>5. window' \in {"opening", "reconciling", "open"} /\ behind' \in Nat
  BY <1>2, <1>4 DEF RevocationFails
<1>6. spent' \in Nat
  BY <1>2, SpendTyped DEF RevocationFails
<1>7. FileIsAhead'
  BY <1>1 DEF IInv, FileIsAhead
<1>8. WakeupIsKept'
  BY <1>1 DEF WakeupIsKept, Permitted, Enabled
<1>9. Withheld' = Withheld
  BY <1>1 DEF Withheld
<1>10. \A k \in {kernel, disk} : Refused(k, host.seen, withdrawn', Withheld')
  BY <1>1, <1>9 DEF IInv, WithdrawnIsRefused
<1>11. host.seen.mode <= host.seen.mode /\ host.seen.auto <= host.seen.auto
  BY <1>2 DEF Settings
<1>12. /\ host' = host /\ timer' \in Timer \cup {None}
       /\ UNCHANGED <<configuring, kernel, store, disk, delivering, now, missed>>
       /\ file' \in Settings /\ revoking' \in BOOLEAN /\ unseen' \in SUBSET {"mode", "auto"}
       /\ withdrawn' \in SUBSET Items /\ forgettable' \in SUBSET Items
  BY <1>1, <1>2
<1> QED
  BY <1>1, <1>2, <1>5, <1>6, <1>7, <1>8, <1>10, <1>11, <1>12, SettingsStep

\* An opening window sees the file as an adoption does.
LEMMA ReconcileKeeps ==
    ASSUME IInv, Reconcile
    PROVE  IInv'
<1> DEFINE h == [host EXCEPT !.seen = file]
<1>1. /\ host' = h /\ facts' = Append(facts, Fact(host')) /\ ~host.pending
      /\ window' = "reconciling" /\ behind' = Len(facts') /\ unseen' = {}
      /\ withdrawn' = withdrawn \cup Withdrawing(unseen)
      /\ UNCHANGED <<file, revoking, forgettable, configuring, kernel, store, disk, timer, delivering,
                     now, spent, missed>>
  BY DEF Reconcile, commit
<1>2. /\ file \in Settings /\ host \in [seen : Settings, gate : BOOLEAN, pending : BOOLEAN]
      /\ revoking \in BOOLEAN /\ unseen \in SUBSET {"mode", "auto"}
      /\ withdrawn \subseteq Items /\ forgettable \subseteq Items
      /\ spent \in Nat /\ facts \in Seq(Facts) /\ timer \in Timer \cup {None}
  BY DEF IInv, TypeOK
<1>3. /\ h \in [seen : Settings, gate : BOOLEAN, pending : BOOLEAN] /\ h.seen = file
      /\ h.pending = host.pending
  BY <1>2
<1> HIDE DEF h
<1>4. Fact(h) \in Facts
  BY <1>3 DEF Fact, Facts, Enabled, Settings
<1>5. Len(facts') \in Nat
  BY <1>1, <1>2, <1>4
<1>6. host.seen.mode <= h.seen.mode /\ host.seen.auto <= h.seen.auto
  BY <1>3 DEF IInv, FileIsAhead
<1>7. FileIsAhead'
  BY <1>1, <1>2, <1>3 DEF FileIsAhead, Settings
<1>8. WakeupIsKept'
  BY <1>1 DEF WakeupIsKept, Permitted
<1>9. Withdrawing(unseen) \subseteq Items
  BY DEF Withdrawing, ArmedItems
<1>10. \A i \in Withheld \cap ArmedItems : i \in Withheld' \cup Withdrawing(unseen)
  BY <1>1 DEF Withheld
<1>11. \A k \in {kernel, disk} : Refused(k, h.seen, withdrawn', Withheld')
  BY <1>1, <1>2, <1>3, <1>6, <1>10, WithdrawingRefuses DEF IInv, FileIsAhead
<1>12. /\ facts' = Append(facts, Fact(h)) /\ window' \in {"opening", "reconciling", "open"}
       /\ behind' \in Nat /\ timer' \in Timer \cup {None} /\ spent' \in Nat /\ file' \in Settings
       /\ revoking' \in BOOLEAN /\ unseen' \in SUBSET {"mode", "auto"}
       /\ withdrawn' \in SUBSET Items /\ forgettable' \in SUBSET Items
       /\ UNCHANGED <<configuring, kernel, store, disk, delivering, now, missed>>
  BY <1>1, <1>2, <1>5, <1>9
<1> QED
  BY <1>1, <1>3, <1>6, <1>7, <1>8, <1>11, <1>12, SettingsStep

-------------------------------------------------------------------------------
\* The opening of the task and its configurations.
LEMMA ReleaseKeeps ==
    ASSUME IInv, Release
    PROVE  IInv'
<1>1. /\ window' = "open" /\ timer' = Wakeup(host, kernel, "open")
      /\ UNCHANGED <<file, host, revoking, unseen, withdrawn, forgettable, facts, configuring, behind,
                     kernel, store, disk, delivering, now, spent, missed>>
  BY DEF Release, settings, commit
<1>2. timer' \in Timer \cup {None}
  BY <1>1, WakeupTyped DEF IInv, TypeOK
<1>3. BindingTyped' /\ TimerTyped' /\ revoking' \in BOOLEAN
  BY <1>1, <1>2, TypeParts DEF IInv, BindingTyped, TimerTyped, SettingsTyped
<1>4. store' \in {"clean", "writing", "failed"} /\ missed' \in BOOLEAN
  BY <1>1 DEF IInv, TypeOK
<1>5. FactsAreSeen' /\ FailureIsMissed'
  BY <1>1 DEF IInv, FactsAreSeen, FailureIsMissed
<1>6. WakeupIsKept'
  BY <1>1 DEF WakeupIsKept, Wakeup
<1> QED
  BY <1>1, <1>3, <1>4, <1>5, <1>6, QuietStep

\* Taking a configuration off the queue.
LEMMA TakeFactKeeps ==
    ASSUME IInv, TakeFact
    PROVE  /\ facts' \in Seq(Facts) /\ behind' \in Nat
           /\ Head(facts) \in Facts
           /\ Head(facts).mode <= host.seen.mode /\ Head(facts).auto <= host.seen.auto
           /\ \A n \in 1..Len(facts') : facts'[n].mode <= host.seen.mode /\ facts'[n].auto <= host.seen.auto
<1>1. facts \in Seq(Facts) /\ facts # <<>> /\ facts' = Tail(facts) /\ behind \in Nat
      /\ behind' = (IF behind = 0 THEN 0 ELSE behind - 1)
  BY DEF IInv, TypeOK, TakeFact
<1>2. Len(facts) >= 1 /\ Len(facts) \in Nat /\ Head(facts) = facts[1] /\ facts[1] \in Facts
  BY <1>1
<1>3. /\ facts' \in Seq(Facts) /\ Len(facts') = Len(facts) - 1
      /\ \A n \in 1..Len(facts') : facts'[n] = facts[n + 1]
  BY <1>1, <1>2
<1>4. \A n \in 1..Len(facts') : n + 1 \in 1..Len(facts)
  BY <1>2, <1>3
<1>5. \A n \in 1..Len(facts) : facts[n].mode <= host.seen.mode /\ facts[n].auto <= host.seen.auto
  BY DEF IInv, FactsAreSeen
<1>6. behind' \in Nat
  BY <1>1
<1> QED
  BY <1>2, <1>3, <1>4, <1>5, <1>6

\* A configuration of the queue was seen by the window before.
LEMMA ConfigureKeeps ==
    ASSUME IInv, Configure
    PROVE  IInv'
<1> DEFINE f == Head(facts)
<1>1. /\ facts' \in Seq(Facts) /\ behind' \in Nat /\ f \in Facts
      /\ f.mode <= host.seen.mode /\ f.auto <= host.seen.auto
      /\ \A n \in 1..Len(facts') : facts'[n].mode <= host.seen.mode /\ facts'[n].auto <= host.seen.auto
  BY TakeFactKeeps DEF Configure
<1>2. UNCHANGED <<file, host, revoking, unseen, withdrawn, forgettable, window, disk, timer,
                  delivering, now, missed, spent>>
  BY DEF Configure, TakeFact, settings
<1>3. FactsAreSeen'
  BY <1>1, <1>2 DEF FactsAreSeen
<1> HIDE DEF f
<1>4. CASE f = kernel.cfg
  <2>1. UNCHANGED <<kernel, store, configuring>>
    BY <1>4 DEF Configure, commit, f
  <2>2. BindingTyped' /\ TimerTyped' /\ revoking' \in BOOLEAN
    BY <1>1, <1>2, <2>1, TypeParts DEF IInv, BindingTyped, TimerTyped, SettingsTyped
  <2>3. store' \in {"clean", "writing", "failed"} /\ missed' \in BOOLEAN
    BY <1>2, <2>1 DEF IInv, TypeOK
  <2>4. FailureIsMissed' /\ WakeupIsKept'
    BY <1>2, <2>1 DEF IInv, FailureIsMissed, WakeupIsKept
  <2> QED
    BY <1>2, <1>3, <2>1, <2>2, <2>3, <2>4, QuietStep
<1>5. CASE f # kernel.cfg
  <2>1. kernel' = Configured(kernel, f) /\ store' = "writing" /\ configuring' = TRUE
    BY <1>5 DEF Configure, f
  <2>2. /\ kernel \in State /\ host.seen \in Settings /\ withdrawn \in SUBSET Items
        /\ Behind(kernel, host.seen) /\ Refused(kernel, host.seen, withdrawn, Withheld)
    BY DEF IInv, TypeOK, NobodyIsAhead, WithdrawnIsRefused
  <2>3. /\ kernel' \in State /\ Behind(kernel', host.seen)
        /\ Refused(kernel', host.seen, withdrawn, Withheld)
    BY <1>1, <2>1, <2>2, ConfiguredBounds
  <2>4. SettingsTyped' /\ BindingTyped' /\ TaskTyped' /\ TimerTyped'
    BY <1>1, <1>2, <2>1, <2>3, TypeParts DEF IInv, SettingsTyped, BindingTyped, TaskTyped, TimerTyped
  <2>5. TypeOK'
    BY <2>4 DEF TypeOK, SettingsTyped, BindingTyped, TaskTyped, TimerTyped
  <2>6. FileIsAhead' /\ FailureIsMissed' /\ WakeupIsKept'
    BY <1>2, <2>1 DEF IInv, FileIsAhead, FailureIsMissed, WakeupIsKept
  <2>7. NobodyIsAhead' /\ WithdrawnIsRefused'
    BY <1>2, <2>3 DEF IInv, NobodyIsAhead, WithdrawnIsRefused, Withheld
  <2> QED
    BY <1>3, <2>5, <2>6, <2>7 DEF IInv
<1> QED
  BY <1>4, <1>5

\* A configuration that is lost moves no number.
LEMMA ConfigureThrowsKeeps ==
    ASSUME IInv, ConfigureThrows
    PROVE  IInv'
<1>1. /\ facts' \in Seq(Facts) /\ behind' \in Nat
      /\ \A n \in 1..Len(facts') : facts'[n].mode <= host.seen.mode /\ facts'[n].auto <= host.seen.auto
  BY TakeFactKeeps DEF ConfigureThrows
<1>2. UNCHANGED <<file, host, revoking, unseen, withdrawn, forgettable, window, kernel, store,
                  configuring, disk, timer, delivering, now, missed>>
  BY DEF ConfigureThrows, TakeFact, settings, commit
<1>3. spent' \in Nat
  BY SpendTyped DEF ConfigureThrows, IInv, TypeOK
<1>4. BindingTyped' /\ TimerTyped' /\ revoking' \in BOOLEAN
  BY <1>1, <1>2, <1>3, TypeParts DEF IInv, BindingTyped, TimerTyped, SettingsTyped
<1>5. store' \in {"clean", "writing", "failed"} /\ missed' \in BOOLEAN
  BY <1>2 DEF IInv, TypeOK
<1>6. FactsAreSeen' /\ FailureIsMissed' /\ WakeupIsKept'
  BY <1>1, <1>2 DEF IInv, FactsAreSeen, FailureIsMissed, WakeupIsKept
<1> QED
  BY <1>2, <1>4, <1>5, <1>6, QuietStep

-------------------------------------------------------------------------------
\* The events of the task.
LEMMA FlagsInherit ==
    ASSUME NEW k \in State, NEW a \in BOOLEAN, NEW h \in BOOLEAN
    PROVE  Inherits([k EXCEPT !.halting = h, !.active = a], k)
<1>1. [k EXCEPT !.halting = h, !.active = a] \in State
  BY DEF State
<1> QED
  BY <1>1 DEF Inherits, State, Armed

\* A task that goes on arms nothing by it.
LEMMA ActiveInherits ==
    ASSUME NEW k \in State
    PROVE  Inherits([k EXCEPT !.active = TRUE], k)
<1>1. [k EXCEPT !.active = TRUE] \in State
  BY DEF State
<1> QED
  BY <1>1 DEF Inherits, State, Armed

\* An event whose transition arms nothing keeps the invariant.
LEMMA SubmitKeeps ==
    ASSUME IInv, NEW k, Inherits(k, kernel), Submit(k), spent' \in Nat
    PROVE  IInv'
<1>1. Accepted(k) /\ UNCHANGED <<timer, delivering, withdrawn>>
  BY DEF Submit
<1>2. /\ withdrawn \in SUBSET Items /\ timer \in Timer \cup {None} /\ delivering \in SUBSET Event
      /\ Behind(kernel, host.seen) /\ Refused(kernel, host.seen, withdrawn, Withheld)
  BY DEF IInv, TypeOK, NobodyIsAhead, WithdrawnIsRefused
<1>3. Behind(k, host.seen) /\ Refused(k, host.seen, withdrawn, Withheld)
  BY <1>2, InheritedBounds
<1>4. /\ k \in State /\ withdrawn' = withdrawn /\ withdrawn' \in SUBSET withdrawn
      /\ timer' \in Timer \cup {None} /\ delivering' \in SUBSET Event
  BY <1>1, <1>2 DEF Inherits
<1>5. Refused(k, host.seen, withdrawn', Withheld)
  BY <1>3, <1>4
<1> QED
  BY <1>1, <1>3, <1>4, <1>5, AcceptedStep

\* A fresh item is armed under the present numbers and forgets its withdrawal.
LEMMA AskKeeps ==
    ASSUME IInv, NEW I \in SUBSET Items, NEW time \in Nat, Ask(I, time)
    PROVE  IInv'
<1> DEFINE k == Arm(kernel, I, now + time)
<1>1. Accepted(k) /\ withdrawn' = withdrawn \ I /\ UNCHANGED <<timer, delivering>>
  BY DEF Ask
<1>2. /\ kernel \in State /\ withdrawn \in SUBSET Items /\ now \in Nat /\ spent \in Nat
      /\ timer \in Timer \cup {None} /\ delivering \in SUBSET Event
      /\ Behind(kernel, host.seen) /\ Refused(kernel, host.seen, withdrawn, Withheld)
  BY DEF IInv, TypeOK, NobodyIsAhead, WithdrawnIsRefused
<1>3. spent' \in Nat
  BY <1>2, SpendTyped DEF Ask
<1>4. now + time \in Nat
  BY <1>2
<1>5. k \in State /\ Behind(k, host.seen) /\ Refused(k, host.seen, withdrawn \ I, Withheld)
  BY <1>2, <1>4, ArmBounds
<1> HIDE DEF k
<1>6. /\ Refused(k, host.seen, withdrawn', Withheld) /\ withdrawn' \in SUBSET withdrawn
      /\ timer' \in Timer \cup {None} /\ delivering' \in SUBSET Event
  BY <1>1, <1>2, <1>5
<1> QED
  BY <1>1, <1>3, <1>5, <1>6, AcceptedStep

\* Each event of the task, by what its transition inherits.
LEMMA TaskKeeps ==
    ASSUME IInv, Task
    PROVE  IInv'
<1>1. kernel \in State /\ spent \in Nat
  BY DEF IInv, TypeOK
<1>2. {"awaiting", "resolving", "closed"} \subseteq Status
  BY DEF Status
<1>3. ASSUME NEW q \in Questions, AskQuestion(q) PROVE IInv'
  <2>1. {q} \in SUBSET Items /\ AskTime \in Nat /\ Ask({q}, AskTime)
    BY <1>3, AwayAssumption DEF AskQuestion, Items
  <2> QED
    BY <2>1, AskKeeps
<1>4. ASSUME NEW I \in SUBSET Commands, PlanCommands(I) PROVE IInv'
  <2>1. I \in SUBSET Items /\ CommandTime \in Nat /\ Ask(I, CommandTime)
    BY <1>4, AwayAssumption DEF PlanCommands, Items
  <2> QED
    BY <2>1, AskKeeps
<1>5. ASSUME NEW i \in Items, Present(i) PROVE IInv'
  <2>1. Submit(SetItem(kernel, i, "awaiting")) /\ spent' \in Nat
    BY <1>1, <1>5 DEF Present
  <2> QED
    BY <1>1, <1>2, <2>1, SetItemInherits, SubmitKeeps
<1>6. ASSUME NEW i \in Items, Reopen(i) PROVE IInv'
  <2>1. Submit(SetItem(kernel, i, "awaiting")) /\ spent' \in Nat
    BY <1>1, <1>6, SpendTyped DEF Reopen
  <2> QED
    BY <1>1, <1>2, <2>1, SetItemInherits, SubmitKeeps
<1>7. ASSUME NEW i \in Items, Settle(i) PROVE IInv'
  <2> DEFINE m == Revoke(kernel, {i})
             n == SetItem(m, i, "closed")
  <2>1. Submit([n EXCEPT !.active = TRUE]) /\ spent' \in Nat
    BY <1>1, <1>7 DEF Settle
  <2>2. Inherits(m, kernel) /\ m \in State
    BY <1>1, RevokeInherits DEF Inherits
  <2> HIDE DEF m
  <2>3. Inherits(n, m) /\ n \in State
    BY <1>2, <2>2, SetItemInherits DEF Inherits
  <2> HIDE DEF n
  <2>4. Inherits([n EXCEPT !.active = TRUE], n)
    BY <2>3, ActiveInherits
  <2>5. Inherits([n EXCEPT !.active = TRUE], kernel)
    BY <2>2, <2>3, <2>4, InheritsTwice
  <2> QED
    BY <2>1, <2>5, SubmitKeeps
<1>8. ASSUME NEW i \in Items, NEW returned \in BOOLEAN, Answer(i, returned) PROVE IInv'
  <2> DEFINE m == IF returned THEN Returned(kernel) ELSE kernel
  <2>1. Submit(SetItem(m, i, "resolving"))
    BY <1>8 DEF Answer
  <2>2. spent' \in Nat
    BY <1>1, <1>8, SpendTyped DEF Answer
  <2>3. m \in State /\ Inherits(m, kernel)
    BY <1>1, ReturnedInherits DEF Inherits
  <2> HIDE DEF m
  <2>4. Inherits(SetItem(m, i, "resolving"), kernel)
    BY <1>2, <2>3, SetItemInherits, InheritsTwice
  <2> QED
    BY <2>1, <2>2, <2>4, SubmitKeeps
<1>9. ASSUME EnterAway PROVE IInv'
  <2>1. Submit(Entered(kernel)) /\ spent' \in Nat
    BY <1>1, <1>9 DEF EnterAway
  <2> QED
    BY <1>1, <2>1, EnteredInherits, SubmitKeeps
<1>10. ASSUME LeaveAway PROVE IInv'
  <2>1. Submit(Returned(kernel)) /\ spent' \in Nat
    BY <1>1, <1>10, SpendTyped DEF LeaveAway
  <2> QED
    BY <1>1, <2>1, ReturnedInherits, SubmitKeeps
<1>11. ASSUME Cancel PROVE IInv'
  <2>1. Submit(Stopping(kernel)) /\ spent' \in Nat
    BY <1>1, <1>11, SpendTyped DEF Cancel
  <2> QED
    BY <1>1, <2>1, StoppingInherits, SubmitKeeps
<1>12. ASSUME Halted PROVE IInv'
  <2>1. Submit([kernel EXCEPT !.halting = FALSE, !.active = FALSE]) /\ spent' \in Nat
    BY <1>1, <1>12 DEF Halted
  <2> QED
    BY <1>1, <2>1, FlagsInherit, SubmitKeeps
<1>13. ASSUME Resume PROVE IInv'
  <2>1. Submit([kernel EXCEPT !.active = TRUE]) /\ spent' \in Nat
    BY <1>1, <1>13 DEF Resume
  <2> QED
    BY <1>1, <2>1, ActiveInherits, SubmitKeeps
<1> QED
  BY <1>3, <1>4, <1>5, <1>6, <1>7, <1>8, <1>9, <1>10, <1>11, <1>12, <1>13 DEF Task

-------------------------------------------------------------------------------
\* Deadlines.
LEMMA TimerOnlyKeeps ==
    ASSUME IInv, UNCHANGED <<settings, binding, commit, disk, missed>>,
           TimerTyped', WakeupIsKept'
    PROVE  IInv'
<1>1. UNCHANGED <<file, host, revoking, unseen, withdrawn, forgettable, facts, configuring, behind,
                  window, kernel, store, disk, missed>>
  BY DEF settings, binding, commit
<1>2. BindingTyped' /\ revoking' \in BOOLEAN
  BY <1>1, TypeParts DEF IInv, BindingTyped, SettingsTyped
<1>3. store' \in {"clean", "writing", "failed"} /\ missed' \in BOOLEAN
  BY <1>1 DEF IInv, TypeOK
<1>4. FactsAreSeen' /\ FailureIsMissed'
  BY <1>1 DEF IInv, FactsAreSeen, FailureIsMissed
<1> QED
  BY <1>1, <1>2, <1>3, <1>4, QuietStep

\* Time alone loses no timer.
LEMMA TickKeeps == ASSUME IInv, Tick PROVE IInv'
<1>1. /\ UNCHANGED <<settings, binding, commit, disk, missed, timer, delivering, spent>>
      /\ now' = now + 1
  BY DEF Tick
<1>2. TimerTyped'
  BY <1>1, TypeParts DEF IInv, TimerTyped
<1>3. WakeupIsKept'
  BY <1>1 DEF IInv, WakeupIsKept, settings, binding, commit
<1> QED
  BY <1>1, <1>2, <1>3, TimerOnlyKeeps

\* A timer that fires hands over to its event.
LEMMA FireKeeps == ASSUME IInv, Fire PROVE IInv'
<1> DEFINE e == [of |-> timer.of, at |-> timer.at, gen |-> kernel.gen]
<1>1. /\ UNCHANGED <<settings, binding, commit, disk, missed, now, spent>>
      /\ timer # None /\ timer' = None
      /\ delivering' = IF Permitted(host, kernel, window) THEN delivering \cup {e} ELSE delivering
  BY DEF Fire
<1>2. timer \in Timer /\ kernel \in State /\ delivering \in SUBSET Event /\ now \in Nat /\ spent \in Nat
  BY <1>1 DEF IInv, TypeOK
<1>3. e \in Event
  BY <1>2 DEF Timer, State, Event
<1> HIDE DEF e
<1>4. TimerTyped'
  BY <1>1, <1>2, <1>3 DEF TimerTyped
<1>5. UNCHANGED <<host, kernel, window>>
  BY <1>1 DEF settings, binding, commit
<1>6. Permitted(host, kernel, window)' => delivering' # {}
  BY <1>1, <1>5
<1>7. WakeupIsKept'
  BY <1>6 DEF WakeupIsKept
<1> QED
  BY <1>1, <1>4, <1>7, TimerOnlyKeeps

\* The accepted deadline renews the timer.
LEMMA AcceptDeadlineKeeps ==
    ASSUME IInv, NEW e \in delivering, AcceptDeadline(e)
    PROVE  IInv'
<1> DEFINE k == TimedOut(kernel, e.of)
<1>1. /\ Accepted(k) /\ kernel' = k /\ delivering' = delivering \ {e}
      /\ timer' = Wakeup(host, kernel', window) /\ UNCHANGED <<withdrawn, spent>>
  BY DEF AcceptDeadline, Accepted
<1>2. /\ kernel \in State /\ withdrawn \in SUBSET Items /\ spent \in Nat /\ delivering \in SUBSET Event
      /\ Behind(kernel, host.seen) /\ Refused(kernel, host.seen, withdrawn, Withheld)
  BY DEF IInv, TypeOK, NobodyIsAhead, WithdrawnIsRefused
<1>3. e.of \in Items
  BY <1>2 DEF Event
<1>4. Inherits(k, kernel) /\ k \in State
  BY <1>2, <1>3, TimedOutInherits DEF Inherits
<1> HIDE DEF k
<1>5. Behind(k, host.seen) /\ Refused(k, host.seen, withdrawn, Withheld)
  BY <1>2, <1>4, InheritedBounds
<1>6. timer' \in Timer \cup {None}
  BY <1>1, <1>4, WakeupTyped
<1>7. /\ Refused(k, host.seen, withdrawn', Withheld) /\ withdrawn' \in SUBSET withdrawn
      /\ spent' \in Nat /\ delivering' \in SUBSET Event
  BY <1>1, <1>2, <1>5
<1> QED
  BY <1>1, <1>4, <1>5, <1>6, <1>7, AcceptedStep

\* So does a refused one.
LEMMA RefuseDeadlineKeeps ==
    ASSUME IInv, NEW e \in delivering, RefuseDeadline(e)
    PROVE  IInv'
<1>1. /\ UNCHANGED <<settings, binding, commit, disk, missed, now, spent>>
      /\ delivering' = delivering \ {e} /\ timer' = Wakeup(host, kernel, window)
  BY DEF RefuseDeadline
<1>2. timer' \in Timer \cup {None}
  BY <1>1, WakeupTyped DEF IInv, TypeOK
<1>3. TimerTyped'
  BY <1>1, <1>2, TypeParts DEF IInv, TimerTyped
<1>4. UNCHANGED <<host, kernel, window>>
  BY <1>1 DEF settings, binding, commit
<1>5. WakeupIsKept'
  BY <1>1, <1>4 DEF WakeupIsKept, Wakeup
<1> QED
  BY <1>1, <1>3, <1>5, TimerOnlyKeeps

\* One that throws does not, and the store has failed.
LEMMA DeadlineThrowsKeeps ==
    ASSUME IInv, NEW e \in delivering, DeadlineThrows(e)
    PROVE  IInv'
<1>1. /\ UNCHANGED <<settings, binding, commit, disk, timer, now, missed>>
      /\ delivering' = delivering \ {e} /\ store = "failed" /\ Spend
  BY DEF DeadlineThrows
<1>2. spent' \in Nat
  BY <1>1, SpendTyped DEF IInv, TypeOK
<1>3. TimerTyped'
  BY <1>1, <1>2, TypeParts DEF IInv, TimerTyped
<1>4. WakeupIsKept'
  BY <1>1 DEF WakeupIsKept, commit
<1> QED
  BY <1>1, <1>3, <1>4, TimerOnlyKeeps

-------------------------------------------------------------------------------
\* Durability and the process.
LEMMA WrittenKeeps ==
    ASSUME IInv, UNCHANGED <<settings, facts, behind, window, kernel, delivering, now, spent>>,
           disk' = kernel, store' = "clean", configuring' \in BOOLEAN, missed' \in BOOLEAN,
           timer' \in Timer \cup {None}, WakeupIsKept'
    PROVE  IInv'
<1>1. UNCHANGED <<file, host, revoking, unseen, withdrawn, forgettable>>
  BY DEF settings
<1>2. SettingsTyped' /\ BindingTyped' /\ TaskTyped' /\ TimerTyped'
  BY <1>1, TypeParts DEF IInv, SettingsTyped, BindingTyped, TaskTyped, TimerTyped
<1>3. TypeOK'
  BY <1>2 DEF TypeOK, SettingsTyped, BindingTyped, TaskTyped, TimerTyped
<1>4. FileIsAhead' /\ FactsAreSeen' /\ FailureIsMissed'
  BY <1>1 DEF IInv, FileIsAhead, FactsAreSeen, FailureIsMissed
<1>5. NobodyIsAhead' /\ WithdrawnIsRefused'
  BY <1>1 DEF IInv, NobodyIsAhead, WithdrawnIsRefused, Withheld
<1> QED
  BY <1>3, <1>4, <1>5 DEF IInv

\* A save renews the timer.
LEMMA SaveKeeps == ASSUME IInv, Save PROVE IInv'
<1>1. /\ UNCHANGED <<settings, facts, behind, window, kernel, delivering, now, spent>>
      /\ disk' = kernel /\ store' = "clean" /\ configuring' = FALSE /\ missed' = FALSE
      /\ timer' = Wakeup(host, kernel, window)
  BY DEF Save
<1>2. timer' \in Timer \cup {None}
  BY <1>1, WakeupTyped DEF IInv, TypeOK
<1>3. WakeupIsKept'
  BY <1>1 DEF WakeupIsKept, Wakeup, settings
<1> QED
  BY <1>1, <1>2, <1>3, WrittenKeeps

\* A failed write excuses the timer.
LEMMA SaveFailsKeeps == ASSUME IInv, SaveFails PROVE IInv'
<1>1. /\ UNCHANGED <<settings, facts, behind, window, kernel, disk, timer, delivering, now>>
      /\ store' = "failed" /\ configuring' = FALSE /\ missed' = TRUE /\ Spend
  BY DEF SaveFails
<1>2. UNCHANGED <<file, host, revoking, unseen, withdrawn, forgettable>>
  BY <1>1 DEF settings
<1>3. spent' \in Nat
  BY <1>1, SpendTyped DEF IInv, TypeOK
<1>4. BindingTyped' /\ TimerTyped' /\ revoking' \in BOOLEAN
  BY <1>1, <1>2, <1>3, TypeParts DEF IInv, BindingTyped, TimerTyped, SettingsTyped
<1>5. FactsAreSeen' /\ FailureIsMissed' /\ WakeupIsKept'
  BY <1>1, <1>2 DEF IInv, FactsAreSeen, FailureIsMissed, WakeupIsKept
<1> QED
  BY <1>1, <1>2, <1>4, <1>5, QuietStep

\* A repaired write leaves the excuse until the next event.
LEMMA RecoverKeeps == ASSUME IInv, Recover PROVE IInv'
<1>1. /\ UNCHANGED <<settings, binding, kernel, timer, delivering, now, spent, missed>>
      /\ store = "failed" /\ disk' = kernel /\ store' = "clean"
  BY DEF Recover
<1>2. UNCHANGED <<settings, facts, behind, window, kernel, delivering, now, spent>>
  BY <1>1 DEF binding
<1>3. /\ missed' = TRUE
      /\ configuring' \in BOOLEAN /\ missed' \in BOOLEAN /\ timer' \in Timer \cup {None}
  BY <1>1 DEF IInv, TypeOK, FailureIsMissed, binding
<1>4. WakeupIsKept'
  BY <1>3 DEF WakeupIsKept
<1> QED
  BY <1>1, <1>2, <1>3, <1>4, WrittenKeeps

\* The task that is opened again has what the disk had, under what the file says.
LEMMA CrashKeeps ==
    ASSUME IInv, NEW gate \in BOOLEAN, Crash(gate)
    PROVE  IInv'
<1> DEFINE kept  == withdrawn \ forgettable
           again == {i \in Items : Armed(disk, i)}
           kinds == unseen \cup (IF gate THEN {} ELSE {"mode"})
           h == [seen |-> file, gate |-> gate, pending |-> ~gate]
<1>1. /\ host' = h /\ revoking' = ~gate /\ kernel' = Hydrated(disk) /\ store' = "clean"
      /\ facts' = <<>> /\ configuring' = FALSE /\ behind' = 0 /\ window' = "opening"
      /\ timer' = None /\ delivering' = {} /\ unseen' = {} /\ missed' = FALSE
      /\ withdrawn' = kept \cup (again \cap Withdrawing(kinds))
      /\ forgettable' = IF gate THEN {} ELSE again
      /\ UNCHANGED <<file, disk, now>>
  BY DEF Crash
<1>2. /\ file \in Settings /\ host.seen \in Settings /\ disk \in State /\ now \in Nat /\ spent \in Nat
      /\ withdrawn \subseteq Items /\ unseen \in SUBSET {"mode", "auto"}
  BY DEF IInv, TypeOK
<1>3. spent' \in Nat
  BY <1>2, SpendTyped DEF Crash
<1>4. Inherits(Hydrated(disk), disk) /\ Hydrated(disk) \in State
  BY <1>2, HydratedInherits DEF Inherits
<1>5. h \in [seen : Settings, gate : BOOLEAN, pending : BOOLEAN] /\ h.seen = file /\ h.pending = ~gate
  BY <1>2
<1> HIDE DEF h
<1>6. withdrawn' \in SUBSET Items /\ forgettable' \in SUBSET Items
  BY <1>1, <1>2
<1>7. SettingsTyped' /\ TaskTyped' /\ TimerTyped'
  BY <1>1, <1>2, <1>3, <1>4, <1>5, <1>6 DEF SettingsTyped, TaskTyped, TimerTyped
<1>8. BindingTyped'
  <2>1. facts' \in Seq(Facts)
    BY <1>1
  <2> QED
    BY <1>1, <2>1 DEF BindingTyped
<1>9. TypeOK'
  BY <1>7, <1>8 DEF TypeOK, SettingsTyped, BindingTyped, TaskTyped, TimerTyped
<1>10. FileIsAhead' /\ FailureIsMissed' /\ WakeupIsKept'
  BY <1>1, <1>2, <1>5 DEF FileIsAhead, FailureIsMissed, WakeupIsKept, Permitted, Settings
<1>11. FactsAreSeen'
  BY <1>1 DEF FactsAreSeen
<1>12. host.seen.mode <= file.mode /\ host.seen.auto <= file.auto
  BY DEF IInv, FileIsAhead
<1>13. Behind(disk, file) /\ Refused(disk, file, withdrawn', Withheld')
  <2>1. Withheld' = IF gate THEN {} ELSE again
    BY <1>1, <1>5 DEF Withheld
  <2>2. Behind(disk, host.seen) /\ Refused(disk, host.seen, kept, {})
    BY DEF IInv, NobodyIsAhead, WithdrawnIsRefused, Refused, Withheld
  <2>3. Behind(disk, file) /\ Refused(disk, file, kept, {})
    BY <1>2, <1>12, <2>2, LaterBounds
  <2>4. CASE ~gate
    BY <1>2, <1>6, <2>1, <2>3, <2>4 DEF Refused
  <2>5. CASE gate
    <3>1. kinds = unseen
      BY <2>5
    <3>2. Refused(disk, file, withdrawn \cup Withdrawing(unseen), Withheld)
      BY <1>2, <1>12, WithdrawingRefuses DEF IInv, FileIsAhead
    <3>3. \A i \in again \cap Withdrawing(unseen) :
             \/ disk.item[i].deadline.mode < file.mode
             \/ i \in Questions /\ disk.item[i].deadline.auto < file.auto
      <4>1. \A i \in Withdrawing(unseen) :
               "mode" \in unseen \/ (i \in Questions /\ "auto" \in unseen)
        BY <1>2 DEF Withdrawing
      <4>2. \A i \in again : /\ disk.item[i].deadline \in Deadline
                             /\ disk.item[i].deadline.mode <= host.seen.mode
                             /\ disk.item[i].deadline.auto <= host.seen.auto
        BY <1>2, <2>2 DEF Behind, Armed, State, Item
      <4> QED
        BY <1>2, <4>1, <4>2 DEF IInv, FileIsAhead, Settings, Deadline
    <3>4. Refused(disk, file, again \cap Withdrawing(unseen), {})
      BY <3>3 DEF Refused
    <3> QED
      BY <1>1, <2>1, <2>3, <3>1, <3>4, <2>5 DEF Refused
  <2> QED
    BY <2>4, <2>5
<1>14. Behind(Hydrated(disk), file) /\ Refused(Hydrated(disk), file, withdrawn', Withheld')
  BY <1>4, <1>6, <1>13, InheritedBounds
<1>15. NobodyIsAhead' /\ WithdrawnIsRefused'
  BY <1>1, <1>5, <1>13, <1>14 DEF NobodyIsAhead, WithdrawnIsRefused
<1> QED
  BY <1>9, <1>10, <1>11, <1>15 DEF IInv

\* No step leaves the invariant, whichever process takes it.
LEMMA NextKeeps == IInv /\ [Next]_vars => IInv'
<1> SUFFICES ASSUME IInv, [Next]_vars PROVE IInv'
  OBVIOUS
<1>1. CASE Host
  BY <1>1, WriteSettingsKeeps, AdoptKeeps, SettingsFailKeeps, MoveGateKeeps,
     PersistRevocationKeeps, RevocationFailsKeeps DEF Host
<1>2. CASE Opening
  BY <1>2, ReconcileKeeps, ReleaseKeeps, ConfigureKeeps, ConfigureThrowsKeeps DEF Opening
<1>3. CASE Task
  BY <1>3, TaskKeeps
<1>4. CASE Timed
  BY <1>4, TickKeeps, FireKeeps, AcceptDeadlineKeeps, RefuseDeadlineKeeps, DeadlineThrowsKeeps
     DEF Timed
<1>5. CASE Durable
  BY <1>5, SaveKeeps, SaveFailsKeeps, RecoverKeeps, CrashKeeps DEF Durable
<1>6. CASE UNCHANGED vars
  <2>1. /\ UNCHANGED <<settings, binding, commit, disk, missed, timer, delivering, now, spent>>
    BY <1>6 DEF vars
  <2>2. TimerTyped'
    BY <2>1, TypeParts DEF IInv, TimerTyped
  <2>3. WakeupIsKept'
    BY <2>1 DEF IInv, WakeupIsKept, settings, binding, commit
  <2> QED
    BY <2>1, <2>2, <2>3, TimerOnlyKeeps
<1> QED
  BY <1>1, <1>2, <1>3, <1>4, <1>5, <1>6 DEF Next

(* In every reachable state no task, no disk and no queued configuration is *)
(* ahead of the revocations its window has seen, and what was withdrawn is  *)
(* refused by those numbers or withheld until they are on file.             *)
(* (awaySettings.ts:133, away.ts:125)                                       *)
THEOREM AwayStaysConsistent == Spec => []IInv
BY InitEstablishes, NextKeeps, PTL DEF Spec

(* Whatever publications, configurations, answers and reopenings come in    *)
(* between, the earliest deadline of an open task has its timer between the *)
(* saves. (TaskDeadlineScheduler.ts:29, TaskRuntime.ts:140)                 *)
THEOREM WakeupKept == Spec => []WakeupIsKept
<1>1. IInv => WakeupIsKept
  BY DEF IInv
<1> QED
  BY <1>1, AwayStaysConsistent, PTL

-------------------------------------------------------------------------------
\* Answered for the user, or closed: the ends of an item.
Over == {"timed_out", "closed"}

\* What a transition that answers for nobody does to the items of the task k.
Onward(m, k) ==
    \A i \in Items : /\ k.item[i].status \in Over => m.item[i].status \in Over
                     /\ m.item[i].status = "timed_out" => k.item[i].status = "timed_out"

\* An answer given for the user and written is not taken back in memory.
AnswersStand ==
    \A i \in Items : disk.item[i].status = "timed_out" => kernel.item[i].status \in Over

\* Two transitions that answer for nobody answer for nobody together.
LEMMA OnwardTwice ==
    ASSUME NEW k, NEW m, NEW n, Onward(m, k), Onward(n, m)
    PROVE  Onward(n, k)
BY DEF Onward

\* A status other than the answer, given to an item that is not over.
LEMMA SetItemOnward ==
    ASSUME NEW k \in State, NEW i \in Items, NEW status \in Status \ {"timed_out"},
           k.item[i].status \in Over => status \in Over
    PROVE  Onward(SetItem(k, i, status), k)
<1>1. k.item \in [Items -> Item]
  BY DEF State
<1>2. SetItem(k, i, status).item = [k.item EXCEPT ![i] = [k.item[i] EXCEPT !.status = status]]
  BY DEF SetItem, State
<1>3. \A j \in Items : SetItem(k, i, status).item[j].status = IF j = i THEN status ELSE k.item[j].status
  BY <1>1, <1>2 DEF Item
<1> QED
  BY <1>3 DEF Onward

\* A revocation changes no status.
LEMMA RevokeOnward ==
    ASSUME NEW k \in State, NEW I
    PROVE  Onward(Revoke(k, I), k)
<1>1. \A i \in Items : Revoke(k, I).item[i].status = k.item[i].status
  BY DEF Revoke, State, Item
<1> QED
  BY <1>1 DEF Onward

\* The same items with the same status.
LEMMA SameOnward ==
    ASSUME NEW k, NEW m, m.item = k.item
    PROVE  Onward(m, k)
BY DEF Onward

\* Only an absent item is armed.
LEMMA ArmOnward ==
    ASSUME NEW k \in State, NEW I \in SUBSET Items, NEW at,
           \A i \in I : k.item[i].status = "absent"
    PROVE  Onward(Arm(k, I, at), k)
<1> DEFINE due(i) == IF \/ i \in Questions /\ k.cfg.enabled /\ k.cfg.automatic
                        \/ i \in Commands /\ IsAway(k)
                       THEN [at |-> at, mode |-> k.cfg.mode, auto |-> k.cfg.auto]
                       ELSE None
           item == [i \in Items |-> IF i \in I THEN [status |-> "planned", deadline |-> due(i)] ELSE k.item[i]]
<1>1. Arm(k, I, at) = [k EXCEPT !.item = item]
  BY DEF Arm
<1> HIDE DEF due
<1>2. \A i \in Items : item[i].status = IF i \in I THEN "planned" ELSE k.item[i].status
  OBVIOUS
<1> HIDE DEF item
<1>3. Arm(k, I, at).item = item
  BY <1>1 DEF State
<1> QED
  BY <1>2, <1>3 DEF Onward, Over

\* A stop ends no item.
LEMMA StoppingOnward ==
    ASSUME NEW k \in State
    PROVE  Onward(Stopping(k), k)
<1> DEFINE item == [i \in Items |-> IF k.item[i].status = "planned"
                                      THEN [k.item[i] EXCEPT !.status = "stranded"] ELSE k.item[i]]
<1>1. Stopping(k) = [k EXCEPT !.halting = TRUE, !.gen = k.gen + 1, !.item = item]
  BY DEF Stopping
<1>2. \A i \in Items : item[i].status = IF k.item[i].status = "planned" THEN "stranded"
                                                                      ELSE k.item[i].status
  BY DEF State, Item
<1> HIDE DEF item
<1>3. Stopping(k).item = item
  BY <1>1 DEF State
<1> QED
  BY <1>2, <1>3 DEF Onward, Over

\* A configuration changes no status.
LEMMA ConfiguredOnward ==
    ASSUME NEW k \in State, NEW f \in Facts
    PROVE  Onward(Configured(k, f), k)
<1> DEFINE g == [f EXCEPT !.mode = Later(f.mode, k.cfg.mode), !.auto = Later(f.auto, k.cfg.auto)]
           c == [k EXCEPT !.cfg = g]
           d == [c EXCEPT !.away = IF IsAway(c) THEN c.away ELSE None]
<1>1. g \in Facts
  BY DEF Facts, State, Later
<1> HIDE DEF g
<1>2. c \in State /\ c.item = k.item
  BY <1>1 DEF State
<1> HIDE DEF c
<1>3. d \in State /\ d.item = k.item
  BY <1>2 DEF State
<1>4. Configured(k, f) = Revoke(d, {i \in Items : ~Valid(d, i)})
  BY DEF Configured, c, g
<1> HIDE DEF d
<1> QED
  BY <1>3, <1>4, RevokeOnward, SameOnward, OnwardTwice

\* A reopened task has the answers its disk has, and gives no other.
LEMMA HydratedOnward ==
    ASSUME NEW k \in State
    PROVE  Onward(Hydrated(k), k)
<1> DEFINE restorable == {c \in Commands : k.item[c].status \notin {"absent", "closed"}}
           dropped(i) == /\ i \in Questions /\ restorable # {}
                         /\ k.item[i].status \notin {"absent", "timed_out"}
           status(i)  == CASE k.item[i].status = "resolving" -> "awaiting"
                           [] k.item[i].status = "stranded"  -> "planned"
                           [] OTHER                          -> k.item[i].status
           item == [i \in Items |-> IF dropped(i) THEN [status |-> "closed", deadline |-> None]
                                                  ELSE [k.item[i] EXCEPT !.status = status(i)]]
<1>1. Hydrated(k) = [k EXCEPT !.active = (restorable # {}), !.halting = FALSE, !.gen = k.gen + 1,
                              !.item = item]
  BY DEF Hydrated
<1>2. \A i \in Items : k.item[i] \in Item
  BY DEF State
<1>3. \A i \in Items : /\ k.item[i].status \in Over => status(i) = k.item[i].status
                       /\ status(i) = "timed_out" => k.item[i].status = "timed_out"
  BY <1>2 DEF Item, Status, Over
<1>4. \A i \in Items : k.item[i].status = "timed_out" => ~dropped(i)
  OBVIOUS
<1> HIDE DEF status, dropped
<1>5. \A i \in Items : item[i].status = IF dropped(i) THEN "closed" ELSE status(i)
  BY <1>2 DEF Item
<1> HIDE DEF item, restorable
<1>6. Hydrated(k).item = item
  BY <1>1 DEF State
<1> QED
  BY <1>3, <1>4, <1>5, <1>6 DEF Onward, Over

\* Only an accepted deadline answers for the user.
LEMMA EventsOnward ==
    ASSUME TypeOK, Task
    PROVE  Onward(kernel', kernel) /\ disk' = disk
<1>1. kernel \in State
  BY DEF TypeOK
<1>2. {"awaiting", "resolving", "closed"} \subseteq Status \ {"timed_out"}
  BY DEF Status
<1>3. ASSUME NEW m, Submit(m), Onward(m, kernel) PROVE Onward(kernel', kernel) /\ disk' = disk
  BY <1>3 DEF Submit, Accepted
<1>4. ASSUME NEW I \in SUBSET Items, NEW time, Ask(I, time)
      PROVE  Onward(kernel', kernel) /\ disk' = disk
  BY <1>1, <1>4, ArmOnward DEF Ask, Accepted
<1>5. ASSUME NEW q \in Questions, AskQuestion(q) PROVE Onward(kernel', kernel) /\ disk' = disk
  BY <1>4, <1>5 DEF AskQuestion, Items
<1>6. ASSUME NEW I \in SUBSET Commands, PlanCommands(I) PROVE Onward(kernel', kernel) /\ disk' = disk
  <2>1. I \in SUBSET Items
    BY DEF Items
  <2> QED
    BY <1>4, <1>6, <2>1 DEF PlanCommands
<1>7. ASSUME NEW i \in Items, Present(i) \/ Reopen(i) PROVE Onward(kernel', kernel) /\ disk' = disk
  <2>1. Submit(SetItem(kernel, i, "awaiting")) /\ kernel.item[i].status \notin Over
    BY <1>7 DEF Present, Reopen, Over
  <2>2. Onward(SetItem(kernel, i, "awaiting"), kernel)
    BY <1>1, <1>2, <2>1, SetItemOnward
  <2> QED
    BY <1>3, <2>1, <2>2
<1>8. ASSUME NEW i \in Items, Settle(i) PROVE Onward(kernel', kernel) /\ disk' = disk
  <2> DEFINE m == Revoke(kernel, {i})
             n == SetItem(m, i, "closed")
  <2>1. Submit([n EXCEPT !.active = TRUE])
    BY <1>8 DEF Settle
  <2>2. Onward(m, kernel) /\ m \in State
    BY <1>1, RevokeOnward, RevokeInherits DEF Inherits
  <2> HIDE DEF m
  <2>3. Onward(n, m) /\ n \in State
    BY <1>2, <2>2, SetItemOnward, SetItemInherits DEF Inherits, Over
  <2> HIDE DEF n
  <2>4. [n EXCEPT !.active = TRUE].item = n.item
    BY <2>3 DEF State
  <2>5. Onward([n EXCEPT !.active = TRUE], kernel)
    BY <2>2, <2>3, <2>4, SameOnward, OnwardTwice
  <2> QED
    BY <1>3, <2>1, <2>5
<1>9. ASSUME NEW i \in Items, NEW returned \in BOOLEAN, Answer(i, returned)
      PROVE  Onward(kernel', kernel) /\ disk' = disk
  <2> DEFINE m == IF returned THEN Returned(kernel) ELSE kernel
  <2>1. Submit(SetItem(m, i, "resolving")) /\ kernel.item[i].status = "awaiting"
    BY <1>9 DEF Answer
  <2>2. m \in State /\ \A j \in Items : m.item[j].status = kernel.item[j].status
    <3>1. Returned(kernel) \in State
      BY <1>1, ReturnedInherits DEF Inherits
    <3>2. Revoke(kernel, Commands) \in State
      BY <1>1, RevokeInherits DEF Inherits
    <3>3. Returned(kernel).item = Revoke(kernel, Commands).item
      BY <3>2 DEF Returned, State
    <3>4. \A j \in Items : Revoke(kernel, Commands).item[j].status = kernel.item[j].status
      BY <1>1 DEF Revoke, State, Item
    <3> QED
      BY <1>1, <3>1, <3>3, <3>4
  <2> HIDE DEF m
  <2>3. Onward(SetItem(m, i, "resolving"), m)
    BY <1>2, <2>1, <2>2, SetItemOnward DEF Over
  <2>4. Onward(m, kernel)
    BY <2>2 DEF Onward
  <2>5. Onward(SetItem(m, i, "resolving"), kernel)
    BY <2>3, <2>4, OnwardTwice
  <2> QED
    BY <1>3, <2>1, <2>5
<1>10. CASE EnterAway
  <2>1. Entered(kernel).item = kernel.item
    BY <1>1 DEF Entered, State
  <2> QED
    BY <1>3, <1>10, <2>1, SameOnward DEF EnterAway
<1>11. CASE LeaveAway
  <2>1. Revoke(kernel, Commands) \in State /\ Onward(Revoke(kernel, Commands), kernel)
    BY <1>1, RevokeInherits, RevokeOnward DEF Inherits
  <2>2. Returned(kernel).item = Revoke(kernel, Commands).item
    BY <2>1 DEF Returned, State
  <2>3. Onward(Returned(kernel), kernel)
    BY <2>1, <2>2, SameOnward, OnwardTwice
  <2> QED
    BY <1>3, <1>11, <2>3 DEF LeaveAway
<1>12. CASE Cancel
  BY <1>1, <1>3, <1>12, StoppingOnward DEF Cancel
<1>13. CASE Halted \/ Resume
  <2>1. /\ [kernel EXCEPT !.halting = FALSE, !.active = FALSE].item = kernel.item
        /\ [kernel EXCEPT !.active = TRUE].item = kernel.item
    BY <1>1 DEF State
  <2> QED
    BY <1>3, <1>13, <2>1, SameOnward DEF Halted, Resume
<1> QED
  BY <1>5, <1>6, <1>7, <1>8, <1>9, <1>10, <1>11, <1>12, <1>13 DEF Task

\* Of all steps only an accepted deadline answers for the user; a crash goes on from the disk.
LEMMA StepsOnward ==
    ASSUME TypeOK, [Next]_vars
    PROVE  \/ Onward(kernel', kernel) /\ disk' \in {disk, kernel}
           \/ \E e \in delivering : AcceptDeadline(e)
           \/ Onward(kernel', disk) /\ disk' = disk
<1>1. kernel' = kernel => Onward(kernel', kernel)
  BY SameOnward
<1>2. CASE Host
  BY <1>1, <1>2 DEF Host, WriteSettings, Adopt, SettingsFail, MoveGate, PersistRevocation,
                    RevocationFails, Publish, commit
<1>3. CASE Reconcile \/ Release \/ ConfigureThrows
  BY <1>1, <1>3 DEF Reconcile, Release, ConfigureThrows, TakeFact, commit
<1>4. CASE Configure
  <2>1. kernel \in State /\ facts \in Seq(Facts) /\ facts # <<>> /\ disk' = disk
    BY <1>4 DEF Configure, TakeFact, TypeOK
  <2>2. Head(facts) \in Facts
    BY <2>1
  <2> QED
    BY <1>1, <1>4, <2>1, <2>2, ConfiguredOnward DEF Configure, commit
<1>5. CASE Task
  BY <1>5, EventsOnward
<1>6. CASE Timed
  BY <1>1, <1>6 DEF Timed, Tick, Fire, RefuseDeadline, DeadlineThrows, commit
<1>7. CASE Save \/ SaveFails \/ Recover
  BY <1>1, <1>7 DEF Save, SaveFails, Recover
<1>8. ASSUME NEW gate \in BOOLEAN, Crash(gate) PROVE Onward(kernel', disk) /\ disk' = disk
  BY <1>8, HydratedOnward DEF Crash, TypeOK
<1>9. CASE UNCHANGED vars
  BY <1>1, <1>9 DEF vars, commit
<1> QED
  BY <1>2, <1>3, <1>4, <1>5, <1>6, <1>7, <1>8, <1>9 DEF Next, Opening, Durable

\* What acceptAwayDeadline does, and to which item.
LEMMA AcceptedAnswers ==
    ASSUME TypeOK, NEW e \in delivering, AcceptDeadline(e)
    PROVE  /\ e.of \in Items /\ disk' = disk /\ kernel.item[e.of].status = "awaiting"
           /\ \A i \in Items : kernel'.item[i].status = IF i = e.of THEN "timed_out"
                                                                  ELSE kernel.item[i].status
<1> DEFINE k == [kernel EXCEPT !.item[e.of] = [status |-> "timed_out", deadline |-> None]]
<1>1. kernel \in State /\ e.of \in Items
  BY DEF TypeOK, Event
<1>2. /\ kernel' = TimedOut(kernel, e.of) /\ disk' = disk /\ kernel.item[e.of].status = "awaiting"
  BY DEF AcceptDeadline, Accepted, Accepts, Due
<1>3. /\ k.item = [kernel.item EXCEPT ![e.of] = [status |-> "timed_out", deadline |-> None]]
      /\ TimedOut(kernel, e.of) = IF e.of \in Questions THEN Entered(k) ELSE k
  BY <1>1 DEF TimedOut, State
<1>4. k \in State
  BY <1>1 DEF State, Item, Status
<1>5. \A i \in Items : k.item[i].status = IF i = e.of THEN "timed_out" ELSE kernel.item[i].status
  BY <1>1, <1>3 DEF State, Item
<1> HIDE DEF k
<1>6. TimedOut(kernel, e.of).item = k.item
  BY <1>3, <1>4 DEF Entered, State
<1> QED
  BY <1>1, <1>2, <1>5, <1>6

\* A deadline that is accepted is not one of the withdrawn.
LEMMA AcceptedStands ==
    ASSUME IInv, NEW e \in delivering, AcceptDeadline(e)
    PROVE  e.of \notin withdrawn
<1>1. /\ Permitted(host, kernel, window) /\ Valid(kernel, e.of)
  BY DEF AcceptDeadline, Accepts, Due
<1>2. /\ kernel \in State /\ e.of \in Items
      /\ kernel.cfg.mode = host.seen.mode /\ kernel.cfg.auto = host.seen.auto /\ ~host.pending
  BY <1>1 DEF IInv, TypeOK, Event, Permitted, Enabled
<1>3. /\ Armed(kernel, e.of) /\ kernel.item[e.of].deadline.mode = kernel.cfg.mode
      /\ e.of \in Questions => kernel.item[e.of].deadline.auto = kernel.cfg.auto
  BY <1>1 DEF Valid
<1>4. Refused(kernel, host.seen, withdrawn, {})
  BY <1>2 DEF IInv, WithdrawnIsRefused, Withheld
<1>5. host.seen \in Settings
  BY DEF IInv, TypeOK
<1> QED
  BY <1>2, <1>3, <1>4, <1>5 DEF Refused, Settings

\* What the disk has answered stays answered in memory, through a reopening too.
LEMMA AnswersStandKept ==
    ASSUME TypeOK, AnswersStand, [Next]_vars
    PROVE  AnswersStand'
<1>1. CASE Onward(kernel', kernel) /\ disk' \in {disk, kernel}
  BY <1>1 DEF AnswersStand, Onward, Over
<1>2. ASSUME NEW e \in delivering, AcceptDeadline(e) PROVE AnswersStand'
  BY <1>2, AcceptedAnswers DEF AnswersStand, Over
<1>3. CASE Onward(kernel', disk) /\ disk' = disk
  BY <1>3 DEF AnswersStand, Onward, Over
<1> QED
  BY <1>1, <1>2, <1>3, StepsOnward

(* A permission once withdrawn never answers for the user: neither the      *)
(* queue of configurations, nor a mode switched on again, nor a crash after *)
(* a file records the withdrawal lets a deadline armed before answer.       *)
(* (awaySettings.ts:133, away.ts:125, TaskRuntime.ts:154)                   *)
THEOREM WithdrawalIsFinal == Spec => WithdrawnNeverAnswers
<1> DEFINE Answered == \A i \in Items : kernel.item[i].status = "awaiting"
                                          /\ kernel'.item[i].status = "timed_out" => i \notin withdrawn
<1>1. Init => AnswersStand
  BY DEF Init, AnswersStand
<1>2. IInv => TypeOK
  BY DEF IInv
<1>3. TypeOK /\ AnswersStand /\ [Next]_vars => AnswersStand'
  BY AnswersStandKept
<1>4. IInv /\ AnswersStand /\ [Next]_vars => Answered
  <2> SUFFICES ASSUME IInv, AnswersStand, [Next]_vars,
                      NEW i \in Items, kernel.item[i].status = "awaiting",
                      kernel'.item[i].status = "timed_out"
               PROVE  i \notin withdrawn
    OBVIOUS
  <2>1. CASE Onward(kernel', kernel)
    BY <2>1 DEF Onward
  <2>2. ASSUME NEW e \in delivering, AcceptDeadline(e) PROVE i \notin withdrawn
    <3>1. i = e.of
      BY <1>2, <2>2, AcceptedAnswers
    <3> QED
      BY <2>2, <3>1, AcceptedStands
  <2>3. CASE Onward(kernel', disk)
    BY <2>3 DEF Onward, AnswersStand, Over
  <2> QED
    BY <1>2, <2>1, <2>2, <2>3, StepsOnward
<1>5. WithdrawnNeverAnswers <=> [][Answered]_vars
  BY PTL DEF WithdrawnNeverAnswers, Answered
<1> HIDE DEF Answered
<1> QED
  BY <1>1, <1>2, <1>3, <1>4, <1>5, AwayStaysConsistent, PTL DEF Spec
===============================================================================
