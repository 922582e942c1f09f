-------------------------- MODULE InputQueueProofs --------------------------
(***************************************************************************)
(* Proofs about the retained input queue, for any messages and any number  *)
(* of rounds, cancels, crashes and failures: a message the queue calls     *)
(* consumed is never lost, a held message belongs to a round in flight, a  *)
(* message under edit is out of reach, opening a task decides what the     *)
(* crash interrupted, and each message is sent once unless a round is      *)
(* opened over messages that a failed request left behind.                 *)
(*                                                                         *)
(* A crash takes the kernel back to its last snapshot while the journal    *)
(* stays as it is, so the invariant asks the same of both states (Sound):  *)
(* that the journal carries what the state believes it carries.            *)
(***************************************************************************)
EXTENDS InputQueue, TLAPS, FiniteSetTheorems

Entry == [state : {"none", "accepted", "released", "removed", "consumed"} \cup InDelivery,
          steering : BOOLEAN, editing : BOOLEAN, delivery : {NoDelivery, TurnEnd} \cup Rounds]
Entries == [Messages -> Entry]

Phases == {"waiting", "running", "paused", "error"}
Turns == {"none", "tools", "asking", "recovery"}

Batches == [Rounds -> [state : {"absent", "staged", "retracted"}, members : SUBSET Messages]]

Bound(e) == \A m \in Messages : e[m].delivery # NoDelivery <=> e[m].state \in InDelivery

-----------------------------------------------------------------------------
(* A kernel state t and the journal: n rounds opened, live rows w, staged   *)
(* batches b, checkpoints p, and the rounds F whose rows nothing discards.  *)

\* Rounds are numbered as they are opened.
Known(t, n) ==
    /\ t.compose.id <= n /\ t.provider.id <= n
    /\ \A m \in Messages : t.entry[m].delivery \in Rounds => t.entry[m].delivery <= n

\* The round as flow.compose knows it.
Shaped(t) ==
    LET c == t.compose IN
    /\ t.provider.id <= c.id
    /\ c.id = 0 => c.status = "none" /\ ~c.planned /\ ~c.draft
    /\ c.status = "running" => ~c.draft /\ ~c.receipt /\ t.provider.id < c.id
    /\ c.draft => (c.receipt <=> c.admitted # {})
    /\ c.planned => c.admitted \subseteq c.plan

\* What a round took it took together, and it stands alike.
Delivered(t) ==
    /\ \A m \in Messages : t.entry[m].delivery = TurnEnd => t.entry[m].state = "reserved"
    /\ \A m, k \in Messages :
          t.entry[m].delivery = t.entry[k].delivery /\ t.entry[m].delivery \in Rounds
             => t.entry[m].state = t.entry[k].state
    /\ \A m \in t.compose.admitted :
          t.entry[m].delivery \in {NoDelivery, TurnEnd, t.compose.id}

HeldOrRemoved(t, S, r) == \A m \in S : m \in Held(t.entry, r) \/ t.entry[m].state = "removed"

\* A delivery that still holds a message holds its whole batch, as admitted and
\* as staged, but for what the user removed.
Carried(t, b) ==
    /\ Held(t.entry, t.compose.id) # {} =>
          /\ Held(t.entry, t.compose.id) \subseteq t.compose.admitted
          /\ HeldOrRemoved(t, t.compose.admitted, t.compose.id)
    /\ \A r \in Rounds :
          Held(t.entry, r) # {} /\ b[r].state = "staged" =>
             /\ Held(t.entry, r) \subseteq b[r].members
             /\ HeldOrRemoved(t, b[r].members, r)
    /\ t.compose.status = "running" =>
          /\ HeldOrRemoved(t, t.compose.admitted, t.compose.id)
          /\ \A m \in t.compose.plan \ t.compose.admitted : t.entry[m].state = "consumed"

\* An answer that waits for a round is consumed.
Answers(t) == \A m \in t.feedback : t.entry[m].state = "consumed"

\* A prepared round has its plan in the journal, and a receipt proves one.
Journaled(t, w, b, p) ==
    LET c == t.compose IN
    /\ c.planned /\ p[c.id] = "live" => c.plan \subseteq w[c.id]
    /\ c.receipt => c.id \in Rounds /\ p[c.id] = "live"
    /\ c.id \in Rounds /\ b[c.id].state = "staged" => c.admitted # {}

\* A failed task has no staged batch that its provider result could not settle.
ErrorClean(t, b) ==
    LET c == t.compose IN
    t.phase = "error" =>
       /\ c.id \in Rounds /\ b[c.id].state = "staged" => c.receipt
       /\ c.status = "running" => c.admitted = {}

Conveyed(m, w, F) == \E r \in F : m \in w[r]

\* What was consumed waits as an answer or is in the conversation for good.
Kept(t, w, F) ==
    \A m \in Messages :
        t.entry[m].state = "consumed" => m \in t.feedback \/ Conveyed(m, w, F)

Sound(t, n, w, b, p, F) ==
    /\ Known(t, n) /\ Shaped(t) /\ Delivered(t) /\ Carried(t, b)
    /\ Answers(t) /\ Journaled(t, w, b, p) /\ ErrorClean(t, b) /\ Kept(t, w, F)

\* The deliveries of a task that is not being stopped.
InFlight(t, w, b, F, re) ==
    \A m \in Messages : LET e == t.entry[m] IN
        e.delivery \in Rounds =>
            /\ e.state = "reserved" => e.delivery = t.compose.id /\ t.compose.status = "running"
            /\ e.state = "included" =>
                  /\ e.delivery <= t.provider.id
                  /\ m \in w[e.delivery] /\ e.delivery \in F
                  /\ t.provider.status \in {"running", "failed"}
            /\ e.state = "uncertain" /\ re =>
                  /\ b[e.delivery].state # "absent"
                  /\ \E k \in b[e.delivery].members : t.entry[k].state = "removed"

-----------------------------------------------------------------------------
(* The invariant.                                                           *)

FixedRounds == {r \in Rounds : prepared[r] = "live" /\ (composer = "off" \/ r # Round)}

Typed ==
    /\ TypeOK
    /\ Bound(saved.entry)
    /\ opened \in 0..MaxRounds

\* The snapshot of the round being composed.
Linked ==
    (owed = "compose" \/ composer # "off") /\ saved.compose.id = Round =>
       /\ saved.compose.status = "running"
       /\ saved.compose.admitted = task.compose.admitted
       /\ saved.compose.planned => /\ task.compose.planned
                                   /\ saved.compose.plan = task.compose.plan

\* Who is at work when.
Lanes ==
    /\ composer # "off" => task.compose.status = "running"
    /\ owed = "compose" => task.compose.status = "running" /\ composer = "off"
    /\ halt # "no" => owed = "none"
    /\ halt \in {"settling", "deciding"} =>
          /\ composer = "off" /\ sender = "off"
          /\ task.compose.status = "running" => task.compose.admitted = {}
    /\ sender # "off" \/ owed = "provider" =>
          task.provider.status = "running" /\ task.provider.id = Round /\ task.compose.draft
    /\ sender # "off" => owed = "none"
    /\ owed # "none" \/ composer # "off" \/ sender # "off" => task.turn = "none"
    /\ task.turn \in {"tools", "asking"} => task.phase # "error"
    /\ reopened /\ halt # "no" =>
          /\ halt \in {"settling", "deciding"}
          /\ task.phase = "error" \/ task.provider.id = 0

\* How far the journal of the round being composed has come.
Composing ==
    /\ \A r \in Rounds : opened < r =>
          rows[r] = {} /\ batch[r].state = "absent" /\ prepared[r] = "absent"
    /\ owed = "compose" \/ composer = "taken" => ~task.compose.planned
    /\ owed = "compose" \/ composer \in {"taken", "frozen"} =>
          batch[Round].state = "absent" /\ prepared[Round] = "absent"
    /\ composer \in {"frozen", "staged", "prepared"} => task.compose.planned
    /\ composer \in {"staged", "prepared"} =>
          /\ task.compose.plan \subseteq rows[Round]
          /\ task.compose.admitted = {} => batch[Round].state = "absent"
          /\ task.compose.admitted # {} =>
                batch[Round] = [state |-> "staged", members |-> task.compose.admitted]
    /\ composer = "staged" => prepared[Round] = "absent"
    /\ composer = "prepared" => prepared[Round] = "live"

\* A staged batch of a prepared round is in the conversation.
Batched ==
    \A r \in Rounds :
        batch[r].state = "staged" /\ prepared[r] = "live" => batch[r].members \subseteq rows[r]

Editing ==
    /\ \A m \in Messages : task.entry[m].editing => Mutable(task.entry[m])
    /\ \A m \in Messages : ~saved.entry[m].editing

IInv ==
    /\ Typed
    /\ Sound(task, opened, rows, batch, prepared, FixedRounds)
    /\ Sound(saved, opened, rows, batch, prepared, FixedRounds)
    /\ Linked
    /\ Lanes
    /\ Composing
    /\ Batched
    /\ halt = "no" => InFlight(task, rows, batch, FixedRounds, reopened)
    /\ Editing

-----------------------------------------------------------------------------
(* Steps of a kernel state and of the journal.                              *)

LEMMA Names ==
    /\ Rounds \subseteq Nat /\ \A r \in {0} \cup Rounds : r \in Nat
    /\ NoDelivery \notin Rounds /\ TurnEnd \notin Rounds /\ NoDelivery = 0 /\ TurnEnd # 0
    /\ \A n \in 0..MaxRounds : n # 0 => n \in Rounds
    /\ \A r \in Rounds : r <= MaxRounds /\ r # 0
  BY QueueAssumption DEF Rounds, NoDelivery, TurnEnd

LEMMA TaskFields ==
    ASSUME NEW t \in TaskType
    PROVE  /\ t.entry \in Entries /\ t.feedback \in SUBSET Messages
           /\ t.compose.id \in {0} \cup Rounds /\ t.provider.id \in {0} \cup Rounds
           /\ t.compose.id \in Nat /\ t.provider.id \in Nat
           /\ t.compose.admitted \in SUBSET Messages /\ t.compose.plan \in SUBSET Messages
<1>1. t.entry \in Entries /\ t.feedback \in SUBSET Messages
  BY DEF TaskType, Entries, Entry
<1>2. t.compose.id \in {0} \cup Rounds /\ t.provider.id \in {0} \cup Rounds
  BY DEF TaskType
<1>3. t.compose.admitted \in SUBSET Messages /\ t.compose.plan \in SUBSET Messages
  BY DEF TaskType
<1> QED
  BY <1>1, <1>2, <1>3, Names

\* Messages move between the deliveries of a state: out of a round all together
\* or by removal, never into one, and consumed only once they are conveyed.
Moves(t, e, w, F) ==
    /\ e \in Entries /\ Bound(e)
    /\ \A m \in Messages :
        /\ e[m].delivery \in {t.entry[m].delivery, NoDelivery, TurnEnd}
        /\ e[m].delivery = TurnEnd => e[m].state = "reserved"
        /\ t.entry[m].state \in {"consumed", "removed"} => e[m].state = t.entry[m].state
        /\ e[m].state = "consumed" => t.entry[m].state = "consumed" \/ Conveyed(m, w, F)
    /\ \A m, k \in Messages :
        /\ t.entry[m].delivery \in Rounds /\ t.entry[k].delivery = t.entry[m].delivery
        /\ e[m].state # "removed" /\ e[k].state # "removed"
        => e[k].delivery = e[m].delivery /\ e[k].state = e[m].state
    /\ t.compose.status = "running" => \A m \in t.compose.admitted :
          m \in Held(t.entry, t.compose.id) /\ e[m].state # "removed"
             => e[m].delivery = t.entry[m].delivery

WithEntry(t, e) == [t EXCEPT !.entry = e]

LEMMA WithEntryFields ==
    ASSUME NEW t \in TaskType, NEW e \in Entries
    PROVE  /\ WithEntry(t, e) \in TaskType
           /\ WithEntry(t, e).entry = e
           /\ WithEntry(t, e).feedback = t.feedback
           /\ WithEntry(t, e).compose = t.compose
           /\ WithEntry(t, e).provider = t.provider
           /\ WithEntry(t, e).phase = t.phase
           /\ WithEntry(t, e).turn = t.turn
  BY DEF WithEntry, TaskType, Entries, Entry

LEMMA MovesHeld ==
    ASSUME NEW t \in TaskType, Bound(t.entry), NEW e, NEW w, NEW F, Moves(t, e, w, F),
           NEW r \in Rounds, NEW m \in Held(e, r)
    PROVE  /\ m \in Held(t.entry, r)
           /\ \A k \in Held(t.entry, r) : k \in Held(e, r) \/ e[k].state = "removed"
<1>1. m \in Messages /\ e[m].delivery = r /\ e[m].state \in InDelivery
  BY DEF Held
<1>2. t.entry[m].delivery = r
  BY <1>1, Names DEF Moves
<1>3. m \in Held(t.entry, r)
  BY <1>1, <1>2, Names DEF Held, Bound
<1>4. e[m].state # "removed"
  BY <1>1 DEF InDelivery
<1>5. ASSUME NEW k \in Held(t.entry, r), e[k].state # "removed" PROVE k \in Held(e, r)
  BY <1>1, <1>2, <1>4, <1>5 DEF Held, Moves
<1> QED
  BY <1>3, <1>5

LEMMA MovesSound ==
    ASSUME NEW t \in TaskType, Bound(t.entry), NEW n, NEW w, NEW b \in Batches, NEW p,
           NEW F, Sound(t, n, w, b, p, F), NEW e, Moves(t, e, w, F)
    PROVE  Sound(WithEntry(t, e), n, w, b, p, F)
<1> DEFINE u == WithEntry(t, e)
<1>1. /\ u.entry = e /\ u.feedback = t.feedback /\ u.compose = t.compose
      /\ u.provider = t.provider /\ u.phase = t.phase
      /\ t.compose.admitted \in SUBSET Messages /\ t.compose.plan \in SUBSET Messages
      /\ t.feedback \in SUBSET Messages
      /\ t.compose.id \in {0} \cup Rounds
  BY WithEntryFields, TaskFields DEF Moves
<1> HIDE DEF u
<1>2. Known(u, n)
  BY <1>1, Names DEF Sound, Known, Moves
<1>3. Shaped(u)
  BY <1>1 DEF Sound, Shaped
<1>4. Delivered(u)
  <2>1. \A m \in Messages : u.entry[m].delivery = TurnEnd => u.entry[m].state = "reserved"
    BY <1>1 DEF Moves
  <2>2. ASSUME NEW m \in Messages, NEW k \in Messages, e[m].delivery \in Rounds,
               e[m].delivery = e[k].delivery
        PROVE  e[m].state = e[k].state
    <3>1. e[m].state # "removed" /\ e[k].state # "removed"
      BY <2>2, Names DEF Moves, Bound, InDelivery
    <3>2. t.entry[m].delivery = e[m].delivery /\ t.entry[k].delivery = e[k].delivery
      BY <2>2, Names DEF Moves
    <3> QED
      BY <2>2, <3>1, <3>2 DEF Moves
  <2>3. \A m \in t.compose.admitted :
           e[m].delivery \in {NoDelivery, TurnEnd, t.compose.id}
    BY <1>1 DEF Sound, Delivered, Moves
  <2> QED
    BY <1>1, <2>1, <2>2, <2>3 DEF Delivered
<1>5. Carried(u, b)
  <2>1. ASSUME NEW S \in SUBSET Messages, NEW r \in Rounds, Held(e, r) # {},
               Held(t.entry, r) # {} => Held(t.entry, r) \subseteq S /\ HeldOrRemoved(t, S, r)
        PROVE  Held(e, r) \subseteq S /\ HeldOrRemoved(u, S, r)
    <3>1. Held(t.entry, r) # {} /\ Held(e, r) \subseteq Held(t.entry, r)
      BY <2>1, MovesHeld
    <3>2. \A k \in Held(t.entry, r) : k \in Held(e, r) \/ e[k].state = "removed"
      BY <2>1, MovesHeld
    <3>3. ASSUME NEW k \in S PROVE k \in Held(e, r) \/ e[k].state = "removed"
      BY <2>1, <3>1, <3>2 DEF HeldOrRemoved, Moves
    <3> QED
      BY <2>1, <3>1, <3>3, <1>1 DEF HeldOrRemoved
  <2>2. Held(e, 0) = {}
    BY Names DEF Held, Moves, Bound
  <2>3. Held(e, t.compose.id) # {} =>
           /\ Held(e, t.compose.id) \subseteq t.compose.admitted
           /\ HeldOrRemoved(u, t.compose.admitted, t.compose.id)
    BY <1>1, <2>1, <2>2 DEF Sound, Carried
  <2>4. ASSUME NEW r \in Rounds, Held(e, r) # {}, b[r].state = "staged"
        PROVE  Held(e, r) \subseteq b[r].members /\ HeldOrRemoved(u, b[r].members, r)
    <3>1. Held(t.entry, r) # {} /\ Held(e, r) \subseteq Held(t.entry, r)
      BY <2>4, MovesHeld
    <3>2. \A k \in Held(t.entry, r) : k \in Held(e, r) \/ e[k].state = "removed"
      BY <2>4, MovesHeld
    <3>3. Held(t.entry, r) \subseteq b[r].members /\ HeldOrRemoved(t, b[r].members, r)
      BY <2>4, <3>1 DEF Sound, Carried
    <3>4. b[r].members \in SUBSET Messages
      BY DEF Batches
    <3> QED
      BY <3>1, <3>2, <3>3, <3>4, <1>1 DEF HeldOrRemoved, Moves
  <2>5. ASSUME t.compose.status = "running"
        PROVE  /\ HeldOrRemoved(u, t.compose.admitted, t.compose.id)
               /\ \A m \in t.compose.plan \ t.compose.admitted : e[m].state = "consumed"
    <3>1. ASSUME NEW m \in t.compose.admitted, e[m].state # "removed"
          PROVE  m \in Held(e, t.compose.id)
      <4>1. m \in Messages /\ t.entry[m].state # "removed"
        BY <1>1, <3>1 DEF Moves
      <4>2. m \in Held(t.entry, t.compose.id)
        BY <4>1, <2>5, <3>1 DEF Sound, Carried, HeldOrRemoved
      <4>3. e[m].delivery = t.compose.id
        BY <4>2, <2>5, <3>1 DEF Moves, Held
      <4>4. t.compose.id # 0
        BY <2>5 DEF Sound, Shaped
      <4> QED
        BY <4>1, <4>3, <4>4, Names DEF Held, Moves, Bound
    <3>2. \A m \in t.compose.plan \ t.compose.admitted : e[m].state = "consumed"
      BY <1>1, <2>5 DEF Sound, Carried, Moves
    <3> QED
      BY <3>1, <3>2, <1>1 DEF HeldOrRemoved
  <2> QED
    BY <1>1, <2>3, <2>4, <2>5 DEF Carried
<1>6. Answers(u)
  BY <1>1 DEF Sound, Answers, Moves
<1>7. Journaled(u, w, b, p) /\ ErrorClean(u, b)
  BY <1>1 DEF Sound, Journaled, ErrorClean
<1>8. Kept(u, w, F)
  BY <1>1 DEF Sound, Kept, Moves
<1> QED
  BY <1>2, <1>3, <1>4, <1>5, <1>6, <1>7, <1>8 DEF Sound, u

\* Edits, removals and the turn-end delivery leave the rounds alone.
Loose(t, e) ==
    /\ e \in Entries /\ Bound(e)
    /\ \A m \in Messages :
        \/ e[m].state = t.entry[m].state /\ e[m].delivery = t.entry[m].delivery
        \/ e[m].state = "removed" /\ t.entry[m].state # "consumed"
        \/ /\ t.entry[m].delivery \notin Rounds
           /\ t.entry[m].state \notin {"consumed", "removed"}
           /\ e[m].state # "consumed"
           /\ e[m].delivery \in {NoDelivery, TurnEnd}
           /\ e[m].delivery = TurnEnd => e[m].state = "reserved"

LEMMA LooseMoves ==
    ASSUME NEW t \in TaskType, Bound(t.entry), Delivered(t), Shaped(t), NEW w, NEW F,
           NEW e, Loose(t, e)
    PROVE  Moves(t, e, w, F)
<1>1. \A m \in Messages : t.entry[m].delivery \in {NoDelivery, TurnEnd} \cup Rounds
  BY TaskFields DEF Entries, Entry
<1>2. ASSUME NEW m \in Messages
      PROVE  /\ e[m].delivery \in {t.entry[m].delivery, NoDelivery, TurnEnd}
             /\ e[m].delivery = TurnEnd => e[m].state = "reserved"
             /\ t.entry[m].state \in {"consumed", "removed"} => e[m].state = t.entry[m].state
             /\ e[m].state = "consumed" => t.entry[m].state = "consumed" \/ Conveyed(m, w, F)
  <2>1. CASE e[m].state = "removed" /\ t.entry[m].state # "consumed"
    <3>1. e[m].delivery = NoDelivery
      BY <2>1 DEF Loose, Bound, InDelivery
    <3> QED
      BY <2>1, <3>1, Names
  <2> QED
    BY <2>1 DEF Loose, Delivered
<1>3. ASSUME NEW m \in Messages, NEW k \in Messages,
             t.entry[m].delivery \in Rounds, t.entry[k].delivery = t.entry[m].delivery,
             e[m].state # "removed", e[k].state # "removed"
      PROVE  e[k].delivery = e[m].delivery /\ e[k].state = e[m].state
  BY <1>3 DEF Loose, Delivered
<1>4. ASSUME t.compose.status = "running", NEW m \in t.compose.admitted,
             m \in Held(t.entry, t.compose.id), e[m].state # "removed"
      PROVE  e[m].delivery = t.entry[m].delivery
  <2>1. t.compose.id \in Rounds
    BY <1>4, TaskFields DEF Shaped
  <2> QED
    BY <1>4, <2>1 DEF Loose, Held
<1> QED
  BY <1>2, <1>3, <1>4 DEF Moves, Loose

\* What a snapshot leaves out is nobody's concern but the user's.
LEMMA SnapshotSound ==
    ASSUME NEW t \in TaskType, Bound(t.entry), NEW n, NEW w, NEW b \in Batches, NEW p,
           NEW F, Sound(t, n, w, b, p, F)
    PROVE  /\ Snapshot(t) \in TaskType /\ Bound(Snapshot(t).entry)
           /\ Sound(Snapshot(t), n, w, b, p, F)
           /\ \A m \in Messages : ~Snapshot(t).entry[m].editing
           /\ Snapshot(t).compose = t.compose
<1> DEFINE e == [m \in Messages |-> [t.entry[m] EXCEPT !.editing = FALSE]]
<1>1. Snapshot(t) = WithEntry(t, e)
  BY DEF Snapshot, WithEntry, TaskType
<1>2. e \in [Messages -> Entry] /\ \A m \in Messages :
         e[m].state = t.entry[m].state /\ e[m].delivery = t.entry[m].delivery /\ ~e[m].editing
  <2>1. \A m \in Messages : t.entry[m] \in Entry
    BY TaskFields DEF Entries
  <2>2. \A x \in Entry : LET y == [x EXCEPT !.editing = FALSE] IN
           y \in Entry /\ y.state = x.state /\ y.delivery = x.delivery /\ ~y.editing
    BY DEF Entry
  <2> QED
    BY <2>1, <2>2
<1>3. e \in Entries
  BY <1>2 DEF Entries
<1> HIDE DEF e
<1>4. Loose(t, e)
  BY <1>2, <1>3 DEF Loose, Bound
<1>5. Moves(t, e, w, F)
  BY <1>4, LooseMoves DEF Sound
<1> QED
  BY <1>1, <1>2, <1>5, MovesSound, WithEntryFields DEF Moves

\* The journal moves on under a state: nothing it relies on is taken back.
LEMMA JournalStep ==
    ASSUME NEW t \in TaskType, NEW n \in Nat, NEW w, NEW b, NEW p, NEW F,
           Sound(t, n, w, b, p, F),
           NEW n2 \in Nat, NEW w2, NEW b2, NEW p2, NEW F2,
           n <= n2,
           \A r \in Rounds : b2[r].state = "staged" => b2[r] = b[r],
           \A r \in Rounds : p2[r] = "live" => p[r] = "live" /\ w[r] \subseteq w2[r],
           t.compose.receipt => p2[t.compose.id] = "live",
           \A r \in F : r \in F2 /\ w[r] \subseteq w2[r]
    PROVE  Sound(t, n2, w2, b2, p2, F2)
<1>1. /\ t.compose.id \in {0} \cup Rounds
      /\ t.compose.id \in Nat /\ t.provider.id \in Nat
  BY TaskFields
<1>2. Known(t, n2)
  <2>1. ASSUME NEW m \in Messages, t.entry[m].delivery \in Rounds
        PROVE  t.entry[m].delivery <= n2
    <3>1. t.entry[m].delivery \in Nat
      BY <2>1, Names
    <3>2. t.entry[m].delivery <= n
      BY <2>1 DEF Sound, Known
    <3> QED
      BY <3>1, <3>2
  <2> QED
    BY <1>1, <2>1 DEF Sound, Known
<1>3. Carried(t, b2)
  BY DEF Sound, Carried
<1>4. Journaled(t, w2, b2, p2)
  BY <1>1 DEF Sound, Journaled, Shaped
<1>5. ErrorClean(t, b2)
  BY DEF Sound, ErrorClean
<1>6. Kept(t, w2, F2)
  BY DEF Sound, Kept, Conveyed
<1> QED
  BY <1>2, <1>3, <1>4, <1>5, <1>6 DEF Sound

\* A round that ends without its draft is over; the answers stay for the next.
WithStatus(t, status, phase, turn) ==
    [t EXCEPT !.compose.status = status, !.phase = phase, !.turn = turn]

LEMMA WithStatusFields ==
    ASSUME NEW t \in TaskType, NEW status \in Statuses,
           NEW phase \in Phases,
           NEW turn \in Turns,
           NEW u, u = WithStatus(t, status, phase, turn)
    PROVE  /\ u \in TaskType
           /\ u.entry = t.entry /\ u.feedback = t.feedback /\ u.provider = t.provider
           /\ u.compose.id = t.compose.id /\ u.compose.status = status
           /\ u.compose.admitted = t.compose.admitted
           /\ u.compose.planned = t.compose.planned /\ u.compose.plan = t.compose.plan
           /\ u.compose.draft = t.compose.draft /\ u.compose.receipt = t.compose.receipt
           /\ u.phase = phase /\ u.turn = turn
  BY DEF WithStatus, TaskType, Phases, Turns

LEMMA StatusSound ==
    ASSUME NEW t \in TaskType, NEW n, NEW w, NEW b, NEW p, NEW F,
           Sound(t, n, w, b, p, F),
           NEW status \in Statuses, status # "running",
           NEW phase \in Phases,
           NEW turn \in Turns,
           t.compose.id # 0 \/ status = "none",
           phase = "error" => b[t.compose.id].state # "staged",
           NEW u, u = WithStatus(t, status, phase, turn)
    PROVE  Sound(u, n, w, b, p, F)
<1>1. /\ u.entry = t.entry /\ u.feedback = t.feedback /\ u.provider = t.provider
      /\ u.compose.id = t.compose.id /\ u.compose.status = status
      /\ u.compose.admitted = t.compose.admitted
      /\ u.compose.planned = t.compose.planned /\ u.compose.plan = t.compose.plan
      /\ u.compose.draft = t.compose.draft /\ u.compose.receipt = t.compose.receipt
      /\ u.phase = phase
  BY WithStatusFields
<1>2. Known(u, n) /\ Shaped(u)
  BY <1>1 DEF Sound, Known, Shaped
<1>3. Delivered(u) /\ Carried(u, b)
  BY <1>1 DEF Sound, Delivered, Carried, HeldOrRemoved
<1>4. Answers(u) /\ Journaled(u, w, b, p)
  BY <1>1 DEF Sound, Answers, Journaled
<1>5. ErrorClean(u, b) /\ Kept(u, w, F)
  BY <1>1 DEF Sound, ErrorClean, Kept
<1> QED
  BY <1>2, <1>3, <1>4, <1>5 DEF Sound

-----------------------------------------------------------------------------
(* The invariant holds initially.                                           *)

LEMMA InitIInv == Init => IInv
<1> SUFFICES ASSUME Init PROVE IInv
  OBVIOUS
<1>1. /\ task.entry = [m \in Messages |-> NoEntry] /\ task.feedback = {}
      /\ task.compose = NoCompose /\ task.provider = NoProvider
      /\ task.phase = "waiting" /\ task.turn = "none"
      /\ saved = task
  BY DEF Init
<1>2. \A m \in Messages : /\ task.entry[m].state = "none" /\ task.entry[m].delivery = 0
                          /\ ~task.entry[m].editing
  BY <1>1 DEF NoEntry, NoDelivery
<1>3. task \in TaskType
  BY DEF Init, TaskType, NoEntry, NoCompose, NoProvider, Statuses
<1>4. Typed
  <2>1. Bound(task.entry)
    BY <1>2 DEF Bound, InDelivery, NoDelivery
  <2>2. opened \in 0..MaxRounds
    BY QueueAssumption DEF Init
  <2>3. TypeOK
    BY <1>1, <1>3, <2>1 DEF Init, TypeOK, Bound
  <2> QED
    BY <1>1, <2>1, <2>2, <2>3 DEF Typed
<1>5. /\ task.compose.id = 0 /\ task.compose.status = "none"
      /\ task.compose.admitted = {} /\ task.compose.plan = {}
      /\ ~task.compose.planned /\ ~task.compose.draft /\ ~task.compose.receipt
      /\ task.provider.id = 0 /\ task.provider.status = "none"
  BY <1>1 DEF NoCompose, NoProvider
<1>6. \A r : Held(task.entry, r) = {}
  BY <1>2 DEF Held, InDelivery
<1>7. Sound(task, opened, rows, batch, prepared, FixedRounds)
  <2>1. Known(task, opened)
    BY <1>2, <1>5, Names DEF Known, Init
  <2>2. Shaped(task) /\ Delivered(task)
    BY <1>2, <1>5, Names DEF Shaped, Delivered
  <2>3. Carried(task, batch)
    BY <1>5, <1>6 DEF Carried
  <2>4. Answers(task) /\ Journaled(task, rows, batch, prepared)
    BY <1>1, <1>5, Names DEF Answers, Journaled
  <2>5. ErrorClean(task, batch) /\ Kept(task, rows, FixedRounds)
    BY <1>1, <1>2 DEF ErrorClean, Kept
  <2> QED
    BY <2>1, <2>2, <2>3, <2>4, <2>5 DEF Sound
<1>8. Linked /\ Lanes
  BY <1>1 DEF Init, Linked, Lanes
<1>9. Composing /\ Batched
  BY DEF Init, Composing, Batched
<1>10. InFlight(task, rows, batch, FixedRounds, reopened)
  BY <1>2, Names DEF InFlight
<1>11. Editing
  BY <1>1, <1>2 DEF Editing
<1> QED
  BY <1>1, <1>4, <1>7, <1>8, <1>9, <1>10, <1>11 DEF IInv

-----------------------------------------------------------------------------
(* The queue the user sees, and the turn-end delivery.                      *)

LEMMA Types ==
    ASSUME Typed
    PROVE  /\ task \in TaskType /\ saved \in TaskType
           /\ Bound(task.entry) /\ Bound(saved.entry)
           /\ batch \in Batches /\ rows \in [Rounds -> SUBSET Messages]
           /\ opened \in 0..MaxRounds /\ opened \in Nat
  BY QueueAssumption DEF Typed, TypeOK, Bound, Batches

\* A step that only moves entries, and never into or within a round.
LEMMA EntryStep ==
    ASSUME IInv, NEW e, Loose(task, e), task' = WithEntry(task, e),
           \A m \in Messages : e[m].editing => Mutable(e[m]),
           answering' \in [at : {"off", "reserved", "ready"}, members : SUBSET Messages],
           UNCHANGED <<saved, owed, halt, composer, sender, journal, opened, reopened>>
    PROVE  IInv'
<1> USE DEF journal
<1>1. Moves(task, e, rows, FixedRounds)
  BY LooseMoves, Types DEF IInv, Sound
<1>2. /\ task' \in TaskType /\ task'.entry = e /\ Bound(e)
      /\ task'.compose = task.compose /\ task'.provider = task.provider
      /\ task'.phase = task.phase /\ task'.turn = task.turn
  BY <1>1, WithEntryFields, Types DEF Moves, IInv
<1>3. FixedRounds' = FixedRounds
  BY <1>2 DEF FixedRounds, Round
<1>4. Typed'
  BY <1>2 DEF IInv, Typed, TypeOK, Bound
<1>5. Sound(task', opened, rows, batch, prepared, FixedRounds)
  BY <1>1, MovesSound, Types DEF IInv
<1>6. Linked' /\ Lanes' /\ Composing' /\ Batched'
  BY <1>2 DEF IInv, Linked, Lanes, Composing, Batched, Round
<1>7. ASSUME halt = "no" PROVE InFlight(task', rows, batch, FixedRounds, reopened)
  <2>1. InFlight(task, rows, batch, FixedRounds, reopened)
    BY <1>7 DEF IInv
  <2>2. \A m \in Messages : e[m].delivery \in Rounds =>
           task.entry[m].state = e[m].state /\ task.entry[m].delivery = e[m].delivery
    BY <1>2, Names DEF Loose, Bound, InDelivery
  <2>3. \A m \in Messages : task.entry[m].state = "removed" => e[m].state = "removed"
    BY <1>1 DEF Moves
  <2>4. \A r \in Rounds : batch[r].members \in SUBSET Messages
    BY Types DEF IInv, Batches
  <2> QED
    BY <1>2, <2>1, <2>2, <2>3, <2>4 DEF InFlight
<1>8. Editing'
  BY <1>2 DEF IInv, Editing
<1> QED
  BY <1>3, <1>4, <1>5, <1>6, <1>7, <1>8 DEF IInv

\* One message, while it is in nobody's hands or to be removed.
LEMMA AlterStep ==
    ASSUME IInv, NEW m \in Messages, NEW x \in Entry, Alter(m, x),
           x.delivery = NoDelivery, x.state \in {"accepted", "released", "removed"},
           \/ x.state = "removed" /\ task.entry[m].state # "consumed"
           \/ Mutable(task.entry[m]) \/ task.entry[m].state = "none",
           x.editing => Mutable(x),
           UNCHANGED <<saved, owed, halt, composer, sender, answering, journal,
                       opened, reopened>>
    PROVE  IInv'
<1> DEFINE e == [task.entry EXCEPT ![m] = x]
<1>1. task \in TaskType /\ task.entry \in Entries /\ Bound(task.entry)
  BY Types, TaskFields DEF IInv
<1>2. task' = WithEntry(task, e)
  BY <1>1 DEF Alter, WithEntry, TaskType
<1>3. e \in Entries /\ e[m] = x /\ \A k \in Messages : k # m => e[k] = task.entry[k]
  BY <1>1 DEF Entries
<1> HIDE DEF e
<1>4. Bound(e)
  BY <1>1, <1>3 DEF Bound, InDelivery
<1>5. ASSUME Mutable(task.entry[m]) \/ task.entry[m].state = "none"
      PROVE  /\ task.entry[m].delivery = NoDelivery
             /\ task.entry[m].state \notin {"consumed", "removed"}
  BY <1>1, <1>5 DEF Bound, InDelivery, Mutable
<1>6. Loose(task, e)
  BY <1>3, <1>4, <1>5, Names DEF Loose
<1>7. \A k \in Messages : e[k].editing => Mutable(e[k])
  BY <1>3 DEF IInv, Editing
<1>8. answering' \in [at : {"off", "reserved", "ready"}, members : SUBSET Messages]
  BY DEF IInv, Typed, TypeOK
<1> QED
  BY <1>2, <1>6, <1>7, <1>8, EntryStep

LEMMA QueueIInv ==
    ASSUME IInv, NEW m \in Messages,
           Enqueue(m) \/ Toggle(m) \/ StartEdit(m) \/ EndEdit(m) \/ Remove(m)
    PROVE  IInv'
<1>1. task.entry[m] \in Entry /\ Bound(task.entry)
  BY Types, TaskFields DEF IInv, Entries
<1>2. task.entry[m].editing => Mutable(task.entry[m])
  BY DEF IInv, Editing
<1>3. NoEntry \in Entry
  BY DEF NoEntry, Entry
<1>4. ASSUME Mutable(task.entry[m])
      PROVE  /\ task.entry[m].delivery = NoDelivery
             /\ task.entry[m].state \in {"accepted", "released"}
  BY <1>1, <1>4 DEF Bound, Mutable, InDelivery
<1>5. CASE Enqueue(m)
  <2>1. PICK steering \in BOOLEAN :
           Alter(m, [NoEntry EXCEPT !.state = "accepted", !.steering = steering])
    BY <1>5 DEF Enqueue
  <2>2. PICK x : x = [NoEntry EXCEPT !.state = "accepted", !.steering = steering]
    OBVIOUS
  <2>3. /\ x \in Entry /\ x.delivery = NoDelivery /\ x.state = "accepted" /\ ~x.editing
    BY <2>2 DEF NoEntry, Entry
  <2> QED
    BY <1>5, <2>1, <2>2, <2>3, AlterStep DEF Enqueue, OnlyTask, counters
<1>6. CASE Toggle(m)
  <2>1. PICK x : x = [task.entry[m] EXCEPT !.steering = ~@]
    OBVIOUS
  <2>2. /\ x \in Entry /\ x.delivery = task.entry[m].delivery
        /\ x.state = task.entry[m].state /\ x.editing = task.entry[m].editing
    BY <1>1, <2>1 DEF Entry
  <2> QED
    BY <1>2, <1>4, <1>6, <2>1, <2>2, AlterStep DEF Toggle, OnlyTask, counters, Mutable
<1>7. CASE StartEdit(m)
  <2>1. PICK x : x = [task.entry[m] EXCEPT !.editing = TRUE]
    OBVIOUS
  <2>2. /\ x \in Entry /\ x.delivery = task.entry[m].delivery
        /\ x.state = task.entry[m].state
    BY <1>1, <2>1 DEF Entry
  <2> QED
    BY <1>4, <1>7, <2>1, <2>2, AlterStep DEF StartEdit, OnlyTask, counters, Mutable
<1>8. CASE EndEdit(m)
  <2>1. PICK x : x = [task.entry[m] EXCEPT !.editing = FALSE]
    OBVIOUS
  <2>2. /\ x \in Entry /\ x.delivery = task.entry[m].delivery
        /\ x.state = task.entry[m].state /\ ~x.editing
    BY <1>1, <2>1 DEF Entry
  <2> QED
    BY <1>4, <1>8, <2>1, <2>2, AlterStep DEF EndEdit, OnlyTask, counters, Mutable
<1>9. CASE Remove(m)
  <2>1. PICK x : x = [NoEntry EXCEPT !.state = "removed"]
    OBVIOUS
  <2>2. x \in Entry /\ x.delivery = NoDelivery /\ x.state = "removed" /\ ~x.editing
    BY <2>1 DEF NoEntry, Entry
  <2>3. task.entry[m].state # "consumed"
    BY <1>9, <1>4 DEF Remove, InDelivery
  <2>4. Alter(m, x) /\ OnlyTask /\ UNCHANGED <<opened, reopened>>
    BY <1>9, <2>1 DEF Remove
  <2> QED
    BY <2>2, <2>3, <2>4, AlterStep DEF OnlyTask
<1> QED
  BY <1>5, <1>6, <1>7, <1>8, <1>9

LEMMA TurnEndIInv == ASSUME IInv, ReserveTurnEnd \/ Materialize \/ GiveBack PROVE IInv'
<1>1. task \in TaskType /\ task.entry \in Entries /\ Bound(task.entry)
  BY Types, TaskFields DEF IInv
<1>2. \A m \in Messages : task.entry[m] \in Entry
  BY <1>1 DEF Entries
<1>3. CASE ReserveTurnEnd
  <2>1. PICK S \in TurnEndChoices(task.entry) :
           task' = [task EXCEPT !.entry = Reserved(@, S, TurnEnd)]
    BY <1>3 DEF ReserveTurnEnd
  <2>2. S \subseteq Deliverable(task.entry)
    BY DEF TurnEndChoices, Steering
  <2> DEFINE e == Reserved(task.entry, S, TurnEnd)
  <2>3. task' = WithEntry(task, e)
    BY <2>1, <1>1 DEF WithEntry, TaskType
  <2>4. ASSUME NEW m \in Messages
        PROVE  /\ e[m] \in Entry /\ e[m].editing = task.entry[m].editing
               /\ m \in S => e[m].state = "reserved" /\ e[m].delivery = TurnEnd
               /\ m \notin S => e[m] = task.entry[m]
    BY <1>2 DEF Reserved, Entry, InDelivery
  <2>5. e \in Entries
    BY <2>4 DEF Entries, Reserved
  <2> HIDE DEF e
  <2>6. ASSUME NEW m \in S
        PROVE  /\ Mutable(task.entry[m]) /\ ~task.entry[m].editing /\ m \in Messages
               /\ task.entry[m].delivery = NoDelivery
               /\ task.entry[m].state \notin {"consumed", "removed"}
    BY <2>2, <1>1 DEF Deliverable, Mutable, Bound, InDelivery
  <2>7. Bound(e)
    BY <1>1, <2>4, Names DEF Bound, InDelivery
  <2>8. Loose(task, e)
    BY <2>4, <2>5, <2>6, <2>7, Names DEF Loose
  <2>9. \A m \in Messages : e[m].editing => Mutable(e[m])
    BY <2>4, <2>6 DEF IInv, Editing
  <2>10. answering' \in [at : {"off", "reserved", "ready"}, members : SUBSET Messages]
    BY <1>3 DEF ReserveTurnEnd
  <2> QED
    BY <1>3, <2>3, <2>8, <2>9, <2>10, EntryStep DEF ReserveTurnEnd, counters
<1>4. CASE Materialize
  <2>1. answering' \in [at : {"off", "reserved", "ready"}, members : SUBSET Messages]
    BY <1>4 DEF Materialize, Held
  <2>2. UNCHANGED <<task, saved, owed, halt, composer, sender, journal, counters>>
    BY <1>4 DEF Materialize
  <2>3. FixedRounds' = FixedRounds
    BY <2>2 DEF FixedRounds, Round, journal
  <2> QED
    BY <2>1, <2>2, <2>3 DEF IInv, Typed, TypeOK, Linked, Lanes, Composing, Batched, Editing,
                            Round, journal, counters
<1>5. CASE GiveBack
  <2> DEFINE e == IF halt = "no" THEN Released(task.entry, Held(task.entry, TurnEnd))
                  ELSE task.entry
  <2>1. task' = WithEntry(task, e)
    BY <1>5, <1>1 DEF GiveBack, WithEntry, TaskType
  <2>2. ASSUME NEW m \in Messages
        PROVE  /\ e[m] \in Entry /\ e[m].editing = task.entry[m].editing
               /\ \/ e[m] = task.entry[m]
                  \/ /\ m \in Held(task.entry, TurnEnd)
                     /\ e[m].state = "released" /\ e[m].delivery = NoDelivery
    BY <1>2 DEF Released, Entry, InDelivery
  <2>3. e \in Entries
    BY <1>1, <2>2 DEF Entries, Released
  <2> HIDE DEF e
  <2>4. \A m \in Held(task.entry, TurnEnd) :
           /\ task.entry[m].delivery = TurnEnd
           /\ task.entry[m].state \notin {"consumed", "removed"}
    BY DEF Held, InDelivery
  <2>5. Bound(e)
    BY <1>1, <2>2 DEF Bound, InDelivery
  <2>6. Loose(task, e)
    BY <2>2, <2>3, <2>4, <2>5, Names DEF Loose
  <2>7. \A m \in Messages : e[m].editing => Mutable(e[m])
    BY <2>2 DEF IInv, Editing, Mutable
  <2>8. answering' \in [at : {"off", "reserved", "ready"}, members : SUBSET Messages]
    BY <1>5 DEF GiveBack
  <2> QED
    BY <1>5, <2>1, <2>6, <2>7, <2>8, EntryStep DEF GiveBack, counters
<1> QED
  BY <1>3, <1>4, <1>5

\* A queued answer is consumed in the commit that answers, and waits for the
\* round that will carry it.
LEMMA RespondIInv == ASSUME IInv, Respond PROVE IInv'
<1> DEFINE S == answering.members
           e == Consumed(task.entry, S)
           F == FixedRounds
<1>1. /\ task \in TaskType /\ Bound(task.entry) /\ batch \in Batches
      /\ task.entry \in Entries /\ task.compose.admitted \in SUBSET Messages
      /\ task.compose.plan \in SUBSET Messages /\ task.compose.id \in {0} \cup Rounds
      /\ task.feedback \in SUBSET Messages
  BY Types, TaskFields DEF IInv
<1>2. S \in SUBSET Messages /\ Held(task.entry, TurnEnd) = S
      /\ halt = "no" /\ task.turn = "asking"
  BY DEF Respond, CanAnswer, IInv, Typed, TypeOK
<1>3. /\ task'.entry = e /\ task'.feedback = task.feedback \cup S /\ task'.turn = "tools"
      /\ task'.compose = task.compose /\ task'.provider = task.provider
      /\ task'.phase = task.phase
      /\ UNCHANGED <<saved, owed, halt, composer, sender, rows, batch, prepared, final,
                     opened, reopened>>
  BY <1>1 DEF Respond, TaskType, journal, counters
<1>4. \A m \in Messages : m \in S => task.entry[m].delivery = TurnEnd
                                     /\ task.entry[m].state \notin {"consumed", "removed"}
  BY <1>2 DEF Held, InDelivery
<1>5. /\ \A m \in Messages : IF m \in S THEN e[m] = [NoEntry EXCEPT !.state = "consumed"]
                             ELSE e[m] = task.entry[m]
      /\ [NoEntry EXCEPT !.state = "consumed"] \in Entry
  BY DEF Consumed, NoEntry, Entry
<1>6. e \in Entries
  BY <1>1, <1>5 DEF Entries, Consumed
<1>7. \A m \in S : /\ e[m].state = "consumed" /\ e[m].delivery = NoDelivery
                   /\ ~e[m].editing
  BY <1>2, <1>5 DEF NoEntry
<1> HIDE DEF S, e, F
<1>8. Bound(e)
  BY <1>1, <1>5, <1>7 DEF Bound, InDelivery
<1>9. task' \in TaskType
  BY <1>1, <1>2, <1>6 DEF Respond, TaskType, Entries, Entry, e, S
<1>10. Typed'
  BY <1>2, <1>3, <1>8, <1>9 DEF Respond, IInv, Typed, TypeOK, Bound
<1>11. \A r \in Rounds : Held(e, r) = Held(task.entry, r)
  BY <1>4, <1>5, <1>7, Names DEF Held
<1>12. Held(e, 0) = {}
  BY <1>8, Names DEF Held, Bound
<1>13. Sound(task', opened, rows, batch, prepared, F)
  <2> DEFINE t == task'
  <2>1. Known(t, opened)
    BY <1>3, <1>5, <1>7, Names DEF IInv, Sound, Known
  <2>2. Shaped(t)
    BY <1>3 DEF IInv, Sound, Shaped
  <2>3. Delivered(t)
    <3>1. Delivered(task)
      BY DEF IInv, Sound
    <3>2. \A m \in Messages : e[m].delivery \in {task.entry[m].delivery, NoDelivery}
      BY <1>5, <1>7
    <3>3. \A m \in Messages : e[m].delivery # NoDelivery => e[m] = task.entry[m]
      BY <1>5, <1>7
    <3>4. \A m \in task.compose.admitted :
             e[m].delivery \in {NoDelivery, TurnEnd, task.compose.id}
      BY <1>1, <3>1, <3>2 DEF Delivered
    <3> QED
      BY <1>3, <3>1, <3>3, <3>4, Names DEF Delivered
  <2>4. Carried(t, batch)
    <3>1. \A K \in SUBSET Messages : \A r \in Rounds :
             HeldOrRemoved(task, K, r) => HeldOrRemoved(t, K, r)
      BY <1>3, <1>4, <1>5, <1>11 DEF HeldOrRemoved
    <3>2. \A r \in Rounds : batch[r].members \in SUBSET Messages
      BY <1>1 DEF Batches
    <3>3. Carried(task, batch) /\ (task.compose.status = "running" => task.compose.id # 0)
      BY DEF IInv, Sound, Shaped
    <3>4. \A m \in Messages : task.entry[m].state = "consumed" => e[m].state = "consumed"
      BY <1>5, <1>7
    <3>5. Held(e, task.compose.id) # {} =>
             /\ Held(e, task.compose.id) \subseteq task.compose.admitted
             /\ HeldOrRemoved(t, task.compose.admitted, task.compose.id)
      BY <1>1, <1>11, <1>12, <3>1, <3>3 DEF Carried
    <3>6. \A r \in Rounds : Held(e, r) # {} /\ batch[r].state = "staged" =>
             Held(e, r) \subseteq batch[r].members /\ HeldOrRemoved(t, batch[r].members, r)
      BY <1>11, <3>1, <3>2, <3>3 DEF Carried
    <3>7. task.compose.status = "running" =>
             /\ HeldOrRemoved(t, task.compose.admitted, task.compose.id)
             /\ \A m \in task.compose.plan \ task.compose.admitted : e[m].state = "consumed"
      BY <1>1, <3>1, <3>3, <3>4 DEF Carried
    <3> QED
      BY <1>3, <3>5, <3>6, <3>7 DEF Carried
  <2>5. Answers(t)
    BY <1>1, <1>3, <1>5, <1>7 DEF IInv, Sound, Answers
  <2>6. Journaled(t, rows, batch, prepared) /\ ErrorClean(t, batch)
    BY <1>3 DEF IInv, Sound, Journaled, ErrorClean
  <2>7. Kept(t, rows, F)
    BY <1>3, <1>5 DEF IInv, Sound, Kept, F
  <2> QED
    BY <2>1, <2>2, <2>3, <2>4, <2>5, <2>6, <2>7 DEF Sound
<1>14. FixedRounds' = F
  BY <1>3 DEF FixedRounds, Round, F
<1>15. Linked' /\ Composing' /\ Batched'
  BY <1>3 DEF IInv, Linked, Composing, Batched, Round
<1>16. Lanes'
  BY <1>2, <1>3 DEF IInv, Lanes, Round
<1>17. InFlight(task', rows, batch, F, reopened)
  <2>1. InFlight(task, rows, batch, F, reopened)
    BY <1>2 DEF IInv, F
  <2>2. \A m \in Messages : e[m].delivery \in Rounds => e[m] = task.entry[m]
    BY <1>5, <1>7, Names
  <2>3. \A m \in Messages : task.entry[m].state = "removed" => e[m].state = "removed"
    BY <1>4, <1>5
  <2>4. \A r \in Rounds : batch[r].members \in SUBSET Messages
    BY <1>1 DEF Batches
  <2> QED
    BY <1>3, <2>1, <2>2, <2>3, <2>4 DEF InFlight
<1>18. Editing'
  BY <1>3, <1>5, <1>7 DEF IInv, Editing
<1> QED
  BY <1>3, <1>10, <1>13, <1>14, <1>15, <1>16, <1>17, <1>18 DEF IInv, F

LEMMA AnswerByHandIInv == ASSUME IInv, AnswerByHand PROVE IInv'
<1>1. /\ task'.entry = task.entry /\ task'.feedback = task.feedback /\ task'.turn = "tools"
      /\ task'.compose = task.compose /\ task'.provider = task.provider
      /\ task'.phase = task.phase /\ task.turn = "asking" /\ task' \in TaskType
      /\ UNCHANGED <<saved, owed, halt, composer, sender, answering, rows, batch,
                     prepared, final, opened, reopened>>
  BY Types DEF IInv, AnswerByHand, TaskType, journal, counters, OnlyTask
<1>2. FixedRounds' = FixedRounds
  BY <1>1 DEF FixedRounds, Round
<1>3. Typed'
  BY <1>1 DEF IInv, Typed, TypeOK
<1>4. Sound(task', opened, rows, batch, prepared, FixedRounds)
  BY <1>1 DEF IInv, Sound, Known, Shaped, Delivered, Carried, HeldOrRemoved, Answers,
              Journaled, ErrorClean, Kept
<1>5. Linked' /\ Lanes' /\ Composing' /\ Batched' /\ Editing'
  BY <1>1 DEF IInv, Linked, Lanes, Composing, Batched, Editing, Round
<1>6. halt = "no" => InFlight(task', rows, batch, FixedRounds, reopened)
  BY <1>1 DEF IInv, InFlight
<1> QED
  BY <1>1, <1>2, <1>3, <1>4, <1>5, <1>6 DEF IInv

-----------------------------------------------------------------------------
(* Snapshots and rounds.                                                    *)

LEMMA SaveIInv == ASSUME IInv, Save PROVE IInv'
<1>1. /\ saved' = Snapshot(task)
      /\ UNCHANGED <<task, owed, halt, composer, sender, answering, rows, batch, prepared,
                     final, opened, reopened>>
  BY DEF Save, journal, counters
<1>2. /\ saved' \in TaskType /\ Bound(saved'.entry)
      /\ Sound(saved', opened, rows, batch, prepared, FixedRounds)
      /\ \A m \in Messages : ~saved'.entry[m].editing
      /\ saved'.compose = task.compose
  BY <1>1, SnapshotSound, Types DEF IInv
<1>3. FixedRounds' = FixedRounds
  BY <1>1 DEF FixedRounds, Round
<1>4. Typed'
  BY <1>1, <1>2 DEF IInv, Typed, TypeOK, Bound
<1>5. Linked'
  BY <1>1, <1>2 DEF IInv, Linked, Lanes, Round
<1>6. Lanes' /\ Composing' /\ Batched' /\ Editing'
  BY <1>1, <1>2 DEF IInv, Lanes, Composing, Batched, Editing, Round
<1> QED
  BY <1>1, <1>2, <1>3, <1>4, <1>5, <1>6 DEF IInv

\* A round opens with messages nobody holds, in a task that is at rest.
LEMMA OpenRoundIInv ==
    ASSUME IInv, halt = "no", ~ActiveRound(task), NEW S \in SUBSET Deliverable(task.entry),
           NEW phase \in Phases, phase = "error" => S = {}, OpenRound(S, phase)
    PROVE  IInv'
<1> DEFINE r == opened + 1
           e == Reserved(task.entry, S, r)
           F == FixedRounds
<1>1. /\ task \in TaskType /\ Bound(task.entry) /\ batch \in Batches
      /\ saved \in TaskType /\ Bound(saved.entry)
      /\ task.entry \in Entries /\ opened \in 0..MaxRounds /\ opened \in Nat
      /\ task.compose.id \in Nat /\ task.provider.id \in Nat /\ saved.compose.id \in Nat
  BY Types, TaskFields DEF IInv
<1>2. opened < MaxRounds /\ r \in Rounds /\ r \in Nat /\ r # 0 /\ r # TurnEnd /\ opened < r
      /\ \A k \in Nat : k <= opened => k # r /\ k < r
  BY <1>1, QueueAssumption DEF OpenRound, Rounds, TurnEnd
<1>3. S \in SUBSET Messages
  BY DEF Deliverable
<1>4. /\ task'.entry = e /\ task'.feedback = task.feedback
      /\ task'.compose.id = r /\ task'.compose.status = "running"
      /\ task'.compose.admitted = S /\ ~task'.compose.planned
      /\ task'.compose.plan = {} /\ ~task'.compose.draft /\ ~task'.compose.receipt
      /\ task'.provider = task.provider /\ task'.phase = phase /\ task'.turn = "none"
      /\ owed' = "compose" /\ opened' = r
      /\ UNCHANGED <<saved, halt, composer, sender, answering, rows, batch, prepared,
                     final, reopened>>
  BY <1>1 DEF OpenRound, TaskType, NoCompose, journal
<1>5. \A m \in Messages : /\ m \in S => e[m] = [task.entry[m] EXCEPT !.state = "reserved",
                                                                     !.delivery = r]
                          /\ m \notin S => e[m] = task.entry[m]
  BY DEF Reserved
<1>6. \A m \in Messages : task.entry[m] \in Entry
  BY <1>1 DEF Entries
<1>7. \A m \in Messages : m \in S => /\ e[m].state = "reserved" /\ e[m].delivery = r
                                     /\ e[m].editing = task.entry[m].editing
                                     /\ e[m] \in Entry
  <2>1. ASSUME NEW x \in Entry, NEW y, y = [x EXCEPT !.state = "reserved", !.delivery = r]
        PROVE  /\ y \in Entry /\ y.state = "reserved" /\ y.delivery = r
               /\ y.editing = x.editing
    BY <1>2, <2>1 DEF Entry, InDelivery
  <2> SUFFICES ASSUME NEW m \in Messages, m \in S
               PROVE  /\ e[m].state = "reserved" /\ e[m].delivery = r
                      /\ e[m].editing = task.entry[m].editing /\ e[m] \in Entry
    OBVIOUS
  <2>2. e[m] = [task.entry[m] EXCEPT !.state = "reserved", !.delivery = r]
    BY <1>5
  <2> QED
    BY <1>6, <2>1, <2>2
<1>8. e \in Entries
  BY <1>5, <1>6, <1>7 DEF Entries, Reserved
<1>9. task' \in TaskType
  BY <1>1, <1>2, <1>3, <1>8 DEF OpenRound, TaskType, NoCompose, Statuses, Phases, Entries, Entry
<1> HIDE DEF e, F
<1>10. ASSUME NEW m \in S
       PROVE  /\ task.entry[m].delivery = NoDelivery /\ ~task.entry[m].editing
              /\ task.entry[m].state \in {"accepted", "released"}
  BY <1>1 DEF Deliverable, Mutable, Bound, InDelivery
<1>11. Bound(e)
  BY <1>1, <1>2, <1>5, <1>7, Names DEF Bound, InDelivery
<1>12. Typed'
  BY <1>1, <1>2, <1>4, <1>9, <1>11, QueueAssumption DEF IInv, Typed, TypeOK, Bound, Rounds
<1>13. composer = "off" /\ sender = "off" /\ owed # "provider"
  BY DEF IInv, Lanes, ActiveRound
<1>14. FixedRounds' = F
  BY <1>4, <1>13 DEF FixedRounds, F
<1>15. \A m \in Messages : task.entry[m].delivery \in Rounds => task.entry[m].delivery < r
                                                                /\ task.entry[m].delivery # r
  BY <1>2, Names DEF IInv, Sound, Known
<1>16. rows[r] = {} /\ batch[r].state = "absent" /\ prepared[r] = "absent"
  BY <1>2 DEF IInv, Composing
<1>17. Sound(task', r, rows, batch, prepared, F)
  <2> DEFINE t == task'
  <2>1. Known(t, r)
    <3>1. task.provider.id < r
      BY <1>1, <1>2 DEF IInv, Sound, Known
    <3>2. ASSUME NEW m \in Messages, e[m].delivery \in Rounds PROVE e[m].delivery <= r
      <4>1. CASE m \in S
        BY <4>1, <1>2, <1>7
      <4>2. CASE m \notin S
        <5>1. e[m].delivery \in Nat /\ e[m].delivery < r
          BY <4>2, <3>2, <1>5, <1>15, Names
        <5> QED
          BY <5>1, <1>2
      <4> QED
        BY <4>1, <4>2
    <3> QED
      BY <1>1, <1>2, <1>4, <3>1, <3>2 DEF Known
  <2>2. Shaped(t)
    BY <1>1, <1>2, <1>4 DEF IInv, Sound, Known, Shaped
  <2>3. Delivered(t)
    <3>1. Delivered(task)
      BY DEF IInv, Sound
    <3>2. \A m \in Messages : e[m].delivery = TurnEnd => e[m].state = "reserved"
      BY <1>2, <1>5, <1>7, <3>1 DEF Delivered
    <3>3. ASSUME NEW m \in Messages, NEW k \in Messages,
                 e[m].delivery = e[k].delivery, e[m].delivery \in Rounds
          PROVE  e[m].state = e[k].state
      <4>1. CASE m \in S \/ k \in S
        <5>1. e[m].delivery = r /\ e[k].delivery = r
          BY <4>1, <3>3, <1>7
        <5>2. \A j \in Messages : j \notin S => e[j].delivery # r
          BY <1>2, <1>5, <1>15
        <5> QED
          BY <5>1, <5>2, <1>7
      <4>2. CASE m \notin S /\ k \notin S
        <5>1. e[m] = task.entry[m] /\ e[k] = task.entry[k]
          BY <4>2, <1>5
        <5> QED
          BY <5>1, <3>3, <3>1 DEF Delivered
      <4> QED
        BY <4>1, <4>2
    <3> QED
      BY <1>3, <1>4, <1>7, <3>2, <3>3 DEF Delivered
  <2>4. Held(e, r) = S
    <3>1. \A m \in Messages : m \notin S => e[m].delivery # r
      BY <1>2, <1>5, <1>15
    <3> QED
      BY <1>3, <1>7, <3>1 DEF Held, InDelivery
  <2>5. \A q \in Rounds : q # r => Held(e, q) = Held(task.entry, q)
    BY <1>5, <1>7, <1>10, Names DEF Held, InDelivery
  <2>6. Carried(t, batch)
    <3>1. HeldOrRemoved(t, S, r)
      BY <1>4, <2>4 DEF HeldOrRemoved
    <3>2. ASSUME NEW q \in Rounds, Held(e, q) # {}, batch[q].state = "staged"
          PROVE  Held(e, q) \subseteq batch[q].members /\ HeldOrRemoved(t, batch[q].members, q)
      <4>1. q # r
        BY <3>2, <1>16
      <4>2. /\ Held(task.entry, q) \subseteq batch[q].members
            /\ HeldOrRemoved(task, batch[q].members, q)
        BY <3>2, <4>1, <2>5 DEF IInv, Sound, Carried
      <4>3. batch[q].members \in SUBSET Messages
        BY <1>1 DEF Batches
      <4> QED
        BY <4>1, <4>2, <4>3, <2>5, <1>4, <1>5, <1>10 DEF HeldOrRemoved
    <3> QED
      BY <1>4, <2>4, <3>1, <3>2 DEF Carried
  <2>7. Answers(t)
    <3>1. task.feedback \in SUBSET Messages
      BY <1>1, TaskFields
    <3>2. \A m \in Messages : task.entry[m].state = "consumed" => e[m] = task.entry[m]
      BY <1>5, <1>10
    <3> QED
      BY <1>4, <3>1, <3>2 DEF IInv, Sound, Answers
  <2>8. Journaled(t, rows, batch, prepared) /\ ErrorClean(t, batch)
    BY <1>4, <1>16 DEF Journaled, ErrorClean
  <2>9. Kept(t, rows, F)
    BY <1>4, <1>5, <1>7 DEF IInv, Sound, Kept, F
  <2> QED
    BY <2>1, <2>2, <2>3, <2>6, <2>7, <2>8, <2>9 DEF Sound
<1>18. Sound(saved, r, rows, batch, prepared, F)
  <2>1. Sound(saved, opened, rows, batch, prepared, F)
    BY DEF IInv, F
  <2>2. saved.compose.receipt => prepared[saved.compose.id] = "live"
    BY <2>1 DEF Sound, Journaled
  <2> QED
    BY <1>1, <1>2, <2>1, <2>2, JournalStep
<1>19. Linked'
  BY <1>1, <1>2, <1>4 DEF IInv, Sound, Known, Linked, Round
<1>20. Lanes'
  BY <1>4, <1>13 DEF IInv, Lanes, Round
<1>21. Composing'
  <2>1. \A q \in Rounds : r < q => opened < q
    BY <1>1, Names
  <2> QED
    BY <1>4, <1>13, <1>16, <2>1 DEF IInv, Composing, Round
<1>22. Batched'
  BY <1>4 DEF IInv, Batched
<1>23. InFlight(task', rows, batch, F, reopened)
  <2>1. InFlight(task, rows, batch, F, reopened)
    BY DEF IInv, F
  <2>2. \A m \in Messages : task.entry[m].state = "removed" => e[m].state = "removed"
    BY <1>5, <1>10
  <2>3. \A q \in Rounds : batch[q].members \in SUBSET Messages
    BY <1>1 DEF Batches
  <2>4. ASSUME NEW m \in Messages, m \notin S, e[m].delivery \in Rounds
        PROVE  e[m].state # "reserved"
    BY <2>1, <2>4, <1>5 DEF InFlight, ActiveRound
  <2>5. ASSUME NEW m \in Messages, e[m].delivery \in Rounds,
               e[m].state \in {"included", "uncertain"}
        PROVE  e[m] = task.entry[m]
    BY <2>5, <1>5, <1>7
  <2>6. ASSUME NEW m \in Messages, e[m].delivery \in Rounds, e[m].state = "reserved"
        PROVE  e[m].delivery = r
    BY <2>4, <2>6, <1>7
  <2>7. ASSUME NEW m \in Messages, e[m].delivery \in Rounds, e[m].state = "included"
        PROVE  /\ e[m].delivery <= task.provider.id
               /\ m \in rows[e[m].delivery] /\ e[m].delivery \in F
               /\ task.provider.status \in {"running", "failed"}
    BY <2>1, <2>5, <2>7 DEF InFlight
  <2>8. ASSUME NEW m \in Messages, e[m].delivery \in Rounds, e[m].state = "uncertain",
               reopened
        PROVE  /\ batch[e[m].delivery].state # "absent"
               /\ \E k \in batch[e[m].delivery].members : e[k].state = "removed"
    BY <2>1, <2>2, <2>3, <2>5, <2>8 DEF InFlight
  <2> QED
    BY <1>4, <2>6, <2>7, <2>8 DEF InFlight
<1>24. Editing'
  BY <1>4, <1>5, <1>7, <1>10 DEF IInv, Editing
<1> QED
  BY <1>4, <1>12, <1>14, <1>17, <1>18, <1>19, <1>20, <1>21, <1>22, <1>23, <1>24 DEF IInv, F

LEMMA SubmitIInv == ASSUME IInv, Submit \/ ToolsSettle PROVE IInv'
<1>1. task.phase \in Phases /\ "running" \in Phases
  BY Types DEF IInv, TaskType, Phases
<1>2. CASE Submit
  <2>1. PICK phase \in Phases : OpenRound({}, phase)
    BY <1>1, <1>2 DEF Submit
  <2> QED
    BY <1>2, <2>1, OpenRoundIInv DEF Submit
<1>3. CASE ToolsSettle
  <2>1. Steering(task.entry) \in SUBSET Deliverable(task.entry)
    BY DEF Steering
  <2>2. task.phase # "error"
    BY <1>3 DEF ToolsSettle, IInv, Lanes
  <2> QED
    BY <1>1, <1>3, <2>1, <2>2, OpenRoundIInv DEF ToolsSettle
<1> QED
  BY <1>2, <1>3


\* The round that is being composed.
LEMMA AtWork ==
    ASSUME IInv, composer # "off" \/ owed = "compose"
    PROVE  /\ Round \in Rounds /\ Round \in Nat /\ Round <= opened
           /\ task.compose.status = "running" /\ ~task.compose.draft /\ ~task.compose.receipt
           /\ task.provider.id < Round
           /\ task.compose.admitted \in SUBSET Messages
           /\ task.compose.plan \in SUBSET Messages /\ task.feedback \in SUBSET Messages
           /\ sender = "off" /\ owed # "provider"
<1>1. task.compose.status = "running"
  BY DEF IInv, Lanes
<1>2. Shaped(task) /\ Known(task, opened)
  BY DEF IInv, Sound
<1>3. task.compose.id # 0 /\ ~task.compose.draft /\ ~task.compose.receipt
      /\ task.provider.id < task.compose.id
  BY <1>1, <1>2 DEF Shaped
<1>4. sender = "off" /\ owed # "provider"
  BY <1>3 DEF IInv, Lanes
<1>5. Round <= opened
  BY <1>2 DEF Known, Round
<1> QED
  BY <1>1, <1>3, <1>4, <1>5, TaskFields, Types DEF IInv, Round

LEMMA TakeIInv == ASSUME IInv, Take PROVE IInv'
<1>1. /\ owed = "compose" /\ composer = "off" /\ saved.compose.id = Round /\ owed' = "none"
      /\ composer' \in {"taken", "off"} /\ halt = "no"
      /\ UNCHANGED <<task, saved, halt, sender, answering, rows, batch, prepared, final,
                     opened, reopened>>
  BY DEF Take, IInv, Lanes, journal, counters
<1>2. /\ batch[Round].state = "absent" /\ prepared[Round] = "absent"
      /\ ~task.compose.planned /\ task.compose.status = "running"
  BY <1>1 DEF IInv, Composing, Lanes
<1>3. FixedRounds' = FixedRounds
  BY <1>1, <1>2 DEF FixedRounds, Round
<1>4. Typed'
  BY <1>1 DEF IInv, Typed, TypeOK
<1>5. Linked' /\ Lanes' /\ Composing' /\ Batched' /\ Editing'
  BY <1>1, <1>2 DEF IInv, Linked, Lanes, Composing, Batched, Editing, Round
<1> QED
  BY <1>1, <1>3, <1>4, <1>5 DEF IInv

LEMMA FreezeIInv == ASSUME IInv, Freeze PROVE IInv'
<1>1. /\ composer = "taken" /\ composer' = "frozen"
      /\ task'.compose.planned
      /\ task'.compose.plan = task.compose.admitted \cup task.feedback
      /\ task'.compose.id = task.compose.id /\ task'.compose.status = task.compose.status
      /\ task'.compose.admitted = task.compose.admitted
      /\ task'.compose.draft = task.compose.draft
      /\ task'.compose.receipt = task.compose.receipt
      /\ task'.entry = task.entry /\ task'.feedback = task.feedback
      /\ task'.provider = task.provider /\ task'.phase = task.phase
      /\ task'.turn = task.turn
      /\ UNCHANGED <<saved, owed, halt, sender, answering, rows, batch, prepared, final,
                     opened, reopened>>
  BY Types DEF IInv, Freeze, TaskType, journal, counters
<1>2. task' \in TaskType
  BY Types DEF IInv, Freeze, TaskType
<1>3. /\ Round \in Rounds /\ task.compose.status = "running"
      /\ task.compose.admitted \in SUBSET Messages /\ task.feedback \in SUBSET Messages
      /\ task.compose.plan \in SUBSET Messages
  BY <1>1, AtWork
<1>4. /\ batch[Round].state = "absent" /\ prepared[Round] = "absent" /\ ~task.compose.planned
  BY <1>1 DEF IInv, Composing
<1>5. FixedRounds' = FixedRounds
  BY <1>1 DEF FixedRounds, Round
<1>6. Typed'
  BY <1>1, <1>2 DEF IInv, Typed, TypeOK
<1>7. Sound(task', opened, rows, batch, prepared, FixedRounds)
  <2>1. Known(task', opened) /\ Shaped(task') /\ Delivered(task')
    BY <1>1, <1>3, Names DEF IInv, Sound, Known, Shaped, Delivered, Round
  <2>2. Carried(task', batch)
    <3>1. \A m \in task.feedback : task.entry[m].state = "consumed"
      BY DEF IInv, Sound, Answers
    <3>2. Carried(task, batch)
      BY DEF IInv, Sound
    <3> QED
      BY <1>1, <1>3, <3>1, <3>2 DEF Carried, HeldOrRemoved
  <2>3. Answers(task') /\ Journaled(task', rows, batch, prepared)
    BY <1>1, <1>4 DEF IInv, Sound, Answers, Journaled, Round
  <2>4. ErrorClean(task', batch) /\ Kept(task', rows, FixedRounds)
    BY <1>1 DEF IInv, Sound, ErrorClean, Kept
  <2> QED
    BY <2>1, <2>2, <2>3, <2>4 DEF Sound
<1>8. Linked'
  BY <1>1, <1>4 DEF IInv, Linked, Round
<1>9. Lanes' /\ Composing' /\ Batched' /\ Editing'
  BY <1>1, <1>3, <1>4 DEF IInv, Lanes, Composing, Batched, Editing, Round
<1>10. halt = "no" => InFlight(task', rows, batch, FixedRounds, reopened)
  BY <1>1 DEF IInv, InFlight
<1> QED
  BY <1>1, <1>5, <1>6, <1>7, <1>8, <1>9, <1>10 DEF IInv

LEMMA AppendRowIInv == ASSUME IInv, NEW m \in Messages, AppendRow(m) PROVE IInv'
<1>1. /\ composer = "frozen" /\ m \in task.compose.plan
      /\ rows' = [rows EXCEPT ![Round] = @ \cup {m}]
      /\ UNCHANGED <<task, saved, owed, halt, composer, sender, answering, batch,
                     prepared, final, opened, reopened>>
  BY DEF AppendRow, counters
<1>2. Round \in Rounds /\ Round \in Nat /\ Round <= opened /\ opened \in Nat
      /\ rows \in [Rounds -> SUBSET Messages]
      /\ task \in TaskType /\ saved \in TaskType
  BY <1>1, AtWork, Types DEF IInv
<1>3. rows' \in [Rounds -> SUBSET Messages] /\ \A r \in Rounds :
         rows[r] \subseteq rows'[r] /\ (r # Round => rows'[r] = rows[r])
  BY <1>1, <1>2
<1>4. FixedRounds' = FixedRounds
  BY <1>1 DEF FixedRounds, Round
<1>5. Typed'
  BY <1>1, <1>3 DEF IInv, Typed, TypeOK
<1>6. ASSUME NEW t \in {task, saved}
      PROVE  Sound(t, opened, rows', batch, prepared, FixedRounds)
  <2>1. Sound(t, opened, rows, batch, prepared, FixedRounds) /\ t \in TaskType
    BY <1>2 DEF IInv
  <2>2. \A r \in FixedRounds : r \in FixedRounds /\ rows[r] \subseteq rows'[r]
    BY <1>3 DEF FixedRounds
  <2>3. t.compose.receipt => prepared[t.compose.id] = "live"
    BY <2>1 DEF Sound, Journaled
  <2>4. \A r \in Rounds : batch[r].state = "staged" => batch[r] = batch[r]
    OBVIOUS
  <2>5. \A r \in Rounds : prepared[r] = "live" =>
           prepared[r] = "live" /\ rows[r] \subseteq rows'[r]
    BY <1>3
  <2>6. opened <= opened
    BY <1>2
  <2> QED
    BY <1>2, <2>1, <2>2, <2>3, <2>4, <2>5, <2>6, JournalStep
<1>7. Composing'
  <2>1. \A r \in Rounds : opened < r => r # Round
    BY <1>2, Names
  <2> QED
    BY <1>1, <1>2, <1>3, <2>1 DEF IInv, Composing, Round
<1>8. Linked' /\ Lanes' /\ Editing'
  BY <1>1 DEF IInv, Linked, Lanes, Editing, Round
<1>9. Batched'
  BY <1>1, <1>3 DEF IInv, Batched
<1>10. halt = "no" => InFlight(task, rows', batch, FixedRounds, reopened)
  BY <1>1, <1>3 DEF IInv, InFlight
<1> QED
  BY <1>1, <1>4, <1>5, <1>6, <1>7, <1>8, <1>9, <1>10 DEF IInv

\* The admitted batch is staged: nothing else of it is held, and no state that
\* knows the round can have failed.
LEMMA StageSound ==
    ASSUME NEW t \in TaskType, NEW n, NEW w, NEW b \in Batches, NEW p, NEW F,
           Sound(t, n, w, b, p, F), NEW r \in Rounds,
           NEW S \in SUBSET Messages, S # {},
           t.compose.id = r, t.compose.status = "running", t.compose.admitted = S
    PROVE  Sound(t, n, w, [b EXCEPT ![r] = [state |-> "staged", members |-> S]], p, F)
<1> DEFINE b2 == [b EXCEPT ![r] = [state |-> "staged", members |-> S]]
<1>1. b2[r].state = "staged" /\ b2[r].members = S
      /\ \A q \in Rounds : q # r => b2[q] = b[q]
  BY DEF Batches
<1> HIDE DEF b2
<1>2. Carried(t, b2)
  BY <1>1 DEF Sound, Carried
<1>3. Journaled(t, w, b2, p)
  BY <1>1 DEF Sound, Journaled
<1>4. ErrorClean(t, b2)
  BY <1>1 DEF Sound, ErrorClean
<1> QED
  BY <1>2, <1>3, <1>4 DEF Sound, b2

LEMMA StageIInv == ASSUME IInv, Stage PROVE IInv'
<1> DEFINE S == task.compose.admitted
<1>1. /\ composer = "frozen" /\ saved.compose.id = Round /\ saved.compose.planned
      /\ task.compose.plan \subseteq rows[Round] /\ composer' = "staged"
      /\ batch' = IF S = {} THEN batch
                  ELSE [batch EXCEPT ![Round] = [state |-> "staged", members |-> S]]
      /\ UNCHANGED <<task, saved, owed, halt, sender, answering, rows, prepared, final,
                     opened, reopened>>
  BY DEF Stage, counters
<1>2. /\ Round \in Rounds /\ Round \in Nat /\ Round <= opened /\ S \in SUBSET Messages
      /\ task \in TaskType /\ saved \in TaskType /\ batch \in Batches /\ opened \in Nat
      /\ task.compose.status = "running"
  BY <1>1, AtWork, Types DEF IInv
<1>3. saved.compose.status = "running" /\ saved.compose.admitted = S
  BY <1>1 DEF IInv, Linked
<1>4. batch[Round].state = "absent" /\ prepared[Round] = "absent" /\ task.compose.planned
  BY <1>1 DEF IInv, Composing
<1>5. \A r \in Rounds : r # Round => batch'[r] = batch[r]
  BY <1>1, <1>2 DEF Batches
<1>6. S # {} => batch'[Round] = [state |-> "staged", members |-> S]
  BY <1>1, <1>2 DEF Batches
<1>7. FixedRounds' = FixedRounds
  BY <1>1 DEF FixedRounds, Round
<1>8. Typed'
  <2>1. batch' \in Batches
    BY <1>1, <1>2 DEF Batches
  <2> QED
    BY <1>1, <2>1 DEF IInv, Typed, TypeOK, Batches
<1>9. Sound(task, opened, rows, batch', prepared, FixedRounds)
  BY <1>1, <1>2, StageSound DEF IInv, Round
<1>10. Sound(saved, opened, rows, batch', prepared, FixedRounds)
  BY <1>1, <1>2, <1>3, StageSound DEF IInv, Round
<1> HIDE DEF S
<1>11. Linked' /\ Lanes' /\ Editing'
  BY <1>1 DEF IInv, Linked, Lanes, Editing, Round
<1>12. Composing'
  <2>1. \A r \in Rounds : opened < r => r # Round
    BY <1>2, Names
  <2>2. S = {} => batch'[Round].state = "absent"
    BY <1>1, <1>4
  <2> QED
    BY <1>1, <1>4, <1>5, <1>6, <2>1, <2>2 DEF IInv, Composing, Round, S
<1>13. Batched'
  BY <1>1, <1>4, <1>5 DEF IInv, Batched
<1>14. halt = "no" => InFlight(task, rows, batch', FixedRounds, reopened)
  <2> SUFFICES ASSUME InFlight(task, rows, batch, FixedRounds, reopened), halt = "no"
               PROVE  InFlight(task, rows, batch', FixedRounds, reopened)
    BY DEF IInv
  <2>1. ASSUME NEW m \in Messages, task.entry[m].delivery \in Rounds,
               task.entry[m].state = "uncertain", reopened
        PROVE  batch'[task.entry[m].delivery] = batch[task.entry[m].delivery]
    BY <1>4, <1>5, <2>1 DEF InFlight
  <2> QED
    BY <2>1 DEF InFlight
<1> QED
  BY <1>1, <1>7, <1>8, <1>9, <1>10, <1>11, <1>12, <1>13, <1>14 DEF IInv

LEMMA PrepareIInv == ASSUME IInv, Prepare PROVE IInv'
<1>1. /\ composer = "staged" /\ composer' = "prepared"
      /\ prepared' = [prepared EXCEPT ![Round] = "live"]
      /\ UNCHANGED <<task, saved, owed, halt, sender, answering, rows, batch, final,
                     opened, reopened>>
  BY DEF Prepare, counters
<1>2. /\ Round \in Rounds /\ Round \in Nat /\ Round <= opened /\ opened \in Nat
      /\ task.compose.status = "running" /\ task.compose.admitted \in SUBSET Messages
      /\ task \in TaskType /\ saved \in TaskType
  BY <1>1, AtWork, Types DEF IInv
<1>3. prepared'[Round] = "live" /\ \A r \in Rounds : r # Round => prepared'[r] = prepared[r]
  BY <1>1, <1>2 DEF IInv, Typed, TypeOK
<1>4. FixedRounds' = FixedRounds
  BY <1>1, <1>3 DEF FixedRounds, Round
<1>5. Typed'
  BY <1>1 DEF IInv, Typed, TypeOK
<1>6. task.compose.planned /\ task.compose.plan \subseteq rows[Round]
  BY <1>1 DEF IInv, Composing
<1>7. Journaled(task, rows, batch, prepared')
  BY <1>2, <1>3, <1>6 DEF IInv, Sound, Journaled, Round, Shaped
<1>8. Journaled(saved, rows, batch, prepared')
  <2>1. saved.compose.id = Round /\ saved.compose.planned => saved.compose.plan \subseteq rows[Round]
    BY <1>1, <1>6 DEF IInv, Linked
  <2>2. saved.compose.planned => saved.compose.id \in Rounds
    BY <1>2, TaskFields DEF IInv, Sound, Shaped
  <2> QED
    BY <1>3, <2>1, <2>2 DEF IInv, Sound, Journaled
<1>9. /\ Sound(task, opened, rows, batch, prepared', FixedRounds)
      /\ Sound(saved, opened, rows, batch, prepared', FixedRounds)
  BY <1>7, <1>8 DEF IInv, Sound
<1>10. Linked' /\ Lanes' /\ Editing'
  BY <1>1 DEF IInv, Linked, Lanes, Editing, Round
<1>11. Composing'
  <2>1. \A r \in Rounds : opened < r => r # Round
    BY <1>2, Names
  <2> QED
    BY <1>1, <1>2, <1>3, <2>1 DEF IInv, Composing, Round
<1>12. Batched'
  <2>1. task.compose.admitted \subseteq task.compose.plan
    BY <1>6 DEF IInv, Sound, Shaped
  <2>2. batch[Round].state = "staged" => batch[Round].members \subseteq rows[Round]
    BY <1>1, <1>6, <2>1 DEF IInv, Composing
  <2> QED
    BY <1>1, <1>3, <2>2 DEF IInv, Batched
<1> QED
  BY <1>1, <1>4, <1>5, <1>9, <1>10, <1>11, <1>12 DEF IInv

LEMMA CompleteRoundIInv == ASSUME IInv, CompleteRound PROVE IInv'
<1> DEFINE S == task.compose.admitted
           e == [m \in Messages |-> IF m \in S THEN [task.entry[m] EXCEPT !.state = "included"]
                                    ELSE task.entry[m]]
<1>1. /\ composer = "prepared" /\ halt = "no" /\ Held(task.entry, Round) = S
      /\ task'.entry = e /\ task'.feedback = task.feedback \ task.compose.plan
      /\ task'.compose.id = Round /\ task'.compose.status = "completed"
      /\ task'.compose.admitted = S /\ task'.compose.planned = task.compose.planned
      /\ task'.compose.plan = task.compose.plan /\ task'.compose.draft
      /\ task'.compose.receipt = (S # {})
      /\ task'.provider = [id |-> Round, status |-> "running"]
      /\ task'.phase = task.phase /\ task'.turn = task.turn
      /\ owed' = "provider" /\ composer' = "off"
      /\ UNCHANGED <<saved, halt, sender, answering, rows, batch, prepared, final,
                     opened, reopened>>
  BY Types DEF IInv, CompleteRound, TaskType, Round, journal, counters
<1>2. /\ Round \in Rounds /\ Round \in Nat /\ Round <= opened /\ opened \in Nat
      /\ S \in SUBSET Messages /\ task.compose.plan \in SUBSET Messages
      /\ task \in TaskType /\ saved \in TaskType /\ task.feedback \in SUBSET Messages
      /\ task.entry \in Entries /\ Bound(task.entry) /\ sender = "off"
      /\ task.provider.id < Round /\ task.provider.id \in Nat
  BY <1>1, AtWork, Types, TaskFields DEF IInv
<1>3. /\ task.compose.planned /\ task.compose.plan \subseteq rows[Round]
      /\ prepared[Round] = "live" /\ S \subseteq task.compose.plan
  BY <1>1 DEF IInv, Composing, Sound, Shaped
<1>4. ASSUME NEW m \in Messages
      PROVE  /\ e[m] \in Entry /\ e[m].delivery = task.entry[m].delivery
             /\ e[m].editing = task.entry[m].editing
             /\ m \in S => /\ e[m].state = "included" /\ task.entry[m].delivery = Round
                           /\ task.entry[m].state \in InDelivery
             /\ m \notin S => e[m] = task.entry[m]
  <2>1. task.entry[m] \in Entry
    BY <1>2 DEF Entries
  <2>2. ASSUME NEW x \in Entry, NEW y, y = [x EXCEPT !.state = "included"]
        PROVE  /\ y \in Entry /\ y.state = "included" /\ y.delivery = x.delivery
               /\ y.editing = x.editing
    BY <2>2 DEF Entry, InDelivery
  <2>3. m \in S => e[m] = [task.entry[m] EXCEPT !.state = "included"]
    OBVIOUS
  <2>4. m \notin S => e[m] = task.entry[m]
    OBVIOUS
  <2>5. m \in S => task.entry[m].delivery = Round /\ task.entry[m].state \in InDelivery
    BY <1>1 DEF Held
  <2> HIDE DEF e
  <2> QED
    BY <2>1, <2>2, <2>3, <2>4, <2>5
<1>5. e \in Entries
  BY <1>4 DEF Entries
<1> HIDE DEF S, e
<1>6. task' \in TaskType
  <2>1. task' = [task EXCEPT !.compose.status = "completed", !.compose.draft = TRUE,
                             !.compose.receipt = S # {}, !.entry = e,
                             !.feedback = @ \ task.compose.plan,
                             !.provider = [id |-> Round, status |-> "running"]]
    BY <1>2 DEF CompleteRound, TaskType, S, e
  <2>2. PICK b \in BOOLEAN, f \in SUBSET Messages :
           b = (S # {}) /\ f = task.feedback \ task.compose.plan
    BY <1>2
  <2>3. task' = [task EXCEPT !.compose.status = "completed", !.compose.draft = TRUE,
                             !.compose.receipt = b, !.entry = e, !.feedback = f,
                             !.provider = [id |-> Round, status |-> "running"]]
    BY <2>1, <2>2 DEF TaskType
  <2> QED
    BY <1>2, <1>5, <2>3 DEF TaskType, Statuses, Entries, Entry
<1>7. \A m \in Messages : m \notin S /\ task.entry[m].state \in InDelivery
                             => task.entry[m].delivery # Round
  BY <1>1 DEF Held
<1>8. \A m \in Messages : m \notin S => task.entry[m].delivery # Round
  BY <1>2, <1>7, Names DEF Bound
<1>9. Bound(e)
  BY <1>2, <1>4 DEF Bound, InDelivery
<1>10. Typed'
  BY <1>1, <1>6, <1>9 DEF IInv, Typed, TypeOK, Bound
<1>11. \A r \in Rounds : r \in FixedRounds' <=> r \in FixedRounds \/ r = Round
  BY <1>1, <1>2, <1>3 DEF FixedRounds, Round
<1>12. \A r : Held(e, r) = Held(task.entry, r)
  BY <1>4 DEF Held, InDelivery
<1>13. Sound(task', opened, rows, batch, prepared, FixedRounds')
  <2> DEFINE t == task'
  <2>1. Known(t, opened)
    BY <1>1, <1>2, <1>4 DEF IInv, Sound, Known, Round
  <2>2. Shaped(t)
    <3>1. t.provider.id <= t.compose.id /\ t.compose.id # 0
      BY <1>1, <1>2, Names
    <3> QED
      BY <1>1, <1>3, <3>1 DEF Shaped
  <2>3. Delivered(t)
    <3>1. Delivered(task)
      BY DEF IInv, Sound
    <3>2. \A m \in Messages : e[m].delivery = TurnEnd => e[m].state = "reserved"
      BY <1>2, <1>4, <3>1, Names DEF Delivered
    <3>3. ASSUME NEW m \in Messages, NEW k \in Messages,
                 e[m].delivery = e[k].delivery, e[m].delivery \in Rounds
          PROVE  e[m].state = e[k].state
      <4>1. m \in S <=> k \in S
        BY <1>4, <1>8, <3>3
      <4> QED
        BY <1>4, <4>1, <3>1, <3>3 DEF Delivered
    <3>4. \A m \in S : e[m].delivery \in {NoDelivery, TurnEnd, Round}
      BY <1>2, <1>4
    <3> QED
      BY <1>1, <3>2, <3>3, <3>4 DEF Delivered
  <2>4. Carried(t, batch)
    <3>1. \A K \in SUBSET Messages : \A r : HeldOrRemoved(task, K, r) => HeldOrRemoved(t, K, r)
      BY <1>1, <1>4, <1>12 DEF HeldOrRemoved, InDelivery
    <3>2. \A r \in Rounds : batch[r].members \in SUBSET Messages
      BY Types DEF IInv, Batches
    <3>3. Carried(task, batch) /\ task.compose.id = Round /\ task.compose.admitted = S
      BY DEF IInv, Sound, Round, S
    <3> QED
      BY <1>1, <1>2, <1>12, <3>1, <3>2, <3>3 DEF Carried
  <2>5. Answers(t)
    BY <1>1, <1>2, <1>4 DEF IInv, Sound, Answers, InDelivery
  <2>6. Journaled(t, rows, batch, prepared)
    BY <1>1, <1>2, <1>3 DEF IInv, Sound, Journaled, Round, S
  <2>7. ErrorClean(t, batch)
    BY <1>1, <1>2 DEF IInv, Sound, Journaled, ErrorClean, Round, S
  <2>8. Kept(t, rows, FixedRounds')
    <3>1. ASSUME NEW m \in Messages, e[m].state = "consumed"
          PROVE  m \in t.feedback \/ Conveyed(m, rows, FixedRounds')
      <4>1. task.entry[m].state = "consumed"
        BY <1>4, <3>1
      <4>2. m \in task.feedback \/ Conveyed(m, rows, FixedRounds)
        BY <4>1 DEF IInv, Sound, Kept
      <4>3. CASE Conveyed(m, rows, FixedRounds)
        BY <4>3, <1>11 DEF Conveyed, FixedRounds
      <4>4. CASE m \in task.feedback /\ m \in task.compose.plan
        BY <4>4, <1>2, <1>3, <1>11 DEF Conveyed
      <4>5. CASE m \in task.feedback /\ m \notin task.compose.plan
        BY <4>5, <1>1
      <4> QED
        BY <4>2, <4>3, <4>4, <4>5
    <3> QED
      BY <1>1, <3>1 DEF Kept
  <2> QED
    BY <2>1, <2>2, <2>3, <2>4, <2>5, <2>6, <2>7, <2>8 DEF Sound
<1>14. Sound(saved, opened, rows, batch, prepared, FixedRounds')
  <2>1. \A r \in FixedRounds : r \in FixedRounds' /\ rows[r] \subseteq rows[r]
    BY <1>11 DEF FixedRounds
  <2>2. saved.compose.receipt => prepared[saved.compose.id] = "live"
    BY DEF IInv, Sound, Journaled
  <2> QED
    BY <1>2, <2>1, <2>2, JournalStep DEF IInv
<1>15. Linked' /\ Lanes' /\ Composing' /\ Batched'
  BY <1>1, <1>2 DEF IInv, Linked, Lanes, Composing, Batched, Round
<1>16. InFlight(task', rows, batch, FixedRounds', reopened)
  <2>1. InFlight(task, rows, batch, FixedRounds, reopened)
    BY <1>1 DEF IInv
  <2>2. ASSUME NEW m \in S
        PROVE  /\ e[m].state = "included" /\ e[m].delivery = Round
               /\ m \in rows[Round] /\ Round \in FixedRounds'
    BY <1>2, <1>3, <1>4, <1>11
  <2>3. ASSUME NEW m \in Messages, m \notin S, e[m].delivery \in Rounds
        PROVE  /\ e[m].state # "reserved"
               /\ e[m].state = "included" =>
                     /\ e[m].delivery <= Round
                     /\ m \in rows[e[m].delivery] /\ e[m].delivery \in FixedRounds'
    <3>1. e[m] = task.entry[m] /\ e[m].delivery # Round
      BY <1>4, <1>8, <2>3
    <3>2. e[m].state # "reserved"
      BY <3>1, <2>1, <2>3 DEF InFlight, Round
    <3>3. ASSUME e[m].state = "included"
          PROVE  /\ e[m].delivery <= task.provider.id
                 /\ m \in rows[e[m].delivery] /\ e[m].delivery \in FixedRounds'
      BY <3>1, <3>3, <2>1, <2>3, <1>11 DEF InFlight
    <3>4. e[m].delivery \in Nat
      BY <2>3, Names
    <3> QED
      BY <3>2, <3>3, <3>4, <1>2
  <2>4. ASSUME NEW m \in Messages, e[m].delivery \in Rounds, e[m].state = "uncertain", reopened
        PROVE  /\ batch[e[m].delivery].state # "absent"
               /\ \E k \in batch[e[m].delivery].members : e[k].state = "removed"
    <3>1. e[m] = task.entry[m]
      BY <1>4, <2>4
    <3>2. batch[e[m].delivery].members \in SUBSET Messages
      BY Types, <2>4 DEF IInv, Batches
    <3>3. \A k \in Messages : task.entry[k].state = "removed" => e[k].state = "removed"
      BY <1>4 DEF InDelivery
    <3> QED
      BY <3>1, <3>2, <3>3, <2>1, <2>4 DEF InFlight
  <2>5. task'.provider.id = Round /\ task'.provider.status = "running"
    BY <1>1
  <2> QED
    BY <1>1, <1>2, <2>2, <2>3, <2>4, <2>5 DEF InFlight
<1>17. Editing'
  BY <1>1, <1>4 DEF IInv, Editing, Mutable, InDelivery
<1> QED
  BY <1>1, <1>10, <1>13, <1>14, <1>15, <1>16, <1>17 DEF IInv

\* What a round given up holds goes back to the queue.
GivenBack(t, r, status, phase, turn) ==
    [t EXCEPT !.compose.status = status, !.phase = phase, !.turn = turn,
              !.entry = Released(@, Held(@, r))]

LEMMA GivenBackSound ==
    ASSUME NEW t \in TaskType, Bound(t.entry), NEW n, NEW w, NEW b \in Batches, NEW p, NEW F,
           Sound(t, n, w, b, p, F), NEW r \in Rounds, t.compose.id = r,
           NEW status \in Statuses, status # "running",
           NEW phase \in Phases, NEW turn \in Turns,
           phase = "error" => b[r].state # "staged",
           NEW u, u = GivenBack(t, r, status, phase, turn)
    PROVE  /\ u \in TaskType /\ Bound(u.entry) /\ Sound(u, n, w, b, p, F)
           /\ u.compose.id = r /\ u.compose.status = status /\ u.provider = t.provider
           /\ u.phase = phase /\ u.turn = turn
           /\ \A m \in Messages :
                 /\ m \in Held(t.entry, r) =>
                       /\ u.entry[m].state = "released" /\ u.entry[m].delivery = NoDelivery
                       /\ u.entry[m].editing = t.entry[m].editing
                 /\ m \notin Held(t.entry, r) => u.entry[m] = t.entry[m]
<1> DEFINE v == WithStatus(t, status, phase, turn)
           e == Released(v.entry, Held(v.entry, r))
           S == Held(t.entry, r)
<1>1. /\ v \in TaskType /\ v.entry = t.entry /\ v.provider = t.provider
      /\ v.compose.id = r /\ v.compose.status = status
      /\ v.phase = phase /\ v.turn = turn
  BY WithStatusFields
<1>2. Sound(v, n, w, b, p, F)
  BY Names, StatusSound
<1>3. u = WithEntry(v, e)
  BY DEF GivenBack, WithStatus, WithEntry, TaskType
<1> HIDE DEF v
<1>4. \A m \in Messages : t.entry[m] \in Entry
  BY TaskFields DEF Entries
<1>5. ASSUME NEW m \in Messages
      PROVE  /\ e[m] \in Entry /\ e[m].editing = t.entry[m].editing
             /\ m \in S => e[m].state = "released" /\ e[m].delivery = NoDelivery
             /\ m \notin S => e[m] = t.entry[m]
  BY <1>1, <1>4 DEF Released, Entry, InDelivery
<1>6. e \in Entries
  BY <1>5 DEF Entries, Released
<1> HIDE DEF e, S
<1>7. \A m \in Messages : /\ m \in S <=> t.entry[m].delivery = r
                          /\ m \in S => t.entry[m].state \in InDelivery
  BY Names DEF S, Held, Bound
<1>8. Moves(v, e, w, F)
  <2>1. Bound(e)
    BY <1>5 DEF Bound, InDelivery
  <2>2. \A m \in Messages :
        /\ e[m].delivery \in {v.entry[m].delivery, NoDelivery, TurnEnd}
        /\ e[m].delivery = TurnEnd => e[m].state = "reserved"
        /\ v.entry[m].state \in {"consumed", "removed"} => e[m].state = v.entry[m].state
        /\ e[m].state = "consumed" => v.entry[m].state = "consumed" \/ Conveyed(m, w, F)
    BY <1>1, <1>5, <1>7, Names DEF Sound, Delivered, InDelivery
  <2>3. \A m, k \in Messages :
        /\ v.entry[m].delivery \in Rounds /\ v.entry[k].delivery = v.entry[m].delivery
        /\ e[m].state # "removed" /\ e[k].state # "removed"
        => e[k].delivery = e[m].delivery /\ e[k].state = e[m].state
    BY <1>1, <1>5, <1>7 DEF Sound, Delivered
  <2> QED
    BY <1>1, <1>6, <2>1, <2>2, <2>3 DEF Moves
<1>9. Sound(u, n, w, b, p, F)
  BY <1>1, <1>2, <1>3, <1>8, MovesSound
<1> QED
  BY <1>1, <1>3, <1>5, <1>6, <1>8, <1>9, WithEntryFields DEF S, Moves

\* What becomes of the journal of a round that ends without its draft.
Undone ==
    /\ composer # "off" /\ composer' = "off"
    /\ rows' \in [Rounds -> SUBSET Messages] /\ batch' \in Batches
    /\ prepared' \in [Rounds -> {"absent", "live", "discarded"}]
    /\ \A r \in Rounds : r # Round =>
          rows'[r] = rows[r] /\ batch'[r] = batch[r] /\ prepared'[r] = prepared[r]
    /\ batch'[Round] = batch[Round] \/ batch'[Round].state = "retracted"
    /\ prepared'[Round] = "live" => prepared[Round] = "live" /\ rows'[Round] = rows[Round]
    /\ UNCHANGED <<saved, owed, sender, answering, final, opened, reopened>>

LEMMA UndoneSound ==
    ASSUME IInv, Undone, task'.compose.id = Round
    PROVE  /\ Sound(task, opened, rows', batch', prepared', FixedRounds')
           /\ Sound(saved, opened, rows', batch', prepared', FixedRounds')
           /\ \A r \in FixedRounds : r \in FixedRounds' /\ r # Round
           /\ Batched'
<1>1. /\ task \in TaskType /\ saved \in TaskType /\ opened \in Nat
      /\ Round \in Rounds /\ ~task.compose.receipt
  BY AtWork, Types DEF IInv, Undone
<1>2. \A r \in FixedRounds : r \in Rounds /\ r # Round /\ r \in FixedRounds'
  BY DEF FixedRounds, Undone, Round
<1>3. ~(saved.compose.receipt /\ saved.compose.id = Round)
  <2>1. saved.compose.id = Round => saved.compose.status = "running"
    BY DEF IInv, Linked, Undone
  <2> QED
    BY <2>1 DEF IInv, Sound, Shaped
<1>4. ASSUME NEW t \in {task, saved}
      PROVE  Sound(t, opened, rows', batch', prepared', FixedRounds')
  <2>1. t \in TaskType /\ Sound(t, opened, rows, batch, prepared, FixedRounds)
    BY <1>1 DEF IInv
  <2>2. t.compose.receipt => prepared'[t.compose.id] = "live"
    <3>1. t.compose.receipt =>
             t.compose.id \in Rounds /\ prepared[t.compose.id] = "live"
      BY <2>1 DEF Sound, Journaled
    <3>2. t.compose.receipt => t.compose.id # Round
      BY <1>1, <1>3 DEF Round
    <3> QED
      BY <3>1, <3>2 DEF Undone
  <2>3. /\ \A r \in Rounds : batch'[r].state = "staged" => batch'[r] = batch[r]
        /\ \A r \in Rounds : prepared'[r] = "live" =>
              prepared[r] = "live" /\ rows[r] \subseteq rows'[r]
        /\ \A r \in FixedRounds : r \in FixedRounds' /\ rows[r] \subseteq rows'[r]
        /\ opened <= opened
    BY <1>1, <1>2 DEF Undone
  <2> QED
    BY <1>1, <2>1, <2>2, <2>3, JournalStep
<1>5. Batched'
  BY <1>1 DEF Undone, IInv, Batched
<1> QED
  BY <1>2, <1>4, <1>5

LEMMA UndoneIInv ==
    ASSUME IInv, Undone,
           \/ halt # "no" /\ UNCHANGED <<task, halt>>
           \/ /\ halt = "no" /\ halt' = "no" /\ batch'[Round].members = batch[Round].members
              /\ \E status \in Statuses \ {"running"}, phase \in Phases, turn \in Turns :
                    /\ phase = "error" => batch'[Round].state # "staged" /\ turn = "recovery"
                    /\ task' = GivenBack(task, Round, status, phase, turn)
    PROVE  IInv'
<1>1. /\ task \in TaskType /\ saved \in TaskType /\ opened \in Nat /\ Bound(task.entry)
      /\ Round \in Rounds /\ Round \in Nat /\ Round <= opened /\ ~task.compose.receipt
      /\ task.compose.status = "running" /\ task.provider.id < Round
      /\ task.provider.id \in Nat
      /\ sender = "off" /\ owed # "provider" /\ batch' \in Batches
  BY AtWork, Types, TaskFields DEF IInv, Undone
<1>2. owed = "none"
  BY <1>1 DEF IInv, Lanes, Undone, Typed, TypeOK
<1>3. \A r \in Rounds : opened < r => r # Round
  BY <1>1, Names
<1>4. CASE halt # "no" /\ UNCHANGED <<task, halt>>
  <2>1. /\ Sound(task, opened, rows', batch', prepared', FixedRounds')
        /\ Sound(saved, opened, rows', batch', prepared', FixedRounds')
        /\ Batched'
    BY <1>4, UndoneSound DEF Round
  <2>2. Typed'
    BY <1>4 DEF IInv, Typed, TypeOK, Undone, Batches
  <2>3. Linked' /\ Lanes' /\ Editing'
    BY <1>1, <1>2, <1>4 DEF IInv, Linked, Lanes, Editing, Undone, Round
  <2>4. Composing'
    BY <1>1, <1>2, <1>3, <1>4 DEF IInv, Composing, Undone, Round
  <2> QED
    BY <1>4, <2>1, <2>2, <2>3, <2>4 DEF IInv, Undone
<1>5. CASE /\ halt = "no" /\ halt' = "no" /\ batch'[Round].members = batch[Round].members
           /\ \E status \in Statuses \ {"running"}, phase \in Phases, turn \in Turns :
                 /\ phase = "error" => batch'[Round].state # "staged" /\ turn = "recovery"
                 /\ task' = GivenBack(task, Round, status, phase, turn)
  <2>1. PICK status \in Statuses \ {"running"}, phase \in Phases, turn \in Turns :
           /\ phase = "error" => batch'[Round].state # "staged" /\ turn = "recovery"
           /\ task' = GivenBack(task, Round, status, phase, turn)
    BY <1>5
  <2>2. task'.compose.id = Round
    BY <1>1, <2>1 DEF GivenBack, TaskType, Round
  <2>3. /\ Sound(task, opened, rows', batch', prepared', FixedRounds')
        /\ Sound(saved, opened, rows', batch', prepared', FixedRounds')
        /\ \A r \in FixedRounds : r \in FixedRounds' /\ r # Round
        /\ Batched'
    BY <2>2, UndoneSound
  <2>4. /\ task' \in TaskType /\ Bound(task'.entry)
        /\ Sound(task', opened, rows', batch', prepared', FixedRounds')
        /\ task'.compose.status = status /\ task'.provider = task.provider
        /\ task'.phase = phase /\ task'.turn = turn
        /\ \A m \in Messages :
              /\ m \in Held(task.entry, Round) =>
                    /\ task'.entry[m].state = "released" /\ task'.entry[m].delivery = NoDelivery
                    /\ task'.entry[m].editing = task.entry[m].editing
              /\ m \notin Held(task.entry, Round) => task'.entry[m] = task.entry[m]
    <3>1. /\ task.compose.id = Round /\ status \in Statuses /\ status # "running"
          /\ phase = "error" => batch'[Round].state # "staged"
      BY <2>1 DEF Round
    <3>2. /\ task \in TaskType /\ Bound(task.entry) /\ batch' \in Batches /\ Round \in Rounds
          /\ Sound(task, opened, rows', batch', prepared', FixedRounds')
          /\ task' = GivenBack(task, Round, status, phase, turn)
      BY <1>1, <2>1, <2>3
    <3>3. task' \in TaskType
      BY <3>1, <3>2, GivenBackSound
    <3>4. Bound(task'.entry)
      BY <3>1, <3>2, GivenBackSound
    <3>5. Sound(task', opened, rows', batch', prepared', FixedRounds')
      BY <3>1, <3>2, GivenBackSound
    <3>6. /\ task'.compose.status = status /\ task'.provider = task.provider
        /\ task'.phase = phase /\ task'.turn = turn
      BY <3>1, <3>2, GivenBackSound
    <3>7.  \A m \in Messages :
              /\ m \in Held(task.entry, Round) =>
                    /\ task'.entry[m].state = "released" /\ task'.entry[m].delivery = NoDelivery
                    /\ task'.entry[m].editing = task.entry[m].editing
              /\ m \notin Held(task.entry, Round) => task'.entry[m] = task.entry[m]
      BY <3>1, <3>2, GivenBackSound
    <3> QED
      BY <3>3, <3>4, <3>5, <3>6, <3>7
  <2>5. Typed'
    BY <2>4 DEF IInv, Typed, TypeOK, Undone, Batches, Bound
  <2>6. Linked' /\ Composing'
    BY <1>1, <1>2, <1>3 DEF IInv, Linked, Composing, Undone, Round
  <2>7. Lanes'
    BY <1>1, <1>2, <1>5, <2>1, <2>4 DEF IInv, Lanes, Undone, Round
  <2>8. Editing'
    BY <2>4 DEF IInv, Editing, Undone, Mutable
  <2>9. InFlight(task', rows', batch', FixedRounds', reopened)
    <3>1. InFlight(task, rows, batch, FixedRounds, reopened)
      BY <1>5 DEF IInv
    <3>2. ASSUME NEW m \in Messages, task'.entry[m].delivery \in Rounds
          PROVE  /\ task'.entry[m] = task.entry[m] /\ task'.entry[m].state \in InDelivery
                 /\ task'.entry[m].delivery # Round
      BY <3>2, <2>4, Names DEF Bound, Held
    <3>3. ASSUME NEW m \in Messages, task'.entry[m].delivery \in Rounds,
                 task'.entry[m].state = "included"
          PROVE  /\ task'.entry[m].delivery <= task.provider.id
                 /\ m \in rows'[task'.entry[m].delivery]
                 /\ task'.entry[m].delivery \in FixedRounds'
                 /\ task.provider.status \in {"running", "failed"}
      BY <3>1, <3>2, <3>3, <2>3 DEF InFlight, Undone
    <3>4. ASSUME NEW m \in Messages, task'.entry[m].delivery \in Rounds
          PROVE  task'.entry[m].state # "reserved"
      BY <3>1, <3>2, <3>4 DEF InFlight, Round
    <3>5. \A k \in Messages : task.entry[k].state = "removed" => task'.entry[k].state = "removed"
      BY <2>4 DEF Held, InDelivery
    <3>6. ASSUME NEW m \in Messages, task'.entry[m].delivery \in Rounds,
                 task'.entry[m].state = "uncertain", reopened
          PROVE  /\ batch'[task'.entry[m].delivery].state # "absent"
                 /\ \E k \in batch'[task'.entry[m].delivery].members :
                       task'.entry[k].state = "removed"
      <4>1. batch'[task'.entry[m].delivery] = batch[task.entry[m].delivery]
        BY <3>2, <3>6 DEF Undone
      <4>2. batch'[task'.entry[m].delivery].members \in SUBSET Messages
        BY <1>1, <3>6 DEF Batches
      <4> QED
        BY <3>1, <3>2, <3>5, <3>6, <4>1, <4>2 DEF InFlight
    <3> QED
      BY <2>4, <3>3, <3>4, <3>6 DEF InFlight
  <2> QED
    BY <1>5, <2>3, <2>4, <2>5, <2>6, <2>7, <2>8, <2>9 DEF IInv, Undone
<1> QED
  BY <1>4, <1>5

LEMMA EndRoundIInv ==
    ASSUME IInv, RefuseRound \/ FailRound \/ WithdrawRound \/ StopRound
    PROVE  IInv'
<1>1. composer # "off" /\ halt \in {"no", "called", "stopping"}
  BY DEF RefuseRound, FailRound, WithdrawRound, StopRound
<1>2. /\ Round \in Rounds /\ batch \in Batches
      /\ rows \in [Rounds -> SUBSET Messages]
      /\ prepared \in [Rounds -> {"absent", "live", "discarded"}]
  BY <1>1, AtWork, Types DEF IInv, Typed, TypeOK
<1>3. ASSUME Rollback
      PROVE  /\ rows' \in [Rounds -> SUBSET Messages] /\ batch' \in Batches
             /\ prepared' \in [Rounds -> {"absent", "live", "discarded"}]
             /\ \A r \in Rounds : r # Round =>
                   rows'[r] = rows[r] /\ batch'[r] = batch[r] /\ prepared'[r] = prepared[r]
             /\ batch'[Round] = batch[Round] \/ batch'[Round].state = "retracted"
             /\ batch'[Round].state # "staged"
             /\ batch'[Round].members = batch[Round].members
             /\ prepared'[Round] # "live"
  <2>1. \A x \in [state : {"absent", "staged", "retracted"}, members : SUBSET Messages] :
           /\ Retracted(x) \in [state : {"absent", "staged", "retracted"},
                                members : SUBSET Messages]
           /\ Retracted(x) = x \/ Retracted(x).state = "retracted"
           /\ Retracted(x).state # "staged" /\ Retracted(x).members = x.members
    BY DEF Retracted
  <2>2. batch' \in Batches /\ batch'[Round] = Retracted(batch[Round])
        /\ \A r \in Rounds : r # Round => batch'[r] = batch[r]
    BY <1>2, <1>3, <2>1 DEF Rollback, Batches
  <2>3. /\ prepared' \in [Rounds -> {"absent", "live", "discarded"}]
        /\ \A r \in Rounds : r # Round => prepared'[r] = prepared[r]
        /\ prepared'[Round] # "live"
    BY <1>2, <1>3 DEF Rollback
  <2>4. /\ rows' \in [Rounds -> SUBSET Messages]
        /\ \A r \in Rounds : r # Round => rows'[r] = rows[r]
    BY <1>2, <1>3 DEF Rollback, DiscardRows
  <2> QED
    BY <1>2, <2>1, <2>2, <2>3, <2>4 DEF Batches
<1>4. ASSUME DiscardRows
      PROVE  /\ rows' \in [Rounds -> SUBSET Messages]
             /\ \A r \in Rounds : r # Round => rows'[r] = rows[r]
  BY <1>2, <1>4 DEF DiscardRows
<1>5. composer \in {"taken", "frozen", "staged"} => prepared[Round] # "live"
  BY DEF IInv, Composing
<1>6. {"cancelled", "failed"} \subseteq Statuses \ {"running"}
      /\ {"waiting", "error"} \subseteq Phases /\ {"none", "recovery"} \subseteq Turns
  BY DEF Statuses, Phases, Turns
<1>7. ASSUME NEW status, NEW phase, NEW turn, GivenUp(status, phase, turn)
      PROVE  task' = GivenBack(task, Round, status, phase, turn)
  BY <1>7 DEF GivenUp, GivenBack
<1>8. CASE RefuseRound
  <2>1. Undone /\ batch'[Round].members = batch[Round].members
    <3>1. CASE task.compose.admitted = {}
      BY <1>1, <1>2, <1>8, <3>1 DEF RefuseRound, Undone, counters
    <3>2. CASE task.compose.admitted # {}
      <4>1. Rollback
        BY <1>8, <3>2 DEF RefuseRound
      <4> QED
        BY <1>1, <1>3, <1>8, <4>1 DEF RefuseRound, Undone, counters
    <3> QED
      BY <3>1, <3>2
  <2>2. CASE halt = "no"
    <3>1. task' = GivenBack(task, Round, "cancelled", "waiting", "none") /\ halt' = "no"
      BY <1>7, <1>8, <2>2 DEF RefuseRound
    <3> QED
      BY <1>6, <2>1, <2>2, <3>1, UndoneIInv
  <2>3. CASE halt # "no"
    BY <1>8, <2>1, <2>3, UndoneIInv DEF RefuseRound
  <2> QED
    BY <2>2, <2>3
<1>9. CASE FailRound
  <2>1. Rollback /\ halt = "no" /\ halt' = "no"
        /\ task' = GivenBack(task, Round, "failed", "error", "recovery")
    BY <1>7, <1>9 DEF FailRound
  <2>2. Undone
    BY <1>1, <1>3, <1>9, <2>1 DEF FailRound, Undone
  <2> QED
    BY <1>3, <1>6, <2>1, <2>2, UndoneIInv
<1>10. CASE WithdrawRound
  <2>1. DiscardRows /\ halt = "no" /\ halt' = "no" /\ UNCHANGED batch
        /\ task' = GivenBack(task, Round, "cancelled", "waiting", "none")
    BY <1>7, <1>10 DEF WithdrawRound
  <2>2. Undone
    BY <1>1, <1>2, <1>4, <1>5, <1>10, <2>1 DEF WithdrawRound, Undone
  <2> QED
    BY <1>6, <2>1, <2>2, UndoneIInv
<1>11. CASE StopRound
  <2>1. Undone
    BY <1>1, <1>2, <1>4, <1>5, <1>11 DEF StopRound, Undone, counters
  <2> QED
    BY <1>11, <2>1, UndoneIInv DEF StopRound
<1> QED
  BY <1>8, <1>9, <1>10, <1>11

-----------------------------------------------------------------------------
(* The provider.                                                            *)

\* A step of the flow that leaves the messages and the round's material alone.
LEMMA FlowSound ==
    ASSUME NEW t, NEW u, NEW n, NEW w, NEW b, NEW p, NEW F, Sound(t, n, w, b, p, F),
           u.entry = t.entry, u.feedback = t.feedback,
           u.compose.id = t.compose.id, u.compose.admitted = t.compose.admitted,
           u.compose.planned = t.compose.planned, u.compose.plan = t.compose.plan,
           u.compose.draft = t.compose.draft, u.compose.receipt = t.compose.receipt,
           u.provider.id = t.provider.id,
           \/ u.compose.status = t.compose.status
           \/ u.compose.status # "running" /\ t.compose.status = "running",
           u.phase = "error" => ErrorClean(u, b)
    PROVE  Sound(u, n, w, b, p, F)
<1>1. Known(u, n) /\ Shaped(u)
  BY DEF Sound, Known, Shaped
<1>2. Delivered(u) /\ Carried(u, b)
  BY DEF Sound, Delivered, Carried, HeldOrRemoved
<1>3. Answers(u) /\ Journaled(u, w, b, p)
  BY DEF Sound, Answers, Journaled
<1>4. ErrorClean(u, b) /\ Kept(u, w, F)
  BY DEF Sound, ErrorClean, Kept
<1> QED
  BY <1>1, <1>2, <1>3, <1>4 DEF Sound

LEMMA AtProvider ==
    ASSUME IInv, sender # "off" \/ owed = "provider"
    PROVE  /\ task.provider.status = "running" /\ task.provider.id = Round
           /\ task.compose.draft /\ task.compose.status # "running"
           /\ Round \in Rounds /\ composer = "off" /\ owed # "compose"
           /\ task.turn = "none"
<1>1. /\ task.provider.status = "running" /\ task.provider.id = Round
      /\ task.compose.draft /\ task.turn = "none"
  BY DEF IInv, Lanes
<1>2. task.compose.status # "running" /\ Round # 0
  BY <1>1 DEF IInv, Sound, Shaped, Round
<1>3. composer = "off" /\ owed # "compose"
  BY <1>2 DEF IInv, Lanes
<1> QED
  BY <1>1, <1>2, <1>3, Types, TaskFields DEF IInv, Round

LEMMA RetryIInv == ASSUME IInv, Retry PROVE IInv'
<1>1. /\ halt = "no" /\ task.turn = "recovery" /\ task.compose.draft
      /\ task'.entry = task.entry /\ task'.feedback = task.feedback
      /\ task'.compose = task.compose
      /\ task'.provider = [id |-> task.compose.id, status |-> "running"]
      /\ task'.phase = "running" /\ task'.turn = "none" /\ owed' = "provider"
      /\ UNCHANGED <<saved, halt, composer, sender, answering, rows, batch, prepared,
                     final, opened, reopened>>
  BY Types DEF IInv, Retry, TaskType, journal, counters
<1>2. task' \in TaskType
  BY <1>1, Types DEF IInv, Retry, TaskType, Statuses
<1>3. /\ task.compose.status # "running" /\ composer = "off" /\ sender = "off"
      /\ task.compose.id \in Nat /\ task.provider.id \in Nat
      /\ task.provider.id <= task.compose.id
  BY <1>1, Types, TaskFields DEF IInv, Sound, Shaped, Lanes
<1>4. FixedRounds' = FixedRounds
  BY <1>1 DEF FixedRounds, Round
<1>5. Typed'
  BY <1>1, <1>2 DEF IInv, Typed, TypeOK
<1>6. Sound(task', opened, rows, batch, prepared, FixedRounds)
  <2>1. Known(task', opened) /\ Shaped(task')
    BY <1>1, <1>3 DEF IInv, Sound, Known, Shaped
  <2>2. Delivered(task') /\ Carried(task', batch) /\ Answers(task')
    BY <1>1 DEF IInv, Sound, Delivered, Carried, HeldOrRemoved, Answers
  <2>3. /\ Journaled(task', rows, batch, prepared) /\ ErrorClean(task', batch)
        /\ Kept(task', rows, FixedRounds)
    BY <1>1 DEF IInv, Sound, Journaled, ErrorClean, Kept
  <2> QED
    BY <2>1, <2>2, <2>3 DEF Sound
<1>7. Linked' /\ Lanes' /\ Composing' /\ Batched' /\ Editing'
  BY <1>1, <1>3 DEF IInv, Linked, Lanes, Composing, Batched, Editing, Round
<1>8. InFlight(task', rows, batch, FixedRounds, reopened)
  <2>1. InFlight(task, rows, batch, FixedRounds, reopened)
    BY <1>1 DEF IInv
  <2>2. \A d \in Rounds : d <= task.provider.id => d <= task.compose.id
    BY <1>3, Names
  <2> QED
    BY <1>1, <2>1, <2>2 DEF InFlight
<1> QED
  BY <1>1, <1>4, <1>5, <1>6, <1>7, <1>8 DEF IInv

\* The provider's own steps, and the stop's, leave the kernel's state alone.
LEMMA ExecutorIInv ==
    ASSUME IInv, Send \/ JournalResult \/ StopRequest \/ Stop
    PROVE  IInv'
<1>1. /\ UNCHANGED <<task, saved, composer, answering, rows, batch, prepared, opened,
                     reopened>>
      /\ \/ owed = "provider" /\ owed' = "none" /\ sender' = "running" /\ UNCHANGED <<halt, final>>
         \/ /\ sender # "off" /\ sender' \in {"journaled", "off"} /\ UNCHANGED <<halt, owed>>
            /\ final' \subseteq final \cup {task.provider.id}
         \/ halt = "called" /\ halt' = "stopping" /\ UNCHANGED <<owed, sender, final>>
  BY DEF Send, JournalResult, StopRequest, Stop, journal, counters
<1>2. sender # "off" \/ owed = "provider" =>
         /\ task.provider.status = "running" /\ task.provider.id = Round
         /\ Round \in Rounds /\ task.compose.draft
         /\ task.turn = "none" /\ composer = "off"
  BY AtProvider
<1>3. FixedRounds' = FixedRounds
  BY <1>1 DEF FixedRounds, Round
<1>4. Typed'
  BY <1>1, <1>2 DEF IInv, Typed, TypeOK
<1>5. Lanes'
  BY <1>1, <1>2 DEF IInv, Lanes, Round
<1>6. Linked' /\ Composing' /\ Batched' /\ Editing'
  BY <1>1 DEF IInv, Linked, Composing, Batched, Editing, Round
<1> QED
  BY <1>1, <1>3, <1>4, <1>5, <1>6 DEF IInv

LEMMA TurnReadyIInv == ASSUME IInv, TurnReady PROVE IInv'
<1>1. PICK turn \in {"tools", "asking"} :
         task' = [task EXCEPT !.provider.status = "completed", !.phase = "running",
                              !.turn = turn,
                              !.entry = Consumed(@, InState(@, "included"))]
  BY DEF TurnReady
<1> DEFINE e == Consumed(task.entry, InState(task.entry, "included"))
           v == [task EXCEPT !.provider.status = "completed", !.phase = "running",
                             !.turn = turn]
<1>2. /\ sender = "journaled" /\ halt = "no" /\ sender' = "off"
      /\ UNCHANGED <<saved, owed, halt, composer, answering, rows, batch, prepared, final,
                     opened, reopened>>
  BY DEF TurnReady, journal, counters
<1>3. /\ task \in TaskType /\ Bound(task.entry) /\ batch \in Batches
      /\ \A m \in Messages : task.entry[m] \in Entry
  BY Types, TaskFields DEF IInv, Entries
<1>4. /\ v \in TaskType /\ v.entry = task.entry /\ v.feedback = task.feedback
      /\ v.compose = task.compose /\ v.provider.id = task.provider.id
      /\ v.provider.status = "completed" /\ v.phase = "running" /\ v.turn = turn
  BY <1>3 DEF TaskType, Statuses
<1>5. task' = WithEntry(v, e)
  BY <1>1, <1>3 DEF WithEntry, TaskType
<1> HIDE DEF v
<1>6. /\ task.compose.status # "running" /\ owed = "none" /\ composer = "off"
  BY <1>2, AtProvider DEF IInv, Lanes
<1>7. ASSUME NEW m \in Messages
      PROVE  /\ e[m] \in Entry
             /\ task.entry[m].state = "included" =>
                   /\ e[m].state = "consumed" /\ e[m].delivery = NoDelivery /\ ~e[m].editing
             /\ task.entry[m].state # "included" => e[m] = task.entry[m]
  BY <1>3 DEF Consumed, InState, NoEntry, Entry
<1>8. e \in Entries
  BY <1>7 DEF Entries, Consumed
<1> HIDE DEF e
<1>9. InFlight(task, rows, batch, FixedRounds, reopened)
  BY <1>2 DEF IInv
<1>10. Delivered(task)
  BY DEF IInv, Sound
<1>11. \A m \in Messages : task.entry[m].state = "included" =>
          task.entry[m].delivery \in Rounds /\ Conveyed(m, rows, FixedRounds)
  <2>1. \A m \in Messages : task.entry[m].state = "included" => task.entry[m].delivery \in Rounds
    BY <1>3, <1>10 DEF Bound, Delivered, InDelivery, Entry
  <2> QED
    BY <2>1, <1>9 DEF InFlight, Conveyed
<1>12. Sound(v, opened, rows, batch, prepared, FixedRounds)
  BY <1>4, FlowSound DEF IInv
<1>13. Bound(e)
  BY <1>3, <1>7 DEF Bound, InDelivery
<1>14. Moves(v, e, rows, FixedRounds)
  <2>1. \A m \in Messages :
        /\ e[m].delivery \in {v.entry[m].delivery, NoDelivery, TurnEnd}
        /\ e[m].delivery = TurnEnd => e[m].state = "reserved"
        /\ v.entry[m].state \in {"consumed", "removed"} => e[m].state = v.entry[m].state
        /\ e[m].state = "consumed" =>
              v.entry[m].state = "consumed" \/ Conveyed(m, rows, FixedRounds)
    BY <1>4, <1>7, <1>10, <1>11, Names DEF Delivered
  <2>2. \A m, k \in Messages :
        /\ v.entry[m].delivery \in Rounds /\ v.entry[k].delivery = v.entry[m].delivery
        /\ e[m].state # "removed" /\ e[k].state # "removed"
        => e[k].delivery = e[m].delivery /\ e[k].state = e[m].state
    BY <1>4, <1>7, <1>10 DEF Delivered
  <2> QED
    BY <1>4, <1>6, <1>8, <1>13, <2>1, <2>2 DEF Moves
<1>15. Sound(task', opened, rows, batch, prepared, FixedRounds)
  BY <1>3, <1>4, <1>5, <1>12, <1>14, MovesSound
<1>16. /\ task' \in TaskType /\ task'.entry = e /\ task'.compose = task.compose
       /\ task'.provider = v.provider /\ task'.phase = "running" /\ task'.turn = turn
  BY <1>4, <1>5, <1>8, WithEntryFields
<1>17. FixedRounds' = FixedRounds
  BY <1>2, <1>16 DEF FixedRounds, Round
<1>18. Typed'
  BY <1>2, <1>13, <1>16 DEF IInv, Typed, TypeOK, Bound
<1>19. Linked' /\ Lanes' /\ Composing' /\ Batched'
  BY <1>2, <1>6, <1>16 DEF IInv, Linked, Lanes, Composing, Batched, Round
<1>20. InFlight(task', rows, batch, FixedRounds, reopened)
  <2>1. \A m \in Messages : e[m].delivery \in Rounds =>
           e[m] = task.entry[m] /\ e[m].state \notin {"included", "reserved"}
    BY <1>6, <1>7, <1>9, Names DEF InFlight
  <2>2. \A m \in Messages : task.entry[m].state = "removed" => e[m].state = "removed"
    BY <1>7
  <2>3. \A r \in Rounds : batch[r].members \in SUBSET Messages
    BY <1>3 DEF Batches
  <2> QED
    BY <1>9, <1>16, <2>1, <2>2, <2>3 DEF InFlight
<1>21. Editing'
  BY <1>2, <1>7, <1>16 DEF IInv, Editing
<1> QED
  BY <1>2, <1>15, <1>17, <1>18, <1>19, <1>20, <1>21 DEF IInv

LEMMA FailRequestIInv == ASSUME IInv, FailRequest PROVE IInv'
<1>1. /\ sender = "running" /\ halt = "no" /\ sender' = "off"
      /\ task'.entry = task.entry /\ task'.feedback = task.feedback
      /\ task'.compose = task.compose /\ task'.provider.id = task.provider.id
      /\ task'.provider.status = "failed" /\ task'.phase = "error"
      /\ task'.turn = "recovery"
      /\ UNCHANGED <<saved, owed, halt, composer, answering, rows, batch, prepared, final,
                     opened, reopened>>
  BY Types DEF IInv, FailRequest, TaskType, journal
<1>2. task' \in TaskType
  BY Types DEF IInv, FailRequest, TaskType, Statuses
<1>3. /\ task.compose.draft /\ task.compose.status # "running"
      /\ owed = "none" /\ composer = "off"
  BY <1>1, AtProvider DEF IInv, Lanes
<1>4. FixedRounds' = FixedRounds
  BY <1>1 DEF FixedRounds, Round
<1>5. Typed'
  BY <1>1, <1>2 DEF IInv, Typed, TypeOK
<1>6. Sound(task', opened, rows, batch, prepared, FixedRounds)
  <2>1. ErrorClean(task', batch)
    BY <1>1, <1>3 DEF IInv, Sound, Shaped, Journaled, ErrorClean
  <2> QED
    BY <1>1, <2>1, FlowSound DEF IInv
<1>7. Linked' /\ Lanes' /\ Composing' /\ Batched' /\ Editing'
  BY <1>1, <1>3 DEF IInv, Linked, Lanes, Composing, Batched, Editing, Round
<1>8. InFlight(task', rows, batch, FixedRounds, reopened)
  BY <1>1 DEF IInv, InFlight
<1> QED
  BY <1>1, <1>4, <1>5, <1>6, <1>7, <1>8 DEF IInv

-----------------------------------------------------------------------------
(* A cancel and its settlement.                                             *)

LEMMA CancelIInv == ASSUME IInv, Cancel PROVE IInv'
<1> DEFINE e == Cancelled(task.entry)
<1>1. /\ halt = "no" /\ halt' = "called" /\ owed' = "none" /\ reopened' = FALSE
      /\ UNCHANGED <<saved, composer, sender, answering, rows, batch, prepared, final, opened>>
  BY DEF Cancel, journal
<1>2. /\ task \in TaskType /\ Bound(task.entry) /\ batch \in Batches
      /\ \A m \in Messages : task.entry[m] \in Entry
  BY Types, TaskFields DEF IInv, Entries
<1>3. task' = WithEntry(task, e)
  BY <1>2 DEF Cancel, WithEntry, TaskType
<1>4. ASSUME NEW m \in Messages
      PROVE  /\ e[m] \in Entry /\ e[m].editing = task.entry[m].editing
             /\ task.entry[m].state \notin {"reserved", "included"} => e[m] = task.entry[m]
             /\ task.entry[m].state \in {"reserved", "included"} =>
                   IF task.entry[m].delivery = TurnEnd
                   THEN e[m].state = "released" /\ e[m].delivery = NoDelivery
                   ELSE e[m].state = "uncertain" /\ e[m].delivery = task.entry[m].delivery
  <2>1. ASSUME NEW x \in Entry, NEW y, y = [x EXCEPT !.state = "released", !.delivery = NoDelivery]
        PROVE  /\ y \in Entry /\ y.editing = x.editing
               /\ y.state = "released" /\ y.delivery = NoDelivery
    BY <2>1 DEF Entry
  <2>2. ASSUME NEW x \in Entry, NEW y, y = [x EXCEPT !.state = "uncertain"]
        PROVE  /\ y \in Entry /\ y.editing = x.editing
               /\ y.state = "uncertain" /\ y.delivery = x.delivery
    BY <2>2 DEF Entry, InDelivery
  <2>3. CASE task.entry[m].state \notin {"reserved", "included"}
    BY <1>2, <2>3 DEF Cancelled
  <2>4. CASE task.entry[m].state \in {"reserved", "included"} /\ task.entry[m].delivery = TurnEnd
    <3>1. e[m] = [task.entry[m] EXCEPT !.state = "released", !.delivery = NoDelivery]
      BY <2>4 DEF Cancelled
    <3> HIDE DEF e
    <3> QED
      BY <1>2, <2>1, <2>4, <3>1
  <2>5. CASE task.entry[m].state \in {"reserved", "included"} /\ task.entry[m].delivery # TurnEnd
    <3>1. e[m] = [task.entry[m] EXCEPT !.state = "uncertain"]
      BY <2>5 DEF Cancelled
    <3> HIDE DEF e
    <3> QED
      BY <1>2, <2>2, <2>5, <3>1
  <2> QED
    BY <2>3, <2>4, <2>5
<1>5. e \in Entries
  BY <1>4 DEF Entries, Cancelled
<1> HIDE DEF e
<1>6. Bound(e)
  BY <1>2, <1>4, Names DEF Bound, InDelivery
<1>7. Delivered(task)
  BY DEF IInv, Sound
<1>8. Moves(task, e, rows, FixedRounds)
  <2>1. \A m \in Messages :
        /\ e[m].delivery \in {task.entry[m].delivery, NoDelivery, TurnEnd}
        /\ e[m].delivery = TurnEnd => e[m].state = "reserved"
        /\ task.entry[m].state \in {"consumed", "removed"} => e[m].state = task.entry[m].state
        /\ e[m].state = "consumed" =>
              task.entry[m].state = "consumed" \/ Conveyed(m, rows, FixedRounds)
    BY <1>4, <1>7, Names DEF Delivered
  <2>2. \A m, k \in Messages :
        /\ task.entry[m].delivery \in Rounds /\ task.entry[k].delivery = task.entry[m].delivery
        /\ e[m].state # "removed" /\ e[k].state # "removed"
        => e[k].delivery = e[m].delivery /\ e[k].state = e[m].state
    BY <1>4, <1>7, Names DEF Delivered
  <2>3. ASSUME task.compose.status = "running", NEW m \in task.compose.admitted,
               m \in Held(task.entry, task.compose.id)
        PROVE  e[m].delivery = task.entry[m].delivery
    <3>1. task.compose.id # TurnEnd /\ m \in Messages /\ task.entry[m].delivery = task.compose.id
      BY <1>2, <2>3, TaskFields, Names DEF Held
    <3> QED
      BY <1>4, <3>1
  <2> QED
    BY <1>5, <1>6, <2>1, <2>2, <2>3 DEF Moves
<1>9. Sound(task', opened, rows, batch, prepared, FixedRounds)
  BY <1>2, <1>3, <1>8, MovesSound DEF IInv
<1>10. /\ task' \in TaskType /\ task'.entry = e /\ task'.compose = task.compose
       /\ task'.provider = task.provider /\ task'.phase = task.phase
       /\ task'.turn = task.turn
  BY <1>2, <1>3, <1>5, WithEntryFields
<1>11. FixedRounds' = FixedRounds
  BY <1>1, <1>10 DEF FixedRounds, Round
<1>12. Typed'
  BY <1>1, <1>6, <1>10 DEF IInv, Typed, TypeOK, Bound
<1>13. Linked' /\ Lanes' /\ Composing' /\ Batched'
  BY <1>1, <1>10 DEF IInv, Linked, Lanes, Composing, Batched, Round
<1>14. Editing'
  BY <1>1, <1>4, <1>10 DEF IInv, Editing, Mutable
<1> QED
  BY <1>1, <1>9, <1>11, <1>12, <1>13, <1>14 DEF IInv

LEMMA HaltDoneIInv == ASSUME IInv, HaltDone PROVE IInv'
<1> DEFINE over(s) == IF s = "running" THEN "cancelled" ELSE s
<1>1. /\ halt = "stopping" /\ composer = "off" /\ sender = "off" /\ halt' = "settling"
      /\ task'.entry = task.entry /\ task'.feedback = task.feedback
      /\ task'.compose.id = task.compose.id
      /\ task'.compose.admitted = task.compose.admitted
      /\ task'.compose.planned = task.compose.planned
      /\ task'.compose.plan = task.compose.plan
      /\ task'.compose.draft = task.compose.draft
      /\ task'.compose.receipt = task.compose.receipt
      /\ task'.compose.status = over(task.compose.status)
      /\ task'.provider.id = task.provider.id
      /\ task'.phase = "paused" /\ task'.turn = "recovery"
      /\ UNCHANGED <<saved, owed, composer, sender, answering, rows, batch, prepared,
                     final, opened, reopened>>
  BY Types DEF IInv, HaltDone, TaskType, journal, counters
<1>2. task' \in TaskType
  <2>1. over(task.compose.status) \in Statuses /\ over(task.provider.status) \in Statuses
    BY Types DEF IInv, TaskType, Statuses
  <2>2. task' = [task EXCEPT !.compose.status = over(@), !.provider.status = over(@),
                             !.phase = "paused", !.turn = "recovery"]
    BY DEF HaltDone
  <2> QED
    BY <2>1, <2>2, Types DEF IInv, TaskType
<1>3. FixedRounds' = FixedRounds
  BY <1>1 DEF FixedRounds, Round
<1>4. Typed'
  BY <1>1, <1>2 DEF IInv, Typed, TypeOK
<1>5. Sound(task', opened, rows, batch, prepared, FixedRounds)
  BY <1>1, FlowSound DEF IInv
<1>6. owed = "none"
  BY <1>1 DEF IInv, Lanes
<1>7. Linked' /\ Lanes' /\ Composing' /\ Batched' /\ Editing'
  BY <1>1, <1>6 DEF IInv, Linked, Lanes, Composing, Batched, Editing, Round
<1> QED
  BY <1>1, <1>3, <1>4, <1>5, <1>7 DEF IInv

\* The round's plan is given up, or its prepared draft stands for it.
LEMMA RetiredSound ==
    ASSUME NEW t, NEW u, NEW n, NEW w, NEW b, NEW p, NEW F, Sound(t, n, w, b, p, F),
           u.entry = t.entry, u.feedback = t.feedback, u.provider = t.provider,
           u.phase = t.phase, u.compose.id = t.compose.id,
           u.compose.status = t.compose.status, u.compose.admitted = t.compose.admitted,
           u.compose.receipt = t.compose.receipt,
           ~u.compose.planned, u.compose.plan = {}, ~u.compose.draft
    PROVE  Sound(u, n, w, b, p, F)
<1>1. Known(u, n) /\ Shaped(u)
  BY DEF Sound, Known, Shaped
<1>2. Delivered(u) /\ Carried(u, b)
  BY DEF Sound, Delivered, Carried, HeldOrRemoved
<1>3. Answers(u) /\ Journaled(u, w, b, p)
  BY DEF Sound, Answers, Journaled
<1>4. ErrorClean(u, b) /\ Kept(u, w, F)
  BY DEF Sound, ErrorClean, Kept
<1> QED
  BY <1>1, <1>2, <1>3, <1>4 DEF Sound

LEMMA RestoredSound ==
    ASSUME NEW t, t.compose.id \in Rounds, NEW u, NEW n, NEW w, NEW b, NEW p, NEW F,
           Sound(t, n, w, b, p, F),
           t.compose.planned, p[t.compose.id] = "live", t.compose.id \in F,
           u.entry = t.entry, u.feedback = t.feedback \ t.compose.plan,
           u.provider = t.provider,
           u.phase = t.phase, u.compose.id = t.compose.id,
           u.compose.status = "completed", u.compose.admitted = t.compose.admitted,
           u.compose.receipt <=> t.compose.admitted # {},
           u.compose.planned, u.compose.plan = t.compose.plan, u.compose.draft
    PROVE  Sound(u, n, w, b, p, F)
<1>1. Known(u, n) /\ Shaped(u)
  BY Names DEF Sound, Known, Shaped
<1>2. Delivered(u) /\ Carried(u, b)
  BY DEF Sound, Delivered, Carried, HeldOrRemoved
<1>3. Answers(u) /\ Journaled(u, w, b, p)
  BY DEF Sound, Answers, Journaled
<1>4. ErrorClean(u, b)
  BY DEF Sound, Journaled, ErrorClean
<1>5. Kept(u, w, F)
  BY DEF Sound, Journaled, Kept, Conveyed
<1> QED
  BY <1>1, <1>2, <1>3, <1>4, <1>5 DEF Sound

\* What a settlement finds at rest.
LEMMA AtRest ==
    ASSUME IInv, halt \in {"settling", "deciding"}
    PROVE  /\ owed = "none" /\ composer = "off" /\ sender = "off"
           /\ task.compose.status = "running" => task.compose.admitted = {}
           /\ FixedRounds = {r \in Rounds : prepared[r] = "live"}
  BY DEF IInv, Lanes, FixedRounds

\* The settled state stands for the rest of the invariant.
LEMMA SettleIInv ==
    ASSUME IInv, halt = "settling", halt' = "deciding",
           UNCHANGED <<saved, owed, composer, sender, answering, batch, prepared, final,
                       opened, reopened>>,
           task' \in TaskType, Bound(task'.entry),
           \A m \in Messages : task'.entry[m].editing => Mutable(task'.entry[m]),
           task'.compose.id = Round, task'.compose.admitted = task.compose.admitted,
           task'.compose.status \in {task.compose.status, "completed"},
           task'.provider = task.provider, task'.phase = task.phase, task'.turn = task.turn,
           Sound(task', opened, rows', batch, prepared, FixedRounds),
           rows' \in [Rounds -> SUBSET Messages],
           \A r \in Rounds : rows'[r] = rows[r] \/ (rows'[r] = {} /\ prepared[r] # "live")
    PROVE  IInv'
<1>1. /\ owed = "none" /\ composer = "off" /\ sender = "off"
      /\ task.compose.status = "running" => task.compose.admitted = {}
      /\ FixedRounds = {r \in Rounds : prepared[r] = "live"}
  BY AtRest
<1>2. FixedRounds' = FixedRounds
  BY <1>1 DEF FixedRounds
<1>3. Typed'
  BY DEF IInv, Typed, TypeOK, Bound
<1>4. Sound(saved, opened, rows', batch, prepared, FixedRounds)
  <2>1. saved.compose.receipt => prepared[saved.compose.id] = "live"
    BY DEF IInv, Sound, Journaled
  <2>2. /\ \A r \in Rounds : prepared[r] = "live" =>
              prepared[r] = "live" /\ rows[r] \subseteq rows'[r]
        /\ \A r \in FixedRounds : r \in FixedRounds /\ rows[r] \subseteq rows'[r]
        /\ opened \in Nat /\ opened <= opened /\ saved \in TaskType
    BY <1>1, Types DEF IInv
  <2>3. \A r \in Rounds : batch[r].state = "staged" => batch[r] = batch[r]
    OBVIOUS
  <2> QED
    BY <2>1, <2>2, <2>3, JournalStep DEF IInv
<1>5. Linked' /\ Lanes' /\ Composing' /\ Batched' /\ Editing'
  BY <1>1 DEF IInv, Linked, Lanes, Composing, Batched, Editing, Round
<1> QED
  BY <1>2, <1>3, <1>4, <1>5 DEF IInv

LEMMA ReconcileIInv == ASSUME IInv, Reconcile PROVE IInv'
<1>1. /\ halt = "settling" /\ halt' = "deciding"
      /\ UNCHANGED <<saved, owed, composer, sender, answering, batch, prepared, final,
                     opened, reopened>>
  BY DEF Reconcile, counters
<1>2. /\ task \in TaskType /\ Bound(task.entry) /\ opened \in Nat /\ batch \in Batches
      /\ rows \in [Rounds -> SUBSET Messages]
      /\ \A m \in Messages : task.entry[m].editing => Mutable(task.entry[m])
      /\ Sound(task, opened, rows, batch, prepared, FixedRounds)
  BY Types DEF IInv, Editing
<1>3. /\ task.compose.status = "running" => task.compose.admitted = {}
      /\ FixedRounds = {r \in Rounds : prepared[r] = "live"}
  BY <1>1, AtRest
<1>4. task.compose.planned => Round \in Rounds
  BY <1>2, TaskFields DEF Sound, Shaped, Round
<1>5. CASE ~task.compose.planned
  <2>1. task' = task /\ rows' = rows
    BY <1>5 DEF Reconcile
  <2>2. /\ task' \in TaskType /\ Bound(task'.entry)
        /\ \A m \in Messages : task'.entry[m].editing => Mutable(task'.entry[m])
        /\ task'.compose.id = Round /\ task'.compose.admitted = task.compose.admitted
        /\ task'.compose.status = task.compose.status
        /\ task'.provider = task.provider /\ task'.phase = task.phase
        /\ task'.turn = task.turn
        /\ Sound(task', opened, rows', batch, prepared, FixedRounds)
    BY <1>2, <2>1 DEF Round
  <2>3. \A r \in Rounds : rows'[r] = rows[r] \/ (rows'[r] = {} /\ prepared[r] # "live")
    BY <2>1
  <2> QED
    BY <1>1, <1>2, <2>1, <2>2, <2>3, SettleIInv
<1>6. ASSUME task' = Retired
      PROVE  /\ task' \in TaskType /\ task'.entry = task.entry
             /\ task'.compose.id = Round /\ task'.compose.admitted = task.compose.admitted
             /\ task'.compose.status = task.compose.status
             /\ task'.provider = task.provider /\ task'.phase = task.phase
             /\ task'.turn = task.turn
             /\ Sound(task', opened, rows, batch, prepared, FixedRounds)
  <2>1. /\ task' \in TaskType /\ task'.entry = task.entry
        /\ task'.feedback = task.feedback /\ task'.provider = task.provider
        /\ task'.phase = task.phase /\ task'.compose.id = task.compose.id
        /\ task'.compose.status = task.compose.status /\ task'.turn = task.turn
        /\ task'.compose.admitted = task.compose.admitted
        /\ task'.compose.receipt = task.compose.receipt
        /\ ~task'.compose.planned /\ task'.compose.plan = {} /\ ~task'.compose.draft
    BY <1>2, <1>6 DEF Retired, TaskType
  <2>2. Sound(task', opened, rows, batch, prepared, FixedRounds)
    BY <1>2, <2>1, RetiredSound
  <2> QED
    BY <2>1, <2>2 DEF Round
<1>7. CASE task.compose.planned /\ Round \in final
  <2>1. task' = Retired /\ UNCHANGED rows
    BY <1>7 DEF Reconcile
  <2>2. /\ task' \in TaskType /\ task'.entry = task.entry
        /\ task'.compose.id = Round /\ task'.compose.admitted = task.compose.admitted
        /\ task'.compose.status = task.compose.status
        /\ task'.provider = task.provider /\ task'.phase = task.phase
        /\ task'.turn = task.turn
        /\ Sound(task', opened, rows', batch, prepared, FixedRounds)
    BY <1>6, <2>1
  <2>3. rows' = rows
        /\ \A r \in Rounds : rows'[r] = rows[r] \/ (rows'[r] = {} /\ prepared[r] # "live")
    BY <2>1
  <2> QED
    BY <1>1, <1>2, <2>2, <2>3, SettleIInv
<1>8. CASE task.compose.planned /\ Round \notin final /\ prepared[Round] # "live"
  <2>1. task' = Retired /\ DiscardRows
    BY <1>8 DEF Reconcile
  <2>2. /\ rows' \in [Rounds -> SUBSET Messages] /\ rows'[Round] = {}
        /\ \A r \in Rounds : r # Round => rows'[r] = rows[r]
    BY <1>2, <1>4, <1>8, <2>1 DEF DiscardRows
  <2>3. /\ task' \in TaskType /\ task'.entry = task.entry
        /\ task'.compose.id = Round /\ task'.compose.admitted = task.compose.admitted
        /\ task'.compose.status = task.compose.status
        /\ task'.provider = task.provider /\ task'.phase = task.phase
        /\ task'.turn = task.turn
        /\ Sound(task', opened, rows, batch, prepared, FixedRounds)
    BY <1>6, <2>1
  <2>4. /\ task'.compose.receipt => prepared[task'.compose.id] = "live"
        /\ \A r \in Rounds : batch[r].state = "staged" => batch[r] = batch[r]
        /\ \A r \in Rounds : prepared[r] = "live" =>
              prepared[r] = "live" /\ rows[r] \subseteq rows'[r]
        /\ \A r \in FixedRounds : r \in FixedRounds /\ rows[r] \subseteq rows'[r]
        /\ opened <= opened
    BY <1>2, <1>3, <1>8, <2>2, <2>3 DEF Sound, Journaled
  <2>5. Sound(task', opened, rows', batch, prepared, FixedRounds)
    BY <1>2, <2>3, <2>4, JournalStep
  <2>6. ASSUME NEW r \in Rounds
        PROVE  rows'[r] = rows[r] \/ (rows'[r] = {} /\ prepared[r] # "live")
    <3>1. CASE r = Round
      BY <1>8, <2>2, <3>1
    <3>2. CASE r # Round
      BY <2>2, <3>2
    <3> QED
      BY <3>1, <3>2
  <2> QED
    BY <1>1, <1>2, <2>2, <2>3, <2>5, <2>6, SettleIInv
<1>9. CASE task.compose.planned /\ Round \notin final /\ prepared[Round] = "live"
  <2> DEFINE A == task.compose.admitted
             S == {m \in A : task.entry[m].state # "removed"}
             e == Consumed(task.entry, S)
             v == WithEntry(task, e)
  <2>1. task' = Restored /\ UNCHANGED rows
    BY <1>9 DEF Reconcile
  <2>2. /\ \A m \in Messages : task.entry[m] \in Entry
        /\ A \in SUBSET Messages /\ S \in SUBSET Messages
        /\ task.compose.plan \in SUBSET Messages
    BY <1>2, TaskFields DEF Entries
  <2>3. ASSUME NEW m \in Messages
        PROVE  /\ e[m] \in Entry
               /\ m \in S => e[m].state = "consumed" /\ e[m].delivery = NoDelivery /\ ~e[m].editing
               /\ m \notin S => e[m] = task.entry[m]
    BY <2>2 DEF Consumed, NoEntry, Entry
  <2>4. e \in Entries
    BY <2>3 DEF Entries, Consumed
  <2>5. /\ Round \in FixedRounds /\ task.compose.plan \subseteq rows[Round]
        /\ A \subseteq task.compose.plan
    BY <1>2, <1>3, <1>4, <1>9 DEF Sound, Journaled, Shaped, Round
  <2>6. \A m \in S : task.entry[m].state # "removed" /\ m \in A
    OBVIOUS
  <2> HIDE DEF e, S, v
  <2>7. Bound(e)
    BY <1>2, <2>3 DEF Bound, InDelivery
  <2>8. Moves(task, e, rows, FixedRounds)
    <3>1. \A m \in Messages :
          /\ e[m].delivery \in {task.entry[m].delivery, NoDelivery, TurnEnd}
          /\ e[m].delivery = TurnEnd => e[m].state = "reserved"
          /\ task.entry[m].state \in {"consumed", "removed"} => e[m].state = task.entry[m].state
          /\ e[m].state = "consumed" =>
                task.entry[m].state = "consumed" \/ Conveyed(m, rows, FixedRounds)
      BY <1>2, <2>3, <2>5, <2>6, Names DEF Sound, Delivered, Conveyed
    <3>2. ASSUME NEW m \in Messages, NEW k \in Messages,
                 task.entry[m].delivery \in Rounds,
                 task.entry[k].delivery = task.entry[m].delivery, m \in S,
                 e[k].state # "removed"
          PROVE  k \in S
      <4>1. task.entry[k].state \in InDelivery
        BY <1>2, <3>2, Names DEF Bound
      <4>2. task.entry[m].delivery = Round
        BY <1>2, <2>6, <3>2, Names DEF Sound, Delivered, Round
      <4>3. k \in A
        BY <1>2, <3>2, <4>1, <4>2 DEF Held, Sound, Carried, Round
      <4> QED
        BY <4>1, <4>3 DEF S, InDelivery
    <3>3. \A m, k \in Messages :
          /\ task.entry[m].delivery \in Rounds
          /\ task.entry[k].delivery = task.entry[m].delivery
          /\ e[m].state # "removed" /\ e[k].state # "removed"
          => e[k].delivery = e[m].delivery /\ e[k].state = e[m].state
      BY <1>2, <2>3, <3>2 DEF Sound, Delivered
    <3> QED
      BY <1>3, <2>4, <2>7, <3>1, <3>3 DEF Moves
  <2>9. Sound(v, opened, rows, batch, prepared, FixedRounds)
    BY <1>2, <2>8, MovesSound DEF v
  <2>10. /\ v.entry = e /\ v.feedback = task.feedback /\ v.compose = task.compose
         /\ v.provider = task.provider /\ v.phase = task.phase
    BY <1>2, <2>4, WithEntryFields DEF v
  <2>11. PICK b \in BOOLEAN : b = (A # {})
    OBVIOUS
  <2>12. task' = [task EXCEPT !.compose.status = "completed", !.compose.draft = TRUE,
                              !.compose.receipt = b, !.entry = e,
                              !.feedback = task.feedback \ task.compose.plan]
    BY <1>2, <2>1, <2>11 DEF Restored, TaskType, e, S
  <2>13. /\ task'.entry = e /\ task'.feedback = task.feedback \ task.compose.plan
         /\ task'.provider = task.provider /\ task'.phase = task.phase
         /\ task'.turn = task.turn /\ task'.compose.id = task.compose.id
         /\ task'.compose.status = "completed" /\ task'.compose.admitted = A
         /\ task'.compose.receipt = b /\ task'.compose.planned
         /\ task'.compose.plan = task.compose.plan /\ task'.compose.draft
    BY <1>2, <1>9, <2>12 DEF TaskType
  <2>14. task' \in TaskType
    <3>1. task.feedback \ task.compose.plan \in SUBSET Messages
      BY <1>2, TaskFields
    <3> QED
      BY <1>2, <2>4, <2>12, <3>1 DEF TaskType, Statuses, Entries, Entry
  <2>15. Sound(task', opened, rows, batch, prepared, FixedRounds)
    <3>1. /\ v.compose.id = Round /\ v.compose.planned /\ v.compose.plan = task.compose.plan
          /\ v.compose.admitted = A /\ Round \in Rounds /\ prepared[Round] = "live"
          /\ task'.compose.id = Round
      BY <1>4, <1>9, <2>10, <2>13 DEF Round
    <3>2. /\ v.compose.id \in Rounds /\ v.compose.planned
          /\ prepared[v.compose.id] = "live" /\ v.compose.id \in FixedRounds
      BY <2>5, <3>1
    <3>3. /\ task'.entry = v.entry /\ task'.feedback = v.feedback \ v.compose.plan
          /\ task'.provider = v.provider /\ task'.phase = v.phase
          /\ task'.compose.id = v.compose.id /\ task'.compose.status = "completed"
          /\ task'.compose.planned /\ task'.compose.plan = v.compose.plan
          /\ task'.compose.draft
      BY <2>10, <2>13, <3>1
    <3>4. /\ task'.compose.admitted = v.compose.admitted
          /\ task'.compose.receipt <=> v.compose.admitted # {}
      BY <2>11, <2>13, <3>1
    <3> HIDE DEF A
    <3> QED
      BY <2>9, <3>2, <3>3, <3>4, RestoredSound
  <2>16. \A m \in Messages : e[m].editing => Mutable(e[m])
    BY <1>2, <2>3
  <2>17. /\ Bound(task'.entry) /\ task'.compose.id = Round
         /\ \A m \in Messages : task'.entry[m].editing => Mutable(task'.entry[m])
         /\ rows' = rows
         /\ \A r \in Rounds : rows'[r] = rows[r] \/ (rows'[r] = {} /\ prepared[r] # "live")
    BY <2>1, <2>7, <2>13, <2>16 DEF Round
  <2>18. Sound(task', opened, rows', batch, prepared, FixedRounds)
    BY <2>15, <2>17
  <2> QED
    BY <1>1, <1>2, <2>13, <2>14, <2>17, <2>18, SettleIInv
<1> QED
  BY <1>5, <1>7, <1>8, <1>9

\* A settlement consumes only what the journal holds for good.
LEMMA DecisionConveys ==
    ASSUME NEW t \in TaskType, Bound(t.entry), batch \in Batches, Batched, NEW n, NEW F,
           Sound(t, n, rows, batch, prepared, F),
           \A q \in Rounds : prepared[q] = "live" => q \in F,
           NEW r \in Rounds, NEW m \in Held(t.entry, r), Decision(t, r) = "consumed"
    PROVE  Conveyed(m, rows, F)
<1>1. /\ batch[r].state = "staged" /\ batch[r].members = Held(t.entry, r)
      /\ t.compose.id = r
      /\ \/ t.compose.planned /\ prepared[r] = "live"
         \/ t.compose.receipt
  BY DEF Decision
<1>2. CASE t.compose.planned /\ prepared[r] = "live"
  <2>1. t.compose.plan \subseteq rows[r] /\ t.compose.admitted \subseteq t.compose.plan
    BY <1>1, <1>2 DEF Sound, Journaled, Shaped
  <2>2. m \in t.compose.admitted
    BY <1>1 DEF Sound, Carried
  <2> QED
    BY <1>2, <2>1, <2>2 DEF Conveyed
<1>3. CASE t.compose.receipt
  <2>1. prepared[r] = "live"
    BY <1>1, <1>3 DEF Sound, Journaled
  <2>2. m \in rows[r]
    BY <1>1, <2>1 DEF Batched
  <2> QED
    BY <2>1, <2>2 DEF Conveyed
<1> QED
  BY <1>1, <1>2, <1>3

\* What a settlement makes of each message.
LEMMA DecidedFields ==
    ASSUME NEW t \in TaskType, NEW m \in Messages, NEW x, x = Decided(t, t.entry)[m],
           NEW y, y = t.entry[m]
    PROVE  /\ x \in Entry /\ (x.editing => y.editing)
           /\ y.state \notin InDelivery \/ y.delivery \notin Rounds => x = y
           /\ y.state \in InDelivery /\ y.delivery \in Rounds =>
                 \/ /\ Decision(t, y.delivery) = "none"
                    /\ x.state = "uncertain" /\ x.delivery = y.delivery
                 \/ /\ Decision(t, y.delivery) = "consumed"
                    /\ x.state = "consumed" /\ x.delivery = NoDelivery
                 \/ /\ Decision(t, y.delivery) \notin {"none", "consumed"}
                    /\ x.state = "released" /\ x.delivery = NoDelivery
<1>1. y \in Entry
  BY TaskFields DEF Entries
<1>2. ASSUME NEW z, z = [y EXCEPT !.state = "uncertain"]
      PROVE  z \in Entry /\ z.editing = y.editing /\ z.state = "uncertain"
             /\ z.delivery = y.delivery
  BY <1>1, <1>2 DEF Entry, InDelivery
<1>3. ASSUME NEW z, z = [y EXCEPT !.state = "released", !.delivery = NoDelivery]
      PROVE  z \in Entry /\ z.editing = y.editing /\ z.state = "released"
             /\ z.delivery = NoDelivery
  BY <1>1, <1>3 DEF Entry
<1>4. ASSUME NEW z, z = [NoEntry EXCEPT !.state = "consumed"]
      PROVE  z \in Entry /\ ~z.editing /\ z.state = "consumed" /\ z.delivery = NoDelivery
  BY <1>4 DEF Entry, NoEntry
<1>5. CASE y.state \notin InDelivery \/ y.delivery \notin Rounds
  BY <1>1, <1>5 DEF Decided
<1>6. CASE y.state \in InDelivery /\ y.delivery \in Rounds
  <2>1. CASE Decision(t, y.delivery) = "none"
    <3>1. x = [y EXCEPT !.state = "uncertain"]
      BY <1>6, <2>1 DEF Decided
    <3> QED
      BY <1>2, <1>6, <2>1, <3>1
  <2>2. CASE Decision(t, y.delivery) = "consumed"
    <3>1. x = [NoEntry EXCEPT !.state = "consumed"]
      BY <1>6, <2>2 DEF Decided
    <3> QED
      BY <1>4, <1>6, <2>2, <3>1
  <2>3. CASE Decision(t, y.delivery) \notin {"none", "consumed"}
    <3>1. x = [y EXCEPT !.state = "released", !.delivery = NoDelivery]
      BY <1>6, <2>3 DEF Decided
    <3> QED
      BY <1>3, <1>6, <2>3, <3>1
  <2> QED
    BY <2>1, <2>2, <2>3
<1> QED
  BY <1>5, <1>6

\* A state v that holds the same messages takes the decisions made for t.
LEMMA DecidedMoves ==
    ASSUME NEW t \in TaskType, Bound(t.entry), batch \in Batches, Batched, NEW n, NEW F,
           Sound(t, n, rows, batch, prepared, F),
           \A q \in Rounds : prepared[q] = "live" => q \in F,
           NEW v, v.entry = t.entry,
           v.compose.status = "running" => v.compose.admitted = {}
    PROVE  Moves(v, Decided(t, t.entry), rows, F)
<1> DEFINE e == Decided(t, t.entry)
<1>1. \A m \in Messages :
         /\ e[m] \in Entry
         /\ t.entry[m].state \notin InDelivery \/ t.entry[m].delivery \notin Rounds
               => e[m] = t.entry[m]
         /\ t.entry[m].state \in InDelivery /\ t.entry[m].delivery \in Rounds =>
               \/ /\ Decision(t, t.entry[m].delivery) = "none"
                  /\ e[m].state = "uncertain" /\ e[m].delivery = t.entry[m].delivery
               \/ /\ Decision(t, t.entry[m].delivery) = "consumed"
                  /\ e[m].state = "consumed" /\ e[m].delivery = NoDelivery
               \/ /\ Decision(t, t.entry[m].delivery) \notin {"none", "consumed"}
                  /\ e[m].state = "released" /\ e[m].delivery = NoDelivery
  BY DecidedFields
<1>2. e \in Entries
  <2>1. e = [m \in Messages |-> e[m]]
    BY DEF Decided
  <2> HIDE DEF e
  <2> QED
    BY <1>1, <2>1 DEF Entries
<1> HIDE DEF e
<1>3. Bound(e)
  BY <1>1, Names DEF Bound, InDelivery
<1>4. Delivered(t)
  BY DEF Sound
<1>5. ASSUME NEW m \in Messages
      PROVE  /\ e[m].delivery \in {t.entry[m].delivery, NoDelivery, TurnEnd}
             /\ e[m].delivery = TurnEnd => e[m].state = "reserved"
             /\ t.entry[m].state \in {"consumed", "removed"} => e[m].state = t.entry[m].state
             /\ e[m].state = "consumed" => t.entry[m].state = "consumed" \/ Conveyed(m, rows, F)
  <2>1. CASE t.entry[m].state \notin InDelivery \/ t.entry[m].delivery \notin Rounds
    BY <1>1, <1>4, <2>1 DEF Delivered
  <2>2. CASE t.entry[m].state \in InDelivery /\ t.entry[m].delivery \in Rounds
    <3>1. m \in Held(t.entry, t.entry[m].delivery)
      BY <2>2 DEF Held
    <3>2. Decision(t, t.entry[m].delivery) = "consumed" => Conveyed(m, rows, F)
      BY <2>2, <3>1, DecisionConveys
    <3> QED
      BY <1>1, <2>2, <3>2, Names DEF InDelivery
  <2> QED
    BY <2>1, <2>2
<1>6. ASSUME NEW m \in Messages, NEW k \in Messages,
             t.entry[m].delivery \in Rounds, t.entry[k].delivery = t.entry[m].delivery
      PROVE  e[k].delivery = e[m].delivery /\ e[k].state = e[m].state
  <2>1. t.entry[m].state \in InDelivery /\ t.entry[k].state \in InDelivery
    BY <1>6, Names DEF Bound
  <2> QED
    BY <1>1, <1>6, <2>1
<1> QED
  BY <1>2, <1>3, <1>5, <1>6 DEF Moves, e

LEMMA RetractFields ==
    ASSUME NEW t, batch \in Batches, Retract(t)
    PROVE  /\ batch' \in Batches
           /\ \A r \in Rounds :
                 /\ batch'[r].state = "staged" => batch'[r] = batch[r]
                 /\ batch[r].state = "absent" => batch'[r].state = "absent"
                 /\ Decision(t, r) = "none" => batch'[r] = batch[r]
<1>1. \A x \in [state : {"absent", "staged", "retracted"}, members : SUBSET Messages] :
         /\ Retracted(x) \in [state : {"absent", "staged", "retracted"},
                              members : SUBSET Messages]
         /\ Retracted(x).state # "staged"
         /\ x.state = "absent" => Retracted(x).state = "absent"
  BY DEF Retracted
<1>2. \A r \in Rounds :
         batch'[r] = IF r \in Pending(t) /\ Decision(t, r) = "retracted"
                     THEN Retracted(batch[r]) ELSE batch[r]
  BY DEF Retract
<1>3. batch' \in Batches
  BY <1>1 DEF Retract, Batches
<1>4. \A r \in Rounds :
         batch[r] \in [state : {"absent", "staged", "retracted"}, members : SUBSET Messages]
  BY DEF Batches
<1> QED
  BY <1>1, <1>2, <1>3, <1>4

LEMMA DecideIInv == ASSUME IInv, Decide PROVE IInv'
<1> DEFINE e == Decided(task, task.entry)
           L == {r \in Rounds : prepared[r] = "live"}
<1>1. /\ halt = "deciding" /\ halt' = "no" /\ Retract(task)
      /\ UNCHANGED <<saved, owed, composer, sender, answering, rows, prepared, final,
                     opened, reopened>>
  BY DEF Decide, counters
<1>2. /\ task \in TaskType /\ saved \in TaskType /\ Bound(task.entry)
      /\ batch \in Batches /\ Batched /\ opened \in Nat
      /\ Sound(task, opened, rows, batch, prepared, FixedRounds)
  BY Types DEF IInv
<1>3. /\ owed = "none" /\ composer = "off" /\ sender = "off"
      /\ task.compose.status = "running" => task.compose.admitted = {}
      /\ FixedRounds = L
  BY <1>1, AtRest
<1>4. task' = WithEntry(task, e)
  BY <1>2 DEF Decide, WithEntry, TaskType
<1> HIDE DEF e
<1>5. Moves(task, e, rows, FixedRounds)
  BY <1>2, <1>3, DecidedMoves DEF e
<1>6. Sound(task', opened, rows, batch, prepared, FixedRounds)
  BY <1>2, <1>4, <1>5, MovesSound
<1>7. /\ task' \in TaskType /\ task'.entry = e /\ task'.compose = task.compose
      /\ task'.provider = task.provider /\ task'.phase = task.phase
      /\ task'.turn = task.turn /\ Bound(e)
  BY <1>2, <1>4, <1>5, WithEntryFields DEF Moves
<1>8. /\ batch' \in Batches
      /\ \A r \in Rounds :
            /\ batch'[r].state = "staged" => batch'[r] = batch[r]
            /\ batch[r].state = "absent" => batch'[r].state = "absent"
            /\ Decision(task, r) = "none" => batch'[r] = batch[r]
  BY <1>1, <1>2, RetractFields
<1>9. FixedRounds' = FixedRounds
  BY <1>1, <1>3 DEF FixedRounds
<1>10. ASSUME NEW t \in TaskType, Sound(t, opened, rows, batch, prepared, FixedRounds)
       PROVE  Sound(t, opened, rows, batch', prepared, FixedRounds)
  <2>1. t.compose.receipt => prepared[t.compose.id] = "live"
    BY <1>10 DEF Sound, Journaled
  <2>2. /\ opened <= opened
        /\ \A r \in Rounds : prepared[r] = "live" =>
              prepared[r] = "live" /\ rows[r] \subseteq rows[r]
        /\ \A r \in FixedRounds : r \in FixedRounds /\ rows[r] \subseteq rows[r]
    BY <1>2
  <2> QED
    BY <1>2, <1>8, <1>10, <2>1, <2>2, JournalStep
<1>11. Typed'
  BY <1>1, <1>7, <1>8 DEF IInv, Typed, TypeOK, Bound, Batches
<1>12. Linked' /\ Lanes' /\ Composing' /\ Batched'
  BY <1>1, <1>3, <1>7, <1>8 DEF IInv, Linked, Lanes, Composing, Batched, Round
<1>13. \A m \in Messages :
          /\ e[m].editing => task.entry[m].editing
          /\ task.entry[m].state \notin InDelivery \/ task.entry[m].delivery \notin Rounds
                => e[m] = task.entry[m]
          /\ task.entry[m].state \in InDelivery /\ task.entry[m].delivery \in Rounds =>
                \/ /\ Decision(task, task.entry[m].delivery) = "none"
                   /\ e[m].state = "uncertain" /\ e[m].delivery = task.entry[m].delivery
                \/ e[m].delivery = NoDelivery
  BY <1>2, DecidedFields DEF e
<1>14. InFlight(task', rows, batch', FixedRounds, reopened)
  <2>1. ASSUME NEW m \in Messages, e[m].delivery \in Rounds
        PROVE  /\ Decision(task, e[m].delivery) = "none" /\ e[m].state = "uncertain"
               /\ m \in Held(task.entry, e[m].delivery)
    <3>1. task.entry[m].state \in InDelivery /\ task.entry[m].delivery = e[m].delivery
      BY <1>2, <1>5, <2>1, Names DEF Moves, Bound
    <3> QED
      BY <1>13, <2>1, <3>1, Names DEF Held
  <2>2. ASSUME NEW m \in Messages, e[m].delivery \in Rounds, reopened
        PROVE  /\ batch'[e[m].delivery].state # "absent"
               /\ \E k \in batch'[e[m].delivery].members : e[k].state = "removed"
    <3> DEFINE r == e[m].delivery
    <3>1. Decision(task, r) = "none" /\ m \in Held(task.entry, r) /\ batch'[r] = batch[r]
      BY <1>8, <2>1, <2>2
    <3>2. batch[r].state = "staged" /\ batch[r].members \in SUBSET Messages
      BY <1>2, <2>2, <3>1 DEF Decision, Batches
    <3>3. batch[r].members # Held(task.entry, r)
      <4>1. SUFFICES ASSUME batch[r].members = Held(task.entry, r) PROVE FALSE
        OBVIOUS
      <4>2. task.compose.id = r /\ task.provider.id \in final /\ ~task.compose.receipt
        BY <3>1, <3>2, <4>1 DEF Decision
      <4>3. task.provider.id # 0
        BY <4>2, Names DEF IInv, Typed, TypeOK
      <4>4. task.phase = "error"
        BY <1>1, <2>2, <4>3 DEF IInv, Lanes
      <4> QED
        BY <1>2, <2>2, <3>2, <4>2, <4>4 DEF Sound, ErrorClean
    <3>4. /\ Held(task.entry, r) \subseteq batch[r].members
          /\ HeldOrRemoved(task, batch[r].members, r)
      BY <1>2, <2>2, <3>1, <3>2 DEF Sound, Carried
    <3>5. PICK k \in batch[r].members : task.entry[k].state = "removed"
      BY <3>3, <3>4 DEF HeldOrRemoved
    <3>6. e[k].state = "removed"
      BY <1>5, <3>2, <3>5 DEF Moves
    <3> QED
      BY <3>1, <3>2, <3>5, <3>6
  <2> QED
    BY <1>7, <2>1, <2>2 DEF InFlight
<1>15. Editing'
  <2>1. \A m \in Messages : e[m].editing => e[m] = task.entry[m]
    BY <1>13 DEF IInv, Editing, Mutable, InDelivery
  <2> QED
    BY <1>1, <1>7, <1>13, <2>1 DEF IInv, Editing
<1> QED
  BY <1>1, <1>2, <1>6, <1>7, <1>9, <1>10, <1>11, <1>12, <1>14, <1>15 DEF IInv

-----------------------------------------------------------------------------
(* A crash: the owner opens the task from its last snapshot.                *)

\* An error keeps its flow; anything else keeps a round only if it was planned.
LEMMA HydrateSound ==
    ASSUME NEW t \in TaskType, Bound(t.entry), NEW n \in Nat, NEW w, NEW b, NEW p, NEW F,
           Sound(t, n, w, b, p, F), NEW v, v = [Hydrate(t) EXCEPT !.turn = "recovery"]
    PROVE  /\ v \in TaskType /\ v.entry = t.entry /\ v.turn = "recovery"
           /\ v.compose.status = "running" => v.compose.admitted = {}
           /\ v.phase = "error" \/ v.provider.id = 0
           /\ Sound(v, n, w, b, p, F)
<1>1. CASE t.phase = "error"
  <2>1. /\ v \in TaskType /\ v.entry = t.entry /\ v.feedback = t.feedback
        /\ v.compose = t.compose /\ v.provider = t.provider /\ v.phase = "error"
        /\ v.turn = "recovery"
    BY <1>1 DEF Hydrate, TaskType
  <2>2. ErrorClean(t, b)
    BY DEF Sound
  <2>3. v.compose.status = "running" => v.compose.admitted = {}
    BY <1>1, <2>1, <2>2 DEF ErrorClean
  <2>4. ErrorClean(v, b)
    BY <1>1, <2>1, <2>2 DEF ErrorClean
  <2>5. Sound(v, n, w, b, p, F)
    BY <2>1, <2>4, FlowSound
  <2> QED
    BY <2>1, <2>3, <2>5
<1>2. CASE t.phase # "error" /\ ~t.compose.planned
  <2>1. /\ v \in TaskType /\ v.entry = t.entry /\ v.feedback = t.feedback
        /\ v.compose = NoCompose /\ v.provider = NoProvider /\ v.phase = "paused"
        /\ v.turn = "recovery"
    BY <1>2 DEF Hydrate, TaskType, NoCompose, NoProvider, Statuses
  <2>2. /\ v.compose.id = 0 /\ v.compose.status = "none" /\ v.compose.admitted = {}
        /\ ~v.compose.planned /\ v.compose.plan = {} /\ ~v.compose.draft
        /\ ~v.compose.receipt /\ v.provider.id = 0
    BY <2>1 DEF NoCompose, NoProvider
  <2>3. Known(v, n) /\ Shaped(v)
    BY <2>1, <2>2 DEF Sound, Known, Shaped
  <2>4. Delivered(v)
    BY <2>1, <2>2 DEF Sound, Delivered
  <2>5. Carried(v, b)
    <3>1. Held(t.entry, 0) = {}
      BY Names DEF Bound, Held
    <3> QED
      BY <2>1, <2>2, <3>1 DEF Sound, Carried, HeldOrRemoved
  <2>6. Answers(v) /\ Journaled(v, w, b, p) /\ ErrorClean(v, b) /\ Kept(v, w, F)
    BY <2>1, <2>2, Names DEF Sound, Answers, Journaled, ErrorClean, Kept
  <2> QED
    BY <2>1, <2>2, <2>3, <2>4, <2>5, <2>6 DEF Sound
<1>3. CASE t.phase # "error" /\ t.compose.planned
  <2> DEFINE s == IF t.compose.status = "running" THEN "cancelled" ELSE t.compose.status
  <2>1. /\ v \in TaskType /\ v.entry = t.entry /\ v.feedback = t.feedback
        /\ v.compose.id = t.compose.id /\ v.compose.status = s
        /\ v.compose.admitted = t.compose.admitted
        /\ v.compose.planned /\ v.compose.plan = t.compose.plan
        /\ v.compose.draft = t.compose.draft /\ v.compose.receipt = t.compose.receipt
        /\ v.provider.id = 0 /\ v.phase = "paused" /\ v.turn = "recovery"
    BY <1>3 DEF Hydrate, TaskType, NoProvider, Statuses
  <2>2. Known(v, n) /\ Shaped(v)
    BY <2>1, <1>3, TaskFields DEF Sound, Known, Shaped
  <2>3. Delivered(v) /\ Carried(v, b)
    BY <2>1 DEF Sound, Delivered, Carried, HeldOrRemoved
  <2>4. Answers(v) /\ Journaled(v, w, b, p) /\ ErrorClean(v, b) /\ Kept(v, w, F)
    BY <2>1, <1>3 DEF Sound, Answers, Journaled, ErrorClean, Kept
  <2> QED
    BY <2>1, <2>2, <2>3, <2>4 DEF Sound
<1> QED
  BY <1>1, <1>2, <1>3

\* The process is gone and with it the turn-end reservations.
LEMMA NormalizedFields ==
    ASSUME NEW e \in Entries, NEW m \in Messages, NEW x, x = Normalized(e)[m]
    PROVE  /\ x \in Entry /\ x.editing = e[m].editing
           /\ \/ x = e[m]
              \/ /\ e[m].state = "reserved" /\ e[m].delivery = TurnEnd
                 /\ x.state = "released" /\ x.delivery = NoDelivery
<1>1. e[m] \in Entry
  BY DEF Entries
<1>2. ASSUME NEW z, z = [e[m] EXCEPT !.state = "released", !.delivery = NoDelivery]
      PROVE  z \in Entry /\ z.editing = e[m].editing /\ z.state = "released"
             /\ z.delivery = NoDelivery
  BY <1>1, <1>2 DEF Entry
<1>3. CASE e[m].state = "reserved" /\ e[m].delivery = TurnEnd
  <2>1. x = [e[m] EXCEPT !.state = "released", !.delivery = NoDelivery]
    BY <1>3 DEF Normalized
  <2> QED
    BY <1>2, <1>3, <2>1
<1>4. CASE ~(e[m].state = "reserved" /\ e[m].delivery = TurnEnd)
  BY <1>1, <1>4 DEF Normalized
<1> QED
  BY <1>3, <1>4

LEMMA CrashIInv == ASSUME IInv, Crash PROVE IInv'
<1> DEFINE L == {r \in Rounds : prepared[r] = "live"}
           v == [Hydrate(saved) EXCEPT !.turn = "recovery"]
           d == Decided(saved, saved.entry)
           e == Normalized(d)
           u == WithEntry(v, d)
<1>1. /\ owed' = "none" /\ composer' = "off" /\ sender' = "off"
      /\ answering' = [at |-> "off", members |-> {}] /\ halt' = "settling"
      /\ reopened' = TRUE /\ Retract(saved)
      /\ task' = [Hydrate(saved) EXCEPT !.entry = e, !.turn = "recovery"]
      /\ UNCHANGED <<saved, rows, prepared, final, opened>>
  BY DEF Crash
<1>2. /\ saved \in TaskType /\ Bound(saved.entry) /\ batch \in Batches /\ Batched
      /\ opened \in Nat
      /\ Sound(saved, opened, rows, batch, prepared, FixedRounds)
  BY Types DEF IInv
<1>3. FixedRounds' = L /\ \A r \in FixedRounds : r \in L
  BY <1>1 DEF FixedRounds
<1>4. /\ batch' \in Batches
      /\ \A r \in Rounds :
            /\ batch'[r].state = "staged" => batch'[r] = batch[r]
            /\ batch[r].state = "absent" => batch'[r].state = "absent"
  BY <1>1, <1>2, RetractFields
<1>5. ASSUME NEW t \in TaskType, NEW b2, NEW F,
             Sound(t, opened, rows, batch, prepared, F),
             \A r \in F : r \in L,
             \A r \in Rounds : b2[r].state = "staged" => b2[r] = batch[r]
      PROVE  Sound(t, opened, rows, b2, prepared, L)
  <2>1. t.compose.receipt => prepared[t.compose.id] = "live"
    BY <1>5 DEF Sound, Journaled
  <2>2. /\ opened <= opened
        /\ \A r \in Rounds : prepared[r] = "live" =>
              prepared[r] = "live" /\ rows[r] \subseteq rows[r]
        /\ \A r \in F : r \in L /\ rows[r] \subseteq rows[r]
    BY <1>2, <1>5
  <2> HIDE DEF L
  <2> QED
    BY <1>2, <1>5, <2>1, <2>2, JournalStep
<1>6. Sound(saved, opened, rows, batch, prepared, L)
  BY <1>2, <1>3, <1>5
<1>7. /\ v \in TaskType /\ v.entry = saved.entry /\ v.turn = "recovery"
      /\ v.compose.status = "running" => v.compose.admitted = {}
      /\ v.phase = "error" \/ v.provider.id = 0
      /\ Sound(v, opened, rows, batch, prepared, L)
  BY <1>2, <1>6, HydrateSound
<1>8. \A q \in Rounds : prepared[q] = "live" => q \in L
  OBVIOUS
<1> HIDE DEF L, v, d
<1>9. Moves(v, d, rows, L)
  BY <1>2, <1>6, <1>7, <1>8, DecidedMoves DEF d
<1>10. /\ u \in TaskType /\ u.entry = d /\ u.compose = v.compose /\ Bound(d)
       /\ u.provider = v.provider /\ u.phase = v.phase /\ u.turn = v.turn
  BY <1>7, <1>9, WithEntryFields DEF Moves
<1>11. Sound(u, opened, rows, batch, prepared, L)
  BY <1>2, <1>7, <1>9, MovesSound
<1> HIDE DEF u
<1>12. \A m \in Messages :
          /\ e[m] \in Entry /\ e[m].editing = d[m].editing
          /\ \/ e[m] = d[m]
             \/ /\ d[m].state = "reserved" /\ d[m].delivery = TurnEnd
                /\ e[m].state = "released" /\ e[m].delivery = NoDelivery
  BY <1>9, NormalizedFields DEF Moves
<1>13. e \in Entries
  <2>1. e = [m \in Messages |-> e[m]]
    BY DEF Normalized
  <2> HIDE DEF e
  <2> QED
    BY <1>12, <2>1 DEF Entries
<1> HIDE DEF e
<1>14. Bound(e)
  BY <1>10, <1>12 DEF Bound, InDelivery
<1>15. Moves(u, e, rows, L)
  <2>1. Loose(u, e)
    BY <1>10, <1>12, <1>13, <1>14, Names DEF Loose
  <2> QED
    BY <1>10, <1>11, <2>1, LooseMoves DEF Sound
<1>16. task' = WithEntry(u, e)
  <2>1. Hydrate(saved) = [Hydrate(saved) EXCEPT !.turn = Hydrate(saved).turn]
    BY <1>2 DEF Hydrate, TaskType
  <2> QED
    BY <1>1, <1>2, <2>1 DEF WithEntry, u, v, Hydrate, TaskType
<1>17. /\ task' \in TaskType /\ task'.entry = e /\ task'.compose = v.compose
       /\ task'.provider = v.provider /\ task'.phase = v.phase /\ task'.turn = v.turn
  BY <1>10, <1>13, <1>16, WithEntryFields
<1>18. Sound(task', opened, rows, batch', prepared, L)
  <2>1. Sound(task', opened, rows, batch, prepared, L)
    BY <1>2, <1>10, <1>11, <1>15, <1>16, MovesSound
  <2>2. \A r \in L : r \in L
    OBVIOUS
  <2> QED
    BY <1>4, <1>5, <1>17, <2>1, <2>2
<1>19. Sound(saved, opened, rows, batch', prepared, L)
  BY <1>2, <1>3, <1>4, <1>5
<1>20. Typed'
  BY <1>1, <1>4, <1>14, <1>17 DEF IInv, Typed, TypeOK, Bound, Batches
<1>21. Linked' /\ Lanes'
  BY <1>1, <1>7, <1>17 DEF Linked, Lanes, Round
<1>22. Composing'
  BY <1>1, <1>4 DEF IInv, Composing
<1>23. Batched'
  BY <1>1, <1>4 DEF IInv, Batched
<1>24. Editing'
  <2>1. \A m \in Messages : ~saved.entry[m].editing
    BY DEF IInv, Editing
  <2>2. \A m \in Messages : d[m].editing => saved.entry[m].editing
    BY <1>2, DecidedFields DEF d
  <2> QED
    BY <1>1, <1>12, <1>17, <2>1, <2>2 DEF Editing
<1> QED
  BY <1>1, <1>3, <1>18, <1>19, <1>20, <1>21, <1>22, <1>23, <1>24 DEF IInv

LEMMA NextIInv == ASSUME IInv, [Next]_vars PROVE IInv'
<1>1. CASE UNCHANGED vars
  BY <1>1 DEF vars, journal, counters, IInv, Typed, TypeOK, FixedRounds, Linked, Lanes,
              Composing, Batched, Editing, Round
<1>2. CASE Next
  BY <1>2, SaveIInv, QueueIInv, AppendRowIInv, SubmitIInv, RetryIInv, TurnEndIInv,
     RespondIInv, AnswerByHandIInv, TakeIInv, FreezeIInv, StageIInv, PrepareIInv,
     CompleteRoundIInv, EndRoundIInv, ExecutorIInv, TurnReadyIInv, FailRequestIInv,
     CancelIInv, HaltDoneIInv, ReconcileIInv, DecideIInv, CrashIInv DEF Next
<1> QED
  BY <1>1, <1>2

\* The invariant of the queue.
THEOREM Invariance == Spec => []IInv
  BY InitIInv, NextIInv, PTL DEF Spec

-----------------------------------------------------------------------------
(* What it carries.                                                         *)

(* Every variable stays in its domain, and an entry names a delivery exactly *)
(* while one holds it.                                                       *)
THEOREM TypeCorrect == Spec => []TypeOK
<1>1. IInv => TypeOK
  BY DEF IInv, Typed
<1> QED
  BY <1>1, Invariance, PTL

(* A message the queue calls consumed is in the conversation or waits as an  *)
(* answer, whatever cancels, failures and crashes went before (intake.ts,    *)
(* round-material.ts, settleRetainedQueueDeliveries).                        *)
THEOREM NothingDisappears == Spec => []NothingLost
<1>1. IInv => NothingLost
  BY DEF IInv, Sound, Kept, Conveyed, NothingLost, LiveIn, FixedRounds
<1> QED
  BY <1>1, Invariance, PTL

(* A message a tool round holds belongs to a round in flight: reserved while *)
(* that round is composed, and from then on included with its row in the     *)
(* conversation (intake.ts, "turn_ready").                                   *)
THEOREM HeldByItsRound == Spec => []HeldByTheRound
<1> SUFFICES ASSUME IInv PROVE HeldByTheRound
  BY Invariance, PTL
<1> SUFFICES ASSUME NEW m \in Messages, halt = "no", task.entry[m].delivery \in Rounds
             PROVE  LET e == task.entry[m] IN
                    /\ e.state = "reserved" => /\ e.delivery = Round
                                               /\ m \in task.compose.admitted
                                               /\ task.compose.status = "running"
                    /\ e.state = "included" => /\ e.delivery <= task.provider.id
                                               /\ m \in rows[e.delivery]
                                               /\ task.provider.status \in {"running", "failed"}
  BY DEF HeldByTheRound
<1>1. InFlight(task, rows, batch, FixedRounds, reopened)
  BY DEF IInv
<1>2. ASSUME task.entry[m].state = "reserved"
      PROVE  /\ task.entry[m].delivery = Round /\ task.compose.status = "running"
             /\ m \in task.compose.admitted
  <2>1. task.entry[m].delivery = task.compose.id /\ task.compose.status = "running"
    BY <1>1, <1>2 DEF InFlight
  <2>2. m \in Held(task.entry, task.compose.id)
    BY <1>2, <2>1 DEF Held, InDelivery
  <2> QED
    BY <2>1, <2>2 DEF IInv, Sound, Carried, Round
<1> QED
  BY <1>1, <1>2 DEF InFlight

(* A message the user is editing is out of reach of every delivery, answer   *)
(* and round being composed (isDeliverableRetainedEntry).                    *)
THEOREM EditedIsOutOfReach == Spec => []EditedIsHeldBack
<1> SUFFICES ASSUME IInv PROVE EditedIsHeldBack
  BY Invariance, PTL
<1> SUFFICES ASSUME NEW m \in Messages, task.entry[m].editing
             PROVE  /\ Mutable(task.entry[m]) /\ m \notin task.feedback
                    /\ task.compose.status = "running" =>
                          m \notin task.compose.admitted \cup task.compose.plan
  BY DEF EditedIsHeldBack
<1>1. Mutable(task.entry[m])
  BY DEF IInv, Editing
<1>2. task.entry[m].state \notin {"consumed", "removed"} \cup InDelivery
  BY <1>1 DEF Mutable, InDelivery
<1>3. m \notin task.feedback
  BY <1>2 DEF IInv, Sound, Answers
<1>4. ASSUME task.compose.status = "running"
      PROVE  m \notin task.compose.admitted \cup task.compose.plan
  BY <1>2, <1>4 DEF IInv, Sound, Carried, HeldOrRemoved, Held
<1> QED
  BY <1>1, <1>3, <1>4

(* Once the owner has opened a task, every delivery the crash interrupted is *)
(* decided, unless a message of its batch was removed meanwhile              *)
(* (TaskShellFactory.ts: inspectQueueSettlements, settle).                   *)
THEOREM OpeningSettles == Spec => []OpeningDecides
<1> SUFFICES ASSUME IInv PROVE OpeningDecides
  BY Invariance, PTL
<1> SUFFICES ASSUME NEW m \in Messages, halt = "no", reopened,
                    task.entry[m].state = "uncertain"
             PROVE  ~Complete(batch[task.entry[m].delivery].members)
  BY DEF OpeningDecides
<1>1. task.entry[m].delivery \in Rounds
  <2>1. /\ task.entry[m].delivery \in {NoDelivery, TurnEnd} \cup Rounds
        /\ task.entry[m].delivery # NoDelivery
    BY Types, TaskFields DEF IInv, Entries, Entry, Bound, InDelivery
  <2>2. task.entry[m].delivery # TurnEnd
    BY DEF IInv, Sound, Delivered
  <2> QED
    BY <2>1, <2>2
<1>2. InFlight(task, rows, batch, FixedRounds, reopened)
  BY DEF IInv
<1> QED
  BY <1>1, <1>2 DEF InFlight, Complete

-----------------------------------------------------------------------------
(* A message is sent once, unless a request that failed still held it when  *)
(* a later round was opened.  Beside IInv the proof needs to know which     *)
(* round a live row can belong to; Once says it of the messages of M, and   *)
(* is kept as long as none of them is left over.                            *)

Waiting(t, m) == Mutable(t.entry[m]) \/ m \in t.feedback

\* A removal has made the batch of round r undecidable.
Stuck(t, b, r) ==
    b[r].state = "staged" /\ \E k \in b[r].members : t.entry[k].state = "removed"

\* The round whose batch a settlement finds in the conversation.
Backed(t, f, r) ==
    /\ r = t.compose.id
    /\ t.compose.planned \/ r \in f
    /\ r \in f => t.provider.id = r /\ t.compose.receipt

\* What has a row and is yet to be sent belongs to a round given up with its plan.
PlacedWaiting(M, t, w, p) ==
    \A m \in M, r \in Rounds : m \in w[r] =>
        /\ t.entry[m].state # "none"
        /\ Waiting(t, m) =>
              /\ r = t.compose.id /\ t.compose.planned /\ m \in t.compose.plan
              /\ ~t.compose.draft
              /\ Mutable(t.entry[m]) => p[r] # "live"

\* What has a row and is held is held by the round of that row.
PlacedHeld(M, t, w, b, p, f) ==
    \A m \in M, r \in Rounds : m \in w[r] /\ t.entry[m].delivery # NoDelivery =>
        /\ t.entry[m].delivery = r
        /\ Backed(t, f, r) \/ (p[r] = "live" /\ Stuck(t, b, r))
        /\ p[r] = "live" => b[r].state = "staged"

\* A round with a result or a request has a draft.
PlacedDraft(t, f) ==
    t.compose.planned /\ (t.compose.id \in f \/ t.provider.id = t.compose.id)
        => t.compose.draft

Placed(M, t, w, b, p, f) ==
    PlacedWaiting(M, t, w, p) /\ PlacedHeld(M, t, w, b, p, f) /\ PlacedDraft(t, f)

OneRow(M) == \A m \in M, r, s \in Rounds : m \in rows[r] /\ m \in rows[s] => r = s

\* Disk and journal against the round in memory.
Abreast ==
    /\ Round = 0 \/ saved.compose.id <= Round
    /\ sender # "off" => saved.compose.id = Round /\ saved.provider.id = Round
    /\ owed = "compose" \/ composer # "off" => Round \notin final
    /\ \A r \in final : r <= opened

\* Nothing of a plan being written has a row elsewhere.
PlanIsClear(M) ==
    composer = "frozen" =>
        \A m \in task.compose.plan \cap M, r \in Rounds : m \in rows[r] => r = Round

Stopping == {"called", "stopping", "settling"}

\* A message with a row waits only while its round is stopped, or composed.
WaitingIsClear(M) ==
    \A m \in M, r \in Rounds : m \in rows[r] /\ Waiting(task, m) =>
        /\ Mutable(task.entry[m]) => halt = "settling"
        /\ composer # "off" \/ halt \in Stopping

\* What settlement left undecided.
Undecided(M) ==
    /\ halt = "no" => \A m \in M : task.entry[m].state = "uncertain" =>
          /\ \A r \in Rounds : m \in rows[r] => Stuck(task, batch, r) /\ prepared[r] = "live"
          /\ task.compose.status = "running" => task.entry[m].delivery # Round
    /\ halt = "deciding" /\ task.compose.planned => prepared[Round] = "live"

Once(M) ==
    /\ Placed(M, task, rows, batch, prepared, final)
    /\ Placed(M, saved, rows, batch, prepared, final)
    /\ OneRow(M) /\ Abreast /\ PlanIsClear(M) /\ WaitingIsClear(M) /\ Undecided(M)

LEMMA InitOnce == ASSUME NEW M \in SUBSET Messages, Init PROVE Once(M)
<1>1. /\ task.entry = [m \in Messages |-> NoEntry] /\ task.feedback = {}
      /\ task.compose = NoCompose /\ saved = task
      /\ \A r \in Rounds : rows[r] = {}
      /\ final = {} /\ composer = "off" /\ owed = "none" /\ sender = "off" /\ halt = "no"
  BY DEF Init
<1>2. ~task.compose.planned /\ task.compose.id = 0 /\ task.compose.status = "none"
  BY <1>1 DEF NoCompose
<1>3. Placed(M, task, rows, batch, prepared, final)
  BY <1>1, <1>2 DEF Placed, PlacedWaiting, PlacedHeld, PlacedDraft
<1>4. OneRow(M) /\ Abreast /\ PlanIsClear(M) /\ WaitingIsClear(M)
  BY <1>1, <1>2 DEF OneRow, Abreast, PlanIsClear, WaitingIsClear, Round
<1>5. Undecided(M)
  BY <1>1, <1>2 DEF Undecided, NoEntry
<1> QED
  BY <1>1, <1>3, <1>4, <1>5 DEF Once

\* State u and journal w2, b2, p2 come after t and w, b, p: rows only go, what is
\* left in the journal is as it was, and no message with a row is taken or given up.
Follows(M, t, u, w, w2, b, b2, p, p2) ==
    /\ \A m \in M, r \in Rounds : m \in w2[r] =>
          /\ m \in w[r] /\ p2[r] = p[r] /\ (b[r].state = "staged" => b2[r] = b[r])
          /\ u.entry[m].state = "none" => t.entry[m].state = "none"
          /\ Waiting(u, m) => Waiting(t, m)
          /\ Mutable(u.entry[m]) => Mutable(t.entry[m])
          /\ u.entry[m].delivery # NoDelivery => u.entry[m].delivery = t.entry[m].delivery
    /\ \A m \in Messages : t.entry[m].state = "removed" => u.entry[m].state = "removed"
    /\ u.compose.id = t.compose.id /\ u.compose.planned = t.compose.planned
    /\ u.compose.plan = t.compose.plan /\ u.compose.draft = t.compose.draft
    /\ u.compose.receipt = t.compose.receipt /\ u.provider.id = t.provider.id

LEMMA FollowsPlaced ==
    ASSUME NEW M \in SUBSET Messages, NEW t, NEW u, NEW w, NEW w2, NEW b \in Batches, NEW b2,
           NEW p, NEW p2, NEW f,
           Placed(M, t, w, b, p, f), Follows(M, t, u, w, w2, b, b2, p, p2)
    PROVE  Placed(M, u, w2, b2, p2, f)
<1>1. PlacedWaiting(M, u, w2, p2)
  BY DEF Follows, Placed, PlacedWaiting
<1>2. ASSUME NEW m \in M, NEW r \in Rounds, m \in w2[r],
             u.entry[m].delivery # NoDelivery
      PROVE  /\ u.entry[m].delivery = r
             /\ Backed(u, f, r) \/ (p2[r] = "live" /\ Stuck(u, b2, r))
             /\ p2[r] = "live" => b2[r].state = "staged"
  <2>1. /\ m \in w[r] /\ p2[r] = p[r] /\ (b[r].state = "staged" => b2[r] = b[r])
        /\ t.entry[m].delivery # NoDelivery /\ u.entry[m].delivery = t.entry[m].delivery
    BY <1>2 DEF Follows
  <2>2. /\ t.entry[m].delivery = r
        /\ Backed(t, f, r) \/ (p[r] = "live" /\ Stuck(t, b, r))
        /\ p[r] = "live" => b[r].state = "staged"
    BY <2>1 DEF Placed, PlacedHeld
  <2>3. Backed(t, f, r) => Backed(u, f, r)
    BY DEF Backed, Follows
  <2>4. b[r].members \in SUBSET Messages
    BY DEF Batches
  <2>5. Stuck(t, b, r) => Stuck(u, b2, r)
    BY <2>1, <2>4 DEF Stuck, Follows
  <2> QED
    BY <2>1, <2>2, <2>3, <2>5
<1>3. PlacedHeld(M, u, w2, b2, p2, f)
  BY <1>2 DEF PlacedHeld
<1>4. PlacedDraft(u, f)
  BY DEF Follows, Placed, PlacedDraft
<1> QED
  BY <1>1, <1>3, <1>4 DEF Placed

\* A step after which nobody new is at work.
LEMMA RestStep ==
    ASSUME NEW M \in SUBSET Messages, Typed, Once(M), Follows(M, task, task', rows, rows', batch,
           batch', prepared, prepared'),
           UNCHANGED <<saved, final, opened>>,
           sender' # "off" => sender # "off",
           owed' = "compose" \/ composer' # "off" => owed = "compose" \/ composer # "off",
           composer' = "frozen" => composer = "frozen",
           halt = "settling" => halt' = "settling",
           halt \in Stopping => halt' \in Stopping,
           \/ composer # "off" => composer' # "off"
           \/ halt' \in Stopping
           \/ rows'[Round] = {},
           halt' = "no" => halt = "no",
           halt' = "no" => \A m \in Messages : task'.entry[m].state = "uncertain" =>
              task.entry[m].state = "uncertain"
              /\ task'.entry[m].delivery = task.entry[m].delivery,
           task'.compose.status = "running" => task.compose.status = "running",
           halt' = "deciding" => halt = "deciding" /\ prepared' = prepared,
           Placed(M, saved, rows', batch', prepared', final)
    PROVE  Once(M)'
<1>1. batch \in Batches
  BY Types
<1>2. Placed(M, task', rows', batch', prepared', final)
  BY <1>1, FollowsPlaced DEF Once
<1>3. task'.compose.id = task.compose.id /\ task'.compose.plan = task.compose.plan
      /\ task'.compose.planned = task.compose.planned
      /\ task'.provider.id = task.provider.id
  BY DEF Follows
<1>4. OneRow(M)'
  BY DEF Follows, Once, OneRow
<1>5. Abreast'
  BY <1>3 DEF Once, Abreast, Round
<1>6. \A r \in Rounds, m \in M : m \in rows'[r] => m \in rows[r]
  BY DEF Follows
<1>7. task.compose.plan \in SUBSET Messages
  BY Types, TaskFields
<1>8. PlanIsClear(M)'
  BY <1>3, <1>6, <1>7 DEF Once, PlanIsClear, Round
<1>9. ASSUME NEW m \in M, NEW r \in Rounds, m \in rows'[r], Waiting(task', m)
      PROVE  /\ Mutable(task'.entry[m]) => halt' = "settling"
             /\ composer' # "off" \/ halt' \in Stopping
  <2>1. m \in rows[r] /\ Waiting(task, m)
        /\ (Mutable(task'.entry[m]) => Mutable(task.entry[m]))
    BY <1>9 DEF Follows
  <2>2. /\ Mutable(task.entry[m]) => halt = "settling"
        /\ composer # "off" \/ halt \in Stopping
    BY <2>1 DEF Once, WaitingIsClear
  <2>3. r = Round
    BY <2>1 DEF Once, Placed, PlacedWaiting, Round
  <2> QED
    BY <1>9, <2>1, <2>2, <2>3
<1>10. WaitingIsClear(M)'
  BY <1>9 DEF WaitingIsClear
<1>11. ASSUME halt' = "no", NEW m \in M, task'.entry[m].state = "uncertain"
       PROVE  /\ \A r \in Rounds : m \in rows'[r] =>
                    Stuck(task', batch', r) /\ prepared'[r] = "live"
              /\ task'.compose.status = "running" => task'.entry[m].delivery # Round'
  <2>1. /\ halt = "no" /\ task.entry[m].state = "uncertain"
        /\ task'.entry[m].delivery = task.entry[m].delivery
    BY <1>11
  <2>2. ASSUME NEW r \in Rounds, m \in rows'[r]
        PROVE  Stuck(task', batch', r) /\ prepared'[r] = "live"
    <3>1. /\ m \in rows[r] /\ prepared'[r] = prepared[r]
          /\ batch[r].state = "staged" => batch'[r] = batch[r]
      BY <2>2 DEF Follows
    <3>2. Stuck(task, batch, r) /\ prepared[r] = "live"
      BY <2>1, <3>1 DEF Once, Undecided
    <3>3. batch[r].members \in SUBSET Messages
      BY <1>1 DEF Batches
    <3> QED
      BY <3>1, <3>2, <3>3 DEF Stuck, Follows
  <2>3. task.compose.status = "running" => task.entry[m].delivery # Round
    BY <2>1 DEF Once, Undecided
  <2> QED
    BY <1>3, <2>1, <2>2, <2>3 DEF Round
<1>12. Undecided(M)'
  BY <1>3, <1>11 DEF Undecided, Once, Round
<1> QED
  BY <1>2, <1>4, <1>5, <1>8, <1>10, <1>12 DEF Once

\* A step that leaves the journal alone and moves messages only.
LEMMA EntryOnce ==
    ASSUME NEW M \in SUBSET Messages, Typed, Once(M),
           UNCHANGED <<saved, owed, composer, sender, rows, batch, prepared, final, opened>>,
           halt' = halt \/ (halt = "no" /\ halt' = "called"),
           task'.compose = task.compose, task'.provider.id = task.provider.id,
           \A m \in Messages :
              /\ task.entry[m].state = "removed" => task'.entry[m].state = "removed"
              /\ halt' = "no" /\ task'.entry[m].state = "uncertain" =>
                    task.entry[m].state = "uncertain"
                    /\ task'.entry[m].delivery = task.entry[m].delivery,
           \A m \in M, r \in Rounds : m \in rows[r] =>
              /\ task'.entry[m].state = "none" => task.entry[m].state = "none"
              /\ Waiting(task', m) => Waiting(task, m)
              /\ Mutable(task'.entry[m]) => Mutable(task.entry[m])
              /\ task'.entry[m].delivery # NoDelivery =>
                    task'.entry[m].delivery = task.entry[m].delivery
    PROVE  Once(M)'
<1>1. Follows(M, task, task', rows, rows', batch, batch', prepared, prepared')
  BY DEF Follows
<1>2. Placed(M, saved, rows', batch', prepared', final)
  BY DEF Once
<1> QED
  BY <1>1, <1>2, RestStep DEF Stopping

LEMMA QueueOnce ==
    ASSUME NEW M \in SUBSET Messages, Typed, Once(M), NEW m \in Messages,
           Enqueue(m) \/ Toggle(m) \/ StartEdit(m) \/ EndEdit(m) \/ Remove(m)
    PROVE  Once(M)'
<1>1. task \in TaskType /\ task.entry \in Entries /\ task.entry[m] \in Entry
  BY Types, TaskFields DEF Entries
<1>2. ASSUME NEW x, Alter(m, x),
             UNCHANGED <<saved, owed, halt, composer, sender, rows, batch, prepared, final, opened>>,
             x.delivery = NoDelivery \/ x.delivery = task.entry[m].delivery,
             x.state # "none" /\ x.state # "uncertain", task.entry[m].state # "removed",
             task.entry[m].state # "none" => (Mutable(x) => Mutable(task.entry[m]))
      PROVE  Once(M)'
    <2> DEFINE e == [task.entry EXCEPT ![m] = x]
    <2>1. /\ task'.entry = e /\ task'.feedback = task.feedback
          /\ task'.compose = task.compose /\ task'.provider = task.provider
      BY <1>1, <1>2 DEF Alter, TaskType
    <2>2. e[m] = x /\ \A k \in Messages : k # m => e[k] = task.entry[k]
      BY <1>1 DEF Entries
    <2> HIDE DEF e
    <2>3. ASSUME NEW k \in M, NEW r \in Rounds, k \in rows[r]
          PROVE  /\ e[k].state = "none" => task.entry[k].state = "none"
                 /\ Waiting(task', k) => Waiting(task, k)
                 /\ Mutable(e[k]) => Mutable(task.entry[k])
                 /\ e[k].delivery # NoDelivery => e[k].delivery = task.entry[k].delivery
      <3>1. task.entry[k].state # "none"
        BY <2>3 DEF Once, Placed, PlacedWaiting
      <3> QED
        BY <1>2, <2>1, <2>2, <3>1 DEF Waiting
    <2>4. \A k \in Messages :
            /\ task.entry[k].state = "removed" => e[k].state = "removed"
            /\ e[k].state = "uncertain" => task.entry[k].state = "uncertain"
                                           /\ e[k].delivery = task.entry[k].delivery
      BY <1>2, <2>2
    <2> QED
      BY <1>2, <2>1, <2>3, <2>4, EntryOnce
<1>3. UNCHANGED <<saved, owed, halt, composer, sender, rows, batch, prepared, final, opened>>
  BY DEF Enqueue, Toggle, StartEdit, EndEdit, Remove, OnlyTask, journal, counters
<1>4. CASE Enqueue(m)
  <2>1. PICK steering \in BOOLEAN :
           Alter(m, [NoEntry EXCEPT !.state = "accepted", !.steering = steering])
    BY <1>4 DEF Enqueue
  <2>2. PICK x : x = [NoEntry EXCEPT !.state = "accepted", !.steering = steering]
    OBVIOUS
  <2>3. x.state = "accepted" /\ x.delivery = NoDelivery
    BY <2>2 DEF NoEntry
  <2> QED
    BY <1>2, <1>3, <1>4, <2>1, <2>2, <2>3 DEF Enqueue
<1>5. CASE Toggle(m) \/ StartEdit(m) \/ EndEdit(m)
  <2>1. PICK x : Alter(m, x) /\ x.state = task.entry[m].state
                 /\ x.delivery = task.entry[m].delivery
    <3>1. CASE Toggle(m)
      <4>1. PICK x : x = [task.entry[m] EXCEPT !.steering = ~@]
        OBVIOUS
      <4> QED
        BY <1>1, <3>1, <4>1 DEF Toggle, Entry
    <3>2. CASE StartEdit(m)
      <4>1. PICK x : x = [task.entry[m] EXCEPT !.editing = TRUE]
        OBVIOUS
      <4> QED
        BY <1>1, <3>2, <4>1 DEF StartEdit, Entry
    <3>3. CASE EndEdit(m)
      <4>1. PICK x : x = [task.entry[m] EXCEPT !.editing = FALSE]
        OBVIOUS
      <4> QED
        BY <1>1, <3>3, <4>1 DEF EndEdit, Entry
    <3> QED
      BY <1>5, <3>1, <3>2, <3>3
  <2>2. Mutable(task.entry[m])
    BY <1>5 DEF Toggle, StartEdit, EndEdit
  <2> QED
    BY <1>2, <1>3, <2>1, <2>2 DEF Mutable
<1>6. CASE Remove(m)
  <2>1. PICK x : x = [NoEntry EXCEPT !.state = "removed"]
    OBVIOUS
  <2>2. x.state = "removed" /\ x.delivery = NoDelivery
    BY <2>1 DEF NoEntry
  <2>3. Alter(m, x) /\ task.entry[m].state # "removed"
    BY <1>6, <2>1 DEF Remove, Mutable, InDelivery
  <2> QED
    BY <1>2, <1>3, <2>2, <2>3 DEF Mutable
<1> QED
  BY <1>4, <1>5, <1>6

\* What answers a question, or was reserved for one, has no row.
LEMMA AnswerIsClear ==
    ASSUME NEW M \in SUBSET Messages, Typed, Once(M), NEW m \in M, NEW r \in Rounds, m \in rows[r]
    PROVE  /\ task.entry[m].delivery # TurnEnd /\ m \notin Held(task.entry, TurnEnd)
           /\ halt # "settling" => ~Mutable(task.entry[m])
<1>1. TurnEnd # NoDelivery /\ TurnEnd # r
  BY Names
<1>2. task.entry[m].delivery # NoDelivery => task.entry[m].delivery = r
  BY DEF Once, Placed, PlacedHeld
<1>3. halt # "settling" => ~Mutable(task.entry[m])
  BY DEF Once, WaitingIsClear, Waiting
<1> QED
  BY <1>1, <1>2, <1>3 DEF Held

LEMMA TurnEndOnce ==
    ASSUME NEW M \in SUBSET Messages, Typed, Once(M),
           ReserveTurnEnd \/ Materialize \/ GiveBack \/ Respond \/ AnswerByHand
    PROVE  Once(M)'
<1>1. task \in TaskType /\ task.entry \in Entries
  BY Types, TaskFields
<1>2. \A m \in Messages : task.entry[m] \in Entry
  BY <1>1 DEF Entries
<1>3. UNCHANGED <<saved, owed, halt, composer, sender, rows, batch, prepared, final, opened>>
  BY DEF ReserveTurnEnd, Materialize, GiveBack, Respond, AnswerByHand, OnlyTask, journal,
         counters
<1>4. CASE UNCHANGED <<task.entry, task.feedback, task.compose, task.provider>>
  <2>1. \A m \in Messages : Waiting(task', m) => Waiting(task, m)
    BY <1>4 DEF Waiting
  <2> QED
    BY <1>3, <1>4, <2>1, EntryOnce
<1>5. CASE Materialize \/ AnswerByHand \/ (GiveBack /\ task' = task)
  BY <1>1, <1>4, <1>5 DEF Materialize, AnswerByHand, TaskType
<1>6. CASE ReserveTurnEnd
  <2>1. PICK S \in TurnEndChoices(task.entry) :
           task' = [task EXCEPT !.entry = Reserved(@, S, TurnEnd)]
    BY <1>6 DEF ReserveTurnEnd
  <2>2. S \subseteq Deliverable(task.entry)
    BY DEF TurnEndChoices, Steering
  <2> DEFINE e == Reserved(task.entry, S, TurnEnd)
  <2>3. task'.entry = e /\ task'.feedback = task.feedback /\ task'.compose = task.compose
        /\ task'.provider = task.provider
    BY <2>1, <1>1 DEF TaskType
  <2>4. \A m \in Messages :
           /\ m \in S => e[m].state = "reserved"
           /\ m \notin S => e[m] = task.entry[m]
    BY <1>2 DEF Reserved, Entry
  <2>5. \A m \in S : Mutable(task.entry[m])
    BY <2>2 DEF Deliverable
  <2>6. halt = "no"
    BY <1>6 DEF ReserveTurnEnd
  <2>7. \A m \in M, r \in Rounds : m \in rows[r] => m \notin S
    BY <2>5, <2>6, AnswerIsClear
  <2> HIDE DEF e
  <2> QED
    BY <1>3, <2>3, <2>4, <2>5, <2>7, EntryOnce DEF Waiting, Mutable
<1>7. CASE GiveBack /\ halt = "no"
  <2> DEFINE S == Held(task.entry, TurnEnd)
             e == Released(task.entry, S)
  <2>1. task'.entry = e /\ task'.feedback = task.feedback /\ task'.compose = task.compose
        /\ task'.provider = task.provider
    BY <1>7, <1>1 DEF GiveBack, TaskType
  <2>2. \A m \in Messages :
           /\ m \in S => e[m].state = "released"
           /\ m \notin S => e[m] = task.entry[m]
    BY <1>2 DEF Released, Entry
  <2>3. \A m \in S : task.entry[m].state # "removed"
    BY DEF Held, InDelivery
  <2>4. \A m \in M, r \in Rounds : m \in rows[r] => m \notin S
    BY AnswerIsClear
  <2> HIDE DEF e, S
  <2> QED
    BY <1>3, <2>1, <2>2, <2>3, <2>4, EntryOnce DEF Waiting
<1>8. CASE Respond
  <2> DEFINE S == Held(task.entry, TurnEnd)
             e == Consumed(task.entry, S)
  <2>1. task'.entry = e /\ task'.feedback = task.feedback \cup S
        /\ task'.compose = task.compose /\ task'.provider = task.provider
    BY <1>8, <1>1 DEF Respond, CanAnswer, TaskType
  <2>2. \A m \in Messages :
           /\ m \in S => e[m].state = "consumed"
           /\ m \notin S => e[m] = task.entry[m]
    BY DEF Consumed, NoEntry
  <2>3. \A m \in S : task.entry[m].state # "removed"
    BY DEF Held, InDelivery
  <2>4. \A m \in M, r \in Rounds : m \in rows[r] => m \notin S
    BY AnswerIsClear
  <2> HIDE DEF e, S
  <2> QED
    BY <1>3, <2>1, <2>2, <2>3, <2>4, EntryOnce DEF Waiting
<1> QED
  BY <1>5, <1>6, <1>7, <1>8 DEF GiveBack

LEMMA TurnReadyOnce ==
    ASSUME NEW M \in SUBSET Messages, IInv, Once(M), TurnReady
    PROVE  Once(M)'
<1> DEFINE S == InState(task.entry, "included")
           e == Consumed(task.entry, S)
<1>1. task \in TaskType /\ Typed
  BY Types DEF IInv
<1>2. /\ UNCHANGED <<saved, owed, halt, composer, rows, batch, prepared, final, opened>>
      /\ sender' = "off"
  BY DEF TurnReady, journal, counters
<1>3. task'.entry = e /\ task'.feedback = task.feedback /\ task'.compose = task.compose
      /\ task'.provider.id = task.provider.id
  BY <1>1 DEF TurnReady, TaskType
<1>4. \A m \in Messages :
         /\ m \in S => e[m].state = "consumed" /\ e[m].delivery = NoDelivery
         /\ m \notin S => e[m] = task.entry[m]
  BY DEF Consumed, NoEntry
<1>5. \A m \in S : task.entry[m].state = "included"
  BY DEF InState
<1> HIDE DEF e, S
<1>6. Follows(M, task, task', rows, rows', batch, batch', prepared, prepared')
  BY <1>2, <1>3, <1>4, <1>5 DEF Follows, Waiting, Mutable
<1>7. Placed(M, saved, rows', batch', prepared', final)
  BY <1>2 DEF Once
<1>8. \A m \in Messages : task'.entry[m].state = "uncertain" =>
         task.entry[m].state = "uncertain" /\ task'.entry[m].delivery = task.entry[m].delivery
  BY <1>3, <1>4
<1> QED
  BY <1>1, <1>2, <1>3, <1>6, <1>7, <1>8, RestStep DEF Stopping

LEMMA CancelOnce ==
    ASSUME NEW M \in SUBSET Messages, Typed, Once(M), Cancel
    PROVE  Once(M)'
<1> DEFINE e == Cancelled(task.entry)
<1>1. task \in TaskType /\ \A m \in Messages : task.entry[m] \in Entry
  BY Types, TaskFields DEF Entries
<1>2. /\ UNCHANGED <<saved, composer, sender, rows, batch, prepared, final, opened>>
      /\ owed' = "none" /\ halt = "no" /\ halt' = "called"
  BY DEF Cancel, journal
<1>3. task'.entry = e /\ task'.feedback = task.feedback /\ task'.compose = task.compose
      /\ task'.provider.id = task.provider.id
  BY <1>1 DEF Cancel, TaskType
<1>4. ASSUME NEW m \in Messages
      PROVE  \/ e[m] = task.entry[m]
             \/ /\ task.entry[m].delivery = TurnEnd /\ task.entry[m].state # "removed"
                /\ e[m].delivery = NoDelivery /\ e[m].state = "released"
             \/ /\ e[m].delivery = task.entry[m].delivery /\ e[m].state = "uncertain"
                /\ task.entry[m].state # "removed"
  BY <1>1 DEF Cancelled, Entry
<1> HIDE DEF e
<1>5. \A m \in M, r \in Rounds : m \in rows[r] => task.entry[m].delivery # TurnEnd
  BY AnswerIsClear
<1>6. Follows(M, task, task', rows, rows', batch, batch', prepared, prepared')
  BY <1>2, <1>3, <1>4, <1>5 DEF Follows, Waiting, Mutable
<1>7. Placed(M, saved, rows', batch', prepared', final)
  BY <1>2 DEF Once
<1> QED
  BY <1>2, <1>3, <1>6, <1>7, RestStep DEF Stopping

\* The reports that leave the queue alone.
LEMMA FlowOnce ==
    ASSUME NEW M \in SUBSET Messages, IInv, Once(M),
           Take \/ FailRequest \/ StopRequest \/ Stop \/ HaltDone
    PROVE  Once(M)'
<1>1. task \in TaskType /\ Typed
  BY Types DEF IInv
<1>2. /\ UNCHANGED <<saved, rows, batch, prepared, final, opened>>
      /\ sender' # "off" => sender # "off"
      /\ owed' = "compose" \/ composer' # "off" => owed = "compose" \/ composer # "off"
      /\ composer' = "frozen" => composer = "frozen"
      /\ composer # "off" => composer' # "off"
      /\ \/ halt' = halt
         \/ halt = "called" /\ halt' = "stopping"
         \/ halt = "stopping" /\ halt' = "settling"
  BY DEF Take, FailRequest, StopRequest, Stop, HaltDone, journal, counters
<1>3. /\ task'.entry = task.entry /\ task'.feedback = task.feedback
      /\ task'.compose.id = task.compose.id /\ task'.compose.planned = task.compose.planned
      /\ task'.compose.plan = task.compose.plan /\ task'.compose.draft = task.compose.draft
      /\ task'.compose.receipt = task.compose.receipt
      /\ task'.provider.id = task.provider.id
      /\ task'.compose.status = "running" => task.compose.status = "running"
  <2>1. CASE Take \/ StopRequest \/ Stop
    BY <2>1 DEF Take, StopRequest, Stop
  <2>2. CASE FailRequest
    BY <1>1, <2>2 DEF FailRequest, TaskType
  <2>3. CASE HaltDone
    <3>1. PICK cs, ps :
             /\ cs = "running" => task.compose.status = "running"
             /\ task' = [task EXCEPT !.compose.status = cs, !.provider.status = ps,
                                      !.phase = "paused", !.turn = "recovery"]
      BY <2>3 DEF HaltDone
    <3> QED
      BY <1>1, <3>1 DEF TaskType
  <2> QED
    BY <2>1, <2>2, <2>3
<1>4. Follows(M, task, task', rows, rows', batch, batch', prepared, prepared')
  BY <1>2, <1>3 DEF Follows, Waiting
<1>5. Placed(M, saved, rows', batch', prepared', final)
  BY <1>2 DEF Once
<1> QED
  BY <1>1, <1>2, <1>3, <1>4, <1>5, RestStep DEF Stopping

LEMMA StageOnce ==
    ASSUME NEW M \in SUBSET Messages, IInv, Once(M), Stage
    PROVE  Once(M)'
<1>1. /\ UNCHANGED <<task, saved, owed, halt, sender, rows, prepared, final, opened>>
      /\ composer = "frozen" /\ composer' = "staged"
      /\ \A r \in Rounds : r # Round => batch'[r] = batch[r]
  BY DEF Stage, counters
<1>2. batch[Round].state = "absent" /\ batch \in Batches /\ Typed
  BY <1>1, Types DEF IInv, Composing
<1>3. /\ Follows(M, task, task', rows, rows', batch, batch', prepared, prepared')
      /\ Follows(M, saved, saved', rows, rows', batch, batch', prepared, prepared')
  BY <1>1, <1>2 DEF Follows
<1>4. Placed(M, saved, rows', batch', prepared', final)
  BY <1>1, <1>2, <1>3, FollowsPlaced DEF Once
<1> QED
  BY <1>1, <1>2, <1>3, <1>4, RestStep DEF Stopping

\* A round that ends without its draft, and what it leaves of its rows.
LEMMA EndRoundOnce ==
    ASSUME NEW M \in SUBSET Messages, IInv, Once(M),
           RefuseRound \/ FailRound \/ WithdrawRound \/ StopRound
    PROVE  Once(M)'
<1>1. /\ UNCHANGED <<saved, owed, halt, sender, final, opened>>
      /\ composer # "off" /\ composer' = "off" /\ halt \in {"no", "called", "stopping"}
  BY DEF RefuseRound, FailRound, WithdrawRound, StopRound, counters
<1>2. /\ task \in TaskType /\ batch \in Batches /\ Typed
      /\ rows \in [Rounds -> SUBSET Messages] /\ Round \in Rounds
  BY <1>1, Types, AtWork DEF IInv
<1>3. DiscardRows => /\ rows'[Round] = {}
                     /\ \A r \in Rounds : r # Round => rows'[r] = rows[r]
  BY <1>2 DEF DiscardRows
<1>4. \A r \in Rounds : \/ rows'[r] = {}
                        \/ rows'[r] = rows[r] /\ batch'[r] = batch[r] /\ prepared'[r] = prepared[r]
  <2>1. CASE UNCHANGED <<rows, batch, prepared>>
    BY <2>1
  <2>2. CASE DiscardRows /\ UNCHANGED <<batch, prepared>>
    BY <1>3, <2>2
  <2>3. CASE Rollback
    BY <1>2, <1>3, <2>3 DEF Rollback
  <2> QED
    BY <2>1, <2>2, <2>3 DEF RefuseRound, FailRound, WithdrawRound, StopRound
<1>5. Follows(M, saved, saved', rows, rows', batch, batch', prepared, prepared')
  BY <1>1, <1>4 DEF Follows
<1>6. Placed(M, saved, rows', batch', prepared', final)
  BY <1>1, <1>2, <1>5, FollowsPlaced DEF Once
<1>7. CASE task' = task /\ halt # "no"
  <2>1. Follows(M, task, task', rows, rows', batch, batch', prepared, prepared')
    BY <1>4, <1>7 DEF Follows
  <2> QED
    BY <1>1, <1>2, <1>6, <1>7, <2>1, RestStep DEF Stopping
<1>8. CASE halt = "no"
  <2> DEFINE S == Held(task.entry, Round)
             e == Released(task.entry, S)
  <2>1. PICK status, phase, turn : GivenUp(status, phase, turn) /\ status # "running"
    BY <1>8 DEF RefuseRound, FailRound, WithdrawRound, StopRound
  <2>2. /\ task'.entry = e /\ task'.feedback = task.feedback
        /\ task'.compose.id = task.compose.id /\ task'.compose.planned = task.compose.planned
        /\ task'.compose.plan = task.compose.plan /\ task'.compose.draft = task.compose.draft
        /\ task'.compose.receipt = task.compose.receipt
        /\ task'.provider.id = task.provider.id /\ task'.compose.status = status
    BY <1>2, <2>1 DEF GivenUp, TaskType
  <2>3. \A m \in Messages : task.entry[m] \in Entry
    BY <1>2, TaskFields DEF Entries
  <2>4. \A m \in Messages :
           /\ m \in S => e[m].state = "released" /\ e[m].delivery = NoDelivery
           /\ m \notin S => e[m] = task.entry[m]
    BY <2>3 DEF Released, Entry
  <2>5. \A m \in S : task.entry[m].state # "removed" /\ task.entry[m].delivery = Round
    BY DEF Held, InDelivery
  <2>6. rows'[Round] = {}
    <3>1. CASE RefuseRound
      <4>1. task.compose.admitted # {}
        <5>1. Held(task.entry, Round) # task.compose.admitted
          BY <1>8, <3>1 DEF RefuseRound
        <5>2. Carried(task, batch)
          BY DEF IInv, Sound
        <5> QED
          BY <5>1, <5>2 DEF Carried, Round
      <4> QED
        BY <1>3, <3>1, <4>1 DEF RefuseRound, Rollback
    <3> QED
      BY <1>3, <1>8, <3>1 DEF FailRound, WithdrawRound, StopRound, Rollback
  <2>7. Round # NoDelivery
    BY <1>2, Names
  <2>8. \A m \in M, r \in Rounds : m \in rows'[r] =>
           m \in rows[r] /\ r # Round /\ m \notin S
    <3>1. \A m \in M, r \in Rounds : m \in rows'[r] => m \in rows[r] /\ r # Round
      BY <1>4, <2>6
    <3> HIDE DEF S
    <3> QED
      BY <2>5, <2>7, <3>1 DEF Once, Placed, PlacedHeld
  <2> HIDE DEF e, S
  <2>9. Follows(M, task, task', rows, rows', batch, batch', prepared, prepared')
    <3>1. \A m \in M, r \in Rounds : m \in rows'[r] =>
             /\ task'.entry[m] = task.entry[m]
             /\ m \in rows[r] /\ prepared'[r] = prepared[r] /\ batch'[r] = batch[r]
      BY <1>4, <2>2, <2>4, <2>8
    <3>2. \A m \in Messages : task.entry[m].state = "removed" => task'.entry[m].state = "removed"
      BY <2>2, <2>4, <2>5
    <3> QED
      BY <2>2, <3>1, <3>2 DEF Follows, Waiting
  <2>10. \A m \in Messages : task'.entry[m].state = "uncertain" =>
            task.entry[m].state = "uncertain"
            /\ task'.entry[m].delivery = task.entry[m].delivery
    BY <2>2, <2>4
  <2> QED
    BY <1>1, <1>2, <1>6, <1>8, <2>1, <2>2, <2>6, <2>9, <2>10, RestStep DEF Stopping
<1> QED
  BY <1>1, <1>7, <1>8 DEF RefuseRound, FailRound, WithdrawRound, StopRound

LEMMA SaveOnce ==
    ASSUME NEW M \in SUBSET Messages, IInv, Once(M), Save
    PROVE  Once(M)'
<1>1. /\ saved' = Snapshot(task)
      /\ UNCHANGED <<task, owed, halt, composer, sender, rows, batch, prepared, final, opened>>
  BY DEF Save, journal, counters
<1>2. task \in TaskType /\ Bound(task.entry) /\ batch \in Batches
  BY Types DEF IInv
<1>3. \A m \in Messages : task.entry[m] \in Entry
  BY <1>2, TaskFields DEF Entries
<1>4. /\ saved'.feedback = task.feedback /\ saved'.compose = task.compose
      /\ saved'.provider = task.provider
      /\ \A m \in Messages : saved'.entry[m].state = task.entry[m].state
                             /\ saved'.entry[m].delivery = task.entry[m].delivery
  <2>1. saved'.entry = [m \in Messages |-> [task.entry[m] EXCEPT !.editing = FALSE]]
    BY <1>1, <1>2 DEF Snapshot, TaskType
  <2>2. \A m \in Messages : saved'.entry[m].state = task.entry[m].state
                            /\ saved'.entry[m].delivery = task.entry[m].delivery
    BY <1>3, <2>1 DEF Entry
  <2> QED
    BY <1>1, <1>2, <2>2 DEF Snapshot, TaskType
<1>5. Follows(M, task, saved', rows, rows', batch, batch', prepared, prepared')
  BY <1>1, <1>4 DEF Follows, Waiting, Mutable
<1>6. Placed(M, saved', rows', batch', prepared', final)
  BY <1>2, <1>5, FollowsPlaced DEF Once
<1>7. Abreast'
  <2>1. sender # "off" => task.provider.id = Round
    BY AtProvider
  <2>2. Round \in Nat
    BY <1>2, TaskFields DEF Round
  <2> QED
    BY <1>1, <1>4, <2>1, <2>2 DEF Once, Abreast, Round
<1> QED
  BY <1>1, <1>6, <1>7 DEF Once, OneRow, PlanIsClear, WaitingIsClear, Undecided, Round

\* What the round in memory knows of itself while it is composed.
LEMMA PlanHeld ==
    ASSUME NEW t \in TaskType, Bound(t.entry), NEW b, Carried(t, b), Shaped(t),
           t.compose.status = "running", NEW m \in t.compose.plan \cup t.compose.admitted
    PROVE  /\ m \in Messages /\ t.entry[m].state # "none" /\ ~Mutable(t.entry[m])
           /\ t.entry[m].delivery # NoDelivery =>
                 m \in t.compose.admitted /\ t.entry[m].delivery = t.compose.id
<1>1. m \in Messages
  BY TaskFields
<1>2. CASE m \in t.compose.admitted
  <2>1. m \in Held(t.entry, t.compose.id) \/ t.entry[m].state = "removed"
    BY <1>2 DEF Carried, HeldOrRemoved
  <2> QED
    BY <1>1, <1>2, <2>1 DEF Held, InDelivery, Mutable, Bound
<1>3. CASE m \notin t.compose.admitted
  <2>1. t.entry[m].state = "consumed"
    BY <1>3 DEF Carried
  <2> QED
    BY <1>1, <2>1 DEF InDelivery, Mutable, Bound
<1> QED
  BY <1>2, <1>3

\* A held message means that its round admitted one.
LEMMA HeldAdmits ==
    ASSUME NEW t \in TaskType, Bound(t.entry), NEW b, Carried(t, b), NEW m \in Messages,
           t.entry[m].delivery = t.compose.id, t.entry[m].delivery # NoDelivery
    PROVE  m \in t.compose.admitted
<1>1. m \in Held(t.entry, t.compose.id)
  BY DEF Held, Bound
<1> QED
  BY <1>1 DEF Carried


LEMMA OpenOnce ==
    ASSUME NEW M \in SUBSET Messages, IInv, Once(M), Submit \/ ToolsSettle,
           M \cap InState(task.entry, "included") = {}
    PROVE  Once(M)'
<1>1. PICK S, phase :
         /\ S \in SUBSET Messages
         /\ OpenRound(S, phase) /\ \A m \in S : Mutable(task.entry[m])
  <2>1. CASE Submit
    <3>1. OpenRound({}, IF task.phase = "paused" THEN "running" ELSE task.phase)
      BY <2>1 DEF Submit
    <3> QED
      BY <3>1
  <2>2. CASE ToolsSettle
    <3>1. OpenRound(Steering(task.entry), task.phase)
      BY <2>2 DEF ToolsSettle
    <3>2. Steering(task.entry) \in SUBSET Messages
          /\ \A m \in Steering(task.entry) : Mutable(task.entry[m])
      BY DEF Steering, Deliverable
    <3> QED
      BY <3>1, <3>2
  <2> QED
    BY <2>1, <2>2
<1>2. /\ halt = "no" /\ task.compose.status # "running" /\ task.provider.status # "running"
      /\ opened < MaxRounds /\ opened' = opened + 1 /\ owed' = "compose"
      /\ UNCHANGED <<saved, halt, composer, sender, rows, batch, prepared, final>>
  BY <1>1 DEF OpenRound, Submit, ToolsSettle, ActiveRound, journal
<1>3. composer = "off" /\ sender = "off"
  BY <1>2 DEF IInv, Lanes
<1>4. /\ task \in TaskType /\ saved \in TaskType /\ opened \in Nat
      /\ opened + 1 \in Rounds /\ Bound(task.entry)
  <2>1. opened \in 0..MaxRounds /\ opened \in Nat
    BY Types DEF IInv
  <2>2. opened + 1 \in Rounds
    BY <1>2, <2>1, QueueAssumption DEF Rounds
  <2> QED
    BY <2>1, <2>2, Types DEF IInv
<1> DEFINE e == Reserved(task.entry, S, opened + 1)
<1>5. /\ task'.entry = e /\ task'.feedback = task.feedback
      /\ task'.provider = task.provider /\ task'.compose.id = opened + 1
      /\ ~task'.compose.planned /\ task'.compose.plan = {}
  BY <1>1, <1>4 DEF OpenRound, TaskType, NoCompose
<1>6. \A m \in Messages :
         /\ m \in S => e[m].state = "reserved" /\ e[m].delivery = opened + 1
         /\ m \notin S => e[m] = task.entry[m]
  <2>1. \A m \in Messages : task.entry[m] \in Entry
    BY <1>4, TaskFields DEF Entries
  <2> QED
    BY <2>1 DEF Reserved, Entry
<1> HIDE DEF e
<1>7. \A m \in M, r \in Rounds : m \in rows[r] =>
         ~Waiting(task, m) /\ m \notin S /\ e[m] = task.entry[m]
  BY <1>1, <1>2, <1>3, <1>6 DEF Once, WaitingIsClear, Waiting, Stopping
<1>8. PlacedWaiting(M, task', rows, prepared)
  BY <1>5, <1>7 DEF Once, Placed, PlacedWaiting, Waiting
<1>9. ASSUME NEW m \in M, NEW r \in Rounds, m \in rows[r], e[m].delivery # NoDelivery
      PROVE  /\ e[m].delivery = r /\ prepared[r] = "live" /\ Stuck(task', batch, r)
             /\ batch[r].state = "staged"
  <2>1. e[m] = task.entry[m] /\ task.entry[m].delivery = r
    BY <1>7, <1>9 DEF Once, Placed, PlacedHeld
  <2>2. task.entry[m].state \in InDelivery /\ task.entry[m].state # "included"
    BY <1>4, <1>9, <2>1 DEF Bound, InState
  <2>3. task.entry[m].state # "reserved"
    BY <1>2, <2>1 DEF IInv, InFlight
  <2>4. Stuck(task, batch, r) /\ prepared[r] = "live"
    BY <1>2, <1>9, <2>2, <2>3 DEF Once, Undecided, InDelivery
  <2>5. \A k \in batch[r].members : k \in Messages
    BY Types DEF IInv, Batches
  <2>6. \A k \in Messages : task.entry[k].state = "removed" => e[k].state = "removed"
    BY <1>1, <1>6 DEF Mutable
  <2> QED
    BY <1>5, <2>1, <2>4, <2>5, <2>6 DEF Stuck
<1>10. PlacedHeld(M, task', rows, batch, prepared, final)
  BY <1>5, <1>9 DEF PlacedHeld
<1>11. Placed(M, task', rows', batch', prepared', final')
  BY <1>2, <1>5, <1>8, <1>10 DEF Placed, PlacedDraft
<1>12. Abreast'
  <2>1. saved.compose.id <= opened /\ saved.compose.id \in Nat
    BY <1>4, TaskFields DEF IInv, Sound, Known
  <2>2. \A r \in final : r <= opened /\ r \in Nat
    BY Names DEF Once, Abreast, IInv, Typed, TypeOK
  <2>3. /\ saved.compose.id <= opened + 1 /\ opened + 1 \notin final
        /\ \A r \in final : r <= opened + 1
    BY <1>4, <2>1, <2>2
  <2> QED
    BY <1>2, <1>3, <1>5, <2>3 DEF Abreast, Round
<1>13. PlanIsClear(M)' /\ OneRow(M)'
  BY <1>2, <1>3 DEF Once, OneRow, PlanIsClear
<1>14. WaitingIsClear(M)'
  BY <1>2, <1>5, <1>7 DEF WaitingIsClear, Waiting
<1>15. Undecided(M)'
  <2>1. ASSUME NEW m \in M, e[m].state = "uncertain"
        PROVE  /\ \A r \in Rounds : m \in rows[r] => Stuck(task', batch, r) /\ prepared[r] = "live"
               /\ e[m].delivery # opened + 1
    <3>1. e[m] = task.entry[m] /\ m \notin S
      BY <1>6, <2>1
    <3>2. e[m].delivery # NoDelivery
      BY <1>4, <2>1, <3>1 DEF Bound, InDelivery
    <3>3. \A r \in Rounds : m \in rows[r] => Stuck(task', batch, r) /\ prepared[r] = "live"
      BY <1>9, <3>2
    <3>4. task.entry[m].delivery \in Rounds => task.entry[m].delivery <= opened
      BY DEF IInv, Sound, Known
    <3> QED
      BY <1>4, <3>1, <3>3, <3>4
  <2> QED
    BY <1>2, <1>5, <2>1 DEF Undecided, Round
<1> QED
  BY <1>2, <1>11, <1>12, <1>13, <1>14, <1>15 DEF Once

LEMMA RetryOnce ==
    ASSUME NEW M \in SUBSET Messages, IInv, Once(M), Retry
    PROVE  Once(M)'
<1>1. task \in TaskType
  BY Types DEF IInv
<1>2. /\ task.compose.draft /\ task.turn = "recovery"
      /\ task'.entry = task.entry /\ task'.feedback = task.feedback
      /\ task'.compose = task.compose /\ task'.provider.id = task.compose.id
      /\ owed' = "provider"
      /\ UNCHANGED <<saved, halt, composer, sender, rows, batch, prepared, final, opened>>
  BY <1>1 DEF Retry, TaskType, journal, counters
<1>3. sender = "off"
  BY <1>2 DEF IInv, Lanes
<1>4. \A r : Stuck(task', batch, r) <=> Stuck(task, batch, r)
  BY <1>2 DEF Stuck
<1>5. \A r : Backed(task, final, r) => Backed(task', final, r)
  BY <1>2 DEF Backed
<1>6. Placed(M, task', rows', batch', prepared', final')
  BY <1>2, <1>4, <1>5 DEF Once, Placed, PlacedWaiting, PlacedHeld, PlacedDraft, Waiting
<1>7. Abreast' /\ OneRow(M)' /\ PlanIsClear(M)'
  BY <1>2, <1>3 DEF Once, Abreast, OneRow, PlanIsClear, Round
<1>8. WaitingIsClear(M)' /\ Undecided(M)'
  BY <1>2, <1>4 DEF Once, WaitingIsClear, Undecided, Waiting, Round
<1> QED
  BY <1>2, <1>6, <1>7, <1>8 DEF Once

LEMMA SendOnce ==
    ASSUME NEW M \in SUBSET Messages, IInv, Once(M), Send
    PROVE  Once(M)'
<1>1. /\ owed = "provider" /\ saved.provider = task.provider /\ owed' = "none"
      /\ UNCHANGED <<task, saved, halt, composer, rows, batch, prepared, final, opened>>
  BY DEF Send, journal, counters
<1>2. /\ task.provider.id = Round /\ Round \in Rounds /\ composer = "off"
      /\ saved.compose.id \in Nat /\ Round \in Nat /\ Round # 0
  <2>1. /\ task.provider.id = Round /\ Round \in Rounds /\ composer = "off"
    BY <1>1, AtProvider
  <2> QED
    BY <2>1, Types, TaskFields, Names DEF IInv
<1>3. saved.provider.id = Round /\ saved.provider.id <= saved.compose.id
  BY <1>1, <1>2 DEF IInv, Sound, Shaped
<1>4. saved.compose.id <= Round
  BY <1>2 DEF Once, Abreast
<1>5. Abreast'
  BY <1>1, <1>2, <1>3, <1>4 DEF Once, Abreast, Round
<1> QED
  BY <1>1, <1>5 DEF Once, OneRow, PlanIsClear, WaitingIsClear, Undecided, Round

\* The reply of the round in memory, which the disk knows as well.
LEMMA ResultPlaced ==
    ASSUME NEW M \in SUBSET Messages, NEW t \in TaskType, Bound(t.entry), Shaped(t), Carried(t,
           batch),
           Placed(M, t, rows, batch, prepared, final),
           NEW q \in Rounds, t.compose.id = q, t.provider.id = q
    PROVE  Placed(M, t, rows, batch, prepared, final \cup {q})
<1>1. PlacedDraft(t, final \cup {q})
  BY DEF Placed, PlacedDraft
<1>2. ASSUME NEW m \in M, NEW r \in Rounds, m \in rows[r],
             t.entry[m].delivery # NoDelivery, Backed(t, final, r)
      PROVE  Backed(t, final \cup {q}, r)
  <2>1. r = q /\ t.entry[m].delivery = r
    BY <1>2 DEF Backed, Placed, PlacedHeld
  <2>2. t.compose.admitted # {}
    BY <2>1, <1>2, HeldAdmits
  <2>3. t.compose.receipt
    BY <1>2, <2>1, <2>2 DEF Backed, Placed, PlacedDraft, Shaped
  <2> QED
    BY <1>2, <2>1, <2>3 DEF Backed
<1>3. PlacedHeld(M, t, rows, batch, prepared, final \cup {q})
  BY <1>2 DEF Placed, PlacedHeld
<1> QED
  BY <1>1, <1>3 DEF Placed

LEMMA JournalResultOnce ==
    ASSUME NEW M \in SUBSET Messages, IInv, Once(M), JournalResult
    PROVE  Once(M)'
<1>1. /\ sender = "running" /\ sender' = "journaled" /\ final' = final \cup {task.provider.id}
      /\ UNCHANGED <<task, saved, owed, halt, composer, rows, batch, prepared, opened>>
  BY DEF JournalResult, counters
<1>2. /\ task.provider.id = Round /\ Round \in Rounds /\ composer = "off" /\ owed # "compose"
      /\ task.compose.id = Round
  BY <1>1, AtProvider DEF Round
<1>3. saved.compose.id = Round /\ saved.provider.id = Round
  BY <1>1 DEF Once, Abreast
<1>4. /\ task \in TaskType /\ saved \in TaskType /\ Bound(task.entry) /\ Bound(saved.entry)
      /\ Shaped(task) /\ Shaped(saved) /\ Carried(task, batch) /\ Carried(saved, batch)
  BY Types DEF IInv, Sound
<1>5. final' = final \cup {Round}
  BY <1>1, <1>2
<1>6. Placed(M, task', rows', batch', prepared', final')
  BY <1>1, <1>2, <1>4, <1>5, ResultPlaced DEF Once
<1>7. Placed(M, saved', rows', batch', prepared', final')
  BY <1>1, <1>2, <1>3, <1>4, <1>5, ResultPlaced DEF Once
<1>8. Abreast'
  <2>1. Round <= opened
    BY DEF IInv, Sound, Known, Round
  <2> QED
    BY <1>1, <1>2, <1>3, <1>5, <2>1 DEF Once, Abreast, Round
<1> QED
  BY <1>1, <1>6, <1>7, <1>8 DEF Once, OneRow, PlanIsClear, WaitingIsClear, Undecided, Round

LEMMA FreezeOnce ==
    ASSUME NEW M \in SUBSET Messages, IInv, Once(M), Freeze
    PROVE  Once(M)'
<1>1. /\ task \in TaskType /\ Bound(task.entry) /\ Carried(task, batch) /\ Shaped(task)
  BY Types DEF IInv, Sound
<1>2. /\ composer = "taken" /\ composer' = "frozen" /\ halt = "no"
      /\ Complete(task.compose.admitted)
      /\ UNCHANGED <<saved, owed, halt, sender, rows, batch, prepared, final, opened>>
  BY DEF Freeze, journal, counters
<1>3. /\ task'.entry = task.entry /\ task'.feedback = task.feedback
      /\ task'.provider = task.provider /\ task'.compose.id = task.compose.id
      /\ task'.compose.planned
      /\ task'.compose.plan = task.compose.admitted \cup task.feedback
      /\ task'.compose.receipt = task.compose.receipt
      /\ task'.compose.status = task.compose.status
  BY <1>1 DEF Freeze, TaskType
<1>4. /\ Round \in Rounds /\ Round \in Nat /\ task.compose.status = "running"
      /\ task.provider.id < Round /\ task.compose.id = Round
  BY <1>2, AtWork DEF Round
<1>5. Round \notin final /\ ~task.compose.planned
  BY <1>2 DEF Once, Abreast, IInv, Composing
<1>6. \A m \in M, r \in Rounds : m \in rows[r] => ~Waiting(task, m)
  BY <1>5 DEF Once, Placed, PlacedWaiting
<1>7. PlacedWaiting(M, task', rows, prepared)
  BY <1>3, <1>6 DEF Once, Placed, PlacedWaiting, Waiting
<1>8. \A r : Stuck(task', batch, r) <=> Stuck(task, batch, r)
  BY <1>3 DEF Stuck
<1>9. \A r : Backed(task, final, r) => Backed(task', final, r)
  BY <1>3 DEF Backed
<1>10. PlacedHeld(M, task', rows, batch, prepared, final)
  BY <1>3, <1>8, <1>9 DEF Once, Placed, PlacedHeld
<1>11. PlacedDraft(task', final)
  <2>1. task.provider.id \in Nat
    BY <1>1, TaskFields
  <2> QED
    BY <1>3, <1>4, <1>5, <2>1 DEF PlacedDraft
<1>12. PlanIsClear(M)'
  <2>1. ASSUME NEW m \in (task.compose.admitted \cup task.feedback) \cap M,
               NEW r \in Rounds, m \in rows[r]
        PROVE  r = Round
    <3>1. m \in Messages
      BY <1>1, <2>1, TaskFields
    <3>2. m \in task.compose.admitted
      BY <1>6, <2>1, <3>1 DEF Waiting
    <3>3. m \in Held(task.entry, Round)
      BY <1>1, <1>2, <1>4, <3>2 DEF Complete, Carried, HeldOrRemoved
    <3>4. task.entry[m].delivery = Round /\ Round # NoDelivery
      BY <1>4, <3>3, Names DEF Held
    <3> QED
      BY <2>1, <3>1, <3>4 DEF Once, Placed, PlacedHeld
  <2> QED
    BY <1>2, <1>3, <2>1 DEF PlanIsClear, Round
<1>13. WaitingIsClear(M)'
  BY <1>2, <1>3, <1>6 DEF WaitingIsClear, Waiting
<1>14. Undecided(M)'
  BY <1>2, <1>3, <1>8 DEF Once, Undecided, Round
<1>15. Abreast'
  BY <1>2, <1>3, <1>5 DEF Once, Abreast, Round
<1> QED
  BY <1>2, <1>7, <1>10, <1>11, <1>12, <1>13, <1>14, <1>15 DEF Once, Placed, OneRow

\* A row of the plan that is being written, in memory as on disk.
LEMMA RowPlaced ==
    ASSUME NEW M \in SUBSET Messages, NEW t \in TaskType, Bound(t.entry), Carried(t, batch),
           Shaped(t),
           NEW q \in Rounds, t.compose.id = q, t.compose.status = "running",
           t.compose.planned, NEW m \in t.compose.plan,
           Placed(M, t, rows, batch, prepared, final), q \notin final, prepared[q] # "live",
           NEW w, \A r \in Rounds : r # q => w[r] = rows[r],
           w[q] = rows[q] \cup {m}
    PROVE  Placed(M, t, w, batch, prepared, final)
<1>1. /\ m \in Messages /\ t.entry[m].state # "none" /\ ~Mutable(t.entry[m])
      /\ t.entry[m].delivery # NoDelivery => t.entry[m].delivery = q
  BY PlanHeld
<1>2. ~t.compose.draft
  BY DEF Shaped
<1>3. \A k \in M, r \in Rounds : k \in w[r] => k \in rows[r] \/ (k = m /\ r = q)
  OBVIOUS
<1>4. PlacedWaiting(M, t, w, prepared)
  BY <1>1, <1>2, <1>3 DEF Placed, PlacedWaiting
<1>5. Backed(t, final, q)
  BY DEF Backed
<1>6. PlacedHeld(M, t, w, batch, prepared, final)
  BY <1>1, <1>3, <1>5 DEF Placed, PlacedHeld
<1> QED
  BY <1>4, <1>6 DEF Placed

LEMMA AppendRowOnce ==
    ASSUME NEW M \in SUBSET Messages, IInv, Once(M), NEW m \in Messages, AppendRow(m)
    PROVE  Once(M)'
<1>1. /\ task \in TaskType /\ Bound(task.entry) /\ Carried(task, batch) /\ Shaped(task)
      /\ saved \in TaskType /\ Bound(saved.entry) /\ Carried(saved, batch) /\ Shaped(saved)
      /\ rows \in [Rounds -> SUBSET Messages]
  BY Types DEF IInv, Sound
<1>2. /\ composer = "frozen" /\ m \in task.compose.plan
      /\ saved.compose.id = Round /\ saved.compose.planned
      /\ rows' = [rows EXCEPT ![Round] = @ \cup {m}]
      /\ UNCHANGED <<task, saved, owed, halt, composer, sender, batch, prepared, final, opened>>
  BY DEF AppendRow, counters
<1>3. /\ Round \in Rounds /\ task.compose.status = "running" /\ task.compose.id = Round
      /\ task.compose.planned /\ prepared[Round] # "live" /\ Round \notin final
  BY <1>2, AtWork DEF Round, IInv, Composing, Once, Abreast
<1>4. saved.compose.status = "running" /\ m \in saved.compose.plan
  BY <1>2 DEF IInv, Linked
<1>5. /\ \A r \in Rounds : r # Round => rows'[r] = rows[r]
      /\ rows'[Round] = rows[Round] \cup {m}
  BY <1>1, <1>2, <1>3
<1>6. Placed(M, task', rows', batch', prepared', final')
  BY <1>1, <1>2, <1>3, <1>5, RowPlaced DEF Once
<1>7. Placed(M, saved', rows', batch', prepared', final')
  BY <1>1, <1>2, <1>3, <1>4, <1>5, RowPlaced DEF Once
<1>8. m \in M => \A r \in Rounds : m \in rows[r] => r = Round
  BY <1>2 DEF Once, PlanIsClear
<1>9. OneRow(M)'
  BY <1>5, <1>8 DEF Once, OneRow
<1>10. PlanIsClear(M)' /\ Abreast'
  BY <1>2, <1>5, <1>8 DEF Once, PlanIsClear, Abreast, Round
<1>11. /\ ~Mutable(task.entry[m])
       /\ task.entry[m].delivery # NoDelivery => task.entry[m].delivery = Round
  BY <1>1, <1>2, <1>3, PlanHeld
<1>12. WaitingIsClear(M)'
  BY <1>2, <1>5, <1>11 DEF Once, WaitingIsClear
<1>13. Undecided(M)'
  <2>1. halt = "no" /\ m \in M => task.entry[m].state # "uncertain"
    BY <1>1, <1>3, <1>11 DEF Once, Undecided, Bound, InDelivery
  <2> QED
    BY <1>2, <1>5, <2>1 DEF Once, Undecided, Round
<1> QED
  BY <1>6, <1>7, <1>9, <1>10, <1>12, <1>13 DEF Once

LEMMA PrepareOnce ==
    ASSUME NEW M \in SUBSET Messages, IInv, Once(M), Prepare
    PROVE  Once(M)'
<1>1. /\ task \in TaskType /\ Bound(task.entry) /\ Carried(task, batch) /\ Shaped(task)
      /\ saved \in TaskType /\ Bound(saved.entry) /\ Carried(saved, batch) /\ Shaped(saved)
      /\ prepared \in [Rounds -> {"absent", "live", "discarded"}]
  BY Types DEF IInv, Sound, Typed, TypeOK
<1>2. /\ composer = "staged" /\ composer' = "prepared"
      /\ prepared' = [prepared EXCEPT ![Round] = "live"]
      /\ UNCHANGED <<task, saved, owed, halt, sender, rows, batch, final, opened>>
  BY DEF Prepare, counters
<1>3. /\ Round \in Rounds /\ task.compose.status = "running" /\ task.compose.id = Round
      /\ prepared[Round] # "live" /\ halt # "settling" /\ Round # NoDelivery
      /\ task.compose.admitted # {} => batch[Round].state = "staged"
  BY <1>2, AtWork, Names DEF Round, IInv, Composing, Lanes
<1>4. saved.compose.id = Round => /\ saved.compose.status = "running"
                                  /\ saved.compose.admitted = task.compose.admitted
  BY <1>2 DEF IInv, Linked
<1>5. \A r \in Rounds : /\ r # Round => prepared'[r] = prepared[r]
                        /\ r = Round => prepared'[r] = "live"
  BY <1>1, <1>2
<1>6. ASSUME NEW t \in {task, saved} PROVE Placed(M, t, rows, batch, prepared', final)
  <2>1. /\ t \in TaskType /\ Bound(t.entry) /\ Carried(t, batch) /\ Shaped(t)
        /\ Placed(M, t, rows, batch, prepared, final)
        /\ t.compose.id = Round => /\ t.compose.status = "running"
                                   /\ t.compose.admitted = task.compose.admitted
    BY <1>1, <1>3, <1>4 DEF Once
  <2>2. ASSUME NEW m \in M, m \in rows[Round], Mutable(t.entry[m]) PROVE FALSE
    <3>1. t.compose.id = Round /\ m \in t.compose.plan
      BY <1>3, <2>1, <2>2 DEF Placed, PlacedWaiting, Waiting
    <3> QED
      BY <2>1, <2>2, <3>1, PlanHeld
  <2>3. PlacedWaiting(M, t, rows, prepared')
    BY <1>5, <2>1, <2>2 DEF Placed, PlacedWaiting
  <2>4. ASSUME NEW m \in M, m \in rows[Round], t.entry[m].delivery # NoDelivery
        PROVE  batch[Round].state = "staged"
    <3>1. t.entry[m].delivery = Round /\ Backed(t, final, Round)
      BY <1>3, <2>1, <2>4 DEF Placed, PlacedHeld
    <3>2. m \in t.compose.admitted /\ t.compose.id = Round
      BY <2>1, <2>4, <3>1, HeldAdmits DEF Backed
    <3> QED
      BY <1>3, <2>1, <3>2
  <2>5. PlacedHeld(M, t, rows, batch, prepared', final)
    BY <1>5, <2>1, <2>4 DEF Placed, PlacedHeld
  <2> QED
    BY <2>1, <2>3, <2>5 DEF Placed
<1>7. OneRow(M)' /\ Abreast' /\ PlanIsClear(M)' /\ WaitingIsClear(M)'
  BY <1>2 DEF Once, OneRow, Abreast, PlanIsClear, WaitingIsClear, Round
<1>8. Undecided(M)'
  <2>1. halt # "deciding"
    BY <1>2 DEF IInv, Lanes
  <2> QED
    BY <1>2, <1>5, <2>1 DEF Once, Undecided, Round
<1> QED
  BY <1>2, <1>6, <1>7, <1>8 DEF Once

LEMMA CompleteRoundOnce ==
    ASSUME NEW M \in SUBSET Messages, IInv, Once(M), CompleteRound
    PROVE  Once(M)'
<1>1. /\ task \in TaskType /\ batch \in Batches /\ task.compose.admitted \in SUBSET Messages
  BY Types, TaskFields DEF IInv
<1>2. /\ composer = "prepared" /\ halt = "no" /\ composer' = "off" /\ owed' = "provider"
      /\ Held(task.entry, Round) = task.compose.admitted
      /\ UNCHANGED <<saved, halt, sender, rows, batch, prepared, final, opened>>
  BY DEF CompleteRound, journal, counters
<1> DEFINE e == [m \in Messages |-> IF m \in task.compose.admitted
                                    THEN [task.entry[m] EXCEPT !.state = "included"]
                                    ELSE task.entry[m]]
<1>3. PICK b : b = (task.compose.admitted # {})
  OBVIOUS
<1>4. task' = [task EXCEPT !.compose.status = "completed", !.compose.draft = TRUE,
                           !.compose.receipt = b, !.entry = e,
                           !.feedback = task.feedback \ task.compose.plan,
                           !.provider = [id |-> Round, status |-> "running"]]
  BY <1>1, <1>3 DEF CompleteRound, TaskType
<1>5. \A m \in Messages :
         /\ e[m].delivery = task.entry[m].delivery
         /\ e[m] # task.entry[m] =>
               /\ m \in task.compose.admitted /\ e[m].state = "included"
  <2>1. \A m \in Messages : task.entry[m] \in Entry
    BY <1>1, TaskFields DEF Entries
  <2> QED
    BY <2>1 DEF Entry
<1> HIDE DEF e
<1>6. /\ task'.entry = e /\ task'.feedback = task.feedback \ task.compose.plan
      /\ task'.compose.id = task.compose.id /\ task'.compose.planned = task.compose.planned
      /\ task'.compose.plan = task.compose.plan /\ task'.compose.draft
      /\ task'.compose.status = "completed"
  BY <1>1, <1>4 DEF TaskType
<1>7. /\ Round \notin final /\ sender = "off" /\ task.compose.id = Round
      /\ \A m \in task.compose.admitted : task.entry[m].state # "removed"
  BY <1>2, AtWork DEF Once, Abreast, Held, InDelivery, Round
<1>8. \A m \in M, r \in Rounds : m \in rows[r] => ~Waiting(task', m)
  <2>1. \A m \in M, r \in Rounds : m \in rows[r] =>
           ~Mutable(task.entry[m]) /\ (m \in task.feedback => m \in task.compose.plan)
    BY <1>2 DEF Once, WaitingIsClear, Placed, PlacedWaiting, Waiting
  <2> QED
    BY <1>5, <1>6, <2>1 DEF Waiting, Mutable
<1>9. PlacedWaiting(M, task', rows, prepared)
  BY <1>5, <1>6, <1>8 DEF Once, Placed, PlacedWaiting
<1>10. ASSUME NEW r \in Rounds, Stuck(task, batch, r) PROVE Stuck(task', batch, r)
  <2>1. batch[r].members \in SUBSET Messages
    BY <1>1 DEF Batches
  <2> QED
    BY <1>5, <1>6, <1>7, <1>10, <2>1 DEF Stuck
<1>11. \A r : Backed(task, final, r) => Backed(task', final, r)
  BY <1>6, <1>7 DEF Backed
<1>12. PlacedHeld(M, task', rows, batch, prepared, final)
  BY <1>5, <1>6, <1>10, <1>11 DEF Once, Placed, PlacedHeld
<1>13. Placed(M, task', rows', batch', prepared', final')
  BY <1>2, <1>6, <1>9, <1>12 DEF Placed, PlacedDraft
<1>14. OneRow(M)' /\ Abreast' /\ PlanIsClear(M)' /\ WaitingIsClear(M)'
  BY <1>2, <1>6, <1>7, <1>8 DEF Once, OneRow, Abreast, PlanIsClear, WaitingIsClear, Round
<1>15. Undecided(M)'
  <2>1. \A m \in Messages : e[m].state = "uncertain" => task.entry[m].state = "uncertain"
    BY <1>5
  <2> QED
    BY <1>2, <1>6, <1>10, <2>1 DEF Once, Undecided, Round
<1> QED
  BY <1>2, <1>13, <1>14, <1>15 DEF Once

LEMMA ReconcileOnce ==
    ASSUME NEW M \in SUBSET Messages, IInv, Once(M), Reconcile
    PROVE  Once(M)'
<1>1. /\ task \in TaskType /\ Bound(task.entry) /\ Carried(task, batch) /\ Shaped(task)
      /\ rows \in [Rounds -> SUBSET Messages] /\ batch \in Batches
      /\ task.compose.admitted \in SUBSET Messages
  BY Types, TaskFields DEF IInv, Sound
<1>2. /\ halt = "settling" /\ halt' = "deciding"
      /\ UNCHANGED <<saved, owed, composer, sender, batch, prepared, final, opened>>
  BY DEF Reconcile, counters
<1>3. composer = "off" /\ sender = "off"
  BY <1>2 DEF IInv, Lanes
<1>4. task.compose.planned => task.compose.id \in Rounds
  BY <1>1, TaskFields DEF Shaped
<1>5. ASSUME Placed(M, task', rows', batch, prepared, final), Placed(M, saved, rows', batch,
           prepared, final),
             \A m \in M, r \in Rounds : m \in rows'[r] => m \in rows[r],
             \A m \in M, r \in Rounds : m \in rows'[r] => ~Waiting(task', m),
             task'.compose.id = task.compose.id,
             task'.compose.planned => prepared[Round] = "live"
      PROVE  Once(M)'
  <2>1. OneRow(M)' /\ Abreast' /\ PlanIsClear(M)'
    BY <1>2, <1>3, <1>5 DEF Once, OneRow, Abreast, PlanIsClear, Round
  <2>2. WaitingIsClear(M)' /\ Undecided(M)'
    BY <1>2, <1>5 DEF WaitingIsClear, Undecided, Round
  <2> QED
    BY <1>2, <1>5, <2>1, <2>2 DEF Once
<1>6. CASE ~task.compose.planned
  <2>1. UNCHANGED <<task, rows>>
    BY <1>6 DEF Reconcile
  <2>2. \A m \in M, r \in Rounds : m \in rows[r] => ~Waiting(task, m)
    BY <1>6 DEF Once, Placed, PlacedWaiting
  <2> QED
    BY <1>5, <1>6, <2>1, <2>2 DEF Once
<1>7. ASSUME task.compose.planned, task' = Retired
      PROVE  /\ task'.entry = task.entry /\ task'.feedback = task.feedback
             /\ task'.compose.id = task.compose.id /\ task'.provider = task.provider
             /\ ~task'.compose.planned /\ task'.compose.receipt = task.compose.receipt
  BY <1>1, <1>7 DEF Retired, TaskType
<1>8. CASE task.compose.planned /\ Round \in final
  <2>1. task' = Retired /\ UNCHANGED rows
    BY <1>8 DEF Reconcile
  <2>2. task.compose.draft
    BY <1>8 DEF Once, Placed, PlacedDraft, Round
  <2>3. \A m \in M, r \in Rounds : m \in rows[r] => ~Waiting(task, m)
    BY <2>2 DEF Once, Placed, PlacedWaiting
  <2>4. PlacedWaiting(M, task', rows, prepared)
    BY <1>7, <1>8, <2>1, <2>3 DEF Once, Placed, PlacedWaiting, Waiting
  <2>5. \A r : Backed(task, final, r) => Backed(task', final, r)
    BY <1>7, <1>8, <2>1 DEF Backed, Round
  <2>6. \A r : Stuck(task, batch, r) => Stuck(task', batch, r)
    BY <1>7, <1>8, <2>1 DEF Stuck
  <2>7. PlacedHeld(M, task', rows, batch, prepared, final)
    BY <1>7, <1>8, <2>1, <2>5, <2>6 DEF Once, Placed, PlacedHeld
  <2>8. Placed(M, task', rows, batch, prepared, final)
    BY <1>7, <1>8, <2>1, <2>4, <2>7 DEF Placed, PlacedDraft
  <2> QED
    BY <1>5, <1>7, <1>8, <2>1, <2>3, <2>8 DEF Once, Waiting
<1>9. CASE task.compose.planned /\ Round \notin final /\ prepared[Round] # "live"
  <2>1. task' = Retired /\ DiscardRows
    BY <1>9 DEF Reconcile
  <2>2. /\ rows'[Round] = {} /\ \A r \in Rounds : r # Round => rows'[r] = rows[r]
    BY <1>1, <1>4, <1>9, <2>1 DEF DiscardRows, Round
  <2>3. \A m \in M, r \in Rounds : m \in rows'[r] =>
           m \in rows[r] /\ r # Round /\ ~Waiting(task, m)
    BY <2>2 DEF Once, Placed, PlacedWaiting, Round
  <2>4. PlacedWaiting(M, task', rows', prepared)
    BY <1>7, <1>9, <2>1, <2>3 DEF Once, Placed, PlacedWaiting, Waiting
  <2>5. \A r : Stuck(task, batch, r) => Stuck(task', batch, r)
    BY <1>7, <1>9, <2>1 DEF Stuck
  <2>6. PlacedHeld(M, task', rows', batch, prepared, final)
    BY <1>7, <1>9, <2>1, <2>3, <2>5 DEF Once, Placed, PlacedHeld, Backed, Round
  <2>7. Placed(M, task', rows', batch, prepared, final)
    BY <1>7, <1>9, <2>1, <2>4, <2>6 DEF Placed, PlacedDraft
  <2>8. Follows(M, saved, saved, rows, rows', batch, batch, prepared, prepared)
    BY <2>3 DEF Follows
  <2>9. Placed(M, saved, rows', batch, prepared, final)
    BY <1>1, <2>8, FollowsPlaced DEF Once
  <2> QED
    BY <1>5, <1>7, <1>9, <2>1, <2>3, <2>7, <2>9 DEF Waiting
<1>10. CASE task.compose.planned /\ Round \notin final /\ prepared[Round] = "live"
  <2> DEFINE S == {m \in task.compose.admitted : task.entry[m].state # "removed"}
             e == Consumed(task.entry, S)
  <2>1. task' = Restored /\ UNCHANGED rows
    BY <1>10 DEF Reconcile
  <2>2. PICK b : b = (task.compose.admitted # {})
    OBVIOUS
  <2>3. task' = [task EXCEPT !.compose.status = "completed", !.compose.draft = TRUE,
                             !.compose.receipt = b, !.entry = e,
                             !.feedback = task.feedback \ task.compose.plan]
    BY <1>1, <2>1, <2>2 DEF Restored, TaskType
  <2>4. \A m \in Messages :
           /\ m \in S => e[m].state = "consumed" /\ e[m].delivery = NoDelivery
           /\ m \notin S => e[m] = task.entry[m]
    BY DEF Consumed, NoEntry
  <2>5. \A m \in Messages : m \in S <=>
           m \in task.compose.admitted /\ task.entry[m].state # "removed"
    OBVIOUS
  <2> HIDE DEF e, S
  <2>6. /\ task'.entry = e /\ task'.feedback = task.feedback \ task.compose.plan
        /\ task'.compose.id = task.compose.id /\ task'.provider = task.provider
        /\ task'.compose.planned /\ task'.compose.draft
    BY <1>1, <1>10, <2>3 DEF TaskType
  <2>7. \A m \in M, r \in Rounds : m \in rows[r] => ~Waiting(task', m)
    <3>1. ASSUME NEW m \in M, NEW r \in Rounds, m \in rows[r]
          PROVE  ~Mutable(task.entry[m]) /\ (m \in task.feedback => m \in task.compose.plan)
      BY <1>10, <3>1 DEF Once, Placed, PlacedWaiting, Waiting, Round
    <3> QED
      BY <2>4, <2>6, <3>1 DEF Waiting, Mutable
  <2>8. PlacedWaiting(M, task', rows, prepared)
    BY <2>4, <2>6, <2>7 DEF Once, Placed, PlacedWaiting
  <2>9. ASSUME NEW m \in M, NEW r \in Rounds, m \in rows[r], e[m].delivery # NoDelivery
        PROVE  /\ e[m].delivery = r /\ prepared[r] = "live" /\ Stuck(task', batch, r)
               /\ batch[r].state = "staged"
    <3>1. m \notin S /\ e[m] = task.entry[m]
      BY <2>4, <2>9
    <3>2. /\ task.entry[m].delivery = r
          /\ Backed(task, final, r) \/ (prepared[r] = "live" /\ Stuck(task, batch, r))
          /\ prepared[r] = "live" => batch[r].state = "staged"
      BY <2>9, <3>1 DEF Once, Placed, PlacedHeld
    <3>3. ~Backed(task, final, r)
      <4>1. ASSUME r = task.compose.id PROVE FALSE
        <5>1. m \in task.compose.admitted
          BY <1>1, <2>9, <3>1, <3>2, <4>1, HeldAdmits
        <5>2. task.entry[m].state # "removed"
          BY <1>1, <2>9, <3>1 DEF Bound, InDelivery
        <5> QED
          BY <2>5, <3>1, <5>1, <5>2
      <4> QED
        BY <4>1 DEF Backed
    <3>4. batch[r].members \in SUBSET Messages
      BY <1>1 DEF Batches
    <3>5. \A k \in Messages : task.entry[k].state = "removed" => e[k].state = "removed"
      BY <2>4, <2>5
    <3> QED
      BY <2>6, <3>1, <3>2, <3>3, <3>4, <3>5 DEF Stuck
  <2>10. PlacedHeld(M, task', rows, batch, prepared, final)
    BY <2>6, <2>9 DEF PlacedHeld
  <2>11. Placed(M, task', rows, batch, prepared, final)
    BY <2>6, <2>8, <2>10 DEF Placed, PlacedDraft
  <2> QED
    BY <1>5, <1>10, <2>1, <2>6, <2>7, <2>11 DEF Once
<1> QED
  BY <1>6, <1>8, <1>9, <1>10

\* What a settlement decides of a message that has a row: consumed when the round
\* is prepared, undecided when a removal is in the way, never given back.
LEMMA DecisionPlaced ==
    ASSUME NEW M \in SUBSET Messages, NEW t \in TaskType, Bound(t.entry), Carried(t, batch),
           batch \in Batches,
           Journaled(t, rows, batch, prepared), Placed(M, t, rows, batch, prepared, final),
           NEW r \in Rounds, NEW m \in M, m \in rows[r],
           t.entry[m].delivery # NoDelivery, prepared[r] = "live"
    PROVE  /\ Decision(t, r) \in {"consumed", "none"}
           /\ Decision(t, r) = "none" => Stuck(t, batch, r)
<1>1. /\ t.entry[m].delivery = r /\ batch[r].state = "staged"
      /\ Backed(t, final, r) \/ Stuck(t, batch, r)
  BY DEF Placed, PlacedHeld
<1>2. Held(t.entry, r) # {}
  BY <1>1 DEF Held, Bound
<1>3. Held(t.entry, r) \subseteq batch[r].members /\ HeldOrRemoved(t, batch[r].members, r)
  BY <1>1, <1>2 DEF Carried
<1>4. CASE batch[r].members # Held(t.entry, r)
  <2>1. Decision(t, r) = "none"
    BY <1>1, <1>4 DEF Decision
  <2>2. PICK k \in batch[r].members : k \notin Held(t.entry, r)
    BY <1>3, <1>4
  <2>3. Stuck(t, batch, r)
    BY <1>1, <1>3, <2>2 DEF HeldOrRemoved, Stuck
  <2> QED
    BY <2>1, <2>3
<1>5. CASE batch[r].members = Held(t.entry, r)
  <2>1. ~Stuck(t, batch, r)
    BY <1>5 DEF Stuck, Held, InDelivery
  <2>2. Backed(t, final, r)
    BY <1>1, <2>1
  <2>3. Decision(t, r) = "consumed"
    BY <1>1, <1>5, <2>2 DEF Decision, Backed
  <2> QED
    BY <2>3
<1> QED
  BY <1>4, <1>5

\* What a round holds is in the batch it staged.
LEMMA HeldIsStaged ==
    ASSUME NEW t, Bound(t.entry), Carried(t, batch), NEW r \in Rounds,
           NEW m \in Messages, t.entry[m].delivery = r, batch[r].state = "staged"
    PROVE  m \in batch[r].members
<1>1. m \in Held(t.entry, r)
  BY Names DEF Bound, Held
<1> QED
  BY <1>1 DEF Carried

\* A settlement retracts no batch that is in the conversation, if it has one of M.
LEMMA RetractedPlaced ==
    ASSUME NEW M \in SUBSET Messages, NEW t \in TaskType, Bound(t.entry), Carried(t, batch),
           batch \in Batches, Journaled(t, rows, batch, prepared), Batched, Retract(t),
           Placed(M, t, rows, batch, prepared, final),
           NEW r \in Rounds, prepared[r] = "live", M \cap batch[r].members # {}
    PROVE  batch'[r] = batch[r]
<1> SUFFICES ASSUME Decision(t, r) = "retracted", batch[r].state = "staged"
             PROVE  FALSE
  BY DEF Retract, Retracted
<1>1. PICK m \in M : m \in batch[r].members
  OBVIOUS
<1>2. batch[r].members = Held(t.entry, r)
  BY DEF Decision
<1>3. m \in rows[r]
  BY <1>1 DEF Batched
<1>4. t.entry[m].delivery # NoDelivery
  BY <1>1, <1>2, Names DEF Held
<1> QED
  BY <1>3, <1>4, DecisionPlaced

LEMMA RetractPlaced ==
    ASSUME NEW M \in SUBSET Messages, NEW u, Bound(u.entry), Carried(u, batch),
           Placed(M, u, rows, batch, prepared, final),
           NEW b, \A r \in Rounds :
                     prepared[r] = "live" /\ M \cap batch[r].members # {} => b[r] = batch[r]
    PROVE  Placed(M, u, rows, b, prepared, final)
<1>1. ASSUME NEW m \in M, NEW r \in Rounds, m \in rows[r], u.entry[m].delivery # NoDelivery
      PROVE  /\ u.entry[m].delivery = r
             /\ Backed(u, final, r) \/ (prepared[r] = "live" /\ Stuck(u, b, r))
             /\ prepared[r] = "live" => b[r].state = "staged"
  <2>1. /\ u.entry[m].delivery = r
        /\ Backed(u, final, r) \/ (prepared[r] = "live" /\ Stuck(u, batch, r))
        /\ prepared[r] = "live" => batch[r].state = "staged"
    BY <1>1 DEF Placed, PlacedHeld
  <2>2. prepared[r] = "live" => m \in batch[r].members
    BY <2>1, HeldIsStaged
  <2>3. prepared[r] = "live" => b[r] = batch[r]
    BY <2>2
  <2> QED
    BY <2>1, <2>3 DEF Stuck
<1>2. PlacedHeld(M, u, rows, b, prepared, final)
  BY <1>1 DEF PlacedHeld
<1> QED
  BY <1>2 DEF Placed

LEMMA DecideOnce ==
    ASSUME NEW M \in SUBSET Messages, IInv, Once(M), Decide
    PROVE  Once(M)'
<1> DEFINE e == Decided(task, task.entry)
<1>1. /\ halt = "deciding" /\ halt' = "no" /\ Retract(task)
      /\ UNCHANGED <<saved, owed, composer, sender, rows, prepared, final, opened>>
  BY DEF Decide, counters
<1>2. /\ task \in TaskType /\ Bound(task.entry) /\ Carried(task, batch) /\ batch \in Batches
      /\ Journaled(task, rows, batch, prepared) /\ Batched
      /\ Placed(M, task, rows, batch, prepared, final)
  BY Types DEF IInv, Sound, Once
<1>3. /\ owed = "none" /\ composer = "off" /\ sender = "off"
      /\ task.compose.status = "running" => task.compose.admitted = {}
  BY <1>1, AtRest
<1>4. /\ task'.entry = e /\ task'.feedback = task.feedback /\ task'.compose = task.compose
      /\ task'.provider = task.provider
  BY <1>2 DEF Decide, TaskType
<1>5. \A r \in Rounds :
         prepared[r] = "live" /\ M \cap batch[r].members # {} => batch'[r] = batch[r]
  BY <1>1, <1>2, RetractedPlaced
<1>6. ASSUME NEW m \in Messages
      PROVE  LET y == task.entry[m] IN
             \/ e[m] = y /\ (y.state \in InDelivery => y.delivery \notin Rounds)
             \/ /\ y.state \in InDelivery /\ y.delivery \in Rounds
                /\ \/ /\ Decision(task, y.delivery) = "none"
                      /\ e[m].state = "uncertain" /\ e[m].delivery = y.delivery
                   \/ /\ Decision(task, y.delivery) = "consumed"
                      /\ e[m].state = "consumed" /\ e[m].delivery = NoDelivery
                   \/ /\ Decision(task, y.delivery) \notin {"none", "consumed"}
                      /\ e[m].state = "released" /\ e[m].delivery = NoDelivery
  BY <1>2, DecidedFields
<1> HIDE DEF e
<1>7. ASSUME NEW r \in Rounds, Stuck(task, batch, r), prepared[r] = "live",
             M \cap batch[r].members # {}
      PROVE  Stuck(task', batch', r)
  <2>1. batch[r].members \in SUBSET Messages
    BY <1>2 DEF Batches
  <2>2. \A k \in Messages : task.entry[k].state = "removed" => e[k].state = "removed"
    BY <1>6 DEF InDelivery
  <2> QED
    BY <1>4, <1>5, <1>7, <2>1, <2>2 DEF Stuck
<1>8. ASSUME NEW m \in M, NEW r \in Rounds, m \in rows[r]
      PROVE  /\ e[m].state = "none" => task.entry[m].state = "none"
             /\ ~Waiting(task', m)
             /\ e[m].delivery # NoDelivery =>
                   /\ e[m].delivery = r /\ prepared[r] = "live" /\ Stuck(task', batch', r)
  <2>1. ~Waiting(task, m)
    BY <1>1, <1>3, <1>8 DEF Once, WaitingIsClear, Stopping
  <2>2. CASE task.entry[m].delivery = NoDelivery
    <3>1. e[m] = task.entry[m]
      BY <1>2, <1>6, <2>2 DEF Bound
    <3> QED
      BY <1>4, <2>1, <2>2, <3>1 DEF Waiting
  <2>3. CASE task.entry[m].delivery # NoDelivery
    <3>1. /\ task.entry[m].delivery = r
          /\ Backed(task, final, r) \/ prepared[r] = "live"
          /\ prepared[r] = "live" => batch[r].state = "staged"
      BY <1>2, <1>8, <2>3 DEF Placed, PlacedHeld
    <3>2. prepared[r] = "live"
      BY <1>1, <1>2, <3>1 DEF Backed, Journaled, Once, Undecided, Round
    <3>3. /\ Decision(task, r) \in {"consumed", "none"}
          /\ Decision(task, r) = "none" => Stuck(task, batch, r)
      BY <1>2, <1>8, <2>3, <3>2, DecisionPlaced
    <3>4. task.entry[m].state \in InDelivery
      BY <1>2, <2>3 DEF Bound
    <3>5. /\ e[m].state \in {"uncertain", "consumed"}
          /\ e[m].delivery # NoDelivery => e[m].delivery = r /\ Stuck(task, batch, r)
      BY <1>6, <3>1, <3>3, <3>4
    <3>6. m \notin task.feedback
      BY <2>1 DEF Waiting
    <3>7. m \in batch[r].members
      BY <1>2, <3>1, <3>2, HeldIsStaged
    <3> QED
      BY <1>4, <1>7, <3>2, <3>5, <3>6, <3>7 DEF Waiting, Mutable
  <2> QED
    BY <2>2, <2>3
<1>9. PlacedWaiting(M, task', rows, prepared)
  BY <1>2, <1>4, <1>8 DEF Placed, PlacedWaiting
<1>10. PlacedHeld(M, task', rows, batch', prepared, final)
  BY <1>4, <1>8 DEF PlacedHeld, Stuck
<1>11. Placed(M, task', rows', batch', prepared', final')
  BY <1>1, <1>2, <1>4, <1>9, <1>10 DEF Placed, PlacedDraft
<1>12. Placed(M, saved', rows', batch', prepared', final')
  <2>1. Bound(saved.entry) /\ Carried(saved, batch)
        /\ Placed(M, saved, rows, batch, prepared, final)
    BY Types DEF IInv, Sound, Once
  <2>2. Placed(M, saved, rows, batch', prepared, final)
    BY <1>5, <2>1, RetractPlaced
  <2> QED
    BY <1>1, <2>2
<1>13. OneRow(M)' /\ Abreast' /\ PlanIsClear(M)' /\ WaitingIsClear(M)'
  BY <1>1, <1>3, <1>4, <1>8 DEF Once, OneRow, Abreast, PlanIsClear, WaitingIsClear, Round
<1>14. Undecided(M)'
  <2>1. ASSUME NEW m \in M, e[m].state = "uncertain"
        PROVE  /\ task.entry[m].delivery # NoDelivery
               /\ e[m].delivery = task.entry[m].delivery
    BY <1>2, <1>6, <2>1 DEF Bound, InDelivery
  <2>2. ASSUME NEW m \in M, e[m].state = "uncertain",
               task.compose.status = "running", e[m].delivery = task.compose.id
        PROVE  FALSE
    <3>1. m \in task.compose.admitted
      BY <1>2, <2>1, <2>2, HeldAdmits
    <3> QED
      BY <1>3, <2>2, <3>1
  <2> QED
    BY <1>1, <1>4, <1>8, <2>1, <2>2 DEF Undecided, Round
<1> QED
  BY <1>11, <1>12, <1>13, <1>14 DEF Once

LEMMA CrashOnce ==
    ASSUME NEW M \in SUBSET Messages, IInv, Once(M), Crash
    PROVE  Once(M)'
<1> DEFINE d == Decided(saved, saved.entry)
           e == Normalized(d)
<1>1. /\ owed' = "none" /\ composer' = "off" /\ sender' = "off" /\ halt' = "settling"
      /\ Retract(saved)
      /\ task' = [Hydrate(saved) EXCEPT !.entry = e, !.turn = "recovery"]
      /\ UNCHANGED <<saved, rows, prepared, final, opened>>
  BY DEF Crash
<1>2. /\ saved \in TaskType /\ Bound(saved.entry) /\ Carried(saved, batch) /\ batch \in Batches
      /\ Journaled(saved, rows, batch, prepared) /\ Batched /\ Shaped(saved) /\ Answers(saved)
      /\ Placed(M, saved, rows, batch, prepared, final)
  BY Types DEF IInv, Sound, Once
<1>3. /\ task'.entry = e /\ task'.feedback = saved.feedback
      /\ task'.provider.id \in {0, saved.provider.id}
      /\ task'.compose.id \in {0, saved.compose.id}
      /\ task'.compose.planned => saved.compose.planned
      /\ saved.compose.planned =>
            /\ task'.compose.id = saved.compose.id /\ task'.compose.planned
            /\ task'.compose.plan = saved.compose.plan
            /\ task'.compose.draft = saved.compose.draft
            /\ task'.compose.receipt = saved.compose.receipt
  <2> HIDE DEF e
  <2>1. CASE saved.phase = "error"
    BY <1>1, <1>2, <2>1 DEF Hydrate, TaskType
  <2>2. CASE saved.phase # "error" /\ ~saved.compose.planned
    BY <1>1, <1>2, <2>2 DEF Hydrate, TaskType, NoCompose, NoProvider
  <2>3. CASE saved.phase # "error" /\ saved.compose.planned
    <3>1. PICK c : c = IF saved.compose.status = "running"
                       THEN [saved.compose EXCEPT !.status = "cancelled"] ELSE saved.compose
      OBVIOUS
    <3>2. /\ c.id = saved.compose.id /\ c.planned = saved.compose.planned
          /\ c.plan = saved.compose.plan /\ c.draft = saved.compose.draft
          /\ c.receipt = saved.compose.receipt
      BY <1>2, <3>1 DEF TaskType
    <3>3. task' = [saved EXCEPT !.phase = "paused", !.provider = NoProvider, !.compose = c,
                                !.entry = e, !.turn = "recovery"]
      BY <1>1, <1>2, <2>3, <3>1 DEF Hydrate, TaskType
    <3> QED
      BY <1>2, <2>3, <3>2, <3>3 DEF TaskType, NoProvider
  <2> QED
    BY <2>1, <2>2, <2>3
<1>4. \A r \in Rounds :
         prepared[r] = "live" /\ M \cap batch[r].members # {} => batch'[r] = batch[r]
  BY <1>1, <1>2, RetractedPlaced
<1>5. ASSUME NEW m \in Messages
      PROVE  LET y == saved.entry[m] IN
             /\ d[m] \in Entry
             /\ \/ d[m] = y /\ (y.state \in InDelivery => y.delivery \notin Rounds)
                \/ /\ y.state \in InDelivery /\ y.delivery \in Rounds
                   /\ \/ /\ Decision(saved, y.delivery) = "none"
                         /\ d[m].state = "uncertain" /\ d[m].delivery = y.delivery
                      \/ /\ Decision(saved, y.delivery) = "consumed"
                         /\ d[m].state = "consumed" /\ d[m].delivery = NoDelivery
                      \/ /\ Decision(saved, y.delivery) \notin {"none", "consumed"}
                         /\ d[m].state = "released" /\ d[m].delivery = NoDelivery
  BY <1>2, DecidedFields
<1>6. d \in Entries
  BY <1>5 DEF Decided, Entries
<1>7. \A m \in Messages :
         \/ e[m] = d[m]
         \/ /\ d[m].state = "reserved" /\ d[m].delivery = TurnEnd
            /\ e[m].state = "released" /\ e[m].delivery = NoDelivery
  BY <1>6, NormalizedFields
<1> HIDE DEF d, e
<1>8. ASSUME NEW r \in Rounds, Stuck(saved, batch, r), prepared[r] = "live",
             M \cap batch[r].members # {}
      PROVE  Stuck(task', batch', r)
  <2>1. batch[r].members \in SUBSET Messages
    BY <1>2 DEF Batches
  <2>2. \A k \in Messages : saved.entry[k].state = "removed" => e[k].state = "removed"
    BY <1>5, <1>7 DEF InDelivery
  <2> QED
    BY <1>3, <1>4, <1>8, <2>1, <2>2 DEF Stuck
<1>9. ASSUME NEW r \in Rounds, Backed(saved, final, r), prepared[r] # "live"
      PROVE  /\ r = saved.compose.id /\ saved.compose.planned /\ r \notin final
             /\ ~saved.compose.receipt
  BY <1>2, <1>9 DEF Backed, Journaled
<1>10. ASSUME NEW m \in M, NEW r \in Rounds, m \in rows[r],
              saved.entry[m].delivery = NoDelivery
       PROVE  e[m] = saved.entry[m]
  <2>1. saved.entry[m].state \notin InDelivery
    BY <1>2, <1>10 DEF Bound
  <2>2. d[m] = saved.entry[m]
    BY <1>5, <2>1
  <2> QED
    BY <1>7, <2>1, <2>2 DEF InDelivery
<1>11. ASSUME NEW m \in M, NEW r \in Rounds, m \in rows[r],
              saved.entry[m].delivery # NoDelivery
       PROVE  /\ e[m].state \in {"uncertain", "consumed", "released"}
              /\ m \notin saved.feedback
              /\ e[m].delivery # NoDelivery =>
                    /\ e[m].delivery = r
                    /\ Backed(task', final, r) \/ (prepared[r] = "live" /\ Stuck(task', batch', r))
                    /\ prepared[r] = "live" => batch'[r].state = "staged"
              /\ e[m].state = "released" =>
                    /\ r = saved.compose.id /\ saved.compose.planned
                    /\ m \in saved.compose.plan /\ ~saved.compose.draft
                    /\ prepared[r] # "live"
  <2>1. /\ saved.entry[m].delivery = r
        /\ Backed(saved, final, r) \/ (prepared[r] = "live" /\ Stuck(saved, batch, r))
        /\ prepared[r] = "live" => batch[r].state = "staged"
    BY <1>2, <1>11 DEF Placed, PlacedHeld
  <2>2. saved.entry[m].state \in InDelivery
    BY <1>2, <1>11 DEF Bound
  <2>3. m \notin saved.feedback
    BY <1>2, <2>2 DEF Answers, InDelivery
  <2>4. e[m] = d[m] /\ d[m].state # "reserved"
    BY <1>5, <1>7, <2>1, <2>2
  <2>5. CASE prepared[r] = "live"
    <3>1. /\ Decision(saved, r) \in {"consumed", "none"}
          /\ Decision(saved, r) = "none" => Stuck(saved, batch, r)
      BY <1>2, <1>11, <2>5, DecisionPlaced
    <3>2. /\ e[m].state \in {"uncertain", "consumed"}
          /\ e[m].delivery # NoDelivery => e[m].delivery = r /\ Stuck(saved, batch, r)
      BY <1>5, <2>1, <2>2, <2>4, <3>1
    <3>3. m \in batch[r].members
      BY <1>2, <2>1, <2>5, HeldIsStaged
    <3>4. batch'[r].state = "staged"
      BY <1>4, <2>1, <2>5, <3>3
    <3> QED
      BY <1>8, <2>3, <2>5, <3>2, <3>3, <3>4
  <2>6. CASE prepared[r] # "live"
    <3>1. /\ r = saved.compose.id /\ saved.compose.planned /\ r \notin final
          /\ ~saved.compose.receipt
      BY <1>9, <2>1, <2>6
    <3>2. Backed(task', final, r)
      BY <1>3, <3>1 DEF Backed
    <3>3. m \in saved.compose.admitted
      BY <1>2, <1>11, <2>1, <3>1, HeldAdmits
    <3>4. m \in saved.compose.plan /\ ~saved.compose.draft
      BY <1>2, <3>1, <3>3 DEF Shaped
    <3>5. /\ e[m].state \in {"uncertain", "consumed", "released"}
          /\ e[m].delivery # NoDelivery => e[m].delivery = r
      BY <1>5, <2>1, <2>2, <2>4
    <3> QED
      BY <2>3, <2>6, <3>1, <3>2, <3>4, <3>5
  <2> QED
    BY <2>5, <2>6
<1>12. PlacedWaiting(M, task', rows, prepared)
  <2>1. ASSUME NEW m \in M, NEW r \in Rounds, m \in rows[r]
        PROVE  /\ e[m].state # "none"
               /\ Waiting(task', m) =>
                     /\ r = saved.compose.id /\ saved.compose.planned
                     /\ m \in saved.compose.plan /\ ~saved.compose.draft
                     /\ Mutable(e[m]) => prepared[r] # "live"
    <3>1. CASE saved.entry[m].delivery = NoDelivery
      <4>1. e[m] = saved.entry[m]
        BY <1>10, <2>1, <3>1
      <4>2. Waiting(task', m) => Waiting(saved, m)
        BY <1>3, <4>1 DEF Waiting
      <4> QED
        BY <1>2, <2>1, <4>1, <4>2 DEF Placed, PlacedWaiting
    <3>2. CASE saved.entry[m].delivery # NoDelivery
      <4>1. Waiting(task', m) => e[m].state = "released"
        BY <1>3, <1>11, <2>1, <3>2 DEF Waiting, Mutable
      <4> QED
        BY <1>11, <2>1, <3>2, <4>1
    <3> QED
      BY <3>1, <3>2
  <2> QED
    BY <1>3, <2>1 DEF PlacedWaiting
<1>13. PlacedHeld(M, task', rows, batch', prepared, final)
  <2>1. ASSUME NEW m \in M, NEW r \in Rounds, m \in rows[r], e[m].delivery # NoDelivery
        PROVE  saved.entry[m].delivery # NoDelivery
    BY <1>10, <2>1
  <2> QED
    BY <1>3, <1>11, <2>1 DEF PlacedHeld
<1>14. PlacedDraft(task', final)
  BY <1>2, <1>3 DEF Placed, PlacedDraft, Shaped
<1>15. Placed(M, task', rows', batch', prepared', final')
  BY <1>1, <1>12, <1>13, <1>14 DEF Placed
<1>16. Placed(M, saved', rows', batch', prepared', final')
  BY <1>1, <1>2, <1>4, RetractPlaced
<1>17. Abreast'
  <2>1. saved.compose.id \in Nat
    BY <1>2, TaskFields
  <2> QED
    BY <1>1, <1>3, <2>1 DEF Once, Abreast, Round
<1>18. OneRow(M)' /\ PlanIsClear(M)' /\ WaitingIsClear(M)' /\ Undecided(M)'
  BY <1>1 DEF Once, OneRow, PlanIsClear, WaitingIsClear, Undecided, Stopping
<1> QED
  BY <1>15, <1>16, <1>17, <1>18 DEF Once

-----------------------------------------------------------------------------
(* Each message is sent once.                                               *)

LEMMA NextOnce ==
    ASSUME NEW M \in SUBSET Messages, IInv, Once(M), [Next]_vars, M \cap leftover' = {}
    PROVE  Once(M)'
<1>1. CASE UNCHANGED vars
  BY <1>1 DEF vars, journal, counters, Once, OneRow, Abreast, PlanIsClear, WaitingIsClear,
              Undecided, Round
<1>2. CASE Submit \/ ToolsSettle
  <2>1. M \cap InState(task.entry, "included") = {}
    BY <1>2 DEF Submit, ToolsSettle, OpenRound
  <2> QED
    BY <1>2, <2>1, OpenOnce
<1>3. CASE Next /\ ~Submit /\ ~ToolsSettle
  <2>1. Typed
    BY DEF IInv
  <2> QED
    BY <1>3, <2>1, SaveOnce, QueueOnce, AppendRowOnce, RetryOnce, TurnEndOnce, FlowOnce,
       FreezeOnce, StageOnce, PrepareOnce, CompleteRoundOnce, EndRoundOnce, SendOnce,
       JournalResultOnce, TurnReadyOnce, CancelOnce, ReconcileOnce, DecideOnce, CrashOnce
       DEF Next
<1> QED
  BY <1>1, <1>2, <1>3

LEMMA OnceSendsOnce == ASSUME NEW m \in Messages, Once({m}) PROVE SentOnceBy(m)
<1>1. Cardinality(LiveIn(m)) <= 1
  <2>1. CASE LiveIn(m) = {}
    BY <2>1, FS_EmptySet
  <2>2. CASE LiveIn(m) # {}
    <3>1. PICK r \in Rounds : m \in rows[r]
      BY <2>2 DEF LiveIn
    <3>2. LiveIn(m) = {r}
      BY <3>1 DEF LiveIn, Once, OneRow
    <3>3. Cardinality({r}) = 1
      BY FS_Singleton
    <3> QED
      BY <3>2, <3>3
  <2> QED
    BY <2>1, <2>2
<1>2. halt = "no" /\ composer = "off" /\ Waiting(task, m) => LiveIn(m) = {}
  BY DEF Once, WaitingIsClear, LiveIn, Stopping
<1> QED
  BY <1>1, <1>2 DEF SentOnceBy, Waiting

\* What is left over stays so: the history variable only grows.
LEMMA LeftStays == ASSUME [Next]_vars PROVE leftover \subseteq leftover'
  BY DEF Next, vars, counters, OnlyTask, Save, Enqueue, Toggle, StartEdit, EndEdit, Remove,
         AppendRow, Submit, ToolsSettle, OpenRound, Retry, ReserveTurnEnd, Materialize, Respond,
         GiveBack, AnswerByHand, Take, Freeze, Stage, Prepare, CompleteRound, RefuseRound,
         FailRound, WithdrawRound, StopRound, Send, JournalResult, TurnReady, FailRequest,
         StopRequest, Cancel, Stop, HaltDone, Reconcile, Decide, Crash

EachOnce == \A m \in Messages \ leftover : Once({m})

\* Every message that no failed request held when a later round was opened is in
\* the conversation at most once, and never while it is also waiting to be sent,
\* whatever is cancelled, fails or crashes and in whatever order, and whatever
\* becomes of the messages that were left over: they can share its batch, have their
\* own settled late or be sent again (intake.ts, RetainedQueueSettlement).
THEOREM EachIsSentOnce == Spec => []OnlyLeftAreResent
<1>1. Init => IInv /\ EachOnce
  BY InitIInv, InitOnce DEF EachOnce
<1>2. IInv /\ EachOnce /\ [Next]_vars => (IInv /\ EachOnce)'
  <2> SUFFICES ASSUME IInv, EachOnce, [Next]_vars
               PROVE  IInv' /\ EachOnce'
    OBVIOUS
  <2>1. ASSUME NEW m \in Messages, m \notin leftover'
        PROVE  Once({m})'
    <3>1. m \notin leftover
      BY <2>1, LeftStays
    <3>2. Once({m})
      BY <3>1 DEF EachOnce
    <3> QED
      BY <2>1, <3>2, NextOnce
  <2>2. EachOnce'
    BY <2>1 DEF EachOnce
  <2> QED
    BY <2>2, NextIInv
<1>3. IInv /\ EachOnce => OnlyLeftAreResent
  BY OnceSendsOnce DEF EachOnce, OnlyLeftAreResent
<1> QED
  BY <1>1, <1>2, <1>3, PTL DEF Spec

=============================================================================
