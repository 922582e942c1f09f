--------------------------- MODULE ToolTurnProofs ---------------------------
(***************************************************************************)
(* Proofs about the tool calls of a turn, for any number of blocks, any    *)
(* lanes and any ceilings: the pool never shares a lane, an ending block   *)
(* runs after and without everything else, what runs is what the kernel    *)
(* holds executing, nobody overtakes on a lane, no decision goes over the  *)
(* ceiling, and no block that could run is left waiting.                   *)
(***************************************************************************)
EXTENDS ToolTurn, FiniteSetTheorems, WellFoundedInduction, TLAPS

Gone == {"dropped", "done"}
Begun == {"starting", "accepted", "effect", "reporting", "leaving", "done"}
InFlight == {"accepted", "effect", "reporting"}

-----------------------------------------------------------------------------
(* The pool, as a predicate of the plan p, the stages s, the block c that   *)
(* closed the turn and whether the pool was cancelled.                      *)

Exclusive(p, s) ==
    \A b, c \in Running(s) : b # c => p.lanes[b] \intersect p.lanes[c] = {}

Alone(p, s) == \A e \in p.ending \intersect Running(s) : Running(s) = {e}

\* The ending block that began has nothing before it and nothing behind it.
TurnClosed(p, s, c) ==
    /\ c # Unset =>
          /\ c \in p.ending
          /\ s[c] \in Begun
          /\ \A b \in Blocks : b < c => s[b] \in Gone
    /\ \A b \in Blocks : c < b => s[b] \in Gone \union {"unreleased"}

\* An ending block in the pool has every earlier block behind it, and one that
\* is past admission closed the turn unless the pool was cancelled.
Drained(p, s, c, cl) ==
    \A e \in p.ending :
        /\ s[e] \in Holding => \A b \in Blocks : b < e => s[b] \in Gone
        /\ s[e] \in Begun \union {"dropped"} => c <= e \/ cl

\* A cancelled pool has nothing left to start.
Emptied(s, cl) == cl => \A b \in Blocks : s[b] \notin {"queued", "granted"}

PoolOK(p, s, c, cl) ==
    /\ Exclusive(p, s)
    /\ Alone(p, s)
    /\ TurnClosed(p, s, c)
    /\ Drained(p, s, c, cl)
    /\ Emptied(s, cl)

-----------------------------------------------------------------------------
(* The executor and the kernel.                                             *)

\* Commands name blocks that are decided and not yet in the pool, each once.
RunsFresh ==
    /\ \A i \in 1..Len(runs) : \A b \in runs[i] :
          stage[b] = "unreleased" /\ phase[b] # "asked"
    /\ \A i, j \in 1..Len(runs) : i # j => runs[i] \intersect runs[j] = {}

\* How the kernel's phase and the executor's stage of a block correspond.
Matched ==
    \A b \in Blocks :
        /\ stage[b] # "unreleased" => phase[b] # "asked"
        /\ stage[b] \in InFlight => phase[b] = "executing"
        /\ ~stopped /\ phase[b] = "executing" => stage[b] \in InFlight
        /\ ~stopped /\ stage[b] \in Gone \union {"leaving"} =>
              phase[b] \in Terminal \/ closing < b

\* Why a pool is cancelled, and what a settled turn is.
ClosedForGood ==
    /\ closed => stopped \/ settled
    /\ settled => AllTerminal(phase)

\* The kernel holds an ending block executing only after all earlier ones ended.
EndingAfterAll ==
    \A e \in plan.ending : phase[e] = "executing" =>
        \A b \in Blocks : b < e => phase[b] \in Terminal

IInv == /\ TypeOK
        /\ PoolOK(plan, stage, closing, closed)
        /\ RunsFresh
        /\ Matched
        /\ ClosedForGood
        /\ EndingAfterAll

\* Stages after block b moved on to v, or after ending block b began.
MovedOn(s, b, v) == {[s EXCEPT ![b] = v]}
BegunAlone(s, b) == {SkipBlocksAfter([s EXCEPT ![b] = "starting"], b)}

-----------------------------------------------------------------------------
(* One scheduling decision.                                                 *)

\* A decision grants admissible waiting blocks and touches nothing else.
LEMMA ScheduledGrants ==
    ASSUME NEW p, NEW s \in [Blocks -> Stages], NEW l, NEW t \in Scheduled(p, s, l)
    PROVE  \E A \in SUBSET Waiting(s) :
              /\ t = Granted(s, A)
              /\ \A b \in A : Admissible(p, s, l, A, b)
  BY DEF Scheduled, Decision

\* Stages stay typed, and the pool's invariant survives the decision.
LEMMA SchedulePool ==
    ASSUME NEW p \in Plans, NEW s \in [Blocks -> Stages], NEW l,
           NEW c \in 0..Unset, NEW cl \in BOOLEAN,
           PoolOK(p, s, c, cl), NEW t \in Scheduled(p, s, l)
    PROVE  /\ t \in [Blocks -> Stages]
           /\ PoolOK(p, t, c, cl)
           /\ \A b \in Blocks : t[b] = s[b] \/ (s[b] = "queued" /\ t[b] = "granted")
<1>1. PICK A \in SUBSET Waiting(s) :
         /\ t = Granted(s, A)
         /\ \A b \in A : Admissible(p, s, l, A, b)
  BY ScheduledGrants
<1>2. /\ t \in [Blocks -> Stages]
      /\ \A b \in Blocks : t[b] = IF b \in A THEN "granted" ELSE s[b]
      /\ \A b \in A : b \in Blocks /\ s[b] = "queued"
  BY <1>1 DEF Granted, Waiting, Stages, Holding
<1>3. Running(t) = Running(s) \union A
  BY <1>2 DEF Running, Holding
<1>4. Running(s) \subseteq Blocks /\ A \subseteq Blocks /\ Blocks \subseteq Nat
  BY <1>2, TurnAssumption DEF Running, Blocks
<1>5. ASSUME NEW b \in A
      PROVE  /\ Running(s) \intersect p.ending = {}
             /\ b \in p.ending =>
                   /\ Running(s) = {}
                   /\ \A x \in A : ~(x < b)
                   /\ \A x \in Waiting(s) \ A : ~(x < b)
                   /\ ~Unfinished(p, s)
             /\ b \notin p.ending =>
                   /\ \A x \in Waiting(s) : x < b => x \notin p.ending
                   /\ \A x \in Running(s) : p.lanes[b] \intersect p.lanes[x] = {}
                   /\ \A x \in A : x < b => p.lanes[b] \intersect p.lanes[x] = {}
  <2>1. Admissible(p, s, l, A, b)
    BY <1>1, <1>5
  <2>2. CASE b \in p.ending
    BY <2>1, <2>2 DEF Admissible, MayEnd, Earlier
  <2>3. CASE b \notin p.ending
    BY <2>1, <2>3 DEF Admissible, MayRun, Earlier, Conflict
  <2> QED
    BY <2>2, <2>3
<1>6. A \subseteq Waiting(s)
  OBVIOUS
<1>7. Exclusive(p, t)
  <2>1. SUFFICES ASSUME NEW b \in Running(t), NEW x \in Running(t), b # x
                 PROVE  p.lanes[b] \intersect p.lanes[x] = {}
    BY DEF Exclusive
  <2>2. CASE b \in Running(s) /\ x \in Running(s)
    BY <2>1, <2>2 DEF PoolOK, Exclusive
  <2>3. CASE b \in A /\ x \in Running(s)
    BY <2>3, <1>5
  <2>4. CASE b \in Running(s) /\ x \in A
    BY <2>4, <1>5
  <2>5. CASE b \in A /\ x \in A
    <3>1. b < x \/ x < b
      BY <2>1, <2>5, <1>4
    <3> QED
      BY <3>1, <2>5, <1>5, <1>6
  <2> QED
    BY <2>2, <2>3, <2>4, <2>5, <1>3
<1>8. ASSUME NEW e \in p.ending \intersect Running(t)
      PROVE  /\ Running(t) = {e}
             /\ e \in A \/ A = {}
  <2>1. CASE e \in A
    <3>1. ASSUME NEW x \in A PROVE x = e
      <4>1. x \in Blocks /\ e \in Blocks
        BY <1>4, <2>1
      <4>2. x = e \/ x < e \/ e < x
        BY <4>1, <1>4
      <4> QED
        BY <4>2, <2>1, <1>5, <1>6
    <3> QED
      BY <3>1, <2>1, <1>3, <1>5
  <2>2. CASE e \notin A
    <3>1. e \in Running(s)
      BY <2>2, <1>3
    <3>2. A = {}
      BY <3>1, <1>5
    <3> QED
      BY <3>1, <3>2, <1>3 DEF PoolOK, Alone
  <2> QED
    BY <2>1, <2>2
<1>9. TurnClosed(p, t, c)
  <2>1. c # Unset => c \in Blocks
    BY DEF PoolOK, TurnClosed, Plans
  <2> QED
    BY <2>1, <1>2 DEF PoolOK, TurnClosed, Gone, Begun
<1>10. Drained(p, t, c, cl)
  <2>1. SUFFICES ASSUME NEW e \in p.ending
                 PROVE  /\ t[e] \in Holding => \A b \in Blocks : b < e => t[b] \in Gone
                        /\ t[e] \in Begun \union {"dropped"} => c <= e \/ cl
    BY DEF Drained
  <2>2. e \in Blocks
    BY DEF Plans
  <2>3. t[e] \in Begun \union {"dropped"} => c <= e \/ cl
    BY <2>2, <1>2 DEF PoolOK, Drained, Begun
  <2>4. CASE e \notin A
    BY <2>2, <2>3, <2>4, <1>2 DEF PoolOK, Drained, Holding, Gone
  <2>5. CASE e \in A
    <3>1. SUFFICES ASSUME NEW b \in Blocks, b < e
                   PROVE  t[b] \in Gone
      BY <2>3
    <3>2. b \notin Running(s) /\ b \notin Waiting(s)
      BY <3>1, <2>5, <1>5
    <3>3. ASSUME NEW x \in Blocks, x < e, x \in Released(s)
          PROVE  s[x] \in Gone
      <4>1. x \notin Running(s) /\ x \notin Waiting(s)
        BY <3>3, <2>5, <1>5
      <4> QED
        BY <4>1, <3>3 DEF Running, Waiting, Released, Stages, Gone
    <3>4. b \in Released(s)
      <4>1. SUFFICES ASSUME b \notin Released(s)
                     PROVE  FALSE
        OBVIOUS
      <4>2. e \in p.ending \intersect Released(s)
        BY <2>2, <2>5, <1>2 DEF Released
      <4>3. PICK f \in p.ending \intersect Released(s) : ~(b < f)
        BY <4>1, <4>2, <2>5, <1>5 DEF Unfinished
      <4>4. f \in Blocks /\ f < e
        BY <4>1, <4>3, <3>1, <2>2, <1>4 DEF Plans, Released
      <4>5. s[f] \in Gone
        BY <4>3, <4>4, <3>3
      <4>6. c <= f \/ cl
        BY <4>3, <4>5 DEF PoolOK, Drained, Gone, Begun
      <4>7. ~cl
        BY <2>2, <2>5, <1>2 DEF PoolOK, Emptied
      <4>8. c < e
        BY <4>4, <4>6, <4>7, <2>2, <1>4, TurnAssumption DEF Unset
      <4>9. s[e] \in Gone \union {"unreleased"}
        BY <4>8, <2>2 DEF PoolOK, TurnClosed
      <4> QED
        BY <4>9, <2>5, <1>2 DEF Gone
    <3>5. s[b] \in Gone
      BY <3>1, <3>3, <3>4
    <3> QED
      BY <3>5, <1>2 DEF Gone
  <2> QED
    BY <2>4, <2>5
<1>11. Emptied(t, cl)
  BY <1>2 DEF PoolOK, Emptied
<1> QED
  BY <1>2, <1>7, <1>8, <1>9, <1>10, <1>11 DEF PoolOK, Alone

-----------------------------------------------------------------------------
(* The invariant holds initially and every action keeps it.                 *)

LEMMA InitIInv == Init => IInv
<1> SUFFICES ASSUME Init PROVE IInv
  OBVIOUS
<1>1. Blocks \subseteq Nat /\ Unset \in Nat /\ \A b \in Blocks : b < Unset
  BY TurnAssumption DEF Blocks, Unset
<1>2. TypeOK
  <2>1. phase \in [Blocks -> Phases] /\ stage \in [Blocks -> Stages]
    BY DEF Init, Phases, Stages
  <2>2. runs \in Seq(SUBSET Blocks)
    <3>1. CASE plan.asked = Blocks
      BY <3>1 DEF Init
    <3>2. CASE plan.asked # Blocks
      <4>1. (Blocks \ plan.asked) \in SUBSET Blocks
        OBVIOUS
      <4> QED
        BY <3>2, <4>1 DEF Init
    <3> QED
      BY <3>1, <3>2
  <2>3. closing \in 0..Unset
    BY <1>1 DEF Init
  <2> QED
    BY <2>1, <2>2, <2>3 DEF Init, TypeOK
<1>3. Running(stage) = {}
  BY DEF Init, Running, Holding
<1>4. PoolOK(plan, stage, closing, closed)
  <2>1. Exclusive(plan, stage) /\ Alone(plan, stage)
    BY <1>3 DEF Exclusive, Alone
  <2>2. TurnClosed(plan, stage, closing)
    BY <1>1 DEF Init, TurnClosed
  <2>3. Drained(plan, stage, closing, closed)
    BY DEF Init, Drained, Plans, Holding, Begun
  <2>4. Emptied(stage, closed)
    BY DEF Init, Emptied
  <2> QED
    BY <2>1, <2>2, <2>3, <2>4 DEF PoolOK
<1>5. RunsFresh
  BY DEF Init, RunsFresh
<1>6. Matched
  BY DEF Init, Matched, InFlight, Gone
<1>7. ClosedForGood
  BY DEF Init, ClosedForGood
<1>8. EndingAfterAll
  BY DEF Init, EndingAfterAll, Plans
<1> QED
  BY <1>2, <1>4, <1>5, <1>6, <1>7, <1>8 DEF IInv

LEMMA ApproveIInv == ASSUME IInv, NEW b \in Blocks, Approve(b) PROVE IInv'
<1>1. /\ phase' = [phase EXCEPT ![b] = "ready"]
      /\ runs' = Append(runs, {b})
      /\ ~stopped /\ phase[b] = "asked"
      /\ UNCHANGED <<plan, stage, limit, closing, closed, stopped, settled>>
  BY DEF Approve
<1>2. stage[b] = "unreleased"
  BY <1>1 DEF IInv, Matched
<1>3. TypeOK'
  BY <1>1 DEF IInv, TypeOK, Phases
<1>4. PoolOK(plan, stage, closing, closed)'
  BY <1>1 DEF IInv
<1>5. RunsFresh'
  <2>1. /\ Len(runs') = Len(runs) + 1
        /\ \A i \in 1..Len(runs) : runs'[i] = runs[i]
        /\ runs'[Len(runs) + 1] = {b}
        /\ Len(runs) \in Nat
    BY <1>1 DEF IInv, TypeOK
  <2>2. \A i \in 1..Len(runs) : b \notin runs[i]
    BY <1>1 DEF IInv, RunsFresh
  <2>3. \A i \in 1..Len(runs) : runs[i] \subseteq Blocks
    BY DEF IInv, TypeOK
  <2>4. ASSUME NEW i \in 1..Len(runs'), NEW x \in runs'[i]
        PROVE  stage'[x] = "unreleased" /\ phase'[x] # "asked"
    BY <1>1, <1>2, <2>1, <2>3, <2>4 DEF IInv, RunsFresh, TypeOK
  <2>5. ASSUME NEW i \in 1..Len(runs'), NEW j \in 1..Len(runs'), i # j
        PROVE  runs'[i] \intersect runs'[j] = {}
    BY <2>1, <2>2, <2>5 DEF IInv, RunsFresh
  <2> QED
    BY <2>4, <2>5 DEF RunsFresh
<1>6. Matched'
  BY <1>1, <1>2 DEF IInv, TypeOK, Matched, InFlight, Gone, Terminal
<1>7. ClosedForGood'
  BY <1>1 DEF IInv, TypeOK, ClosedForGood, AllTerminal, Terminal
<1>8. EndingAfterAll'
  BY <1>1 DEF IInv, TypeOK, EndingAfterAll, Terminal, Plans
<1> QED
  BY <1>3, <1>4, <1>5, <1>6, <1>7, <1>8 DEF IInv

LEMMA DenyIInv == ASSUME IInv, NEW b \in Blocks, Deny(b) PROVE IInv'
<1>1. /\ \A c \in Blocks : phase'[c] =
            IF c = b THEN "rejected"
            ELSE IF c > b /\ phase[c] \notin Terminal \union {"executing"}
                   THEN "skipped" ELSE phase[c]
      /\ phase' \in [Blocks -> Phases]
      /\ ~stopped /\ phase[b] = "asked"
      /\ UNCHANGED <<plan, stage, runs, limit, closing, closed, stopped>>
  BY DEF Deny, RejectAndSkipLater, IInv, TypeOK, Phases
<1>2. settled' = AllTerminal(phase)'
  BY DEF Deny
<1>3. TypeOK'
  BY <1>1, <1>2 DEF IInv, TypeOK, AllTerminal
<1>4. PoolOK(plan, stage, closing, closed)'
  BY <1>1 DEF IInv
<1>5. RunsFresh'
  <2>1. \A i \in 1..Len(runs) : runs[i] \subseteq Blocks
    BY DEF IInv, TypeOK
  <2> QED
    BY <1>1, <2>1 DEF IInv, RunsFresh
<1>6. Matched'
  BY <1>1 DEF IInv, Matched, InFlight, Gone, Terminal
<1>7. ClosedForGood'
  <2>1. ~settled
    BY <1>1 DEF IInv, ClosedForGood, AllTerminal, Terminal
  <2> QED
    BY <1>1, <1>2, <2>1 DEF IInv, ClosedForGood
<1>8. EndingAfterAll'
  BY <1>1 DEF IInv, TypeOK, EndingAfterAll, Terminal, Plans
<1> QED
  BY <1>3, <1>4, <1>5, <1>6, <1>7, <1>8 DEF IInv

LEMMA CancelIInv == ASSUME IInv, Cancel PROVE IInv'
<1>1. /\ stopped' = TRUE
      /\ UNCHANGED <<plan, phase, stage, runs, limit, closing, closed, settled>>
  BY DEF Cancel
<1>2. TypeOK'
  BY <1>1 DEF IInv, TypeOK
<1>3. PoolOK(plan, stage, closing, closed)'
  BY <1>1 DEF IInv
<1>4. RunsFresh'
  BY <1>1 DEF IInv, RunsFresh
<1>5. Matched'
  BY <1>1 DEF IInv, Matched
<1>6. ClosedForGood'
  BY <1>1 DEF IInv, ClosedForGood, AllTerminal
<1>7. EndingAfterAll'
  BY <1>1 DEF IInv, EndingAfterAll
<1> QED
  BY <1>2, <1>3, <1>4, <1>5, <1>6, <1>7 DEF IInv

\* A command's blocks enter the pool, and what the pool holds stays as it was.
LEMMA SubmittedPool ==
    ASSUME NEW p \in Plans, NEW s \in [Blocks -> Stages], NEW c \in 0..Unset,
           NEW cl \in BOOLEAN, ~cl, PoolOK(p, s, c, cl), NEW S \in SUBSET Blocks,
           \A b \in S : s[b] = "unreleased"
    PROVE  /\ Submitted(s, S, c) \in [Blocks -> Stages]
           /\ PoolOK(p, Submitted(s, S, c), c, cl)
<1> DEFINE t == Submitted(s, S, c)
<1>1. /\ t \in [Blocks -> Stages]
      /\ \A b \in Blocks : t[b] = IF b \notin S THEN s[b]
                                  ELSE IF b > c THEN "dropped" ELSE "queued"
  BY DEF Submitted, Stages
<1>2. Running(t) = Running(s)
  BY <1>1 DEF Running, Holding
<1>3. c # Unset => c \in Blocks
  BY DEF PoolOK, TurnClosed, Plans
<1>4. Blocks \subseteq Nat /\ c \in Nat /\ Unset \in Nat /\ \A b \in Blocks : b < Unset
  BY TurnAssumption DEF Blocks, Unset
<1> HIDE DEF t
<1>5. Exclusive(p, t) /\ Alone(p, t)
  BY <1>2 DEF PoolOK, Exclusive, Alone
<1>6. TurnClosed(p, t, c)
  BY <1>1, <1>3, <1>4 DEF PoolOK, TurnClosed, Gone, Begun
<1>7. Drained(p, t, c, cl)
  <2>1. SUFFICES ASSUME NEW e \in p.ending
                 PROVE  /\ t[e] \in Holding => \A b \in Blocks : b < e => t[b] \in Gone
                        /\ t[e] \in Begun \union {"dropped"} => c <= e \/ cl
    BY DEF Drained
  <2>2. e \in Blocks
    BY DEF Plans
  <2>3. t[e] \in Holding => \A b \in Blocks : b < e => t[b] \in Gone
    BY <2>2, <1>1 DEF PoolOK, Drained, Holding, Gone
  <2>4. t[e] \in Begun \union {"dropped"} => c <= e \/ cl
    BY <2>2, <1>1, <1>4 DEF PoolOK, Drained, Begun
  <2> QED
    BY <2>3, <2>4
<1> QED
  BY <1>1, <1>5, <1>6, <1>7 DEF PoolOK, Emptied, t

LEMMA RunToolsIInv == ASSUME IInv, RunTools PROVE IInv'
<1>1. /\ runs # << >> /\ runs' = Tail(runs)
      /\ UNCHANGED <<plan, phase, limit, closing, closed, stopped, settled>>
  BY DEF RunTools
<1>2. /\ runs \in Seq(SUBSET Blocks)
      /\ Head(runs) = runs[1] /\ 1 \in 1..Len(runs)
      /\ runs' \in Seq(SUBSET Blocks)
      /\ Len(runs') = Len(runs) - 1
      /\ \A i \in 1..Len(runs') : runs'[i] = runs[i + 1] /\ i + 1 \in 1..Len(runs)
  BY <1>1 DEF IInv, TypeOK
<1>3. /\ Head(runs) \in SUBSET Blocks
      /\ \A b \in Head(runs) : stage[b] = "unreleased" /\ phase[b] # "asked"
      /\ \A i \in 1..Len(runs') : runs'[i] \intersect Head(runs) = {}
  BY <1>2 DEF IInv, RunsFresh
<1>4. /\ stage' \in [Blocks -> Stages]
      /\ PoolOK(plan, stage', closing, closed)
      /\ \A b \in Blocks :
            \/ stage'[b] = stage[b]
            \/ stage[b] = "queued" /\ stage'[b] = "granted"
            \/ b \in Head(runs) /\ closing < b /\ stage'[b] = "dropped"
            \/ b \in Head(runs) /\ stage'[b] \in {"queued", "granted"}
  <2>1. CASE closed
    BY <2>1 DEF RunTools, IInv, TypeOK
  <2>2. CASE ~closed
    <3> DEFINE s == Submitted(stage, Head(runs), closing)
    <3>1. stage' \in Scheduled(plan, s, limit)
      BY <2>2 DEF RunTools
    <3>2. plan \in Plans /\ closing \in 0..Unset /\ closed \in BOOLEAN /\ ~closed
      BY <2>2 DEF IInv, TypeOK
    <3>3. s \in [Blocks -> Stages] /\ PoolOK(plan, s, closing, closed)
      BY <1>3, <3>2, SubmittedPool DEF IInv, TypeOK
    <3>4. \A b \in Blocks : s[b] = IF b \notin Head(runs) THEN stage[b]
                                   ELSE IF b > closing THEN "dropped" ELSE "queued"
      BY DEF Submitted
    <3> HIDE DEF s
    <3>5. /\ stage' \in [Blocks -> Stages]
          /\ PoolOK(plan, stage', closing, closed)
          /\ \A b \in Blocks : stage'[b] = s[b] \/ (s[b] = "queued" /\ stage'[b] = "granted")
      <4>1. PICK t \in Scheduled(plan, s, limit) : t = stage'
        BY <3>1
      <4>2. /\ t \in [Blocks -> Stages]
            /\ PoolOK(plan, t, closing, closed)
            /\ \A b \in Blocks : t[b] = s[b] \/ (s[b] = "queued" /\ t[b] = "granted")
        BY <3>2, <3>3, SchedulePool
      <4> QED
        BY <4>1, <4>2
    <3> QED
      BY <3>2, <3>4, <3>5, <1>3
  <2> QED
    BY <2>1, <2>2
<1>5. TypeOK'
  BY <1>1, <1>2, <1>4 DEF IInv, TypeOK
<1>6. PoolOK(plan, stage, closing, closed)'
  BY <1>1, <1>4
<1>7. RunsFresh'
  <2>1. ASSUME NEW i \in 1..Len(runs'), NEW b \in runs'[i]
        PROVE  stage'[b] = "unreleased" /\ phase'[b] # "asked"
    <3>1. b \in Blocks /\ b \notin Head(runs) /\ b \in runs[i + 1]
      BY <2>1, <1>2, <1>3
    <3>2. stage[b] = "unreleased" /\ phase[b] # "asked"
      BY <2>1, <3>1, <1>2 DEF IInv, RunsFresh
    <3> QED
      BY <3>1, <3>2, <1>1, <1>4
  <2>2. ASSUME NEW i \in 1..Len(runs'), NEW j \in 1..Len(runs'), i # j
        PROVE  runs'[i] \intersect runs'[j] = {}
    <3>1. /\ i + 1 \in 1..Len(runs) /\ runs'[i] = runs[i + 1]
          /\ j + 1 \in 1..Len(runs) /\ runs'[j] = runs[j + 1]
          /\ i + 1 # j + 1
      BY <2>2, <1>2
    <3> QED
      BY <3>1 DEF IInv, RunsFresh
  <2> QED
    BY <2>1, <2>2 DEF RunsFresh
<1>8. Matched'
  BY <1>1, <1>3, <1>4 DEF IInv, Matched, InFlight, Gone
<1>9. ClosedForGood'
  BY <1>1 DEF IInv, ClosedForGood, AllTerminal
<1>10. EndingAfterAll'
  BY <1>1 DEF IInv, EndingAfterAll
<1> QED
  BY <1>5, <1>6, <1>7, <1>8, <1>9, <1>10 DEF IInv

\* A block that moves on inside the pool changes nothing the pool decides by.
LEMMA AdvancePool ==
    ASSUME NEW p \in Plans, NEW s \in [Blocks -> Stages], NEW c \in 0..Unset,
           NEW cl \in BOOLEAN, PoolOK(p, s, c, cl), NEW b \in Blocks,
           s[b] \in {"starting"} \union InFlight,
           NEW v \in InFlight \union {"leaving"},
           NEW t \in MovedOn(s, b, v)
    PROVE  t \in [Blocks -> Stages] /\ PoolOK(p, t, c, cl)
<1>1. /\ t \in [Blocks -> Stages]
      /\ \A x \in Blocks : t[x] = IF x = b THEN v ELSE s[x]
  BY DEF MovedOn, InFlight, Stages, Holding
<1>2. s[b] \in Holding /\ v \in Holding /\ s[b] \in Begun /\ v \in Begun
  BY DEF InFlight, Holding, Begun
<1>3. Running(t) = Running(s)
  BY <1>1, <1>2 DEF Running
<1>4. Exclusive(p, t) /\ Alone(p, t)
  BY <1>3 DEF PoolOK, Exclusive, Alone
<1>5. s[b] \notin Gone \union {"unreleased", "queued", "granted"}
  BY DEF InFlight, Gone
<1>6. p.ending \subseteq Blocks /\ (c # Unset => c \in Blocks)
  BY DEF PoolOK, TurnClosed, Plans
<1>7. TurnClosed(p, t, c)
  BY <1>1, <1>2, <1>5, <1>6 DEF PoolOK, TurnClosed
<1>8. Drained(p, t, c, cl)
  <2>1. ASSUME NEW e \in p.ending, t[e] \in Holding, NEW x \in Blocks, x < e
        PROVE  t[x] \in Gone
    <3>1. s[e] \in Holding /\ e \in Blocks
      BY <2>1, <1>1, <1>2, <1>6
    <3>2. s[x] \in Gone
      BY <2>1, <3>1 DEF PoolOK, Drained
    <3> QED
      BY <3>2, <1>1, <1>5
  <2>2. ASSUME NEW e \in p.ending, t[e] \in Begun \union {"dropped"}
        PROVE  c <= e \/ cl
    <3>1. s[e] \in Begun \union {"dropped"}
      BY <2>2, <1>1, <1>2, <1>6
    <3> QED
      BY <3>1 DEF PoolOK, Drained
  <2> QED
    BY <2>1, <2>2 DEF Drained
<1>9. Emptied(t, cl)
  BY <1>1 DEF PoolOK, Emptied, InFlight
<1> QED
  BY <1>1, <1>4, <1>7, <1>8, <1>9 DEF PoolOK

\* A block that left, or was dropped and is reported, leaves room and no trace.
LEMMA DonePool ==
    ASSUME NEW p \in Plans, NEW s \in [Blocks -> Stages], NEW c \in 0..Unset,
           NEW cl \in BOOLEAN, PoolOK(p, s, c, cl), NEW b \in Blocks,
           s[b] \in {"leaving", "dropped"},
           NEW t \in MovedOn(s, b, "done")
    PROVE  t \in [Blocks -> Stages] /\ PoolOK(p, t, c, cl)
<1>1. /\ t \in [Blocks -> Stages]
      /\ \A x \in Blocks : t[x] = IF x = b THEN "done" ELSE s[x]
  BY DEF MovedOn, Stages
<1>2. Running(t) = Running(s) \ {b}
  BY <1>1 DEF Running, Holding
<1>3. Exclusive(p, t) /\ Alone(p, t)
  BY <1>2 DEF PoolOK, Exclusive, Alone
<1>4. p.ending \subseteq Blocks /\ (c # Unset => c \in Blocks)
  BY DEF PoolOK, TurnClosed, Plans
<1>5. TurnClosed(p, t, c)
  BY <1>1, <1>4 DEF PoolOK, TurnClosed, Gone, Begun
<1>6. Drained(p, t, c, cl)
  <2>1. ASSUME NEW e \in p.ending, t[e] \in Holding, NEW x \in Blocks, x < e
        PROVE  t[x] \in Gone
    BY <2>1, <1>1, <1>4 DEF PoolOK, Drained, Holding, Gone
  <2>2. ASSUME NEW e \in p.ending, t[e] \in Begun \union {"dropped"}
        PROVE  c <= e \/ cl
    BY <2>2, <1>1, <1>4 DEF PoolOK, Drained, Begun
  <2> QED
    BY <2>1, <2>2 DEF Drained
<1>7. Emptied(t, cl)
  BY <1>1 DEF PoolOK, Emptied
<1> QED
  BY <1>1, <1>3, <1>5, <1>6, <1>7 DEF PoolOK

\* The permit of an ordinary block.
LEMMA BeginOrdinaryPool ==
    ASSUME NEW p \in Plans, NEW s \in [Blocks -> Stages], NEW c \in 0..Unset,
           NEW cl \in BOOLEAN, PoolOK(p, s, c, cl), NEW b \in Blocks,
           s[b] = "granted", b \notin p.ending,
           NEW t \in MovedOn(s, b, "starting")
    PROVE  t \in [Blocks -> Stages] /\ PoolOK(p, t, c, cl)
<1>1. /\ t \in [Blocks -> Stages]
      /\ \A x \in Blocks : t[x] = IF x = b THEN "starting" ELSE s[x]
  BY DEF MovedOn, Stages, Holding
<1>2. Running(t) = Running(s)
  BY <1>1 DEF Running, Holding
<1>3. Exclusive(p, t) /\ Alone(p, t)
  BY <1>2 DEF PoolOK, Exclusive, Alone
<1>4. p.ending \subseteq Blocks /\ (c # Unset => c \in Blocks)
  BY DEF PoolOK, TurnClosed, Plans
<1>5. TurnClosed(p, t, c)
  BY <1>1, <1>4 DEF PoolOK, TurnClosed, Gone, Begun
<1>6. Drained(p, t, c, cl)
  <2>1. ASSUME NEW e \in p.ending, t[e] \in Holding, NEW x \in Blocks, x < e
        PROVE  t[x] \in Gone
    BY <2>1, <1>1, <1>4 DEF PoolOK, Drained, Gone
  <2>2. ASSUME NEW e \in p.ending, t[e] \in Begun \union {"dropped"}
        PROVE  c <= e \/ cl
    BY <2>2, <1>1, <1>4 DEF PoolOK, Drained
  <2> QED
    BY <2>1, <2>2 DEF Drained
<1>7. Emptied(t, cl)
  BY <1>1 DEF PoolOK, Emptied
<1> QED
  BY <1>1, <1>3, <1>5, <1>6, <1>7 DEF PoolOK

\* The permit of an ending block: it is the one that closes the turn.
LEMMA BeginEndingPool ==
    ASSUME NEW p \in Plans, NEW s \in [Blocks -> Stages], NEW c \in 0..Unset,
           NEW cl \in BOOLEAN, PoolOK(p, s, c, cl), NEW b \in p.ending,
           s[b] = "granted",
           NEW t \in BegunAlone(s, b)
    PROVE  /\ c = b \/ b < c
           /\ t \in [Blocks -> Stages]
           /\ PoolOK(p, t, b, cl)
           /\ \A x \in Blocks :
                 \/ t[x] = s[x]
                 \/ x = b /\ t[x] = "starting"
                 \/ b < x /\ s[x] \in {"queued", "granted"} /\ t[x] = "dropped"
<1>1. b \in Blocks /\ Blocks \subseteq Nat /\ c \in Nat /\ ~cl
  BY TurnAssumption DEF Plans, Blocks, Unset, PoolOK, Emptied
<1>2. /\ t \in [Blocks -> Stages]
      /\ \A x \in Blocks :
            t[x] = IF x = b THEN "starting"
                   ELSE IF b < x /\ s[x] \in {"queued", "granted"} THEN "dropped"
                   ELSE s[x]
  BY <1>1 DEF BegunAlone, SkipBlocksAfter, Stages, Holding
<1>3. Running(s) = {b}
  BY <1>1 DEF PoolOK, Alone, Running, Holding
<1>4. Running(t) = {b}
  BY <1>1, <1>2, <1>3 DEF Running, Holding
<1>5. ~(c < b)
  BY <1>1 DEF PoolOK, TurnClosed, Gone
<1>6. Exclusive(p, t) /\ Alone(p, t)
  BY <1>4 DEF Exclusive, Alone
<1>7. \A x \in Blocks : x < b => s[x] \in Gone
  BY <1>1 DEF PoolOK, Drained, Holding
<1>8. TurnClosed(p, t, b)
  <2>1. ASSUME NEW x \in Blocks, b < x PROVE t[x] \in Gone \union {"unreleased"}
    <3>1. x \notin Running(s) /\ x # b
      BY <2>1, <1>1, <1>3
    <3> QED
      BY <2>1, <3>1, <1>2 DEF Running, Stages, Gone
  <2>2. \A x \in Blocks : x < b => t[x] \in Gone
    BY <1>1, <1>2, <1>7 DEF Gone
  <2> QED
    BY <2>1, <2>2, <1>1, <1>2 DEF TurnClosed, Begun
<1>9. Drained(p, t, b, cl)
  <2>1. ASSUME NEW e \in p.ending, t[e] \in Holding, NEW x \in Blocks, x < e
        PROVE  t[x] \in Gone
    <3>1. e = b
      BY <2>1, <1>4 DEF Running, Plans
    <3> QED
      BY <2>1, <3>1, <1>2, <1>7 DEF Gone
  <2>2. ASSUME NEW e \in p.ending, t[e] \in Begun \union {"dropped"}
        PROVE  b <= e \/ cl
    <3>1. e \in Blocks
      BY DEF Plans
    <3>2. SUFFICES ASSUME e < b PROVE FALSE
      BY <3>1, <1>1
    <3>3. c <= e
      BY <3>1, <3>2, <1>1, <1>7 DEF PoolOK, Drained, Gone, Begun
    <3> QED
      BY <3>1, <3>2, <3>3, <1>1, <1>5
  <2> QED
    BY <2>1, <2>2 DEF Drained
<1>10. Emptied(t, cl)
  BY <1>1 DEF Emptied
<1>11. c = b \/ b < c
  BY <1>1, <1>5
<1>12. PoolOK(p, t, b, cl)
  BY <1>6, <1>8, <1>9, <1>10 DEF PoolOK
<1>13. \A x \in Blocks :
          \/ t[x] = s[x]
          \/ x = b /\ t[x] = "starting"
          \/ b < x /\ s[x] \in {"queued", "granted"} /\ t[x] = "dropped"
  BY <1>2
<1> QED
  BY <1>2, <1>11, <1>12, <1>13

\* Cancelling the pool drops what was not started.
LEMMA CancelAllPool ==
    ASSUME NEW p \in Plans, NEW s \in [Blocks -> Stages], NEW c \in 0..Unset,
           NEW cl \in BOOLEAN, PoolOK(p, s, c, cl),
           NEW t, t = [b \in Blocks |->
                          IF s[b] \in {"queued", "granted"} THEN "dropped" ELSE s[b]]
    PROVE  t \in [Blocks -> Stages] /\ PoolOK(p, t, c, TRUE)
<1>1. /\ t \in [Blocks -> Stages]
      /\ \A x \in Blocks :
            t[x] = IF s[x] \in {"queued", "granted"} THEN "dropped" ELSE s[x]
  BY DEF Stages
<1>2. Running(t) \subseteq Running(s)
  BY <1>1 DEF Running, Holding
<1>3. Exclusive(p, t) /\ Alone(p, t)
  BY <1>2 DEF PoolOK, Exclusive, Alone
<1>4. p.ending \subseteq Blocks /\ (c # Unset => c \in Blocks)
  BY DEF PoolOK, TurnClosed, Plans
<1>5. TurnClosed(p, t, c)
  BY <1>1, <1>4 DEF PoolOK, TurnClosed, Gone, Begun
<1>6. Drained(p, t, c, TRUE)
  BY <1>1, <1>4 DEF PoolOK, Drained, Holding, Gone
<1>7. Emptied(t, TRUE)
  BY <1>1 DEF Emptied
<1> QED
  BY <1>1, <1>3, <1>5, <1>6, <1>7 DEF PoolOK

-----------------------------------------------------------------------------
(* The executor's actions.  What they do to the kernel and the executor     *)
(* together is read off pointwise; what they do to the pool is above.       *)

LEMMA BeginIInv == ASSUME IInv, NEW b \in Blocks, Begin(b) PROVE IInv'
<1>1. /\ stage[b] = "granted"
      /\ UNCHANGED <<plan, phase, runs, limit, closed, stopped, settled>>
  BY DEF Begin
<1>2. /\ plan \in Plans /\ stage \in [Blocks -> Stages] /\ closing \in 0..Unset
      /\ closed \in BOOLEAN /\ PoolOK(plan, stage, closing, closed)
  BY DEF IInv, TypeOK
<1>3. b \in Nat /\ closing \in Nat /\ b \in 0..Unset /\ Blocks \subseteq Nat
  BY <1>2, TurnAssumption DEF Blocks, Unset
<1>4. /\ stage' \in [Blocks -> Stages]
      /\ closing' \in 0..Unset
      /\ PoolOK(plan, stage', closing', closed)
      /\ closing' = closing \/ closing' < closing
      /\ \A x \in Blocks :
            \/ stage'[x] = stage[x]
            \/ x = b /\ stage'[x] = "starting"
            \/ closing' < x /\ stage[x] \in {"queued", "granted"} /\ stage'[x] = "dropped"
  <2>1. CASE b \in plan.ending
    <3>1. PICK t \in BegunAlone(stage, b) :
             t = SkipBlocksAfter([stage EXCEPT ![b] = "starting"], b)
      BY DEF BegunAlone
    <3>2. /\ closing = b \/ b < closing
          /\ t \in [Blocks -> Stages]
          /\ PoolOK(plan, t, b, closed)
          /\ \A x \in Blocks :
                \/ t[x] = stage[x]
                \/ x = b /\ t[x] = "starting"
                \/ b < x /\ stage[x] \in {"queued", "granted"} /\ t[x] = "dropped"
      BY <2>1, <1>1, <1>2, BeginEndingPool
    <3>3. closing' = b /\ stage' = t
      BY <2>1, <3>1, <3>2, <1>3 DEF Begin
    <3> QED
      BY <3>2, <3>3, <1>3
  <2>2. CASE b \notin plan.ending
    <3>1. PICK t \in MovedOn(stage, b, "starting") : t = stage' /\ closing' = closing
      BY <2>2 DEF Begin, MovedOn
    <3>2. t \in [Blocks -> Stages] /\ PoolOK(plan, t, closing, closed)
      BY <2>2, <1>1, <1>2, BeginOrdinaryPool
    <3>3. \A x \in Blocks : t[x] = IF x = b THEN "starting" ELSE stage[x]
      BY <1>2 DEF MovedOn
    <3> QED
      BY <3>1, <3>2, <3>3, <1>2
  <2> QED
    BY <2>1, <2>2
<1>5. TypeOK'
  BY <1>1, <1>4 DEF IInv, TypeOK
<1>6. PoolOK(plan, stage, closing, closed)'
  BY <1>1, <1>4
<1>7. RunsFresh'
  <2>1. \A i \in 1..Len(runs) : runs[i] \subseteq Blocks
    BY DEF IInv, TypeOK
  <2> QED
    BY <2>1, <1>1, <1>4 DEF IInv, RunsFresh
<1>8. Matched'
  BY <1>1, <1>3, <1>4 DEF IInv, Matched, InFlight, Gone
<1>9. ClosedForGood'
  BY <1>1 DEF IInv, ClosedForGood, AllTerminal
<1>10. EndingAfterAll'
  BY <1>1 DEF IInv, EndingAfterAll
<1> QED
  BY <1>5, <1>6, <1>7, <1>8, <1>9, <1>10 DEF IInv

LEMMA StartedIInv == ASSUME IInv, NEW b \in Blocks, Started(b) PROVE IInv'
<1>1. /\ stage[b] = "starting"
      /\ UNCHANGED <<plan, runs, limit, closing, closed, stopped, settled>>
  BY DEF Started
<1>2. /\ plan \in Plans /\ stage \in [Blocks -> Stages] /\ closing \in 0..Unset
      /\ closed \in BOOLEAN /\ PoolOK(plan, stage, closing, closed)
  BY DEF IInv, TypeOK
<1>3. PICK v \in {"accepted", "leaving"} :
        /\ stage' = [stage EXCEPT ![b] = v]
        /\ v = "accepted" =>
              ~stopped /\ phase[b] = "ready" /\ phase' = [phase EXCEPT ![b] = "executing"]
        /\ v = "leaving" => (stopped \/ phase[b] # "ready") /\ phase' = phase
  BY DEF Started
<1>4. v \in InFlight \union {"leaving"}
  BY DEF InFlight
<1>5. stage' \in [Blocks -> Stages] /\ PoolOK(plan, stage', closing, closed)
  <2>1. PICK t \in MovedOn(stage, b, v) : t = stage'
    BY <1>3 DEF MovedOn
  <2>2. t \in [Blocks -> Stages] /\ PoolOK(plan, t, closing, closed)
    BY <1>1, <1>2, <1>4, AdvancePool
  <2> QED
    BY <2>1, <2>2
<1>6. \A x \in Blocks : stage'[x] = IF x = b THEN v ELSE stage[x]
  BY <1>2, <1>3
<1>7. /\ phase' \in [Blocks -> Phases]
      /\ \A x \in Blocks :
            phase'[x] = IF x = b /\ v = "accepted" THEN "executing" ELSE phase[x]
  BY <1>3 DEF IInv, TypeOK, Phases
<1>8. v = "leaving" => stopped \/ phase[b] \in Terminal
  BY <1>1, <1>3 DEF IInv, TypeOK, Matched, InFlight, Phases, Terminal
<1>9. TypeOK'
  BY <1>1, <1>5, <1>7 DEF IInv, TypeOK
<1>10. PoolOK(plan, stage, closing, closed)'
  BY <1>1, <1>5
<1>11. RunsFresh'
  <2>1. \A i \in 1..Len(runs) : runs[i] \subseteq Blocks
    BY DEF IInv, TypeOK
  <2> QED
    BY <2>1, <1>1, <1>6, <1>7 DEF IInv, RunsFresh
<1>12. Matched'
  BY <1>1, <1>6, <1>7, <1>8 DEF IInv, Matched, InFlight, Gone
<1>13. ClosedForGood'
  BY <1>1, <1>3, <1>7 DEF IInv, ClosedForGood, AllTerminal, Terminal
<1>14. EndingAfterAll'
  <2>1. SUFFICES ASSUME NEW e \in plan.ending, phase'[e] = "executing",
                        NEW x \in Blocks, x < e
                 PROVE  phase'[x] \in Terminal
    BY <1>1 DEF EndingAfterAll
  <2>2. e \in Blocks
    BY <1>2 DEF Plans
  <2>3. CASE e = b /\ v = "accepted"
    <3>1. stage[x] \in Gone
      BY <2>1, <2>3, <1>1, <1>2 DEF PoolOK, Drained, Holding
    <3>2. ~(closing < b)
      BY <1>1, <1>2 DEF PoolOK, TurnClosed, Gone
    <3>3. ~(closing < x)
      BY <3>2, <2>1, <2>3, <1>2, TurnAssumption DEF Blocks, Unset
    <3>4. ~stopped
      BY <2>3, <1>3
    <3>5. phase[x] \in Terminal
      BY <3>1, <3>3, <3>4 DEF IInv, Matched
    <3> QED
      BY <3>5, <1>3, <1>7 DEF Terminal
  <2>4. CASE ~(e = b /\ v = "accepted")
    <3>1. phase[e] = "executing"
      BY <2>1, <2>2, <2>4, <1>7
    <3>2. phase[x] \in Terminal
      BY <2>1, <3>1 DEF IInv, EndingAfterAll
    <3> QED
      BY <3>2, <1>3, <1>7 DEF Terminal
  <2> QED
    BY <2>3, <2>4
<1> QED
  BY <1>9, <1>10, <1>11, <1>12, <1>13, <1>14 DEF IInv

\* The two steps that depend on the fence: the start of the effect and its end.
LEMMA EffectIInv ==
    ASSUME IInv, NEW b \in Blocks, Handle(b) \/ EffectEnds(b) PROVE IInv'
<1>1. PICK v \in InFlight \union {"leaving"} :
        /\ stage[b] \in InFlight
        /\ stage' = [stage EXCEPT ![b] = v]
        /\ v = "leaving" => closed
        /\ UNCHANGED <<plan, phase, runs, limit, closing, closed, stopped, settled>>
  BY DEF Handle, EffectEnds, InFlight
<1>2. /\ plan \in Plans /\ stage \in [Blocks -> Stages] /\ closing \in 0..Unset
      /\ closed \in BOOLEAN /\ PoolOK(plan, stage, closing, closed)
  BY DEF IInv, TypeOK
<1>3. stage' \in [Blocks -> Stages] /\ PoolOK(plan, stage', closing, closed)
  <2>1. PICK t \in MovedOn(stage, b, v) : t = stage'
    BY <1>1 DEF MovedOn
  <2>2. t \in [Blocks -> Stages] /\ PoolOK(plan, t, closing, closed)
    BY <1>1, <1>2, AdvancePool
  <2> QED
    BY <2>1, <2>2
<1>4. \A x \in Blocks : stage'[x] = IF x = b THEN v ELSE stage[x]
  BY <1>1, <1>2
<1>5. v = "leaving" => stopped
  <2>1. phase[b] = "executing"
    BY <1>1 DEF IInv, Matched
  <2> QED
    BY <2>1, <1>1 DEF IInv, ClosedForGood, AllTerminal, Terminal
<1>6. TypeOK'
  BY <1>1, <1>3 DEF IInv, TypeOK
<1>7. PoolOK(plan, stage, closing, closed)'
  BY <1>1, <1>3
<1>8. RunsFresh'
  <2>1. \A i \in 1..Len(runs) : runs[i] \subseteq Blocks
    BY DEF IInv, TypeOK
  <2> QED
    BY <2>1, <1>1, <1>4 DEF IInv, RunsFresh, InFlight
<1>9. Matched'
  BY <1>1, <1>4, <1>5 DEF IInv, Matched, InFlight, Gone
<1>10. ClosedForGood'
  BY <1>1 DEF IInv, ClosedForGood, AllTerminal
<1>11. EndingAfterAll'
  BY <1>1 DEF IInv, EndingAfterAll
<1> QED
  BY <1>6, <1>7, <1>8, <1>9, <1>10, <1>11 DEF IInv

LEMMA ReportIInv == ASSUME IInv, NEW b \in Blocks, Report(b) PROVE IInv'
<1>1. /\ stage[b] = "reporting"
      /\ stage' = [stage EXCEPT ![b] = "leaving"]
      /\ UNCHANGED <<plan, runs, limit, closing, closed, stopped>>
  BY DEF Report
<1>2. /\ plan \in Plans /\ stage \in [Blocks -> Stages] /\ closing \in 0..Unset
      /\ closed \in BOOLEAN /\ PoolOK(plan, stage, closing, closed)
  BY DEF IInv, TypeOK
<1>3. stage' \in [Blocks -> Stages] /\ PoolOK(plan, stage', closing, closed)
  <2>1. PICK t \in MovedOn(stage, b, "leaving") : t = stage'
    BY <1>1 DEF MovedOn
  <2>2. t \in [Blocks -> Stages] /\ PoolOK(plan, t, closing, closed)
    BY <1>1, <1>2, AdvancePool DEF InFlight
  <2> QED
    BY <2>1, <2>2
<1>4. \A x \in Blocks : stage'[x] = IF x = b THEN "leaving" ELSE stage[x]
  BY <1>1, <1>2
<1>5. phase[b] = "executing"
  BY <1>1 DEF IInv, Matched, InFlight
<1>6. /\ phase' \in [Blocks -> Phases]
      /\ \A x \in Blocks :
            phase'[x] = IF x = b /\ ~stopped THEN "completed" ELSE phase[x]
      /\ IF ~stopped THEN settled' = AllTerminal(phase)' ELSE settled' = settled
  BY <1>5 DEF Report, Finish, IInv, TypeOK, Phases, AllTerminal
<1>7. TypeOK'
  BY <1>1, <1>3, <1>6 DEF IInv, TypeOK, AllTerminal
<1>8. PoolOK(plan, stage, closing, closed)'
  BY <1>1, <1>3
<1>9. RunsFresh'
  <2>1. \A i \in 1..Len(runs) : runs[i] \subseteq Blocks
    BY DEF IInv, TypeOK
  <2> QED
    BY <2>1, <1>1, <1>4, <1>6 DEF IInv, RunsFresh
<1>10. Matched'
  BY <1>1, <1>4, <1>6 DEF IInv, Matched, InFlight, Gone, Terminal
<1>11. ClosedForGood'
  <2>1. ~settled
    BY <1>5 DEF IInv, ClosedForGood, AllTerminal, Terminal
  <2> QED
    BY <2>1, <1>1, <1>6 DEF IInv, ClosedForGood
<1>12. EndingAfterAll'
  BY <1>1, <1>2, <1>6 DEF IInv, EndingAfterAll, Terminal, Plans
<1> QED
  BY <1>7, <1>8, <1>9, <1>10, <1>11, <1>12 DEF IInv

LEMMA LeaveIInv == ASSUME IInv, NEW b \in Blocks, Leave(b) PROVE IInv'
<1>1. /\ stage[b] = "leaving"
      /\ UNCHANGED <<plan, phase, runs, limit, closing, closed, stopped, settled>>
  BY DEF Leave
<1>2. /\ plan \in Plans /\ stage \in [Blocks -> Stages] /\ closing \in 0..Unset
      /\ closed \in BOOLEAN /\ PoolOK(plan, stage, closing, closed)
  BY DEF IInv, TypeOK
<1>3. PICK s \in MovedOn(stage, b, "done") : stage' \in Scheduled(plan, s, limit)
  BY DEF Leave, MovedOn
<1>4. s \in [Blocks -> Stages] /\ PoolOK(plan, s, closing, closed)
  BY <1>1, <1>2, DonePool
<1>5. \A x \in Blocks : s[x] = IF x = b THEN "done" ELSE stage[x]
  BY <1>2 DEF MovedOn
<1>6. /\ stage' \in [Blocks -> Stages]
      /\ PoolOK(plan, stage', closing, closed)
      /\ \A x \in Blocks : stage'[x] = s[x] \/ (s[x] = "queued" /\ stage'[x] = "granted")
  <2>1. PICK t \in Scheduled(plan, s, limit) : t = stage'
    BY <1>3
  <2>2. /\ t \in [Blocks -> Stages]
        /\ PoolOK(plan, t, closing, closed)
        /\ \A x \in Blocks : t[x] = s[x] \/ (s[x] = "queued" /\ t[x] = "granted")
    BY <1>2, <1>4, SchedulePool
  <2> QED
    BY <2>1, <2>2
<1>7. \A x \in Blocks : \/ stage'[x] = stage[x]
                        \/ x = b /\ stage'[x] = "done"
                        \/ stage[x] = "queued" /\ stage'[x] = "granted"
  BY <1>5, <1>6
<1>8. TypeOK'
  BY <1>1, <1>6 DEF IInv, TypeOK
<1>9. PoolOK(plan, stage, closing, closed)'
  BY <1>1, <1>6
<1>10. RunsFresh'
  <2>1. \A i \in 1..Len(runs) : runs[i] \subseteq Blocks
    BY DEF IInv, TypeOK
  <2> QED
    BY <2>1, <1>1, <1>7 DEF IInv, RunsFresh
<1>11. Matched'
  BY <1>1, <1>7 DEF IInv, Matched, InFlight, Gone
<1>12. ClosedForGood'
  BY <1>1 DEF IInv, ClosedForGood, AllTerminal
<1>13. EndingAfterAll'
  BY <1>1 DEF IInv, EndingAfterAll
<1> QED
  BY <1>8, <1>9, <1>10, <1>11, <1>12, <1>13 DEF IInv

\* The kernel never takes the report of a block that did not run.
LEMMA ReportUnrunIInv == ASSUME IInv, NEW b \in Blocks, ReportUnrun(b) PROVE IInv'
<1>1. /\ stage[b] = "dropped"
      /\ stage' = [stage EXCEPT ![b] = "done"]
      /\ UNCHANGED <<plan, runs, limit, closing, closed, stopped>>
  BY DEF ReportUnrun
<1>2. /\ plan \in Plans /\ stage \in [Blocks -> Stages] /\ closing \in 0..Unset
      /\ closed \in BOOLEAN /\ PoolOK(plan, stage, closing, closed)
  BY DEF IInv, TypeOK
<1>3. stopped \/ phase[b] # "executing"
  BY <1>1 DEF IInv, Matched, InFlight
<1>4. UNCHANGED <<phase, settled>>
  BY <1>3 DEF ReportUnrun, Finish
<1>5. stage' \in [Blocks -> Stages] /\ PoolOK(plan, stage', closing, closed)
  <2>1. PICK t \in MovedOn(stage, b, "done") : t = stage'
    BY <1>1 DEF MovedOn
  <2>2. t \in [Blocks -> Stages] /\ PoolOK(plan, t, closing, closed)
    BY <1>1, <1>2, DonePool
  <2> QED
    BY <2>1, <2>2
<1>6. \A x \in Blocks : stage'[x] = IF x = b THEN "done" ELSE stage[x]
  BY <1>1, <1>2
<1>7. TypeOK'
  BY <1>1, <1>4, <1>5 DEF IInv, TypeOK
<1>8. PoolOK(plan, stage, closing, closed)'
  BY <1>1, <1>5
<1>9. RunsFresh'
  <2>1. \A i \in 1..Len(runs) : runs[i] \subseteq Blocks
    BY DEF IInv, TypeOK
  <2> QED
    BY <2>1, <1>1, <1>4, <1>6 DEF IInv, RunsFresh
<1>10. Matched'
  BY <1>1, <1>4, <1>6 DEF IInv, Matched, InFlight, Gone
<1>11. ClosedForGood'
  BY <1>1, <1>4 DEF IInv, ClosedForGood, AllTerminal
<1>12. EndingAfterAll'
  BY <1>1, <1>4 DEF IInv, EndingAfterAll
<1> QED
  BY <1>7, <1>8, <1>9, <1>10, <1>11, <1>12 DEF IInv

LEMMA CancelAllIInv == ASSUME IInv, Fence \/ Retire PROVE IInv'
<1>1. /\ stopped \/ settled
      /\ closed' = TRUE
      /\ UNCHANGED <<plan, phase, runs, limit, closing, stopped, settled>>
  BY DEF Fence, Retire, CancelAll
<1>2. /\ plan \in Plans /\ stage \in [Blocks -> Stages] /\ closing \in 0..Unset
      /\ closed \in BOOLEAN /\ PoolOK(plan, stage, closing, closed)
  BY DEF IInv, TypeOK
<1>3. PICK t : /\ t = stage'
               /\ t = [b \in Blocks |->
                          IF stage[b] \in {"queued", "granted"} THEN "dropped"
                          ELSE stage[b]]
  BY DEF Fence, Retire, CancelAll
<1>4. t \in [Blocks -> Stages] /\ PoolOK(plan, t, closing, TRUE)
  BY <1>2, <1>3, CancelAllPool
<1>5. \A x \in Blocks : stage'[x] = IF stage[x] \in {"queued", "granted"} THEN "dropped"
                                    ELSE stage[x]
  BY <1>3
<1>6. TypeOK'
  BY <1>1, <1>3, <1>4 DEF IInv, TypeOK
<1>7. PoolOK(plan, stage, closing, closed)'
  BY <1>1, <1>3, <1>4
<1>8. RunsFresh'
  <2>1. \A i \in 1..Len(runs) : runs[i] \subseteq Blocks
    BY DEF IInv, TypeOK
  <2> QED
    BY <2>1, <1>1, <1>5 DEF IInv, RunsFresh
<1>9. Matched'
  BY <1>1, <1>5 DEF IInv, Matched, InFlight, Gone, ClosedForGood, AllTerminal
<1>10. ClosedForGood'
  BY <1>1 DEF IInv, ClosedForGood, AllTerminal
<1>11. EndingAfterAll'
  BY <1>1 DEF IInv, EndingAfterAll
<1> QED
  BY <1>6, <1>7, <1>8, <1>9, <1>10, <1>11 DEF IInv

LEMMA SetLimitIInv == ASSUME IInv, NEW l \in Limits, SetLimit(l) PROVE IInv'
<1>1. limit' = l /\ UNCHANGED <<plan, phase, runs, closing, closed, stopped, settled>>
  BY DEF SetLimit
<1>2. /\ plan \in Plans /\ stage \in [Blocks -> Stages] /\ closing \in 0..Unset
      /\ closed \in BOOLEAN /\ PoolOK(plan, stage, closing, closed)
  BY DEF IInv, TypeOK
<1>3. /\ stage' \in [Blocks -> Stages]
      /\ PoolOK(plan, stage', closing, closed)
      /\ \A x \in Blocks :
            stage'[x] = stage[x] \/ (stage[x] = "queued" /\ stage'[x] = "granted")
  <2>1. CASE closed
    BY <2>1, <1>2 DEF SetLimit
  <2>2. CASE ~closed
    <3>1. PICK t \in Scheduled(plan, stage, l) : t = stage'
      BY <2>2 DEF SetLimit
    <3>2. /\ t \in [Blocks -> Stages]
          /\ PoolOK(plan, t, closing, closed)
          /\ \A x \in Blocks : t[x] = stage[x] \/ (stage[x] = "queued" /\ t[x] = "granted")
      BY <1>2, SchedulePool
    <3> QED
      BY <3>1, <3>2
  <2> QED
    BY <2>1, <2>2
<1>4. TypeOK'
  BY <1>1, <1>3 DEF IInv, TypeOK
<1>5. PoolOK(plan, stage, closing, closed)'
  BY <1>1, <1>3
<1>6. RunsFresh'
  <2>1. \A i \in 1..Len(runs) : runs[i] \subseteq Blocks
    BY DEF IInv, TypeOK
  <2> QED
    BY <2>1, <1>1, <1>3 DEF IInv, RunsFresh
<1>7. Matched'
  BY <1>1, <1>3 DEF IInv, Matched, InFlight, Gone
<1>8. ClosedForGood'
  BY <1>1 DEF IInv, ClosedForGood, AllTerminal
<1>9. EndingAfterAll'
  BY <1>1 DEF IInv, EndingAfterAll
<1> QED
  BY <1>4, <1>5, <1>6, <1>7, <1>8, <1>9 DEF IInv

LEMMA NextIInv == IInv /\ [Next]_vars => IInv'
<1> SUFFICES ASSUME IInv, [Next]_vars PROVE IInv'
  OBVIOUS
<1>1. ASSUME NEW b \in Blocks, Approve(b) PROVE IInv'
  BY <1>1, ApproveIInv
<1>2. ASSUME NEW b \in Blocks, Deny(b) PROVE IInv'
  BY <1>2, DenyIInv
<1>3. CASE Cancel
  BY <1>3, CancelIInv
<1>4. CASE RunTools
  BY <1>4, RunToolsIInv
<1>5. ASSUME NEW b \in Blocks, Begin(b) PROVE IInv'
  BY <1>5, BeginIInv
<1>6. ASSUME NEW b \in Blocks, Started(b) PROVE IInv'
  BY <1>6, StartedIInv
<1>7. ASSUME NEW b \in Blocks, Handle(b) \/ EffectEnds(b) PROVE IInv'
  BY <1>7, EffectIInv
<1>8. ASSUME NEW b \in Blocks, Report(b) PROVE IInv'
  BY <1>8, ReportIInv
<1>9. ASSUME NEW b \in Blocks, Leave(b) PROVE IInv'
  BY <1>9, LeaveIInv
<1>10. ASSUME NEW b \in Blocks, ReportUnrun(b) PROVE IInv'
  BY <1>10, ReportUnrunIInv
<1>11. CASE Fence \/ Retire
  BY <1>11, CancelAllIInv
<1>12. ASSUME NEW l \in Limits, SetLimit(l) PROVE IInv'
  BY <1>12, SetLimitIInv
<1>13. CASE UNCHANGED vars
  BY <1>13 DEF vars, IInv, TypeOK, PoolOK, Exclusive, Alone, TurnClosed, Drained,
               Emptied, RunsFresh, Matched, ClosedForGood, AllTerminal, EndingAfterAll
<1> QED
  BY <1>1, <1>2, <1>3, <1>4, <1>5, <1>6, <1>7, <1>8, <1>9, <1>10, <1>11, <1>12, <1>13
     DEF Next

\* Every reachable state satisfies the invariant.
THEOREM Invariance == Spec => []IInv
<1>1. Init => IInv
  BY InitIInv
<1>2. IInv /\ [Next]_vars => IInv'
  BY NextIInv
<1> QED
  BY <1>1, <1>2, PTL DEF Spec

-----------------------------------------------------------------------------
(* What the invariant shows.                                                *)

\* In every reachable state of a turn, each variable of the kernel's turn slice,
\* of the executor and of its pool has its type.
THEOREM TypeCorrect == Spec => []TypeOK
<1>1. IInv => TypeOK
  BY DEF IInv
<1> QED
  BY <1>1, Invariance, PTL

\* TurnExecutionPool never lets two blocks that share a lane hold a slot at the
\* same time, whatever the lanes, the ceiling and the order of events.
THEOREM LanesAreExclusive == Spec => []LanesExclusive
<1>1. IInv => LanesExclusive
  BY DEF IInv, PoolOK, Exclusive, LanesExclusive
<1> QED
  BY <1>1, Invariance, PTL

\* A block that ends the turn shares the pool with no other block.
THEOREM EndingIsAlone == Spec => []EndingHoldsAlone
<1>1. IInv => EndingHoldsAlone
  BY DEF IInv, PoolOK, Alone, EndingHoldsAlone
<1> QED
  BY <1>1, Invariance, PTL

\* What the executor runs is what the kernel holds executing.
THEOREM ExecutingIsTrue == Spec => []EffectsAreExecuting
<1>1. IInv => EffectsAreExecuting
  BY DEF IInv, Matched, EffectsAreExecuting, Effects, InFlight
<1> QED
  BY <1>1, Invariance, PTL

\* The effect of an ending block runs after every earlier block of the turn
\* ended in the kernel, and beside no other effect.
THEOREM EndingRunsLast == Spec => []EndingIsLast
<1>1. IInv => EndingIsLast
  <2>1. SUFFICES ASSUME IInv, NEW e \in plan.ending \intersect Effects(stage)
                 PROVE  /\ Effects(stage) = {e}
                        /\ \A b \in Earlier(Blocks, e) : phase[b] \in Terminal
    BY DEF EndingIsLast
  <2>2. Effects(stage) \subseteq Running(stage)
    BY DEF Effects, Running, Holding
  <2>3. Running(stage) = {e}
    BY <2>1, <2>2 DEF IInv, PoolOK, Alone
  <2>4. e \in Blocks /\ stage[e] = "effect"
    BY DEF Effects
  <2>5. phase[e] = "executing"
    BY <2>1, <2>4 DEF IInv, Matched, InFlight
  <2>6. \A b \in Blocks : b < e => phase[b] \in Terminal
    BY <2>1, <2>5 DEF IInv, EndingAfterAll
  <2> QED
    BY <2>2, <2>3, <2>6 DEF Earlier
<1> QED
  BY <1>1, Invariance, PTL

\* After an ending block began, no other block of the turn starts its effect:
\* the block that closed the turn is the only one the pool can still hold.
THEOREM NothingFollowsEnding == Spec => NothingAfterEnding
<1>1. IInv /\ [Next]_vars =>
        [\A b \in Blocks :
            closing # Unset /\ b # closing => b \notin Effects(stage') \ Effects(stage)]_vars
  <2>1. SUFFICES ASSUME IInv, [Next]_vars, NEW b \in Blocks,
                        closing # Unset, b # closing,
                        b \in Effects(stage') \ Effects(stage)
                 PROVE  FALSE
    OBVIOUS
  <2>2. stage'[b] = "effect" /\ stage[b] # "effect"
    BY <2>1 DEF Effects
  <2>3. IInv'
    BY <2>1, NextIInv
  <2>4. closing \in Blocks /\ Blocks \subseteq Nat
    BY <2>1, TurnAssumption DEF IInv, PoolOK, TurnClosed, Plans, TypeOK, Blocks
  <2>5. closing' = closing
    <3>1. ASSUME NEW x \in Blocks, Begin(x) PROVE closing' = closing
      <4>1. CASE x \in plan.ending
        <5>1. stage[x] = "granted"
          BY <3>1 DEF Begin
        <5>2. ~(x < closing)
          BY <5>1, <2>1 DEF IInv, PoolOK, TurnClosed, Gone
        <5> QED
          BY <3>1, <4>1, <5>2 DEF Begin
      <4>2. CASE x \notin plan.ending
        BY <3>1, <4>2 DEF Begin
      <4> QED
        BY <4>1, <4>2
    <3>2. CASE ~\E x \in Blocks : Begin(x)
      BY <2>1, <3>2 DEF Next, vars, Approve, Deny, Cancel, RunTools, Started, Handle,
                        EffectEnds, Report, Leave, ReportUnrun, Fence, Retire, SetLimit
    <3> QED
      BY <3>1, <3>2
  <2>6. stage'[b] \in Gone \union {"unreleased"}
    <3>1. b < closing \/ closing < b
      BY <2>1, <2>4
    <3> QED
      BY <3>1, <2>1, <2>3, <2>5 DEF IInv, PoolOK, TurnClosed
  <2> QED
    BY <2>2, <2>6 DEF Gone
<1> QED
  BY <1>1, Invariance, PTL DEF Spec, NothingAfterEnding

\* Whoever a decision grants has no earlier block waiting on a lane of its own.
LEMMA GrantedInOrder ==
    ASSUME NEW p, NEW s \in [Blocks -> Stages], NEW l, NEW t \in Scheduled(p, s, l),
           NEW b \in Blocks, s[b] # "granted", t[b] = "granted",
           NEW w \in Blocks, w < b, t[w] = "queued"
    PROVE  w \notin p.ending /\ p.lanes[b] \intersect p.lanes[w] = {}
<1>1. PICK A \in SUBSET Waiting(s) :
         /\ t = Granted(s, A)
         /\ \A x \in A : Admissible(p, s, l, A, x)
  BY ScheduledGrants
<1>2. b \in A /\ w \in Waiting(s) \ A
  BY <1>1 DEF Granted, Waiting
<1>3. w \in Earlier(Waiting(s) \ A, b) /\ w \in Earlier(Waiting(s), b)
  BY <1>2 DEF Earlier
<1>4. Admissible(p, s, l, A, b)
  BY <1>1, <1>2
<1>5. b \notin p.ending
  BY <1>3, <1>4 DEF Admissible, MayEnd
<1> QED
  BY <1>3, <1>4, <1>5 DEF Admissible, MayRun, Conflict

\* Blocks are let in only by a decision taken under the ceiling in force.
LEMMA GrantingStep ==
    ASSUME IInv, [Next]_vars, NEW b \in NewlyGranted
    PROVE  \E s \in [Blocks -> Stages] :
              s[b] # "granted" /\ stage' \in Scheduled(plan, s, limit')
<1>1. b \in Blocks /\ stage[b] # "granted" /\ stage'[b] = "granted"
  BY DEF NewlyGranted
<1>2. stage \in [Blocks -> Stages]
  BY DEF IInv, TypeOK
<1>3. CASE RunTools
  <2>1. ~closed /\ limit' = limit
    BY <1>1, <1>3 DEF RunTools
  <2>2. PICK s : s = Submitted(stage, Head(runs), closing)
    OBVIOUS
  <2>3. s \in [Blocks -> Stages] /\ s[b] # "granted"
    BY <2>2, <1>1, <1>2 DEF Submitted, Stages
  <2> QED
    BY <1>3, <2>1, <2>2, <2>3 DEF RunTools
<1>4. ASSUME NEW x \in Blocks, Leave(x)
      PROVE  \E s \in [Blocks -> Stages] :
                s[b] # "granted" /\ stage' \in Scheduled(plan, s, limit')
  <2>1. PICK s : s = [stage EXCEPT ![x] = "done"]
    OBVIOUS
  <2>2. s \in [Blocks -> Stages] /\ s[b] # "granted"
    BY <2>1, <1>1, <1>2 DEF Stages
  <2> QED
    BY <1>4, <2>1, <2>2 DEF Leave
<1>5. ASSUME NEW l \in Limits, SetLimit(l)
      PROVE  \E s \in [Blocks -> Stages] :
                s[b] # "granted" /\ stage' \in Scheduled(plan, s, limit')
  <2>1. limit' = l /\ stage' \in Scheduled(plan, stage, l)
    BY <1>5, <1>1 DEF SetLimit
  <2> QED
    BY <2>1, <1>1, <1>2
<1>6. ~\E x \in Blocks : Begin(x)
  BY <1>1, <1>2 DEF Begin, SkipBlocksAfter
<1>7. ~\E x \in Blocks : Started(x) \/ Handle(x) \/ EffectEnds(x) \/ Report(x)
                         \/ ReportUnrun(x)
  BY <1>1, <1>2 DEF Started, Handle, EffectEnds, Report, ReportUnrun
<1>8. ~(Fence \/ Retire)
  BY <1>1, <1>2 DEF Fence, Retire, CancelAll
<1>9. ~(Cancel \/ UNCHANGED vars \/ \E x \in Blocks : Approve(x) \/ Deny(x))
  BY <1>1 DEF Cancel, vars, Approve, Deny
<1> QED
  BY <1>3, <1>4, <1>5, <1>6, <1>7, <1>8, <1>9 DEF Next

\* Waiting is head-of-line by lane in every turn: no block is let in past an
\* earlier one that keeps waiting and shares a lane with it or ends the turn.
THEOREM NobodyOvertakes == Spec => NoOvertaking
<1>1. IInv /\ [Next]_vars =>
        [\A b \in NewlyGranted : \A w \in Earlier(Waiting(stage'), b) :
            /\ w \notin plan.ending
            /\ plan.lanes[b] \intersect plan.lanes[w] = {}]_vars
  <2>1. SUFFICES ASSUME IInv, [Next]_vars, NEW b \in NewlyGranted,
                        NEW w \in Earlier(Waiting(stage'), b)
                 PROVE  w \notin plan.ending /\ plan.lanes[b] \intersect plan.lanes[w] = {}
    OBVIOUS
  <2>2. PICK s \in [Blocks -> Stages] :
           s[b] # "granted" /\ stage' \in Scheduled(plan, s, limit')
    BY <2>1, GrantingStep
  <2>3. PICK t \in Scheduled(plan, s, limit') : t = stage'
    BY <2>2
  <2>4. /\ b \in Blocks /\ s[b] # "granted" /\ t[b] = "granted"
        /\ w \in Blocks /\ w < b /\ t[w] = "queued"
    BY <2>2, <2>3 DEF NewlyGranted, Earlier, Waiting
  <2> QED
    BY <2>4, GrantedInOrder
<1> QED
  BY <1>1, Invariance, PTL DEF Spec, NoOvertaking

-----------------------------------------------------------------------------
(* The ceiling.                                                             *)

\* Every set of blocks has a least and a greatest member.
LEMMA LeastBlock ==
    ASSUME NEW S \in SUBSET Nat, S # {}
    PROVE  \E x \in S : \A y \in S : x <= y
<1>1. PICK x \in S : \A y \in S : ~(<<y, x>> \in OpToRel(<, Nat))
  BY NatLessThanWellFounded, WFMin
<1>2. ASSUME NEW y \in S, ~(x <= y) PROVE FALSE
  <2>1. x \in S
    BY <1>1, Zenon
  <2>2. <<y, x>> \in {ss \in Nat \X Nat : ss[1] < ss[2]}
    BY <1>2, <2>1
  <2>3. <<y, x>> \in OpToRel(<, Nat)
    BY <2>2, Zenon DEF OpToRel
  <2> QED
    BY <1>1, <2>3, Zenon
<1> QED
  BY <1>1, <1>2

LEMMA GreatestBlock ==
    ASSUME NEW S \in SUBSET Blocks, S # {}
    PROVE  \E x \in S : \A y \in S : y <= x
<1> DEFINE D == {n \in Nat : \E x \in S : x + n = Last}
<1>1. Last \in Nat /\ S \subseteq 0..Last
  BY TurnAssumption DEF Blocks
<1>2. \A x \in S : Last - x \in D
  BY <1>1
<1>3. D \in SUBSET Nat /\ D # {}
  BY <1>2
<1>4. PICK n \in D : \A m \in D : n <= m
  <2> HIDE DEF D
  <2> QED
    BY <1>3, LeastBlock
<1>5. PICK x \in S : x + n = Last
  BY <1>4
<1>6. ASSUME NEW y \in S PROVE y <= x
  <2>1. n <= Last - y
    BY <1>2, <1>4
  <2> QED
    BY <2>1, <1>1, <1>4, <1>5
<1> QED
  BY <1>5, <1>6

LEMMA BlocksFinite == \A S \in SUBSET Blocks : IsFiniteSet(S) /\ Cardinality(S) \in Nat
<1>1. IsFiniteSet(Blocks)
  BY TurnAssumption, FS_Interval DEF Blocks
<1> QED
  BY <1>1, FS_Subset, FS_CardinalityType

\* A decision that lets anybody in ends within the ceiling it was taken under:
\* the last block it let in found a slot, and nobody came after it.
LEMMA DecidedWithin ==
    ASSUME NEW p, NEW s \in [Blocks -> Stages], NEW l \in Nat \ {0},
           NEW t \in Scheduled(p, s, l),
           NEW g \in Blocks, s[g] # "granted", t[g] = "granted"
    PROVE  Cardinality(Running(t)) <= l
<1>1. PICK A \in SUBSET Waiting(s) :
         /\ t = Granted(s, A)
         /\ \A x \in A : Admissible(p, s, l, A, x)
  BY ScheduledGrants
<1>2. A \subseteq Blocks /\ g \in A /\ Blocks \subseteq Nat
  BY <1>1, TurnAssumption DEF Granted, Waiting, Blocks
<1>3. PICK b \in A : \A x \in A : x <= b
  BY <1>2, GreatestBlock
<1> DEFINE held == Running(s) \union Earlier(A, b)
<1>4. Running(t) = held \union {b}
  <2>1. Running(t) = Running(s) \union A
    BY <1>1, <1>2 DEF Granted, Running, Waiting, Holding
  <2>2. \A x \in A : x = b \/ x < b
    BY <1>2, <1>3
  <2>3. A = Earlier(A, b) \union {b}
    BY <2>2 DEF Earlier
  <2> QED
    BY <2>1, <2>3
<1>5. b \notin held
  BY <1>2 DEF Running, Waiting, Holding, Earlier
<1>6. held \in SUBSET Blocks
  BY <1>2 DEF Running, Earlier
<1>7. IsFiniteSet(held) /\ Cardinality(held) \in Nat
  BY <1>6, BlocksFinite
<1>8. Cardinality(Running(t)) = Cardinality(held) + 1
  <2> HIDE DEF held
  <2> QED
    BY <1>4, <1>5, <1>7, FS_AddElement
<1>9. Admissible(p, s, l, A, b)
  BY <1>1
<1>10. CASE b \in p.ending
  <2>1. held = {}
    BY <1>9, <1>10 DEF Admissible, MayEnd
  <2> HIDE DEF held
  <2> QED
    BY <2>1, <1>8, FS_EmptySet
<1>11. CASE b \notin p.ending
  <2>1. Cardinality(held) < l
    BY <1>9, <1>11 DEF Admissible, MayRun
  <2> HIDE DEF held
  <2> QED
    BY <2>1, <1>7, <1>8
<1> QED
  BY <1>10, <1>11

\* However the parallel tool call setting moved since the running blocks were
\* let in, a decision never takes the pool over the ceiling it reads.
THEOREM CeilingIsKept == Spec => WithinLimit
<1>1. IInv /\ [Next]_vars =>
        [NewlyGranted # {} => Cardinality(Running(stage')) <= limit']_vars
  <2>1. SUFFICES ASSUME IInv, [Next]_vars, NEW b \in NewlyGranted
                 PROVE  Cardinality(Running(stage')) <= limit'
    OBVIOUS
  <2>2. PICK s \in [Blocks -> Stages] :
           s[b] # "granted" /\ stage' \in Scheduled(plan, s, limit')
    BY <2>1, GrantingStep
  <2>3. PICK l \in Nat \ {0} : l = limit'
    <3>1. IInv'
      BY <2>1, NextIInv
    <3> QED
      BY <3>1, TurnAssumption DEF IInv, TypeOK
  <2>4. PICK t \in Scheduled(plan, s, l) : t = stage'
    BY <2>2, <2>3
  <2>5. b \in Blocks /\ s[b] # "granted" /\ t[b] = "granted"
    BY <2>2, <2>4 DEF NewlyGranted
  <2>6. Cardinality(Running(t)) <= l
    BY <2>5, DecidedWithin
  <2> QED
    BY <2>3, <2>4, <2>6
<1> QED
  BY <1>1, Invariance, PTL DEF Spec, WithinLimit

-----------------------------------------------------------------------------
(* A pool at rest.                                                          *)

Settled(p, s, l) == Decision(p, s, l) \subseteq {{}}

\* decideAdmission has one answer: two decisions of the same pool would differ
\* first at a block that saw the same blocks held and refused before it.
THEOREM DecisionUnique ==
    ASSUME NEW p, NEW s, NEW l,
           NEW A \in Decision(p, s, l), NEW B \in Decision(p, s, l)
    PROVE  A = B
<1> DEFINE D == (A \ B) \union (B \ A)
<1>1. SUFFICES ASSUME D # {} PROVE FALSE
  OBVIOUS
<1>2. /\ A \subseteq Waiting(s) /\ B \subseteq Waiting(s)
      /\ \A b \in Waiting(s) : b \in A <=> Admissible(p, s, l, A, b)
      /\ \A b \in Waiting(s) : b \in B <=> Admissible(p, s, l, B, b)
  BY DEF Decision
<1>3. Waiting(s) \subseteq Nat
  BY TurnAssumption DEF Waiting, Blocks
<1>4. PICK d \in D : \A x \in D : d <= x
  <2>1. D \in SUBSET Nat
    BY <1>2, <1>3
  <2> HIDE DEF D
  <2> QED
    BY <1>1, <2>1, LeastBlock
<1>5. d \in Waiting(s)
  BY <1>2
<1>6. \A x \in Waiting(s) : x < d => (x \in A <=> x \in B)
  BY <1>3, <1>4, <1>5
<1>7. Earlier(A, d) = Earlier(B, d)
  BY <1>2, <1>6 DEF Earlier
<1>8. Earlier(Waiting(s) \ A, d) = Earlier(Waiting(s) \ B, d)
  BY <1>6 DEF Earlier
<1>9. Admissible(p, s, l, A, d) <=> Admissible(p, s, l, B, d)
  BY <1>7, <1>8 DEF Admissible
<1> QED
  BY <1>2, <1>5, <1>9

\* It always has one, so no scheduling step of the model is ever disabled for the
\* want of a decision: a block's fate follows from those of the blocks before it.
THEOREM DecisionExists ==
    ASSUME NEW p, NEW s, NEW l
    PROVE  \E A \in SUBSET Waiting(s) : A \in Decision(p, s, l)
<1> DEFINE W(n) == {b \in Waiting(s) : b < n}
           Fits(A, n) == A \subseteq W(n)
                         /\ \A b \in W(n) : b \in A <=> Admissible(p, s, l, A, b)
           Bad == {n \in Nat : ~\E A \in SUBSET Blocks : Fits(A, n)}
<1>1. /\ Waiting(s) \subseteq Blocks
      /\ \A b \in Waiting(s) : b \in Nat /\ ~(b < 0) /\ b < Last + 1
  BY TurnAssumption DEF Waiting, Blocks
<1>2. Bad = {}
  <2>1. SUFFICES ASSUME Bad # {} PROVE FALSE
    OBVIOUS
  <2>2. Bad \in SUBSET Nat
    OBVIOUS
  <2>3. PICK n \in Bad : \A m \in Bad : n <= m
    <3> HIDE DEF Bad
    <3> QED
      BY <2>1, <2>2, LeastBlock
  <2>4. n \in Nat
    OBVIOUS
  <2>5. n # 0
    <3>1. W(0) = {}
      BY <1>1
    <3>2. Fits({}, 0)
      BY <3>1
    <3> QED
      BY <3>2
  <2>6. n - 1 \in Nat /\ n - 1 \notin Bad
    BY <2>3, <2>4, <2>5
  <2>7. PICK A \in SUBSET Blocks : Fits(A, n - 1)
    BY <2>6
  <2> DEFINE m == n - 1
             B == IF m \in Waiting(s) /\ Admissible(p, s, l, A, m) THEN A \union {m} ELSE A
  <2>8. \A b \in Waiting(s) : b < n <=> (b < m \/ b = m)
    <3>1. \A b \in Nat : b < n <=> (b < m \/ b = m)
      <4> HIDE DEF Bad
      <4> QED
        BY <2>4
    <3> QED
      BY <3>1, <1>1, Zenon
  <2>9. /\ \A b \in A : b \in Waiting(s) /\ b < m
        /\ \A b \in Waiting(s) : b < m => (b \in A <=> Admissible(p, s, l, A, b))
    BY <2>7
  <2>10. m \in Nat /\ B \in SUBSET Blocks
    BY <2>6, <1>1
  <2> HIDE DEF m
  <2>11. ASSUME NEW b \in Waiting(s), b < m \/ b = m
         PROVE  Admissible(p, s, l, A, b) = Admissible(p, s, l, B, b)
    <3>1. ~(m < b)
      BY <2>10, <2>11, <1>1
    <3>2. Earlier(A, b) = Earlier(B, b)
      BY <3>1 DEF Earlier
    <3>3. Earlier(Waiting(s) \ A, b) = Earlier(Waiting(s) \ B, b)
      BY <3>1, <2>10, <2>11, <1>1 DEF Earlier
    <3> QED
      BY <3>2, <3>3 DEF Admissible
  <2>12. \A b \in B : b \in Waiting(s) /\ b < n
    BY <2>8, <2>9
  <2>13. ASSUME NEW b \in Waiting(s), b < n
         PROVE  b \in B <=> Admissible(p, s, l, B, b)
    <3>1. CASE b < m
      <4>1. b # m
        BY <3>1, <2>10, <1>1
      <4>2. b \in B <=> b \in A
        BY <4>1
      <4> QED
        BY <3>1, <4>2, <2>9, <2>11
    <3>2. CASE b = m
      <4>1. m \notin A
        BY <2>9, <2>10
      <4>2. b \in B <=> Admissible(p, s, l, A, b)
        BY <3>2, <4>1
      <4> QED
        BY <3>2, <4>2, <2>11
    <3> QED
      BY <3>1, <3>2, <2>8, <2>13
  <2>14. Fits(B, n)
    <3> HIDE DEF B
    <3> QED
      BY <2>12, <2>13
  <2> QED
    BY <2>3, <2>10, <2>14
<1>3. PICK A \in SUBSET Blocks : Fits(A, Last + 1)
  <2>1. Last + 1 \in Nat
    BY TurnAssumption
  <2> HIDE DEF Fits
  <2> QED
    BY <1>2, <2>1
<1>4. W(Last + 1) = Waiting(s)
  BY <1>1
<1> QED
  BY <1>3, <1>4 DEF Decision

\* What the pool decides depends on who holds, who waits and who was released.
LEMMA SameDecision ==
    ASSUME NEW p, NEW l, NEW s, NEW t,
           Running(t) = Running(s), Waiting(t) = Waiting(s), Released(t) = Released(s)
    PROVE  Decision(p, t, l) = Decision(p, s, l)
<1>1. Unfinished(p, t) = Unfinished(p, s)
  BY DEF Unfinished
<1>2. ASSUME NEW A, NEW b PROVE Admissible(p, t, l, A, b) = Admissible(p, s, l, A, b)
  BY <1>1 DEF Admissible, MayEnd, MayRun
<1> QED
  BY <1>2 DEF Decision

\* After a decision there is nothing left to decide.  A block let in next would
\* be the first of them: it would find at least as many blocks held and the same
\* ones refused before it, so the decision would have let it in already.
LEMMA DecidedIsSettled ==
    ASSUME NEW p \in Plans, NEW s \in [Blocks -> Stages], NEW l \in Nat,
           NEW t \in Scheduled(p, s, l)
    PROVE  Settled(p, t, l)
<1>1. PICK A \in Decision(p, s, l) : t = Granted(s, A)
  BY DEF Scheduled
<1>2. SUFFICES ASSUME NEW D \in Decision(p, t, l), D # {}
               PROVE  FALSE
  BY DEF Settled
<1>3. /\ A \subseteq Waiting(s) /\ Waiting(s) \subseteq Blocks /\ Blocks \subseteq Nat
      /\ \A b \in Waiting(s) : b \in A <=> Admissible(p, s, l, A, b)
  BY <1>1, TurnAssumption DEF Decision, Waiting, Blocks
<1>4. /\ Running(t) = Running(s) \union A
      /\ Waiting(t) = Waiting(s) \ A
      /\ Released(t) = Released(s)
  BY <1>1, <1>3 DEF Granted, Running, Waiting, Released, Holding
<1>5. D \subseteq Waiting(t) /\ \A b \in D : Admissible(p, t, l, D, b)
  BY DEF Decision
<1>6. PICK d \in D : \A x \in D : d <= x
  <2>1. D \in SUBSET Nat
    BY <1>3, <1>4, <1>5
  <2> QED
    BY <1>2, <2>1, LeastBlock
<1>7. d \in Waiting(s) /\ d \notin A /\ d \in Nat
  BY <1>3, <1>4, <1>5
<1>8. Earlier(D, d) = {}
  <2>1. ASSUME NEW x \in D PROVE ~(x < d)
    BY <1>3, <1>4, <1>5, <1>6, <1>7
  <2> QED
    BY <2>1 DEF Earlier
<1> DEFINE held == Running(s) \union Earlier(A, d)
           refused == Earlier(Waiting(s) \ A, d)
<1>9. /\ held \subseteq Running(t) \union Earlier(D, d)
      /\ refused = Earlier(Waiting(t) \ D, d)
  <2>1. Earlier(A, d) \subseteq A
    BY DEF Earlier
  <2>2. Earlier(Waiting(t) \ D, d) = Earlier(Waiting(t), d)
    BY <1>8 DEF Earlier
  <2> QED
    BY <2>1, <2>2, <1>4
<1>10. Admissible(p, t, l, D, d)
  BY <1>5, <1>6
<1>11. /\ Running(t) \intersect p.ending = {}
       /\ IF d \in p.ending
            THEN MayEnd(p, t, Running(t) \union Earlier(D, d), refused)
            ELSE MayRun(p, t, l, d, Running(t) \union Earlier(D, d), refused)
  BY <1>9, <1>10 DEF Admissible
<1>12. Running(s) \intersect p.ending = {} /\ A \intersect p.ending = {}
  BY <1>4, <1>11
<1>13. CASE d \in p.ending
  <2>1. Running(t) \union Earlier(D, d) = {} /\ refused = {} /\ ~Unfinished(p, t)
    BY <1>11, <1>13 DEF MayEnd
  <2>2. ~Unfinished(p, s)
    BY <2>1, <1>4 DEF Unfinished
  <2>3. MayEnd(p, s, held, refused)
    BY <2>1, <2>2, <1>9 DEF MayEnd
  <2>4. Admissible(p, s, l, A, d)
    BY <2>3, <1>12, <1>13 DEF Admissible
  <2> QED
    BY <2>4, <1>3, <1>7
<1>14. CASE d \notin p.ending
  <2>1. /\ Earlier(Waiting(t), d) \intersect p.ending = {}
        /\ Cardinality(Running(t) \union Earlier(D, d)) < l
        /\ ~Conflict(p, d, refused)
        /\ ~Conflict(p, d, Running(t) \union Earlier(D, d))
    BY <1>11, <1>14 DEF MayRun
  <2>2. Earlier(Waiting(s), d) \intersect p.ending = {}
    BY <2>1, <1>4, <1>12 DEF Earlier
  <2>3. ~Conflict(p, d, held)
    BY <2>1, <1>9 DEF Conflict
  <2>4. Cardinality(held) < l
    <3>1. Running(t) \union Earlier(D, d) \in SUBSET Blocks /\ held \in SUBSET Blocks
      BY <1>3, <1>8, <1>9 DEF Running
    <3>2. IsFiniteSet(Running(t) \union Earlier(D, d))
      BY <3>1, BlocksFinite
    <3>3. Cardinality(held) <= Cardinality(Running(t) \union Earlier(D, d))
      <4> HIDE DEF held
      <4> QED
        BY <3>2, <1>9, FS_Subset
    <3>4. /\ Cardinality(held) \in Nat
          /\ Cardinality(Running(t) \union Earlier(D, d)) \in Nat
      <4> HIDE DEF held
      <4> QED
        BY <3>1, BlocksFinite
    <3> QED
      BY <2>1, <3>3, <3>4
  <2>5. MayRun(p, s, l, d, held, refused)
    BY <2>1, <2>2, <2>3, <2>4 DEF MayRun
  <2>6. Admissible(p, s, l, A, d)
    BY <2>5, <1>12, <1>14 DEF Admissible
  <2> QED
    BY <2>6, <1>3, <1>7
<1> QED
  BY <1>13, <1>14

\* With an ending block in the pool nobody is let in.
LEMMA EndingSettles ==
    ASSUME NEW p, NEW s, NEW l, NEW e \in Running(s), e \in p.ending
    PROVE  Settled(p, s, l)
  BY DEF Settled, Decision, Admissible

\* Moving on inside the pool, and reporting a block it gave up, lets nobody in
\* and keeps nobody out.
LEMMA MovedIsSettled ==
    ASSUME NEW p, NEW l, NEW s \in [Blocks -> Stages], Settled(p, s, l),
           NEW b \in Blocks, NEW v,
           \/ s[b] \in Holding /\ v \in Holding
           \/ s[b] = "dropped" /\ v = "done",
           NEW t \in MovedOn(s, b, v)
    PROVE  Settled(p, t, l)
<1>1. \A x \in Blocks : t[x] = IF x = b THEN v ELSE s[x]
  BY DEF MovedOn
<1>2. Running(t) = Running(s)
  BY <1>1 DEF Running, Holding
<1>3. Waiting(t) = Waiting(s)
  BY <1>1 DEF Waiting, Holding
<1>4. Released(t) = Released(s)
  BY <1>1 DEF Released, Holding
<1>5. Decision(p, t, l) = Decision(p, s, l)
  BY <1>2, <1>3, <1>4, SameDecision
<1> QED
  BY <1>5 DEF Settled

\* An ending block that begins keeps the pool to itself.
LEMMA BegunIsSettled ==
    ASSUME IInv, NEW b \in Blocks, Begin(b), NoMissedWakeup
    PROVE  NoMissedWakeup'
<1>1. /\ stage[b] = "granted" /\ stage \in [Blocks -> Stages]
      /\ UNCHANGED <<plan, limit, closed>>
  BY DEF Begin, IInv, TypeOK
<1>2. CASE b \in plan.ending
  <2>1. \E c : stage' = SkipBlocksAfter([stage EXCEPT ![b] = "starting"], c)
    BY <1>2 DEF Begin
  <2>2. stage'[b] = "starting"
    BY <2>1, <1>1 DEF SkipBlocksAfter
  <2>3. b \in Running(stage')
    BY <2>2 DEF Running, Holding
  <2>4. Settled(plan, stage', limit)
    BY <2>3, <1>2, EndingSettles
  <2> QED
    BY <2>4, <1>1 DEF NoMissedWakeup, Settled
<1>3. CASE b \notin plan.ending
  <2>1. stage' \in MovedOn(stage, b, "starting")
    BY <1>3 DEF Begin, MovedOn
  <2>2. PICK t \in MovedOn(stage, b, "starting") : t = stage'
    BY <2>1
  <2>3. stage[b] \in Holding /\ "starting" \in Holding
    BY <1>1 DEF Holding
  <2>4. ~closed => Settled(plan, t, limit)
    <3>1. SUFFICES ASSUME ~closed PROVE Settled(plan, t, limit)
      OBVIOUS
    <3>2. Settled(plan, stage, limit)
      BY <3>1 DEF NoMissedWakeup, Settled
    <3> QED
      BY <1>1, <2>3, <3>2, MovedIsSettled
  <2> QED
    BY <2>2, <2>4, <1>1 DEF NoMissedWakeup, Settled
<1> QED
  BY <1>2, <1>3

LEMMA NextSettled ==
    ASSUME IInv, [Next]_vars, NoMissedWakeup
    PROVE  NoMissedWakeup'
<1>1. /\ plan \in Plans /\ stage \in [Blocks -> Stages]
      /\ limit \in Nat /\ Limits \subseteq Nat
  BY TurnAssumption DEF IInv, TypeOK
<1>2. ASSUME NEW s \in [Blocks -> Stages], stage' \in Scheduled(plan, s, limit'),
             limit' \in Limits, plan' = plan
      PROVE  NoMissedWakeup'
  <2>1. PICK l \in Nat : l = limit'
    BY <1>1, <1>2
  <2>2. PICK t \in Scheduled(plan, s, l) : t = stage'
    BY <1>2, <2>1
  <2>3. Settled(plan, t, l)
    BY <1>1, DecidedIsSettled
  <2> QED
    BY <1>2, <2>1, <2>2, <2>3 DEF NoMissedWakeup, Settled
<1>3. ASSUME NEW b \in Blocks, NEW v,
             \/ stage[b] \in Holding /\ v \in Holding
             \/ stage[b] = "dropped" /\ v = "done",
             stage' = [stage EXCEPT ![b] = v],
             UNCHANGED <<plan, limit, closed>>
      PROVE  NoMissedWakeup'
  <2>1. PICK t \in MovedOn(stage, b, v) : t = stage'
    BY <1>3 DEF MovedOn
  <2>2. Settled(plan, stage, limit) => Settled(plan, t, limit)
    BY <1>1, <1>3, MovedIsSettled
  <2> QED
    BY <1>3, <2>1, <2>2 DEF NoMissedWakeup, Settled
<1>4. CASE UNCHANGED <<plan, stage, limit, closed>>
  <2>1. Decision(plan', stage', limit') = Decision(plan, stage, limit)
    BY <1>4
  <2> QED
    BY <2>1, <1>4 DEF NoMissedWakeup
<1>5. CASE RunTools
  <2>1. CASE closed
    BY <1>5, <2>1 DEF RunTools, NoMissedWakeup
  <2>2. CASE ~closed
    <3>1. Head(runs) \in SUBSET Blocks
      BY <1>5 DEF RunTools, IInv, TypeOK
    <3>2. PICK s : s = Submitted(stage, Head(runs), closing)
      OBVIOUS
    <3>3. s \in [Blocks -> Stages]
      BY <1>1, <3>2 DEF Submitted, Stages
    <3> QED
      BY <1>2, <1>5, <2>2, <3>2, <3>3 DEF RunTools, IInv, TypeOK
  <2> QED
    BY <2>1, <2>2
<1>6. ASSUME NEW b \in Blocks, Leave(b) PROVE NoMissedWakeup'
  <2>1. PICK s : s = [stage EXCEPT ![b] = "done"]
    OBVIOUS
  <2>2. s \in [Blocks -> Stages]
    BY <1>1, <2>1 DEF Stages
  <2> QED
    BY <1>2, <1>6, <2>1, <2>2 DEF Leave, IInv, TypeOK
<1>7. ASSUME NEW l \in Limits, SetLimit(l) PROVE NoMissedWakeup'
  <2>1. CASE closed
    BY <1>7, <2>1 DEF SetLimit, NoMissedWakeup
  <2>2. CASE ~closed
    BY <1>1, <1>2, <1>7, <2>2 DEF SetLimit
  <2> QED
    BY <2>1, <2>2
<1>8. ASSUME NEW b \in Blocks, Begin(b) PROVE NoMissedWakeup'
  BY <1>8, BegunIsSettled
<1>9. ASSUME NEW b \in Blocks,
             Started(b) \/ Handle(b) \/ EffectEnds(b) \/ Report(b) \/ ReportUnrun(b)
      PROVE  NoMissedWakeup'
  <2>1. \E v : /\ \/ stage[b] \in Holding /\ v \in Holding
                  \/ stage[b] = "dropped" /\ v = "done"
               /\ stage' = [stage EXCEPT ![b] = v]
    BY <1>9 DEF Started, Handle, EffectEnds, Report, ReportUnrun, Holding
  <2>2. UNCHANGED <<plan, limit, closed>>
    BY <1>9 DEF Started, Handle, EffectEnds, Report, ReportUnrun
  <2> QED
    BY <1>3, <2>1, <2>2
<1>10. CASE Fence \/ Retire
  BY <1>10 DEF Fence, Retire, CancelAll, NoMissedWakeup
<1>11. ASSUME NEW b \in Blocks, Approve(b) \/ Deny(b) PROVE NoMissedWakeup'
  BY <1>4, <1>11 DEF Approve, Deny
<1>12. CASE Cancel \/ UNCHANGED vars
  BY <1>4, <1>12 DEF Cancel, vars
<1> QED
  BY <1>5, <1>6, <1>7, <1>8, <1>9, <1>10, <1>11, <1>12 DEF Next

\* A pool at rest strands nobody: after any event of any turn, no block waits
\* that decideAdmission would let in now, however many blocks and lanes the turn
\* has and whatever moved last.
THEOREM NobodyIsStranded == Spec => []NoMissedWakeup
<1>1. Init => NoMissedWakeup
  BY DEF Init, NoMissedWakeup, Decision, Waiting
<1>2. IInv /\ [Next]_vars /\ NoMissedWakeup => NoMissedWakeup'
  BY NextSettled
<1> QED
  BY <1>1, <1>2, Invariance, PTL DEF Spec

=============================================================================
