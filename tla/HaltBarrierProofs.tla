--------------------------- MODULE HaltBarrierProofs ---------------------------
(***************************************************************************)
(* Proofs about the halt barrier, for any participants, any number of      *)
(* cancels and terminates and any participants that are late or hang: the  *)
(* kernel and the halt executor agree on who still has to stop, a fence    *)
(* outlives the effect it was put up against, a paused task is quiet, and  *)
(* a force-closed halt never reopens a fence.  Of the rounds: no two       *)
(* requests overlap and no work starts that is older than a stop, but for  *)
(* what a call that missed a deadline overtook when it lifted the fences.  *)
(***************************************************************************)
EXTENDS HaltBarrier, TLAPS

\* An effect runs a command.
EffectsAreReal == \A d \in Executors : active[d] = Idle \/ active[d].cmd # NoCmd

\* A halt whose fence an aborted effect stands behind waits for that effect.
AbortedIsAwaited ==
    \A d \in Executors, h \in Halts :
        active[d].aborted /\ fence[d] = h =>
            active[d].cmd # NoCmd /\ active[d].cmd = awaited[h][d]

\* The active halt, once dispatched, holds the fence before every aborted effect.
BarrierFences ==
    \A d \in Executors, h \in Halts \ stops :
        halt.id = h /\ active[d].aborted => fence[d] = h

\* A participant the barrier no longer waits for runs nothing aborted.
ReportedIsQuiet ==
    \A h \in Halts \ stops :
        halt.id = h => \A d \in Executors \ halt.pending : ~active[d].aborted

\* A stop waits for dispatch only while it is the active halt, or the task is
\* terminated already.
StopIsCurrent == phase # "terminated" => stops \subseteq {halt.id}

\* Nothing has happened yet to a stop that waits for dispatch.
StopIsWhole ==
    \A h \in stops :
        /\ \A p \in Participants : run[h][p] = "none"
        /\ halt.id = h => halt.pending = Participants

UnusedIsFresh ==
    \A h \in Halts :
        call[h].at = "unused" => h \notin stops /\ \A p \in Participants : run[h][p] = "none"

\* Only a terminated task holds force-closed halts, and it stops no more.
TerminatedIsFinal ==
    /\ phase = "terminated" => ~Stopping
    /\ forceClosed # {} => phase = "terminated"
    /\ \A h \in Halts : call[h].force # NoHalt => phase = "terminated"

Barrier ==
    /\ EffectsAreReal /\ AbortedIsAwaited /\ BarrierFences /\ ReportedIsQuiet
    /\ StopIsCurrent /\ StopIsWhole /\ UnusedIsFresh /\ TerminatedIsFinal
    /\ AbortedIsFenced /\ PausedIsQuiet /\ PendingIsOutstanding

IInv == TypeOK /\ Barrier

-------------------------------------------------------------------------------
(* Types.                                                                  *)

CallStates == {"unused", "stopping", "stopped", "quiescing", "rearming",
               "late_quiescing", "offering", "done", "threw"}
Calls == [at : CallStates, kind : {"cancel", "terminate"}, early : BOOLEAN, late : BOOLEAN,
          force : Halts \cup {NoHalt}]
RunStates == {"none", "draining", "acknowledged", "timed_out", "late", "rejected"}
HaltSlices == [id : Halts \cup {NoHalt}, target : {"paused", "terminated"},
               pending : SUBSET Participants]

\* A call stays a call wherever it gets to.
LEMMA CallMoves ==
    ASSUME TypeOK, NEW h \in Halts, NEW at \in CallStates
    PROVE  [call EXCEPT ![h].at = at] \in [Halts -> Calls]
<1>1. call \in [Halts -> Calls]
  BY DEF TypeOK, Calls, CallStates
<1>2. ASSUME NEW c \in Calls PROVE [c EXCEPT !.at = at] \in Calls
  BY DEF Calls
<1> QED BY <1>1, <1>2

\* A call that goes on is no longer unused, and the other calls stay.
LEMMA CallReplaced ==
    ASSUME TypeOK, NEW h \in Halts, NEW c, c.at # "unused", call' = [call EXCEPT ![h] = c]
    PROVE  /\ \A o \in Halts : call'[o].at = "unused" => o # h /\ call[o].at = "unused"
           /\ c.force = call[h].force => \A o \in Halts : call'[o].force = call[o].force
<1>1. \A o \in Halts : call'[o] = IF o = h THEN c ELSE call[o]
  BY DEF TypeOK
<1> QED BY <1>1

LEMMA CallGoesOn ==
    ASSUME TypeOK, NEW h \in Halts, NEW at, at # "unused", call' = [call EXCEPT ![h].at = at]
    PROVE  \A o \in Halts : /\ call'[o].force = call[o].force
                            /\ call'[o].at = "unused" => o # h /\ call[o].at = "unused"
<1>1. call \in [Halts -> Calls]
  BY DEF TypeOK, Calls, CallStates
<1>2. \A o \in Halts : call'[o] = IF o = h THEN [call[o] EXCEPT !.at = at] ELSE call[o]
  BY <1>1
<1>3. \A c \in Calls : [c EXCEPT !.at = at].at = at /\ [c EXCEPT !.at = at].force = c.force
  BY DEF Calls
<1> QED BY <1>1, <1>2, <1>3

\* What the changes of a call's record leave of it.
LEMMA CallFields ==
    ASSUME TypeOK, NEW h \in Halts, NEW at, NEW x, at # "unused"
    PROVE  /\ [call[h] EXCEPT !.at = at, !.late = x].at # "unused"
           /\ [call[h] EXCEPT !.at = at, !.late = x].force = call[h].force
           /\ [call[h] EXCEPT !.at = at, !.early = x].at # "unused"
           /\ [call[h] EXCEPT !.at = at, !.early = x].force = call[h].force
           /\ [call[h] EXCEPT !.at = at, !.kind = x].at # "unused"
           /\ [call[h] EXCEPT !.at = at, !.kind = x].force = call[h].force
           /\ [call[h] EXCEPT !.at = at, !.force = x].at # "unused"
           /\ [call[h] EXCEPT !.at = at, !.kind = "terminate", !.force = x].at # "unused"
<1>1. call[h] \in Calls
  BY DEF TypeOK, Calls, CallStates
<1> QED BY <1>1 DEF Calls

\* A refused receipt lets calls throw, and leaves the others alone.
LEMMA RefusedCalls ==
    ASSUME TypeOK, NEW h \in Halts, NEW p \in Participants, Refused(h, p)
    PROVE  /\ call' \in [Halts -> Calls]
           /\ \A o \in Halts :
                \/ call'[o] = call[o]
                \/ /\ call[o].at \in {"quiescing", "late_quiescing"} /\ call'[o].at = "threw"
                   /\ call'[o].kind = call[o].kind /\ call'[o].early = call[o].early
                   /\ call'[o].late = call[o].late /\ call'[o].force = call[o].force
<1>1. call \in [Halts -> Calls]
  BY DEF TypeOK, Calls, CallStates
<1>2. PICK W \in SUBSET {o \in Halts : call[o].at \in {"quiescing", "late_quiescing"}} :
        call' = [o \in Halts |-> IF o \in W THEN [call[o] EXCEPT !.at = "threw"] ELSE call[o]]
  BY DEF Refused
<1>3. ASSUME NEW c \in Calls
      PROVE  /\ [c EXCEPT !.at = "threw"] \in Calls /\ [c EXCEPT !.at = "threw"].at = "threw"
             /\ [c EXCEPT !.at = "threw"].kind = c.kind /\ [c EXCEPT !.at = "threw"].early = c.early
             /\ [c EXCEPT !.at = "threw"].late = c.late /\ [c EXCEPT !.at = "threw"].force = c.force
  BY DEF Calls, CallStates
<1>4. \A o \in Halts : call'[o] = IF o \in W THEN [call[o] EXCEPT !.at = "threw"] ELSE call[o]
  BY <1>2
<1> QED BY <1>1, <1>2, <1>3, <1>4

\* What the lanes hold are commands.
LEMMA LanesType == ASSUME TypeOK, NEW D \in SUBSET Executors PROVE InLanes(D) \subseteq Command
<1>1. ASSUME NEW d \in D PROVE lookup[d] \in Command /\ queued[d] \in Seq(Command)
  BY DEF TypeOK
<1>2. ASSUME NEW d \in D, NEW i \in DOMAIN queued[d] PROVE queued[d][i] \in Command
  BY <1>1
<1> QED BY <1>1, <1>2 DEF InLanes

LEMMA RunMoves ==
    ASSUME TypeOK, NEW h \in Halts, NEW p \in Participants, NEW st \in RunStates
    PROVE  [run EXCEPT ![h][p] = st] \in [Halts -> [Participants -> RunStates]]
<1>1. run \in [Halts -> [Participants -> RunStates]]
  BY DEF TypeOK, RunStates
<1> QED BY <1>1

LEMMA NextCmdType == ASSUME TypeOK PROVE NextCmd \in Command /\ NextCmd # NoCmd
BY DEF TypeOK, NextCmd, Command, NoCmd

\* Starting a command keeps the executors' effects typed.
LEMMA RunType ==
    ASSUME TypeOK, NEW d \in Executors, NEW c \in Command, Run(d, c)
    PROVE  active' \in [Executors -> Effect]
BY DEF TypeOK, Run, Effect

\* A receipt keeps the kernel typed.
LEMMA ReceiptType ==
    ASSUME TypeOK, NEW h \in Halts, NEW p \in Participants, Receipt(h, p)
    PROVE  /\ phase' \in {"active", "paused", "terminated"}
           /\ halt' \in [id : Halts \cup {NoHalt}, target : {"paused", "terminated"},
                          pending : SUBSET Participants]
           /\ owner' \in [Executors -> Command]
<1>1. NoCmd \in Command /\ IdleHalt \in [id : Halts \cup {NoHalt}, target : {"paused", "terminated"},
                          pending : SUBSET Participants]
  BY DEF NoCmd, Command, IdleHalt
<1>2. CASE halt.pending = {p}
  BY <1>1, <1>2 DEF TypeOK, Receipt, Complete
<1>3. CASE halt.pending # {p}
  <2>1. halt \in HaltSlices
    BY DEF TypeOK, HaltSlices
  <2>2. [halt EXCEPT !.pending = @ \ {p}] \in HaltSlices
    BY <2>1 DEF HaltSlices
  <2>3. halt' \in HaltSlices /\ phase' = phase /\ owner' = owner
    BY <1>3, <2>2 DEF Receipt
  <2> QED BY <2>3 DEF TypeOK, HaltSlices
<1> QED BY <1>2, <1>3

\* Every step keeps the types.
LEMMA TypeStep == ASSUME TypeOK, [Next]_vars PROVE TypeOK'
<1> USE BarrierAssumption
<1>a. NextCmd \in Command /\ NoCmd \in Command /\ Idle \in Effect
  BY NextCmdType DEF NoCmd, Command, Idle, Effect
<1>b. IdleHalt \in [id : Halts \cup {NoHalt}, target : {"paused", "terminated"},
                     pending : SUBSET Participants]
  BY DEF IdleHalt
<1>1. CASE Submit
  BY <1>1, <1>a DEF TypeOK, Submit, Executors
<1>2. ASSUME NEW d \in Executors, LookUp(d) PROVE TypeOK'
  <2>1. queued[d] \in Seq(Command) /\ queued[d] # <<>>
    BY <1>2 DEF TypeOK, LookUp
  <2>2. Head(queued[d]) \in Command /\ Tail(queued[d]) \in Seq(Command)
    BY <2>1
  <2> QED BY <1>2, <2>2 DEF TypeOK, LookUp, kernel
<1>3. ASSUME NEW d \in Executors, Dispatch(d) PROVE TypeOK'
  <2>1. lookup[d] \in Command
    BY DEF TypeOK
  <2>2. active' \in [Executors -> Effect]
    BY <1>3, <2>1, RunType DEF Dispatch
  <2> QED BY <1>3, <1>a, <2>2 DEF TypeOK, Dispatch, kernel
<1>4. CASE ComposeCompletes
  <2>1. owner' \in [Executors -> Command] /\ queued' \in [Executors -> Seq(Command)]
    BY <1>4, <1>a DEF TypeOK, ComposeCompletes, Settled, Executors
  <2>2. active' \in [Executors -> Effect]
    BY <1>4, <1>a DEF TypeOK, ComposeCompletes, Returned
  <2>3. issued' \in Nat
    BY <1>4 DEF TypeOK, ComposeCompletes
  <2> QED BY <1>4, <2>1, <2>2, <2>3 DEF TypeOK, ComposeCompletes
<1>5. ASSUME NEW d \in Executors, EffectCompletes(d) PROVE TypeOK'
  BY <1>5, <1>a DEF TypeOK, EffectCompletes, Settled, Returned, lanes
<1>6. ASSUME NEW d \in Executors, RoundFails(d) PROVE TypeOK'
  <2>1. Settled(d) \in [Executors -> Command] /\ Returned(d) \in [Executors -> Effect]
    BY <1>a DEF TypeOK, Settled, Returned
  <2>2. [cmd |-> NextCmd, aborted |-> FALSE] \in Effect
    BY <1>a DEF Effect
  <2>3. owner' \in [Executors -> Command]
    BY <1>6, <1>a, <2>1 DEF RoundFails, OpenDialog
  <2>4. active' \in [Executors -> Effect]
    BY <1>6, <2>1, <2>2 DEF RoundFails
  <2>5. issued' \in Nat /\ primary' \in {"none", "planned", "open"}
    BY <1>6 DEF RoundFails, OpenDialog, TypeOK
  <2> QED BY <1>6, <2>3, <2>4, <2>5 DEF TypeOK, RoundFails, lanes
<1>7. ASSUME NEW d \in Executors, EffectReturns(d) PROVE TypeOK'
  BY <1>7, <1>a DEF TypeOK, EffectReturns, Returned, kernel, lanes
<1>8. ASSUME NEW h \in Halts, Cancel(h) PROVE TypeOK'
  <2>1. call' \in [Halts -> Calls]
    BY <1>8, CallMoves DEF Cancel, CallStates
  <2>2. halt' \in HaltSlices
    BY <1>8 DEF Cancel, StartHalt, HaltSlices
  <2>3. /\ queued' \in [Executors -> Seq(Command)] /\ gen' \in Nat /\ stops' \subseteq Halts
        /\ overtaken' \subseteq Command
    BY <1>8 DEF TypeOK, Cancel, StartHalt
  <2> QED BY <1>8, <2>1, <2>2, <2>3 DEF TypeOK, Cancel, StartHalt, Calls, CallStates, HaltSlices
<1>9. ASSUME NEW h \in Halts, Terminate(h) PROVE TypeOK'
  <2>1. CASE ~Stopping
    <3>1. call' \in [Halts -> Calls]
      <4>1. ASSUME NEW c \in Calls
            PROVE  [c EXCEPT !.at = "stopping", !.kind = "terminate"] \in Calls
        BY DEF Calls, CallStates
      <4>2. call \in [Halts -> Calls]
        BY DEF TypeOK, Calls, CallStates
      <4>3. call' = [call EXCEPT ![h] = [call[h] EXCEPT !.at = "stopping", !.kind = "terminate"]]
        BY <1>9, <2>1 DEF Terminate
      <4>4. [call[h] EXCEPT !.at = "stopping", !.kind = "terminate"] \in Calls
        BY <4>1, <4>2
      <4> QED BY <4>2, <4>3, <4>4
    <3>2. halt' \in HaltSlices
      BY <1>9, <2>1 DEF Terminate, StartHalt, HaltSlices
    <3>3. StartHalt(h, "terminated")
      BY <1>9, <2>1 DEF Terminate
    <3>4. /\ queued' \in [Executors -> Seq(Command)] /\ gen' \in Nat /\ stops' \subseteq Halts
          /\ overtaken' \subseteq Command
      BY <3>3 DEF TypeOK, StartHalt
    <3> QED
      BY <1>9, <2>1, <3>1, <3>2, <3>3, <3>4
      DEF TypeOK, Terminate, StartHalt, Calls, CallStates, HaltSlices
  <2>2. CASE Stopping
    <3>1. halt.id \in Halts \cup {NoHalt}
      BY DEF TypeOK
    <3>2. call' \in [Halts -> Calls]
      <4>1. ASSUME NEW c \in Calls
            PROVE  [c EXCEPT !.at = "quiescing", !.kind = "terminate", !.force = halt.id] \in Calls
        BY <3>1 DEF Calls, CallStates
      <4>2. call \in [Halts -> Calls]
        BY DEF TypeOK, Calls, CallStates
      <4>3. call' = [call EXCEPT ![h] = [call[h] EXCEPT !.at = "quiescing", !.kind = "terminate", !.force = halt.id]]
        BY <1>9, <2>2 DEF Terminate
      <4>4. [call[h] EXCEPT !.at = "quiescing", !.kind = "terminate", !.force = halt.id] \in Calls
        BY <4>1, <4>2
      <4> QED BY <4>2, <4>3, <4>4
    <3>5. Escalate
      BY <1>9, <2>2 DEF Terminate
    <3>3. halt' \in HaltSlices /\ phase' = "terminated" /\ gen' \in Nat
      BY <3>5, <1>b DEF TypeOK, Escalate, Complete, HaltSlices
    <3>4. owner' \in [Executors -> Command] /\ overtaken' \subseteq Command
      BY <3>5, <1>a, LanesType DEF TypeOK, Escalate, Complete
    <3> QED
      BY <1>9, <2>2, <3>2, <3>3, <3>4 DEF TypeOK, Terminate, Escalate, Calls, CallStates, HaltSlices
  <2> QED BY <2>1, <2>2
<1>10. ASSUME NEW h \in Halts, DispatchStop(h) PROVE TypeOK'
  <2>1. active' \in [Executors -> Effect]
    BY <1>10, <1>a DEF TypeOK, DispatchStop, Effect
  <2>2. awaited' \in [Halts -> [Executors -> Command]]
    BY <1>10 DEF TypeOK, DispatchStop, Effect
  <2> QED BY <1>10, <2>1, <2>2 DEF TypeOK, DispatchStop, kernel
<1>11. ASSUME NEW h \in Halts, NEW p \in Participants, Acknowledge(h, p) PROVE TypeOK'
  <2>a. run' \in [Halts -> [Participants -> RunStates]]
    <3>1. \/ run' = [run EXCEPT ![h][p] = "acknowledged"]
          \/ run' = [run EXCEPT ![h][p] = "rejected"]
      BY <1>11 DEF Acknowledge, Refused
    <3>2. "acknowledged" \in RunStates /\ "rejected" \in RunStates
      BY DEF RunStates
    <3> QED BY <3>1, <3>2, RunMoves
  <2>1. CASE Receipt(h, p) /\ UNCHANGED call
    BY <1>11, <2>a, <2>1, ReceiptType DEF TypeOK, Acknowledge, lanes, RunStates
  <2>2. CASE UNCHANGED <<phase, halt, owner>> /\ Refused(h, p)
    <3>1. call' \in [Halts -> Calls]
      BY <2>2, RefusedCalls
    <3> QED BY <1>11, <2>a, <2>2, <3>1 DEF TypeOK, Acknowledge, lanes, RunStates, Calls, CallStates
  <2> QED BY <1>11, <2>1, <2>2 DEF Acknowledge
<1>12. ASSUME NEW h \in Halts, NEW p \in Participants, TimeOut(h, p) PROVE TypeOK'
  <2>1. run' \in [Halts -> [Participants -> RunStates]]
    BY <1>12, RunMoves DEF TimeOut, Refused, RunStates
  <2>2. call' \in [Halts -> Calls]
    <3>1. call \in [Halts -> Calls]
      BY DEF TypeOK, Calls, CallStates
    <3> QED BY <1>12, <3>1, RefusedCalls DEF TimeOut
  <2> QED BY <1>12, <2>1, <2>2 DEF TypeOK, TimeOut, kernel, lanes, RunStates, Calls, CallStates
<1>13. ASSUME NEW h \in Halts, NEW p \in Participants, ReportLate(h, p) PROVE TypeOK'
  <2>a. run' \in [Halts -> [Participants -> RunStates]]
    BY <1>13, RunMoves DEF ReportLate, RunStates
  <2>1. CASE Receipt(h, p)
    BY <1>13, <2>a, <2>1, ReceiptType DEF TypeOK, ReportLate, lanes, RunStates
  <2>2. CASE UNCHANGED <<phase, halt, owner>>
    BY <1>13, <2>a, <2>2 DEF TypeOK, ReportLate, lanes, RunStates
  <2> QED BY <1>13, <2>1, <2>2 DEF ReportLate
<1>14. ASSUME NEW h \in Halts, StopThrows(h) PROVE TypeOK'
  <2>1. call' \in [Halts -> Calls]
    BY <1>14, CallMoves DEF StopThrows, CallStates
  <2> QED BY <1>14, <2>1 DEF TypeOK, StopThrows, kernel, lanes, Calls, CallStates
<1>15. ASSUME NEW h \in Halts, StopReturns(h) PROVE TypeOK'
  <2>1. call' \in [Halts -> Calls]
    <3>1. ASSUME NEW c \in Calls, NEW at \in CallStates
          PROVE  [c EXCEPT !.at = at, !.early = Stopping] \in Calls
      BY DEF Calls, Stopping
    <3>2. call \in [Halts -> Calls]
      BY DEF TypeOK, Calls, CallStates
    <3>3. PICK at \in CallStates : call' = [call EXCEPT ![h] = [@ EXCEPT !.at = at, !.early = Stopping]]
      BY <1>15 DEF StopReturns, CallStates
    <3>4. [call[h] EXCEPT !.at = at, !.early = Stopping] \in Calls
      BY <3>1, <3>2
    <3> QED BY <3>2, <3>3, <3>4
  <2> QED BY <1>15, <2>1 DEF TypeOK, StopReturns, kernel, lanes, Calls, CallStates
<1>16. ASSUME NEW h \in Halts, BecomesQuiet(h) PROVE TypeOK'
  <2>1. call' \in [Halts -> Calls]
    BY <1>16, CallMoves DEF BecomesQuiet, CallStates
  <2> QED BY <1>16, <2>1 DEF TypeOK, BecomesQuiet, kernel, lanes, Calls, CallStates
<1>17. ASSUME NEW h \in Halts, CancelStopped(h) PROVE TypeOK'
  <2>1. call' \in [Halts -> Calls]
    <3>1. ASSUME NEW c \in Calls, NEW at \in CallStates
          PROVE  [c EXCEPT !.at = at, !.late = Stopping] \in Calls
      BY DEF Calls, Stopping
    <3>2. call \in [Halts -> Calls]
      BY DEF TypeOK, Calls, CallStates
    <3>3. \E at \in CallStates : call' = [call EXCEPT ![h] = [@ EXCEPT !.at = at, !.late = Stopping]]
      BY <1>17 DEF CancelStopped, CallStates
    <3>4. PICK at \in CallStates : call' = [call EXCEPT ![h] = [@ EXCEPT !.at = at, !.late = Stopping]]
      BY <3>3
    <3>5. [call[h] EXCEPT !.at = at, !.late = Stopping] \in Calls
      BY <3>1, <3>2
    <3> QED BY <3>2, <3>4, <3>5
  <2> QED BY <1>17, <2>1 DEF TypeOK, CancelStopped, kernel, lanes, Calls, CallStates
<1>18. ASSUME NEW h \in Halts, TerminateStopped(h) PROVE TypeOK'
  <2>1. halt.id \in Halts \cup {NoHalt} /\ call[h].force \in Halts \cup {NoHalt}
    BY DEF TypeOK
  <2>2. CASE Stopping
    <3>2. call' \in [Halts -> Calls]
      <4>1. ASSUME NEW c \in Calls
            PROVE  [c EXCEPT !.at = "quiescing", !.force = halt.id] \in Calls
        BY <2>1 DEF Calls, CallStates
      <4>2. call \in [Halts -> Calls]
        BY DEF TypeOK, Calls, CallStates
      <4>3. call' = [call EXCEPT ![h] = [call[h] EXCEPT !.at = "quiescing", !.force = halt.id]]
        BY <1>18, <2>2 DEF TerminateStopped
      <4>4. [call[h] EXCEPT !.at = "quiescing", !.force = halt.id] \in Calls
        BY <4>1, <4>2
      <4> QED BY <4>2, <4>3, <4>4
    <3>3. halt' \in HaltSlices /\ phase' = "terminated" /\ gen' \in Nat
      BY <1>18, <2>2, <1>b DEF TypeOK, TerminateStopped, Escalate, Complete, HaltSlices
    <3>5. Escalate
      BY <1>18, <2>2 DEF TerminateStopped
    <3>4. owner' \in [Executors -> Command] /\ overtaken' \subseteq Command
      BY <3>5, <1>a, LanesType DEF TypeOK, Escalate, Complete
    <3> QED
      BY <1>18, <2>2, <3>2, <3>3, <3>4
      DEF TypeOK, TerminateStopped, Escalate, Calls, CallStates, HaltSlices
  <2>3. CASE ~Stopping
    <3>1. call' \in [Halts -> Calls]
      <4>1. call' = [call EXCEPT ![h].at = "done"]
        BY <1>18, <2>3 DEF TerminateStopped
      <4> QED BY <4>1, CallMoves DEF CallStates
    <3>2. forceClosed' \subseteq Halts
      BY <1>18, <2>1, <2>3 DEF TypeOK, TerminateStopped
    <3> QED BY <1>18, <2>3, <3>1, <3>2 DEF TypeOK, TerminateStopped, Calls, CallStates
  <2> QED BY <2>2, <2>3
<1>19. ASSUME NEW h \in Halts, Rearm(h) PROVE TypeOK'
  <2>1. fence' \in [Participants -> Halts \cup {NoHalt}]
    BY <1>19 DEF TypeOK, Rearm, Rearmed
  <2>2. call' \in [Halts -> Calls]
    BY <1>19, CallMoves DEF Rearm, CallStates
  <2>3. overtaken' \subseteq Command
    BY <1>19, LanesType DEF TypeOK, Rearm, OvertakenBy
  <2> QED BY <1>19, <2>1, <2>2, <2>3 DEF TypeOK, Rearm, kernel, Calls, CallStates
<1>20. ASSUME NEW h \in Halts, Offer(h) PROVE TypeOK'
  <2>1. call' \in [Halts -> Calls]
    BY <1>20, CallMoves DEF Offer, CallStates
  <2>2. CASE phase = "paused" /\ primary = "none"
    <3>1. "dialog" \in Executors /\ Run("dialog", NextCmd) /\ OpenDialog(owner)
      BY <1>20, <2>2 DEF Offer, Executors
    <3>2. active' \in [Executors -> Effect]
      BY <3>1, <1>a, RunType
    <3>3. owner' \in [Executors -> Command] /\ issued' \in Nat /\ primary' = "planned"
      BY <3>1, <1>a DEF TypeOK, OpenDialog
    <3> QED BY <1>20, <2>1, <3>2, <3>3 DEF TypeOK, Offer, lanes, Calls, CallStates
  <2>3. CASE ~(phase = "paused" /\ primary = "none")
    BY <1>20, <2>1, <2>3 DEF TypeOK, Offer, lanes, Calls, CallStates
  <2> QED BY <2>2, <2>3
<1>21. CASE UNCHANGED vars
  BY <1>21 DEF TypeOK, vars, kernel, lanes
<1> QED
  BY <1>1, <1>2, <1>3, <1>4, <1>5, <1>6, <1>7, <1>8, <1>9, <1>10, <1>11, <1>12, <1>13,
     <1>14, <1>15, <1>16, <1>17, <1>18, <1>19, <1>20, <1>21 DEF Next

-------------------------------------------------------------------------------
(* The barrier.                                                            *)

Frozen == UNCHANGED <<halt, stops, fence, run, awaited, forceClosed>>

\* What the event loop, the lanes and the effects do to the barrier: effects
\* start and end, and a submission ends a pause.
LEMMA WorkKeeps ==
    ASSUME IInv, Frozen,
           \A d \in Executors : \/ active'[d] = active[d] \/ active'[d] = Idle
                                \/ active'[d].cmd # NoCmd /\ ~active'[d].aborted,
           phase' = phase \/ (phase # "terminated" /\ phase' = "active"),
           \A h \in Halts : /\ call'[h].force = call[h].force
                            /\ call'[h].at = "unused" => call[h].at = "unused"
    PROVE  Barrier'
<1> USE DEF Frozen
<1>1. \A d \in Executors : active'[d].aborted => active'[d] = active[d]
  BY DEF Idle
<1>2. EffectsAreReal'
  BY DEF IInv, Barrier, EffectsAreReal, Idle
<1>3. AbortedIsAwaited'
  BY <1>1 DEF IInv, Barrier, AbortedIsAwaited
<1>4. BarrierFences'
  BY <1>1 DEF IInv, Barrier, BarrierFences
<1>5. ReportedIsQuiet'
  BY <1>1 DEF IInv, Barrier, ReportedIsQuiet
<1>6. StopIsCurrent'
  BY DEF IInv, Barrier, StopIsCurrent
<1>7. StopIsWhole'
  BY DEF IInv, Barrier, StopIsWhole
<1>8. UnusedIsFresh'
  BY DEF IInv, Barrier, UnusedIsFresh
<1>9. TerminatedIsFinal'
  BY DEF IInv, Barrier, TerminatedIsFinal, Stopping
<1>10. AbortedIsFenced'
  BY <1>1 DEF IInv, Barrier, AbortedIsFenced
<1>11. PausedIsQuiet'
  BY <1>1 DEF IInv, Barrier, PausedIsQuiet, Stopping
<1>12. PendingIsOutstanding'
  BY DEF IInv, Barrier, PendingIsOutstanding
<1> QED
  BY <1>2, <1>3, <1>4, <1>5, <1>6, <1>7, <1>8, <1>9, <1>10, <1>11, <1>12 DEF Barrier

\* A drained participant runs nothing the active halt aborted.
LEMMA DrainedIsQuiet ==
    ASSUME IInv, NEW h \in Halts \ stops, NEW d \in Executors, Drained(h, d), halt.id = h
    PROVE  ~active[d].aborted
<1>1. active[d].aborted => fence[d] = h
  BY DEF IInv, Barrier, BarrierFences
<1>2. active[d].aborted => active[d].cmd # NoCmd /\ active[d].cmd = awaited[h][d]
  BY <1>1 DEF IInv, Barrier, AbortedIsAwaited
<1> QED
  BY <1>2 DEF Drained

\* The receipt of a drained participant.
LEMMA ReceiptKeeps ==
    ASSUME IInv, NEW h \in Halts, NEW p \in Participants, NEW st \in {"acknowledged", "late"},
           run[h][p] # "none", Drained(h, p), Receipt(h, p),
           run' = [run EXCEPT ![h][p] = st],
           UNCHANGED <<stops, fence, active, awaited, forceClosed, call>>
    PROVE  Barrier'
<1> USE BarrierAssumption
<1>1. h \notin stops
  BY DEF IInv, Barrier, StopIsWhole
<1>2. halt.id = h /\ h # NoHalt /\ p \in halt.pending /\ phase # "terminated"
  BY DEF Receipt, IInv, Barrier, TerminatedIsFinal, Stopping
<1>3. \A d \in Executors \ (halt.pending \ {p}) : ~active[d].aborted
  BY <1>1, <1>2, DrainedIsQuiet DEF IInv, Barrier, ReportedIsQuiet
<1>4. stops = {}
  BY <1>1, <1>2 DEF IInv, Barrier, StopIsCurrent
<1>5. call[h].at # "unused"
  BY DEF IInv, Barrier, UnusedIsFresh
<1>6. \A o \in Halts, q \in Participants :
          run'[o][q] = IF o = h /\ q = p THEN st ELSE run[o][q]
  BY DEF IInv, TypeOK
<1>7. EffectsAreReal' /\ AbortedIsAwaited' /\ AbortedIsFenced'
  BY DEF IInv, Barrier, EffectsAreReal, AbortedIsAwaited, AbortedIsFenced
<1>8. StopIsCurrent' /\ StopIsWhole'
  BY <1>4 DEF StopIsCurrent, StopIsWhole
<1>9. UnusedIsFresh'
  BY <1>4, <1>5, <1>6 DEF IInv, Barrier, UnusedIsFresh
<1>10. CASE halt.pending = {p}
  <2>1. halt' = IdleHalt /\ phase' = halt.target
    BY <1>10 DEF Receipt, Complete
  <2>2. ~Stopping'
    BY <2>1 DEF Stopping, IdleHalt
  <2>3. BarrierFences' /\ ReportedIsQuiet' /\ PendingIsOutstanding'
    BY <2>1 DEF IdleHalt, BarrierFences, ReportedIsQuiet, PendingIsOutstanding
  <2>4. TerminatedIsFinal'
    BY <1>2, <2>2 DEF IInv, Barrier, TerminatedIsFinal
  <2>5. PausedIsQuiet'
    BY <1>3, <1>10 DEF PausedIsQuiet
  <2> QED
    BY <1>7, <1>8, <1>9, <2>3, <2>4, <2>5 DEF Barrier
<1>11. CASE halt.pending # {p}
  <2>1. halt' = [halt EXCEPT !.pending = @ \ {p}] /\ phase' = phase
    BY <1>11 DEF Receipt
  <2>2. halt'.id = h /\ halt'.pending = halt.pending \ {p}
    BY <1>2, <2>1 DEF IInv, TypeOK
  <2>3. BarrierFences' /\ ReportedIsQuiet'
    BY <1>2, <1>3, <2>2 DEF IInv, Barrier, BarrierFences, ReportedIsQuiet
  <2>4. PendingIsOutstanding'
    <3>1. halt.pending = {q \in Participants : run[h][q] \in {"draining", "timed_out"}}
      BY <1>1, <1>2 DEF IInv, Barrier, PendingIsOutstanding
    <3>2. halt'.pending = {q \in Participants : run'[h][q] \in {"draining", "timed_out"}}
      BY <1>6, <2>2, <3>1
    <3> QED BY <2>2, <3>2 DEF PendingIsOutstanding
  <2>5. TerminatedIsFinal' /\ PausedIsQuiet'
    BY <1>2, <2>1, <2>2 DEF IInv, Barrier, TerminatedIsFinal, PausedIsQuiet, Stopping
  <2> QED
    BY <1>7, <1>8, <1>9, <2>3, <2>4, <2>5 DEF Barrier
<1> QED BY <1>10, <1>11

\* A participant's state changes while the barrier does not hear of it.
LEMMA UnheardKeeps ==
    ASSUME IInv, NEW h \in Halts, NEW p \in Participants, NEW st \in RunStates,
           run[h][p] \in {"draining", "timed_out"},
           halt.id = h => st = "timed_out",
           run' = [run EXCEPT ![h][p] = st],
           \A o \in Halts : /\ call'[o].force = call[o].force
                            /\ call'[o].at = "unused" => call[o].at = "unused",
           UNCHANGED <<phase, halt, stops, fence, active, awaited, forceClosed>>
    PROVE  Barrier'
<1>1. h \notin stops /\ call[h].at # "unused"
  BY DEF IInv, Barrier, StopIsWhole, UnusedIsFresh
<1>2. \A o \in Halts, q \in Participants :
          run'[o][q] = IF o = h /\ q = p THEN st ELSE run[o][q]
  BY DEF IInv, TypeOK
<1>3. EffectsAreReal' /\ AbortedIsAwaited' /\ BarrierFences' /\ ReportedIsQuiet'
  BY DEF IInv, Barrier, EffectsAreReal, AbortedIsAwaited, BarrierFences, ReportedIsQuiet
<1>4. StopIsCurrent' /\ TerminatedIsFinal' /\ AbortedIsFenced' /\ PausedIsQuiet'
  BY DEF IInv, Barrier, StopIsCurrent, TerminatedIsFinal, AbortedIsFenced, PausedIsQuiet, Stopping
<1>5. StopIsWhole' /\ UnusedIsFresh'
  BY <1>1, <1>2 DEF IInv, TypeOK, Barrier, StopIsWhole, UnusedIsFresh
<1>6. PendingIsOutstanding'
  <2> SUFFICES ASSUME NEW o \in Halts \ stops, halt.id = o
               PROVE  halt.pending = {q \in Participants : run'[o][q] \in {"draining", "timed_out"}}
    BY DEF PendingIsOutstanding
  <2>1. halt.pending = {q \in Participants : run[o][q] \in {"draining", "timed_out"}}
    BY DEF IInv, Barrier, PendingIsOutstanding
  <2> QED BY <1>2, <2>1
<1> QED
  BY <1>3, <1>4, <1>5, <1>6 DEF Barrier

\* A halt is started on a task that is not stopping.
LEMMA StartKeeps ==
    ASSUME IInv, NEW h \in Halts, NEW target, StartHalt(h, target),
           call[h].at = "unused", ~Stopping, phase # "terminated",
           \A o \in Halts : /\ call'[o].force = call[o].force
                            /\ call'[o].at = "unused" => o # h /\ call[o].at = "unused",
           UNCHANGED <<fence, active, run, awaited, forceClosed>>
    PROVE  Barrier'
<1> USE BarrierAssumption
<1>1. stops' = {h}
  <2>1. stops \subseteq Halts /\ halt.id = NoHalt /\ stops \subseteq {halt.id}
    BY DEF IInv, TypeOK, Barrier, StopIsCurrent, Stopping
  <2> QED BY <2>1 DEF StartHalt
<1>2. halt'.id = h /\ halt'.pending = Participants /\ phase' = phase
  BY DEF StartHalt
<1>3. \A p \in Participants : run[h][p] = "none"
  BY DEF IInv, Barrier, UnusedIsFresh
<1>4. EffectsAreReal' /\ AbortedIsAwaited' /\ AbortedIsFenced'
  BY DEF IInv, Barrier, EffectsAreReal, AbortedIsAwaited, AbortedIsFenced
<1>5. BarrierFences' /\ ReportedIsQuiet' /\ PendingIsOutstanding'
  BY <1>1, <1>2 DEF BarrierFences, ReportedIsQuiet, PendingIsOutstanding
<1>6. StopIsCurrent' /\ StopIsWhole'
  BY <1>1, <1>2, <1>3 DEF StopIsCurrent, StopIsWhole
<1>7. UnusedIsFresh'
  BY <1>1 DEF IInv, Barrier, UnusedIsFresh
<1>8. TerminatedIsFinal' /\ PausedIsQuiet'
  BY <1>2 DEF IInv, Barrier, TerminatedIsFinal, PausedIsQuiet, Stopping
<1> QED
  BY <1>4, <1>5, <1>6, <1>7, <1>8 DEF Barrier

\* A barrier that still waits is closed by a terminate.
LEMMA EscalateKeeps ==
    ASSUME IInv, Escalate,
           \A o \in Halts : call'[o].at = "unused" => call[o].at = "unused",
           UNCHANGED <<fence, active, run, awaited, forceClosed>>
    PROVE  Barrier'
<1> USE BarrierAssumption
<1>1. halt' = IdleHalt /\ phase' = "terminated" /\ stops' = stops
  BY DEF Escalate, Complete
<1>2. EffectsAreReal' /\ AbortedIsAwaited' /\ AbortedIsFenced'
  BY DEF IInv, Barrier, EffectsAreReal, AbortedIsAwaited, AbortedIsFenced
<1>3. BarrierFences' /\ ReportedIsQuiet' /\ PendingIsOutstanding'
  BY <1>1 DEF IdleHalt, BarrierFences, ReportedIsQuiet, PendingIsOutstanding
<1>4. StopIsCurrent' /\ PausedIsQuiet' /\ TerminatedIsFinal'
  BY <1>1 DEF IdleHalt, Stopping, StopIsCurrent, PausedIsQuiet, TerminatedIsFinal
<1>5. StopIsWhole' /\ UnusedIsFresh'
  BY <1>1 DEF IInv, TypeOK, Barrier, IdleHalt, StopIsWhole, UnusedIsFresh
<1> QED
  BY <1>2, <1>3, <1>4, <1>5 DEF Barrier

\* Everybody is fenced, and what runs is aborted.
LEMMA DispatchKeeps ==
    ASSUME IInv, NEW h \in Halts, DispatchStop(h)
    PROVE  Barrier'
<1> USE BarrierAssumption
<1>1. h \in stops /\ stops' = stops \ {h} /\ UNCHANGED <<phase, halt, forceClosed, call>>
  BY DEF DispatchStop, kernel
<1>2. \A p \in Participants : fence'[p] = h
  BY DEF DispatchStop
<1>3. \A d \in Executors : /\ awaited'[h][d] = active[d].cmd
                           /\ active'[d].cmd = active[d].cmd
                           /\ active[d] = Idle => active'[d] = Idle
                           /\ active'[d].aborted => active[d] # Idle
  BY DEF DispatchStop, IInv, TypeOK, Effect, Idle
<1>4. \A o \in Halts, p \in Participants : run'[o][p] = IF o = h THEN "draining" ELSE run[o][p]
  BY DEF DispatchStop, IInv, TypeOK
<1>5. halt.id \in Halts => halt.id = h /\ phase # "terminated" /\ stops' = {}
  BY <1>1 DEF IInv, Barrier, StopIsCurrent, TerminatedIsFinal, Stopping
<1>6. halt.id = h => halt.pending = Participants
  BY <1>1 DEF IInv, Barrier, StopIsWhole
<1>7. EffectsAreReal'
  BY <1>3 DEF IInv, Barrier, EffectsAreReal
<1>8. AbortedIsAwaited' /\ AbortedIsFenced'
  BY <1>2, <1>3 DEF IInv, Barrier, EffectsAreReal, AbortedIsAwaited, AbortedIsFenced
<1>9. BarrierFences' /\ ReportedIsQuiet'
  BY <1>1, <1>2, <1>5, <1>6 DEF BarrierFences, ReportedIsQuiet
<1>10. StopIsCurrent' /\ TerminatedIsFinal'
  BY <1>1 DEF IInv, Barrier, StopIsCurrent, TerminatedIsFinal, Stopping
<1>11. StopIsWhole' /\ UnusedIsFresh'
  BY <1>1, <1>4 DEF IInv, TypeOK, Barrier, StopIsWhole, UnusedIsFresh
<1>12. PendingIsOutstanding'
  BY <1>1, <1>4, <1>5, <1>6 DEF PendingIsOutstanding
<1>13. PausedIsQuiet'
  <2>1. phase = "paused" => halt.id \in Halts
    BY <1>1 DEF IInv, TypeOK, Barrier, StopIsCurrent
  <2> QED BY <1>1, <2>1 DEF PausedIsQuiet, Stopping
<1> QED
  BY <1>7, <1>8, <1>9, <1>10, <1>11, <1>12, <1>13 DEF Barrier

\* A halt's fences are retired once everything it found running has returned.
LEMMA RearmKeeps ==
    ASSUME IInv, NEW h \in Halts, Rearm(h)
    PROVE  Barrier'
<1> USE BarrierAssumption
<1>1. UNCHANGED <<phase, halt, stops, active, run, awaited, forceClosed>>
  BY DEF Rearm, kernel
<1>2. \A o \in Halts : /\ call'[o].force = call[o].force
                       /\ call'[o].at = "unused" => call[o].at = "unused"
  BY DEF Rearm, IInv, TypeOK
<1>3. CASE UNCHANGED fence
  BY <1>1, <1>2, <1>3, WorkKeeps DEF Frozen
<1>4. CASE /\ \A p \in Participants : Drained(h, p)
           /\ fence' = Rearmed(h)
  <2>1. \A p \in Participants : fence'[p] = IF fence[p] = h THEN NoHalt ELSE fence[p]
    BY <1>4 DEF Rearmed
  <2>2. \A d \in Executors : active[d].aborted => fence[d] # h /\ fence'[d] = fence[d]
    <3>1. \A d \in Executors : active[d].aborted => fence[d] # h
      BY <1>4 DEF IInv, Barrier, AbortedIsAwaited, Drained
    <3> QED BY <2>1, <3>1
  <2>3. EffectsAreReal' /\ ReportedIsQuiet' /\ StopIsCurrent' /\ StopIsWhole'
    BY <1>1 DEF IInv, Barrier, EffectsAreReal, ReportedIsQuiet, StopIsCurrent, StopIsWhole
  <2>4. AbortedIsAwaited' /\ BarrierFences' /\ AbortedIsFenced'
    BY <1>1, <2>2 DEF IInv, Barrier, AbortedIsAwaited, BarrierFences, AbortedIsFenced
  <2>5. UnusedIsFresh'
    BY <1>1, <1>2 DEF IInv, Barrier, UnusedIsFresh
  <2>6. TerminatedIsFinal' /\ PausedIsQuiet' /\ PendingIsOutstanding'
    BY <1>1, <1>2
    DEF IInv, Barrier, TerminatedIsFinal, PausedIsQuiet, PendingIsOutstanding, Stopping
  <2> QED
    BY <2>3, <2>4, <2>5, <2>6 DEF Barrier
<1> QED BY <1>3, <1>4 DEF Rearm

\* A round's failure and an offer put a fresh effect at most where one was.
LEMMA WorkSteps ==
    ASSUME IInv, NEW d \in Executors,
           \/ Submit \/ ComposeCompletes \/ LookUp(d) \/ Dispatch(d)
           \/ EffectCompletes(d) \/ RoundFails(d) \/ EffectReturns(d) \/ UNCHANGED vars
    PROVE  Barrier'
<1>1. NextCmd # NoCmd
  BY NextCmdType DEF IInv
<1>2. Frozen /\ (phase' = phase \/ (phase # "terminated" /\ phase' = "active")) /\ UNCHANGED call
  BY DEF Frozen, Submit, ComposeCompletes, LookUp, Dispatch, EffectCompletes, RoundFails,
         EffectReturns, vars, kernel, lanes
<1>3. \A e \in Executors : \/ active'[e] = active[e] \/ active'[e] = Idle
                           \/ active'[e].cmd # NoCmd /\ ~active'[e].aborted
  <2>0. active \in [Executors -> Effect]
    BY DEF IInv, TypeOK
  <2>1. CASE Submit \/ LookUp(d) \/ UNCHANGED vars
    BY <2>1 DEF Submit, LookUp, vars
  <2>2. CASE ComposeCompletes
    BY <2>0, <2>2 DEF ComposeCompletes, Returned
  <2>3. CASE Dispatch(d)
    BY <2>0, <2>3 DEF Dispatch, Run
  <2>4. CASE EffectCompletes(d) \/ EffectReturns(d)
    BY <2>0, <2>4 DEF EffectCompletes, EffectReturns, Returned
  <2>5. CASE RoundFails(d)
    BY <1>1, <2>0, <2>5 DEF RoundFails, Returned
  <2> QED BY <2>1, <2>2, <2>3, <2>4, <2>5
<1> QED BY <1>2, <1>3, WorkKeeps

\* The calls' own steps leave the barrier alone.
LEMMA CallSteps ==
    ASSUME IInv, NEW h \in Halts,
           StopThrows(h) \/ StopReturns(h) \/ BecomesQuiet(h) \/ CancelStopped(h) \/ Offer(h)
    PROVE  Barrier'
<1>1. NextCmd # NoCmd
  BY NextCmdType DEF IInv
<1>2. Frozen /\ phase' = phase
  BY DEF Frozen, StopThrows, StopReturns, BecomesQuiet, CancelStopped, Offer, kernel, lanes
<1>3. \A o \in Halts : /\ call'[o].force = call[o].force
                       /\ call'[o].at = "unused" => call[o].at = "unused"
  <2>0. TypeOK
    BY DEF IInv
  <2>1. CASE StopThrows(h) \/ BecomesQuiet(h) \/ Offer(h)
    <3>1. \E at \in CallStates \ {"unused"} : call' = [call EXCEPT ![h].at = at]
      BY <2>1 DEF StopThrows, BecomesQuiet, Offer, CallStates
    <3> QED BY <2>0, <3>1, CallGoesOn
  <2>3. CASE StopReturns(h)
    <3>1. PICK at \in CallStates \ {"unused"} :
            call' = [call EXCEPT ![h] = [call[h] EXCEPT !.at = at, !.early = Stopping]]
      BY <2>3 DEF StopReturns, CallStates
    <3>2. /\ [call[h] EXCEPT !.at = at, !.early = Stopping].at # "unused"
          /\ [call[h] EXCEPT !.at = at, !.early = Stopping].force = call[h].force
      BY <2>0, CallFields
    <3> QED BY <2>0, <3>1, <3>2, CallReplaced
  <2>2. CASE CancelStopped(h)
    <3>1. PICK at \in CallStates \ {"unused"} :
            call' = [call EXCEPT ![h] = [call[h] EXCEPT !.at = at, !.late = Stopping]]
      BY <2>2 DEF CancelStopped, CallStates
    <3>2. /\ [call[h] EXCEPT !.at = at, !.late = Stopping].at # "unused"
          /\ [call[h] EXCEPT !.at = at, !.late = Stopping].force = call[h].force
      BY <2>0, CallFields
    <3> QED BY <2>0, <3>1, <3>2, CallReplaced
  <2> QED BY <2>1, <2>2, <2>3
<1>4. \A e \in Executors : \/ active'[e] = active[e]
                           \/ active'[e].cmd # NoCmd /\ ~active'[e].aborted
  <2>1. active \in [Executors -> Effect]
    BY DEF IInv, TypeOK
  <2> QED
    BY <1>1, <2>1 DEF StopThrows, StopReturns, BecomesQuiet, CancelStopped, Offer, Run
<1> QED BY <1>2, <1>3, <1>4, WorkKeeps

\* Every step keeps the barrier.
LEMMA BarrierStep == ASSUME IInv, [Next]_vars PROVE Barrier'
<1> USE BarrierAssumption
<1>0. "compose" \in Executors
  BY DEF Executors
<1>1. CASE Submit \/ ComposeCompletes \/ UNCHANGED vars
  BY <1>0, <1>1, WorkSteps
<1>2. ASSUME NEW d \in Executors,
             LookUp(d) \/ Dispatch(d) \/ EffectCompletes(d) \/ RoundFails(d) \/ EffectReturns(d)
      PROVE  Barrier'
  BY <1>2, WorkSteps
<1>3. ASSUME NEW h \in Halts, Cancel(h) PROVE Barrier'
  <2>1. \A o \in Halts : /\ call'[o].force = call[o].force
                         /\ call'[o].at = "unused" => o # h /\ call[o].at = "unused"
    BY <1>3 DEF Cancel, IInv, TypeOK
  <2> QED BY <1>3, <2>1, StartKeeps DEF Cancel
<1>4. ASSUME NEW h \in Halts, Terminate(h) PROVE Barrier'
  <2>0. TypeOK
    BY DEF IInv
  <2>1. CASE ~Stopping
    <3>1. call' = [call EXCEPT ![h] = [call[h] EXCEPT !.at = "stopping", !.kind = "terminate"]]
      BY <1>4, <2>1 DEF Terminate
    <3>2. /\ [call[h] EXCEPT !.at = "stopping", !.kind = "terminate"].at # "unused"
          /\ [call[h] EXCEPT !.at = "stopping", !.kind = "terminate"].force = call[h].force
      BY <2>0, CallFields
    <3>3. \A o \in Halts : /\ call'[o].force = call[o].force
                           /\ call'[o].at = "unused" => o # h /\ call[o].at = "unused"
      BY <2>0, <3>1, <3>2, CallReplaced
    <3> QED BY <1>4, <2>1, <3>3, StartKeeps DEF Terminate
  <2>2. CASE Stopping
    <3>1. call' = [call EXCEPT ![h] = [call[h] EXCEPT !.at = "quiescing", !.kind = "terminate",
                                                      !.force = halt.id]]
      BY <1>4, <2>2 DEF Terminate
    <3>2. [call[h] EXCEPT !.at = "quiescing", !.kind = "terminate", !.force = halt.id].at # "unused"
      BY <2>0, CallFields
    <3>3. \A o \in Halts : call'[o].at = "unused" => call[o].at = "unused"
      BY <2>0, <3>1, <3>2, CallReplaced
    <3> QED BY <1>4, <2>2, <3>3, EscalateKeeps DEF Terminate
  <2> QED BY <2>1, <2>2
<1>5. ASSUME NEW h \in Halts, DispatchStop(h) PROVE Barrier'
  BY <1>5, DispatchKeeps
<1>6. ASSUME NEW h \in Halts, NEW p \in Participants, Acknowledge(h, p) PROVE Barrier'
  <2>1. h \notin stops
    BY <1>6 DEF Acknowledge, IInv, Barrier, StopIsWhole
  <2>2. CASE Receipt(h, p) /\ run' = [run EXCEPT ![h][p] = "acknowledged"] /\ UNCHANGED call
    BY <1>6, <2>2, ReceiptKeeps DEF Acknowledge, lanes
  <2>3. CASE (halt.id # h \/ p \notin halt.pending) /\ UNCHANGED <<phase, halt, owner>>
             /\ Refused(h, p)
    <3>1. halt.id # h
      BY <1>6, <2>1, <2>3 DEF Acknowledge, IInv, Barrier, PendingIsOutstanding
    <3>2. \A o \in Halts : /\ call'[o].force = call[o].force
                           /\ call'[o].at = "unused" => call[o].at = "unused"
      BY <2>3, RefusedCalls DEF IInv
    <3>3. run' = [run EXCEPT ![h][p] = "rejected"]
      BY <2>3 DEF Refused
    <3> QED BY <1>6, <2>3, <3>1, <3>2, <3>3, UnheardKeeps DEF Acknowledge, RunStates, lanes
  <2> QED BY <1>6, <2>2, <2>3 DEF Acknowledge
<1>7. ASSUME NEW h \in Halts, NEW p \in Participants, TimeOut(h, p) PROVE Barrier'
  <2>1. \A o \in Halts : /\ call'[o].force = call[o].force
                         /\ call'[o].at = "unused" => call[o].at = "unused"
    BY <1>7, RefusedCalls DEF TimeOut, IInv
  <2>2. CASE halt.id = h /\ run' = [run EXCEPT ![h][p] = "timed_out"]
    BY <1>7, <2>1, <2>2, UnheardKeeps DEF TimeOut, RunStates, kernel, lanes
  <2>3. CASE halt.id # h /\ run' = [run EXCEPT ![h][p] = "rejected"]
    BY <1>7, <2>1, <2>3, UnheardKeeps DEF TimeOut, RunStates, kernel, lanes
  <2> QED BY <1>7, <2>2, <2>3 DEF TimeOut, Refused
<1>8. ASSUME NEW h \in Halts, NEW p \in Participants, ReportLate(h, p) PROVE Barrier'
  <2>1. h \notin stops
    BY <1>8 DEF ReportLate, IInv, Barrier, StopIsWhole
  <2>2. CASE Receipt(h, p)
    BY <1>8, <2>2, ReceiptKeeps DEF ReportLate, lanes
  <2>3. CASE (h \in forceClosed \/ halt.id # h \/ p \notin halt.pending)
             /\ UNCHANGED <<phase, halt, owner>>
    <3>1. halt.id # h
      BY <1>8, <2>1, <2>3
      DEF ReportLate, IInv, Barrier, PendingIsOutstanding, TerminatedIsFinal, Stopping
    <3> QED BY <1>8, <2>3, <3>1, UnheardKeeps DEF ReportLate, RunStates, lanes
  <2> QED BY <1>8, <2>2, <2>3 DEF ReportLate
<1>9. ASSUME NEW h \in Halts,
             StopThrows(h) \/ StopReturns(h) \/ BecomesQuiet(h) \/ CancelStopped(h) \/ Offer(h)
      PROVE  Barrier'
  BY <1>9, CallSteps
<1>10. ASSUME NEW h \in Halts, TerminateStopped(h) PROVE Barrier'
  <2>1. TypeOK
    BY DEF IInv
  <2>2. CASE Stopping
    <3>1. call' = [call EXCEPT ![h] = [call[h] EXCEPT !.at = "quiescing", !.force = halt.id]]
      BY <1>10, <2>2 DEF TerminateStopped
    <3>2. [call[h] EXCEPT !.at = "quiescing", !.force = halt.id].at # "unused"
      BY <2>1, CallFields
    <3>3. \A o \in Halts : call'[o].at = "unused" => call[o].at = "unused"
      BY <2>1, <3>1, <3>2, CallReplaced
    <3> QED BY <1>10, <2>2, <3>3, EscalateKeeps DEF TerminateStopped
  <2>3. CASE ~Stopping
    <3>1. /\ forceClosed' = forceClosed \cup ({call[h].force} \ {NoHalt})
          /\ UNCHANGED <<phase, halt, stops, fence, active, run, awaited>>
          /\ call' = [call EXCEPT ![h].at = "done"]
      BY <1>10, <2>3 DEF TerminateStopped
    <3>2. \A o \in Halts : /\ call'[o].force = call[o].force
                           /\ call'[o].at = "unused" => o # h /\ call[o].at = "unused"
      BY <2>1, <3>1, CallGoesOn
    <3>3. TerminatedIsFinal'
      BY <3>1, <3>2 DEF IInv, Barrier, TerminatedIsFinal, Stopping
    <3>4. EffectsAreReal' /\ AbortedIsAwaited' /\ BarrierFences' /\ ReportedIsQuiet'
      BY <3>1 DEF IInv, Barrier, EffectsAreReal, AbortedIsAwaited, BarrierFences, ReportedIsQuiet
    <3>5. StopIsCurrent' /\ StopIsWhole' /\ UnusedIsFresh'
      BY <3>1, <3>2 DEF IInv, Barrier, StopIsCurrent, StopIsWhole, UnusedIsFresh
    <3>6. AbortedIsFenced' /\ PausedIsQuiet' /\ PendingIsOutstanding'
      BY <3>1 DEF IInv, Barrier, AbortedIsFenced, PausedIsQuiet, PendingIsOutstanding, Stopping
    <3> QED BY <3>3, <3>4, <3>5, <3>6 DEF Barrier
  <2> QED BY <2>2, <2>3
<1>11. ASSUME NEW h \in Halts, Rearm(h) PROVE Barrier'
  BY <1>11, RearmKeeps
<1> QED
  BY <1>1, <1>2, <1>3, <1>4, <1>5, <1>6, <1>7, <1>8, <1>9, <1>10, <1>11 DEF Next

LEMMA BarrierInit == Init => IInv
<1> SUFFICES ASSUME Init PROVE IInv
  OBVIOUS
<1> USE BarrierAssumption
<1>1. NoCmd \in Command /\ Idle \in Effect /\ <<>> \in Seq(Command) /\ 0 \in 0..MaxRounds
  BY DEF NoCmd, Command, Idle, Effect
<1>2. halt \in HaltSlices
  BY DEF Init, IdleHalt, HaltSlices
<1>3. TypeOK
  BY <1>1, <1>2 DEF Init, TypeOK, HaltSlices
<1>4. EffectsAreReal /\ AbortedIsAwaited /\ BarrierFences /\ ReportedIsQuiet
  BY DEF Init, Idle, EffectsAreReal, AbortedIsAwaited, BarrierFences, ReportedIsQuiet
<1>5. StopIsCurrent /\ StopIsWhole /\ UnusedIsFresh /\ TerminatedIsFinal
  BY DEF Init, StopIsCurrent, StopIsWhole, UnusedIsFresh, TerminatedIsFinal
<1>6. AbortedIsFenced /\ PausedIsQuiet /\ PendingIsOutstanding
  BY DEF Init, Idle, IdleHalt, AbortedIsFenced, PausedIsQuiet, PendingIsOutstanding
<1> QED BY <1>3, <1>4, <1>5, <1>6 DEF IInv, Barrier

-------------------------------------------------------------------------------
(* What holds of the barrier in every state.                               *)

\* The kernel, the halt executor, the fences and the effects agree in every
\* state.
THEOREM BarrierHolds == Spec => []IInv
<1>1. IInv /\ [Next]_vars => IInv'
  BY TypeStep, BarrierStep DEF IInv
<1> QED BY BarrierInit, <1>1, PTL DEF Spec

\* The kernel waits for exactly the participants that still owe their receipt,
\* for any participants and any number of halts, late participants included.
THEOREM ReceiptsAreCounted == Spec => []PendingIsOutstanding
<1>1. IInv => PendingIsOutstanding
  BY DEF IInv, Barrier
<1> QED BY BarrierHolds, <1>1, PTL

\* A fence outlives the effect it was put up against.
THEOREM FencesOutlive == Spec => []AbortedIsFenced
<1>1. IInv => AbortedIsFenced
  BY DEF IInv, Barrier
<1> QED BY BarrierHolds, <1>1, PTL

\* A paused task runs nothing a halt aborted.
THEOREM PausedTaskIsQuiet == Spec => []PausedIsQuiet
<1>1. IInv => PausedIsQuiet
  BY DEF IInv, Barrier
<1> QED BY BarrierHolds, <1>1, PTL

\* A force-closed halt never reopens a fence it still holds, whichever calls of
\* cancel and terminate interleave.
THEOREM ForcedStayClosed == Spec => ForcedFencesHold
<1>1. ASSUME IInv, [Next]_vars, NEW h \in forceClosed, NEW p \in Participants, fence[p] = h
      PROVE  fence'[p] # NoHalt
  <2> USE BarrierAssumption
  <2>1. h \in Halts /\ h # NoHalt
    BY <1>1 DEF IInv, TypeOK
  <2>2. ASSUME NEW o \in Halts, DispatchStop(o) PROVE fence'[p] # NoHalt
    BY <2>2 DEF DispatchStop
  <2>3. ASSUME NEW o \in Halts, Rearm(o) PROVE fence'[p] # NoHalt
    BY <1>1, <2>1, <2>3 DEF Rearm, Rearmed
  <2>4. CASE UNCHANGED fence
    BY <1>1, <2>1, <2>4
  <2> QED
    BY <1>1, <2>2, <2>3, <2>4
    DEF Next, vars, Submit, ComposeCompletes, LookUp, Dispatch, EffectCompletes, RoundFails,
        EffectReturns, Cancel, Terminate, StopThrows, StopReturns, BecomesQuiet, CancelStopped,
        TerminateStopped, Offer, Acknowledge, TimeOut, ReportLate
<1>2. IInv /\ [Next]_vars =>
        [\A h \in forceClosed, p \in Participants : fence[p] = h => fence'[p] # NoHalt]_vars
  BY <1>1
<1> QED BY BarrierHolds, <1>2, PTL DEF Spec, ForcedFencesHold

-------------------------------------------------------------------------------
(* The rounds: what may still run, who owns it, and behind which fence.  All *)
(* participants are fenced and rearmed together.                             *)

Fence == fence["compose"]

\* A command waits in the lane of an executor, or it waits there or runs unaborted.
Waits(d, c)  == c # NoCmd /\ (lookup[d] = c \/ \E i \in DOMAIN queued[d] : queued[d][i] = c)
MayRun(d, c) == Waits(d, c) \/ (c # NoCmd /\ active[d].cmd = c /\ ~active[d].aborted)

OneFence == \A p, q \in Participants : fence[p] = fence[q]

DialogHasNoLane == queued["dialog"] = <<>> /\ lookup["dialog"] = NoCmd

OneOwner == owner["compose"] = NoCmd \/ owner["provider"] = NoCmd

\* Behind a fence nothing runs that was not told to stop.
FencedIsStopped == \A d \in Executors : fence[d] # NoHalt => active[d] = Idle \/ active[d].aborted

StopsAreCalled == \A h \in stops : call[h].at = "stopping"

\* No fence but its own is up while a halt, once dispatched, waits for receipts.
HaltIsFenced == Stopping /\ halt.id \notin stops => Fence \in {NoHalt, halt.id}

\* A call that went on without a missed deadline has its halt behind it.
SettledIsOver ==
    \A h \in Halts :
        call[h].at \in {"quiescing", "stopped", "rearming"} /\ ~call[h].early => halt.id # h

\* Commands are issued, queued, looked up and run in the same order.
OrderAt(d) ==
    /\ active[d].cmd.id <= issued /\ lookup[d].id <= issued
    /\ lookup[d] # NoCmd => active[d].cmd.id < lookup[d].id
    /\ \A i \in DOMAIN queued[d] :
         /\ queued[d][i].id <= issued
         /\ active[d].cmd.id < queued[d][i].id /\ lookup[d].id < queued[d][i].id
         /\ \A j \in 1..(i-1) : queued[d][j].id < queued[d][i].id
InOrder == \A d \in Round : OrderAt(d)

\* The round that composes is the newest of the compose lane.
OwnerIsNewest ==
    owner["compose"] # NoCmd =>
        /\ active["compose"].cmd.id <= owner["compose"].id
        /\ lookup["compose"].id <= owner["compose"].id
        /\ \A i \in DOMAIN queued["compose"] : queued["compose"][i].id <= owner["compose"].id

\* No stop waits for dispatch, and the fences are lifted or about to be, by a
\* call that waited for the lanes.
Lifting(h) == call[h].at \in {"stopped", "rearming"} /\ ~call[h].early
Lifted == stops = {} /\ (Fence = NoHalt \/ \E h \in Halts : Fence = h /\ Lifting(h))

LanesAreCurrent ==
    Lifted => \A d \in Round, c \in Command : Waits(d, c) => c.gen = gen \/ c \in overtaken

ProviderIsOwned ==
    Lifted /\ phase # "terminated" =>
        \A c \in Command : MayRun("provider", c) => c = owner["provider"] \/ c \in overtaken

\* While the provider owns the round, composing is over.
ComposeIsOver ==
    Lifted /\ phase # "terminated" /\ owner["provider"] # NoCmd =>
        \A c \in Command : MayRun("compose", c) => c \in overtaken

\* Fences that are lifted before their halt is complete leave only what was overtaken.
EarlyIsOvertaken ==
    Stopping /\ halt.id \notin stops /\ Fence = NoHalt =>
        \A c \in Command : MayRun("provider", c) => c \in overtaken

Structure ==
    /\ OneFence /\ DialogHasNoLane /\ OneOwner /\ FencedIsStopped
    /\ StopsAreCalled /\ HaltIsFenced /\ SettledIsOver
    /\ InOrder /\ OwnerIsNewest

Reach == LanesAreCurrent /\ ProviderIsOwned /\ ComposeIsOver /\ EarlyIsOvertaken

\* The invariant of the rounds.
FInv == IInv /\ Structure /\ Reach

LEMMA RoundFacts ==
    /\ "compose" \in Round /\ "provider" \in Round /\ "compose" \in Participants
    /\ "compose" # "provider" /\ "compose" # "dialog" /\ "provider" # "dialog"
    /\ \A d \in Round : d \in Executors /\ d # "dialog" /\ (d = "compose" \/ d = "provider")
    /\ "dialog" \in Executors /\ "dialog" \notin Round
    /\ \A d \in Executors : d \in Participants /\ (d # "dialog" => d \in Round)
BY BarrierAssumption DEF Round, Executors

\* What the lanes hold, and who fences it, once a fence is lifted.
LEMMA WaitsInLanes ==
    ASSUME TypeOK, NEW d \in Executors, NEW c \in Command, Waits(d, c), NEW D \in SUBSET Executors, d \in D
    PROVE  c \in InLanes(D)
<1>1. c \in ({lookup[d]} \ {NoCmd}) \cup {queued[d][i] : i \in DOMAIN queued[d]}
  BY DEF Waits
<1> QED BY <1>1 DEF InLanes

\* What a step does to the calls: which stops wait, which calls have their halt
\* behind them, and that a call lifts its fences only after it found the lanes empty.
LEMMA CallSteady ==
    ASSUME TypeOK, [Next]_vars, NEW o \in Halts
    PROVE  /\ call[o].at = "stopping" /\ call'[o].at # "stopping" => o \notin stops
           /\ call'[o].at \in {"quiescing", "stopped", "rearming"} /\ ~call'[o].early =>
                \/ call[o].at \in {"quiescing", "stopped", "rearming"} /\ ~call[o].early
                \/ ~Stopping /\ UNCHANGED halt
                \/ halt' = IdleHalt
           /\ Lifting(o)' =>
                \/ Lifting(o)
                \/ /\ \A d \in Round : queued[d] = <<>> /\ lookup[d] = NoCmd /\ active[d] = Idle
                   /\ UNCHANGED <<queued, lookup, active>>
<1> USE DEF Lifting
<1>0. call \in [Halts -> Calls] /\ call[o] \in Calls
  BY DEF TypeOK, Calls, CallStates
<1>1. CASE UNCHANGED call
  BY <1>1
<1>2. ASSUME NEW h \in Halts, NEW at \in {"stopping", "done", "threw", "offering", "late_quiescing"},
             call' = [call EXCEPT ![h].at = at],
             call[h].at = "stopping" => h \notin stops
      PROVE  /\ call[o].at = "stopping" /\ call'[o].at # "stopping" => o \notin stops
             /\ call'[o].at \in {"quiescing", "stopped", "rearming"} => call'[o] = call[o]
  <2>1. call'[o] = IF o = h THEN [call[o] EXCEPT !.at = at] ELSE call[o]
    BY <1>0, <1>2
  <2>2. [call[o] EXCEPT !.at = at].at = at
    BY <1>0 DEF Calls
  <2> QED BY <1>2, <2>1, <2>2
<1>3. ASSUME NEW h \in Halts, Cancel(h) \/ StopThrows(h) \/ Rearm(h) \/ Offer(h)
      PROVE  /\ call[o].at = "stopping" /\ call'[o].at # "stopping" => o \notin stops
             /\ call'[o].at \in {"quiescing", "stopped", "rearming"} => call'[o] = call[o]
  <2>1. /\ call[h].at = "stopping" => h \notin stops
        /\ \E at \in {"stopping", "done", "threw", "offering", "late_quiescing"} :
             call' = [call EXCEPT ![h].at = at]
    BY <1>3 DEF Cancel, StopThrows, Rearm, Offer
  <2> QED BY <1>2, <2>1
<1>4. ASSUME NEW h \in Halts, Terminate(h)
      PROVE  /\ call[o].at = "stopping" /\ call'[o].at # "stopping" => o \notin stops
             /\ call'[o].at \in {"quiescing", "stopped", "rearming"} =>
                  \/ call'[o] = call[o]
                  \/ halt' = IdleHalt /\ call'[o].at = "quiescing"
  <2>1. CASE ~Stopping
    <3>1. call' = [call EXCEPT ![h] = [call[h] EXCEPT !.at = "stopping", !.kind = "terminate"]]
      BY <1>4, <2>1 DEF Terminate
    <3>2. [call[h] EXCEPT !.at = "stopping", !.kind = "terminate"].at = "stopping"
      BY <1>0 DEF Calls
    <3> QED BY <1>0, <3>1, <3>2
  <2>2. CASE Stopping
    <3>1. /\ call' = [call EXCEPT ![h] = [call[h] EXCEPT !.at = "quiescing", !.kind = "terminate",
                                                         !.force = halt.id]]
          /\ call[h].at = "unused" /\ halt' = IdleHalt
      BY <1>4, <2>2 DEF Terminate, Escalate, Complete
    <3>2. [call[h] EXCEPT !.at = "quiescing", !.kind = "terminate", !.force = halt.id].at = "quiescing"
      BY <1>0 DEF Calls
    <3> QED BY <1>0, <3>1, <3>2
  <2> QED BY <2>1, <2>2
<1>5. ASSUME NEW h \in Halts, TerminateStopped(h)
      PROVE  /\ call[o].at = "stopping" /\ call'[o].at # "stopping" => o \notin stops
             /\ call'[o].at \in {"quiescing", "stopped", "rearming"} =>
                  \/ call'[o] = call[o]
                  \/ halt' = IdleHalt /\ call'[o].at = "quiescing"
  <2>1. CASE ~Stopping
    <3>1. call' = [call EXCEPT ![h].at = "done"] /\ call[h].at = "stopped"
      BY <1>5, <2>1 DEF TerminateStopped
    <3> QED BY <1>2, <3>1
  <2>2. CASE Stopping
    <3>1. /\ call' = [call EXCEPT ![h] = [call[h] EXCEPT !.at = "quiescing", !.force = halt.id]]
          /\ call[h].at = "stopped" /\ halt' = IdleHalt
      BY <1>5, <2>2 DEF TerminateStopped, Escalate, Complete
    <3>2. [call[h] EXCEPT !.at = "quiescing", !.force = halt.id].at = "quiescing"
      BY <1>0 DEF Calls
    <3> QED BY <1>0, <3>1, <3>2
  <2> QED BY <2>1, <2>2
<1>6. ASSUME NEW h \in Halts, NEW p \in Participants, Refused(h, p)
      PROVE  /\ call[o].at = "stopping" /\ call'[o].at # "stopping" => o \notin stops
             /\ call'[o].at \in {"quiescing", "stopped", "rearming"} => call'[o] = call[o]
  BY <1>6, RefusedCalls
<1>7. ASSUME NEW h \in Halts, StopReturns(h)
      PROVE  /\ call[o].at = "stopping" /\ call'[o].at # "stopping" => o \notin stops
             /\ call'[o].at \in {"quiescing", "stopped", "rearming"} /\ ~call'[o].early =>
                  \/ call'[o] = call[o]
                  \/ ~Stopping /\ UNCHANGED halt /\ call'[o].at = "quiescing"
  <2>1. PICK at \in {"stopped", "quiescing"} :
          /\ call' = [call EXCEPT ![h] = [call[h] EXCEPT !.at = at, !.early = Stopping]]
          /\ at = IF Stopping THEN "stopped" ELSE "quiescing"
    BY <1>7 DEF StopReturns
  <2>2. h \notin stops /\ UNCHANGED halt
    BY <1>7 DEF StopReturns, kernel
  <2>3. /\ [call[h] EXCEPT !.at = at, !.early = Stopping].at = at
        /\ [call[h] EXCEPT !.at = at, !.early = Stopping].early = Stopping
    BY <1>0 DEF Calls
  <2> QED BY <1>0, <2>1, <2>2, <2>3
<1>8. ASSUME NEW h \in Halts, BecomesQuiet(h)
      PROVE  /\ call[o].at = "stopping" /\ call'[o].at # "stopping" => o \notin stops
             /\ \/ call'[o] = call[o]
                \/ call[o].at = "quiescing" /\ call'[o].early = call[o].early
                \/ call'[o].at = "offering"
             /\ \A d \in Round : queued[d] = <<>> /\ lookup[d] = NoCmd /\ active[d] = Idle
             /\ UNCHANGED <<queued, lookup, active>>
  <2>1. PICK at \in {"stopped", "offering"} :
          /\ call' = [call EXCEPT ![h].at = at]
          /\ call[h].at # "quiescing" => at = "offering"
    BY <1>8 DEF BecomesQuiet
  <2>2. [call[h] EXCEPT !.at = at].at = at /\ [call[h] EXCEPT !.at = at].early = call[h].early
    BY <1>0 DEF Calls
  <2>3. call'[o] = IF o = h THEN [call[o] EXCEPT !.at = at] ELSE call[o]
    BY <1>0, <2>1
  <2>4. call[h].at # "stopping" /\ UNCHANGED <<queued, lookup, active>>
    BY <1>8 DEF BecomesQuiet, lanes
  <2>5. \A d \in Round : queued[d] = <<>> /\ lookup[d] = NoCmd /\ active[d] = Idle
    BY <1>8, RoundFacts DEF BecomesQuiet, Quiescent
  <2> QED BY <2>1, <2>2, <2>3, <2>4, <2>5
<1>9. ASSUME NEW h \in Halts, CancelStopped(h)
      PROVE  /\ call[o].at = "stopping" /\ call'[o].at # "stopping" => o \notin stops
             /\ \/ call'[o] = call[o]
                \/ call[o].at = "stopped" /\ call'[o].early = call[o].early
  <2>1. PICK at \in {"done", "rearming"} :
          call' = [call EXCEPT ![h] = [call[h] EXCEPT !.at = at, !.late = Stopping]]
    BY <1>9 DEF CancelStopped
  <2>2. [call[h] EXCEPT !.at = at, !.late = Stopping].early = call[h].early
    BY <1>0 DEF Calls
  <2> QED BY <1>0, <1>9, <2>1, <2>2 DEF CancelStopped
<1>10. CASE \E h \in Halts : Cancel(h) \/ StopThrows(h) \/ Rearm(h) \/ Offer(h)
                              \/ Terminate(h) \/ TerminateStopped(h)
  BY <1>3, <1>4, <1>5, <1>10
<1>11. CASE \E h \in Halts, p \in Participants : Acknowledge(h, p) \/ TimeOut(h, p) \/ ReportLate(h, p)
  BY <1>1, <1>6, <1>11 DEF Acknowledge, TimeOut, ReportLate
<1>12. CASE \E h \in Halts : StopReturns(h) \/ BecomesQuiet(h) \/ CancelStopped(h)
  BY <1>7, <1>8, <1>9, <1>12
<1> QED
  BY <1>1, <1>10, <1>11, <1>12
  DEF Next, vars, Submit, ComposeCompletes, LookUp, Dispatch, EffectCompletes, RoundFails,
      EffectReturns, DispatchStop

\* Init and the fences.
LEMMA RoundsInit == Init => FInv
<1> SUFFICES ASSUME Init PROVE FInv
  OBVIOUS
<1> USE RoundFacts, BarrierAssumption DEF Init, Fence
<1>1. IInv
  BY BarrierInit
<1>2. \A d \in Round : queued[d] = <<>> /\ lookup[d] = NoCmd /\ active[d] = Idle
  OBVIOUS
<1>3. ASSUME NEW d \in Round, NEW c PROVE ~MayRun(d, c) /\ ~Waits(d, c)
  BY <1>2 DEF MayRun, Waits, Idle
<1>4. Reach
  BY <1>3 DEF Reach, LanesAreCurrent, ProviderIsOwned, ComposeIsOver, EarlyIsOvertaken
<1>5. InOrder /\ OwnerIsNewest
  BY <1>2 DEF InOrder, OrderAt, OwnerIsNewest, Idle, NoCmd
<1>6. OneFence /\ DialogHasNoLane /\ OneOwner /\ FencedIsStopped
  BY DEF OneFence, DialogHasNoLane, OneOwner, FencedIsStopped
<1>7. StopsAreCalled /\ HaltIsFenced /\ SettledIsOver
  BY DEF StopsAreCalled, HaltIsFenced, SettledIsOver, Stopping, IdleHalt
<1> QED BY <1>1, <1>4, <1>5, <1>6, <1>7 DEF FInv, Structure

\* All fences go up and down together, and nothing starts behind one.
LEMMA FenceStep == ASSUME FInv, [Next]_vars PROVE OneFence' /\ FencedIsStopped'
<1> USE RoundFacts, BarrierAssumption DEF FInv, Structure
<1>0. TypeOK /\ OneFence /\ FencedIsStopped /\ active \in [Executors -> Effect]
  BY DEF IInv, TypeOK
<1>1. ASSUME NEW h \in Halts, DispatchStop(h) PROVE OneFence' /\ FencedIsStopped'
  <2>1. \A d \in Executors : active'[d] = Idle \/ active'[d].aborted
    BY <1>0, <1>1 DEF DispatchStop, Effect
  <2> QED BY <1>1, <2>1 DEF DispatchStop, OneFence, FencedIsStopped
<1>2. ASSUME NEW h \in Halts, Rearm(h) PROVE OneFence' /\ FencedIsStopped'
  <2>1. UNCHANGED active /\ (UNCHANGED fence \/ fence' = Rearmed(h))
    BY <1>2 DEF Rearm
  <2> QED BY <1>0, <2>1 DEF Rearmed, OneFence, FencedIsStopped
<1>3. ASSUME UNCHANGED fence,
             \A d \in Executors : \/ active'[d] = active[d] \/ active'[d] = Idle \/ fence[d] = NoHalt
      PROVE  OneFence' /\ FencedIsStopped'
  BY <1>0, <1>3 DEF OneFence, FencedIsStopped
<1>4. ASSUME NEW d \in Executors, Dispatch(d) \/ EffectCompletes(d) \/ RoundFails(d) \/ EffectReturns(d)
      PROVE  OneFence' /\ FencedIsStopped'
  <2>1. UNCHANGED fence
    BY <1>4 DEF Dispatch, EffectCompletes, RoundFails, EffectReturns
  <2>2. \A e \in Executors : \/ active'[e] = active[e] \/ active'[e] = Idle \/ fence[e] = NoHalt
    BY <1>0, <1>4 DEF Dispatch, Run, EffectCompletes, RoundFails, EffectReturns, Returned
  <2> QED BY <1>3, <2>1, <2>2
<1>5. CASE ComposeCompletes
  BY <1>0, <1>3, <1>5 DEF ComposeCompletes, Returned
<1>6. ASSUME NEW h \in Halts, Offer(h) PROVE OneFence' /\ FencedIsStopped'
  BY <1>0, <1>3, <1>6 DEF Offer, Run
<1>7. CASE UNCHANGED <<fence, active>>
  BY <1>3, <1>7
<1> QED
  BY <1>1, <1>2, <1>4, <1>5, <1>6, <1>7
  DEF Next, vars, Submit, LookUp, Cancel, Terminate, StopThrows, StopReturns, BecomesQuiet,
      CancelStopped, TerminateStopped, Acknowledge, TimeOut, ReportLate

\* A receipt leaves its halt waiting for others, or completes it.
LEMMA ReceiptHalt ==
    ASSUME TypeOK, NEW h \in Halts, NEW p \in Participants, Receipt(h, p)
    PROVE  halt'.id = halt.id \/ halt' = IdleHalt
BY DEF Receipt, Complete, TypeOK

\* What a step does to the halt, the stops and the fences.
LEMMA HaltSteady ==
    ASSUME FInv, [Next]_vars
    PROVE  \/ UNCHANGED <<stops, fence>> /\ (halt'.id = halt.id \/ halt' = IdleHalt)
           \/ \E h \in Halts : /\ stops' = stops \cup {h} /\ halt'.id = h /\ UNCHANGED fence
                               /\ call'[h].at = "stopping" /\ call[h].at = "unused"
                               /\ \A o \in Halts \ {h} : call'[o] = call[o]
           \/ \E h \in stops : /\ stops' = stops \ {h} /\ fence' = [p \in Participants |-> h]
                               /\ UNCHANGED <<halt, call>>
           \/ \E h \in Halts : UNCHANGED <<stops, halt>> /\ Rearm(h)
<1>0. TypeOK
  BY DEF FInv, IInv
<1>1. ASSUME NEW h \in Halts, NEW target, StartHalt(h, target), UNCHANGED fence, call[h].at = "unused",
             \/ call' = [call EXCEPT ![h].at = "stopping"]
             \/ call' = [call EXCEPT ![h] = [call[h] EXCEPT !.at = "stopping", !.kind = "terminate"]]
      PROVE  /\ stops' = stops \cup {h} /\ halt'.id = h /\ UNCHANGED fence
             /\ call'[h].at = "stopping" /\ call[h].at = "unused"
             /\ \A o \in Halts \ {h} : call'[o] = call[o]
  <2>1. call \in [Halts -> Calls]
    BY <1>0 DEF TypeOK, Calls, CallStates
  <2>2. call'[h].at = "stopping" /\ \A o \in Halts \ {h} : call'[o] = call[o]
    BY <1>1, <2>1 DEF Calls
  <2> QED BY <1>1, <2>2 DEF StartHalt
<1>2. ASSUME NEW h \in Halts, Cancel(h) \/ (Terminate(h) /\ ~Stopping)
      PROVE  \E o \in Halts : /\ stops' = stops \cup {o} /\ halt'.id = o /\ UNCHANGED fence
                              /\ call'[o].at = "stopping" /\ call[o].at = "unused"
                              /\ \A q \in Halts \ {o} : call'[q] = call[q]
  BY <1>1, <1>2 DEF Cancel, Terminate
<1>3. ASSUME NEW h \in Halts, (Terminate(h) /\ Stopping) \/ TerminateStopped(h)
      PROVE  UNCHANGED <<stops, fence>> /\ (halt'.id = halt.id \/ halt' = IdleHalt)
  BY <1>3 DEF Terminate, TerminateStopped, Escalate, Complete
<1>4. ASSUME NEW h \in Halts, NEW p \in Participants, Acknowledge(h, p) \/ TimeOut(h, p) \/ ReportLate(h, p)
      PROVE  UNCHANGED <<stops, fence>> /\ (halt'.id = halt.id \/ halt' = IdleHalt)
  BY <1>0, <1>4, ReceiptHalt DEF Acknowledge, TimeOut, ReportLate, kernel, lanes
<1>5. ASSUME NEW h \in Halts, DispatchStop(h)
      PROVE  /\ stops' = stops \ {h} /\ fence' = [p \in Participants |-> h] /\ h \in stops
             /\ UNCHANGED <<halt, call>>
  BY <1>5 DEF DispatchStop, kernel
<1>6. ASSUME NEW h \in Halts, Rearm(h) PROVE UNCHANGED <<stops, halt>>
  BY <1>6 DEF Rearm, kernel
<1>7. CASE UNCHANGED <<stops, fence, halt>>
  BY <1>7
<1> QED
  BY <1>2, <1>3, <1>4, <1>5, <1>6, <1>7
  DEF Next, vars, kernel, lanes, Submit, ComposeCompletes, LookUp, Dispatch, EffectCompletes, RoundFails,
      EffectReturns, StopThrows, StopReturns, BecomesQuiet, CancelStopped, Offer

\* Whose halt is under way, and which fence is up.
LEMMA HaltStep ==
    ASSUME FInv, [Next]_vars
    PROVE  StopsAreCalled' /\ HaltIsFenced' /\ SettledIsOver'
<1> USE RoundFacts, BarrierAssumption DEF Fence
<1>0. TypeOK /\ StopsAreCalled /\ HaltIsFenced /\ SettledIsOver
  BY DEF FInv, Structure, IInv
<1>1. stops \subseteq Halts /\ \A o \in stops : Stopping => halt.id = o
  <2>1. Stopping => phase # "terminated"
    BY DEF FInv, IInv, Barrier, TerminatedIsFinal
  <2> QED BY <1>0, <2>1 DEF FInv, IInv, Barrier, StopIsCurrent, TypeOK
<1>a. IdleHalt.id = NoHalt
  BY DEF IdleHalt
<1>2. CASE UNCHANGED <<stops, fence>> /\ (halt'.id = halt.id \/ halt' = IdleHalt)
  <2>1. StopsAreCalled'
    BY <1>0, <1>1, <1>2, CallSteady DEF StopsAreCalled
  <2>2. HaltIsFenced'
    BY <1>0, <1>2, <1>a DEF HaltIsFenced, Stopping
  <2>3. SettledIsOver'
    BY <1>0, <1>2, <1>a, CallSteady DEF SettledIsOver, Stopping
  <2> QED BY <2>1, <2>2, <2>3
<1>3. ASSUME NEW h \in Halts, stops' = stops \cup {h}, halt'.id = h, UNCHANGED fence,
             call'[h].at = "stopping", \A o \in Halts \ {h} : call'[o] = call[o]
      PROVE  StopsAreCalled' /\ HaltIsFenced' /\ SettledIsOver'
  BY <1>0, <1>1, <1>3 DEF StopsAreCalled, HaltIsFenced, SettledIsOver
<1>4. ASSUME NEW h \in stops, stops' = stops \ {h}, fence' = [p \in Participants |-> h],
             UNCHANGED <<halt, call>>
      PROVE  StopsAreCalled' /\ HaltIsFenced' /\ SettledIsOver'
  BY <1>0, <1>1, <1>4 DEF StopsAreCalled, HaltIsFenced, SettledIsOver, Stopping
<1>5. ASSUME NEW h \in Halts, UNCHANGED <<stops, halt>>, Rearm(h)
      PROVE  StopsAreCalled' /\ HaltIsFenced' /\ SettledIsOver'
  <2>1. StopsAreCalled'
    BY <1>0, <1>1, <1>5, CallSteady DEF StopsAreCalled
  <2>2. fence'["compose"] \in {fence["compose"], NoHalt}
    BY <1>0, <1>5 DEF Rearm, Rearmed, TypeOK
  <2>3. HaltIsFenced'
    BY <1>0, <1>5, <2>2 DEF HaltIsFenced, Stopping
  <2>4. SettledIsOver'
    BY <1>0, <1>5, <1>a, CallSteady DEF SettledIsOver, Stopping
  <2> QED BY <2>1, <2>3, <2>4
<1> QED BY <1>2, <1>3, <1>4, <1>5, HaltSteady

\* What a step does to the lane of a round's executor: a new command goes to its
\* end and owns the round, or what the lane holds and runs gets less.
Appended(d) ==
    /\ queued'[d] = Append(queued[d], NextCmd) /\ owner'[d] = NextCmd /\ issued' = issued + 1
    /\ lookup'[d] = lookup[d] /\ active'[d] \in {active[d], Idle}
Advanced(d) ==
    /\ owner'[d] \in {owner[d], NoCmd} /\ issued' \in {issued, issued + 1}
    /\ \/ /\ queued'[d] \in {queued[d], <<>>} /\ lookup'[d] = lookup[d]
          /\ active'[d] \in {active[d], Idle, [active[d] EXCEPT !.aborted = TRUE]}
       \/ /\ queued[d] # <<>> /\ lookup[d] = NoCmd /\ active'[d] = active[d]
          /\ lookup'[d] = Head(queued[d]) /\ queued'[d] = Tail(queued[d])
       \/ /\ queued'[d] = queued[d] /\ lookup[d] # NoCmd /\ lookup'[d] = NoCmd
          /\ active'[d] \in {active[d], [cmd |-> lookup[d], aborted |-> FALSE]}

LEMMA LaneStep == ASSUME TypeOK, [Next]_vars, NEW d \in Round PROVE Appended(d) \/ Advanced(d)
<1> USE RoundFacts
<1>0. /\ d \in Executors /\ d # "dialog" /\ owner \in [Executors -> Command]
      /\ queued \in [Executors -> Seq(Command)] /\ lookup \in [Executors -> Command]
      /\ active \in [Executors -> Effect]
  BY DEF TypeOK
<1>1. CASE Submit
  BY <1>0, <1>1 DEF Submit, Appended, Advanced
<1>2. CASE ComposeCompletes
  BY <1>0, <1>2 DEF ComposeCompletes, Settled, Returned, Appended, Advanced
<1>3. ASSUME NEW e \in Executors, LookUp(e) PROVE Advanced(d)
  BY <1>0, <1>3 DEF LookUp, kernel, Advanced
<1>4. ASSUME NEW e \in Executors, Dispatch(e) PROVE Advanced(d)
  BY <1>0, <1>4 DEF Dispatch, Run, kernel, Advanced
<1>5. ASSUME NEW e \in Executors, EffectCompletes(e) PROVE Advanced(d)
  BY <1>0, <1>5 DEF EffectCompletes, Settled, Returned, lanes, Advanced
<1>6. ASSUME NEW e \in Executors, RoundFails(e) PROVE Advanced(d)
  BY <1>0, <1>6 DEF RoundFails, OpenDialog, Settled, Returned, lanes, Advanced
<1>7. ASSUME NEW e \in Executors, EffectReturns(e) PROVE Advanced(d)
  BY <1>0, <1>7 DEF EffectReturns, Returned, lanes, kernel, Advanced
<1>8. ASSUME NEW h \in Halts, Cancel(h) PROVE Advanced(d)
  BY <1>0, <1>8 DEF Cancel, StartHalt, Advanced
<1>9. ASSUME NEW h \in Halts, Terminate(h) PROVE Advanced(d)
  BY <1>0, <1>9 DEF Terminate, StartHalt, Escalate, Complete, Advanced
<1>10. ASSUME NEW h \in Halts, DispatchStop(h) PROVE Advanced(d)
  BY <1>0, <1>10 DEF DispatchStop, kernel, Advanced
<1>11. ASSUME NEW h \in Halts, TerminateStopped(h) PROVE Advanced(d)
  BY <1>0, <1>11 DEF TerminateStopped, Escalate, Complete, Advanced
<1>12. ASSUME NEW h \in Halts, NEW p \in Participants,
              Acknowledge(h, p) \/ TimeOut(h, p) \/ ReportLate(h, p)
       PROVE  Advanced(d)
  <2>1. UNCHANGED <<queued, lookup, active, issued>>
    BY <1>12 DEF Acknowledge, TimeOut, ReportLate, lanes, kernel
  <2>2. owner'[d] \in {owner[d], NoCmd}
    BY <1>0, <1>12 DEF Acknowledge, TimeOut, ReportLate, kernel, Receipt, Complete
  <2> QED BY <2>1, <2>2 DEF Advanced
<1>13. ASSUME NEW h \in Halts, Offer(h) PROVE Advanced(d)
  BY <1>0, <1>13 DEF Offer, OpenDialog, Run, lanes, Advanced
<1>14. CASE UNCHANGED <<queued, lookup, active, owner, issued>>
  BY <1>14 DEF Advanced
<1> QED
  BY <1>1, <1>2, <1>3, <1>4, <1>5, <1>6, <1>7, <1>8, <1>9, <1>10, <1>11, <1>12, <1>13, <1>14
  DEF Next, vars, kernel, lanes, StopThrows, StopReturns, BecomesQuiet, CancelStopped, Rearm

\* The order of a lane outlives its moves.
LEMMA OrderKept ==
    ASSUME TypeOK, NEW d \in Round, OrderAt(d), Appended(d) \/ Advanced(d)
    PROVE  OrderAt(d)'
<1> USE RoundFacts DEF OrderAt
<1>0. /\ queued[d] \in Seq(Command) /\ lookup[d] \in Command /\ active[d] \in Effect
      /\ active[d].cmd \in Command /\ issued \in Nat /\ NextCmd.id = issued + 1
  BY DEF TypeOK, Effect, NextCmd
<1>1. \A i \in DOMAIN queued[d] : queued[d][i] \in Command
  BY <1>0
<1>2. \A c \in Command : c.id \in Nat
  BY DEF Command
<1>3. NoCmd.id = 0 /\ Idle.cmd = NoCmd
  BY DEF NoCmd, Idle
<1>4. CASE Appended(d)
  <2>1. active'[d].cmd.id <= active[d].cmd.id /\ active'[d].cmd.id \in Nat
    BY <1>0, <1>2, <1>3, <1>4 DEF Appended
  <2>2. /\ DOMAIN queued'[d] = 1..(Len(queued[d]) + 1)
        /\ \A i \in DOMAIN queued[d] : queued'[d][i] = queued[d][i]
        /\ queued'[d][Len(queued[d]) + 1] = NextCmd
        /\ DOMAIN queued[d] = 1..Len(queued[d]) /\ Len(queued[d]) \in Nat
    BY <1>0, <1>4, NextCmdType DEF Appended
  <2>3. ASSUME NEW i \in DOMAIN queued[d]
        PROVE  /\ queued'[d][i].id <= issued'
               /\ active'[d].cmd.id < queued'[d][i].id /\ lookup'[d].id < queued'[d][i].id
               /\ \A j \in 1..(i-1) : queued'[d][j].id < queued'[d][i].id
    <3>1. queued[d][i].id \in Nat
      BY <1>1, <1>2
    <3>2. \A j \in 1..(i-1) : j \in DOMAIN queued[d]
      BY <2>2
    <3> QED BY <1>0, <1>2, <1>4, <2>1, <2>2, <3>1, <3>2 DEF Appended
  <2>4. ASSUME NEW i, i = Len(queued[d]) + 1
        PROVE  /\ queued'[d][i].id <= issued'
               /\ active'[d].cmd.id < queued'[d][i].id /\ lookup'[d].id < queued'[d][i].id
               /\ \A j \in 1..(i-1) : queued'[d][j].id < queued'[d][i].id
    <3>1. queued'[d][i].id = issued + 1 /\ issued' = issued + 1
      BY <1>0, <1>4, <2>2, <2>4 DEF Appended
    <3>2. \A j \in 1..(i-1) : j \in DOMAIN queued[d] /\ queued'[d][j] = queued[d][j]
      BY <2>2, <2>4
    <3>3. \A j \in DOMAIN queued[d] : queued[d][j].id \in Nat /\ queued[d][j].id <= issued
      BY <1>1, <1>2
    <3>4. lookup'[d].id \in Nat /\ lookup'[d].id <= issued /\ active'[d].cmd.id <= issued
      BY <1>0, <1>2, <1>4, <2>1 DEF Appended
    <3> QED BY <1>0, <2>1, <3>1, <3>2, <3>3, <3>4
  <2>5. active'[d].cmd.id <= issued' /\ lookup'[d].id <= issued'
    BY <1>0, <1>2, <1>4, <2>1 DEF Appended
  <2>6. lookup'[d] # NoCmd => active'[d].cmd.id < lookup'[d].id
    BY <1>0, <1>2, <1>4, <2>1 DEF Appended
  <2>7. \A i \in DOMAIN queued'[d] : i \in DOMAIN queued[d] \/ i = Len(queued[d]) + 1
    BY <2>2
  <2> QED BY <2>3, <2>4, <2>5, <2>6, <2>7
<1>5. CASE Advanced(d) /\ queued'[d] \in {queued[d], <<>>} /\ lookup'[d] = lookup[d]
           /\ active'[d] \in {active[d], Idle, [active[d] EXCEPT !.aborted = TRUE]}
  <2>1. active'[d].cmd.id <= active[d].cmd.id /\ active'[d].cmd.id \in Nat
    BY <1>0, <1>2, <1>3, <1>5 DEF Effect
  <2>2. DOMAIN queued'[d] \subseteq DOMAIN queued[d]
        /\ \A i \in DOMAIN queued'[d] : queued'[d][i] = queued[d][i]
    BY <1>0, <1>5
  <2>3. issued <= issued' /\ issued' \in Nat
    BY <1>0, <1>5 DEF Advanced
  <2>4. \A i \in DOMAIN queued'[d] : \A j \in 1..(i-1) : j \in DOMAIN queued'[d]
    BY <1>0, <1>5
  <2>5. ASSUME NEW i \in DOMAIN queued'[d]
        PROVE  /\ queued'[d][i].id <= issued'
               /\ active'[d].cmd.id < queued'[d][i].id /\ lookup'[d].id < queued'[d][i].id
               /\ \A j \in 1..(i-1) : queued'[d][j].id < queued'[d][i].id
    <3>1. i \in DOMAIN queued[d] /\ queued'[d][i] = queued[d][i] /\ queued[d][i].id \in Nat
      BY <1>1, <1>2, <2>2
    <3>2. \A j \in 1..(i-1) : queued'[d][j] = queued[d][j]
      BY <2>2, <2>4
    <3> QED BY <1>0, <1>2, <1>5, <2>1, <2>3, <3>1, <3>2
  <2>6. active'[d].cmd.id <= issued' /\ lookup'[d].id <= issued'
    BY <1>0, <1>2, <1>5, <2>1, <2>3
  <2>7. lookup'[d] # NoCmd => active'[d].cmd.id < lookup'[d].id
    BY <1>0, <1>2, <1>5, <2>1
  <2> QED BY <2>5, <2>6, <2>7
<1>6. CASE Advanced(d) /\ queued[d] # <<>> /\ lookup[d] = NoCmd /\ active'[d] = active[d]
           /\ lookup'[d] = Head(queued[d]) /\ queued'[d] = Tail(queued[d])
  <2>1. /\ 1 \in DOMAIN queued[d] /\ lookup'[d] = queued[d][1]
        /\ DOMAIN queued[d] = 1..Len(queued[d]) /\ Len(queued[d]) \in Nat
        /\ DOMAIN queued'[d] = 1..(Len(queued[d]) - 1)
        /\ \A i \in DOMAIN queued'[d] : queued'[d][i] = queued[d][i+1]
    BY <1>0, <1>6
  <2>2. issued <= issued' /\ issued' \in Nat
    BY <1>0, <1>6 DEF Advanced
  <2>3. \A i \in DOMAIN queued'[d] : i + 1 \in DOMAIN queued[d] /\ 1 \in 1..((i + 1) - 1)
    BY <2>1
  <2>4. \A i \in DOMAIN queued'[d] : \A j \in 1..(i-1) :
           j \in DOMAIN queued'[d] /\ j + 1 \in 1..((i + 1) - 1)
    BY <2>1
  <2>5. /\ lookup'[d].id <= issued' /\ active'[d].cmd.id <= issued'
        /\ active'[d].cmd.id < lookup'[d].id
    BY <1>0, <1>1, <1>2, <1>6, <2>1, <2>2
  <2>6. ASSUME NEW i \in DOMAIN queued'[d]
        PROVE  /\ queued'[d][i].id <= issued'
               /\ active'[d].cmd.id < queued'[d][i].id /\ lookup'[d].id < queued'[d][i].id
               /\ \A j \in 1..(i-1) : queued'[d][j].id < queued'[d][i].id
    <3>1. queued'[d][i] = queued[d][i + 1] /\ i + 1 \in DOMAIN queued[d]
      BY <2>1, <2>3
    <3>2. queued[d][i + 1].id <= issued /\ active[d].cmd.id < queued[d][i + 1].id
          /\ \A j \in 1..((i + 1) - 1) : queued[d][j].id < queued[d][i + 1].id
      BY <3>1
    <3>3. \A j \in 1..(i-1) : queued'[d][j] = queued[d][j + 1] /\ j + 1 \in 1..((i + 1) - 1)
      BY <2>1, <2>4
    <3>4. queued[d][i + 1].id \in Nat
      BY <1>1, <1>2, <3>1
    <3>5. lookup'[d] = queued[d][1] /\ 1 \in 1..((i + 1) - 1)
      BY <2>1, <2>3
    <3>6. queued'[d][i].id <= issued' /\ active'[d].cmd.id < queued'[d][i].id
      BY <1>0, <1>6, <2>2, <3>1, <3>2, <3>4
    <3>7. lookup'[d].id < queued'[d][i].id
      BY <3>1, <3>2, <3>5
    <3>8. \A j \in 1..(i-1) : queued'[d][j].id < queued'[d][i].id
      BY <3>1, <3>2, <3>3
    <3> QED BY <3>6, <3>7, <3>8
  <2> QED BY <2>5, <2>6
<1>7. CASE Advanced(d) /\ queued'[d] = queued[d] /\ lookup[d] # NoCmd /\ lookup'[d] = NoCmd
           /\ active'[d] \in {active[d], [cmd |-> lookup[d], aborted |-> FALSE]}
  <2>1. active'[d].cmd \in {active[d].cmd, lookup[d]}
    BY <1>7
  <2>2. issued <= issued' /\ issued' \in Nat
    BY <1>0, <1>7 DEF Advanced
  <2>3. active'[d].cmd.id \in Nat /\ active'[d].cmd.id <= issued'
    BY <1>0, <1>2, <2>1, <2>2
  <2>4. \A i \in DOMAIN queued[d] :
          queued[d][i].id \in Nat /\ queued[d][i].id <= issued' /\ active'[d].cmd.id < queued[d][i].id
          /\ lookup'[d].id < queued[d][i].id
    BY <1>0, <1>1, <1>2, <1>3, <1>7, <2>1, <2>2
  <2> QED BY <1>3, <1>7, <2>2, <2>3, <2>4
<1> QED BY <1>4, <1>5, <1>6, <1>7 DEF Advanced

\* One executor owns the round, and a composing round is the newest of its lane.
LEMMA OwnerStep == ASSUME FInv, [Next]_vars PROVE OneOwner' /\ DialogHasNoLane'
<1> USE RoundFacts
<1>0. /\ TypeOK /\ OneOwner /\ DialogHasNoLane /\ owner \in [Executors -> Command]
      /\ queued \in [Executors -> Seq(Command)] /\ lookup \in [Executors -> Command]
  BY DEF FInv, Structure, IInv, TypeOK
<1>1. CASE Submit
  BY <1>0, <1>1 DEF Submit, HasActiveRound, OneOwner, DialogHasNoLane
<1>2. CASE ComposeCompletes
  BY <1>0, <1>2 DEF ComposeCompletes, Settled, OneOwner, DialogHasNoLane
<1>3. ASSUME NEW e \in Executors, LookUp(e) \/ Dispatch(e) PROVE OneOwner' /\ DialogHasNoLane'
  BY <1>0, <1>3 DEF LookUp, Dispatch, kernel, OneOwner, DialogHasNoLane
<1>4. ASSUME NEW e \in Executors, EffectCompletes(e) \/ RoundFails(e)
      PROVE  OneOwner' /\ DialogHasNoLane'
  BY <1>0, <1>4 DEF EffectCompletes, RoundFails, OpenDialog, Settled, lanes, OneOwner, DialogHasNoLane
<1>5. ASSUME NEW h \in Halts, Cancel(h) \/ Terminate(h) \/ TerminateStopped(h)
      PROVE  OneOwner' /\ DialogHasNoLane'
  BY <1>0, <1>5
  DEF Cancel, Terminate, TerminateStopped, StartHalt, Escalate, Complete, OneOwner, DialogHasNoLane
<1>6. ASSUME NEW h \in Halts, NEW p \in Participants,
             Acknowledge(h, p) \/ TimeOut(h, p) \/ ReportLate(h, p)
      PROVE  OneOwner' /\ DialogHasNoLane'
  BY <1>0, <1>6
  DEF Acknowledge, TimeOut, ReportLate, lanes, kernel, Receipt, Complete, OneOwner, DialogHasNoLane
<1>7. ASSUME NEW h \in Halts, Offer(h) PROVE OneOwner' /\ DialogHasNoLane'
  BY <1>0, <1>7 DEF Offer, OpenDialog, lanes, OneOwner, DialogHasNoLane
<1>8. CASE UNCHANGED <<owner, queued, lookup>>
  BY <1>0, <1>8 DEF OneOwner, DialogHasNoLane
<1> QED
  BY <1>1, <1>2, <1>3, <1>4, <1>5, <1>6, <1>7, <1>8
  DEF Next, vars, kernel, lanes, EffectReturns, DispatchStop, StopThrows, StopReturns, BecomesQuiet,
      CancelStopped, Rearm

LEMMA OrderStep == ASSUME FInv, [Next]_vars PROVE InOrder' /\ OwnerIsNewest'
<1> USE RoundFacts
<1>0. TypeOK /\ InOrder /\ OwnerIsNewest
  BY DEF FInv, Structure, IInv
<1>1. InOrder'
  BY <1>0, LaneStep, OrderKept DEF InOrder
<1>2. OwnerIsNewest'
  <2>0. /\ queued["compose"] \in Seq(Command) /\ lookup["compose"] \in Command
        /\ active["compose"] \in Effect /\ issued \in Nat /\ NextCmd.id = issued + 1
    BY <1>0 DEF TypeOK, NextCmd
  <2>1. CASE Appended("compose")
    <3>1. OrderAt("compose")' /\ owner'["compose"].id = issued'
      BY <1>1, <2>0, <2>1 DEF InOrder, Appended
    <3> QED BY <3>1 DEF OwnerIsNewest, OrderAt
  <2>2. CASE Advanced("compose")
    <3> SUFFICES ASSUME owner'["compose"] # NoCmd PROVE OwnerIsNewest'
      BY DEF OwnerIsNewest
    <3>1. owner'["compose"] = owner["compose"] /\ owner["compose"] # NoCmd
      BY <2>2 DEF Advanced
    <3>2. active'["compose"].cmd \in {active["compose"].cmd, lookup["compose"], NoCmd}
      BY <2>0, <2>2 DEF Advanced, Effect, Idle
    <3>3. /\ lookup'["compose"] \in {lookup["compose"], NoCmd} \cup
                                  {queued["compose"][i] : i \in DOMAIN queued["compose"]}
          /\ \A i \in DOMAIN queued'["compose"] : \E j \in DOMAIN queued["compose"] :
               queued'["compose"][i] = queued["compose"][j]
      <4>1. CASE queued'["compose"] \in {queued["compose"], <<>>}
                 /\ lookup'["compose"] \in {lookup["compose"], NoCmd}
        BY <2>0, <4>1
      <4>2. CASE queued["compose"] # <<>> /\ lookup'["compose"] = Head(queued["compose"])
                 /\ queued'["compose"] = Tail(queued["compose"])
        <5>1. 1 \in DOMAIN queued["compose"] /\ lookup'["compose"] = queued["compose"][1]
          BY <2>0, <4>2
        <5>2. \A i \in DOMAIN queued'["compose"] :
                i + 1 \in DOMAIN queued["compose"] /\ queued'["compose"][i] = queued["compose"][i + 1]
          BY <2>0, <4>2
        <5> QED BY <5>1, <5>2
      <4> QED BY <2>2, <4>1, <4>2 DEF Advanced
    <3>4. owner["compose"].id \in Nat /\ NoCmd.id = 0
      BY <1>0 DEF TypeOK, Command, NoCmd
    <3> QED BY <1>0, <3>1, <3>2, <3>3, <3>4 DEF OwnerIsNewest
  <2> QED BY <1>0, <2>1, <2>2, LaneStep
<1> QED BY <1>1, <1>2

\* What waits or runs after a step waited or ran before it, or is new to its lane.
LEMMA ReachMoves ==
    ASSUME TypeOK, [Next]_vars, NEW d \in Round, NEW c \in Command
    PROVE  /\ Advanced(d) => (Waits(d, c)' => Waits(d, c)) /\ (MayRun(d, c)' => MayRun(d, c))
           /\ Appended(d) => /\ Waits(d, c)' => Waits(d, c) \/ c = NextCmd
                             /\ MayRun(d, c)' => MayRun(d, c) \/ c = NextCmd
<1> USE RoundFacts
<1>0. /\ queued[d] \in Seq(Command) /\ lookup[d] \in Command /\ active[d] \in Effect
      /\ Idle.cmd = NoCmd /\ NextCmd \in Command
  BY NextCmdType DEF TypeOK, Idle
<1>1. ASSUME Appended(d)
      PROVE  /\ Waits(d, c)' => Waits(d, c) \/ c = NextCmd
             /\ MayRun(d, c)' => MayRun(d, c) \/ c = NextCmd
  <2>1. \A i \in DOMAIN queued'[d] :
          (i \in DOMAIN queued[d] /\ queued'[d][i] = queued[d][i]) \/ queued'[d][i] = NextCmd
    BY <1>0, <1>1 DEF Appended
  <2>2. Waits(d, c)' => Waits(d, c) \/ c = NextCmd
    BY <1>1, <2>1 DEF Waits, Appended
  <2> QED BY <1>0, <1>1, <2>2 DEF MayRun, Appended
<1>2. ASSUME Advanced(d)
      PROVE  (Waits(d, c)' => Waits(d, c)) /\ (MayRun(d, c)' => MayRun(d, c))
  <2>1. CASE /\ queued'[d] \in {queued[d], <<>>} /\ lookup'[d] = lookup[d]
             /\ active'[d] \in {active[d], Idle, [active[d] EXCEPT !.aborted = TRUE]}
    <3>1. Waits(d, c)' => Waits(d, c)
      BY <1>0, <2>1 DEF Waits
    <3>2. active'[d].cmd = c /\ ~active'[d].aborted /\ c # NoCmd =>
            active[d].cmd = c /\ ~active[d].aborted
      BY <1>0, <2>1 DEF Effect
    <3> QED BY <3>1, <3>2 DEF MayRun
  <2>2. CASE /\ queued[d] # <<>> /\ lookup[d] = NoCmd /\ active'[d] = active[d]
             /\ lookup'[d] = Head(queued[d]) /\ queued'[d] = Tail(queued[d])
    <3>1. 1 \in DOMAIN queued[d] /\ lookup'[d] = queued[d][1]
      BY <1>0, <2>2
    <3>2. \A i \in DOMAIN queued'[d] :
            i + 1 \in DOMAIN queued[d] /\ queued'[d][i] = queued[d][i + 1]
      BY <1>0, <2>2
    <3>3. Waits(d, c)' => Waits(d, c)
      BY <3>1, <3>2 DEF Waits
    <3> QED BY <2>2, <3>3 DEF MayRun
  <2>3. CASE /\ queued'[d] = queued[d] /\ lookup[d] # NoCmd /\ lookup'[d] = NoCmd
             /\ active'[d] \in {active[d], [cmd |-> lookup[d], aborted |-> FALSE]}
    BY <1>0, <2>3 DEF Waits, MayRun
  <2> QED BY <1>2, <2>1, <2>2, <2>3 DEF Advanced
<1> QED BY <1>1, <1>2

\* The fences are lifted already, or about to be by a call that finds the lanes empty.
LEMMA LiftedStep ==
    ASSUME TypeOK, [Next]_vars, UNCHANGED <<stops, fence>>, Lifted'
    PROVE  \/ Lifted
           \/ \A d \in Round : \A c \in Command : ~Waits(d, c)' /\ ~MayRun(d, c)'
<1>1. ASSUME NEW o \in Halts, Lifting(o)', ~Lifting(o)
      PROVE  \A d \in Round : \A c \in Command : ~Waits(d, c)' /\ ~MayRun(d, c)'
  <2>1. \A d \in Round : queued'[d] = <<>> /\ lookup'[d] = NoCmd /\ active'[d] = Idle
    BY <1>1, CallSteady
  <2> QED BY <2>1 DEF Waits, MayRun, Idle
<1> QED BY <1>1 DEF Lifted, Fence

\* Steps that start nothing new.
LEMMA ReachFrame ==
    ASSUME FInv, [Next]_vars, UNCHANGED <<gen, stops, fence>>, halt'.id = halt.id,
           overtaken \subseteq overtaken', phase' # "terminated" => phase # "terminated",
           owner'["provider"] = owner["provider"],
           \A d \in Round : Advanced(d) \/ (Appended(d) /\ d = "compose" /\ owner["provider"] = NoCmd)
    PROVE  Reach'
<1> USE RoundFacts DEF FInv, Reach
<1>0. TypeOK
  BY DEF IInv
<1>1. \A d \in Round : \A c \in Command :
        (Waits(d, c)' => Waits(d, c) \/ c.gen = gen) /\ (MayRun("provider", c)' => MayRun("provider", c))
  BY <1>0, ReachMoves DEF NextCmd
<1>2. owner["provider"] # NoCmd => \A c \in Command : MayRun("compose", c)' => MayRun("compose", c)
  BY <1>0, ReachMoves
<1>3. EarlyIsOvertaken'
  BY <1>1 DEF EarlyIsOvertaken, Stopping, Fence
<1>4. CASE Lifted
  <2>1. LanesAreCurrent'
    BY <1>1, <1>4 DEF LanesAreCurrent
  <2>2. ProviderIsOwned'
    BY <1>1, <1>4 DEF ProviderIsOwned
  <2>3. ComposeIsOver'
    BY <1>2, <1>4 DEF ComposeIsOver
  <2> QED BY <1>3, <2>1, <2>2, <2>3
<1>5. CASE \A d \in Round : \A c \in Command : ~Waits(d, c)' /\ ~MayRun(d, c)'
  BY <1>3, <1>5 DEF LanesAreCurrent, ProviderIsOwned, ComposeIsOver
<1>6. CASE ~Lifted'
  BY <1>3, <1>6 DEF LanesAreCurrent, ProviderIsOwned, ComposeIsOver
<1> QED BY <1>0, <1>4, <1>5, <1>6, LiftedStep

\* A command that runs precedes every command that waits in its lane.
LEMMA RunsFirst ==
    ASSUME FInv, NEW d \in Round, NEW c \in Command, Waits(d, c)
    PROVE  active[d].cmd.id < c.id
<1> USE RoundFacts
<1>1. OrderAt(d)
  BY DEF FInv, Structure, InOrder
<1> QED BY <1>1 DEF Waits, OrderAt

\* The round passes on from compose to the provider.
LEMMA ComposeReach == ASSUME FInv, [Next]_vars, ComposeCompletes PROVE Reach'
<1> USE RoundFacts DEF Fence
<1>0. /\ TypeOK /\ owner \in [Executors -> Command] /\ active \in [Executors -> Effect]
      /\ NextCmd \in Command /\ NextCmd # NoCmd /\ NextCmd.gen = gen
  BY NextCmdType DEF FInv, IInv, TypeOK, NextCmd
<1>1. /\ UNCHANGED <<gen, halt, phase, stops, overtaken, fence, call, lookup>> /\ ~Stopping
      /\ active["compose"].cmd = owner["compose"] /\ ~active["compose"].aborted
      /\ active["compose"] # Idle
      /\ owner'["provider"] = NextCmd /\ active'["compose"] = Idle /\ queued'["compose"] = queued["compose"]
  BY <1>0, BarrierAssumption DEF ComposeCompletes, Accepts, Unfinished, Settled, Returned, Stopping
<1>2. owner["compose"] # NoCmd
  BY <1>0, <1>1 DEF Effect, Idle
<1>3. owner["provider"] = NoCmd
  BY <1>2 DEF FInv, Structure, OneOwner
<1>4. Lifted' => Lifted
  BY <1>1 DEF Lifted, Lifting
<1>5. \A d \in Round : \A c \in Command :
        /\ Waits(d, c)' => Waits(d, c) \/ c = NextCmd
        /\ MayRun(d, c)' => MayRun(d, c) \/ c = NextCmd
  BY <1>0, ReachMoves, LaneStep
<1>6. LanesAreCurrent'
  BY <1>0, <1>1, <1>4, <1>5 DEF FInv, Reach, LanesAreCurrent
<1>7. ProviderIsOwned'
  BY <1>1, <1>3, <1>4, <1>5 DEF FInv, Reach, ProviderIsOwned, MayRun, Waits
<1>8. \A c \in Command : ~MayRun("compose", c)'
  <2> SUFFICES ASSUME NEW c \in Command, MayRun("compose", c)' PROVE FALSE
    OBVIOUS
  <2>1. Waits("compose", c)
    BY <1>1 DEF MayRun, Waits, Idle
  <2>2. owner["compose"].id < c.id
    BY <1>1, <2>1, RunsFirst
  <2>3. c.id <= owner["compose"].id
    BY <1>2, <2>1 DEF FInv, Structure, OwnerIsNewest, Waits
  <2> QED BY <1>0, <2>2, <2>3 DEF Command
<1>9. ComposeIsOver' /\ EarlyIsOvertaken'
  BY <1>1, <1>8 DEF ComposeIsOver, EarlyIsOvertaken, Stopping
<1> QED BY <1>6, <1>7, <1>9 DEF Reach

\* The round ends with its provider.
LEMMA ProviderReach ==
    ASSUME FInv, [Next]_vars, EffectCompletes("provider") \/ RoundFails("provider")
    PROVE  Reach'
<1> USE RoundFacts DEF Fence
<1>0. TypeOK /\ owner \in [Executors -> Command] /\ active \in [Executors -> Effect]
  BY DEF FInv, IInv, TypeOK
<1>1. /\ UNCHANGED <<gen, halt, phase, stops, overtaken, fence, call, queued, lookup>> /\ ~Stopping
      /\ active["provider"].cmd = owner["provider"]
      /\ owner'["provider"] = NoCmd /\ active'["provider"] = Idle
  BY <1>0, BarrierAssumption
  DEF EffectCompletes, RoundFails, OpenDialog, Accepts, Settled, Returned, Stopping, lanes
<1>2. Lifted' => Lifted
  BY <1>1 DEF Lifted, Lifting
<1>3. LanesAreCurrent'
  BY <1>1, <1>2 DEF FInv, Reach, LanesAreCurrent, Waits
<1>4. ProviderIsOwned'
  <2> SUFFICES ASSUME Lifted, phase # "terminated", NEW c \in Command, MayRun("provider", c)'
               PROVE  c \in overtaken
    BY <1>1, <1>2 DEF ProviderIsOwned
  <2>1. Waits("provider", c)
    BY <1>1 DEF MayRun, Waits, Idle
  <2>2. c = owner["provider"] \/ c \in overtaken
    BY <2>1 DEF FInv, Reach, ProviderIsOwned, MayRun
  <2>3. owner["provider"].id < c.id
    BY <1>1, <2>1, RunsFirst
  <2> QED BY <1>0, <2>2, <2>3 DEF Command
<1>5. ComposeIsOver' /\ EarlyIsOvertaken'
  BY <1>1 DEF ComposeIsOver, EarlyIsOvertaken, Stopping
<1> QED BY <1>3, <1>4, <1>5 DEF Reach

\* Fences are lifted before their halt is complete by a call that missed a
\* deadline only.
LEMMA LiftedIsEarly ==
    ASSUME FInv, Lifted, Stopping PROVE Fence = NoHalt /\ halt.id \notin stops
<1>1. ASSUME NEW o \in Halts, Fence = o, Lifting(o) PROVE FALSE
  <2>1. halt.id # o /\ Fence \in {NoHalt, halt.id}
    BY <1>1 DEF FInv, Structure, SettledIsOver, HaltIsFenced, Lifting, Lifted
  <2> QED BY <1>1, <2>1, BarrierAssumption
<1> QED BY <1>1 DEF Lifted

\* The last receipt ends the round, behind its fences or after they were lifted.
LEMMA CompleteReach ==
    ASSUME FInv, [Next]_vars, NEW target, Stopping, Complete(target),
           UNCHANGED <<gen, queued, lookup, stops, overtaken, fence, active>>
    PROVE  Reach'
<1> USE RoundFacts DEF Fence
<1>0. TypeOK
  BY DEF FInv, IInv
<1>1. halt' = IdleHalt /\ owner'["provider"] = NoCmd /\ ~Stopping'
  BY DEF Complete, Stopping, IdleHalt
<1>2. \A d \in Round : \A c \in Command : (Waits(d, c)' <=> Waits(d, c)) /\ (MayRun(d, c)' <=> MayRun(d, c))
  BY DEF Waits, MayRun
<1>3. CASE Lifted
  <2>1. Fence = NoHalt /\ halt.id \notin stops
    BY <1>3, LiftedIsEarly
  <2>2. \A c \in Command : MayRun("provider", c) => c \in overtaken
    BY <2>1 DEF FInv, Reach, EarlyIsOvertaken
  <2>3. LanesAreCurrent'
    BY <1>2, <1>3 DEF FInv, Reach, LanesAreCurrent
  <2> QED BY <1>1, <1>2, <2>2, <2>3 DEF Reach, ProviderIsOwned, ComposeIsOver, EarlyIsOvertaken
<1>4. CASE \A d \in Round : \A c \in Command : ~Waits(d, c)' /\ ~MayRun(d, c)'
  BY <1>1, <1>4 DEF Reach, LanesAreCurrent, ProviderIsOwned, ComposeIsOver, EarlyIsOvertaken
<1>5. CASE ~Lifted'
  BY <1>1, <1>5 DEF Reach, LanesAreCurrent, ProviderIsOwned, ComposeIsOver, EarlyIsOvertaken
<1> QED BY <1>0, <1>3, <1>4, <1>5, LiftedStep

\* A terminate that closes the barrier overtakes what is behind lifted fences.
LEMMA EscalateReach ==
    ASSUME FInv, [Next]_vars, Stopping, Escalate, UNCHANGED <<lookup, fence, active>>
    PROVE  Reach'
<1> USE RoundFacts DEF Fence
<1>0. TypeOK
  BY DEF FInv, IInv
<1>1. halt' = IdleHalt /\ ~Stopping' /\ phase' = "terminated" /\ UNCHANGED <<queued, stops>>
  BY DEF Escalate, Complete, Stopping, IdleHalt
<1>2. LanesAreCurrent'
  <2>1. CASE Lifted
    <3>1. \A e \in Executors : fence[e] = NoHalt
      BY <2>1, LiftedIsEarly DEF FInv, Structure, OneFence
    <3>2. InLanes(Executors) \subseteq overtaken'
      BY <3>1 DEF Escalate, InLanes
    <3>3. \A d \in Round : \A c \in Command : Waits(d, c)' => Waits(d, c)
      BY <1>1 DEF Waits
    <3> QED BY <1>0, <3>2, <3>3, WaitsInLanes DEF LanesAreCurrent
  <2>2. CASE \A d \in Round : \A c \in Command : ~Waits(d, c)' /\ ~MayRun(d, c)'
    BY <2>2 DEF LanesAreCurrent
  <2> QED BY <1>0, <1>1, <2>1, <2>2, LiftedStep DEF LanesAreCurrent
<1> QED BY <1>1, <1>2 DEF Reach, ProviderIsOwned, ComposeIsOver, EarlyIsOvertaken

\* A rearm without a missed deadline finds its halt complete and the lanes
\* current; one after a missed deadline overtakes all they hold.
LEMMA RearmReach == ASSUME FInv, [Next]_vars, NEW h \in Halts, Rearm(h) PROVE Reach'
<1> USE RoundFacts, BarrierAssumption
<1>0. TypeOK /\ fence \in [Participants -> Halts \cup {NoHalt}] /\ active \in [Executors -> Effect]
      /\ OneFence
  BY DEF FInv, Structure, IInv, TypeOK
<1>1. /\ UNCHANGED <<gen, phase, halt, owner, issued, queued, lookup, stops, active>>
      /\ call[h].at = "rearming"
  BY DEF Rearm, kernel
<1>2. \A d \in Round : Advanced(d)
  BY <1>1 DEF Advanced
<1>3. overtaken \subseteq overtaken'
  BY DEF Rearm, OvertakenBy
<1>4. CASE UNCHANGED fence
  BY <1>1, <1>2, <1>3, <1>4, ReachFrame
<1>5. CASE fence' # fence
  <2>1. fence' = Rearmed(h) /\ overtaken' = OvertakenBy(h)
    BY <1>5 DEF Rearm
  <2>2. Fence = h
    <3>1. ASSUME fence["compose"] # h PROVE FALSE
      <4>1. \A p \in Participants : fence[p] # h
        BY <1>0, <3>1 DEF OneFence
      <4> QED BY <1>0, <1>5, <2>1, <4>1 DEF Rearmed
    <3> QED BY <3>1 DEF Fence
  <2>3. \A d \in Executors : fence[d] = h
    BY <1>0, <2>2 DEF OneFence, Fence
  <2>4. \A d \in Round : \A c \in Command : MayRun(d, c)' => Waits(d, c)
    <3>1. \A d \in Round : active[d] = Idle \/ active[d].aborted
      BY <2>3 DEF FInv, Structure, FencedIsStopped
    <3> QED BY <1>1, <3>1 DEF MayRun, Waits, Idle
  <2>5. CASE call[h].early
    <3>1. InLanes(Executors) \subseteq overtaken'
      BY <2>1, <2>5 DEF OvertakenBy
    <3>2. \A d \in Round : \A c \in Command : Waits(d, c) => c \in overtaken'
      BY <1>0, <3>1, WaitsInLanes
    <3>3. \A d \in Round : \A c \in Command : Waits(d, c)' => Waits(d, c)
      BY <1>1 DEF Waits
    <3> QED
      BY <2>4, <3>2, <3>3 DEF Reach, LanesAreCurrent, ProviderIsOwned, ComposeIsOver, EarlyIsOvertaken
  <2>6. CASE ~call[h].early
    <3>1. Lifting(h) /\ overtaken' = overtaken
      BY <1>1, <2>1, <2>6 DEF Lifting, OvertakenBy
    <3>2. Lifted' => Lifted
      BY <1>1, <2>2, <3>1 DEF Lifted
    <3>3. \A d \in Round : \A c \in Command :
            (Waits(d, c)' <=> Waits(d, c)) /\ (MayRun(d, c)' <=> MayRun(d, c))
      BY <1>1 DEF Waits, MayRun
    <3>4. Stopping => halt.id \in stops
      BY <1>1, <2>2, <2>6 DEF FInv, Structure, HaltIsFenced, SettledIsOver
    <3>5. EarlyIsOvertaken'
      BY <1>1, <3>4 DEF EarlyIsOvertaken, Stopping
    <3> QED
      BY <1>1, <3>1, <3>2, <3>3, <3>5
      DEF FInv, Reach, LanesAreCurrent, ProviderIsOwned, ComposeIsOver
  <2> QED BY <2>5, <2>6
<1> QED BY <1>4, <1>5

LEMMA ReachStep == ASSUME FInv, [Next]_vars PROVE Reach'
<1> USE RoundFacts, BarrierAssumption
<1>0. TypeOK /\ owner \in [Executors -> Command]
  BY DEF FInv, IInv, TypeOK
<1>a. \A d \in Round : Appended(d) \/ Advanced(d)
  BY <1>0, LaneStep
<1>b. ASSUME UNCHANGED <<gen, stops, fence, overtaken, phase, issued>>, halt'.id = halt.id,
             owner'["provider"] = owner["provider"]
      PROVE  Reach'
  <2>1. \A d \in Round : Advanced(d)
    BY <1>0, <1>a, <1>b DEF Appended, TypeOK
  <2> QED BY <1>b, <2>1, ReachFrame
<1>1. CASE Submit
  <2>1. /\ UNCHANGED <<gen, stops, fence, overtaken, halt>> /\ phase # "terminated"
        /\ owner'["provider"] = owner["provider"] /\ owner["provider"] = NoCmd
    BY <1>0, <1>1 DEF Submit, HasActiveRound
  <2>2. Advanced("provider")
    BY <1>0, <1>1 DEF Submit, Advanced
  <2> QED BY <1>a, <2>1, <2>2, ReachFrame
<1>2. CASE ComposeCompletes
  BY <1>2, ComposeReach
<1>3. ASSUME NEW e \in Executors, LookUp(e) \/ Dispatch(e) \/ EffectReturns(e) PROVE Reach'
  BY <1>b, <1>3 DEF LookUp, Dispatch, EffectReturns, kernel, lanes
<1>4. ASSUME NEW e \in Executors, EffectCompletes(e) PROVE Reach'
  <2>1. CASE e = "provider"
    BY <1>4, <2>1, ProviderReach
  <2>2. CASE e # "provider"
    BY <1>0, <1>b, <1>4, <2>2 DEF EffectCompletes, Settled, lanes
  <2> QED BY <2>1, <2>2
<1>5. ASSUME NEW e \in Executors, RoundFails(e) PROVE Reach'
  <2>1. CASE e = "provider"
    BY <1>5, <2>1, ProviderReach
  <2>2. CASE e = "compose"
    <3>1. /\ UNCHANGED <<gen, stops, fence, overtaken, phase, halt>>
          /\ owner'["provider"] = owner["provider"]
      BY <1>0, <1>5, <2>2 DEF RoundFails, OpenDialog, Settled, lanes
    <3>2. \A d \in Round : Advanced(d)
      BY <1>0, <1>5, <2>2 DEF RoundFails, OpenDialog, Settled, Returned, lanes, Advanced, TypeOK
    <3> QED BY <3>1, <3>2, ReachFrame
  <2> QED BY <1>5, <2>1, <2>2 DEF RoundFails, Round
<1>6. ASSUME NEW h \in Halts, NEW target, StartHalt(h, target), UNCHANGED fence PROVE Reach'
  <2>1. h \in stops' /\ halt'.id = h
    BY <1>6 DEF StartHalt
  <2> QED
    BY <2>1 DEF Reach, Lifted, LanesAreCurrent, ProviderIsOwned, ComposeIsOver, EarlyIsOvertaken
<1>7. ASSUME NEW h \in Halts, Cancel(h) \/ Terminate(h) PROVE Reach'
  BY <1>6, <1>7, EscalateReach DEF Cancel, Terminate
<1>8. ASSUME NEW h \in Halts, TerminateStopped(h) PROVE Reach'
  BY <1>b, <1>8, EscalateReach DEF TerminateStopped
<1>9. ASSUME NEW h \in Halts, DispatchStop(h) PROVE Reach'
  <2>1. Fence' = h /\ call'[h].at = "stopping"
    BY <1>9 DEF DispatchStop, Fence, FInv, Structure, StopsAreCalled
  <2>2. ~Lifted'
    BY <2>1 DEF Lifted, Lifting
  <2>3. Fence' # NoHalt
    BY <2>1
  <2> QED
    BY <2>2, <2>3 DEF Reach, LanesAreCurrent, ProviderIsOwned, ComposeIsOver, EarlyIsOvertaken
<1>10. ASSUME NEW h \in Halts, Rearm(h) PROVE Reach'
  BY <1>10, RearmReach
<1>11. ASSUME NEW h \in Halts, NEW p \in Participants, Receipt(h, p),
              UNCHANGED <<gen, issued, queued, lookup, stops, overtaken, fence, active>>
       PROVE  Reach'
  <2>1. CASE halt.pending = {p}
    BY <1>11, <2>1, CompleteReach DEF Receipt, Stopping
  <2>2. CASE halt.pending # {p}
    BY <1>0, <1>b, <1>11, <2>2 DEF Receipt, TypeOK
  <2> QED BY <2>1, <2>2
<1>12. ASSUME NEW h \in Halts, NEW p \in Participants,
              Acknowledge(h, p) \/ TimeOut(h, p) \/ ReportLate(h, p)
       PROVE  Reach'
  <2>1. UNCHANGED <<gen, issued, queued, lookup, stops, overtaken, fence, active>>
    BY <1>12 DEF Acknowledge, TimeOut, ReportLate, kernel, lanes
  <2>2. CASE Receipt(h, p)
    BY <1>11, <2>1, <2>2
  <2>3. CASE UNCHANGED <<phase, halt, owner>>
    BY <1>b, <2>1, <2>3
  <2> QED BY <1>12, <2>2, <2>3 DEF Acknowledge, TimeOut, ReportLate, kernel
<1>13. ASSUME NEW h \in Halts, Offer(h) PROVE Reach'
  <2>1. /\ UNCHANGED <<gen, stops, fence, overtaken, phase, halt>>
        /\ owner'["provider"] = owner["provider"]
    BY <1>0, <1>13 DEF Offer, OpenDialog, lanes
  <2>2. \A d \in Round : Advanced(d)
    BY <1>0, <1>13 DEF Offer, OpenDialog, Run, lanes, Advanced, TypeOK
  <2> QED BY <2>1, <2>2, ReachFrame
<1>14. ASSUME NEW h \in Halts, StopThrows(h) \/ StopReturns(h) \/ BecomesQuiet(h) \/ CancelStopped(h)
       PROVE  Reach'
  BY <1>b, <1>14 DEF StopThrows, StopReturns, BecomesQuiet, CancelStopped, kernel, lanes
<1>15. CASE UNCHANGED vars
  BY <1>b, <1>15 DEF vars, kernel, lanes
<1> QED
  BY <1>1, <1>2, <1>3, <1>4, <1>5, <1>7, <1>8, <1>9, <1>10, <1>12, <1>13, <1>14, <1>15 DEF Next

-------------------------------------------------------------------------------
(* What holds of the rounds.                                               *)

\* The rounds, their owners, lanes and fences agree in every state, whichever
\* participants miss the deadline.
THEOREM RoundsHold == Spec => []FInv
<1>1. ASSUME FInv, [Next]_vars PROVE FInv'
  <2>1. IInv'
    BY <1>1, TypeStep, BarrierStep DEF FInv, IInv
  <2>2. Structure'
    BY <1>1, FenceStep, HaltStep, OwnerStep, OrderStep DEF Structure
  <2> QED BY <1>1, <2>1, <2>2, ReachStep DEF FInv
<1>2. FInv /\ [Next]_vars => FInv'
  BY <1>1
<1> QED BY RoundsInit, <1>2, PTL DEF Spec

\* No two requests overlap, whatever stops, resumes, submissions and missed
\* deadlines interleave, unless a rearm overtook the older of them.
THEOREM OneRoundAtATime == Spec => []OneRoundRuns
<1>1. ASSUME FInv PROVE OneRoundRuns
  <2> SUFFICES ASSUME ~Stopping, phase # "terminated",
                      Unfinished("compose"), Unfinished("provider")
               PROVE  \E d \in Round : active[d].cmd \in overtaken
    BY DEF OneRoundRuns
  <2> USE RoundFacts
  <2>0. TypeOK /\ active \in [Executors -> Effect]
    BY <1>1 DEF FInv, IInv, TypeOK
  <2>1. Fence = NoHalt
    BY <1>1 DEF FInv, Structure, FencedIsStopped, Unfinished, Fence
  <2>2. stops = {}
    BY <1>1, <2>0, BarrierAssumption DEF FInv, IInv, Barrier, StopIsCurrent, Stopping, TypeOK
  <2>3. Lifted
    BY <2>1, <2>2 DEF Lifted
  <2>4. \A d \in Round : active[d].cmd \in Command /\ active[d].cmd # NoCmd
    BY <2>0 DEF Effect, Idle, Unfinished
  <2>5. \A d \in Round : MayRun(d, active[d].cmd)
    BY <2>4 DEF MayRun, Unfinished
  <2>6. active["provider"].cmd = owner["provider"] \/ active["provider"].cmd \in overtaken
    BY <1>1, <2>3, <2>4, <2>5 DEF FInv, Reach, ProviderIsOwned
  <2>7. owner["provider"] # NoCmd => active["compose"].cmd \in overtaken
    BY <1>1, <2>3, <2>4, <2>5 DEF FInv, Reach, ComposeIsOver
  <2> QED BY <2>4, <2>6, <2>7
<1>2. FInv => OneRoundRuns
  BY <1>1
<1> QED BY RoundsHold, <1>2, PTL

\* A command older than a stop never starts once the stop was dispatched, unless
\* a call that missed a deadline overtook it.
THEOREM StartsAreCurrent == Spec => StartsCurrent
<1>1. ASSUME FInv, [Next]_vars, stops = {}, NEW d \in Executors, Starts(d)
      PROVE  active'[d].cmd.gen = gen \/ active'[d].cmd \in overtaken
  <2>0. TypeOK /\ NextCmd.gen = gen /\ active \in [Executors -> Effect]
    BY <1>1 DEF FInv, IInv, NextCmd, TypeOK
  <2>1. ASSUME NEW e \in Executors, Dispatch(e)
        PROVE  active'[d].cmd.gen = gen \/ active'[d].cmd \in overtaken
    <3>1. e \in Round /\ lookup[e] # NoCmd /\ lookup[e] \in Command
      BY <1>1, <2>0, <2>1, RoundFacts DEF Dispatch, FInv, Structure, DialogHasNoLane, TypeOK
    <3>2. d = e /\ fence[e] = NoHalt /\ active'[d].cmd = lookup[e]
      BY <1>1, <2>0, <2>1 DEF Dispatch, Run, Starts
    <3>3. Lifted
      BY <1>1, <3>1, <3>2, RoundFacts DEF FInv, Structure, OneFence, Fence, Lifted
    <3>4. Waits(e, lookup[e])
      BY <3>1 DEF Waits
    <3> QED BY <1>1, <3>1, <3>2, <3>3, <3>4 DEF FInv, Reach, LanesAreCurrent
  <2>2. CASE ComposeCompletes \/ \E e \in Executors : EffectCompletes(e) \/ EffectReturns(e)
    BY <1>1, <2>0, <2>2
    DEF ComposeCompletes, EffectCompletes, EffectReturns, Returned, Starts, Idle
  <2>3. ASSUME NEW e \in Executors, RoundFails(e) PROVE active'[d].cmd.gen = gen
    BY <1>1, <2>0, <2>3 DEF RoundFails, Returned, Starts, Idle
  <2>4. ASSUME NEW h \in Halts, Offer(h) PROVE active'[d].cmd.gen = gen
    BY <1>1, <2>0, <2>4 DEF Offer, Run, Starts
  <2>5. ASSUME NEW h \in Halts, DispatchStop(h) PROVE FALSE
    BY <1>1, <2>5 DEF DispatchStop
  <2>6. CASE UNCHANGED active
    BY <1>1, <2>6 DEF Starts
  <2> QED
    BY <1>1, <2>1, <2>2, <2>3, <2>4, <2>5, <2>6
    DEF Next, vars, Submit, LookUp, Cancel, Terminate, StopThrows, StopReturns, BecomesQuiet,
        CancelStopped, TerminateStopped, Rearm, Acknowledge, TimeOut, ReportLate
<1>2. FInv /\ [Next]_vars =>
        [stops = {} => \A d \in Executors :
           Starts(d) => active'[d].cmd.gen = gen \/ active'[d].cmd \in overtaken]_vars
  BY <1>1
<1> QED BY RoundsHold, <1>2, PTL DEF Spec, StartsCurrent

===============================================================================
