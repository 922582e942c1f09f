------------------------- MODULE BackgroundDelivery -------------------------
(* How the result of background work reaches the conversation.             *)
(*                                                                         *)
(* A producer (a background command, a background subagent) publishes its  *)
(* settled result once.  The ingress owner stages it in a durable ledger,  *)
(* reserves room for it in the context budget, submits it to the kernel's  *)
(* background box, waits until the snapshot that holds it is on disk, and  *)
(* acknowledges it in the ledger.  A result that finds no room waits in    *)
(* the ledger; a landed compaction or the next opening of the task starts  *)
(* a release, which delivers what waits, one result at a time.  Producers, *)
(* releases, rounds, halts and crashes interleave at every await.          *)
(*                                                                         *)
(* Room is counted in units; a result cut to the room left has the size it *)
(* was cut to, which stands for the payload reference of the cut text.     *)
(* The ledger and the box of the saved snapshot survive a crash.           *)
EXTENDS Integers, FiniteSets, Sequences, SequencesExt, FiniteSetsExt

CONSTANTS Results,     \* results, numbered
          Size,        \* units each result takes
          Window,      \* units of room above the yield floor
          BoxLimit,    \* entries the background box admits
          MaxFaults    \* bound on crashes and failed payload writes

ASSUME ResultsAssumption == Results \subseteq Nat \ {0}
ASSUME SizeAssumption == Size \in [Results -> Nat \ {0}]
ASSUME BoundsAssumption ==
    /\ Window \in Nat \ {0}
    /\ BoxLimit \in Nat
    /\ MaxFaults \in Nat

VARIABLES records,     \* the ledger's rows, in the order they were inserted
          acked,       \* rows marked acknowledged
          phase,       \* where each deliverer stands, between two awaits
          got,         \* room each deliverer has reserved
          list,        \* what the running release has still to look at
          item,        \* what the running release is delivering
          due,         \* a release waits for its turn
          box,         \* the kernel's background box
          saved,       \* the background box of the snapshot on disk
          occupied,    \* room the context indicator counts as taken
          staged,      \* room taken since the indicator last counted
          checkpoint,  \* the part of staged the round being composed carries
          round,       \* the stage of the current round
          fenced,      \* background ingress is fenced by a halt
          faults

ledgerVars == <<records, acked>>
ownerVars  == <<phase, got, list, item, due>>
budgetVars == <<occupied, staged, checkpoint>>
vars == <<ledgerVars, ownerVars, box, saved, budgetVars, round, fenced, faults>>

\* A result is delivered by its producer's call or by a release.
Release    == 0
Deliverers == Results \cup {Release}
NoResult   == 0

EntryStates == {"none", "accepted", "reserved", "included", "consumed", "released", "uncertain"}
NoEntry     == [st |-> "none", size |-> 0]

Max0(n) == IF n > 0 THEN n ELSE 0
Least(a, b) == IF a < b THEN a ELSE b

\* The result deliverer d is working on.
ItemOf(d) == IF d = Release THEN item ELSE d

\* Mutant: the owner forgets which results producers are publishing.
ActiveForgotten(r) == FALSE
Active(r) == phase[r] # "idle"

\* The rows not acknowledged.
Pending == Range(records) \ acked

\* Row q was staged before row r.
Before(q, r) == \E i, k \in DOMAIN records : i < k /\ records[i] = q /\ records[k] = r

Room == Window - occupied - staged

\* An entry keeps its place in the box until it is consumed.
ActiveCount == Cardinality({r \in Results : box[r].st \notin {"none", "consumed"}})

-----------------------------------------------------------------------------
(* The deliverer's steps, shared by a producer's call and a release.       *)

\* Reserve what fits of r, and start writing its payload.
Fit(d, r) ==
    LET granted == Least(Size[r], Room)
    IN  /\ got' = [got EXCEPT ![d] = granted]
        /\ staged' = staged + granted
        /\ phase' = [phase EXCEPT ![d] = "putting"]

\* A release that fails ends there; a producer's call rejects.
Ended(d) == phase' = [phase EXCEPT ![d] = "idle"]

\* A release that ends leaves what it has not looked at.
Dropped(d) == /\ list' = IF d = Release THEN {} ELSE list
              /\ item' = IF d = Release THEN NoResult ELSE item

\* Mutant: a release that fails keeps every later one from running.
FailDeliveryBreaking(d) ==
    /\ staged' = Max0(staged - got[d])
    /\ got' = [got EXCEPT ![d] = 0]
    /\ phase' = [phase EXCEPT ![d] = IF d = Release THEN "broken" ELSE "idle"]
    /\ Dropped(d)

\* The delivery failed: the room goes back and the record stays pending.
FailDelivery(d) ==
    /\ staged' = Max0(staged - got[d])
    /\ got' = [got EXCEPT ![d] = 0]
    /\ Ended(d)
    /\ Dropped(d)

PutFails(d) ==
    /\ phase[d] = "putting" /\ faults < MaxFaults
    /\ FailDelivery(d)
    /\ faults' = faults + 1
    /\ UNCHANGED <<ledgerVars, due, box, saved, occupied, checkpoint, round, fenced>>

\* A fenced ingress, a full box and a box that holds the entry under another
\* payload all refuse the submission.
Refused(d) ==
    LET r == ItemOf(d)
    IN  \/ fenced
        \/ box[r].st = "none" /\ ActiveCount >= BoxLimit
        \/ box[r].st # "none" /\ box[r].size # got[d]

SubmitRefused(d) ==
    /\ phase[d] = "putting" /\ Refused(d)
    /\ FailDelivery(d)
    /\ UNCHANGED <<ledgerVars, due, box, saved, occupied, checkpoint, round, fenced,
                   faults>>

\* Mutant: the deliverer does not wait for the snapshot.
SubmitAcceptedUnsaved(d) ==
    LET r == ItemOf(d)
    IN  /\ phase[d] = "putting" /\ ~Refused(d) /\ box[r].st = "none"
        /\ box' = [box EXCEPT ![r] = [st |-> "accepted", size |-> got[d]]]
        /\ phase' = [phase EXCEPT ![d] = "acking"]
        /\ UNCHANGED <<ledgerVars, got, list, item, due, saved, budgetVars, round, fenced, faults>>

\* The kernel takes the entry; the deliverer waits for the snapshot.
SubmitAccepted(d) ==
    LET r == ItemOf(d)
    IN  /\ phase[d] = "putting" /\ ~Refused(d) /\ box[r].st = "none"
        /\ box' = [box EXCEPT ![r] = [st |-> "accepted", size |-> got[d]]]
        /\ phase' = [phase EXCEPT ![d] = "saving"]
        /\ UNCHANGED <<ledgerVars, got, list, item, due, saved, budgetVars, round, fenced,
                       faults>>

\* The kernel already holds the entry under the same payload.
SubmitDuplicate(d) ==
    /\ phase[d] = "putting" /\ ~Refused(d) /\ box[ItemOf(d)].st # "none"
    /\ phase' = [phase EXCEPT ![d] = "acking"]
    /\ UNCHANGED <<ledgerVars, got, list, item, due, box, saved, budgetVars, round, fenced,
                   faults>>

\* The ledger row is acknowledged; a release goes on to the next result.
Acknowledge(d) ==
    /\ phase[d] = "acking"
    /\ acked' = acked \cup {ItemOf(d)}
    /\ got' = [got EXCEPT ![d] = 0]
    /\ IF d = Release
       THEN /\ item' = NoResult
            /\ phase' = [phase EXCEPT ![d] = "next"]
       ELSE /\ Ended(d)
            /\ UNCHANGED item
    /\ UNCHANGED <<records, list, due, box, saved, budgetVars, round, fenced, faults>>

Deliver(d) == SubmitRefused(d) \/ SubmitAccepted(d) \/ SubmitDuplicate(d) \/ Acknowledge(d)

-----------------------------------------------------------------------------
(* A producer's call.                                                      *)

\* The row is inserted; without room the producer lets go of the result.
Publish(r) ==
    /\ r \notin Range(records)
    /\ records' = Append(records, r)
    /\ IF Room > 0
       THEN Fit(r, r)
       ELSE UNCHANGED <<phase, got, staged>>
    /\ UNCHANGED <<acked, list, item, due, box, saved, occupied, checkpoint, round, fenced,
                   faults>>

-----------------------------------------------------------------------------
(* A release.  Two triggers never run at once: each waits for the last.    *)
(* One waiting release stands for all that wait: they would run one after  *)
(* another, and a trigger may come again as soon as the first has started. *)

StartRelease ==
    /\ due /\ phase[Release] = "idle"
    /\ due' = FALSE
    /\ list' = Pending
    /\ phase' = [phase EXCEPT ![Release] = "next"]
    /\ UNCHANGED <<ledgerVars, got, item, box, saved, budgetVars, round, fenced,
                   faults>>

\* The release goes through its list in the order of the ledger: it passes
\* over a result its producer is publishing, ends at the first one that finds
\* no room, and delivers any other.
NextHeld ==
    /\ phase[Release] = "next"
    /\ \/ /\ list = {}
          /\ Ended(Release)
          /\ UNCHANGED <<got, staged, list, item>>
       \/ \E r \in list :
             /\ \A q \in list : ~Before(q, r)
             /\ \/ /\ Active(r)
                   /\ list' = list \ {r}
                   /\ UNCHANGED <<phase, got, staged, item>>
                \/ /\ ~Active(r) /\ Room <= 0
                   /\ Ended(Release)
                   /\ Dropped(Release)
                   /\ UNCHANGED <<got, staged>>
                \/ /\ ~Active(r) /\ Room > 0
                   /\ Fit(Release, r)
                   /\ list' = list \ {r}
                   /\ item' = r
    /\ UNCHANGED <<ledgerVars, due, box, saved, occupied, checkpoint, round,
                   fenced, faults>>

-----------------------------------------------------------------------------
(* The kernel: its snapshot, its rounds, a halt.                           *)

\* The snapshot on disk becomes the kernel's state, and every submission that
\* waited for it goes on.
Save ==
    /\ \/ box # saved
       \/ \E d \in Deliverers : phase[d] = "saving"
    /\ saved' = box
    /\ phase' = [d \in Deliverers |-> IF phase[d] = "saving" THEN "acking" ELSE phase[d]]
    /\ UNCHANGED <<ledgerVars, got, list, item, due, box, budgetVars, round, fenced,
                   faults>>

\* The box with every entry in a state of from moved to state to.
Moved(from, to) ==
    [r \in Results |-> IF box[r].st \in from THEN [box[r] EXCEPT !.st = to] ELSE box[r]]

\* A round opens and takes every accepted entry.
OpenRound ==
    /\ round = "none" /\ ~fenced
    /\ round' = "opened"
    /\ box' = Moved({"accepted"}, "reserved")
    /\ UNCHANGED <<ledgerVars, ownerVars, saved, budgetVars, fenced, faults>>

\* Compose starts when the snapshot that asks for it is on disk and reaches
\* the compaction barrier: what is staged by then is the round's.
ReachBarrier ==
    /\ round = "opened" /\ box = saved
    /\ round' = "barred"
    /\ checkpoint' = staged
    /\ UNCHANGED <<ledgerVars, ownerVars, box, saved, occupied, staged, fenced, faults>>

\* The indicator counts what the checkpoint marked.
RetireCheckpoint ==
    /\ staged' = Max0(staged - checkpoint)
    /\ checkpoint' = 0

SizeOfAll(S) == MapThenSumSet(LAMBDA r : box[r].size, S)

\* The round is drafted with the entries it took and its request opens: the
\* indicator shows the conversation the request carries.
OpenRequest ==
    /\ round = "barred"
    /\ round' = "sent"
    /\ box' = Moved({"reserved"}, "included")
    /\ occupied' = Least(Window, occupied + SizeOfAll({r \in Results : box[r].st = "reserved"}))
    /\ RetireCheckpoint
    /\ UNCHANGED <<ledgerVars, ownerVars, saved, fenced, faults>>

TurnReady ==
    /\ round = "sent" /\ box = saved
    /\ round' = "none"
    /\ box' = Moved({"included"}, "consumed")
    /\ UNCHANGED <<ledgerVars, ownerVars, saved, budgetVars, fenced, faults>>

\* The user cancels, or the round is withdrawn or fails: what it took is
\* given up.  A cancel fences the ingress until the halt has settled.
GiveUpRound(halting) ==
    /\ round # "none" \/ halting
    /\ ~fenced
    /\ round' = "none"
    /\ fenced' = halting
    /\ box' = Moved({"reserved", "included"}, "released")
    /\ UNCHANGED <<ledgerVars, ownerVars, saved, budgetVars, faults>>

Rearm ==
    /\ fenced
    /\ fenced' = FALSE
    /\ UNCHANGED <<ledgerVars, ownerVars, box, saved, budgetVars, round, faults>>

\* A compaction lands, at a round's barrier or while no round runs: a summary
\* replaces the conversation and what waited for room is released.
CompactionLands ==
    /\ round \in {"none", "barred"}
    /\ occupied' = 0
    /\ RetireCheckpoint
    /\ due' = TRUE
    /\ UNCHANGED <<ledgerVars, phase, got, list, item, box, saved, round, fenced,
                   faults>>

\* The process dies and the task is opened again: every call and reservation
\* is gone, hydration leaves an entry without evidence uncertain, and the
\* activation releases what the ledger still holds.
Reopen ==
    /\ faults < MaxFaults
    /\ faults' = faults + 1
    /\ box' = [r \in Results |-> IF saved[r].st \in {"reserved", "included"}
                                 THEN [saved[r] EXCEPT !.st = "uncertain"] ELSE saved[r]]
    /\ phase' = [d \in Deliverers |-> "idle"]
    /\ got' = [d \in Deliverers |-> 0]
    /\ list' = {} /\ item' = NoResult
    /\ due' = TRUE
    /\ staged' = 0
    /\ checkpoint' = 0
    /\ round' = "none"
    /\ fenced' = FALSE
    /\ UNCHANGED <<ledgerVars, saved, occupied>>

-----------------------------------------------------------------------------
Init ==
    /\ records = <<>> /\ acked = {}
    /\ phase = [d \in Deliverers |-> "idle"]
    /\ got = [d \in Deliverers |-> 0]
    /\ list = {} /\ item = NoResult
    /\ due = FALSE
    /\ box = [r \in Results |-> NoEntry]
    /\ saved = box
    /\ occupied \in {0, Window}
    /\ staged = 0 /\ checkpoint = 0
    /\ round = "none"
    /\ fenced = FALSE
    /\ faults = 0

Next ==
    \/ \E d \in Deliverers : Deliver(d) \/ PutFails(d)
    \/ \E r \in Results : Publish(r)
    \/ StartRelease \/ NextHeld
    \/ Save
    \/ OpenRound \/ ReachBarrier \/ OpenRequest \/ TurnReady
    \/ \E halting \in BOOLEAN : GiveUpRound(halting)
    \/ Rearm \/ CompactionLands \/ Reopen

Spec == Init /\ [][Next]_vars

\* Awaits settle: the ledger, the payload store and the snapshot writer
\* answer, and a halt ends.
Fairness ==
    /\ \A d \in Deliverers : WF_vars(Deliver(d))
    /\ WF_vars(StartRelease) /\ WF_vars(NextHeld)
    /\ WF_vars(Save) /\ WF_vars(Rearm)

FairSpec == Spec /\ Fairness

-----------------------------------------------------------------------------
(* Properties.                                                             *)

\* A result the ledger has acknowledged is in the box of the snapshot on
\* disk: whenever the process dies, either the ledger or the kernel still
\* holds every staged result.
AckedIsHeld == \A r \in acked : saved[r].st # "none"

\* No result is being handed to the kernel by its producer and by a release
\* at the same time, although either may start while the other is between
\* two of its awaits.
Handing(d) == phase[d] \in {"putting", "saving", "acking"}
OneSubmitter ==
    \A d, e \in Deliverers : d # e /\ Handing(d) /\ Handing(e) => ItemOf(d) # ItemOf(e)

\* What a waiting result can be held up by for good: a box filled by entries
\* that were given up, and an entry that was submitted before a crash under
\* another cut, at which every later release fails.
BoxIsStuck ==
    Cardinality({r \in Results : box[r].st \in {"released", "uncertain"}}) = BoxLimit
CutIsForeign == \E r \in Pending : box[r].st # "none"

\* Every result the ledger holds reaches the conversation's box in the end,
\* as long as releases keep being triggered (each trigger but the one of an
\* opening is a landed compaction), turns keep completing and halts end,
\* unless one of the two obstacles above stays.
Delivered(r) == box[r].st # "none"
HeldIsDelivered ==
    (/\ []<>due /\ []<><<TurnReady>>_vars /\ <>[]~fenced
     /\ []<>~BoxIsStuck /\ []<>~CutIsForeign)
        => <>[](\A r \in Range(records) : Delivered(r))

=============================================================================
