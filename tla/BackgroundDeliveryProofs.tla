----------------------- MODULE BackgroundDeliveryProofs -----------------------
(* Proofs about the delivery of background results, for any results, any   *)
(* amount of room and any number of crashes: a result is held by the ledger *)
(* or by the snapshot on disk, and nobody hands over what another hands     *)
(* over.  The amounts of room play no part in either.                       *)
EXTENDS BackgroundDelivery, SequenceTheorems, TLAPS

\* An entry of the box, whatever its size.
IsEntry(e) == "st" \in DOMAIN e /\ e.st \in EntryStates

Kinds ==
    /\ records \in Seq(Results)
    /\ acked \subseteq Results
    /\ phase \in [Deliverers -> {"idle", "putting", "saving", "acking", "next"}]
    /\ \A r \in Results : phase[r] # "next"
    /\ DOMAIN box = Results /\ DOMAIN saved = Results
    /\ \A r \in Results : IsEntry(box[r]) /\ IsEntry(saved[r])

In(b, r) == b[r].st # "none"

\* A release works on rows of the ledger, and delivers one that no producer is
\* publishing.
ReleaseIsAlone ==
    /\ list \subseteq Range(records)
    /\ Handing(Release) => item \in Range(records) /\ phase[item] = "idle"

\* A producer publishes a row of the ledger.
ProducersAreStaged == \A r \in Results : phase[r] # "idle" => r \in Range(records)

\* What is on disk is in the kernel's box; what is in the box and not on disk
\* has a deliverer that waits for the snapshot.
BoxRunsAhead ==
    \A r \in Results :
        /\ In(saved, r) => In(box, r)
        /\ In(box, r) /\ ~In(saved, r) =>
              \E d \in Deliverers : phase[d] = "saving" /\ ItemOf(d) = r

\* A deliverer that acknowledges has its result on disk, one that waits for
\* the snapshot has it in the box.
DeliverersAreReady ==
    \A d \in Deliverers :
        /\ phase[d] = "acking" => In(saved, ItemOf(d))
        /\ phase[d] = "saving" => In(box, ItemOf(d))

IInv ==
    /\ Kinds /\ ReleaseIsAlone /\ ProducersAreStaged /\ BoxRunsAhead /\ DeliverersAreReady
    /\ AckedIsHeld

LEMMA RowsAreResults == ASSUME Kinds PROVE Range(records) \subseteq Results
BY RangeOfSeq DEF Kinds

LEMMA ReleaseIsNoResult ==
    Release \notin Results /\ Release \in Deliverers /\ Results \subseteq Deliverers
BY ResultsAssumption DEF Release, Deliverers

\* Whoever hands a result over hands over a result.
LEMMA ItemsAreResults ==
    ASSUME Kinds, ReleaseIsAlone, NEW d \in Deliverers, Handing(d)
    PROVE  ItemOf(d) \in Results
BY RowsAreResults, ReleaseIsNoResult DEF ReleaseIsAlone, ItemOf, Deliverers

\* Two that hand over have different results in hand.
LEMMA Apart == ASSUME Kinds, ReleaseIsAlone PROVE OneSubmitter
<1> SUFFICES ASSUME NEW d \in Deliverers, NEW e \in Deliverers, d # e, Handing(d), Handing(e)
             PROVE  ItemOf(d) # ItemOf(e)
  BY DEF OneSubmitter
<1>1. CASE d # Release /\ e # Release
  BY <1>1 DEF ItemOf
<1>2. CASE d = Release
  <2>1. phase[item] = "idle" /\ ItemOf(e) = e
    BY <1>2 DEF ReleaseIsAlone, ItemOf
  <2> QED BY <1>2, <2>1 DEF ItemOf, Handing
<1>3. CASE e = Release
  <2>1. phase[item] = "idle" /\ ItemOf(d) = d
    BY <1>3 DEF ReleaseIsAlone, ItemOf
  <2> QED BY <1>3, <2>1 DEF ItemOf, Handing
<1> QED BY <1>1, <1>2, <1>3

-------------------------------------------------------------------------------
\* The kernel's own steps move entries of its box from state to state.
LEMMA KernelKeeps ==
    ASSUME IInv, UNCHANGED <<records, acked, phase, list, item, saved>>,
           DOMAIN box' = Results,
           \A r \in Results : IsEntry(box'[r]) /\ (In(box', r) <=> In(box, r))
    PROVE  IInv'
<1>1. Kinds'
  BY DEF IInv, Kinds
<1>2. ReleaseIsAlone' /\ ProducersAreStaged' /\ AckedIsHeld'
  BY DEF IInv, ReleaseIsAlone, ProducersAreStaged, AckedIsHeld, Handing
<1>3. BoxRunsAhead'
  BY DEF IInv, BoxRunsAhead, In, ItemOf
<1>4. DeliverersAreReady'
  <2>1. \A d \in Deliverers : phase[d] = "saving" => ItemOf(d) \in Results
    BY ItemsAreResults DEF IInv, Handing
  <2> QED BY <2>1 DEF IInv, DeliverersAreReady, In, ItemOf
<1> QED BY <1>1, <1>2, <1>3, <1>4 DEF IInv

LEMMA MovedEntries ==
    ASSUME Kinds, NEW from, "none" \notin from, NEW to \in EntryStates \ {"none"}
    PROVE  /\ DOMAIN Moved(from, to) = Results
           /\ \A r \in Results : /\ IsEntry(Moved(from, to)[r])
                                 /\ In(Moved(from, to), r) <=> In(box, r)
BY DEF Kinds, Moved, IsEntry, In

\* A delivery that fails before its submission.
LEMMA FailureKeeps ==
    ASSUME IInv, NEW d \in Deliverers, phase[d] = "putting", FailDelivery(d),
           UNCHANGED <<records, acked, box, saved>>
    PROVE  IInv'
<1>1. phase' = [phase EXCEPT ![d] = "idle"] /\ Dropped(d)
  BY DEF FailDelivery, Ended
<1>2. \A e \in Deliverers : phase'[e] = IF e = d THEN "idle" ELSE phase[e]
  BY <1>1 DEF IInv, Kinds
<1>3. \A e \in Deliverers : e # d => ItemOf(e)' = ItemOf(e)
  BY <1>1 DEF Dropped, ItemOf
<1>4. Kinds'
  BY <1>1, <1>2 DEF IInv, Kinds, Deliverers
<1>5. ReleaseIsAlone'
  <2>1. list' \subseteq Range(records)
    BY <1>1 DEF Dropped, IInv, ReleaseIsAlone
  <2>2. ASSUME Handing(Release)' PROVE item' \in Range(records) /\ phase'[item'] = "idle"
    <3>1. d # Release /\ Handing(Release) /\ item' = item
      BY <1>1, <1>2, <2>2, ReleaseIsNoResult DEF Handing, Dropped
    <3>2. item \in Range(records) /\ phase[item] = "idle" /\ item \in Deliverers
      BY <3>1, RowsAreResults, ReleaseIsNoResult DEF IInv, ReleaseIsAlone
    <3> QED BY <1>2, <3>1, <3>2
  <2> QED BY <2>1, <2>2 DEF ReleaseIsAlone
<1>6. ProducersAreStaged' /\ AckedIsHeld'
  BY <1>2, ReleaseIsNoResult DEF IInv, ProducersAreStaged, AckedIsHeld
<1>7. BoxRunsAhead'
  BY <1>2, <1>3 DEF IInv, BoxRunsAhead, In
<1>8. DeliverersAreReady'
  BY <1>2, <1>3 DEF IInv, DeliverersAreReady, In
<1> QED BY <1>4, <1>5, <1>6, <1>7, <1>8 DEF IInv

\* Entering the box: the deliverer waits for the snapshot.
LEMMA AcceptedKeeps ==
    ASSUME IInv, NEW d \in Deliverers, SubmitAccepted(d)
    PROVE  IInv'
<1> DEFINE r == ItemOf(d)
<1>1. /\ phase[d] = "putting" /\ phase' = [phase EXCEPT ![d] = "saving"]
      /\ box' = [box EXCEPT ![r] = [st |-> "accepted", size |-> got[d]]]
      /\ UNCHANGED <<records, acked, list, item, saved>>
  BY DEF SubmitAccepted, ledgerVars
<1>2. r \in Results
  BY <1>1, ItemsAreResults DEF IInv, Handing
<1>3. \A e \in Deliverers : phase'[e] = IF e = d THEN "saving" ELSE phase[e]
  BY <1>1 DEF IInv, Kinds
<1>4. \A e \in Deliverers : ItemOf(e)' = ItemOf(e)
  BY <1>1 DEF ItemOf
<1>5. /\ DOMAIN box' = Results
      /\ \A q \in Results : IsEntry(box'[q]) /\ (In(box', q) <=> q = r \/ In(box, q))
  BY <1>1, <1>2 DEF IInv, Kinds, IsEntry, EntryStates, In
<1>6. Kinds'
  BY <1>1, <1>3, <1>5 DEF IInv, Kinds
<1>7. ReleaseIsAlone'
  <2>1. Handing(Release)' => Handing(Release)
    BY <1>1, <1>3, ReleaseIsNoResult DEF Handing
  <2>2. Handing(Release) => item # d /\ item \in Deliverers
    BY <1>1, RowsAreResults, ReleaseIsNoResult DEF IInv, ReleaseIsAlone
  <2> QED BY <1>1, <1>3, <2>1, <2>2 DEF IInv, ReleaseIsAlone
<1>8. ProducersAreStaged' /\ AckedIsHeld'
  BY <1>1, <1>3, ReleaseIsNoResult DEF IInv, ProducersAreStaged, AckedIsHeld
<1>9. BoxRunsAhead'
  <2> SUFFICES ASSUME NEW q \in Results
               PROVE  /\ In(saved', q) => In(box', q)
                      /\ In(box', q) /\ ~In(saved', q) =>
                            \E e \in Deliverers : phase'[e] = "saving" /\ ItemOf(e)' = q
    BY DEF BoxRunsAhead, In
  <2>1. CASE q = r
    BY <1>1, <1>3, <1>4, <1>5, <2>1
  <2>2. CASE q # r
    <3>1. In(box', q) /\ ~In(saved', q) => \E e \in Deliverers : phase[e] = "saving" /\ ItemOf(e) = q
      BY <1>1, <1>5, <2>2 DEF IInv, BoxRunsAhead
    <3>2. In(saved', q) => In(box', q)
      BY <1>1, <1>5, <2>2 DEF IInv, BoxRunsAhead
    <3> QED BY <1>1, <1>3, <1>4, <3>1, <3>2
  <2> QED BY <2>1, <2>2
<1>10. DeliverersAreReady'
  <2> SUFFICES ASSUME NEW e \in Deliverers
               PROVE  /\ phase'[e] = "acking" => In(saved', ItemOf(e)')
                      /\ phase'[e] = "saving" => In(box', ItemOf(e)')
    BY DEF DeliverersAreReady, In
  <2>1. phase[e] = "saving" => ItemOf(e) \in Results /\ In(box, ItemOf(e))
    BY ItemsAreResults DEF IInv, Handing, DeliverersAreReady
  <2>2. phase[e] = "acking" => In(saved, ItemOf(e))
    BY DEF IInv, DeliverersAreReady
  <2>3. CASE e = d
    BY <1>2, <1>3, <1>4, <1>5, <2>3
  <2>4. CASE e # d
    <3>1. phase'[e] = phase[e] /\ ItemOf(e)' = ItemOf(e) /\ saved' = saved
      BY <1>1, <1>3, <1>4, <2>4
    <3>2. phase[e] = "saving" => In(box', ItemOf(e))
      BY <1>5, <2>1
    <3> QED BY <2>2, <3>1, <3>2
  <2> QED BY <2>3, <2>4
<1> QED BY <1>6, <1>7, <1>8, <1>9, <1>10 DEF IInv

\* A deliverer that finds its result in the box finds it on disk: nobody else
\* is waiting to write it.
LEMMA DuplicateKeeps ==
    ASSUME IInv, NEW d \in Deliverers, SubmitDuplicate(d)
    PROVE  IInv'
<1>1. /\ phase[d] = "putting" /\ In(box, ItemOf(d))
      /\ phase' = [phase EXCEPT ![d] = "acking"]
      /\ UNCHANGED <<records, acked, list, item, box, saved>>
  BY DEF SubmitDuplicate, ledgerVars, In
<1>2. ItemOf(d) \in Results
  BY <1>1, ItemsAreResults DEF IInv, Handing
<1>3. In(saved, ItemOf(d))
  <2>1. OneSubmitter
    BY Apart DEF IInv
  <2>2. \A e \in Deliverers : phase[e] = "saving" => ItemOf(e) # ItemOf(d)
    BY <1>1, <2>1 DEF OneSubmitter, Handing
  <2> QED BY <1>1, <1>2, <2>2 DEF IInv, BoxRunsAhead
<1>4. \A e \in Deliverers : phase'[e] = IF e = d THEN "acking" ELSE phase[e]
  BY <1>1 DEF IInv, Kinds
<1>5. \A e \in Deliverers : ItemOf(e)' = ItemOf(e)
  BY <1>1 DEF ItemOf
<1>6. Kinds'
  BY <1>1, <1>4 DEF IInv, Kinds
<1>7. ReleaseIsAlone'
  <2>1. Handing(Release)' => Handing(Release)
    BY <1>1, <1>4, ReleaseIsNoResult DEF Handing
  <2>2. Handing(Release) => item # d /\ item \in Deliverers
    BY <1>1, RowsAreResults, ReleaseIsNoResult DEF IInv, ReleaseIsAlone
  <2> QED BY <1>1, <1>4, <2>1, <2>2 DEF IInv, ReleaseIsAlone
<1>8. ProducersAreStaged' /\ AckedIsHeld'
  BY <1>1, <1>4, ReleaseIsNoResult DEF IInv, ProducersAreStaged, AckedIsHeld
<1>9. BoxRunsAhead'
  BY <1>1, <1>4, <1>5 DEF IInv, BoxRunsAhead, In
<1>10. DeliverersAreReady'
  BY <1>1, <1>3, <1>4, <1>5 DEF IInv, DeliverersAreReady, In
<1> QED BY <1>6, <1>7, <1>8, <1>9, <1>10 DEF IInv

\* What is acknowledged is on disk.
LEMMA AcknowledgeKeeps ==
    ASSUME IInv, NEW d \in Deliverers, Acknowledge(d)
    PROVE  IInv'
<1>1. /\ phase[d] = "acking" /\ acked' = acked \cup {ItemOf(d)}
      /\ UNCHANGED <<records, list, box, saved>>
      /\ phase' = [phase EXCEPT ![d] = IF d = Release THEN "next" ELSE "idle"]
      /\ item' = IF d = Release THEN NoResult ELSE item
  BY DEF Acknowledge, Ended
<1>2. ItemOf(d) \in Results /\ In(saved, ItemOf(d))
  BY <1>1, ItemsAreResults DEF IInv, Handing, DeliverersAreReady
<1>3. \A e \in Deliverers :
          phase'[e] = IF e = d THEN (IF d = Release THEN "next" ELSE "idle") ELSE phase[e]
  BY <1>1 DEF IInv, Kinds
<1>4. \A e \in Deliverers : e # d => ItemOf(e)' = ItemOf(e)
  BY <1>1 DEF ItemOf
<1>5. Kinds'
  BY <1>1, <1>2, <1>3, ReleaseIsNoResult DEF IInv, Kinds
<1>6. ReleaseIsAlone'
  <2>1. ASSUME Handing(Release)' PROVE item' \in Range(records) /\ phase'[item'] = "idle"
    <3>1. d # Release /\ Handing(Release) /\ item' = item
      BY <1>1, <1>3, <2>1, ReleaseIsNoResult DEF Handing
    <3>2. item \in Range(records) /\ phase[item] = "idle" /\ item \in Deliverers
      BY <3>1, RowsAreResults, ReleaseIsNoResult DEF IInv, ReleaseIsAlone
    <3> QED BY <1>1, <1>3, <3>1, <3>2
  <2> QED BY <1>1, <2>1 DEF IInv, ReleaseIsAlone
<1>7. ProducersAreStaged'
  BY <1>1, <1>3, ReleaseIsNoResult DEF IInv, ProducersAreStaged
<1>8. AckedIsHeld'
  BY <1>1, <1>2 DEF IInv, AckedIsHeld, In
<1>9. BoxRunsAhead'
  BY <1>1, <1>3, <1>4 DEF IInv, BoxRunsAhead, In
<1>10. DeliverersAreReady'
  BY <1>1, <1>3, <1>4 DEF IInv, DeliverersAreReady, In
<1> QED BY <1>5, <1>6, <1>7, <1>8, <1>9, <1>10 DEF IInv

\* The snapshot on disk becomes the box.
LEMMA SaveKeeps == ASSUME IInv, Save PROVE IInv'
<1>1. saved' = box /\ UNCHANGED <<records, acked, list, item, box>>
  BY DEF Save, ledgerVars
<1>2. /\ DOMAIN phase' = Deliverers
      /\ \A e \in Deliverers : phase'[e] = IF phase[e] = "saving" THEN "acking" ELSE phase[e]
  BY DEF Save
<1>3. \A e \in Deliverers : ItemOf(e)' = ItemOf(e)
  BY <1>1 DEF ItemOf
<1>4. Kinds'
  <2>1. phase' \in [Deliverers -> {"idle", "putting", "saving", "acking", "next"}]
    BY DEF Save, IInv, Kinds
  <2>2. \A r \in Results : phase'[r] # "next"
    BY <1>2, ReleaseIsNoResult DEF IInv, Kinds
  <2> QED BY <1>1, <2>1, <2>2 DEF IInv, Kinds
<1>5. ReleaseIsAlone'
  <2>1. Handing(Release)' => Handing(Release)
    BY <1>2, ReleaseIsNoResult DEF Handing
  <2>2. Handing(Release) => item \in Deliverers
    BY RowsAreResults, ReleaseIsNoResult DEF IInv, ReleaseIsAlone
  <2> QED BY <1>1, <1>2, <2>1, <2>2 DEF IInv, ReleaseIsAlone
<1>6. ProducersAreStaged' /\ BoxRunsAhead'
  BY <1>1, <1>2, ReleaseIsNoResult DEF IInv, ProducersAreStaged, BoxRunsAhead, In
<1>7. AckedIsHeld'
  BY <1>1 DEF IInv, Kinds, AckedIsHeld, BoxRunsAhead, In
<1>8. DeliverersAreReady'
  <2> SUFFICES ASSUME NEW e \in Deliverers
               PROVE  /\ phase'[e] = "acking" => In(box, ItemOf(e))
                      /\ phase'[e] # "saving"
    BY <1>1, <1>3 DEF DeliverersAreReady, In
  <2>1. phase[e] = "acking" => ItemOf(e) \in Results /\ In(saved, ItemOf(e))
    BY ItemsAreResults DEF IInv, Handing, DeliverersAreReady
  <2>2. phase[e] = "saving" => In(box, ItemOf(e))
    BY DEF IInv, DeliverersAreReady
  <2> QED BY <1>2, <2>1, <2>2 DEF IInv, BoxRunsAhead
<1> QED BY <1>4, <1>5, <1>6, <1>7, <1>8 DEF IInv

\* A new row, and its producer's reservation.
LEMMA PublishKeeps ==
    ASSUME IInv, NEW r \in Results, Publish(r)
    PROVE  IInv'
<1>1. r \notin Range(records) /\ records' = Append(records, r)
      /\ UNCHANGED <<acked, list, item, box, saved>>
  BY DEF Publish
<1>2. records' \in Seq(Results) /\ Range(records') = Range(records) \cup {r}
  <2>1. records \in Seq(Results)
    BY DEF IInv, Kinds
  <2>2. records' = records \o <<r>> /\ Range(<<r>>) = {r} /\ <<r>> \in Seq(Results)
    BY <1>1, <2>1, AppendIsConcat DEF Range
  <2>3. Range(records \o <<r>>) = Range(records) \cup Range(<<r>>)
    BY <2>1, <2>2, RangeConcatenation
  <2>4. records \o <<r>> \in Seq(Results)
    BY <2>1, <2>2, ConcatProperties
  <2> QED BY <2>2, <2>3, <2>4
<1>3. phase' = phase \/ phase' = [phase EXCEPT ![r] = "putting"]
  BY DEF Publish, Fit
<1>4. phase[r] = "idle" /\ r \in Deliverers
  BY <1>1, ReleaseIsNoResult DEF IInv, ProducersAreStaged
<1>5. \A e \in Deliverers : phase'[e] = phase[e] \/ (e = r /\ phase'[e] = "putting")
  BY <1>3, <1>4 DEF IInv, Kinds
<1>6. \A e \in Deliverers : ItemOf(e)' = ItemOf(e)
  BY <1>1 DEF ItemOf
<1>7. Kinds'
  BY <1>1, <1>2, <1>3, <1>4, <1>5, ReleaseIsNoResult DEF IInv, Kinds
<1>8. ReleaseIsAlone'
  <2>1. Handing(Release)' => Handing(Release)
    BY <1>5, ReleaseIsNoResult DEF Handing
  <2>2. Handing(Release) => item # r /\ item \in Deliverers
    BY <1>1, RowsAreResults, ReleaseIsNoResult DEF IInv, ReleaseIsAlone
  <2> QED BY <1>1, <1>2, <1>5, <2>1, <2>2 DEF IInv, ReleaseIsAlone
<1>9. ProducersAreStaged' /\ AckedIsHeld'
  BY <1>1, <1>2, <1>5, ReleaseIsNoResult DEF IInv, ProducersAreStaged, AckedIsHeld
<1>10. BoxRunsAhead'
  BY <1>1, <1>4, <1>5, <1>6 DEF IInv, BoxRunsAhead, In
<1>11. DeliverersAreReady'
  BY <1>1, <1>5, <1>6 DEF IInv, DeliverersAreReady, In
<1> QED BY <1>7, <1>8, <1>9, <1>10, <1>11 DEF IInv

\* A release is started, passes over a row, ends, or takes a row no producer
\* is publishing.
LEMMA ReleaseKeeps ==
    ASSUME IInv, StartRelease \/ NextHeld
    PROVE  IInv'
<1>1. UNCHANGED <<records, acked, box, saved>> /\ ~Handing(Release)
  BY DEF StartRelease, NextHeld, ledgerVars, Handing
<1>2. PICK st \in {"idle", "putting", "next"} : phase' = [phase EXCEPT ![Release] = st]
  <2>1. CASE StartRelease
    BY <2>1 DEF StartRelease
  <2>2. CASE NextHeld
    <3>1. phase = [phase EXCEPT ![Release] = "next"]
      BY <2>2 DEF NextHeld, IInv, Kinds
    <3> QED BY <2>2, <3>1 DEF NextHeld, Ended, Fit
  <2> QED BY <2>1, <2>2
<1>3. \A e \in Deliverers : phase'[e] = IF e = Release THEN st ELSE phase[e]
  BY <1>2 DEF IInv, Kinds
<1>4. list' \subseteq Range(records)
  BY DEF StartRelease, NextHeld, Dropped, Pending, IInv, ReleaseIsAlone
<1>5. st = "putting" => item' \in Range(records) /\ phase[item'] = "idle"
  <2> SUFFICES ASSUME st = "putting" PROVE item' \in Range(records) /\ phase[item'] = "idle"
    OBVIOUS
  <2>1. phase'[Release] = "putting"
    BY <1>3, ReleaseIsNoResult
  <2>2. NextHeld /\ \E r \in list : ~Active(r) /\ item' = r
    BY <1>3, <2>1, ReleaseIsNoResult DEF StartRelease, NextHeld, Ended, IInv, Kinds
  <2> QED BY <2>2 DEF IInv, ReleaseIsAlone, Active
<1>6. \A e \in Deliverers : e # Release => ItemOf(e)' = ItemOf(e)
  BY DEF ItemOf
<1>7. Kinds'
  BY <1>1, <1>2, <1>3, ReleaseIsNoResult DEF IInv, Kinds
<1>8. ReleaseIsAlone'
  <2>1. Handing(Release)' => st = "putting"
    BY <1>3, ReleaseIsNoResult DEF Handing
  <2>2. st = "putting" => phase'[item'] = "idle"
    BY <1>3, <1>5, RowsAreResults, ReleaseIsNoResult DEF IInv
  <2> QED BY <1>1, <1>4, <1>5, <2>1, <2>2 DEF ReleaseIsAlone
<1>9. ProducersAreStaged' /\ AckedIsHeld'
  BY <1>1, <1>3, ReleaseIsNoResult DEF IInv, ProducersAreStaged, AckedIsHeld
<1>10. BoxRunsAhead'
  BY <1>1, <1>3, <1>6 DEF IInv, BoxRunsAhead, In, Handing
<1>11. DeliverersAreReady'
  BY <1>1, <1>3, <1>6 DEF IInv, DeliverersAreReady, In
<1> QED BY <1>7, <1>8, <1>9, <1>10, <1>11 DEF IInv

\* A crash loses the deliverers, and the box that was not on disk.
LEMMA ReopenKeeps == ASSUME IInv, Reopen PROVE IInv'
<1>1. /\ UNCHANGED <<records, acked, saved>>
      /\ phase' = [d \in Deliverers |-> "idle"]
      /\ list' = {}
  BY DEF Reopen, ledgerVars
<1>2. /\ DOMAIN box' = Results
      /\ \A r \in Results : IsEntry(box'[r]) /\ (In(box', r) <=> In(saved, r))
  BY DEF Reopen, IInv, Kinds, IsEntry, EntryStates, In
<1>3. Kinds'
  BY <1>1, <1>2, ReleaseIsNoResult DEF IInv, Kinds
<1>4. ReleaseIsAlone' /\ ProducersAreStaged' /\ DeliverersAreReady'
  BY <1>1, ReleaseIsNoResult DEF ReleaseIsAlone, ProducersAreStaged, DeliverersAreReady, Handing
<1>5. BoxRunsAhead'
  BY <1>1, <1>2 DEF BoxRunsAhead, In
<1>6. AckedIsHeld'
  BY <1>1 DEF IInv, AckedIsHeld
<1> QED BY <1>3, <1>4, <1>5, <1>6 DEF IInv

\* Every step keeps the invariant.
LEMMA Step == ASSUME IInv, [Next]_vars PROVE IInv'
<1>0. /\ DOMAIN box = Results
      /\ \A r \in Results : IsEntry(box[r])
  BY DEF IInv, Kinds
<1>1. ASSUME NEW d \in Deliverers, Deliver(d) \/ PutFails(d) PROVE IInv'
  <2>1. CASE SubmitRefused(d) \/ PutFails(d)
    BY <2>1, FailureKeeps DEF SubmitRefused, PutFails, ledgerVars
  <2> QED BY <1>1, <2>1, AcceptedKeeps, DuplicateKeeps, AcknowledgeKeeps DEF Deliver
<1>2. ASSUME NEW r \in Results, Publish(r) PROVE IInv'
  BY <1>2, PublishKeeps
<1>3. CASE StartRelease \/ NextHeld
  BY <1>3, ReleaseKeeps
<1>4. CASE Save
  BY <1>4, SaveKeeps
<1>5. CASE ReachBarrier \/ Rearm \/ CompactionLands \/ UNCHANGED vars
  <2>1. UNCHANGED <<records, acked, phase, list, item, box, saved>>
    BY <1>5 DEF ReachBarrier, Rearm, CompactionLands, vars, ledgerVars, ownerVars
  <2> QED BY <1>0, <2>1, KernelKeeps DEF In
<1>6. CASE OpenRound \/ OpenRequest \/ TurnReady \/ \E halting \in BOOLEAN : GiveUpRound(halting)
  <2>1. /\ UNCHANGED <<records, acked, phase, list, item, saved>>
        /\ \/ box' = Moved({"accepted"}, "reserved")
           \/ box' = Moved({"reserved"}, "included")
           \/ box' = Moved({"included"}, "consumed")
           \/ box' = Moved({"reserved", "included"}, "released")
    BY <1>6 DEF OpenRound, OpenRequest, TurnReady, GiveUpRound, ledgerVars, ownerVars
  <2>2. /\ DOMAIN box' = Results
        /\ \A r \in Results : IsEntry(box'[r]) /\ (In(box', r) <=> In(box, r))
    <3>1. {"reserved", "included", "consumed", "released"} \subseteq EntryStates \ {"none"}
      BY DEF EntryStates
    <3>2. CASE box' = Moved({"accepted"}, "reserved")
      BY <3>1, <3>2, MovedEntries DEF IInv
    <3>3. CASE box' = Moved({"reserved"}, "included")
      BY <3>1, <3>3, MovedEntries DEF IInv
    <3>4. CASE box' = Moved({"included"}, "consumed")
      BY <3>1, <3>4, MovedEntries DEF IInv
    <3>5. CASE box' = Moved({"reserved", "included"}, "released")
      BY <3>1, <3>5, MovedEntries DEF IInv
    <3> QED BY <2>1, <3>2, <3>3, <3>4, <3>5
  <2> QED BY <2>1, <2>2, KernelKeeps
<1>7. CASE Reopen
  BY <1>7, ReopenKeeps
<1> QED BY <1>1, <1>2, <1>3, <1>4, <1>5, <1>6, <1>7 DEF Next

LEMMA Start == Init => IInv
<1> SUFFICES ASSUME Init PROVE IInv
  OBVIOUS
<1>1. Range(<<>>) = {}
  BY DEF Range
<1>2. Kinds
  BY ReleaseIsNoResult DEF Init, Kinds, IsEntry, NoEntry, EntryStates
<1>3. ReleaseIsAlone /\ ProducersAreStaged
  BY ReleaseIsNoResult, <1>1 DEF Init, ReleaseIsAlone, ProducersAreStaged, Handing
<1>4. BoxRunsAhead /\ DeliverersAreReady /\ AckedIsHeld
  BY DEF Init, BoxRunsAhead, DeliverersAreReady, AckedIsHeld, NoEntry, In
<1> QED BY <1>2, <1>3, <1>4 DEF IInv

-------------------------------------------------------------------------------
(* The theorems.                                                           *)

\* The ledger, the deliverers, the box and the snapshot agree in every state.
THEOREM DeliveryStaysConsistent == Spec => []IInv
BY Start, Step, PTL DEF Spec

\* A result the ledger has acknowledged is held by the snapshot on disk, for
\* any results, sizes, bounds and number of crashes and failed writes.
THEOREM AckedResultsAreHeld == Spec => []AckedIsHeld
<1>1. IInv => AckedIsHeld
  BY DEF IInv
<1> QED BY DeliveryStaysConsistent, <1>1, PTL

\* A producer and a release never hand over the same result at the same time.
THEOREM OneHandsOver == Spec => []OneSubmitter
<1>1. IInv => OneSubmitter
  BY Apart DEF IInv
<1> QED BY DeliveryStaysConsistent, <1>1, PTL

===============================================================================
