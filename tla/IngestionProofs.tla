--------------------------- MODULE IngestionProofs ---------------------------
(***************************************************************************)
(* Proofs about Ingestion, for every number of runs and types, every set   *)
(* of items and every choice of faults the assumptions of a theorem allow. *)
(***************************************************************************)
EXTENDS Ingestion, TLAPS

(***************************************************************************)
(* The inductive invariant, in parts                                       *)
(***************************************************************************)

\* What the loop over WINDOW_HOURS has established when it reaches a point:
\* written_keys never names a type the run did not find, and the two agree
\* whenever control is back at the head of the loop.
LoopInv ==
    \A r \in Runs :
        /\ written[r] \subseteq found[r]
        /\ \A t \in written[r] : t < cur[r]
        /\ pc[r] = "idle" => cur[r] = 1 /\ found[r] = {}
        /\ pc[r] = "fetch" => found[r] = written[r]
        /\ pc[r] = "upload" => found[r] = written[r] \cup {cur[r]}
        /\ pc[r] = "failed" => written[r] = {}

\* Nothing follows the put of _SUCCESS but the end or a rollback.
MarkerInv == \A r \in marker : pc[r] \in {"done", "rollback", "failed", "killed"}

\* The object is there, or a rollback that may delete has passed over it.
Kept(t) == Exists(t) \/ (CanDelete /\ \E q \in Runs : RolledBack(q, t))

\* The uploads a run counts on are covered, while it is uploading and after
\* it has put the marker.
KeptInv ==
    \A r \in Runs :
        /\ pc[r] \in {"fetch", "upload"} => \A t \in written[r] : Kept(t)
        /\ r \in marker => \A t \in found[r] : Kept(t)

Inv == TypeOK /\ LoopInv /\ MarkerInv /\ KeptInv

-----------------------------------------------------------------------------
(***************************************************************************)
(* Type correctness                                                        *)
(***************************************************************************)

LEMMA FetchableItems ==
    ASSUME NEW t \in Types, NEW got \in Fetchable(t)
    PROVE  got \subseteq Items
  BY IngestionAssumption DEF Fetchable

LEMMA InitType == Init => TypeOK
  BY IngestionAssumption DEF Init, TypeOK, Types, Active, Ended

LEMMA NextType == TypeOK /\ [Next]_vars => TypeOK'
  <1> SUFFICES ASSUME TypeOK, [Next]_vars PROVE TypeOK'
    OBVIOUS
  <1> USE IngestionAssumption DEF TypeOK, Active, Ended
  <1>1. CASE UNCHANGED vars
    BY <1>1 DEF vars
  <1>2. ASSUME NEW r \in Runs, Begin(r) PROVE TypeOK'
    BY <1>2 DEF Begin
  <1>3. ASSUME NEW r \in Runs, Fetch(r) PROVE TypeOK'
    <2>1. PICK got \in Fetchable(cur[r]) : hits' = [hits EXCEPT ![r] = got]
      BY <1>3 DEF Fetch
    <2>2. cur[r] \in Types
      BY <1>3 DEF Fetch
    <2>3. got \subseteq Items
      BY <2>2, FetchableItems
    <2> QED
      BY <1>3, <2>1, <2>2, <2>3 DEF Fetch
  <1>13. ASSUME NEW r \in Runs, FetchNothing(r) PROVE TypeOK'
    <2>1. cur[r] + 1 \in 1 .. NTypes + 1
      BY <1>13 DEF FetchNothing, Types
    <2> QED
      BY <1>13, <2>1 DEF FetchNothing
  <1>4. ASSUME NEW r \in Runs, FetchRaises(r) PROVE TypeOK'
    BY <1>4 DEF FetchRaises
  <1>5. ASSUME NEW r \in Runs, Upload(r) PROVE TypeOK'
    <2>1. cur[r] \in Types /\ cur[r] + 1 \in 1 .. NTypes + 1
      BY <1>5 DEF Upload, Types
    <2>2. [by |-> r, items |-> hits[r]] \in File
      BY DEF File
    <2> QED
      BY <1>5, <2>1, <2>2 DEF Upload
  <1>6. ASSUME NEW r \in Runs, UploadRaises(r) PROVE TypeOK'
    BY <1>6 DEF UploadRaises, File
  <1>7. ASSUME NEW r \in Runs, NoData(r) PROVE TypeOK'
    BY <1>7 DEF NoData
  <1>8. ASSUME NEW r \in Runs, PutMarker(r) PROVE TypeOK'
    BY <1>8 DEF PutMarker
  <1>9. ASSUME NEW r \in Runs, PutMarkerRaises(r) PROVE TypeOK'
    BY <1>9 DEF PutMarkerRaises
  <1>10. ASSUME NEW r \in Runs, RollbackKey(r) PROVE TypeOK'
    BY <1>10 DEF RollbackKey
  <1>11. ASSUME NEW r \in Runs, Fail(r) PROVE TypeOK'
    BY <1>11 DEF Fail
  <1>12. ASSUME NEW r \in Runs, Kill(r) PROVE TypeOK'
    BY <1>12 DEF Kill
  <1> QED
    BY <1>1, <1>2, <1>3, <1>4, <1>5, <1>6, <1>7, <1>8, <1>9, <1>10, <1>11, <1>12,
       <1>13
       DEF Next, Step

\* Every variable keeps its type, whatever the faults and the interleaving.
THEOREM IngestionTypes == Spec => []TypeOK
  BY InitType, NextType, PTL DEF Spec

-----------------------------------------------------------------------------
(***************************************************************************)
(* The loop and the marker                                                 *)
(***************************************************************************)

LEMMA InitLoop == Init => LoopInv /\ MarkerInv /\ KeptInv
  BY DEF Init, LoopInv, MarkerInv, KeptInv

LEMMA NextLoop == TypeOK /\ LoopInv /\ [Next]_vars => LoopInv'
  <1> SUFFICES ASSUME TypeOK, LoopInv, [Next]_vars, NEW q \in Runs
               PROVE  LoopInv!(q)'
    BY DEF LoopInv
  <1> USE DEF TypeOK, LoopInv, Types, Active, Ended
  <1>1. CASE UNCHANGED vars
    BY <1>1 DEF vars
  <1>2. ASSUME NEW r \in Runs, Begin(r) PROVE LoopInv!(q)'
    BY <1>2 DEF Begin
  <1>3. ASSUME NEW r \in Runs, Fetch(r) PROVE LoopInv!(q)'
    BY <1>3 DEF Fetch
  <1>4. ASSUME NEW r \in Runs, FetchNothing(r) PROVE LoopInv!(q)'
    BY <1>4 DEF FetchNothing
  <1>5. ASSUME NEW r \in Runs, FetchRaises(r) PROVE LoopInv!(q)'
    BY <1>5 DEF FetchRaises
  <1>6. ASSUME NEW r \in Runs, Upload(r) PROVE LoopInv!(q)'
    BY <1>6 DEF Upload
  <1>7. ASSUME NEW r \in Runs, UploadRaises(r) PROVE LoopInv!(q)'
    BY <1>7 DEF UploadRaises
  <1>8. ASSUME NEW r \in Runs, NoData(r) PROVE LoopInv!(q)'
    BY <1>8 DEF NoData
  <1>9. ASSUME NEW r \in Runs, PutMarker(r) PROVE LoopInv!(q)'
    BY <1>9 DEF PutMarker
  <1>10. ASSUME NEW r \in Runs, PutMarkerRaises(r) PROVE LoopInv!(q)'
    BY <1>10 DEF PutMarkerRaises
  <1>11. ASSUME NEW r \in Runs, RollbackKey(r) PROVE LoopInv!(q)'
    BY <1>11 DEF RollbackKey
  <1>12. ASSUME NEW r \in Runs, Fail(r) PROVE LoopInv!(q)'
    BY <1>12 DEF Fail
  <1>13. ASSUME NEW r \in Runs, Kill(r) PROVE LoopInv!(q)'
    BY <1>13 DEF Kill
  <1> QED
    BY <1>1, <1>2, <1>3, <1>4, <1>5, <1>6, <1>7, <1>8, <1>9, <1>10, <1>11, <1>12,
       <1>13 DEF Next, Step

LEMMA NextMarker == TypeOK /\ MarkerInv /\ [Next]_vars => MarkerInv'
  <1> SUFFICES ASSUME TypeOK, MarkerInv, [Next]_vars PROVE MarkerInv'
    OBVIOUS
  <1> USE DEF TypeOK, MarkerInv
  <1>1. CASE UNCHANGED vars
    BY <1>1 DEF vars
  <1>2. ASSUME NEW r \in Runs, Begin(r) \/ Kill(r) PROVE MarkerInv'
    BY <1>2 DEF Begin, Kill, Active
  <1>3. ASSUME NEW r \in Runs, PutMarker(r) \/ PutMarkerRaises(r) PROVE MarkerInv'
    BY <1>3 DEF PutMarker, PutMarkerRaises
  <1>4. ASSUME NEW r \in Runs,
               \/ Fetch(r) \/ FetchNothing(r) \/ FetchRaises(r)
               \/ Upload(r) \/ UploadRaises(r) \/ NoData(r)
        PROVE  MarkerInv'
    BY <1>4 DEF Fetch, FetchNothing, FetchRaises, Upload, UploadRaises, NoData
  <1>5. ASSUME NEW r \in Runs, RollbackKey(r) \/ Fail(r) PROVE MarkerInv'
    BY <1>5 DEF RollbackKey, Fail
  <1> QED
    BY <1>1, <1>2, <1>3, <1>4, <1>5 DEF Next, Step

\* _SUCCESS is put last: in the step that puts it, every type the run found
\* has had its put acknowledged.
THEOREM MarkerLast == Spec => MarkerComesLast
  <1>1. TypeOK /\ LoopInv /\ [Next]_vars
          => [\A r \in marker' \ marker : written[r] = found[r] /\ found[r] # {}]_vars
    <2> SUFFICES ASSUME TypeOK, LoopInv, Next, NEW r \in marker' \ marker
                 PROVE  written[r] = found[r] /\ found[r] # {}
      OBVIOUS
    <2>1. PICK q \in Runs : Begin(q) \/ Step(q) \/ Kill(q)
      BY DEF Next
    <2>2. PutMarker(q) \/ PutMarkerRaises(q)
      BY <2>1 DEF Begin, Step, Kill, Fetch, FetchNothing, FetchRaises, Upload,
                  UploadRaises, NoData, RollbackKey, Fail
    <2>3. r = q /\ pc[q] = "fetch" /\ found[q] # {}
      BY <2>2 DEF PutMarker, PutMarkerRaises
    <2> QED
      BY <2>3 DEF LoopInv
  <1> QED
    BY <1>1, InitType, NextType, InitLoop, NextLoop, PTL DEF Spec, MarkerComesLast

-----------------------------------------------------------------------------
(***************************************************************************)
(* What the marker promises                                                *)
(***************************************************************************)

\* A rollback that has passed over a key has passed over it for good.
LEMMA RolledBackForGood ==
    ASSUME TypeOK, [Next]_vars, NEW q \in Runs, NEW t \in Types, RolledBack(q, t)
    PROVE  RolledBack(q, t)'
  <1> USE DEF TypeOK, RolledBack
  <1>1. CASE UNCHANGED vars
    BY <1>1 DEF vars
  <1>2. ASSUME NEW r \in Runs, Begin(r) \/ Kill(r) PROVE RolledBack(q, t)'
    BY <1>2 DEF Begin, Kill, Active
  <1>3. ASSUME NEW r \in Runs, PutMarker(r) \/ PutMarkerRaises(r)
        PROVE  RolledBack(q, t)'
    BY <1>3 DEF PutMarker, PutMarkerRaises
  <1>4. ASSUME NEW r \in Runs,
               \/ Fetch(r) \/ FetchNothing(r) \/ FetchRaises(r)
               \/ Upload(r) \/ UploadRaises(r) \/ NoData(r)
        PROVE  RolledBack(q, t)'
    BY <1>4 DEF Fetch, FetchNothing, FetchRaises, Upload, UploadRaises, NoData
  <1>5. ASSUME NEW r \in Runs, RollbackKey(r) \/ Fail(r) PROVE RolledBack(q, t)'
    BY <1>5 DEF RollbackKey, Fail
  <1> QED
    BY <1>1, <1>2, <1>3, <1>4, <1>5 DEF Next, Step

\* No step uncovers a type: the only one that removes an object is a rollback
\* that passes over it.
LEMMA KeptForGood ==
    ASSUME TypeOK, LoopInv, [Next]_vars, NEW t \in Types, Kept(t)
    PROVE  Kept(t)'
  <1>1. CASE CanDelete /\ \E q \in Runs : RolledBack(q, t)
    BY <1>1, RolledBackForGood DEF Kept
  <1>2. CASE Exists(t) /\ UNCHANGED bronze
    BY <1>2 DEF Kept, Exists
  <1>3. ASSUME Exists(t), NEW r \in Runs, Upload(r) \/ UploadRaises(r)
        PROVE  Exists(t)'
    <2>1. [by |-> r, items |-> hits[r]] # NoFile
      BY IngestionAssumption DEF TypeOK, File
    <2> QED
      BY <1>3, <2>1 DEF Upload, UploadRaises, Exists, TypeOK
  <1>4. ASSUME Exists(t), NEW r \in Runs, RollbackKey(r) PROVE Kept(t)'
    <2>1. PICK u \in written[r] :
            /\ \/ CanDelete /\ bronze' = [bronze EXCEPT ![u] = NoFile]
               \/ UNCHANGED bronze
            /\ written' = [written EXCEPT ![r] = @ \ {u}]
      BY <1>4 DEF RollbackKey
    <2>2. CASE UNCHANGED bronze \/ u # t
      BY <1>4, <2>1, <2>2 DEF Kept, Exists, TypeOK
    <2>3. CASE CanDelete /\ u = t
      <3>1. RolledBack(r, t)'
        BY <1>4, <2>1, <2>3 DEF RollbackKey, RolledBack, LoopInv, TypeOK
      <3> QED
        BY <2>3, <3>1 DEF Kept
    <2> QED
      BY <2>1, <2>2, <2>3
  <1>5. CASE Exists(t) /\ ~UNCHANGED bronze
    <2>1. PICK r \in Runs : Upload(r) \/ UploadRaises(r) \/ RollbackKey(r)
      BY <1>5 DEF Next, vars, Begin, Step, Kill, Fetch, FetchNothing, FetchRaises,
                  NoData, PutMarker, PutMarkerRaises, Fail
    <2> QED
      BY <1>3, <1>4, <1>5, <2>1 DEF Kept
  <1> QED
    BY <1>1, <1>2, <1>5 DEF Kept

LEMMA NextKept == TypeOK /\ LoopInv /\ MarkerInv /\ KeptInv /\ [Next]_vars => KeptInv'
  <1> SUFFICES ASSUME TypeOK, LoopInv, MarkerInv, KeptInv, [Next]_vars,
                      NEW q \in Runs
               PROVE  KeptInv!(q)'
    BY DEF KeptInv
  <1>1. \A t \in Types : Kept(t) => Kept(t)'
    BY KeptForGood
  <1>2. written[q] \subseteq Types /\ found[q] \subseteq Types
    BY DEF TypeOK
  <1>3. CASE UNCHANGED <<marker, pc, written, found>>
    BY <1>1, <1>2, <1>3 DEF KeptInv
  \* a step that brings no new upload and no new marker
  <1>4. ASSUME NEW r \in Runs,
               \/ Begin(r) \/ Fetch(r) \/ FetchRaises(r) \/ NoData(r)
               \/ RollbackKey(r) \/ Fail(r) \/ Kill(r)
        PROVE  KeptInv!(q)'
    <2>1. marker' = marker /\ (q \in marker => found'[q] = found[q])
      BY <1>4 DEF Begin, Fetch, FetchRaises, NoData, RollbackKey, Fail, Kill,
                  TypeOK, MarkerInv
    <2>2. pc'[q] \in {"fetch", "upload"} =>
            written'[q] = written[q] /\ (pc[q] \in {"fetch", "upload"} \/ written[q] = {})
      BY <1>4 DEF Begin, Fetch, FetchRaises, NoData, RollbackKey, Fail, Kill,
                  TypeOK, LoopInv
    <2> QED
      BY <1>1, <1>2, <2>1, <2>2 DEF KeptInv
  <1>5. ASSUME NEW r \in Runs, Upload(r) PROVE KeptInv!(q)'
    <2>1. CASE q = r
      <3>1. \A t \in Types : t = cur[r] => Kept(t)'
        <4>1. [by |-> r, items |-> hits[r]] # NoFile
          BY IngestionAssumption DEF TypeOK, File
        <4> QED
          BY <1>5, <4>1 DEF Upload, TypeOK, Kept, Exists
      <3>2. /\ cur[r] \in Types
            /\ written'[r] = written[r] \cup {cur[r]}
            /\ r \notin marker'
        BY <1>5 DEF Upload, TypeOK, MarkerInv
      <3>3. \A t \in written[r] : Kept(t)
        BY <1>5 DEF Upload, KeptInv
      <3> QED
        BY <1>1, <1>2, <2>1, <3>1, <3>2, <3>3
    <2>2. CASE q # r
      BY <1>1, <1>2, <1>5, <2>2 DEF Upload, KeptInv, TypeOK
    <2> QED
      BY <2>1, <2>2
  <1>6. ASSUME NEW r \in Runs, UploadRaises(r) PROVE KeptInv!(q)'
    BY <1>1, <1>2, <1>6 DEF UploadRaises, KeptInv, TypeOK
  <1>7. ASSUME NEW r \in Runs, PutMarker(r) \/ PutMarkerRaises(r)
        PROVE  KeptInv!(q)'
    <2>1. found[r] = written[r] /\ \A t \in written[r] : Kept(t)
      BY <1>7 DEF PutMarker, PutMarkerRaises, LoopInv, KeptInv
    <2> QED
      BY <1>1, <1>2, <1>7, <2>1 DEF PutMarker, PutMarkerRaises, KeptInv, TypeOK
  <1> QED
    BY <1>3, <1>4, <1>5, <1>6, <1>7 DEF Next, Step, vars, FetchNothing

LEMMA Invariance == Spec => []Inv
  BY InitType, NextType, InitLoop, NextLoop, NextMarker, NextKept, PTL
     DEF Spec, Inv

\* Whatever the interleaving and the faults, an object the marker promises is
\* gone only because some run's rollback passed over its key.
THEOREM OnlyRollback == Spec => []OnlyRollbackUnpublishes
  <1>1. Inv => OnlyRollbackUnpublishes
    BY DEF Inv, TypeOK, KeptInv, Kept, OnlyRollbackUnpublishes
  <1> QED
    BY <1>1, Invariance, PTL

\* Under the role the deployment grants, which may not delete, a partition
\* with _SUCCESS keeps an object for every type its run found, whatever fails.
THEOREM DeployedKeepsPublished ==
    ASSUME CanDelete = FALSE
    PROVE  Spec => []PublishedFilesPresent
  <1>1. Inv => PublishedFilesPresent
    BY DEF Inv, TypeOK, KeptInv, Kept, PublishedFilesPresent
  <1> QED
    BY <1>1, Invariance, PTL

-----------------------------------------------------------------------------
(***************************************************************************)
(* What a rollback that may delete achieves                                *)
(***************************************************************************)

\* Every object in the partition is in written_keys of the run that put it,
\* or is the one whose put was not acknowledged and sent the run to its rollback.
OwnInv == \A r \in Runs : \A t \in Types :
    Exists(t) /\ bronze[t].by = r =>
        \/ t \in written[r]
        \/ /\ "put_unacked" \in Faults
           /\ t = cur[r]
           /\ pc[r] \in {"rollback", "failed", "killed"}

\* Deletes are permitted and answered.
DeletesWork == CanDelete /\ "delete" \notin Faults

LEMMA NextOwn ==
    ASSUME DeletesWork
    PROVE  TypeOK /\ LoopInv /\ OwnInv /\ [Next]_vars => OwnInv'
  <1> SUFFICES ASSUME TypeOK, LoopInv, OwnInv, [Next]_vars,
                      NEW q \in Runs, NEW t \in Types,
                      Exists(t)', (bronze[t].by)' = q
               PROVE  \/ t \in written'[q]
                      \/ /\ "put_unacked" \in Faults
                         /\ t = cur'[q]
                         /\ pc'[q] \in {"rollback", "failed", "killed"}
    BY DEF OwnInv
  <1> DEFINE Owned == \/ t \in written'[q]
                      \/ /\ "put_unacked" \in Faults
                         /\ t = cur'[q]
                         /\ pc'[q] \in {"rollback", "failed", "killed"}
  <1> USE DEF TypeOK, OwnInv, Exists
  <1>1. CASE UNCHANGED <<bronze, written, cur, pc>>
    BY <1>1
  <1>2. ASSUME NEW r \in Runs,
               \/ Begin(r) \/ Fetch(r) \/ FetchNothing(r) \/ FetchRaises(r)
               \/ NoData(r) \/ PutMarker(r) \/ PutMarkerRaises(r)
               \/ Fail(r) \/ Kill(r)
        PROVE  Owned
    <2>1. UNCHANGED <<bronze, written>>
      BY <1>2 DEF Begin, Fetch, FetchNothing, FetchRaises, NoData, PutMarker,
                  PutMarkerRaises, Fail, Kill
    <2>2. pc[q] \in {"rollback", "failed", "killed"} =>
            /\ pc'[q] \in {"rollback", "failed", "killed"}
            /\ cur'[q] = cur[q]
      BY <1>2 DEF Begin, Fetch, FetchNothing, FetchRaises, NoData, PutMarker,
                  PutMarkerRaises, Fail, Kill
    <2> QED
      BY <2>1, <2>2
  <1>3. ASSUME NEW r \in Runs, Upload(r) PROVE Owned
    BY <1>3 DEF Upload
  <1>4. ASSUME NEW r \in Runs, UploadRaises(r) PROVE Owned
    <2>1. CASE UNCHANGED bronze
      BY <1>4, <2>1 DEF UploadRaises
    <2>2. CASE /\ "put_unacked" \in Faults
               /\ bronze' = [bronze EXCEPT ![cur[r]] = [by |-> r, items |-> hits[r]]]
      BY <1>4, <2>2 DEF UploadRaises
    <2> QED
      BY <1>4, <2>1, <2>2 DEF UploadRaises
  <1>5. ASSUME NEW r \in Runs, RollbackKey(r) PROVE Owned
    BY <1>5 DEF RollbackKey, DeletesWork
  <1> QED
    BY <1>1, <1>2, <1>3, <1>4, <1>5 DEF Next, Step, vars

LEMMA OwnInvariance ==
    ASSUME DeletesWork
    PROVE  Spec => [](Inv /\ OwnInv)
  <1>1. Init => OwnInv
    BY DEF Init, OwnInv, Exists
  <1> QED
    BY <1>1, NextOwn, Invariance, PTL DEF Spec, Inv

\* Where deletes work, a run that reports a failure has left at most the object
\* whose put it never heard of, however runs and faults interleave.
THEOREM RollbackLeavesOne ==
    ASSUME DeletesWork
    PROVE  Spec => []OnlyUnackedPutSurvives
  <1>1. Inv /\ OwnInv => OnlyUnackedPutSurvives
    BY DEF Inv, LoopInv, OwnInv, OnlyUnackedPutSurvives
  <1> QED
    BY <1>1, OwnInvariance, PTL

\* Where deletes work and no response is lost, it has left nothing.
THEOREM RollbackIsComplete ==
    ASSUME DeletesWork, "put_unacked" \notin Faults
    PROVE  Spec => []FailedRunLeavesNothing
  <1>1. Inv /\ OwnInv => FailedRunLeavesNothing
    BY DEF Inv, LoopInv, OwnInv, FailedRunLeavesNothing
  <1> QED
    BY <1>1, OwnInvariance, PTL

-----------------------------------------------------------------------------
(***************************************************************************)
(* All that the windows cover                                              *)
(***************************************************************************)

\* When no page is lost, what a run has found and holds is all that the windows
\* cover, and so is what every object holds.
RunsMissNothing ==
    \A r \in Runs :
        /\ pc[r] = "upload" => hits[r] = Covered[cur[r]]
        /\ pc[r] \in {"fetch", "upload"} =>
             \A t \in Types : t < cur[r] /\ Covered[t] # {} => t \in found[r]
        /\ r \in marker => \A t \in Types : Covered[t] # {} => t \in found[r]

ObjectsMissNothing == \A t \in Types : Exists(t) => bronze[t].items = Covered[t]

LEMMA NextRunsMissNothing ==
    ASSUME "fetch" \notin Faults
    PROVE  TypeOK /\ LoopInv /\ MarkerInv /\ RunsMissNothing /\ [Next]_vars => RunsMissNothing'
  <1> SUFFICES ASSUME TypeOK, LoopInv, MarkerInv, RunsMissNothing, [Next]_vars,
                      NEW q \in Runs
               PROVE  RunsMissNothing!(q)'
    BY DEF RunsMissNothing
  <1> USE DEF TypeOK, RunsMissNothing, Types
  <1>1. CASE UNCHANGED <<marker, pc, cur, hits, found>>
    BY <1>1
  <1>2. ASSUME NEW r \in Runs, Begin(r) PROVE RunsMissNothing!(q)'
    BY <1>2 DEF Begin, LoopInv
  <1>3. ASSUME NEW r \in Runs, Fetch(r) PROVE RunsMissNothing!(q)'
    <2>1. hits' = [hits EXCEPT ![r] = Covered[cur[r]]]
      BY <1>3 DEF Fetch, Fetchable
    <2> QED
      BY <1>3, <2>1 DEF Fetch, MarkerInv
  <1>4. ASSUME NEW r \in Runs, FetchNothing(r) PROVE RunsMissNothing!(q)'
    <2>1. Covered[cur[r]] = {}
      BY <1>4 DEF FetchNothing, Fetchable
    <2> QED
      BY <1>4, <2>1 DEF FetchNothing
  <1>5. ASSUME NEW r \in Runs, Upload(r) PROVE RunsMissNothing!(q)'
    <2>1. pc[r] = "upload" /\ cur[r] \in found[r] /\ r \notin marker
      BY <1>5 DEF Upload, LoopInv, MarkerInv
    <2>2. ASSUME NEW t \in Types, t < cur[r] + 1, Covered[t] # {}
          PROVE  t \in found[r]
      <3>1. t < cur[r] \/ t = cur[r]
        BY <2>2, IngestionAssumption
      <3> QED
        BY <2>1, <2>2, <3>1
    <2> QED
      BY <1>5, <2>1, <2>2 DEF Upload
  <1>6. ASSUME NEW r \in Runs, PutMarker(r) \/ PutMarkerRaises(r)
        PROVE  RunsMissNothing!(q)'
    <2>1. \A t \in Types : t < cur[r]
      BY <1>6, IngestionAssumption DEF PutMarker, PutMarkerRaises
    <2>2. \A t \in Types : Covered[t] # {} => t \in found[r]
      BY <1>6, <2>1 DEF PutMarker, PutMarkerRaises
    <2> QED
      BY <1>6, <2>2 DEF PutMarker, PutMarkerRaises
  <1>7. ASSUME NEW r \in Runs,
               \/ UploadRaises(r) \/ FetchRaises(r) \/ NoData(r)
               \/ RollbackKey(r) \/ Fail(r) \/ Kill(r)
        PROVE  RunsMissNothing!(q)'
    <2>1. UNCHANGED <<marker, cur, hits, found>>
      BY <1>7 DEF UploadRaises, FetchRaises, NoData, RollbackKey, Fail, Kill
    <2>2. pc'[q] \in {"fetch", "upload"} => pc'[q] = pc[q]
      BY <1>7 DEF UploadRaises, FetchRaises, NoData, RollbackKey, Fail, Kill
    <2> QED
      BY <2>1, <2>2
  <1> QED
    BY <1>1, <1>2, <1>3, <1>4, <1>5, <1>6, <1>7 DEF Next, Step, vars

LEMMA NextObjectsMissNothing ==
    ASSUME TypeOK, RunsMissNothing, ObjectsMissNothing, [Next]_vars
    PROVE  ObjectsMissNothing'
  <1> USE DEF TypeOK, ObjectsMissNothing, Exists
  <1>1. CASE UNCHANGED bronze
    BY <1>1
  <1>2. ASSUME NEW r \in Runs, Upload(r) \/ UploadRaises(r) PROVE ObjectsMissNothing'
    <2>1. hits[r] = Covered[cur[r]]
      BY <1>2 DEF Upload, UploadRaises, RunsMissNothing
    <2> QED
      BY <1>1, <1>2, <2>1 DEF Upload, UploadRaises
  <1>3. ASSUME NEW r \in Runs, RollbackKey(r) PROVE ObjectsMissNothing'
    BY <1>1, <1>3 DEF RollbackKey
  <1> QED
    BY <1>1, <1>2, <1>3
       DEF Next, Step, vars, Begin, Fetch, FetchNothing, FetchRaises, NoData,
           PutMarker, PutMarkerRaises, Fail, Kill

LEMMA NothingMissedInvariance ==
    ASSUME "fetch" \notin Faults
    PROVE  Spec => [](RunsMissNothing /\ ObjectsMissNothing)
  <1>1. Init => RunsMissNothing /\ ObjectsMissNothing
    BY DEF Init, RunsMissNothing, ObjectsMissNothing, Exists
  <1> QED
    BY <1>1, NextRunsMissNothing, NextObjectsMissNothing, Invariance, PTL DEF Spec, Inv

\* When every page request is answered and nothing is deleted, a partition with
\* _SUCCESS holds all that the windows of fetch_type cover, whatever puts,
\* crashes and concurrent runs do.  This says nothing of an item at a window's
\* edge or beyond the hits the API serves: what Covered is and when it is the
\* whole day is proved in PagedIngestionProofs.
THEOREM PublishedCovered ==
    ASSUME "fetch" \notin Faults, CanDelete = FALSE
    PROVE  Spec => []PublishedHoldsCovered
  <1>1. Inv /\ RunsMissNothing /\ ObjectsMissNothing => PublishedHoldsCovered
    BY DEF Inv, KeptInv, Kept, RunsMissNothing, ObjectsMissNothing, PublishedHoldsCovered,
           TypeOK
  <1> QED
    BY <1>1, NothingMissedInvariance, Invariance, PTL

-----------------------------------------------------------------------------
(***************************************************************************)
(* No object is empty                                                      *)
(***************************************************************************)

\* A type without items is not uploaded, so an object always has some.
NoEmptyFile ==
    /\ \A r \in Runs : pc[r] = "upload" => hits[r] # {}
    /\ \A t \in Types : Exists(t) => bronze[t].items # {}

LEMMA NextNoEmptyFile == TypeOK /\ NoEmptyFile /\ [Next]_vars => NoEmptyFile'
  <1> SUFFICES ASSUME TypeOK, NoEmptyFile, [Next]_vars PROVE NoEmptyFile'
    OBVIOUS
  <1> USE DEF TypeOK, NoEmptyFile, Exists
  <1>1. CASE UNCHANGED vars
    BY <1>1 DEF vars
  <1>2. ASSUME NEW r \in Runs,
               \/ Begin(r) \/ FetchNothing(r) \/ FetchRaises(r) \/ NoData(r)
               \/ PutMarker(r) \/ PutMarkerRaises(r) \/ Fail(r) \/ Kill(r)
        PROVE  NoEmptyFile'
    BY <1>2 DEF Begin, FetchNothing, FetchRaises, NoData, PutMarker,
                PutMarkerRaises, Fail, Kill, Active
  <1>3. ASSUME NEW r \in Runs, Fetch(r) PROVE NoEmptyFile'
    BY <1>3 DEF Fetch
  <1>4. ASSUME NEW r \in Runs, Upload(r) PROVE NoEmptyFile'
    BY <1>4 DEF Upload
  <1>5. ASSUME NEW r \in Runs, UploadRaises(r) PROVE NoEmptyFile'
    BY <1>5 DEF UploadRaises
  <1>6. ASSUME NEW r \in Runs, RollbackKey(r) PROVE NoEmptyFile'
    BY <1>6 DEF RollbackKey
  <1> QED
    BY <1>1, <1>2, <1>3, <1>4, <1>5, <1>6 DEF Next, Step

LEMMA NeverEmpty == Spec => []NoEmptyFile
  <1>1. Init => NoEmptyFile
    BY DEF Init, NoEmptyFile, Exists
  <1> QED
    BY <1>1, NextNoEmptyFile, IngestionTypes, PTL DEF Spec
=============================================================================
