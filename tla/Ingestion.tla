------------------------------ MODULE Ingestion ------------------------------
(***************************************************************************)
(* The Bronze layer: invocations of the ingestion Lambda                   *)
(* (src/ingestion/lambda_function.py) writing one day's partition          *)
(* bronze/hacker_news/year=/month=/day=/.                                  *)
(*                                                                         *)
(* Every invocation fetches the item types one after the other, puts one   *)
(* object per non-empty type, and puts the _SUCCESS marker last.  An       *)
(* exception deletes the objects whose put was acknowledged and re-raises. *)
(* Days do not share keys, so the module follows a single day.  Several    *)
(* invocations for that day may exist: the daily execution, a backfill, a  *)
(* Step Functions retry.                                                   *)
(***************************************************************************)
EXTENDS Naturals, FiniteSets

CONSTANTS
    Runs,       \* invocations of the ingestion Lambda for this day
    NTypes,     \* number of item types (len(WINDOW_HOURS), 5 in the code)
    Items,      \* the day's Hacker News items, named by their objectID
    Covered,    \* Covered[t]: the items that the windows and pages of fetch_type
                \* reach under type t; fewer than the search API holds, see
                \* PagedIngestion!Covered
    NoFile,     \* an absent object
    CanDelete,  \* whether the Lambda's role may call s3:DeleteObject
    Faults      \* which faults the environment may show, see FaultKinds

(***************************************************************************)
(* "fetch":       a page request fails and fetch_page returns {}           *)
(* "raise":       fetch_type raises (a body that is not JSON)              *)
(* "put":         a put fails and leaves the object as it was              *)
(* "put_unacked": a put takes effect but its response is lost              *)
(* "delete":      a permitted delete fails                                 *)
(* "kill":        the Lambda is stopped (timeout, memory) without cleanup  *)
(***************************************************************************)
FaultKinds == {"fetch", "raise", "put", "put_unacked", "delete", "kill"}

Types == 1 .. NTypes            \* in the iteration order of WINDOW_HOURS

File == [by : Runs, items : SUBSET Items]

ASSUME IngestionAssumption ==
    /\ NTypes \in Nat
    /\ Covered \in [Types -> SUBSET Items]
    /\ NoFile \notin File
    /\ CanDelete \in BOOLEAN
    /\ Faults \subseteq FaultKinds

VARIABLES
    bronze,   \* bronze[t]: the object {type}.json, or NoFile
    marker,   \* runs whose put of _SUCCESS took effect: the marker exists
              \* iff the set is not empty (the object itself is empty)
    pc,       \* pc[r]: what invocation r does next
    cur,      \* cur[r]: position in the loop over WINDOW_HOURS
    hits,     \* hits[r]: the items last fetched and not empty
    found,    \* found[r]: types with summary[type] > 0
    written   \* written[r]: types whose key is in written_keys

vars == <<bronze, marker, pc, cur, hits, found, written>>

Active == {"fetch", "upload", "rollback"}
Ended == {"done", "no_data", "failed", "killed"}

\* Types of the variables; an upload is always of an existing type.
TypeOK ==
    /\ bronze \in [Types -> File \cup {NoFile}]
    /\ marker \in SUBSET Runs
    /\ pc \in [Runs -> {"idle"} \cup Active \cup Ended]
    /\ cur \in [Runs -> 1 .. NTypes + 1]
    /\ hits \in [Runs -> SUBSET Items]
    /\ found \in [Runs -> SUBSET Types]
    /\ written \in [Runs -> SUBSET Types]
    /\ \A r \in Runs : pc[r] = "upload" => cur[r] \in Types

Init ==
    /\ bronze = [t \in Types |-> NoFile]
    /\ marker = {}
    /\ pc = [r \in Runs |-> "idle"]
    /\ cur = [r \in Runs |-> 1]
    /\ hits = [r \in Runs |-> {}]
    /\ found = [r \in Runs |-> {}]
    /\ written = [r \in Runs |-> {}]

-----------------------------------------------------------------------------

\* Mutant of Begin: the partition is emptied first.
BeginClean(r) ==
    /\ pc[r] = "idle"
    /\ pc' = [pc EXCEPT ![r] = "fetch"]
    /\ bronze' = [t \in Types |-> NoFile]
    /\ UNCHANGED <<marker, cur, hits, found, written>>

\* The handler is entered: nothing collected, nothing written yet.
Begin(r) ==
    /\ pc[r] = "idle"
    /\ pc' = [pc EXCEPT ![r] = "fetch"]
    /\ UNCHANGED <<bronze, marker, cur, hits, found, written>>

\* What fetch_type may return: what its windows cover; a failed page is logged
\* and contributes no hits, so any part of that may be missing.
Fetchable(t) == IF "fetch" \in Faults THEN SUBSET Covered[t] ELSE {Covered[t]}

\* One turn of the loop up to the upload: the type is fetched and counted.
Fetch(r) ==
    /\ pc[r] = "fetch"
    /\ cur[r] \in Types
    /\ \E got \in Fetchable(cur[r]) \ {{}} : hits' = [hits EXCEPT ![r] = got]
    /\ found' = [found EXCEPT ![r] = @ \cup {cur[r]}]
    /\ pc' = [pc EXCEPT ![r] = "upload"]
    /\ UNCHANGED <<bronze, marker, cur, written>>

\* Mutant of FetchNothing: the loop of a run that found nothing goes one too far.
FetchNothingPastEnd(r) ==
    /\ pc[r] = "fetch"
    /\ IF cur[r] \in Types THEN {} \in Fetchable(cur[r]) ELSE found[r] = {}
    /\ cur' = [cur EXCEPT ![r] = @ + 1]
    /\ UNCHANGED <<bronze, marker, pc, hits, found, written>>

\* A type without items is not uploaded: the loop goes on.
FetchNothing(r) ==
    /\ pc[r] = "fetch"
    /\ cur[r] \in Types
    /\ {} \in Fetchable(cur[r])
    /\ cur' = [cur EXCEPT ![r] = @ + 1]
    /\ UNCHANGED <<bronze, marker, pc, hits, found, written>>

\* Mutant of FetchRaises: the loop starts over.
FetchRaisesRestarts(r) ==
    /\ "raise" \in Faults
    /\ pc[r] = "fetch"
    /\ cur[r] \in Types
    /\ cur' = [cur EXCEPT ![r] = 1]
    /\ UNCHANGED <<bronze, marker, pc, hits, found, written>>

\* The exception leaves the loop and reaches s3_transaction.
FetchRaises(r) ==
    /\ "raise" \in Faults
    /\ pc[r] = "fetch"
    /\ cur[r] \in Types
    /\ pc' = [pc EXCEPT ![r] = "rollback"]
    /\ UNCHANGED <<bronze, marker, cur, hits, found, written>>

\* Mutant of Upload: the key does not join written_keys.
UploadForgetsKey(r) ==
    /\ pc[r] = "upload"
    /\ bronze' = [bronze EXCEPT ![cur[r]] = [by |-> r, items |-> hits[r]]]
    /\ cur' = [cur EXCEPT ![r] = @ + 1]
    /\ pc' = [pc EXCEPT ![r] = "fetch"]
    /\ UNCHANGED <<marker, hits, found, written>>

\* upload_type is acknowledged: the key joins written_keys.
Upload(r) ==
    /\ pc[r] = "upload"
    /\ bronze' = [bronze EXCEPT ![cur[r]] = [by |-> r, items |-> hits[r]]]
    /\ written' = [written EXCEPT ![r] = @ \cup {cur[r]}]
    /\ cur' = [cur EXCEPT ![r] = @ + 1]
    /\ pc' = [pc EXCEPT ![r] = "fetch"]
    /\ UNCHANGED <<marker, hits, found>>

\* Mutant of UploadRaises: the error is logged and the loop goes on.
UploadRaisesSwallowed(r) ==
    /\ pc[r] = "upload"
    /\ "put" \in Faults
    /\ cur' = [cur EXCEPT ![r] = @ + 1]
    /\ pc' = [pc EXCEPT ![r] = "fetch"]
    /\ UNCHANGED <<bronze, marker, hits, found, written>>

\* upload_type raises: the key does not join written_keys, although the put
\* may have taken effect.
UploadRaises(r) ==
    /\ pc[r] = "upload"
    /\ \/ /\ "put" \in Faults
          /\ UNCHANGED bronze
       \/ /\ "put_unacked" \in Faults
          /\ bronze' = [bronze EXCEPT ![cur[r]] = [by |-> r, items |-> hits[r]]]
    /\ pc' = [pc EXCEPT ![r] = "rollback"]
    /\ UNCHANGED <<marker, cur, hits, found, written>>

\* After the loop, a day without any item leaves the partition alone.
NoData(r) ==
    /\ pc[r] = "fetch"
    /\ cur[r] \notin Types
    /\ found[r] = {}
    /\ pc' = [pc EXCEPT ![r] = "no_data"]
    /\ UNCHANGED <<bronze, marker, cur, hits, found, written>>

\* Mutant of PutMarker: the marker does not wait for the last upload.
PutMarkerEarly(r) ==
    /\ pc[r] \in {"fetch", "upload"}
    /\ cur[r] \notin 1 .. NTypes - 1
    /\ found[r] # {}
    /\ marker' = marker \cup {r}
    /\ pc' = [pc EXCEPT ![r] = "done"]
    /\ UNCHANGED <<bronze, cur, hits, found, written>>

\* After the loop, the put of _SUCCESS is acknowledged and the handler
\* returns the date.
PutMarker(r) ==
    /\ pc[r] = "fetch"
    /\ cur[r] \notin Types
    /\ found[r] # {}
    /\ marker' = marker \cup {r}
    /\ pc' = [pc EXCEPT ![r] = "done"]
    /\ UNCHANGED <<bronze, cur, hits, found, written>>

\* The put of _SUCCESS raises inside s3_transaction, possibly after it took
\* effect.  success_key is never in written_keys.
PutMarkerRaises(r) ==
    /\ pc[r] = "fetch"
    /\ cur[r] \notin Types
    /\ found[r] # {}
    /\ \/ /\ "put" \in Faults
          /\ UNCHANGED marker
       \/ /\ "put_unacked" \in Faults
          /\ marker' = marker \cup {r}
    /\ pc' = [pc EXCEPT ![r] = "rollback"]
    /\ UNCHANGED <<bronze, cur, hits, found, written>>

\* One turn of the loop in rollback: the key is deleted, or the error is
\* logged and swallowed.
RollbackKey(r) ==
    /\ pc[r] = "rollback"
    /\ \E t \in written[r] :
         /\ \A u \in written[r] : t <= u
         /\ \/ /\ CanDelete
               /\ bronze' = [bronze EXCEPT ![t] = NoFile]
            \/ /\ ~CanDelete \/ "delete" \in Faults
               /\ UNCHANGED bronze
         /\ written' = [written EXCEPT ![r] = @ \ {t}]
    /\ UNCHANGED <<marker, pc, cur, hits, found>>

\* The rollback is over and the exception is re-raised to the caller.
Fail(r) ==
    /\ pc[r] = "rollback"
    /\ written[r] = {}
    /\ pc' = [pc EXCEPT ![r] = "failed"]
    /\ UNCHANGED <<bronze, marker, cur, hits, found, written>>

\* The Lambda is stopped between two calls: no rollback runs.
Kill(r) ==
    /\ "kill" \in Faults
    /\ pc[r] \in Active
    /\ pc' = [pc EXCEPT ![r] = "killed"]
    /\ UNCHANGED <<bronze, marker, cur, hits, found, written>>

\* The steps a running Lambda takes by itself.
Step(r) ==
    \/ Fetch(r) \/ FetchNothing(r) \/ FetchRaises(r)
    \/ Upload(r) \/ UploadRaises(r)
    \/ NoData(r)
    \/ PutMarker(r) \/ PutMarkerRaises(r)
    \/ RollbackKey(r) \/ Fail(r)

Next == \E r \in Runs : Begin(r) \/ Step(r) \/ Kill(r)

Spec == Init /\ [][Next]_vars

\* A Lambda that was started executes until it returns, raises or is killed:
\* every call it makes has a time limit.
FairSpec == Spec /\ \A r \in Runs : WF_vars(Step(r))

-----------------------------------------------------------------------------
(***************************************************************************)
(* Properties                                                              *)
(***************************************************************************)

Exists(t) == bronze[t] # NoFile

\* The marker promises that the objects of the run that put it are there
\* (lambda_function.py:257): a partition with _SUCCESS has an object for
\* every type that run found.
PublishedFilesPresent ==
    \A r \in marker : \A t \in found[r] : Exists(t)

\* _SUCCESS is put last (lambda_function.py:14): in the step that puts it,
\* every type that run found has had its put acknowledged, and it found some.
MarkerComesLast ==
    [][\A r \in marker' \ marker : written[r] = found[r] /\ found[r] # {}]_vars

\* Run q has taken type t back: its rollback passed over the key.
RolledBack(q, t) ==
    /\ pc[q] \in {"rollback", "failed", "killed"}
    /\ t \in found[q] \ written[q]
    /\ t < cur[q]

\* Whatever the interleaving, an object the marker promises can only be gone
\* because the rollback of some run that uploaded the same type passed over
\* its key; an overwrite, a crash or a lost response never removes it.
OnlyRollbackUnpublishes ==
    \A r \in marker : \A t \in found[r] :
        Exists(t) \/ \E q \in Runs : RolledBack(q, t)

\* A run that reports failure has rolled its uploads back
\* (lambda_function.py:16): no object it put is left.
FailedRunLeavesNothing ==
    \A r \in Runs : pc[r] = "failed" =>
        \A t \in Types : Exists(t) => bronze[t].by # r

\* Where deletes work, what survives the rollback of a failed run is at most one
\* object: the one whose put took effect without an acknowledgement, which
\* rollback is never told of (lambda_function.py:243-244).
OnlyUnackedPutSurvives ==
    \A r \in Runs : pc[r] = "failed" =>
        \A t \in Types : Exists(t) /\ bronze[t].by = r => t = cur[r]

\* A partition with _SUCCESS holds all that the windows cover
\* (lambda_function.py:257): nothing is missing from it but what no run could
\* have collected.
PublishedHoldsCovered ==
    marker # {} => \A t \in Types :
        Covered[t] # {} => Exists(t) /\ bronze[t].items = Covered[t]

\* Every invocation that started comes to an end.
RunsEnd == \A r \in Runs : pc[r] = "fetch" ~> pc[r] \in Ended

=============================================================================
