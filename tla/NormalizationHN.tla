--------------------------- MODULE NormalizationHN ---------------------------
(***************************************************************************)
(* The Silver layer, Hacker News side: invocations of the normalization_hn *)
(* Lambda (src/normalization_hn/lambda_function.py) for one day.           *)
(*                                                                         *)
(* An invocation checks _SUCCESS, reads the type files with one thread per *)
(* type, merges them in the order the reads complete, and puts one object  *)
(* per non-empty table with one thread per table.  The day's object of a   *)
(* table has one key (run_tag, silver_key), whatever the invocation.       *)
(* bronze and marker belong to Ingestion; this module only reads them.     *)
(***************************************************************************)
EXTENDS Naturals, FiniteSets, Functions

CONSTANTS
    Norms,      \* invocations of normalization_hn for this day
    NTypes,     \* number of item types (len(ITEM_TYPES), 5 in the code)
    Items,      \* the day's items, named by their objectID
    NoFile,     \* an absent object
    Tables,     \* the Silver tables written, 7 in the code
    Yields,     \* Yields[tab]: the items that contribute a row to the table
    NFaults     \* which faults the environment may show, see NFaultKinds

(***************************************************************************)
(* "head":        the request for _SUCCESS fails with a ClientError        *)
(* "read":        get_object fails and read_type_file returns []           *)
(* "body":        reading or parsing the body raises                       *)
(* "put":         a put fails and leaves the object as it was              *)
(* "put_unacked": a put takes effect but its response is lost              *)
(* "kill":        the Lambda is stopped without cleanup                    *)
(***************************************************************************)
NFaultKinds == {"head", "read", "body", "put", "put_unacked", "kill"}

Types == 1 .. NTypes

\* The rows of a table, by the item that yields them.  Only posts records the
\* type an item was read under (post_type); the others hold 0.
Rows == UNION {[S -> 0 .. NTypes] : S \in SUBSET Items}

ASSUME NormalizationAssumption ==
    /\ NTypes \in Nat
    /\ "posts" \in Tables
    /\ Yields \in [Tables -> SUBSET Items]
    /\ Yields["posts"] = Items
    /\ NoFile \notin Rows
    /\ NFaults \subseteq NFaultKinds

VARIABLES
    bronze,   \* bronze[t]: the object {type}.json, or NoFile (Ingestion)
    marker,   \* not empty iff _SUCCESS exists (Ingestion)
    silver,   \* silver[tab]: the rows of the day's object of a table, or NoFile
    npc,      \* npc[n]: what invocation n does next
    unread,   \* unread[n]: types whose file is still to be read
    got,      \* got[n][t]: items read from the file of type t
    kind,     \* kind[n]: post_type of each item kept by the deduplication
    todo,     \* todo[n]: tables whose put is still to come
    lost      \* lost[n]: tables whose put raised

nvars == <<silver, npc, unread, got, kind, todo, lost>>

NActive == {"read", "write"}
NEnded == {"done", "no_data", "skipped", "failed", "killed"}

NTypeOK ==
    /\ silver \in [Tables -> Rows \cup {NoFile}]
    /\ npc \in [Norms -> {"idle"} \cup NActive \cup NEnded]
    /\ unread \in [Norms -> SUBSET Types]
    /\ got \in [Norms -> [Types -> SUBSET Items]]
    /\ kind \in [Norms -> Rows]
    /\ todo \in [Norms -> SUBSET Tables]
    /\ lost \in [Norms -> SUBSET Tables]

\* Mutant of NInit: the types are numbered from 0.
NInitFromZero ==
    /\ silver = [tab \in Tables |-> NoFile]
    /\ npc = [n \in Norms |-> "idle"]
    /\ unread = [n \in Norms |-> 0 .. NTypes]
    /\ got = [n \in Norms |-> [t \in Types |-> {}]]
    /\ kind = [n \in Norms |-> [x \in {} |-> 0]]
    /\ todo = [n \in Norms |-> {}]
    /\ lost = [n \in Norms |-> {}]

NInit ==
    /\ silver = [tab \in Tables |-> NoFile]
    /\ npc = [n \in Norms |-> "idle"]
    /\ unread = [n \in Norms |-> Types]
    /\ got = [n \in Norms |-> [t \in Types |-> {}]]
    /\ kind = [n \in Norms |-> [x \in {} |-> 0]]
    /\ todo = [n \in Norms |-> {}]
    /\ lost = [n \in Norms |-> {}]

-----------------------------------------------------------------------------

\* check_success finds the marker.
Check(n) ==
    /\ npc[n] = "idle"
    /\ marker # {}
    /\ npc' = [npc EXCEPT ![n] = "read"]
    /\ UNCHANGED <<silver, unread, got, kind, todo, lost>>

\* check_success finds no marker, or takes a failed request for that.  The
\* invocation ends without an error.
Skip(n) ==
    /\ npc[n] = "idle"
    /\ marker = {} \/ "head" \in NFaults
    /\ npc' = [npc EXCEPT ![n] = "skipped"]
    /\ UNCHANGED <<silver, unread, got, kind, todo, lost>>

\* What read_type_file returns: nothing for an absent file and, silently, for
\* a failed request.
Content(t) == IF bronze[t] = NoFile THEN {} ELSE bronze[t].items

Readable(t) == {Content(t)} \cup IF "read" \in NFaults THEN {{}} ELSE {}

\* One of the reading threads completes; the threads run in any order.
ReadType(n) ==
    /\ npc[n] = "read"
    /\ \E t \in unread[n] :
         /\ unread' = [unread EXCEPT ![n] = @ \ {t}]
         /\ \E items \in Readable(t) : got' = [got EXCEPT ![n][t] = items]
    /\ UNCHANGED <<silver, npc, kind, todo, lost>>

\* The body of a file cannot be read or parsed: future.result() raises, and
\* nothing has been written.
ReadRaises(n) ==
    /\ "body" \in NFaults
    /\ npc[n] = "read"
    /\ \E t \in unread[n] : bronze[t] # NoFile
    /\ npc' = [npc EXCEPT ![n] = "failed"]
    /\ UNCHANGED <<silver, unread, got, kind, todo, lost>>

\* All files are read, and there is no item in any of them.
NothingRead(n) ==
    /\ npc[n] = "read"
    /\ unread[n] = {}
    /\ \A t \in Types : got[n][t] = {}
    /\ npc' = [npc EXCEPT ![n] = "no_data"]
    /\ UNCHANGED <<silver, unread, got, kind, todo, lost>>

\* The type under which x is met last, when type t comes order[t]-th.
LastMet(files, order, x) ==
    CHOOSE t \in Types :
        /\ x \in files[t]
        /\ \A u \in Types : x \in files[u] => order[u] <= order[t]

\* Mutant of Dedup: it does not wait for all the files.
DedupEarly(n) ==
    /\ npc[n] = "read"
    /\ \E t \in Types : got[n][t] # {}
    /\ kind' = [kind EXCEPT ![n] =
                   [x \in UNION Range(got[n]) |-> LastMet(got[n], [t \in Types |-> t], x)]]
    /\ todo' = [todo EXCEPT ![n] = Tables]
    /\ npc' = [npc EXCEPT ![n] = "write"]
    /\ UNCHANGED <<silver, unread, got, lost>>

\* The items are deduplicated by objectID, the last one met winning; they are
\* met in the order as_completed yields the files, which may be any.
Dedup(n) ==
    /\ npc[n] = "read"
    /\ unread[n] = {}
    /\ \E t \in Types : got[n][t] # {}
    /\ \E order \in Bijection(Types, Types) :
         kind' = [kind EXCEPT ![n] = [x \in UNION Range(got[n]) |->
                                          LastMet(got[n], order, x)]]
    /\ todo' = [todo EXCEPT ![n] = Tables]
    /\ npc' = [npc EXCEPT ![n] = "write"]
    /\ UNCHANGED <<silver, unread, got, lost>>

\* The rows of a table, built from the deduplicated items.
RowsOf(n, tab) ==
    [x \in DOMAIN kind[n] \cap Yields[tab] |-> IF tab = "posts" THEN kind[n][x] ELSE 0]

\* put_parquet puts the table's object over the one of an earlier run.
PutTable(n) ==
    /\ npc[n] = "write"
    /\ \E tab \in todo[n] :
         /\ DOMAIN RowsOf(n, tab) # {}
         /\ silver' = [silver EXCEPT ![tab] = RowsOf(n, tab)]
         /\ todo' = [todo EXCEPT ![n] = @ \ {tab}]
    /\ UNCHANGED <<npc, unread, got, kind, lost>>

\* put_parquet does nothing for a table without rows.
PutNothing(n) ==
    /\ npc[n] = "write"
    /\ \E tab \in todo[n] :
         /\ DOMAIN RowsOf(n, tab) = {}
         /\ todo' = [todo EXCEPT ![n] = @ \ {tab}]
    /\ UNCHANGED <<silver, npc, unread, got, kind, lost>>

\* Mutant of PutRaises: future.result() is not called.
PutRaisesUnnoticed(n) ==
    /\ npc[n] = "write"
    /\ "put" \in NFaults
    /\ \E tab \in todo[n] : todo' = [todo EXCEPT ![n] = @ \ {tab}]
    /\ UNCHANGED <<silver, npc, unread, got, kind, lost>>

\* The put raises in its thread, possibly after it took effect; the other
\* threads go on.
PutRaises(n) ==
    /\ npc[n] = "write"
    /\ \E tab \in todo[n] :
         /\ DOMAIN RowsOf(n, tab) # {}
         /\ \/ /\ "put" \in NFaults
               /\ UNCHANGED silver
            \/ /\ "put_unacked" \in NFaults
               /\ silver' = [silver EXCEPT ![tab] = RowsOf(n, tab)]
         /\ todo' = [todo EXCEPT ![n] = @ \ {tab}]
         /\ lost' = [lost EXCEPT ![n] = @ \cup {tab}]
    /\ UNCHANGED <<npc, unread, got, kind>>

\* Mutant of Finish: the handler returns without waiting for the pool.
FinishEarly(n) ==
    /\ npc[n] = "write"
    /\ lost[n] = {}
    /\ npc' = [npc EXCEPT ![n] = "done"]
    /\ UNCHANGED <<silver, unread, got, kind, todo, lost>>

\* The pool is drained: the handler returns, or re-raises what a thread raised.
Finish(n) ==
    /\ npc[n] = "write"
    /\ todo[n] = {}
    /\ npc' = [npc EXCEPT ![n] = IF lost[n] = {} THEN "done" ELSE "failed"]
    /\ UNCHANGED <<silver, unread, got, kind, todo, lost>>

NKill(n) ==
    /\ "kill" \in NFaults
    /\ npc[n] \in NActive
    /\ npc' = [npc EXCEPT ![n] = "killed"]
    /\ UNCHANGED <<silver, unread, got, kind, todo, lost>>

\* The steps a running Lambda takes by itself.
NStep(n) ==
    \/ ReadType(n) \/ ReadRaises(n)
    \/ NothingRead(n) \/ Dedup(n)
    \/ PutTable(n) \/ PutNothing(n) \/ PutRaises(n)
    \/ Finish(n)

NNext == \E n \in Norms : Check(n) \/ Skip(n) \/ NStep(n) \/ NKill(n)
=============================================================================
