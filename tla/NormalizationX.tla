--------------------------- MODULE NormalizationX ---------------------------
(***************************************************************************)
(* The Silver layer, X side: invocations of the normalization_x Lambda     *)
(* (src/normalization_x/lambda_function.py).                               *)
(*                                                                         *)
(* An invocation takes one day, or every day that has a marker, and for    *)
(* each of them reads the one CSV file of the day and puts the nine Silver *)
(* tables one after the other.  The CSV files and the markers are uploaded *)
(* by hand, in any order and at any time, and a file may be uploaded again *)
(* with other rows.                                                        *)
(***************************************************************************)
EXTENDS SilverTables, SequencesExt

CONSTANTS
    XNorms,      \* invocations of normalization_x
    Csv,         \* Csv[d][s][v]: rows of the v-th upload of the day's file of s
    NoName,      \* the name in a row without one, or with too few fields
    UserId,      \* UserId[name]: the id of a name, whatever its case
    WriteOrder,  \* the tables in the order they are written, nine in the code
    XFaults      \* which faults the environment may show, see XFaultKinds

(***************************************************************************)
(* "head":        the request for _SUCCESS fails with a ClientError        *)
(* "list", "get": listing the day's files or reading its CSV file raises   *)
(* "put":         a put fails and leaves the object as it was              *)
(* "put_unacked": a put takes effect but its response is lost              *)
(* "kill":        the Lambda is stopped without cleanup                    *)
(***************************************************************************)
XFaultKinds == {"head", "list", "get", "put", "put_unacked", "kill"}

\* A row of a file: times and numbers, and the values it names in each column.
IsCsvRow(r) ==
    /\ {r.at, r.account, r.followers} \subseteq Nat \cup {Unknown}
    /\ r.retweet \in BOOLEAN
    /\ \A column \in {"hashtags", "urls", "sources"} : IsFiniteSet(r.refs[column])

ASSUME XAssumption ==
    /\ \A d \in Days, s \in XSources :
           /\ Csv[d][s] \in Seq(Range(Csv[d][s]))
           /\ \A csv \in Range(Csv[d][s]) : csv \in Seq(Range(csv)) /\ \A r \in Range(csv) : IsCsvRow(r)
    /\ WriteOrder \in Seq(SilverTableNames)
    /\ XFaults \subseteq XFaultKinds

VARIABLES
    chunk,     \* chunk[d][s]: which upload of the CSV file is there, 0 for none
    marked,    \* the days that have _SUCCESS
    xpc,       \* xpc[n]: what invocation n does next
    queue,     \* queue[n]: its days still to be done, the current one included
    source,    \* source[n]: the source of the current day
    at,        \* at[n]: position in WriteOrder of the table to be put next
    took,      \* took[n][k]: the upload it read for key k, 0 for none
    processed  \* processed[n]: the days it reports as processed

xvars == <<silver, chunk, marked, xpc, queue, source, at, took, processed>>

XKeys == Days \X XSources

XActive == {"check", "list", "read", "write"}
XEnded == {"done", "no_target", "failed", "killed"}

-----------------------------------------------------------------------------
(***************************************************************************)
(* The rows of the tables (process_gpreda_csv)                             *)
(***************************************************************************)

\* The rows of upload v of the day and source k that are not skipped, each at
\* its place in the file.
Posted == [k \in XKeys |-> [v \in DOMAIN Csv[k[1]][k[2]] |->
              LET csv == Csv[k[1]][k[2]][v]
              IN  Restrict(csv, {i \in DOMAIN csv : csv[i].user # NoName})]]

\* The id of a post is made of the name as spelled, the date and the text.
PostId(r) == <<r.user, r.at, r.text>>

PostRow(r) ==
    [id |-> PostId(r), author |-> UserId[r.user], platform |-> "X",
     kind |-> IF r.retweet THEN "retweet" ELSE "tweet", at |-> r.at, score |-> Unknown]

SnapshotRow(r) == [id |-> UserId[r.user], at |-> r.at, followers |-> r.followers]

UserRow(r) ==
    [id |-> UserId[r.user], name |-> r.user, platform |-> "X",
     account |-> r.account, karma |-> Unknown, followers |-> r.followers]

\* The places of the rows with a name as spelled, and the last of those that
\* are not older than another: what user_latest holds for the name in the end.
PlacesOf(csv, name) == {i \in DOMAIN csv : csv[i].user = name}

LatestPlace(csv, name) ==
    CHOOSE i \in PlacesOf(csv, name) :
        \A j \in PlacesOf(csv, name) :
            \/ csv[j].at < csv[i].at
            \/ csv[j].at = csv[i].at /\ j <= i

\* A row for each name, in the order the names first appear.
UserRows(csv) ==
    [i \in {j \in DOMAIN csv : \A l \in PlacesOf(csv, csv[j].user) : j <= l} |->
        UserRow(csv[LatestPlace(csv, csv[i].user)])]

\* One row for each value named.
DimensionRows(csv, column) ==
    SetToSeq({[id |-> x] : x \in UNION {csv[i].refs[column] : i \in DOMAIN csv}})

\* One for each post that names it: a post that is in the file twice has the
\* same rows twice, which are read as one.
LinkRows(csv, column) ==
    SetToSeq({[id |-> x] : x \in UNION {{PostId(csv[i])} \X csv[i].refs[column] : i \in DOMAIN csv}})

Rows(csv, tab) ==
    CASE tab = "posts" -> [i \in DOMAIN csv |-> PostRow(csv[i])]
      [] tab = "users" -> UserRows(csv)
      [] tab = "user_snapshots" -> [i \in DOMAIN csv |-> SnapshotRow(csv[i])]
      [] tab \in {"hashtags", "urls", "sources"} -> DimensionRows(csv, tab)
      [] tab = "post_hashtags" -> LinkRows(csv, "hashtags")
      [] tab = "post_urls" -> LinkRows(csv, "urls")
      [] tab = "post_engagement" -> <<>>

\* What upload v of the day and source k makes of a table.
Tables == [k \in XKeys |-> [v \in DOMAIN Csv[k[1]][k[2]] |->
              [tab \in SilverTableNames |-> Rows(Posted[k][v], tab)]]]

TableOf(k, v, tab) == Tables[k][v][tab]

-----------------------------------------------------------------------------

XTypeOK ==
    /\ \A k \in XKeys : chunk[k[1]][k[2]] \in 0 .. Len(Csv[k[1]][k[2]])
    /\ marked \subseteq Days
    /\ xpc \in [XNorms -> {"idle"} \cup XActive \cup XEnded]
    /\ queue \in [XNorms -> SUBSET Days]
    /\ source \in [XNorms -> XSources]
    /\ at \in [XNorms -> 1 .. Len(WriteOrder) + 1]
    /\ \A n \in XNorms, k \in XKeys : took[n][k] \in 0 .. chunk[k[1]][k[2]]
    /\ processed \in [XNorms -> SUBSET Days]

\* The bucket before anything of X was uploaded.
XInit ==
    /\ chunk = [d \in Days |-> [s \in XSources |-> 0]]
    /\ marked = {}
    /\ xpc = [n \in XNorms |-> "idle"]
    /\ queue = [n \in XNorms |-> {}]
    /\ source = [n \in XNorms |-> "covid"]
    /\ at = [n \in XNorms |-> 1]
    /\ took = [n \in XNorms |-> [k \in XKeys |-> 0]]
    /\ processed = [n \in XNorms |-> {}]

\* A CSV file is uploaded, for the first time or again.
Upload(d, s) ==
    /\ chunk[d][s] < Len(Csv[d][s])
    /\ chunk' = [chunk EXCEPT ![d][s] = @ + 1]
    /\ UNCHANGED <<silver, marked, xpc, queue, source, at, took, processed>>

\* A marker is uploaded.
Mark(d) ==
    /\ d \notin marked
    /\ marked' = marked \cup {d}
    /\ UNCHANGED <<silver, chunk, xpc, queue, source, at, took, processed>>

\* The event names a day, or asks for every day with a marker.
Target(n) ==
    /\ xpc[n] = "idle"
    /\ \/ \E d \in Days : queue' = [queue EXCEPT ![n] = {d}]
       \/ queue' = [queue EXCEPT ![n] = marked]
    /\ xpc' = [xpc EXCEPT ![n] = "check"]
    /\ UNCHANGED <<silver, chunk, marked, source, at, took, processed>>

\* The event does neither.
NoTarget(n) ==
    /\ xpc[n] = "idle"
    /\ xpc' = [xpc EXCEPT ![n] = "no_target"]
    /\ UNCHANGED <<silver, chunk, marked, queue, source, at, took, processed>>

\* The day an invocation is at: the days are taken in their order.
Day(n) == CHOOSE d \in queue[n] : \A e \in queue[n] : d <= e

\* check_success finds the marker of the day.
CheckMarker(n) ==
    /\ xpc[n] = "check"
    /\ queue[n] # {}
    /\ Day(n) \in marked
    /\ xpc' = [xpc EXCEPT ![n] = "list"]
    /\ UNCHANGED <<silver, chunk, marked, queue, source, at, took, processed>>

\* It finds none, or takes a failed request for that: the day is skipped.
SkipUnmarked(n) ==
    /\ xpc[n] = "check"
    /\ queue[n] # {}
    /\ Day(n) \notin marked \/ "head" \in XFaults
    /\ queue' = [queue EXCEPT ![n] = @ \ {Day(n)}]
    /\ UNCHANGED <<silver, chunk, marked, xpc, source, at, took, processed>>

\* The sources whose CSV file the day has.
Listed(d) == {s \in XSources : chunk[d][s] # 0}

\* The files of the day are listed, and covid.csv is taken before bitcoin.csv.
ListFiles(n) ==
    /\ xpc[n] = "list"
    /\ Listed(Day(n)) # {}
    /\ source' = [source EXCEPT ![n] =
                      IF "covid" \in Listed(Day(n)) THEN "covid" ELSE "bitcoin"]
    /\ xpc' = [xpc EXCEPT ![n] = "read"]
    /\ UNCHANGED <<silver, chunk, marked, queue, at, took, processed>>

\* There is no file of a known name: the day is skipped.
SkipUnknown(n) ==
    /\ xpc[n] = "list"
    /\ Listed(Day(n)) = {}
    /\ queue' = [queue EXCEPT ![n] = @ \ {Day(n)}]
    /\ xpc' = [xpc EXCEPT ![n] = "check"]
    /\ UNCHANGED <<silver, chunk, marked, source, at, took, processed>>

\* The day and source an invocation is working on.
Key(n) == <<Day(n), source[n]>>

\* The CSV file is read, as it is now, and parsed.
ReadCsv(n) ==
    /\ xpc[n] = "read"
    /\ took' = [took EXCEPT ![n][Key(n)] = chunk[Key(n)[1]][Key(n)[2]]]
    /\ at' = [at EXCEPT ![n] = 1]
    /\ xpc' = [xpc EXCEPT ![n] = "write"]
    /\ UNCHANGED <<silver, chunk, marked, queue, source, processed>>

\* A request raises, and with it the invocation: no later day is done.
XRaises(n) ==
    /\ \/ xpc[n] = "list" /\ "list" \in XFaults
       \/ xpc[n] = "read" /\ "get" \in XFaults
    /\ xpc' = [xpc EXCEPT ![n] = "failed"]
    /\ UNCHANGED <<silver, chunk, marked, queue, source, at, took, processed>>

Table(n) == WriteOrder[at[n]]

NewRows(n) == TableOf(Key(n), took[n][Key(n)], Table(n))

\* Mutant of Object: the key does not name the source.
ObjectOfDay(n) == <<Key(n)[1], "covid">>

\* The key of the object that is put names the day and the source.
Object(n) == Key(n)

\* put_parquet replaces the object of the day and source.
XPutTable(n) ==
    /\ xpc[n] = "write"
    /\ at[n] <= Len(WriteOrder)
    /\ NewRows(n) # <<>>
    /\ silver' = [silver EXCEPT ![Table(n)][Object(n)] = NewRows(n)]
    /\ at' = [at EXCEPT ![n] = @ + 1]
    /\ UNCHANGED <<chunk, marked, xpc, queue, source, took, processed>>

\* put_parquet does nothing for a table without rows.
XPutNothing(n) ==
    /\ xpc[n] = "write"
    /\ at[n] <= Len(WriteOrder)
    /\ NewRows(n) = <<>>
    /\ at' = [at EXCEPT ![n] = @ + 1]
    /\ UNCHANGED <<silver, chunk, marked, xpc, queue, source, took, processed>>

\* Mutant of XPutRaises: the error is caught, and the next table put.
XPutRaisesCaught(n) ==
    /\ xpc[n] = "write"
    /\ at[n] <= Len(WriteOrder)
    /\ "put" \in XFaults
    /\ at' = [at EXCEPT ![n] = @ + 1]
    /\ UNCHANGED <<silver, chunk, marked, xpc, queue, source, took, processed>>

\* The put raises, possibly after it took effect, and no later table is put.
XPutRaises(n) ==
    /\ xpc[n] = "write"
    /\ at[n] <= Len(WriteOrder)
    /\ NewRows(n) # <<>>
    /\ \/ "put" \in XFaults /\ UNCHANGED silver
       \/ /\ "put_unacked" \in XFaults
          /\ silver' = [silver EXCEPT ![Table(n)][Object(n)] = NewRows(n)]
    /\ xpc' = [xpc EXCEPT ![n] = "failed"]
    /\ UNCHANGED <<chunk, marked, queue, source, at, took, processed>>

\* The loop over the tables ends, and the next day is taken.
DayDone(n) ==
    /\ xpc[n] = "write"
    /\ at[n] > Len(WriteOrder)
    /\ processed' = [processed EXCEPT ![n] = @ \cup {Day(n)}]
    /\ queue' = [queue EXCEPT ![n] = @ \ {Day(n)}]
    /\ xpc' = [xpc EXCEPT ![n] = "check"]
    /\ UNCHANGED <<silver, chunk, marked, source, at, took>>

\* No day is left: the invocation reports the processed and the skipped days.
Return(n) ==
    /\ xpc[n] = "check"
    /\ queue[n] = {}
    /\ xpc' = [xpc EXCEPT ![n] = "done"]
    /\ UNCHANGED <<silver, chunk, marked, queue, source, at, took, processed>>

XKill(n) ==
    /\ "kill" \in XFaults
    /\ xpc[n] \in XActive
    /\ xpc' = [xpc EXCEPT ![n] = "killed"]
    /\ UNCHANGED <<silver, chunk, marked, queue, source, at, took, processed>>

\* The steps a running Lambda takes by itself.
XStep(n) ==
    \/ CheckMarker(n) \/ SkipUnmarked(n)
    \/ ListFiles(n) \/ SkipUnknown(n) \/ ReadCsv(n) \/ XRaises(n)
    \/ XPutTable(n) \/ XPutNothing(n) \/ XPutRaises(n)
    \/ DayDone(n) \/ Return(n)

XNext ==
    \/ \E d \in Days : Mark(d) \/ \E s \in XSources : Upload(d, s)
    \/ \E n \in XNorms : Target(n) \/ NoTarget(n) \/ XStep(n) \/ XKill(n)

-----------------------------------------------------------------------------
(***************************************************************************)
(* Properties                                                              *)
(***************************************************************************)

\* Nothing is ever clobbered across runs (silver_common.py:286): the object of
\* a day and source is what one of the uploads of that day and source makes of
\* the table, as an invocation that read it for this key found it.
NothingClobbered ==
    \A tab \in SilverTableNames, k \in XKeys : silver[tab][k] # <<>> =>
        \E n \in XNorms : took[n][k] # 0 /\ silver[tab][k] = TableOf(k, took[n][k], tab)

\* A day reported as processed is whole in Silver, table by table, as long as
\* every invocation that read its file read the same upload: those still
\* writing, those that failed or were stopped half-way, and those that take
\* the day again do not disturb it.
ProcessedDayIsWhole ==
    \A n \in XNorms, k \in XKeys :
        /\ k[1] \in processed[n]
        /\ took[n][k] # 0
        /\ \A m \in XNorms : took[m][k] \in {0, took[n][k]}
        => \A tab \in Range(WriteOrder) : silver[tab][k] = TableOf(k, took[n][k], tab)
=============================================================================
