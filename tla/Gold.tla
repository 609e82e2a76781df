-------------------------------- MODULE Gold --------------------------------
(***************************************************************************)
(* The Gold layer: invocations of the analytics Lambda                     *)
(* (src/analytics/lambda_function.py, gold_common.py), each for one day.   *)
(*                                                                         *)
(* An invocation reads Silver four times, then computes and writes eight   *)
(* metrics one after the other, each on its own: an error in one is noted  *)
(* and the next is computed.  A written metric replaces its partitions of  *)
(* the day, or its whole table, by deleting what is there and putting a    *)
(* file of its own.  Silver is only read here.                             *)
(***************************************************************************)
EXTENDS SilverTables

CONSTANTS
    GRuns,      \* invocations of the analytics Lambda
    Earlier,    \* an invocation of before, whose files are in every partition
    Steps,      \* the metrics in the order they are computed, eight in the code
    QTables,    \* the tables data_quality_score reads, nine in the code
    TopN,       \* length of a ranking, 10 in the code
    GFaults     \* which faults the environment may show, see GFaultKinds

(***************************************************************************)
(* "read":    reading a Silver table raises, and it is taken for empty     *)
(* "compute": computing a metric raises                                    *)
(* "write":   deleting or putting a file of a metric raises                *)
(* "kill":    the Lambda is stopped without cleanup                        *)
(***************************************************************************)
GFaultKinds == {"read", "compute", "write", "kill"}

Metrics ==
    {"daily_post_counts", "daily_users_metric", "top_x_users_followers",
     "top_hn_users_karma", "bottom_hn_users_karma", "top_hn_jobs_score",
     "top_hn_stories_score", "data_quality_score"}

NoDay == 0
NoPlatform == "all"

\* The partitions of a metric: of a platform and a date, of a date, or the one
\* of a table without either.
Partitions == {<<NoPlatform, NoDay>>} \cup ({NoPlatform, "HackerNews", "X"} \X Days)

WrittenBefore(p, q) == p[1] = "HackerNews" /\ q[1] = "X"

ASSUME GoldAssumption ==
    /\ NoDay \notin Days
    /\ Earlier \notin GRuns
    /\ Steps \in Seq(Metrics)
    /\ QTables \in Seq(SilverTableNames)
    /\ TopN \in Nat
    /\ GFaults \subseteq GFaultKinds

VARIABLES
    gold,     \* gold[m][p]: the invocations with a file in partition p of metric m
    gpc,      \* gpc[g]: what invocation g does next
    day,      \* day[g]: its target date
    snap,     \* snap[g]: what its reads returned, in the order of ReadOrder
    step,     \* step[g]: position in Steps of the metric it is at
    counted,  \* counted[g]: the row counts read so far, in the order of QTables
    result,   \* result[g][m]: the metric it computed, a value for each partition
    left,     \* left[g]: the partitions of the metric still to be replaced
    holes,    \* holes[g]: partitions it has emptied and not put a file in (history)
    summary,  \* summary[g]: the partitions of the metrics it reports as written
    errors,   \* errors[g]: the metrics it reports as failed
    ago       \* ago[g]: the invocations that were over when it began (history)

gvars == <<gold, gpc, day, snap, step, counted, result, left, holes, summary, errors, ago>>

GActive == {"read", "compute", "clear", "put"}
GEnded == {"done", "killed"}

Nothing == [x \in {} |-> 0]

-----------------------------------------------------------------------------
(***************************************************************************)
(* The metrics                                                             *)
(***************************************************************************)

\* The date of a time.
DateOf(t) == t \div TicksPerDay

Of(rows, platform) == {r \in rows : r.platform = platform}

\* daily_post_counts: for each platform with a post, the posts of each type.
PostCounts(d, posts) ==
    [p \in {q \in {"HackerNews", "X"} \X {d} : Of(posts, q[1]) # {}} |->
        [k \in {r.kind : r \in Of(posts, p[1])} |->
            Cardinality({r \in Of(posts, p[1]) : r.kind = k})]]

\* The dates of the dated posts of a user.
PostDates(posts, u) == {DateOf(r.at) : r \in {q \in posts : q.author = u /\ q.at # Unknown}}

\* Mutant of FirstSeen: the earliest post comes before the account's own date.
FirstSeenByPost(users, posts) ==
    LET dated == {r \in users : r.account # Unknown}
        posting == {r.author : r \in {q \in posts : q.at # Unknown}}
    IN  [u \in {r.id : r \in dated} \cup posting |->
            IF u \in posting
            THEN CHOOSE x \in PostDates(posts, u) : \A y \in PostDates(posts, u) : x <= y
            ELSE DateOf((CHOOSE r \in dated : r.id = u).account)]

\* The date a user was first seen: that of the account where a row of the
\* user has one, else that of the earliest post (_first_seen_dates).
FirstSeen(users, posts) ==
    LET dated == {r \in users : r.account # Unknown}
        posting == {r.author : r \in {q \in posts : q.at # Unknown}}
    IN  [u \in {r.id : r \in dated} \cup posting |->
            IF \E r \in dated : r.id = u
            THEN DateOf((CHOOSE r \in dated : r.id = u).account)
            ELSE CHOOSE x \in PostDates(posts, u) : \A y \in PostDates(posts, u) : x <= y]

\* Mutant of UserCounts: the partition is that of the next day.
UserCountsNextDay(d, users, posts) ==
    LET seen == [p \in DOMAIN users |-> FirstSeen(users[p], Of(posts, p))]
    IN  [q \in {p \in DOMAIN users : DOMAIN seen[p] # {}} \X {d + 1} |->
            [total |-> Cardinality(DOMAIN seen[q[1]]), new |-> 0]]

\* daily_users_metric: for each platform with a row in users and a user seen,
\* the users first seen by the day and those first seen on it.
UserCounts(d, users, posts) ==
    LET seen == [p \in DOMAIN users |-> FirstSeen(users[p], Of(posts, p))]
        shown == {p \in DOMAIN users : users[p] # {} /\ DOMAIN seen[p] # {}}
    IN  [q \in shown \X {d} |->
            [total |-> Cardinality({u \in DOMAIN seen[q[1]] : seen[q[1]][u] <= d}),
             new |-> Cardinality({u \in DOMAIN seen[q[1]] : seen[q[1]][u] = d})]]

\* The rankings of rows by a field, the greatest first or, with sign -1, the
\* least: no row left out comes before one taken, and which of equal rows is
\* taken is up to the sort.  None without a row.
Rankings(p, rows, field, sign) ==
    LET valued == {r \in rows : r[field] # Unknown}
        length == IF Cardinality(valued) < TopN THEN Cardinality(valued) ELSE TopN
    IN  IF valued = {} THEN {Nothing}
        ELSE {[q \in {p} |-> top] : top \in {T \in SUBSET valued :
                 /\ Cardinality(T) = length
                 /\ \A r \in T, q \in valued \ T : sign * q[field] <= sign * r[field]}}

HNPosts(posts, kind) == {r \in Of(posts, "HackerNews") : r.kind = kind}

\* What metric m of invocation g may come out as: a value for each partition
\* it has rows for.
Computed(g, m) ==
    LET posts_day == snap[g][1]
        posts_all == snap[g][2]
        users_hn == snap[g][3]
        users_x == snap[g][4]
        users == [HackerNews |-> users_hn, X |-> users_x]
        p == <<NoPlatform, day[g]>>
    IN  CASE m = "daily_post_counts" -> {PostCounts(day[g], posts_day)}
          [] m = "daily_users_metric" -> {UserCounts(day[g], users, posts_all)}
          [] m = "top_x_users_followers" ->
                 Rankings(<<NoPlatform, NoDay>>, users_x, "followers", 1)
          [] m = "top_hn_users_karma" -> Rankings(p, users_hn, "karma", 1)
          [] m = "bottom_hn_users_karma" -> Rankings(p, users_hn, "karma", -1)
          [] m = "top_hn_jobs_score" ->
                 Rankings(p, HNPosts(posts_day, "job"), "score", 1)
          [] m = "top_hn_stories_score" ->
                 Rankings(p, HNPosts(posts_day, "story"), "score", 1)
          [] m = "data_quality_score" -> {[q \in {p} |-> counted[g]]}

-----------------------------------------------------------------------------

\* The four reads: a table, and the keys of it that are read.
ReadOrder(g) ==
    <<[tab |-> "posts", keys |-> {k \in Keys : k[1] = day[g]}],
      [tab |-> "posts", keys |-> Keys],
      [tab |-> "users", keys |-> {k \in Keys : k[2] = "hn"}],
      [tab |-> "users", keys |-> {k \in Keys : k[2] # "hn"}]>>

\* safe_read_parquet: the rows, or none when reading raises.
MayRead(tab, keys) ==
    {ReadRows(tab, keys)} \cup IF "read" \in GFaults THEN {{}} ELSE {}

MayCount(tab) ==
    {Cardinality(KeptPlaces(tab, Keys))} \cup IF "read" \in GFaults THEN {0} ELSE {}

GTypeOK ==
    /\ gold \in [Metrics -> [Partitions -> SUBSET (GRuns \cup {Earlier})]]
    /\ gpc \in [GRuns -> {"idle"} \cup GActive \cup GEnded]
    /\ day \in [GRuns -> Days \cup {NoDay}]
    /\ \A g \in GRuns : Len(snap[g]) \in 0 .. 4
    /\ step \in [GRuns -> 1 .. Len(Steps) + 1]
    /\ \A g \in GRuns : counted[g] \in Seq(Nat) /\ Len(counted[g]) <= Len(QTables)
    /\ \A g \in GRuns, m \in Metrics : DOMAIN result[g][m] \subseteq Partitions
    /\ left \in [GRuns -> SUBSET Partitions]
    /\ holes \in [GRuns -> SUBSET (Metrics \X Partitions)]
    /\ summary \in [GRuns -> SUBSET (Metrics \X Partitions)]
    /\ errors \in [GRuns -> SUBSET Metrics]
    /\ ago \in [GRuns -> SUBSET (GRuns \cup {Earlier})]

\* Every partition holds the file of an earlier invocation.
GInit ==
    /\ gold = [m \in Metrics |-> [p \in Partitions |-> {Earlier}]]
    /\ gpc = [g \in GRuns |-> "idle"]
    /\ day = [g \in GRuns |-> NoDay]
    /\ snap = [g \in GRuns |-> <<>>]
    /\ step = [g \in GRuns |-> 1]
    /\ counted = [g \in GRuns |-> <<>>]
    /\ result = [g \in GRuns |-> [m \in Metrics |-> Nothing]]
    /\ left = [g \in GRuns |-> {}]
    /\ holes = [g \in GRuns |-> {}]
    /\ summary = [g \in GRuns |-> {}]
    /\ errors = [g \in GRuns |-> {}]
    /\ ago = [g \in GRuns |-> {}]

\* The target date is that of the event, or yesterday.
Invoke(g) ==
    /\ gpc[g] = "idle"
    /\ \E d \in Days : day' = [day EXCEPT ![g] = d]
    /\ gpc' = [gpc EXCEPT ![g] = "read"]
    /\ ago' = [ago EXCEPT ![g] = {Earlier} \cup {h \in GRuns : gpc[h] \in GEnded}]
    /\ UNCHANGED <<gold, snap, step, counted, result, left, holes, summary, errors>>

\* The next of the four reads.
ReadSilver(g) ==
    /\ gpc[g] = "read"
    /\ LET r == ReadOrder(g)[Len(snap[g]) + 1]
       IN  \E rows \in MayRead(r.tab, r.keys) : snap' = [snap EXCEPT ![g] = Append(@, rows)]
    /\ gpc' = [gpc EXCEPT ![g] = IF Len(snap[g]) = 3 THEN "compute" ELSE "read"]
    /\ UNCHANGED <<gold, day, step, counted, result, left, holes, summary, errors, ago>>

AtStep(g) == gpc[g] = "compute" /\ step[g] <= Len(Steps)

Metric(g) == Steps[step[g]]

\* data_quality_score reads the tables again, one after the other.
Counting(g) == Metric(g) = "data_quality_score" /\ Len(counted[g]) < Len(QTables)

CountRows(g) ==
    /\ AtStep(g)
    /\ Counting(g)
    /\ \E n \in MayCount(QTables[Len(counted[g]) + 1]) :
           counted' = [counted EXCEPT ![g] = Append(@, n)]
    /\ UNCHANGED <<gold, gpc, day, snap, step, result, left, holes, summary, errors, ago>>

\* The metric is computed and has rows: its partitions are replaced.
Compute(g) ==
    /\ AtStep(g)
    /\ ~Counting(g)
    /\ \E value \in Computed(g, Metric(g)) :
           /\ DOMAIN value # {}
           /\ result' = [result EXCEPT ![g][Metric(g)] = value]
           /\ left' = [left EXCEPT ![g] = DOMAIN value]
    /\ gpc' = [gpc EXCEPT ![g] = "clear"]
    /\ UNCHANGED <<gold, day, snap, step, counted, holes, summary, errors, ago>>

\* It has none: nothing is written, and what is there stays.
ComputeEmpty(g) ==
    /\ AtStep(g)
    /\ ~Counting(g)
    /\ \E value \in Computed(g, Metric(g)) : DOMAIN value = {}
    /\ step' = [step EXCEPT ![g] = @ + 1]
    /\ UNCHANGED <<gold, gpc, day, snap, counted, result, left, holes, summary, errors, ago>>

\* Computing it raises: the error is noted and the next metric computed.
ComputeRaises(g) ==
    /\ "compute" \in GFaults
    /\ AtStep(g)
    /\ errors' = [errors EXCEPT ![g] = @ \cup {Metric(g)}]
    /\ step' = [step EXCEPT ![g] = @ + 1]
    /\ UNCHANGED <<gold, gpc, day, snap, counted, result, left, holes, summary, ago>>

\* Mutant of Cleared: the table is emptied (mode="overwrite").
ClearedTable(m, p) == [q \in Partitions |-> {}]

\* The table without the files of one partition (mode="overwrite_partitions";
\* a table without partition columns has no other).
Cleared(m, p) == [gold[m] EXCEPT ![p] = {}]

\* The partition being replaced: they are taken in the order of their names.
Partition(g) == CHOOSE p \in left[g] : \A q \in left[g] : ~WrittenBefore(q, p)

\* Mutant of Emptied: nothing is deleted (mode="append").
EmptiedNot(g) == UNCHANGED <<gold, holes>>

Emptied(g) ==
    /\ gold' = [gold EXCEPT ![Metric(g)] = Cleared(Metric(g), Partition(g))]
    /\ holes' = [holes EXCEPT ![g] = @ \cup {<<Metric(g), Partition(g)>>}]

\* The name of the file is new: it stands beside any put meanwhile.
Filled(g) ==
    /\ gold' = [gold EXCEPT ![Metric(g)][Partition(g)] = @ \cup {g}]
    /\ holes' = [holes EXCEPT ![g] = @ \ {<<Metric(g), Partition(g)>>}]

\* The files of a partition are deleted.
Clear(g) ==
    /\ gpc[g] = "clear"
    /\ Emptied(g)
    /\ gpc' = [gpc EXCEPT ![g] = "put"]
    /\ UNCHANGED <<day, snap, step, counted, result, left, summary, errors, ago>>

\* A file is put, and another partition of the metric is to be replaced.
Put(g) ==
    /\ gpc[g] = "put"
    /\ left[g] # {Partition(g)}
    /\ Filled(g)
    /\ left' = [left EXCEPT ![g] = @ \ {Partition(g)}]
    /\ gpc' = [gpc EXCEPT ![g] = "clear"]
    /\ UNCHANGED <<day, snap, step, counted, result, summary, errors, ago>>

\* The last file of the metric is put, and the metric reported as written.
PutLast(g) ==
    /\ gpc[g] = "put"
    /\ left[g] = {Partition(g)}
    /\ Filled(g)
    /\ left' = [left EXCEPT ![g] = {}]
    /\ summary' = [summary EXCEPT ![g] = @ \cup ({Metric(g)} \X DOMAIN result[g][Metric(g)])]
    /\ step' = [step EXCEPT ![g] = @ + 1]
    /\ gpc' = [gpc EXCEPT ![g] = "compute"]
    /\ UNCHANGED <<day, snap, counted, result, errors, ago>>

\* Mutant of WriteRaises: write_gold swallows the error and reports the rows.
WriteRaisesReported(g) ==
    /\ "write" \in GFaults
    /\ gpc[g] \in {"clear", "put"}
    /\ summary' = [summary EXCEPT ![g] = @ \cup ({Metric(g)} \X DOMAIN result[g][Metric(g)])]
    /\ left' = [left EXCEPT ![g] = {}]
    /\ step' = [step EXCEPT ![g] = @ + 1]
    /\ gpc' = [gpc EXCEPT ![g] = "compute"]
    /\ UNCHANGED <<gold, holes, day, snap, counted, result, errors, ago>>

\* Deleting or putting raises, whether it took effect or not: the error is
\* noted, the metric left as it is, and the next one computed.
WriteRaises(g) ==
    /\ "write" \in GFaults
    /\ \/ gpc[g] \in {"clear", "put"} /\ UNCHANGED <<gold, holes>>
       \/ gpc[g] = "clear" /\ Emptied(g)
       \/ gpc[g] = "put" /\ Filled(g)
    /\ errors' = [errors EXCEPT ![g] = @ \cup {Metric(g)}]
    /\ left' = [left EXCEPT ![g] = {}]
    /\ step' = [step EXCEPT ![g] = @ + 1]
    /\ gpc' = [gpc EXCEPT ![g] = "compute"]
    /\ UNCHANGED <<day, snap, counted, result, summary, ago>>

\* What an invocation holds in memory is gone when it ends.
Forget(g) ==
    /\ snap' = [snap EXCEPT ![g] = <<>>]
    /\ counted' = [counted EXCEPT ![g] = <<>>]
    /\ result' = [result EXCEPT ![g] = [m \in Metrics |-> Nothing]]
    /\ left' = [left EXCEPT ![g] = {}]

\* The handler returns; it never raises for a metric.
GFinish(g) ==
    /\ gpc[g] = "compute"
    /\ step[g] > Len(Steps)
    /\ Forget(g)
    /\ gpc' = [gpc EXCEPT ![g] = "done"]
    /\ UNCHANGED <<gold, day, step, holes, summary, errors, ago>>

GKill(g) ==
    /\ "kill" \in GFaults
    /\ gpc[g] \in GActive
    /\ Forget(g)
    /\ gpc' = [gpc EXCEPT ![g] = "killed"]
    /\ UNCHANGED <<gold, day, step, holes, summary, errors, ago>>

\* The steps a running Lambda takes by itself.
GStep(g) ==
    \/ ReadSilver(g)
    \/ CountRows(g) \/ Compute(g) \/ ComputeEmpty(g) \/ ComputeRaises(g)
    \/ Clear(g) \/ Put(g) \/ PutLast(g) \/ WriteRaises(g)
    \/ GFinish(g)

GNext == \E g \in GRuns : Invoke(g) \/ GStep(g) \/ GKill(g)

-----------------------------------------------------------------------------
(***************************************************************************)
(* Properties                                                              *)
(***************************************************************************)

\* Whether the invocations ran beside each other, in part.
Beside(g, h) ==
    /\ {g, h} \subseteq GRuns
    /\ h \notin ago[g] /\ g \notin ago[h]

\* A run replaces only the partitions it touches and never just removes one
\* (gold_common.py:58): a partition that had data and now has none was emptied
\* by a run that is about to put its file there, or was stopped or failed in
\* between.
NothingVanishes ==
    \A m \in Metrics, p \in Partitions :
        gold[m][p] = {} => \E g \in GRuns : <<m, p>> \in holes[g]

\* Re-runs replace (gold_common.py:57): two files stand side by side in a
\* partition only when their runs overlapped; whatever an earlier run left,
\* also one that failed half-way, is gone.
RerunReplaces ==
    \A m \in Metrics, p \in Partitions :
        \A g, h \in gold[m][p] : g # h => Beside(g, h)

\* What a run reports as written is there: its file is in every partition of
\* the metric, or a run that was not over when it began has put its own there
\* or has just emptied the partition.
SummaryIsTrue ==
    \A g \in GRuns : \A w \in summary[g] :
        \/ g \in gold[w[1]][w[2]]
        \/ \E h \in GRuns \ ago[g] : h \in gold[w[1]][w[2]] \/ w \in holes[h]
=============================================================================
