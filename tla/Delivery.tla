------------------------------ MODULE Delivery ------------------------------
(***************************************************************************)
(* The delivery Lambda (src/delivery/lambda_function.py): invocations that *)
(* load the Gold tables into PostgreSQL, for one date or entirely, beside  *)
(* each other and beside the analytics Lambda that rewrites Gold.          *)
(*                                                                         *)
(* Each table is a transaction of its own at READ COMMITTED, PostgreSQL's  *)
(* default: a DELETE works on the rows committed when it starts, waits for *)
(* rows another transaction holds and passes over those gone by then;      *)
(* TRUNCATE waits for every transaction on the table and keeps the others  *)
(* out; an INSERT waits for an unfinished row of the same key and fails on *)
(* a committed one.  The tables exist, and a date of a table is one        *)
(* partition of Gold (two tables split a date by platform as well).        *)
(***************************************************************************)
EXTENDS Naturals, Sequences

CONSTANTS
    Loads,       \* invocations of the delivery Lambda
    Order,       \* GOLD_TABLES: the tables, in the order they are loaded
    DateScoped,  \* the tables with "date_scoped": True
    Days,        \* the dates, as numbers
    Asked,       \* the dates deliveries are invoked with
    Versions,    \* versions of a Gold partition
    Ranks,       \* Ranks[v]: the rows of version v, by the rest of their key
    NoVersion,   \* no partition in Gold, or no rows in the database
    Mixed,       \* rows that are no version of a partition
    Earlier,     \* a delivery that ended before
    FullRefresh, \* the scope of {"full_refresh": true}
    Rewritten,   \* partitions <<t, p>> the analytics Lambda rewrites meanwhile
    Faults       \* which faults the environment may show, see FaultKinds

(***************************************************************************)
(* "read":      read_parquet raises, and read_gold returns no rows         *)
(* "statement": a column is missing, or a value or a statement is refused  *)
(* "net":       the connection is refused, or lost                         *)
(* "kill":      the Lambda is stopped without cleanup                      *)
(***************************************************************************)
FaultKinds == {"read", "statement", "net", "kill"}

Snapshot == 0   \* the only partition of a table without dates

Tables == {Order[i] : i \in 1 .. Len(Order)}
Parts(t) == IF t \in DateScoped THEN Days ELSE {Snapshot}

Row == [part : Days \cup {Snapshot}, rank : Nat, ver : Versions,
        by : Loads \cup {Earlier}]

ASSUME DeliveryAssumption ==
    /\ Order \in Seq(STRING) /\ Order # <<>>
    /\ \A i, j \in 1 .. Len(Order) : Order[i] = Order[j] => i = j
    /\ Days \subseteq Nat \ {Snapshot} /\ Asked \subseteq Days
    /\ Ranks \in [Versions -> (SUBSET Nat) \ {{}}]
    /\ NoVersion \notin Versions /\ Mixed \notin Versions \cup {NoVersion}
    /\ Earlier \notin Loads
    /\ FullRefresh \notin Days
    /\ Faults \subseteq FaultKinds

VARIABLES
    gold,     \* gold[t][p]: the version in the data lake
    db,       \* db[t]: the committed rows
    pc,       \* pc[l]: what delivery l does next
    scope,    \* scope[l]: its date, or FullRefresh
    pos,      \* pos[l]: position in the loop over GOLD_TABLES
    batch,    \* batch[l]: the rows read and not yet dealt with (records)
    lock,     \* lock[l]: the lock its transaction has on the table
    dels,     \* dels[l]: the rows it has deleted, or is about to ("deleting")
    ins,      \* ins[l]: the rows it has inserted
    summary,  \* summary[l]: the tables in summary
    errors    \* errors[l]: the tables in errors

session == <<lock, dels, ins>>
report == <<summary, errors>>
vars == <<gold, db, pc, scope, pos, batch, session, report>>

InTx == {"clear", "deleting", "insert", "commit"}
Active == {"read", "begin", "close"} \cup InTx
Ended == {"returned", "raised", "killed"}

Partitions(t) == [Parts(t) -> Versions \cup {NoVersion}]

Lake == {g \in [Tables -> UNION {Partitions(t) : t \in Tables}] :
            \A t \in Tables : g[t] \in Partitions(t)}

TypeOK ==
    /\ gold \in Lake
    /\ db \in [Tables -> SUBSET Row]
    /\ pc \in [Loads -> {"idle"} \cup Active \cup Ended]
    /\ scope \in [Loads -> Days \cup {FullRefresh}]
    /\ pos \in [Loads -> 1 .. Len(Order) + 1]
    /\ batch \in [Loads -> SUBSET Row]
    /\ lock \in [Loads -> {"none", "rows", "table"}]
    /\ dels \in [Loads -> SUBSET Row]
    /\ ins \in [Loads -> SUBSET Row]
    /\ summary \in [Loads -> SUBSET Tables]
    /\ errors \in [Loads -> SUBSET Tables]
    /\ \A l \in Loads : pc[l] \in {"idle"} \cup (Active \ {"close"}) => pos[l] <= Len(Order)

\* The rows of version v of a partition, as delivery l inserts them.
Rows(p, v, l) ==
    IF v = NoVersion THEN {}
    ELSE {[part |-> p, rank |-> k, ver |-> v, by |-> l] : k \in Ranks[v]}

Init ==
    /\ gold \in Lake
    /\ \E v \in Versions \cup {NoVersion} :
          db = [t \in Tables |-> UNION {Rows(p, v, Earlier) : p \in Parts(t)}]
    /\ pc = [l \in Loads |-> "idle"]
    /\ scope = [l \in Loads |-> FullRefresh]
    /\ pos = [l \in Loads |-> 1]
    /\ batch = [l \in Loads |-> {}]
    /\ lock = [l \in Loads |-> "none"]
    /\ dels = [l \in Loads |-> {}]
    /\ ins = [l \in Loads |-> {}]
    /\ summary = [l \in Loads |-> {}]
    /\ errors = [l \in Loads |-> {}]

-----------------------------------------------------------------------------
(***************************************************************************)
(* Locks                                                                   *)
(***************************************************************************)

Table(l) == Order[pos[l]]
PerDate(l) == Table(l) \in DateScoped /\ scope[l] # FullRefresh

\* Other transactions that have a lock on the table of l.
Rivals(l) == {m \in Loads \ {l} : lock[m] # "none" /\ Table(m) = Table(l)}

\* The rows a transaction keeps from the others until it ends.
Held(m) == IF pc[m] = "deleting" THEN {} ELSE dels[m] \cup ins[m]

SameKey(q, r) == q.part = r.part /\ q.rank = r.rank

\* executemany inserts the records in the order of the Gold file.
Before(q, r) == q.part < r.part \/ (q.part = r.part /\ q.rank <= r.rank)

\* Mutant of NextRow: two deliveries have the records in opposite orders.
NextRowOpposite(l) ==
    {r \in batch[l] \ ins[l] : \A q \in batch[l] \ ins[l] :
        IF l = CHOOSE m \in Loads : TRUE THEN Before(r, q) ELSE Before(q, r)}

\* The record whose turn it is.
NextRow(l) == {r \in batch[l] \ ins[l] : \A q \in batch[l] \ ins[l] : Before(r, q)}

\* The transactions whose end the next statement of l waits for.
WaitsFor(l) ==
    CASE pc[l] = "clear" -> {m \in Rivals(l) : ~PerDate(l) \/ lock[m] = "table"}
      [] pc[l] = "deleting" -> {m \in Rivals(l) : Held(m) \cap dels[l] # {}}
      [] pc[l] = "insert" ->
            {m \in Rivals(l) : \E r \in NextRow(l), q \in Held(m) : SameKey(q, r)}
      [] OTHER -> {}

Ready(l) == WaitsFor(l) = {}

-----------------------------------------------------------------------------
(***************************************************************************)
(* The loop over the tables                                                *)
(***************************************************************************)

Goto(l, where) == pc' = [pc EXCEPT ![l] = where]

\* Mutant of NextTable: the loop goes one too far.
NextTablePastEnd(l) ==
    /\ pos' = [pos EXCEPT ![l] = @ + 1]
    /\ Goto(l, IF pos[l] <= Len(Order) THEN "read" ELSE "close")

NextTable(l) ==
    /\ pos' = [pos EXCEPT ![l] = @ + 1]
    /\ Goto(l, IF pos[l] < Len(Order) THEN "read" ELSE "close")

\* The transaction of l is over and its locks are free.
EndTx(l) ==
    /\ lock' = [lock EXCEPT ![l] = "none"]
    /\ dels' = [dels EXCEPT ![l] = {}]
    /\ ins' = [ins EXCEPT ![l] = {}]
    /\ batch' = [batch EXCEPT ![l] = {}]

\* The handler is entered and connects, or the connection is refused.
Connect(l) ==
    /\ pc[l] = "idle"
    /\ \E s \in Asked \cup {FullRefresh} : scope' = [scope EXCEPT ![l] = s]
    /\ Goto(l, "read") \/ ("net" \in Faults /\ Goto(l, "raised"))
    /\ UNCHANGED <<gold, db, pos, batch, session, report>>

\* read_gold: the partition of the date, or the whole table; any exception
\* makes it empty.
Read(l) ==
    /\ pc[l] = "read"
    /\ LET t == Table(l)
           wanted == IF PerDate(l) THEN {scope[l]} ELSE Parts(t)
       IN \/ batch' = [batch EXCEPT ![l] = UNION {Rows(p, gold[t][p], l) : p \in wanted}]
          \/ "read" \in Faults /\ UNCHANGED batch
    /\ Goto(l, "begin")
    /\ UNCHANGED <<gold, db, scope, pos, session, report>>

\* BEGIN and CREATE TABLE IF NOT EXISTS.  Without rows load_table returns 0
\* and leaves the table as it is.
Begin(l) ==
    /\ pc[l] = "begin"
    /\ IF batch[l] = {}
       THEN Goto(l, "commit") /\ summary' = [summary EXCEPT ![l] = @ \cup {Table(l)}]
       ELSE Goto(l, "clear") /\ UNCHANGED summary
    /\ UNCHANGED <<gold, db, scope, pos, batch, session, errors>>

\* Mutant of Delete: the WHERE clause is missing.
DeleteEveryDate(l) ==
    /\ pc[l] = "clear" /\ PerDate(l) /\ Ready(l)
    /\ lock' = [lock EXCEPT ![l] = "rows"]
    /\ dels' = [dels EXCEPT ![l] = db[Table(l)]]
    /\ Goto(l, "deleting")
    /\ UNCHANGED <<gold, db, scope, pos, batch, ins, report>>

\* DELETE ... WHERE "date" = %s starts: the rows committed by now.
Delete(l) ==
    /\ pc[l] = "clear" /\ PerDate(l) /\ Ready(l)
    /\ lock' = [lock EXCEPT ![l] = "rows"]
    /\ dels' = [dels EXCEPT ![l] = {r \in db[Table(l)] : r.part = scope[l]}]
    /\ Goto(l, "deleting")
    /\ UNCHANGED <<gold, db, scope, pos, batch, ins, report>>

\* ... and ends, when no other transaction holds any of them.
DeleteRows(l) ==
    /\ pc[l] = "deleting" /\ Ready(l)
    /\ dels' = [dels EXCEPT ![l] = @ \cap db[Table(l)]]
    /\ Goto(l, "insert")
    /\ UNCHANGED <<gold, db, scope, pos, batch, lock, ins, report>>

\* TRUNCATE TABLE.
Truncate(l) ==
    /\ pc[l] = "clear" /\ ~PerDate(l) /\ Ready(l)
    /\ lock' = [lock EXCEPT ![l] = "table"]
    /\ dels' = [dels EXCEPT ![l] = db[Table(l)]]
    /\ Goto(l, "insert")
    /\ UNCHANGED <<gold, db, scope, pos, batch, ins, report>>

\* One INSERT; after the last, load_table has returned the row count.
Insert(l) ==
    /\ pc[l] = "insert" /\ Ready(l)
    /\ \E r \in NextRow(l) :
          /\ \A q \in db[Table(l)] \ dels[l] : ~SameKey(q, r)
          /\ ins' = [ins EXCEPT ![l] = @ \cup {r}]
          /\ IF batch[l] \ ins[l] = {r}
             THEN Goto(l, "commit") /\ summary' = [summary EXCEPT ![l] = @ \cup {Table(l)}]
             ELSE UNCHANGED <<pc, summary>>
    /\ UNCHANGED <<gold, db, scope, pos, batch, lock, dels, errors>>

\* conn.commit() is acknowledged.
Commit(l) ==
    /\ pc[l] = "commit"
    /\ db' = [db EXCEPT ![Table(l)] = (@ \ dels[l]) \cup ins[l]]
    /\ NextTable(l)
    /\ EndTx(l)
    /\ UNCHANGED <<gold, scope, report>>

\* Mutant of Rollback: the error is not noted.
RollbackUnreported(l) ==
    /\ NextTable(l)
    /\ EndTx(l)
    /\ UNCHANGED <<gold, db, scope, report>>

\* Mutant of Rollback: the transaction is committed all the same.
RollbackCommits(l) ==
    /\ db' = [db EXCEPT ![Table(l)] = (@ \ dels[l]) \cup ins[l]]
    /\ errors' = [errors EXCEPT ![l] = @ \cup {Table(l)}]
    /\ NextTable(l)
    /\ EndTx(l)
    /\ UNCHANGED <<gold, scope, summary>>

\* conn.rollback() after an exception in load_table or commit.
Rollback(l) ==
    /\ errors' = [errors EXCEPT ![l] = @ \cup {Table(l)}]
    /\ NextTable(l)
    /\ EndTx(l)
    /\ UNCHANGED <<gold, db, scope, summary>>

\* Mutant of Clash: ON CONFLICT DO NOTHING.
ClashSkips(l) ==
    /\ pc[l] = "insert" /\ Ready(l)
    /\ \E r \in NextRow(l), q \in db[Table(l)] \ dels[l] :
          /\ SameKey(q, r)
          /\ batch' = [batch EXCEPT ![l] = @ \ {r}]
          /\ IF batch[l] \ ins[l] = {r}
             THEN Goto(l, "commit") /\ summary' = [summary EXCEPT ![l] = @ \cup {Table(l)}]
             ELSE UNCHANGED <<pc, summary>>
    /\ UNCHANGED <<gold, db, scope, pos, session, errors>>

\* The primary key refuses a record.
Clash(l) ==
    /\ pc[l] = "insert" /\ Ready(l)
    /\ \E r \in NextRow(l), q \in db[Table(l)] \ dels[l] : SameKey(q, r)
    /\ Rollback(l)

\* Any other failure while the connection stands.
Fails(l) ==
    /\ "statement" \in Faults
    /\ pc[l] \in {"begin"} \cup InTx
    /\ Rollback(l)

-----------------------------------------------------------------------------
(***************************************************************************)
(* A connection that is lost, or silent for the 10 s of timeout=10         *)
(***************************************************************************)

\* Outside a transaction conn.rollback() does nothing: this table and every
\* later one ends in errors.
BeginLost(l) ==
    /\ "net" \in Faults
    /\ pc[l] = "begin"
    /\ errors' = [errors EXCEPT ![l] = @ \cup {Order[i] : i \in pos[l] .. Len(Order)}]
    /\ pos' = [pos EXCEPT ![l] = Len(Order) + 1]
    /\ Goto(l, "close")
    /\ EndTx(l)
    /\ UNCHANGED <<gold, db, scope, summary>>

\* Inside, conn.rollback() raises too and the exception leaves the handler,
\* while the server still has the transaction.
Abandon(l, where) ==
    /\ Goto(l, where)
    /\ dels' = [dels EXCEPT ![l] = IF pc[l] = "deleting" THEN {} ELSE @]
    /\ UNCHANGED <<gold, db, scope, pos, batch, lock, ins, report>>

Severed(l) ==
    /\ "net" \in Faults
    /\ pc[l] \in InTx
    /\ Abandon(l, "raised")

\* Mutant of TimesOut: the connection has no timeout.
TimesOutNever(l) == FALSE /\ Abandon(l, "raised")

\* A statement waits for another transaction for longer than the timeout.
TimesOut(l) ==
    /\ ~Ready(l)
    /\ Abandon(l, "raised")

\* The answer to COMMIT is lost after it took effect.
CommitLost(l) ==
    /\ "net" \in Faults
    /\ pc[l] = "commit"
    /\ db' = [db EXCEPT ![Table(l)] = (@ \ dels[l]) \cup ins[l]]
    /\ Goto(l, "raised")
    /\ EndTx(l)
    /\ UNCHANGED <<gold, scope, pos, report>>

\* conn.close() in the finally clause, and the return.
Close(l) ==
    /\ pc[l] = "close"
    /\ Goto(l, "returned") \/ ("net" \in Faults /\ Goto(l, "raised"))
    /\ UNCHANGED <<gold, db, scope, pos, batch, session, report>>

\* The Lambda's time limit or memory.
Kill(l) ==
    /\ "kill" \in Faults
    /\ pc[l] \in Active
    /\ Abandon(l, "killed")

\* The server notices that its client is gone.
ServerAborts(l) ==
    /\ pc[l] \in {"raised", "killed"}
    /\ lock[l] # "none"
    /\ EndTx(l)
    /\ UNCHANGED <<gold, db, pc, scope, pos, report>>

\* write_gold overwrites a partition: its file is deleted, then a new one put.
GoldDelete(t, p) ==
    /\ <<t, p>> \in Rewritten
    /\ gold[t][p] # NoVersion
    /\ gold' = [gold EXCEPT ![t][p] = NoVersion]
    /\ UNCHANGED <<db, pc, scope, pos, batch, session, report>>

GoldPut(t, p) ==
    /\ <<t, p>> \in Rewritten
    /\ gold[t][p] = NoVersion
    /\ \E v \in Versions : gold' = [gold EXCEPT ![t][p] = v]
    /\ UNCHANGED <<db, pc, scope, pos, batch, session, report>>

\* The steps a running Lambda takes by itself.
Step(l) ==
    \/ Read(l) \/ Begin(l) \/ Delete(l) \/ DeleteRows(l) \/ Truncate(l)
    \/ Insert(l) \/ Clash(l) \/ Commit(l) \/ TimesOut(l) \/ Close(l)

\* What may go wrong.
Fault(l) ==
    \/ Fails(l) \/ BeginLost(l) \/ Severed(l) \/ CommitLost(l) \/ Kill(l)

Next ==
    \/ \E l \in Loads : Connect(l) \/ Step(l) \/ Fault(l) \/ ServerAborts(l)
    \/ \E t \in Tables : \E p \in Parts(t) : GoldDelete(t, p) \/ GoldPut(t, p)

Spec == Init /\ [][Next]_vars

\* A Lambda that was started executes until it returns, raises or is killed:
\* no call it makes is silent for longer than its timeout.  The server may
\* take any time to notice that a client is gone.
Fairness == \A l \in Loads : WF_vars(Step(l))

FairSpec == Spec /\ Fairness

-----------------------------------------------------------------------------
(***************************************************************************)
(* Properties                                                              *)
(***************************************************************************)

\* Any two versions of a partition have a key in common: in the ranked
\* tables (lambda_function.py:69-118) each has a rank 1.
VersionsOverlap == \A v, w \in Versions : Ranks[v] \cap Ranks[w] # {}

\* ... the same one, and the first of each.
FirstRankInAll ==
    \E k \in UNION {Ranks[v] : v \in Versions} :
        \A v \in Versions : k \in Ranks[v] /\ \A j \in Ranks[v] : k <= j

Shown(t, p) == {r \in db[t] : r.part = p}

\* The rows of a table and a date are all of one version, put there by one
\* delivery, whatever deliveries overlap: "a failure in one table never
\* leaves another half-loaded" (lambda_function.py:214-217).  It is the
\* primary key that refuses the second of two whose DELETEs both missed the
\* other's rows.
OneVersionShown ==
    \A t \in Tables : \A p \in Parts(t) :
        \A r \in Shown(t, p) : Shown(t, p) = Rows(p, r.ver, r.by)

\* The version that a set of rows of partition p is.
VersionOf(rows, p) ==
    LET one == CHOOSE r \in rows : TRUE
    IN IF rows = {} THEN NoVersion
       ELSE IF rows = Rows(p, one.ver, one.by) THEN one.ver ELSE Mixed

VersionShown(t, p) == VersionOf(Shown(t, p), p)

Reader == INSTANCE AtomicReload WITH
    shown <- [t \in Tables |-> [p \in Parts(t) |-> VersionShown(t, p)]],
    requests <- {scope[l] : l \in {m \in Loads : pc[m] # "idle"}}

\* A reader of the database sees nothing but atomic reloads: the contract of
\* lambda_function.py:17-27, with every fault and any overlap.
ReloadsAtomically == Reader!Spec

\* The rows of a delivery are in the database only for tables it reports as
\* loaded and not as failed (lambda_function.py:278-290), also when it ended
\* on a COMMIT it had no answer to.
ReportIsTrue ==
    \A l \in Loads, t \in Tables :
        (\E r \in db[t] : r.by = l) => t \in summary[l] \ errors[l]

\* The other direction: when a delivery goes on to the next table and reports
\* the one behind it as loaded and not as failed, exactly the rows it has read
\* are in the database.  summary[table] is assigned before the commit
\* (lambda_function.py:285-288), which may still be refused.
LoadedAsReported ==
    [][\A l \in Loads :
          pos'[l] # pos[l] /\ Table(l) \in summary'[l] \ errors'[l] =>
              {r \in db'[Table(l)] : r.by = l} = batch[l]]_vars

\* A delivery that has locks and waits, waits for one that does not wait
\* itself, so no circle of them ever does: all insert in the order of the key
\* and hold nothing while they wait for a table or for rows to delete.
NoDeadlock ==
    \A l, m \in Loads : lock[l] # "none" /\ m \in WaitsFor(l) => Ready(m)

\* Every delivery ends (the handler's timeout=10), even behind a transaction
\* whose client is gone.
DeliveriesEnd == \A l \in Loads : pc[l] = "read" ~> pc[l] \in Ended

\* "never blocks the remaining tables from loading" (lambda_function.py:216):
\* a delivery that got its connection has tried every table when it ends.
RemainingTablesTried ==
    \A l \in Loads : pc[l] \in {"returned", "raised"} =>
        summary[l] \cup errors[l] = Tables

=============================================================================
