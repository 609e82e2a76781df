--------------------------- MODULE DeliveryProofs ---------------------------
(***************************************************************************)
(* Theorems about Delivery: for any number of deliveries, tables, dates    *)
(* and versions, a date never shows rows of two versions, and no circle of *)
(* deliveries waits for each other.                                        *)
(***************************************************************************)
EXTENDS Delivery, SequenceTheorems, TLAPS

\* A transaction that holds rows or its table; rows it is still waiting for
\* are not its own.
HasLock(l) == lock[l] # "none"
Settled(l) == HasLock(l) /\ pc[l] # "deleting"

\* Where a delivery stands and what its transaction has belong together.
TxInv(l) ==
    /\ HasLock(l) => pos[l] <= Len(Order) /\ batch[l] # {}
    /\ ~HasLock(l) => dels[l] = {} /\ ins[l] = {}
    /\ pc[l] \in {"idle", "read", "begin", "clear", "close", "returned"} => ~HasLock(l)
    /\ pc[l] \in {"idle", "read"} => batch[l] = {}
    /\ pc[l] = "clear" => batch[l] # {}
    /\ pc[l] = "deleting" => lock[l] = "rows" /\ ins[l] = {}
    /\ pc[l] = "insert" => HasLock(l)
    /\ pc[l] = "commit" => ins[l] = batch[l]
    /\ lock[l] = "rows" => PerDate(l)
    /\ lock[l] = "table" => ~PerDate(l)

\* What was read is, for each partition it has rows of, one whole version.
BatchInv(l) ==
    /\ ins[l] \subseteq batch[l]
    /\ \A r \in batch[l] :
          /\ pos[l] <= Len(Order)
          /\ r.part \in Parts(Table(l))
          /\ PerDate(l) => r.part = scope[l]
          /\ {q \in batch[l] : q.part = r.part} = Rows(r.part, r.ver, l)

\* What a delivery deletes: all rows of the table, or one version of its date.
DelsInv(l) ==
    /\ Settled(l) => dels[l] \subseteq db[Table(l)]
    /\ lock[l] = "table" => dels[l] = db[Table(l)]
    /\ lock[l] = "rows" => \A r \in dels[l] : dels[l] = Rows(scope[l], r.ver, r.by)

\* What a delivery has inserted clashes with nothing it leaves.
InsInv(l) == Settled(l) =>
    \A r \in ins[l], q \in db[Table(l)] \ dels[l] : ~SameKey(q, r)

\* Transactions on one table share no key, and a TRUNCATE shares no table.
RivalInv(l, m) == HasLock(l) /\ HasLock(m) /\ Table(l) = Table(m) =>
    /\ lock[l] = "rows" /\ lock[m] = "rows"
    /\ \A q \in Held(l), r \in Held(m) : ~SameKey(q, r)

Own(l) == TxInv(l) /\ BatchInv(l) /\ DelsInv(l) /\ InsInv(l)

Inv ==
    /\ \A t \in Tables : \A r \in db[t] : r.part \in Parts(t)
    /\ \A l \in Loads : Own(l)
    /\ \A l, m \in Loads : l # m => RivalInv(l, m)
    /\ OneVersionShown

-----------------------------------------------------------------------------
(***************************************************************************)
(* Types                                                                   *)
(***************************************************************************)

\* The table a delivery works on is one of the tables.
LEMMA TableType ==
    ASSUME TypeOK, NEW l \in Loads, pos[l] <= Len(Order)
    PROVE  Table(l) \in Tables
BY DEF TypeOK, Table, Tables

\* The rows of a version, spelled out.
LEMMA RowsFacts ==
    ASSUME NEW p, NEW v, NEW l
    PROVE  /\ \A q \in Rows(p, v, l) :
                 v # NoVersion /\ q.part = p /\ q.ver = v /\ q.by = l /\ q.rank \in Ranks[v]
           /\ \A q, r \in Rows(p, v, l) : q.rank = r.rank => q = r
           /\ v # NoVersion => \A k \in Ranks[v] : \E q \in Rows(p, v, l) : q.rank = k
<1>1. CASE v = NoVersion
  BY <1>1 DEF Rows
<1>2. CASE v # NoVersion
  <2> DEFINE row(k) == [part |-> p, rank |-> k, ver |-> v, by |-> l]
  <2>1. Rows(p, v, l) = {row(k) : k \in Ranks[v]}
    BY <1>2 DEF Rows
  <2>2. \A k : row(k).part = p /\ row(k).rank = k /\ row(k).ver = v /\ row(k).by = l
    OBVIOUS
  <2> HIDE DEF row
  <2>3. \A q \in Rows(p, v, l) : \E k \in Ranks[v] : q = row(k)
    BY <2>1
  <2>4. \A k \in Ranks[v] : row(k) \in Rows(p, v, l)
    BY <2>1
  <2> QED
    BY <1>2, <2>2, <2>3, <2>4
<1> QED
  BY <1>1, <1>2

LEMMA RowsType ==
    ASSUME DeliveryAssumption, NEW t \in Tables, NEW p \in Parts(t),
           NEW v \in Versions \cup {NoVersion}, NEW l \in Loads \cup {Earlier}
    PROVE  Rows(p, v, l) \subseteq Row
<1>1. p \in Days \cup {Snapshot}
  BY DEF Parts
<1>2. CASE v = NoVersion
  BY <1>2 DEF Rows
<1>3. CASE v # NoVersion
  <2>1. v \in Versions /\ Ranks[v] \subseteq Nat
    BY <1>3 DEF DeliveryAssumption
  <2> QED
    BY <1>1, <1>3, <2>1 DEF Rows, Row
<1> QED
  BY <1>2, <1>3

\* The Gold layer stays a version, or nothing, for every partition.
LEMMA LakeUpdate ==
    ASSUME gold \in Lake, NEW t \in Tables, NEW p \in Parts(t),
           NEW v \in Versions \cup {NoVersion},
           gold' = [gold EXCEPT ![t][p] = v]
    PROVE  gold' \in Lake
<1>1. [gold[t] EXCEPT ![p] = v] \in Partitions(t)
  BY DEF Lake, Partitions
<1>2. gold' = [gold EXCEPT ![t] = [gold[t] EXCEPT ![p] = v]]
  BY DEF Lake
<1> QED
  BY <1>1, <1>2 DEF Lake

\* TypeOK is an invariant by itself: one step per action.
LEMMA TypesNext ==
    ASSUME TypeOK, [Next]_vars
    PROVE  TypeOK'
<1> USE DeliveryAssumption DEF TypeOK, session, report
<1>0. Len(Order) \in Nat
  BY LenProperties
<1>l. \A l \in Loads : pos[l] <= Len(Order) => Table(l) \in Tables
  BY TableType
<1>a. \A l \in Loads : pc[l] \in {"idle"} \cup (Active \ {"close"}) => pos[l] <= Len(Order) /\ Table(l) \in Tables
  BY <1>l
<1>n. \A l \in Loads : pos[l] <= Len(Order) /\ NextTable(l) =>
        /\ pos' \in [Loads -> 1 .. Len(Order) + 1]
        /\ pc' \in [Loads -> {"idle"} \cup Active \cup Ended]
        /\ \A m \in Loads : pc'[m] \in {"idle"} \cup (Active \ {"close"}) => pos'[m] <= Len(Order)
  BY <1>0 DEF NextTable, Goto, Active, InTx
<1>e. \A l \in Loads : EndTx(l) =>
        /\ batch' \in [Loads -> SUBSET Row] /\ dels' \in [Loads -> SUBSET Row]
        /\ ins' \in [Loads -> SUBSET Row] /\ lock' \in [Loads -> {"none", "rows", "table"}]
  BY DEF EndTx
<1>d. \A l \in Loads : pos[l] <= Len(Order)
        /\ db' = [db EXCEPT ![Table(l)] = (@ \ dels[l]) \cup ins[l]]
        => db' \in [Tables -> SUBSET Row]
  BY <1>l
<1>r. \A l \in Loads : pos[l] <= Len(Order) /\ Rollback(l) => TypeOK'
  BY <1>l, <1>n, <1>e DEF Rollback
<1>b. \A l \in Loads, where \in Ended : Abandon(l, where) => TypeOK'
  BY DEF Abandon, Goto, Active, InTx, Ended
<1>g. \A l \in Loads, where \in Active \cup Ended :
        Goto(l, where) /\ UNCHANGED pos /\ (pos[l] <= Len(Order) \/ where \in Ended) =>
        /\ pc' \in [Loads -> {"idle"} \cup Active \cup Ended]
        /\ \A m \in Loads : pc'[m] \in {"idle"} \cup (Active \ {"close"}) => pos'[m] <= Len(Order)
  BY DEF Goto, Active, InTx, Ended
<1>1. ASSUME NEW l \in Loads, Connect(l) PROVE TypeOK'
  <2>1. scope' \in [Loads -> Days \cup {FullRefresh}]
    BY <1>1 DEF Connect
  <2>2. PICK where \in {"read", "raised"} : Goto(l, where)
    BY <1>1 DEF Connect
  <2>3. where \in Active \cup Ended /\ pos[l] <= Len(Order)
    BY <1>1 DEF Connect, Active, Ended
  <2>4. UNCHANGED <<gold, db, pos, batch, session, report>>
    BY <1>1 DEF Connect
  <2> QED
    BY <2>1, <2>2, <2>3, <2>4, <1>g
<1>2. ASSUME NEW l \in Loads, Read(l) PROVE TypeOK'
  <2>1. pc[l] = "read" /\ Table(l) \in Tables /\ pos[l] <= Len(Order)
    BY <1>2, <1>a DEF Read, Active
  <2>2. batch' \in [Loads -> SUBSET Row]
    <3> DEFINE t == Table(l)
               wanted == IF PerDate(l) THEN {scope[l]} ELSE Parts(t)
    <3>1. wanted \subseteq Parts(t)
      BY <2>1 DEF PerDate, Parts
    <3>2. \A p \in wanted : p \in Parts(t) /\ gold[t][p] \in Versions \cup {NoVersion}
      <4>1. gold[t] \in [Parts(t) -> Versions \cup {NoVersion}]
        BY <2>1 DEF Lake, Partitions
      <4> QED
        BY <3>1, <4>1
    <3>3. \A p \in wanted : Rows(p, gold[t][p], l) \subseteq Row
      <4> HIDE DEF wanted
      <4> QED
        BY <3>2, <2>1, RowsType
    <3>5. UNION {Rows(p, gold[t][p], l) : p \in wanted} \subseteq Row
      <4> HIDE DEF wanted, t
      <4> QED
        BY <3>3
    <3>4. \/ batch' = [batch EXCEPT ![l] = UNION {Rows(p, gold[t][p], l) : p \in wanted}]
          \/ UNCHANGED batch
      BY <1>2 DEF Read
    <3> HIDE DEF wanted, t
    <3> QED
      BY <3>5, <3>4
  <2>3. UNCHANGED <<gold, db, scope, pos, session, report>> /\ Goto(l, "begin")
    BY <1>2 DEF Read
  <2> QED
    BY <2>1, <2>2, <2>3 DEF Goto, Active, InTx
<1>3. ASSUME NEW l \in Loads, Begin(l) PROVE TypeOK'
  <2>1. pc[l] = "begin" /\ UNCHANGED <<gold, db, scope, pos, batch, session, errors>>
    BY <1>3 DEF Begin
  <2>2. PICK where \in {"commit", "clear"} : Goto(l, where)
    BY <1>3 DEF Begin
  <2>3. where \in Active \cup Ended /\ pos[l] <= Len(Order) /\ Table(l) \in Tables
    BY <2>1, <1>a DEF Active, InTx
  <2>4. summary' \in [Loads -> SUBSET Tables]
    <3>1. CASE UNCHANGED summary
      BY <3>1
    <3>2. CASE summary' = [summary EXCEPT ![l] = @ \cup {Table(l)}]
      BY <2>3, <3>2
    <3> QED
      BY <1>3, <3>1, <3>2 DEF Begin
  <2> QED
    BY <2>1, <2>2, <2>3, <2>4, <1>g
<1>4. ASSUME NEW l \in Loads, Delete(l) PROVE TypeOK'
  BY <1>4, <1>a DEF Delete, Goto, Active, InTx
<1>5. ASSUME NEW l \in Loads, DeleteRows(l) PROVE TypeOK'
  BY <1>5, <1>a DEF DeleteRows, Goto, Active, InTx
<1>6. ASSUME NEW l \in Loads, Truncate(l) PROVE TypeOK'
  BY <1>6, <1>a DEF Truncate, Goto, Active, InTx
<1>7. ASSUME NEW l \in Loads, Insert(l) PROVE TypeOK'
  <2>1. PICK r \in NextRow(l) :
          /\ ins' = [ins EXCEPT ![l] = @ \cup {r}]
          /\ IF batch[l] \ ins[l] = {r}
             THEN Goto(l, "commit") /\ summary' = [summary EXCEPT ![l] = @ \cup {Table(l)}]
             ELSE UNCHANGED <<pc, summary>>
    BY <1>7 DEF Insert
  <2>2. r \in Row
    BY DEF NextRow
  <2>3. /\ pos[l] <= Len(Order) /\ Table(l) \in Tables
        /\ UNCHANGED <<gold, db, scope, pos, batch, lock, dels, errors>>
    BY <1>7, <1>a DEF Insert, Active, InTx
  <2>4. ins' \in [Loads -> SUBSET Row]
    BY <2>1, <2>2
  <2>5. CASE Goto(l, "commit") /\ summary' = [summary EXCEPT ![l] = @ \cup {Table(l)}]
    <3>1. summary' \in [Loads -> SUBSET Tables]
      BY <2>3, <2>5
    <3>2. "commit" \in Active
      BY DEF Active, InTx
    <3> QED
      BY <2>3, <2>4, <2>5, <3>1, <3>2, <1>g
  <2>6. CASE UNCHANGED <<pc, summary>>
    BY <2>3, <2>4, <2>6
  <2> QED
    BY <2>1, <2>5, <2>6
<1>8. ASSUME NEW l \in Loads, Commit(l) PROVE TypeOK'
  BY <1>8, <1>a, <1>n, <1>e, <1>d DEF Commit, Active, InTx
<1>9. ASSUME NEW l \in Loads, Clash(l) PROVE TypeOK'
  BY <1>9, <1>a, <1>r DEF Clash, Active, InTx
<1>10. ASSUME NEW l \in Loads, Fails(l) PROVE TypeOK'
  BY <1>10, <1>a, <1>r DEF Fails, Active, InTx
<1>11. ASSUME NEW l \in Loads, BeginLost(l) PROVE TypeOK'
  <2>1. errors' \in [Loads -> SUBSET Tables]
    <3>1. {Order[i] : i \in pos[l] .. Len(Order)} \subseteq Tables
      BY <1>0 DEF Tables
    <3> QED
      BY <1>11, <3>1 DEF BeginLost
  <2>2. /\ pos' \in [Loads -> 1 .. Len(Order) + 1]
        /\ pc' \in [Loads -> {"idle"} \cup Active \cup Ended]
        /\ \A m \in Loads : pc'[m] \in {"idle"} \cup (Active \ {"close"}) => pos'[m] <= Len(Order)
    BY <1>11, <1>0 DEF BeginLost, Goto, Active, InTx
  <2> QED
    BY <1>11, <1>e, <2>1, <2>2 DEF BeginLost
<1>12. ASSUME NEW l \in Loads, Severed(l) \/ TimesOut(l) \/ Kill(l) PROVE TypeOK'
  BY <1>12, <1>b DEF Severed, TimesOut, Kill, Ended
<1>13. ASSUME NEW l \in Loads, CommitLost(l) PROVE TypeOK'
  BY <1>13, <1>a, <1>e, <1>d DEF CommitLost, Goto, Active, InTx, Ended
<1>14. ASSUME NEW l \in Loads, Close(l) PROVE TypeOK'
  BY <1>14 DEF Close, Goto, Active, InTx, Ended
<1>15. ASSUME NEW l \in Loads, ServerAborts(l) PROVE TypeOK'
  BY <1>15, <1>e DEF ServerAborts
<1>16. ASSUME NEW t \in Tables, NEW p \in Parts(t), GoldDelete(t, p) \/ GoldPut(t, p) PROVE TypeOK'
  <2>1. gold' \in Lake
    BY <1>16, LakeUpdate DEF GoldDelete, GoldPut
  <2> QED
    BY <1>16, <2>1 DEF GoldDelete, GoldPut
<1>17. CASE UNCHANGED vars
  BY <1>17 DEF vars
<1> QED
  BY <1>1, <1>2, <1>3, <1>4, <1>5, <1>6, <1>7, <1>8, <1>9, <1>10, <1>11, <1>12, <1>13, <1>14, <1>15, <1>16, <1>17
     DEF Next, Step, Fault

\* There is a first table.
LEMMA FirstTable == Len(Order) \in Nat /\ 1 <= Len(Order)
<1>1. Order \in Seq(STRING) /\ Order # <<>>
  BY DeliveryAssumption DEF DeliveryAssumption
<1>2. Len(Order) \in Nat /\ Len(Order) # 0
  BY <1>1, EmptySeq, LenProperties
<1> QED
  BY <1>2

\* The rows of an earlier delivery have the type of rows.
LEMMA TypesInit == Init => TypeOK
<1> SUFFICES ASSUME Init PROVE TypeOK
  OBVIOUS
<1> USE DeliveryAssumption DEF Init
<1>1. db \in [Tables -> SUBSET Row]
  <2>1. PICK v \in Versions \cup {NoVersion} :
          db = [t \in Tables |-> UNION {Rows(p, v, Earlier) : p \in Parts(t)}]
    OBVIOUS
  <2>2. \A t \in Tables : \A p \in Parts(t) : Rows(p, v, Earlier) \subseteq Row
    BY RowsType
  <2>3. \A t \in Tables : UNION {Rows(p, v, Earlier) : p \in Parts(t)} \subseteq Row
    <3> SUFFICES ASSUME NEW t \in Tables, NEW p \in Parts(t) PROVE Rows(p, v, Earlier) \subseteq Row
      OBVIOUS
    <3> QED
      BY <2>2
  <2> QED
    BY <2>1, <2>3
<1>2. pos \in [Loads -> 1 .. Len(Order) + 1] /\ \A l \in Loads : pos[l] <= Len(Order)
  BY FirstTable
<1> QED
  BY <1>1, <1>2 DEF TypeOK

\* Every value has its type, for any number of deliveries and any Gold.
THEOREM DeliveryTypes == Spec => []TypeOK
<1>1. Init => TypeOK
  BY TypesInit
<1>2. TypeOK /\ [Next]_vars => TypeOK'
  BY TypesNext
<1> QED
  BY <1>1, <1>2, PTL DEF Spec

-----------------------------------------------------------------------------
(***************************************************************************)
(* One version per date                                                    *)
(***************************************************************************)

\* Nothing of m changes.
Same(m) ==
    /\ pc'[m] = pc[m] /\ scope'[m] = scope[m] /\ pos'[m] = pos[m]
    /\ batch'[m] = batch[m] /\ lock'[m] = lock[m]
    /\ dels'[m] = dels[m] /\ ins'[m] = ins[m]

OthersSame(l) == \A m \in Loads \ {l} : Same(m)

\* The key of a row in a table is its own.
LEMMA KeyUnique ==
    ASSUME Inv, NEW t \in Tables, NEW q \in db[t], NEW r \in db[t], SameKey(q, r)
    PROVE  q = r
<1>1. q.part = r.part /\ q.rank = r.rank /\ r.part \in Parts(t)
  BY DEF SameKey, Inv
<1>2. q \in Shown(t, r.part) /\ r \in Shown(t, r.part)
  BY <1>1 DEF Shown
<1>3. Shown(t, r.part) = Rows(r.part, r.ver, r.by)
  BY <1>1, <1>2 DEF Inv, OneVersionShown
<1> QED
  BY <1>1, <1>2, <1>3, RowsFacts

\* A delivery that does nothing keeps its part of the invariant while the
\* database stays.
LEMMA OwnStays ==
    ASSUME NEW m \in Loads, Own(m), Same(m), UNCHANGED db
    PROVE  Own(m)'
<1> USE DEF Same, HasLock, Settled, Table, PerDate
<1>1. TxInv(m)'
  BY DEF Own, TxInv
<1>2. BatchInv(m)'
  BY DEF Own, BatchInv
<1>3. DelsInv(m)'
  BY DEF Own, DelsInv
<1>4. InsInv(m)'
  BY DEF Own, InsInv, SameKey
<1> QED
  BY <1>1, <1>2, <1>3, <1>4 DEF Own

LEMMA RivalsStay ==
    ASSUME NEW m \in Loads, NEW n \in Loads, RivalInv(m, n), Same(m), Same(n)
    PROVE  RivalInv(m, n)'
BY DEF Same, HasLock, Table, Held, RivalInv, SameKey

\* A step of l that leaves the database alone has to care about l only.
LEMMA Frame ==
    ASSUME Inv, NEW l \in Loads, OthersSame(l), UNCHANGED db,
           Own(l)', \A m \in Loads \ {l} : RivalInv(l, m)'
    PROVE  Inv'
<1>1. \A m \in Loads : Own(m)'
  BY OwnStays DEF Inv, OthersSame
<1>2. ASSUME NEW m \in Loads, NEW n \in Loads, m # n PROVE RivalInv(m, n)'
  <2>1. CASE m = l
    BY <1>2, <2>1
  <2>2. CASE n = l
    <3>1. RivalInv(n, m)'
      BY <1>2, <2>2
    <3> QED
      BY <3>1 DEF RivalInv, SameKey
  <2>3. CASE m # l /\ n # l
    BY <1>2, <2>3, RivalsStay DEF Inv, OthersSame
  <2> QED
    BY <2>1, <2>2, <2>3
<1>3. OneVersionShown' /\ (\A t \in Tables : \A r \in db[t] : r.part \in Parts(t))'
  BY DEF Inv, OneVersionShown, Shown
<1> QED
  BY <1>1, <1>2, <1>3 DEF Inv

\* A step of a delivery changes nothing of another.
LEMMA StepsAreLocal ==
    ASSUME TypeOK, NEW l \in Loads, Connect(l) \/ Step(l) \/ Fault(l) \/ ServerAborts(l)
    PROVE  OthersSame(l)
<1> USE DEF TypeOK, OthersSame, Same, Goto, session
<1>1. CASE Connect(l)
  BY <1>1 DEF Connect
<1>2. CASE Read(l)
  BY <1>2 DEF Read
<1>3. CASE Begin(l)
  BY <1>3 DEF Begin
<1>4. CASE Delete(l) \/ DeleteRows(l) \/ Truncate(l)
  BY <1>4 DEF Delete, DeleteRows, Truncate
<1>5. CASE Insert(l)
  BY <1>5 DEF Insert
<1>6. CASE Commit(l) \/ CommitLost(l)
  BY <1>6 DEF Commit, CommitLost, NextTable, EndTx
<1>7. CASE Clash(l) \/ Fails(l)
  BY <1>7 DEF Clash, Fails, Rollback, NextTable, EndTx
<1>8. CASE BeginLost(l) \/ ServerAborts(l)
  BY <1>8 DEF BeginLost, ServerAborts, EndTx
<1>9. CASE TimesOut(l) \/ Severed(l) \/ Kill(l)
  BY <1>9 DEF TimesOut, Severed, Kill, Abandon
<1>10. CASE Close(l)
  BY <1>10 DEF Close
<1> QED
  BY <1>1, <1>2, <1>3, <1>4, <1>5, <1>6, <1>7, <1>8, <1>9, <1>10 DEF Step, Fault

\* Without a lock a delivery has nothing to do with the others.
LEMMA NoLockNoRivals ==
    ASSUME NEW l \in Loads, NEW m \in Loads, lock[l] = "none"
    PROVE  RivalInv(l, m)
BY DEF RivalInv, HasLock

\* Once its transaction is over, nothing is left to say of a delivery.
LEMMA EndTxOwn ==
    ASSUME TypeOK, NEW l \in Loads, EndTx(l), pc'[l] \notin {"clear", "deleting", "insert"}
    PROVE  Own(l)' /\ \A m \in Loads : RivalInv(l, m)'
<1>1. lock'[l] = "none" /\ dels'[l] = {} /\ ins'[l] = {} /\ batch'[l] = {}
  BY DEF EndTx, TypeOK
<1>2. TxInv(l)'
  BY <1>1 DEF TxInv, HasLock
<1>3. BatchInv(l)' /\ DelsInv(l)' /\ InsInv(l)'
  BY <1>1 DEF BatchInv, DelsInv, InsInv, Settled, HasLock
<1> QED
  BY <1>1, <1>2, <1>3 DEF Own, RivalInv, HasLock

\* A client that goes leaves its transaction as it is, less the rows a
\* DELETE was still waiting for.
LEMMA AbandonKeeps ==
    ASSUME TypeOK, Inv, NEW l \in Loads, NEW where \in Ended \ {"returned"},
           Abandon(l, where), OthersSame(l)
    PROVE  Inv'
<1> USE DEF HasLock, Settled, Table, PerDate
<1>1. /\ pc'[l] = where /\ where \in {"raised", "killed"}
      /\ dels'[l] = IF pc[l] = "deleting" THEN {} ELSE dels[l]
      /\ UNCHANGED <<db, scope, pos, batch, lock, ins>>
  BY DEF Abandon, Goto, Ended, TypeOK
<1>2. TxInv(l) /\ BatchInv(l) /\ DelsInv(l) /\ InsInv(l)
  BY DEF Inv, Own
<1>3. TxInv(l)'
  BY <1>1, <1>2 DEF TxInv
<1>4. BatchInv(l)'
  BY <1>1, <1>2 DEF BatchInv
<1>5. DelsInv(l)'
  BY <1>1, <1>2 DEF DelsInv, TxInv
<1>6. InsInv(l)'
  BY <1>1, <1>2 DEF InsInv, TxInv, SameKey
<1>7. ASSUME NEW m \in Loads \ {l} PROVE RivalInv(l, m)'
  <2>1. RivalInv(l, m) /\ Same(m)
    BY <1>7 DEF Inv, OthersSame
  <2>2. Held(l)' = Held(l)
    BY <1>1, <1>2 DEF Held, TxInv
  <2>3. Held(m)' = Held(m)
    BY <2>1 DEF Held, Same
  <2> QED
    BY <1>1, <2>1, <2>2, <2>3 DEF RivalInv, SameKey, Same
<1> QED
  BY <1>1, <1>3, <1>4, <1>5, <1>6, <1>7, Frame DEF Own

\* Connect, Read, Begin and Close happen outside of a transaction.
LEMMA QuietKeeps ==
    ASSUME TypeOK, Inv, NEW l \in Loads, OthersSame(l),
           Connect(l) \/ Read(l) \/ Begin(l) \/ Close(l)
    PROVE  Inv'
<1> USE DEF HasLock, Settled
<1>1. /\ pc[l] \in {"idle", "read", "begin", "close"}
      /\ UNCHANGED <<db, pos, lock, dels, ins>>
  BY DEF Connect, Read, Begin, Close, session
<1>2. TxInv(l) /\ BatchInv(l)
  BY DEF Inv, Own
<1>3. lock[l] = "none" /\ dels[l] = {} /\ ins[l] = {}
  BY <1>1, <1>2 DEF TxInv
<1>4. DelsInv(l)' /\ InsInv(l)' /\ \A m \in Loads : RivalInv(l, m)'
  BY <1>1, <1>3 DEF DelsInv, InsInv, RivalInv
<1>5. TxInv(l)' /\ BatchInv(l)'
  <2>1. CASE Connect(l)
    <3>1. pc'[l] \in {"read", "raised"} /\ batch[l] = {} /\ UNCHANGED batch
      BY <1>2, <2>1 DEF Connect, TypeOK, Goto, TxInv
    <3> QED
      BY <1>1, <1>3, <3>1 DEF TxInv, BatchInv
  <2>2. CASE Read(l)
    <3>1. pc'[l] = "begin" /\ UNCHANGED scope /\ pos[l] <= Len(Order) /\ Table(l)' = Table(l)
      BY <1>1, <2>2 DEF Read, TypeOK, Goto, Table, Active
    <3>2. TxInv(l)'
      BY <1>1, <1>3, <3>1 DEF TxInv
    <3>3. BatchInv(l)'
      <4> DEFINE t == Table(l)
                 wanted == IF PerDate(l) THEN {scope[l]} ELSE Parts(t)
      <4>1. CASE UNCHANGED batch
        <5>1. batch[l] = {}
          BY <1>2, <2>2 DEF TxInv, Read
        <5> QED
          BY <1>1, <1>3, <4>1, <5>1 DEF BatchInv
      <4>2. CASE batch' = [batch EXCEPT ![l] = UNION {Rows(p, gold[t][p], l) : p \in wanted}]
        <5>1. wanted \subseteq Parts(t) /\ (PerDate(l) => wanted = {scope[l]})
          BY <3>1, TableType DEF TypeOK, PerDate, Parts
        <5>2. batch'[l] = UNION {Rows(p, gold[t][p], l) : p \in wanted}
          BY <4>2 DEF TypeOK
        <5> HIDE DEF wanted, t
        <5>3. \A r \in batch'[l] : r.part \in wanted /\ r \in Rows(r.part, gold[t][r.part], l)
                                   /\ r.ver = gold[t][r.part]
          BY <5>2, RowsFacts
        <5>4. ASSUME NEW r \in batch'[l]
              PROVE  {q \in batch'[l] : q.part = r.part} = Rows(r.part, r.ver, l)
          <6>1. \A q \in batch'[l] : q.part = r.part => q \in Rows(r.part, r.ver, l)
            BY <5>3, <5>4
          <6>2. \A q \in Rows(r.part, r.ver, l) : q.part = r.part
            BY RowsFacts
          <6>3. Rows(r.part, r.ver, l) \subseteq batch'[l]
            BY <5>2, <5>3, <5>4
          <6> QED
            BY <6>1, <6>2, <6>3
        <5>5. PerDate(l)' <=> PerDate(l)
          BY <3>1 DEF PerDate
        <5> QED
          BY <1>1, <1>3, <3>1, <5>1, <5>3, <5>4, <5>5 DEF BatchInv, t
      <4> QED
        BY <2>2, <4>1, <4>2 DEF Read
    <3> QED
      BY <3>2, <3>3
  <2>3. CASE Begin(l)
    <3>1. UNCHANGED <<scope, batch>> /\ (batch[l] = {} => pc'[l] = "commit")
          /\ (batch[l] # {} => pc'[l] = "clear")
      BY <2>3 DEF Begin, TypeOK, Goto
    <3>2. TxInv(l)'
      BY <1>1, <1>3, <3>1 DEF TxInv
    <3>3. BatchInv(l)'
      BY <1>1, <1>2, <3>1 DEF BatchInv, Table, PerDate
    <3> QED
      BY <3>2, <3>3
  <2>4. CASE Close(l)
    <3>1. UNCHANGED <<scope, batch>> /\ pc'[l] \in {"returned", "raised"}
      BY <2>4 DEF Close, TypeOK, Goto
    <3>2. TxInv(l)'
      BY <1>1, <1>3, <3>1 DEF TxInv
    <3>3. BatchInv(l)'
      BY <1>1, <1>2, <3>1 DEF BatchInv, Table, PerDate
    <3> QED
      BY <3>2, <3>3
  <2> QED
    BY <2>1, <2>2, <2>3, <2>4
<1> QED
  BY <1>1, <1>4, <1>5, Frame DEF Own

\* In a transaction a delivery is at one of the tables.
LEMMA AtATable ==
    ASSUME TypeOK, NEW l \in Loads, pc[l] \in InTx
    PROVE  pos[l] <= Len(Order) /\ Table(l) \in Tables
BY TableType DEF TypeOK, Active, InTx

\* A DELETE that starts sees one version of its date, or nothing.
LEMMA DeleteKeeps ==
    ASSUME TypeOK, Inv, NEW l \in Loads, OthersSame(l), Delete(l)
    PROVE  Inv'
<1> USE DEF HasLock, Settled
<1>1. /\ pc[l] = "clear" /\ PerDate(l) /\ Ready(l)
      /\ lock'[l] = "rows" /\ pc'[l] = "deleting"
      /\ dels'[l] = Shown(Table(l), scope[l])
      /\ UNCHANGED <<db, scope, pos, batch, ins>>
  BY DEF Delete, Goto, TypeOK, Shown
<1>2. TxInv(l) /\ BatchInv(l)
  BY DEF Inv, Own
<1>3. ins[l] = {} /\ batch[l] # {} /\ Table(l) \in Tables /\ pos[l] <= Len(Order)
  BY <1>1, <1>2, AtATable DEF TxInv, InTx
<1>4. Table(l)' = Table(l) /\ (PerDate(l)' <=> PerDate(l))
  BY <1>1 DEF Table, PerDate
<1>5. TxInv(l)' /\ BatchInv(l)' /\ InsInv(l)'
  BY <1>1, <1>2, <1>3, <1>4 DEF TxInv, BatchInv, InsInv
<1>6. DelsInv(l)'
  <2>1. scope[l] \in Parts(Table(l))
    BY <1>1 DEF PerDate, Parts, TypeOK
  <2>2. \A r \in dels'[l] : r.part = scope[l] /\ dels'[l] = Rows(scope[l], r.ver, r.by)
    BY <1>1, <1>3, <2>1 DEF Inv, OneVersionShown, Shown
  <2> QED
    BY <1>1, <2>2 DEF DelsInv
<1>7. ASSUME NEW m \in Loads \ {l} PROVE RivalInv(l, m)'
  <2>1. Held(l)' = {}
    BY <1>1, <1>3 DEF Held
  <2>2. lock[m] # "none" /\ Table(m) = Table(l) => lock[m] = "rows"
    BY <1>1, <1>7 DEF Ready, WaitsFor, Rivals, TypeOK
  <2>3. lock'[m] = lock[m] /\ Table(m)' = Table(m)
    BY <1>7 DEF OthersSame, Same, Table
  <2> QED
    BY <1>1, <1>4, <2>1, <2>2, <2>3 DEF RivalInv
<1> QED
  BY <1>1, <1>5, <1>6, <1>7, Frame DEF Own

\* When it ends it has all of them or none, since a version goes as a whole.
LEMMA DeleteRowsKeeps ==
    ASSUME TypeOK, Inv, NEW l \in Loads, OthersSame(l), DeleteRows(l)
    PROVE  Inv'
<1> USE DEF HasLock, Settled
<1>1. /\ pc[l] = "deleting" /\ Ready(l) /\ pc'[l] = "insert"
      /\ dels'[l] = dels[l] \cap db[Table(l)]
      /\ UNCHANGED <<db, scope, pos, batch, lock, ins>>
  BY DEF DeleteRows, Goto, TypeOK
<1>2. TxInv(l) /\ BatchInv(l) /\ DelsInv(l)
  BY DEF Inv, Own
<1>3. lock[l] = "rows" /\ ins[l] = {} /\ PerDate(l) /\ batch[l] # {} /\ Table(l) \in Tables
  BY <1>1, <1>2, AtATable DEF TxInv, InTx
<1>4. Table(l)' = Table(l) /\ (PerDate(l)' <=> PerDate(l))
  BY <1>1 DEF Table, PerDate
<1>5. TxInv(l)' /\ BatchInv(l)' /\ InsInv(l)'
  BY <1>1, <1>2, <1>3, <1>4 DEF TxInv, BatchInv, InsInv
<1>6. DelsInv(l)'
  <2>1. ASSUME NEW r \in dels'[l] PROVE dels'[l] = Rows(scope[l], r.ver, r.by)
    <3>1. dels[l] = Rows(scope[l], r.ver, r.by) /\ r \in db[Table(l)]
      BY <1>1, <1>2, <1>3, <2>1 DEF DelsInv
    <3>2. r.part = scope[l] /\ scope[l] \in Parts(Table(l))
      BY <1>1, <1>3, <2>1, <3>1, RowsFacts DEF PerDate, Parts, TypeOK
    <3>3. Shown(Table(l), scope[l]) = Rows(scope[l], r.ver, r.by)
      BY <1>3, <3>1, <3>2 DEF Inv, OneVersionShown, Shown
    <3>4. dels[l] \subseteq db[Table(l)]
      BY <3>1, <3>3 DEF Shown
    <3> QED
      BY <1>1, <3>1, <3>4
  <2> QED
    BY <1>1, <1>3, <1>4, <2>1 DEF DelsInv
<1>7. ASSUME NEW m \in Loads \ {l} PROVE RivalInv(l, m)'
  <2>1. Same(m) /\ Own(m) /\ RivalInv(l, m)
    BY <1>7 DEF OthersSame, Inv
  <2>2. Held(l)' = dels'[l] /\ Held(m)' = Held(m)
    BY <1>1, <1>3, <2>1 DEF Held, Same
  <2>3. SUFFICES ASSUME HasLock(m), Table(m) = Table(l),
                        NEW q \in dels'[l], NEW r \in Held(m), SameKey(q, r)
                 PROVE  FALSE
    BY <1>1, <1>3, <1>4, <2>1, <2>2 DEF RivalInv, Same, Table, SameKey
  <2>4. m \in Rivals(l) /\ q \notin Held(m) /\ r \notin dels[l]
    BY <1>1, <1>7, <2>3 DEF Rivals, Ready, WaitsFor
  <2>5. pc[m] # "deleting" /\ q \in db[Table(l)] /\ q \in dels[l]
    BY <1>1, <2>3 DEF Held
  <2>6. CASE r \in dels[m]
    <3>1. r \in db[Table(l)]
      BY <2>1, <2>3, <2>5, <2>6 DEF Own, DelsInv
    <3> QED
      BY <1>3, <2>3, <2>4, <2>5, <3>1, KeyUnique
  <2>7. CASE r \in ins[m]
    <3>1. q \in dels[m]
      BY <2>1, <2>3, <2>5, <2>7 DEF Own, InsInv, SameKey
    <3> QED
      BY <2>4, <2>5, <3>1 DEF Held
  <2> QED
    BY <2>3, <2>5, <2>6, <2>7 DEF Held
<1> QED
  BY <1>1, <1>5, <1>6, <1>7, Frame DEF Own

\* A TRUNCATE has its table to itself.
LEMMA TruncateKeeps ==
    ASSUME TypeOK, Inv, NEW l \in Loads, OthersSame(l), Truncate(l)
    PROVE  Inv'
<1> USE DEF HasLock, Settled
<1>1. /\ pc[l] = "clear" /\ ~PerDate(l) /\ Ready(l)
      /\ lock'[l] = "table" /\ pc'[l] = "insert"
      /\ dels'[l] = db[Table(l)]
      /\ UNCHANGED <<db, scope, pos, batch, ins>>
  BY DEF Truncate, Goto, TypeOK
<1>2. TxInv(l) /\ BatchInv(l)
  BY DEF Inv, Own
<1>3. ins[l] = {} /\ batch[l] # {} /\ pos[l] <= Len(Order)
  BY <1>1, <1>2, AtATable DEF TxInv, InTx
<1>4. Table(l)' = Table(l) /\ (PerDate(l)' <=> PerDate(l))
  BY <1>1 DEF Table, PerDate
<1>5. TxInv(l)' /\ BatchInv(l)' /\ DelsInv(l)' /\ InsInv(l)'
  BY <1>1, <1>2, <1>3, <1>4 DEF TxInv, BatchInv, DelsInv, InsInv
<1>6. ASSUME NEW m \in Loads \ {l} PROVE RivalInv(l, m)'
  <2>1. ~(lock[m] # "none" /\ Table(m) = Table(l))
    BY <1>1, <1>6 DEF Ready, WaitsFor, Rivals
  <2>2. lock'[m] = lock[m] /\ Table(m)' = Table(m)
    BY <1>6 DEF OthersSame, Same, Table
  <2> QED
    BY <1>4, <2>1, <2>2 DEF RivalInv
<1> QED
  BY <1>1, <1>5, <1>6, Frame DEF Own

\* An INSERT has waited for, or failed on, every row of its key.
LEMMA InsertKeeps ==
    ASSUME TypeOK, Inv, NEW l \in Loads, OthersSame(l), Insert(l)
    PROVE  Inv'
<1> USE DEF HasLock, Settled
<1>1. PICK r \in NextRow(l) :
        /\ \A q \in db[Table(l)] \ dels[l] : ~SameKey(q, r)
        /\ ins' = [ins EXCEPT ![l] = @ \cup {r}]
        /\ IF batch[l] \ ins[l] = {r} THEN Goto(l, "commit") ELSE UNCHANGED pc
  BY DEF Insert
<1>2. /\ pc[l] = "insert" /\ Ready(l) /\ r \in batch[l] /\ ins'[l] = ins[l] \cup {r}
      /\ pc'[l] \in {"insert", "commit"} /\ (pc'[l] = "commit" => batch[l] \ ins[l] = {r})
      /\ UNCHANGED <<db, scope, pos, batch, lock, dels>>
  BY <1>1 DEF Insert, NextRow, Goto, TypeOK
<1>3. TxInv(l) /\ BatchInv(l) /\ DelsInv(l) /\ InsInv(l)
  BY DEF Inv, Own
<1>4. Table(l)' = Table(l) /\ (PerDate(l)' <=> PerDate(l))
  BY <1>2 DEF Table, PerDate
<1>5. TxInv(l)'
  <2>1. ins[l] \subseteq batch[l]
    BY <1>3 DEF BatchInv
  <2>2. pc'[l] = "commit" => ins'[l] = batch'[l]
    BY <1>2, <2>1
  <2> QED
    BY <1>2, <1>3, <1>4, <2>2 DEF TxInv
<1>6. BatchInv(l)' /\ DelsInv(l)'
  BY <1>2, <1>3, <1>4 DEF BatchInv, DelsInv, TxInv
<1>7. InsInv(l)'
  BY <1>1, <1>2, <1>3, <1>4 DEF InsInv, TxInv, SameKey
<1>8. ASSUME NEW m \in Loads \ {l} PROVE RivalInv(l, m)'
  <2>1. Same(m) /\ RivalInv(l, m)
    BY <1>8 DEF OthersSame, Inv
  <2>2. Held(l)' = Held(l) \cup {r} /\ Held(m)' = Held(m)
    BY <1>2, <2>1 DEF Held, Same
  <2>3. lock[m] # "none" /\ Table(m) = Table(l) => \A q \in Held(m) : ~SameKey(q, r)
    BY <1>2, <1>8 DEF Ready, WaitsFor, Rivals
  <2> QED
    BY <1>2, <1>4, <2>1, <2>2, <2>3 DEF RivalInv, Same, Table, SameKey
<1> QED
  BY <1>2, <1>5, <1>6, <1>7, <1>8, Frame DEF Own

\* Where versions overlap, a transaction about to commit for a date has
\* deleted everything of it: what it had missed would clash.
LEMMA DeletedAll ==
    ASSUME VersionsOverlap, TypeOK, Inv, NEW l \in Loads,
           pc[l] = "commit", lock[l] = "rows"
    PROVE  /\ Table(l) \in DateScoped /\ scope[l] \in Parts(Table(l))
           /\ dels[l] = Shown(Table(l), scope[l])
<1> USE DEF HasLock, Settled
<1>1. TxInv(l) /\ BatchInv(l) /\ DelsInv(l) /\ InsInv(l)
  BY DEF Inv, Own
<1>2. PerDate(l) /\ Table(l) \in Tables /\ ins[l] = batch[l] /\ batch[l] # {}
  BY <1>1, AtATable DEF TxInv, InTx
<1>3. Table(l) \in DateScoped /\ scope[l] \in Parts(Table(l))
  BY <1>2 DEF PerDate, Parts, TypeOK
<1>4. dels[l] \subseteq db[Table(l)]
  BY <1>1 DEF DelsInv
<1>5. CASE dels[l] # {}
  <2>1. PICK r \in dels[l] : TRUE
    BY <1>5
  <2>2. dels[l] = Rows(scope[l], r.ver, r.by) /\ r.part = scope[l]
    BY <1>1, <2>1, RowsFacts DEF DelsInv
  <2>3. Shown(Table(l), scope[l]) = Rows(scope[l], r.ver, r.by)
    BY <1>2, <1>3, <1>4, <2>1, <2>2 DEF Inv, OneVersionShown, Shown
  <2> QED
    BY <1>3, <2>2, <2>3
<1>6. ASSUME dels[l] = {}, NEW s \in Shown(Table(l), scope[l]) PROVE FALSE
  <2>1. Shown(Table(l), scope[l]) = Rows(scope[l], s.ver, s.by)
    BY <1>2, <1>3, <1>6 DEF Inv, OneVersionShown
  <2>2. PICK b \in batch[l] : TRUE
    BY <1>2
  <2>3. Rows(scope[l], b.ver, l) \subseteq batch[l]
    BY <1>1, <1>2, <2>2 DEF BatchInv
  <2>4. s.ver \in Versions /\ b.ver \in Versions
    <3>1. s \in Row /\ b \in Row
      BY <1>2, <1>6, <2>2 DEF Shown, TypeOK
    <3> QED
      BY <3>1 DEF Row
  <2>5. PICK k \in Ranks[s.ver] : k \in Ranks[b.ver]
    BY <2>4 DEF VersionsOverlap
  <2>6. s.ver # NoVersion /\ b.ver # NoVersion
    BY <2>4, DeliveryAssumption DEF DeliveryAssumption
  <2>7. PICK q \in Rows(scope[l], s.ver, s.by) : q.rank = k
    BY <2>5, <2>6, RowsFacts
  <2>8. PICK r \in Rows(scope[l], b.ver, l) : r.rank = k
    BY <2>5, <2>6, RowsFacts
  <2>9. q.part = scope[l] /\ r.part = scope[l]
    BY <2>7, <2>8, RowsFacts
  <2>10. q \in db[Table(l)] \ dels[l] /\ r \in ins[l] /\ SameKey(r, q)
    BY <1>2, <1>6, <2>1, <2>3, <2>7, <2>8, <2>9 DEF Shown, SameKey
  <2> QED
    BY <1>1, <2>10 DEF InsInv, SameKey
<1> QED
  BY <1>3, <1>5, <1>6

\* Whatever becomes of the answer, a COMMIT that takes effect leaves one
\* version per date.
LEMMA CommitShowsOne ==
    ASSUME VersionsOverlap, TypeOK, Inv, NEW l \in Loads, pc[l] = "commit", HasLock(l),
           db' = [db EXCEPT ![Table(l)] = (@ \ dels[l]) \cup ins[l]]
    PROVE  OneVersionShown' /\ (\A t \in Tables : \A r \in db[t] : r.part \in Parts(t))'
<1> USE DEF HasLock
<1>1. TxInv(l) /\ BatchInv(l) /\ DelsInv(l)
  BY DEF Inv, Own
<1>2. Table(l) \in Tables /\ ins[l] = batch[l]
  BY <1>1, AtATable DEF TxInv, InTx
<1>3. /\ \A t \in Tables : t # Table(l) => db'[t] = db[t]
      /\ db'[Table(l)] = (db[Table(l)] \ dels[l]) \cup batch[l]
  BY <1>2 DEF TypeOK
<1>4. \A r \in batch[l] : /\ r.part \in Parts(Table(l))
                          /\ {q \in batch[l] : q.part = r.part} = Rows(r.part, r.ver, r.by)
  <2> SUFFICES ASSUME NEW r \in batch[l]
               PROVE  /\ r.part \in Parts(Table(l))
                      /\ {q \in batch[l] : q.part = r.part} = Rows(r.part, r.ver, r.by)
    OBVIOUS
  <2>1. r.part \in Parts(Table(l)) /\ {q \in batch[l] : q.part = r.part} = Rows(r.part, r.ver, l)
    BY <1>1 DEF BatchInv
  <2>2. r.by = l
    BY <2>1, RowsFacts
  <2> QED
    BY <2>1, <2>2
<1>5. \A t \in Tables : \A r \in db'[t] : r.part \in Parts(t)
  BY <1>3, <1>4 DEF Inv
<1>6. ASSUME NEW t \in Tables, NEW p \in Parts(t), NEW r \in Shown(t, p)'
      PROVE  Shown(t, p)' = Rows(p, r.ver, r.by)
  <2>1. CASE t # Table(l)
    BY <1>3, <1>6, <2>1 DEF Shown, Inv, OneVersionShown
  <2>2. CASE t = Table(l) /\ lock[l] = "table"
    <3>1. db'[t] = batch[l]
      BY <1>1, <1>3, <2>2 DEF DelsInv
    <3>2. r \in batch[l] /\ r.part = p /\ Shown(t, p)' = {q \in batch[l] : q.part = r.part}
      BY <1>6, <3>1 DEF Shown
    <3> QED
      BY <1>4, <3>2
  <2>3. CASE t = Table(l) /\ lock[l] = "rows"
    <3>1. dels[l] = Shown(t, scope[l]) /\ \A q \in batch[l] : q.part = scope[l]
      BY <1>1, <2>3, DeletedAll DEF TxInv, BatchInv
    <3>2. CASE p = scope[l]
      <4>1. Shown(t, p)' = batch[l]
        BY <1>3, <2>3, <3>1, <3>2 DEF Shown
      <4>2. r \in batch[l] /\ {q \in batch[l] : q.part = r.part} = batch[l] /\ r.part = p
        BY <1>6, <3>1, <3>2, <4>1
      <4> QED
        BY <1>4, <4>1, <4>2
    <3>3. CASE p # scope[l]
      <4>1. Shown(t, p)' = Shown(t, p)
        BY <1>3, <2>3, <3>1, <3>3 DEF Shown
      <4> QED
        BY <1>6, <4>1 DEF Inv, OneVersionShown
    <3> QED
      BY <3>2, <3>3
  <2>4. lock[l] \in {"rows", "table"}
    BY DEF TypeOK
  <2> QED
    BY <2>1, <2>2, <2>3, <2>4
<1> QED
  BY <1>5, <1>6 DEF OneVersionShown

\* ... and it takes nothing from another transaction on the table.
LEMMA CommitSparesOthers ==
    ASSUME TypeOK, Inv, NEW l \in Loads, pc[l] = "commit", HasLock(l), OthersSame(l),
           db' = [db EXCEPT ![Table(l)] = (@ \ dels[l]) \cup ins[l]],
           NEW m \in Loads \ {l}
    PROVE  Own(m)'
<1> USE DEF HasLock, Settled
<1>1. Same(m) /\ Own(m) /\ RivalInv(l, m) /\ Table(m)' = Table(m) /\ (PerDate(m)' <=> PerDate(m))
  BY DEF OthersSame, Inv, Same, Table, PerDate
<1>2. TxInv(m)' /\ BatchInv(m)'
  BY <1>1 DEF Own, Same, TxInv, BatchInv
<1>3. CASE ~HasLock(m)
  BY <1>1, <1>2, <1>3 DEF Own, Same, DelsInv, InsInv, TypeOK
<1>4. CASE HasLock(m) /\ Table(m) # Table(l)
  <2>1. Table(m) \in Tables
    BY <1>1, <1>4, TableType DEF Own, TxInv
  <2>2. db'[Table(m)] = db[Table(m)]
    BY <1>4, <2>1 DEF TypeOK
  <2>3. DelsInv(m)' /\ InsInv(m)'
    BY <1>1, <2>2 DEF Own, Same, DelsInv, InsInv, SameKey
  <2> QED
    BY <1>2, <2>3 DEF Own
<1>5. CASE HasLock(m) /\ Table(m) = Table(l)
  <2>1. db'[Table(m)] = (db[Table(m)] \ dels[l]) \cup ins[l]
    BY <1>5, AtATable DEF TypeOK, InTx
  <2>2. lock[m] = "rows" /\ \A q \in Held(l), r \in Held(m) : ~SameKey(q, r)
    BY <1>1, <1>5 DEF RivalInv
  <2>3. Held(l) = dels[l] \cup ins[l] /\ (pc[m] # "deleting" => Held(m) = dels[m] \cup ins[m])
    BY DEF Held
  <2>4. pc[m] # "deleting" => dels[l] \cap dels[m] = {}
    BY <2>2, <2>3 DEF SameKey
  <2>5. DelsInv(m)'
    BY <1>1, <2>1, <2>2, <2>4 DEF Own, Same, DelsInv
  <2>6. InsInv(m)'
    BY <1>1, <2>1, <2>2, <2>3 DEF Own, Same, InsInv, SameKey
  <2> QED
    BY <1>2, <2>5, <2>6 DEF Own
<1> QED
  BY <1>3, <1>4, <1>5

\* The acknowledgement may come or be lost.
LEMMA CommitKeeps ==
    ASSUME VersionsOverlap, TypeOK, Inv, NEW l \in Loads, OthersSame(l),
           Commit(l) \/ CommitLost(l)
    PROVE  Inv'
<1>1. /\ pc[l] = "commit" /\ EndTx(l)
      /\ db' = [db EXCEPT ![Table(l)] = (@ \ dels[l]) \cup ins[l]]
      /\ pc'[l] \in {"read", "close", "raised"}
  BY DEF Commit, CommitLost, NextTable, Goto, TypeOK
<1>2. Own(l)' /\ \A m \in Loads : RivalInv(l, m)'
  BY <1>1, EndTxOwn
<1>3. CASE ~HasLock(l)
  <2>1. dels[l] = {} /\ ins[l] = {} /\ Table(l) \in Tables
    BY <1>1, <1>3, AtATable DEF Inv, Own, TxInv, InTx
  <2>2. UNCHANGED db
    BY <1>1, <2>1 DEF TypeOK
  <2> QED
    BY <1>2, <2>2, Frame
<1>4. CASE HasLock(l)
  <2>1. \A m \in Loads : Own(m)'
    BY <1>1, <1>2, <1>4, CommitSparesOthers
  <2>2. ASSUME NEW m \in Loads, NEW n \in Loads, m # n PROVE RivalInv(m, n)'
    <3>1. CASE m = l
      BY <1>2, <3>1
    <3>2. CASE n = l
      <4>1. RivalInv(n, m)'
        BY <1>2, <3>2
      <4> QED
        BY <4>1 DEF RivalInv, SameKey
    <3>3. CASE m # l /\ n # l
      BY <2>2, <3>3, RivalsStay DEF Inv, OthersSame
    <3> QED
      BY <3>1, <3>2, <3>3
  <2> QED
    BY <1>1, <1>4, <2>1, <2>2, CommitShowsOne DEF Inv
<1> QED
  BY <1>3, <1>4

LEMMA InvInit == Init => Inv
<1> SUFFICES ASSUME Init PROVE Inv
  OBVIOUS
<1>1. PICK v \in Versions \cup {NoVersion} :
        db = [t \in Tables |-> UNION {Rows(p, v, Earlier) : p \in Parts(t)}]
  BY DEF Init
<1>2. \A t \in Tables : \A p \in Parts(t) : Rows(p, v, Earlier) \subseteq db[t]
  BY <1>1
<1>3. \A t \in Tables : \A r \in db[t] :
        r.part \in Parts(t) /\ r \in Rows(r.part, v, Earlier) /\ r.ver = v /\ r.by = Earlier
  BY <1>1, RowsFacts
<1>4. ASSUME NEW t \in Tables, NEW p \in Parts(t), NEW r \in Shown(t, p)
      PROVE  Shown(t, p) = Rows(p, r.ver, r.by)
  <2>1. r.ver = v /\ r.by = Earlier
    BY <1>3, <1>4 DEF Shown
  <2>2. Shown(t, p) \subseteq Rows(p, v, Earlier)
    BY <1>3 DEF Shown
  <2>3. Rows(p, v, Earlier) \subseteq Shown(t, p)
    BY <1>2, RowsFacts DEF Shown
  <2> QED
    BY <2>1, <2>2, <2>3
<1>5. ASSUME NEW l \in Loads PROVE Own(l)
  <2>1. pc[l] = "idle" /\ lock[l] = "none" /\ batch[l] = {} /\ dels[l] = {} /\ ins[l] = {}
    BY DEF Init
  <2> QED
    BY <2>1 DEF Own, TxInv, BatchInv, DelsInv, InsInv, HasLock, Settled
<1>6. \A l, m \in Loads : RivalInv(l, m)
  BY DEF Init, RivalInv, HasLock
<1> QED
  BY <1>3, <1>4, <1>5, <1>6 DEF Inv, OneVersionShown

LEMMA InvNext ==
    ASSUME VersionsOverlap, TypeOK, Inv, [Next]_vars
    PROVE  Inv'
<1>1. ASSUME NEW l \in Loads, Connect(l) \/ Step(l) \/ Fault(l) \/ ServerAborts(l) PROVE Inv'
  <2>0. OthersSame(l)
    BY <1>1, StepsAreLocal
  <2>1. CASE Connect(l) \/ Read(l) \/ Begin(l) \/ Close(l)
    BY <2>0, <2>1, QuietKeeps
  <2>2. CASE Delete(l)
    BY <2>0, <2>2, DeleteKeeps
  <2>3. CASE DeleteRows(l)
    BY <2>0, <2>3, DeleteRowsKeeps
  <2>4. CASE Truncate(l)
    BY <2>0, <2>4, TruncateKeeps
  <2>5. CASE Insert(l)
    BY <2>0, <2>5, InsertKeeps
  <2>6. CASE Commit(l) \/ CommitLost(l)
    BY <2>0, <2>6, CommitKeeps
  <2>7. CASE Clash(l) \/ Fails(l) \/ BeginLost(l) \/ ServerAborts(l)
    <3>1. EndTx(l) /\ UNCHANGED db /\ pc'[l] \notin {"clear", "deleting", "insert"}
      BY <2>7 DEF Clash, Fails, BeginLost, ServerAborts, Rollback, NextTable, Goto, TypeOK
    <3> QED
      BY <2>0, <3>1, EndTxOwn, Frame
  <2>8. CASE TimesOut(l) \/ Severed(l) \/ Kill(l)
    <3>1. Abandon(l, "raised") \/ Abandon(l, "killed")
      BY <2>8 DEF TimesOut, Severed, Kill
    <3> QED
      BY <2>0, <3>1, AbandonKeeps DEF Ended
  <2> QED
    BY <1>1, <2>1, <2>2, <2>3, <2>4, <2>5, <2>6, <2>7, <2>8 DEF Step, Fault
<1>2. ASSUME UNCHANGED <<db, pc, scope, pos, batch, session>> PROVE Inv'
  <2>1. \A m \in Loads : Same(m)
    BY <1>2 DEF Same, session
  <2>2. (\A m \in Loads : Own(m))' /\ \A m, n \in Loads : m # n => RivalInv(m, n)'
    BY <1>2, <2>1, OwnStays, RivalsStay DEF Inv
  <2> QED
    BY <1>2, <2>2 DEF Inv, OneVersionShown, Shown
<1>3. ASSUME NEW t \in Tables, NEW p \in Parts(t), GoldDelete(t, p) \/ GoldPut(t, p) PROVE Inv'
  BY <1>2, <1>3 DEF GoldDelete, GoldPut
<1>4. CASE UNCHANGED vars
  BY <1>2, <1>4 DEF vars
<1> QED
  BY <1>1, <1>3, <1>4 DEF Next

\* A date never shows rows of two versions, or part of one, whatever
\* deliveries overlap and whatever fails, as long as any two versions have a
\* key in common.
THEOREM OneVersion ==
    ASSUME VersionsOverlap
    PROVE  Spec => []OneVersionShown
<1>1. Init => TypeOK /\ Inv
  BY TypesInit, InvInit
<1>2. TypeOK /\ Inv /\ [Next]_vars => (TypeOK /\ Inv)'
  BY TypesNext, InvNext
<1>3. Inv => OneVersionShown
  BY DEF Inv
<1> QED
  BY <1>1, <1>2, <1>3, PTL DEF Spec

-----------------------------------------------------------------------------
(***************************************************************************)
(* Waiting: no circle of deliveries waits for each other, however many     *)
(* there are                                                               *)
(***************************************************************************)

\* A transaction inserts its records in the order of the key.
InOrder(l) == \A r \in ins[l], q \in batch[l] : Before(q, r) => q \in ins[l]

\* A version of a partition begins with the first of its ranks.
LEMMA FirstOverlap ==
    ASSUME FirstRankInAll
    PROVE  VersionsOverlap
BY DEF FirstRankInAll, VersionsOverlap

\* Two different rows of what was read have different keys.
LEMMA BatchKeys ==
    ASSUME NEW l \in Loads, BatchInv(l), NEW q \in batch[l], NEW r \in batch[l], SameKey(q, r)
    PROVE  q = r
<1>1. q.part = r.part /\ q.rank = r.rank
  BY DEF SameKey
<1>2. {s \in batch[l] : s.part = r.part} = Rows(r.part, r.ver, l)
  BY DEF BatchInv
<1>3. q \in Rows(r.part, r.ver, l) /\ r \in Rows(r.part, r.ver, l)
  BY <1>1, <1>2
<1> QED
  BY <1>1, <1>3, RowsFacts

LEMMA InsertInOrder ==
    ASSUME TypeOK, NEW l \in Loads, BatchInv(l), InOrder(l), Insert(l)
    PROVE  InOrder(l)'
<1>1. PICK r \in NextRow(l) : ins' = [ins EXCEPT ![l] = @ \cup {r}]
  BY DEF Insert
<1>2. UNCHANGED batch /\ ins'[l] = ins[l] \cup {r} /\ r \in batch[l]
  BY <1>1 DEF Insert, TypeOK, NextRow
<1>3. ASSUME NEW q \in batch[l], Before(q, r), q \notin ins[l] PROVE q = r
  <2>1. Before(r, q)
    BY <1>1, <1>3 DEF NextRow
  <2>2. q.part \in Nat /\ r.part \in Nat /\ q.rank \in Nat /\ r.rank \in Nat
    <3>1. q \in Row /\ r \in Row
      BY <1>2 DEF TypeOK
    <3>2. Days \cup {Snapshot} \subseteq Nat
      BY DeliveryAssumption DEF DeliveryAssumption, Snapshot
    <3> QED
      BY <3>1, <3>2 DEF Row
  <2>3. SameKey(q, r)
    BY <1>3, <2>1, <2>2 DEF Before, SameKey
  <2> QED
    BY <1>2, <2>3, BatchKeys
<1>4. ASSUME NEW s \in ins'[l], NEW q \in batch[l], Before(q, s) PROVE q \in ins'[l]
  BY <1>2, <1>3, <1>4 DEF InOrder
<1> QED
  BY <1>2, <1>4 DEF InOrder, Before

LEMMA InOrderNext ==
    ASSUME TypeOK, Inv, \A l \in Loads : InOrder(l), [Next]_vars
    PROVE  \A l \in Loads : InOrder(l)'
<1>1. ASSUME NEW l \in Loads, Connect(l) \/ Step(l) \/ Fault(l) \/ ServerAborts(l)
      PROVE  \A m \in Loads : InOrder(m)'
  <2>1. \A m \in Loads \ {l} : InOrder(m)'
    BY <1>1, StepsAreLocal DEF OthersSame, Same, InOrder, Before
  <2>2. TxInv(l) /\ BatchInv(l)
    BY DEF Inv, Own
  <2>3. ASSUME Connect(l) \/ Begin(l) \/ Delete(l) \/ DeleteRows(l) \/ Truncate(l) \/ Close(l)
               \/ TimesOut(l) \/ Severed(l) \/ Kill(l)
        PROVE  InOrder(l)'
    <3>1. UNCHANGED <<batch, ins>>
      BY <2>3 DEF Connect, Begin, Delete, DeleteRows, Truncate, Close, TimesOut, Severed, Kill,
                  Abandon, session
    <3> QED
      BY <3>1 DEF InOrder, Before
  <2>4. ASSUME Read(l) PROVE InOrder(l)'
    <3>1. ins[l] = {} /\ UNCHANGED ins
      BY <2>2, <2>4 DEF Read, session, TxInv, HasLock
    <3> QED
      BY <3>1 DEF InOrder
  <2>5. ASSUME Insert(l) PROVE InOrder(l)'
    BY <2>2, <2>5, InsertInOrder
  <2>6. ASSUME Commit(l) \/ CommitLost(l) \/ Clash(l) \/ Fails(l) \/ BeginLost(l) \/ ServerAborts(l)
        PROVE  InOrder(l)'
    <3>1. EndTx(l)
      BY <2>6 DEF Commit, CommitLost, Clash, Fails, Rollback, BeginLost, ServerAborts
    <3>2. ins'[l] = {}
      BY <3>1 DEF EndTx, TypeOK
    <3> QED
      BY <3>2 DEF InOrder
  <2>7. InOrder(l)'
    BY <1>1, <2>3, <2>4, <2>5, <2>6 DEF Step, Fault
  <2> QED
    BY <2>1, <2>7
<1>2. ASSUME UNCHANGED <<batch, session>> PROVE \A m \in Loads : InOrder(m)'
  BY <1>2 DEF InOrder, Before, session
<1>3. ASSUME NEW t \in Tables, NEW p \in Parts(t), GoldDelete(t, p) \/ GoldPut(t, p)
      PROVE  \A m \in Loads : InOrder(m)'
  BY <1>2, <1>3 DEF GoldDelete, GoldPut
<1>4. CASE UNCHANGED vars
  BY <1>2, <1>4 DEF vars
<1> QED
  BY <1>1, <1>3, <1>4 DEF Next

-----------------------------------------------------------------------------
\* The first row of a version is among the rows a transaction holds, if it
\* holds any for its date.
LEMMA HoldsFirst ==
    ASSUME TypeOK, Inv, NEW l \in Loads, InOrder(l), lock[l] = "rows",
           NEW k \in UNION {Ranks[v] : v \in Versions},
           \A v \in Versions : k \in Ranks[v] /\ \A j \in Ranks[v] : k <= j,
           NEW q \in Held(l)
    PROVE  /\ q.part = scope[l]
           /\ \E r \in Held(l) : r.part = scope[l] /\ r.rank = k
<1>1. pc[l] # "deleting" /\ Held(l) = dels[l] \cup ins[l]
  BY DEF Held
<1>2. DelsInv(l) /\ BatchInv(l) /\ PerDate(l) /\ ins[l] \subseteq batch[l]
  BY DEF Inv, Own, TxInv, BatchInv
<1>3. \A v \in Versions : v # NoVersion /\ Ranks[v] \subseteq Nat
  BY DeliveryAssumption DEF DeliveryAssumption
<1>4. q \in Row /\ q.ver \in Versions
  <2>1. q \in Row
    BY <1>1 DEF TypeOK
  <2> QED
    BY <2>1 DEF Row
<1>5. CASE q \in dels[l]
  <2>1. dels[l] = Rows(scope[l], q.ver, q.by)
    BY <1>2, <1>5 DEF DelsInv
  <2>2. PICK r \in Rows(scope[l], q.ver, q.by) : r.rank = k
    BY <1>3, <1>4, RowsFacts
  <2> QED
    BY <1>1, <1>5, <2>1, <2>2, RowsFacts
<1>6. CASE q \in ins[l]
  <2>1. q.part = scope[l] /\ {s \in batch[l] : s.part = q.part} = Rows(scope[l], q.ver, l)
    BY <1>2, <1>6 DEF BatchInv
  <2>2. PICK r \in Rows(scope[l], q.ver, l) : r.rank = k
    BY <1>3, <1>4, RowsFacts
  <2>3. r \in batch[l] /\ r.part = q.part
    BY <2>1, <2>2
  <2>4. q.rank \in Ranks[q.ver]
    BY <1>2, <1>6, <2>1, RowsFacts
  <2>5. Before(r, q)
    BY <1>4, <2>2, <2>3, <2>4 DEF Before
  <2>6. r \in ins[l]
    BY <1>6, <2>3, <2>5 DEF InOrder
  <2> QED
    BY <1>1, <2>1, <2>2, <2>3, <2>6
<1> QED
  BY <1>1, <1>5, <1>6

\* Of all transactions for one date of a table, one at most holds rows.
LEMMA OneHolder ==
    ASSUME FirstRankInAll, TypeOK, Inv, NEW l \in Loads, NEW m \in Loads, l # m,
           InOrder(l), InOrder(m), lock[l] = "rows", lock[m] = "rows", Table(l) = Table(m),
           scope[l] = scope[m], Held(l) # {}
    PROVE  Held(m) = {}
<1>1. PICK k \in UNION {Ranks[v] : v \in Versions} :
        \A v \in Versions : k \in Ranks[v] /\ \A j \in Ranks[v] : k <= j
  BY DEF FirstRankInAll
<1> SUFFICES ASSUME NEW s \in Held(m) PROVE FALSE
  OBVIOUS
<1>2. PICK q \in Held(l) : q.part = scope[l] /\ q.rank = k
  BY <1>1, HoldsFirst
<1>3. PICK r \in Held(m) : r.part = scope[l] /\ r.rank = k
  BY <1>1, HoldsFirst
<1>4. SameKey(q, r)
  BY <1>2, <1>3 DEF SameKey
<1>5. RivalInv(l, m)
  BY DEF Inv
<1> QED
  BY <1>2, <1>3, <1>4, <1>5 DEF RivalInv, HasLock

LEMMA WaitsForOne ==
    ASSUME FirstRankInAll, TypeOK, Inv, \A l \in Loads : InOrder(l)
    PROVE  NoDeadlock
<1> SUFFICES ASSUME NEW l \in Loads, NEW m \in Loads, lock[l] # "none", m \in WaitsFor(l),
                    NEW n \in WaitsFor(m)
             PROVE  FALSE
  BY DEF NoDeadlock, Ready
<1>1. pc[l] \in {"deleting", "insert"} /\ m \in Rivals(l) /\ Held(m) # {}
  BY DEF WaitsFor, Inv, Own, TxInv, HasLock
<1>2. lock[m] # "none" /\ pc[m] # "deleting"
  BY <1>1 DEF Rivals, Held
<1>3. /\ pc[m] = "insert" /\ n \in Rivals(m)
      /\ \E r \in NextRow(m), q \in Held(n) : SameKey(q, r)
  BY <1>2 DEF WaitsFor, Inv, Own, TxInv, HasLock
<1>4. PICK r \in NextRow(m), q \in Held(n) : SameKey(q, r)
  BY <1>3
<1>5. n \in Loads /\ n # m /\ lock[n] # "none" /\ Table(n) = Table(m)
  BY <1>3 DEF Rivals
<1>6. lock[m] = "rows" /\ lock[n] = "rows"
  BY <1>2, <1>5 DEF Inv, RivalInv, HasLock
<1>7. PICK k \in UNION {Ranks[v] : v \in Versions} :
        \A v \in Versions : k \in Ranks[v] /\ \A j \in Ranks[v] : k <= j
  BY DEF FirstRankInAll
<1>8. q.part = scope[n]
  BY <1>5, <1>6, <1>7, HoldsFirst
<1>9. r.part = scope[m]
  BY <1>6 DEF NextRow, Inv, Own, TxInv, BatchInv
<1>10. scope[m] = scope[n]
  BY <1>4, <1>8, <1>9 DEF SameKey
<1> QED
  BY <1>1, <1>4, <1>5, <1>6, <1>10, OneHolder

\* No delivery waits, with locks of its own, for one that waits: there is no
\* circle of any length, as long as every version has the first rank.
THEOREM NoCircle ==
    ASSUME FirstRankInAll
    PROVE  Spec => []NoDeadlock
<1> DEFINE AllInOrder == \A l \in Loads : InOrder(l)
<1>1. Init => TypeOK /\ Inv /\ AllInOrder
  BY TypesInit, InvInit DEF Init, InOrder
<1>2. TypeOK /\ Inv /\ AllInOrder /\ [Next]_vars => (TypeOK /\ Inv /\ AllInOrder)'
  BY TypesNext, InvNext, FirstOverlap, InOrderNext
<1>3. TypeOK /\ Inv /\ AllInOrder => NoDeadlock
  BY WaitsForOne
<1> QED
  BY <1>1, <1>2, <1>3, PTL DEF Spec
=============================================================================
