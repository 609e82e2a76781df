------------------------ MODULE DeliveryReaderProofs ------------------------
(***************************************************************************)
(* Theorems about what Delivery shows the outside: its report is true in   *)
(* both directions, and a reader of the database sees atomic reloads.      *)
(***************************************************************************)
EXTENDS DeliveryProofs

-----------------------------------------------------------------------------
(***************************************************************************)
(* The report                                                              *)
(***************************************************************************)

\* The tables that come before the one at hand.
Slice(i, j) == {Order[k] : k \in i .. j}
Behind(l) == Slice(1, pos[l] - 1)

\* A delivery has rows in the database only where it was acknowledged a
\* COMMIT before, or was waiting for the answer to one when it ended.
ReportInv(l) ==
    /\ \A r \in batch[l] \cup ins[l] : r.by = l
    /\ errors[l] \subseteq Behind(l)
    /\ pc[l] = "commit" => Table(l) \in summary[l]
    /\ \A t \in Tables : (\E r \in db[t] : r.by = l) =>
          /\ t \in summary[l] \ errors[l]
          /\ t \in Behind(l) \/ pc[l] \in Ended

\* A table is in GOLD_TABLES once.
LEMMA OnceInOrder ==
    ASSUME TypeOK, NEW l \in Loads, pos[l] <= Len(Order)
    PROVE  /\ Table(l) \notin Behind(l)
           /\ Slice(pos[l], Len(Order)) \cap Behind(l) = {}
<1>1. \A i, j \in 1 .. Len(Order) : Order[i] = Order[j] => i = j
  BY DeliveryAssumption DEF DeliveryAssumption
<1> QED
  BY <1>1, FirstTable DEF TypeOK, Table, Behind, Slice

\* What the loop leaves behind when it goes on.
LEMMA BehindNext ==
    ASSUME TypeOK, NEW l \in Loads, pos[l] <= Len(Order), pos'[l] \in pos[l] .. Len(Order) + 1
    PROVE  /\ Behind(l) \subseteq Behind(l)'
           /\ pos'[l] > pos[l] => Table(l) \in Behind(l)'
BY FirstTable DEF TypeOK, Table, Behind, Slice

\* Rows come into the database by the commit of their own delivery only.
LEMMA ReportOfOthers ==
    ASSUME TypeOK, NEW l \in Loads, NEW m \in Loads \ {l}, ReportInv(l), ReportInv(m),
           OthersSame(l), summary'[m] = summary[m], errors'[m] = errors[m],
           \A t \in Tables : db'[t] \subseteq db[t] \cup ins[l]
    PROVE  ReportInv(m)'
<1>1. Same(m) /\ Behind(m)' = Behind(m) /\ Table(m)' = Table(m)
  BY DEF OthersSame, Same, Behind, Table
<1>2. \A t \in Tables : (\E r \in db'[t] : r.by = m) => \E r \in db[t] : r.by = m
  BY DEF ReportInv
<1> QED
  BY <1>1, <1>2 DEF ReportInv, Same

\* A step that gives up the table at hand, or all the rest.
LEMMA ReportOfGivenUp ==
    ASSUME TypeOK, NEW l \in Loads, ReportInv(l), pos[l] <= Len(Order), pc[l] \notin Ended,
           EndTx(l), UNCHANGED <<db, summary>>,
           pos'[l] \in pos[l] + 1 .. Len(Order) + 1, pc'[l] \in {"read", "close"},
           errors'[l] \subseteq errors[l] \cup Slice(pos[l], pos'[l] - 1)
    PROVE  ReportInv(l)'
<1>1. batch'[l] = {} /\ ins'[l] = {}
  BY DEF EndTx, TypeOK
<1> DEFINE given == Slice(pos[l], pos'[l] - 1)
<1>0. pos[l] \in 1 .. Len(Order) + 1 /\ Len(Order) \in Nat
  BY FirstTable DEF TypeOK
<1>2. Behind(l) \subseteq Behind(l)' /\ given \subseteq Behind(l)'
  BY <1>0 DEF Behind, Slice
<1>3. given \cap Behind(l) = {}
  <2>1. given \subseteq Slice(pos[l], Len(Order))
    BY <1>0 DEF Slice
  <2> QED
    BY <2>1, OnceInOrder
<1> HIDE DEF given
<1> QED
  BY <1>1, <1>2, <1>3 DEF ReportInv, given

LEMMA ReportOfCommit ==
    ASSUME TypeOK, NEW l \in Loads, ReportInv(l), pc[l] = "commit", pos[l] <= Len(Order),
           EndTx(l), UNCHANGED <<summary, errors>>,
           db' = [db EXCEPT ![Table(l)] = (@ \ dels[l]) \cup ins[l]],
           \/ pos'[l] = pos[l] + 1 /\ pc'[l] \in {"read", "close"}
           \/ pos'[l] = pos[l] /\ pc'[l] = "raised"
    PROVE  ReportInv(l)'
<1>1. batch'[l] = {} /\ ins'[l] = {}
  BY DEF EndTx, TypeOK
<1>2. Table(l) \in summary[l] \ errors[l]
  BY OnceInOrder DEF ReportInv
<1>3. Behind(l) \subseteq Behind(l)' /\ (pos'[l] > pos[l] => Table(l) \in Behind(l)')
  <2>1. pos[l] \in 1 .. Len(Order) + 1 /\ Len(Order) \in Nat
    BY FirstTable DEF TypeOK
  <2>2. pos'[l] \in pos[l] .. Len(Order) + 1
    BY <2>1
  <2> QED
    BY <2>2, BehindNext
<1>4. \A t \in Tables : t # Table(l) => db'[t] = db[t]
  BY DEF TypeOK
<1>5. pos[l] + 1 > pos[l] /\ "raised" \in Ended /\ pc[l] \notin Ended
  BY DEF TypeOK, Ended
<1>6. \A t \in Tables : (\E r \in db'[t] : r.by = l) =>
        t \in summary[l] \ errors[l] /\ (t \in Behind(l)' \/ pc'[l] \in Ended)
  <2> SUFFICES ASSUME NEW t \in Tables, \E r \in db'[t] : r.by = l
               PROVE  t \in summary[l] \ errors[l] /\ (t \in Behind(l)' \/ pc'[l] \in Ended)
    OBVIOUS
  <2>1. CASE t = Table(l)
    BY <1>2, <1>3, <1>5, <2>1
  <2>2. CASE t # Table(l)
    BY <1>3, <1>4, <1>5, <2>2 DEF ReportInv
  <2> QED
    BY <2>1, <2>2
<1>7. errors[l] \subseteq Behind(l)' /\ pc'[l] # "commit"
  BY <1>3 DEF ReportInv
<1> QED
  BY <1>1, <1>6, <1>7 DEF ReportInv

\* The other steps of a delivery change neither the database nor its errors.
LEMMA ReportOfOtherSteps ==
    ASSUME TypeOK, NEW l \in Loads, ReportInv(l), UNCHANGED <<db, pos, errors>>,
           \A r \in batch'[l] \cup ins'[l] : r.by = l,
           pc'[l] = "commit" => Table(l) \in summary'[l],
           summary[l] \subseteq summary'[l], pc[l] \in Ended => pc'[l] \in Ended
    PROVE  ReportInv(l)'
<1>1. Behind(l)' = Behind(l) /\ Table(l)' = Table(l)
  BY DEF Behind, Table
<1> QED
  BY <1>1 DEF ReportInv

LEMMA ReportNext ==
    ASSUME TypeOK, \A l \in Loads : ReportInv(l), [Next]_vars
    PROVE  \A l \in Loads : ReportInv(l)'
<1>1. ASSUME NEW l \in Loads, Connect(l) \/ Step(l) \/ Fault(l) \/ ServerAborts(l)
      PROVE  \A m \in Loads : ReportInv(m)'
  <2>1. OthersSame(l)
    BY <1>1, StepsAreLocal
  <2>2. ReportInv(l)
    OBVIOUS
  <2>3. CASE Connect(l) \/ Delete(l) \/ DeleteRows(l) \/ Truncate(l) \/ Close(l)
    <3>1. UNCHANGED <<db, pos, batch, ins, summary, errors>> /\ pc[l] \notin Ended
          /\ pc'[l] # "commit"
      BY <2>3 DEF Connect, Delete, DeleteRows, Truncate, Close, Goto, TypeOK, Ended, session, report
    <3>2. ReportInv(l)'
      BY <2>2, <3>1, ReportOfOtherSteps DEF ReportInv
    <3> QED
      BY <2>1, <2>2, <3>1, <3>2, ReportOfOthers
  <2>4. CASE TimesOut(l) \/ Severed(l) \/ Kill(l)
    <3>1. UNCHANGED <<db, pos, batch, ins, summary, errors>> /\ pc'[l] \in {"raised", "killed"}
      BY <2>4 DEF TimesOut, Severed, Kill, Abandon, Goto, TypeOK, report
    <3>2. ReportInv(l)'
      BY <2>2, <3>1, ReportOfOtherSteps DEF ReportInv, Ended
    <3> QED
      BY <2>1, <2>2, <3>1, <3>2, ReportOfOthers
  <2>5. CASE Read(l)
    <3>1. UNCHANGED <<db, pos, ins, summary, errors>> /\ pc[l] = "read" /\ pc'[l] = "begin"
      BY <2>5 DEF Read, Goto, TypeOK, session, report
    <3>2. \A r \in batch'[l] : r.by = l
      <4> DEFINE t == Table(l)
                 wanted == IF PerDate(l) THEN {scope[l]} ELSE Parts(t)
      <4>1. CASE UNCHANGED batch
        BY <2>2, <4>1 DEF ReportInv
      <4>2. CASE batch' = [batch EXCEPT ![l] = UNION {Rows(p, gold[t][p], l) : p \in wanted}]
        <5>1. batch'[l] = UNION {Rows(p, gold[t][p], l) : p \in wanted}
          BY <4>2 DEF TypeOK
        <5> HIDE DEF wanted, t
        <5> QED
          BY <5>1, RowsFacts
      <4> QED
        BY <2>5, <4>1, <4>2 DEF Read
    <3>3. ReportInv(l)'
      BY <2>2, <3>1, <3>2, ReportOfOtherSteps DEF ReportInv, Ended
    <3> QED
      BY <2>1, <2>2, <3>1, <3>3, ReportOfOthers
  <2>6. CASE Begin(l) \/ Insert(l)
    <3>1. UNCHANGED <<db, pos, batch, errors>> /\ pc[l] \notin Ended
      BY <2>6 DEF Begin, Insert, session, Ended
    <3>2. \A r \in ins'[l] : r.by = l
      BY <2>2, <2>6 DEF Begin, Insert, NextRow, TypeOK, session, ReportInv
    <3>3. \/ pc'[l] # "commit" /\ UNCHANGED summary
          \/ pc'[l] = "commit" /\ summary' = [summary EXCEPT ![l] = @ \cup {Table(l)}]
      BY <2>6 DEF Begin, Insert, Goto, TypeOK
    <3>4. /\ pc'[l] = "commit" => Table(l) \in summary'[l]
          /\ summary[l] \subseteq summary'[l]
          /\ \A m \in Loads \ {l} : summary'[m] = summary[m]
      BY <3>3 DEF TypeOK
    <3>5. ReportInv(l)'
      BY <2>2, <3>1, <3>2, <3>4, ReportOfOtherSteps DEF ReportInv
    <3> QED
      BY <2>1, <2>2, <3>1, <3>4, <3>5, ReportOfOthers
  <2>7. CASE Commit(l) \/ CommitLost(l)
    <3>1. pc[l] = "commit" /\ pos[l] <= Len(Order)
      BY <2>7, AtATable DEF Commit, CommitLost, InTx
    <3>2. /\ EndTx(l) /\ UNCHANGED <<summary, errors>>
          /\ db' = [db EXCEPT ![Table(l)] = (@ \ dels[l]) \cup ins[l]]
          /\ \/ pos'[l] = pos[l] + 1 /\ pc'[l] \in {"read", "close"}
             \/ pos'[l] = pos[l] /\ pc'[l] = "raised"
      BY <2>7 DEF Commit, CommitLost, NextTable, Goto, TypeOK, report
    <3>3. ReportInv(l)'
      BY <2>2, <3>1, <3>2, ReportOfCommit
    <3>4. \A t \in Tables : db'[t] \subseteq db[t] \cup ins[l]
      BY <3>2 DEF TypeOK
    <3> QED
      BY <2>1, <2>2, <3>2, <3>3, <3>4, ReportOfOthers
  <2>8. CASE Clash(l) \/ Fails(l) \/ BeginLost(l)
    <3>1. pc[l] \in {"begin"} \cup InTx /\ pc[l] \notin Ended /\ pos[l] <= Len(Order)
      BY <2>8 DEF Clash, Fails, BeginLost, TypeOK, Active, InTx, Ended
    <3>2. EndTx(l) /\ UNCHANGED <<db, summary>> /\ \A m \in Loads \ {l} : errors'[m] = errors[m]
      BY <2>8 DEF Clash, Fails, BeginLost, Rollback, TypeOK
    <3>3. ASSUME Clash(l) \/ Fails(l) PROVE ReportInv(l)'
      <4>1. /\ errors'[l] = errors[l] \cup {Table(l)} /\ pc'[l] \in {"read", "close"}
            /\ pos'[l] = pos[l] + 1
        BY <3>3 DEF Clash, Fails, Rollback, NextTable, Goto, TypeOK
      <4>2. pos'[l] \in pos[l] + 1 .. Len(Order) + 1
        BY <3>1, <4>1, FirstTable DEF TypeOK
      <4>3. Table(l) \in Slice(pos[l], pos'[l] - 1)
        <5>1. pos[l] \in Nat /\ pos[l] \in pos[l] .. pos'[l] - 1
          BY <4>1 DEF TypeOK
        <5> QED
          BY <5>1 DEF Table, Slice
      <4>4. errors'[l] \subseteq errors[l] \cup Slice(pos[l], pos'[l] - 1)
        BY <4>1, <4>3
      <4> QED
        BY <2>2, <3>1, <3>2, <4>1, <4>2, <4>4, ReportOfGivenUp
    <3>4. ASSUME BeginLost(l) PROVE ReportInv(l)'
      <4>1. /\ errors'[l] = errors[l] \cup {Order[i] : i \in pos[l] .. Len(Order)}
            /\ pos'[l] = Len(Order) + 1 /\ pc'[l] = "close"
        BY <3>4 DEF BeginLost, Goto, TypeOK
      <4>2. pos'[l] \in pos[l] + 1 .. Len(Order) + 1
        BY <3>1, <4>1, FirstTable DEF TypeOK
      <4>3. Len(Order) = pos'[l] - 1
        BY <4>1, FirstTable
      <4>4. errors'[l] \subseteq errors[l] \cup Slice(pos[l], pos'[l] - 1)
        BY <3>4, <4>1, <4>3 DEF BeginLost, Slice
      <4> QED
        BY <2>2, <3>1, <3>2, <4>1, <4>2, <4>4, ReportOfGivenUp
    <3>5. ReportInv(l)'
      BY <2>8, <3>3, <3>4
    <3> QED
      BY <2>1, <2>2, <3>2, <3>5, ReportOfOthers
  <2>9. CASE ServerAborts(l)
    <3>1. UNCHANGED <<db, pos, summary, errors>> /\ pc[l] \in Ended /\ pc'[l] = pc[l]
      BY <2>9 DEF ServerAborts, report, Ended
    <3>2. batch'[l] = {} /\ ins'[l] = {} /\ pc'[l] # "commit"
      BY <2>9 DEF ServerAborts, EndTx, TypeOK
    <3>3. ReportInv(l)'
      BY <2>2, <3>1, <3>2, ReportOfOtherSteps
    <3> QED
      BY <2>1, <2>2, <3>1, <3>3, ReportOfOthers
  <2> QED
    BY <1>1, <2>3, <2>4, <2>5, <2>6, <2>7, <2>8, <2>9 DEF Step, Fault
<1>2. ASSUME UNCHANGED <<db, pc, scope, pos, batch, session, report>>
      PROVE  \A m \in Loads : ReportInv(m)'
  BY <1>2 DEF ReportInv, Behind, Table, session, report
<1>3. ASSUME NEW t \in Tables, NEW p \in Parts(t), GoldDelete(t, p) \/ GoldPut(t, p)
      PROVE  \A m \in Loads : ReportInv(m)'
  BY <1>2, <1>3 DEF GoldDelete, GoldPut
<1>4. CASE UNCHANGED vars
  BY <1>2, <1>4 DEF vars
<1> QED
  BY <1>1, <1>3, <1>4 DEF Next

LEMMA ReportInit == Init => \A l \in Loads : ReportInv(l)
<1> SUFFICES ASSUME Init, NEW l \in Loads PROVE ReportInv(l)
  OBVIOUS
<1>1. \A t \in Tables : \A r \in db[t] : r.by # l
  <2>1. PICK v \in Versions \cup {NoVersion} :
          db = [t \in Tables |-> UNION {Rows(p, v, Earlier) : p \in Parts(t)}]
    BY DEF Init
  <2>2. \A t \in Tables : \A r \in db[t] : r.by = Earlier
    BY <2>1, RowsFacts
  <2> QED
    BY <2>2, DeliveryAssumption DEF DeliveryAssumption
<1>2. batch[l] = {} /\ ins[l] = {} /\ errors[l] = {} /\ pc[l] = "idle"
  BY DEF Init
<1> QED
  BY <1>1, <1>2 DEF ReportInv

\* No delivery has rows in the database for a table that it does not report,
\* or reports as failed.
THEOREM ReportTrue == Spec => []ReportIsTrue
<1> DEFINE Reports == \A l \in Loads : ReportInv(l)
<1>1. Init => TypeOK /\ Reports
  BY TypesInit, ReportInit
<1>2. TypeOK /\ Reports /\ [Next]_vars => (TypeOK /\ Reports)'
  BY TypesNext, ReportNext
<1>3. Reports => ReportIsTrue
  BY DEF ReportInv, ReportIsTrue
<1> QED
  BY <1>1, <1>2, <1>3, PTL DEF Spec

\* What is inserted was read, and all of it when load_table has returned.
Inserted(l) ==
    /\ ins[l] \subseteq batch[l]
    /\ pc[l] = "commit" => ins[l] = batch[l]
    /\ pc[l] \in {"idle", "read", "begin", "clear", "deleting"} => ins[l] = {}

LEMMA InsertedNext ==
    ASSUME TypeOK, \A l \in Loads : Inserted(l), [Next]_vars
    PROVE  \A l \in Loads : Inserted(l)'
<1>1. ASSUME NEW l \in Loads, Connect(l) \/ Step(l) \/ Fault(l) \/ ServerAborts(l),
             NEW m \in Loads
      PROVE  Inserted(m)'
  <2>1. CASE m # l
    BY <1>1, <2>1, StepsAreLocal DEF OthersSame, Same, Inserted
  <2>2. CASE m = l
    <3> USE DEF TypeOK, Inserted, Goto
    <3>1. CASE Connect(l) \/ Close(l)
      BY <2>2, <3>1 DEF Connect, Close, session
    <3>2. CASE Read(l)
      BY <2>2, <3>2 DEF Read, session
    <3>3. CASE Begin(l)
      BY <2>2, <3>3 DEF Begin, session
    <3>4. CASE Delete(l) \/ DeleteRows(l) \/ Truncate(l)
      BY <2>2, <3>4 DEF Delete, DeleteRows, Truncate
    <3>5. CASE Insert(l)
      <4>1. PICK r \in NextRow(l) :
                /\ ins' = [ins EXCEPT ![l] = @ \cup {r}]
                /\ IF batch[l] \ ins[l] = {r} THEN pc' = [pc EXCEPT ![l] = "commit"]
                                              ELSE UNCHANGED pc
        BY <3>5 DEF Insert
      <4>2. r \in batch[l] \ ins[l]
        BY <4>1 DEF NextRow
      <4> QED
        BY <2>2, <3>5, <4>1, <4>2 DEF Insert
    <3>6. CASE EndTx(l) /\ pc'[l] # "commit"
      BY <2>2, <3>6 DEF EndTx
    <3>7. CASE Commit(l) \/ CommitLost(l) \/ Clash(l) \/ Fails(l) \/ BeginLost(l) \/ ServerAborts(l)
      BY <3>6, <3>7 DEF Commit, CommitLost, Clash, Fails, Rollback, NextTable, BeginLost,
                        ServerAborts
    <3>8. CASE TimesOut(l) \/ Severed(l) \/ Kill(l)
      BY <2>2, <3>8 DEF TimesOut, Severed, Kill, Abandon
    <3> QED
      BY <1>1, <3>1, <3>2, <3>3, <3>4, <3>5, <3>7, <3>8 DEF Step, Fault
  <2> QED
    BY <2>1, <2>2
<1>2. ASSUME UNCHANGED <<pc, batch, session>> PROVE \A l \in Loads : Inserted(l)'
  BY <1>2 DEF Inserted, session
<1>3. CASE \E t \in Tables : \E p \in Parts(t) : GoldDelete(t, p) \/ GoldPut(t, p)
  BY <1>2, <1>3 DEF GoldDelete, GoldPut
<1>4. CASE UNCHANGED vars
  BY <1>2, <1>4 DEF vars
<1> QED
  BY <1>1, <1>3, <1>4 DEF Next

\* What a delivery leaves behind as loaded is in the database, row by row.
LEMMA LoadedNext ==
    ASSUME TypeOK, NEW l \in Loads, ReportInv(l), Inserted(l), NEW m \in Loads,
           Connect(m) \/ Step(m) \/ Fault(m) \/ ServerAborts(m),
           pos'[l] # pos[l], Table(l) \in summary'[l] \ errors'[l]
    PROVE  {r \in db'[Table(l)] : r.by = l} = batch[l]
<1>1. m = l
  BY StepsAreLocal DEF OthersSame, Same
<1>2. CASE Commit(l)
  <2>1. pc[l] = "commit" /\ ins[l] = batch[l] /\ pos[l] <= Len(Order)
    BY <1>2 DEF Commit, Inserted, TypeOK, Active, InTx
  <2>2. Table(l) \in Tables /\ Table(l) \notin Behind(l)
    BY <2>1, TableType, OnceInOrder
  <2>3. \A r \in db[Table(l)] : r.by # l
    BY <2>1, <2>2 DEF ReportInv, Ended
  <2>4. db'[Table(l)] = (db[Table(l)] \ dels[l]) \cup ins[l]
    BY <1>2, <2>2 DEF Commit, TypeOK
  <2> QED
    BY <2>1, <2>3, <2>4 DEF ReportInv
<1>3. CASE Clash(l) \/ Fails(l)
  BY <1>3 DEF Clash, Fails, Rollback, TypeOK
<1>4. CASE BeginLost(l)
  <2>1. pos[l] \in pos[l] .. Len(Order)
    BY <1>4, FirstTable DEF BeginLost, TypeOK, Active
  <2> QED
    BY <1>4, <2>1 DEF BeginLost, Table, TypeOK
<1>5. CASE Connect(l) \/ Read(l) \/ Begin(l) \/ Delete(l) \/ DeleteRows(l) \/ Truncate(l)
           \/ Insert(l) \/ TimesOut(l) \/ Close(l) \/ Severed(l) \/ CommitLost(l)
           \/ Kill(l) \/ ServerAborts(l)
  BY <1>5 DEF Connect, Read, Begin, Delete, DeleteRows, Truncate, Insert, TimesOut, Close,
              Severed, CommitLost, Kill, ServerAborts, Abandon
<1> QED
  BY <1>1, <1>2, <1>3, <1>4, <1>5 DEF Step, Fault

\* A delivery that goes on to the next table and reports the last one as loaded
\* and not as failed has put exactly the rows it has read into the database.
THEOREM LoadedTrue == Spec => LoadedAsReported
<1> DEFINE All == TypeOK /\ \A l \in Loads : ReportInv(l) /\ Inserted(l)
           Loaded == \A l \in Loads :
                        pos'[l] # pos[l] /\ Table(l) \in summary'[l] \ errors'[l] =>
                            {r \in db'[Table(l)] : r.by = l} = batch[l]
<1>1. Init => All
  <2>1. Init => \A l \in Loads : Inserted(l)
    BY DEF Init, Inserted
  <2> QED
    BY <2>1, TypesInit, ReportInit
<1>2. All /\ [Next]_vars => All'
  BY TypesNext, ReportNext, InsertedNext
<1>3. All /\ [Next]_vars => [Loaded]_vars
  <2> SUFFICES ASSUME All, Next, NEW l \in Loads, pos'[l] # pos[l],
                      Table(l) \in summary'[l] \ errors'[l]
               PROVE  {r \in db'[Table(l)] : r.by = l} = batch[l]
    OBVIOUS
  <2>1. \A t \in Tables : \A p \in Parts(t) : ~GoldDelete(t, p) /\ ~GoldPut(t, p)
    BY DEF GoldDelete, GoldPut
  <2>2. PICK m \in Loads : Connect(m) \/ Step(m) \/ Fault(m) \/ ServerAborts(m)
    BY <2>1 DEF Next
  <2> QED
    BY <2>2, LoadedNext
<1> QED
  BY <1>1, <1>2, <1>3, PTL DEF Spec, LoadedAsReported

-----------------------------------------------------------------------------
(***************************************************************************)
(* Delivery implements AtomicReload                                        *)
(***************************************************************************)

\* What the refinement maps: the versions a reader sees, the dates asked for.
shownNow == [t \in Tables |-> [p \in Parts(t) |-> VersionShown(t, p)]]
asked == {scope[l] : l \in {m \in Loads : pc[m] # "idle"}}

LEMMA VersionOfRows ==
    ASSUME NEW rows, NEW p, \A r \in rows : rows = Rows(p, r.ver, r.by)
    PROVE  /\ rows = {} => VersionOf(rows, p) = NoVersion
           /\ \A r \in rows : VersionOf(rows, p) = r.ver
<1>1. CASE rows = {}
  BY <1>1 DEF VersionOf
<1>2. CASE rows # {}
  <2> DEFINE one == CHOOSE r \in rows : TRUE
  <2>1. one \in rows /\ rows = Rows(p, one.ver, one.by)
    BY <1>2
  <2>2. VersionOf(rows, p) = one.ver
    BY <1>2, <2>1 DEF VersionOf
  <2> HIDE DEF one
  <2> QED
    BY <1>2, <2>1, <2>2, RowsFacts
<1> QED
  BY <1>1, <1>2

\* What a reader sees of a date: nothing, or the one version that is there.
LEMMA VersionsSeen ==
    ASSUME NEW rows \in SUBSET Row, NEW p,
           \A r \in {q \in rows : q.part = p} : {q \in rows : q.part = p} = Rows(p, r.ver, r.by)
    PROVE  LET seen == VersionOf({q \in rows : q.part = p}, p)
           IN  /\ seen \in Versions \cup {NoVersion}
               /\ \A r \in rows : r.part = p => seen = r.ver /\ r.ver \in Versions
<1> DEFINE here == {q \in rows : q.part = p}
<1>1. \A r \in here : r.ver \in Versions
  BY DEF Row
<1>2. /\ here = {} => VersionOf(here, p) = NoVersion
      /\ \A r \in here : VersionOf(here, p) = r.ver
  <2>1. \A r \in here : here = Rows(p, r.ver, r.by)
    OBVIOUS
  <2> HIDE DEF here
  <2> QED
    BY <2>1, VersionOfRows
<1>3. \A r \in rows : r.part = p => r \in here
  OBVIOUS
<1> HIDE DEF here
<1>4. /\ VersionOf(here, p) \in Versions \cup {NoVersion}
      /\ \A r \in rows : r.part = p => VersionOf(here, p) = r.ver /\ r.ver \in Versions
  BY <1>1, <1>2, <1>3
<1> QED
  BY <1>4 DEF here

LEMMA ShownNow ==
    ASSUME TypeOK, OneVersionShown, NEW t \in Tables, NEW p \in Parts(t)
    PROVE  /\ VersionShown(t, p) \in Versions \cup {NoVersion}
           /\ \A r \in db[t] : r.part = p => VersionShown(t, p) = r.ver /\ r.ver \in Versions
<1>1. db[t] \in SUBSET Row
  BY DEF TypeOK
<1> QED
  BY <1>1, VersionsSeen DEF VersionShown, Shown, OneVersionShown

LEMMA ShownNext ==
    ASSUME TypeOK', OneVersionShown', NEW t \in Tables, NEW p \in Parts(t)
    PROVE  /\ VersionShown(t, p)' \in Versions \cup {NoVersion}
           /\ \A r \in db'[t] : r.part = p => VersionShown(t, p)' = r.ver /\ r.ver \in Versions
<1>1. db'[t] \in SUBSET Row
  BY DEF TypeOK
<1> QED
  BY <1>1, VersionsSeen DEF VersionShown, Shown, OneVersionShown

LEMMA ReaderInit ==
    ASSUME Init, TypeOK, Inv
    PROVE  Reader!Init
<1>1. \A t \in Tables : \A p \in Parts(t) : VersionShown(t, p) \in Versions \cup {NoVersion}
  BY ShownNow DEF Inv
<1>2. asked = {}
  BY DEF Init, asked
<1> QED
  BY <1>1, <1>2 DEF Reader!Init, asked

\* The commit of a transaction that deleted a date reloads that date.
LEMMA CommitReloadsDay ==
    ASSUME VersionsOverlap, TypeOK, TypeOK', Inv, OneVersionShown', NEW l \in Loads,
           pc[l] = "commit", lock[l] = "rows", asked' = asked,
           db' = [db EXCEPT ![Table(l)] = (@ \ dels[l]) \cup ins[l]]
    PROVE  Reader!ReloadDay(Table(l), scope[l])
<1>0. PICK t \in Tables : t = Table(l)
  BY AtATable DEF InTx
<1>1. PICK s \in Parts(t) : s = scope[l] /\ dels[l] = Shown(t, s)
  BY <1>0, DeletedAll
<1>2. ins[l] # {} /\ \A r \in ins[l] : r.part = s
  BY <1>1 DEF Inv, Own, TxInv, BatchInv, HasLock
<1>3. /\ db'[t] = (db[t] \ Shown(t, s)) \cup ins[l]
      /\ \A u \in Tables : u # t => db'[u] = db[u]
  BY <1>0, <1>1 DEF TypeOK
<1>4. s \in asked
  BY <1>1 DEF asked
<1>5. VersionShown(t, s)' \in Versions
  BY <1>1, <1>2, <1>3, ShownNext
<1>6. ASSUME NEW u \in Tables, NEW p \in Parts(u), u # t \/ p # s
      PROVE  VersionShown(u, p)' = VersionShown(u, p)
  <2>1. Shown(u, p)' = Shown(u, p)
    BY <1>2, <1>3, <1>6 DEF Shown
  <2> QED
    BY <2>1 DEF VersionShown
<1>7. shownNow' = [shownNow EXCEPT ![t][s] = shownNow'[t][s]]
  BY <1>1, <1>6 DEF shownNow
<1>8. shownNow'[t][s] \in Versions
  BY <1>1, <1>5 DEF shownNow
<1> QED
  BY <1>0, <1>1, <1>4, <1>7, <1>8 DEF Reader!ReloadDay, shownNow, asked

\* The commit of a transaction that truncated a table reloads the table.
LEMMA CommitReloadsAll ==
    ASSUME TypeOK, TypeOK', Inv, OneVersionShown', NEW l \in Loads,
           pc[l] = "commit", lock[l] = "table", asked' = asked, ~PerDate(l),
           db' = [db EXCEPT ![Table(l)] = (@ \ dels[l]) \cup ins[l]]
    PROVE  Reader!ReloadAll(Table(l))
<1>1. PICK t \in Tables : t = Table(l)
  BY AtATable DEF InTx
<1>2. PICK r \in ins[l] : r.part \in Parts(t)
  BY <1>1 DEF Inv, Own, TxInv, BatchInv, HasLock
<1>3. /\ r \in db'[t]
      /\ \A u \in Tables : u # t => db'[u] = db[u]
  BY <1>1, <1>2 DEF TypeOK
<1>4. scope[l] \in asked /\ (t \in DateScoped => FullRefresh \in asked)
  BY <1>1 DEF asked, PerDate
<1>5. VersionShown(t, r.part)' \in Versions
  BY <1>1, <1>2, <1>3, ShownNext
<1>6. \A p \in Parts(t) : VersionShown(t, p)' \in Versions \cup {NoVersion}
  BY <1>1, ShownNext
<1>7. \A u \in Tables \ {t} : \A p \in Parts(u) : VersionShown(u, p)' = VersionShown(u, p)
  BY <1>3 DEF VersionShown, Shown
<1>8. shownNow' = [shownNow EXCEPT ![t] = shownNow'[t]]
  BY <1>1, <1>7 DEF shownNow
<1>9. /\ shownNow'[t] \in [Parts(t) -> Versions \cup {NoVersion}]
      /\ shownNow'[t][r.part] # NoVersion
  BY <1>1, <1>2, <1>5, <1>6, DeliveryAssumption DEF shownNow, DeliveryAssumption
<1> QED
  BY <1>1, <1>2, <1>4, <1>8, <1>9 DEF Reader!ReloadAll, shownNow, asked

\* Every step is a request, a reload, or invisible to a reader.
LEMMA ReaderNext ==
    ASSUME VersionsOverlap, TypeOK, TypeOK', Inv, Inv', [Next]_vars
    PROVE  [Reader!Next]_<<shownNow, asked>>
<1>1. UNCHANGED db => UNCHANGED shownNow
  BY DEF shownNow, VersionShown, Shown
<1>2. ASSUME NEW l \in Loads, Connect(l)
      PROVE  [Reader!Next]_<<shownNow, asked>>
  <2>1. OthersSame(l) /\ UNCHANGED db /\ pc[l] = "idle"
    BY <1>2, StepsAreLocal DEF Connect
  <2>2. asked \subseteq asked'
    BY <2>1 DEF asked, OthersSame, Same
  <2> QED
    BY <1>1, <2>1, <2>2 DEF Reader!Next, Reader!Request, shownNow, asked
<1>3. ASSUME NEW l \in Loads, Step(l) \/ Fault(l) \/ ServerAborts(l)
      PROVE  [Reader!Next]_<<shownNow, asked>>
  <2>0. OthersSame(l)
    BY <1>3, StepsAreLocal
  <2>1. UNCHANGED scope /\ pc[l] # "idle" /\ pc'[l] # "idle"
    <3>1. CASE Read(l) \/ Begin(l) \/ Delete(l) \/ DeleteRows(l) \/ Truncate(l) \/ Insert(l) \/ Close(l)
      BY <3>1 DEF Read, Begin, Delete, DeleteRows, Truncate, Insert, Close, Goto, TypeOK
    <3>2. CASE Commit(l) \/ CommitLost(l) \/ BeginLost(l) \/ ServerAborts(l)
      BY <3>2 DEF Commit, CommitLost, BeginLost, ServerAborts, NextTable, Goto, TypeOK
    <3>3. CASE Clash(l) \/ Fails(l)
      BY <3>3 DEF Clash, Fails, Rollback, NextTable, Goto, TypeOK, InTx
    <3>4. CASE TimesOut(l) \/ Severed(l) \/ Kill(l)
      BY <3>4 DEF TimesOut, Severed, Kill, Abandon, Goto, TypeOK, Active, InTx, Ready, WaitsFor
    <3> QED
      BY <1>3, <3>1, <3>2, <3>3, <3>4 DEF Step, Fault
  <2>2. asked' = asked
    BY <2>0, <2>1 DEF asked, OthersSame, Same
  <2>3. CASE UNCHANGED db
    BY <1>1, <2>2, <2>3
  <2>4. CASE Commit(l) \/ CommitLost(l)
    <3>1. pc[l] = "commit" /\ db' = [db EXCEPT ![Table(l)] = (@ \ dels[l]) \cup ins[l]]
      BY <2>4 DEF Commit, CommitLost
    <3>2. Table(l) \in Tables
      BY <3>1, AtATable DEF InTx
    <3>3. TxInv(l) /\ OneVersionShown'
      BY DEF Inv, Own
    <3>4. CASE lock[l] = "none"
      <4>1. dels[l] = {} /\ ins[l] = {}
        BY <3>3, <3>4 DEF TxInv, HasLock
      <4>2. UNCHANGED db
        BY <3>1, <3>2, <4>1 DEF TypeOK
      <4> QED
        BY <2>3, <4>2
    <3>5. CASE lock[l] = "rows"
      <4>1. Reader!ReloadDay(Table(l), scope[l])
        BY <2>2, <3>1, <3>3, <3>5, CommitReloadsDay
      <4>2. scope[l] \in Parts(Table(l))
        BY <3>1, <3>5, DeletedAll
      <4> QED
        BY <3>2, <4>1, <4>2 DEF Reader!Next
    <3>6. CASE lock[l] = "table"
      <4>1. Reader!ReloadAll(Table(l))
        BY <2>2, <3>1, <3>3, <3>6, CommitReloadsAll DEF TxInv
      <4> QED
        BY <3>2, <4>1 DEF Reader!Next
    <3> QED
      BY <3>4, <3>5, <3>6 DEF TypeOK
  <2>5. UNCHANGED db \/ Commit(l) \/ CommitLost(l)
    BY <1>3 DEF Step, Fault, Read, Begin, Delete, DeleteRows, Truncate, Insert, Clash, TimesOut,
                Close, Fails, BeginLost, Severed, Kill, Abandon, Rollback, ServerAborts
  <2> QED
    BY <2>3, <2>4, <2>5
<1>4. ASSUME UNCHANGED <<db, pc, scope>>
      PROVE  [Reader!Next]_<<shownNow, asked>>
  <2>1. asked' = asked
    BY <1>4 DEF asked
  <2> QED
    BY <1>1, <1>4, <2>1
<1>5. ASSUME NEW t \in Tables, NEW p \in Parts(t), GoldDelete(t, p) \/ GoldPut(t, p)
      PROVE  [Reader!Next]_<<shownNow, asked>>
  BY <1>4, <1>5 DEF GoldDelete, GoldPut
<1>6. CASE UNCHANGED vars
  BY <1>4, <1>6 DEF vars
<1> QED
  BY <1>2, <1>3, <1>5, <1>6 DEF Next

\* Delivery implements AtomicReload: a reader of the database sees whole
\* versions replaced at once, whatever deliveries overlap and whatever fails,
\* as long as any two versions have a key in common.
THEOREM Reloads ==
    ASSUME VersionsOverlap
    PROVE  Spec => ReloadsAtomically
<1>1. Init => TypeOK /\ Inv
  BY TypesInit, InvInit
<1>2. TypeOK /\ Inv /\ [Next]_vars => (TypeOK /\ Inv)'
  BY TypesNext, InvNext
<1>3. Init /\ TypeOK /\ Inv => Reader!Init
  BY ReaderInit
<1>4. TypeOK /\ Inv /\ (TypeOK /\ Inv)' /\ [Next]_vars => [Reader!Next]_<<shownNow, asked>>
  BY ReaderNext
<1> QED
  BY <1>1, <1>2, <1>3, <1>4, PTL DEF Spec, ReloadsAtomically, Reader!Spec, shownNow, asked

-----------------------------------------------------------------------------
(***************************************************************************)
(* Every table is tried                                                    *)
(***************************************************************************)

Tried(l) == summary[l] \cup errors[l]

\* The tables behind a delivery are in its report, and it returns when there
\* are no others.
TriedInv(l) ==
    /\ pc[l] \in {"idle"} \cup Active => Behind(l) \subseteq Tried(l)
    /\ pc[l] = "close" => pos[l] = Len(Order) + 1
    /\ pc[l] = "returned" => Tables \subseteq Tried(l)

\* A step within a table.
LEMMA TriedWithin ==
    ASSUME TypeOK, NEW l \in Loads, TriedInv(l), UNCHANGED pos, Tried(l) \subseteq Tried(l)',
           pc[l] \in Ended => pc'[l] \in Ended, pc'[l] \notin {"close", "returned"}
    PROVE  TriedInv(l)'
<1>1. pc'[l] \in {"idle"} \cup Active => pc[l] \in {"idle"} \cup Active
  BY DEF TypeOK, Active, InTx, Ended
<1>2. Behind(l)' = Behind(l)
  BY DEF Behind
<1> QED
  BY <1>1, <1>2 DEF TriedInv

\* A step to the next table.
LEMMA TriedNextTable ==
    ASSUME TypeOK, NEW l \in Loads, TriedInv(l), pc[l] \in Active, pos[l] <= Len(Order),
           NextTable(l), Tried(l) \subseteq Tried(l)', Table(l) \in Tried(l)'
    PROVE  TriedInv(l)'
<1>1. pos[l] \in 1 .. Len(Order) /\ Len(Order) \in Nat
  BY FirstTable DEF TypeOK
<1>2. /\ pos'[l] = pos[l] + 1
      /\ pc'[l] = IF pos[l] < Len(Order) THEN "read" ELSE "close"
  BY DEF NextTable, Goto, TypeOK
<1>3. Behind(l)' \subseteq Behind(l) \cup {Table(l)}
  BY <1>1, <1>2 DEF Behind, Slice, Table
<1>4. Behind(l)' \subseteq Tried(l)'
  BY <1>3 DEF TriedInv
<1>5. pc'[l] = "close" => pos'[l] = Len(Order) + 1
  BY <1>1, <1>2
<1> QED
  BY <1>2, <1>4, <1>5 DEF TriedInv

LEMMA TriedNext ==
    ASSUME TypeOK, \A l \in Loads : ReportInv(l) /\ TriedInv(l), [Next]_vars
    PROVE  \A l \in Loads : TriedInv(l)'
<1>1. ASSUME NEW l \in Loads, Connect(l) \/ Step(l) \/ Fault(l) \/ ServerAborts(l)
      PROVE  TriedInv(l)'
  <2>1. TriedInv(l) /\ ReportInv(l)
    OBVIOUS
  <2>2. CASE \/ Connect(l) \/ Read(l) \/ Begin(l) \/ Delete(l) \/ DeleteRows(l)
             \/ Truncate(l) \/ Insert(l) \/ TimesOut(l) \/ Severed(l) \/ Kill(l)
             \/ CommitLost(l) \/ ServerAborts(l)
    <3>1. UNCHANGED <<pos, errors>> /\ summary[l] \subseteq summary'[l]
      BY <2>2 DEF Connect, Read, Begin, Delete, DeleteRows, Truncate, Insert, TimesOut,
                  Severed, Kill, Abandon, CommitLost, ServerAborts, TypeOK, report
    <3>2. /\ pc[l] \in Ended => pc'[l] \in Ended
          /\ pc'[l] \notin {"close", "returned"}
      BY <2>2 DEF Connect, Read, Begin, Delete, DeleteRows, Truncate, Insert, TimesOut,
                  Severed, Kill, Abandon, CommitLost, ServerAborts, TypeOK, Goto, Ended
    <3> QED
      BY <2>1, <3>1, <3>2, TriedWithin DEF Tried
  <2>3. CASE Commit(l)
    <3>1. pc[l] = "commit" /\ pos[l] <= Len(Order) /\ Table(l) \in summary[l]
      BY <2>1, <2>3, AtATable DEF Commit, InTx, ReportInv
    <3>2. NextTable(l) /\ UNCHANGED <<summary, errors>>
      BY <2>3 DEF Commit, report
    <3> QED
      BY <2>1, <3>1, <3>2, TriedNextTable DEF Tried, Active, InTx
  <2>4. CASE Clash(l) \/ Fails(l)
    <3>1. pc[l] \in {"begin"} \cup InTx /\ pos[l] <= Len(Order)
      BY <2>4 DEF Clash, Fails, TypeOK, Active, InTx
    <3>2. NextTable(l) /\ errors'[l] = errors[l] \cup {Table(l)} /\ UNCHANGED summary
      BY <2>4 DEF Clash, Fails, Rollback, TypeOK
    <3> QED
      BY <2>1, <3>1, <3>2, TriedNextTable DEF Tried, Active, InTx
  <2>5. CASE BeginLost(l)
    <3>1. pc[l] = "begin" /\ pos[l] \in 1 .. Len(Order) /\ Len(Order) \in Nat
      BY <2>5, FirstTable DEF BeginLost, TypeOK, Active
    <3>2. /\ errors'[l] = errors[l] \cup Slice(pos[l], Len(Order))
          /\ pos'[l] = Len(Order) + 1 /\ pc'[l] = "close" /\ UNCHANGED summary
      BY <2>5 DEF BeginLost, Goto, TypeOK, Slice
    <3>3. Behind(l)' \subseteq Behind(l) \cup Slice(pos[l], Len(Order))
      BY <3>1, <3>2 DEF Behind, Slice
    <3> QED
      BY <2>1, <3>1, <3>2, <3>3 DEF TriedInv, Tried, Active
  <2>6. CASE Close(l)
    <3>1. /\ pc[l] = "close" /\ pc'[l] \in {"returned", "raised"}
          /\ UNCHANGED <<pos, summary, errors>>
      BY <2>6 DEF Close, Goto, TypeOK, report
    <3>2. Behind(l) = Tables
      BY <2>1, <3>1, FirstTable DEF TriedInv, Behind, Slice, Tables
    <3> QED
      BY <2>1, <3>1, <3>2 DEF TriedInv, Tried, Active, InTx
  <2> QED
    BY <1>1, <2>2, <2>3, <2>4, <2>5, <2>6 DEF Step, Fault
<1>2. ASSUME NEW m \in Loads, UNCHANGED <<pc[m], pos[m], summary[m], errors[m]>>
      PROVE  TriedInv(m)'
  BY <1>2 DEF TriedInv, Behind, Tried
<1>3. ASSUME NEW l \in Loads, Connect(l) \/ Step(l) \/ Fault(l) \/ ServerAborts(l),
             NEW m \in Loads \ {l}
      PROVE  UNCHANGED <<pc[m], pos[m], summary[m], errors[m]>>
  <2>1. UNCHANGED <<pc[m], pos[m]>>
    BY <1>3, StepsAreLocal DEF OthersSame, Same
  <2>2. UNCHANGED <<summary[m], errors[m]>>
    BY <1>3
       DEF Step, Fault, Connect, Read, Begin, Delete, DeleteRows, Truncate, Insert, Clash,
           Commit, TimesOut, Close, Fails, BeginLost, Severed, CommitLost, Kill, Abandon,
           Rollback, ServerAborts, TypeOK, report
  <2> QED
    BY <2>1, <2>2
<1>4. ASSUME NEW t \in Tables, NEW p \in Parts(t), GoldDelete(t, p) \/ GoldPut(t, p)
      PROVE  \A m \in Loads : TriedInv(m)'
  BY <1>2, <1>4 DEF GoldDelete, GoldPut, report
<1>5. CASE UNCHANGED vars
  BY <1>2, <1>5 DEF vars, report
<1> QED
  BY <1>1, <1>2, <1>3, <1>4, <1>5 DEF Next

LEMMA TriedInvariance == Spec => [](TypeOK /\ \A l \in Loads : ReportInv(l) /\ TriedInv(l))
<1> DEFINE All == TypeOK /\ \A l \in Loads : ReportInv(l) /\ TriedInv(l)
<1>1. Init => All
  <2>1. ASSUME Init PROVE \A l \in Loads : TriedInv(l)
    <3>1. \A l \in Loads : pc[l] = "idle" /\ pos[l] = 1
      BY <2>1 DEF Init
    <3>2. Slice(1, 1 - 1) = {}
      BY DEF Slice
    <3>3. \A l \in Loads : Behind(l) = {}
      BY <3>1, <3>2 DEF Behind
    <3> QED
      BY <3>1, <3>3 DEF TriedInv
  <2> QED
    BY <2>1, TypesInit, ReportInit
<1>2. All /\ [Next]_vars => All'
  BY TypesNext, ReportNext, TriedNext
<1> QED
  BY <1>1, <1>2, PTL DEF Spec

\* "Never blocks the remaining tables from loading" (lambda_function.py:216)
\* holds of a delivery that returns: it reports every table, as loaded or as
\* failed, whatever faults and other deliveries it met.
THEOREM ReturnedTriedAll ==
    Spec => [](\A l \in Loads : pc[l] = "returned" => Tried(l) = Tables)
<1>1. TypeOK /\ (\A l \in Loads : ReportInv(l) /\ TriedInv(l)) =>
        \A l \in Loads : pc[l] = "returned" => Tried(l) = Tables
  BY DEF TypeOK, TriedInv, Tried
<1> QED
  BY <1>1, TriedInvariance, PTL

\* A delivery that is alone and keeps its connection does not raise: what it
\* ends on is a lost connection, or a table another one has locked.
LEMMA AloneNeverRaises ==
    ASSUME "net" \notin Faults, \A l, m \in Loads : l = m
    PROVE  Spec => [](\A l \in Loads : pc[l] # "raised")
<1> DEFINE Quiet == \A l \in Loads : pc[l] # "raised"
<1>1. Init => Quiet
  BY DEF Init
<1>2. TypeOK /\ Quiet /\ [Next]_vars => Quiet'
  <2> SUFFICES ASSUME TypeOK, Quiet, [Next]_vars PROVE Quiet'
    OBVIOUS
  <2>1. CASE UNCHANGED pc
    BY <2>1
  <2>2. ASSUME NEW l \in Loads, Connect(l) \/ Step(l) \/ Fault(l) PROVE Quiet'
    <3>1. WaitsFor(l) = {}
      BY DEF WaitsFor, Rivals
    <3>2. pc'[l] # "raised"
      BY <2>2, <3>1
         DEF Step, Fault, Connect, Read, Begin, Delete, DeleteRows, Truncate, Insert, Clash,
             Commit, TimesOut, Close, Fails, BeginLost, Severed, CommitLost, Kill, Abandon,
             Rollback, NextTable, Goto, Ready, TypeOK
    <3> QED
      BY <3>2
  <2> QED
    BY <2>1, <2>2 DEF Next, ServerAborts, GoldDelete, GoldPut, vars
<1>3. Spec => []TypeOK
  BY DeliveryTypes
<1> QED
  BY <1>1, <1>2, <1>3, PTL DEF Spec

\* So the claim holds outright of a delivery beside which there is no other
\* and whose connection is not lost, whatever tables fail.
THEOREM AloneTriesAll ==
    ASSUME "net" \notin Faults, \A l, m \in Loads : l = m
    PROVE  Spec => []RemainingTablesTried
<1>1. /\ \A l \in Loads : pc[l] = "returned" => Tried(l) = Tables
      /\ \A l \in Loads : pc[l] # "raised"
      => RemainingTablesTried
  BY DEF RemainingTablesTried, Tried
<1> QED
  BY <1>1, ReturnedTriedAll, AloneNeverRaises, PTL
=============================================================================
