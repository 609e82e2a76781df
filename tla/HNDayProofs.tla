----------------------------- MODULE HNDayProofs -----------------------------
(***************************************************************************)
(* Proofs about HNDay, for every number of ingestions, normalizations,     *)
(* types, tables and items, and every choice of faults the assumptions of  *)
(* a theorem allow.  What holds of the Bronze partition is taken from      *)
(* IngestionProofs: a step of HNDay is a step of Ingestion, or leaves its  *)
(* variables alone.                                                        *)
(***************************************************************************)
EXTENDS HNDay, WellFoundedInduction, TLAPS

BronzeProofs == INSTANCE IngestionProofs

-----------------------------------------------------------------------------
(***************************************************************************)
(* The Bronze partition of HNDay is that of Ingestion                      *)
(***************************************************************************)

LEMMA BronzeAssumption == BronzeProofs!IngestionAssumption
  BY HNDayAssumption, NormalizationAssumption
     DEF Types, BronzeProofs!Types, BronzeProofs!File, Bronze!File,
         BronzeProofs!FaultKinds, Bronze!FaultKinds

LEMMA StepIsBronzeStep == [Next]_vars => [BronzeProofs!Next]_BronzeProofs!vars
  BY DEF Next, vars, ivars, Normalize, Ingest, BronzeProofs!vars,
     Bronze!Types, Bronze!Active, Bronze!Next, Bronze!Step, Bronze!Begin,
     Bronze!Fetchable, Bronze!Fetch, Bronze!FetchNothing, Bronze!FetchRaises,
     Bronze!Upload, Bronze!UploadRaises, Bronze!NoData, Bronze!PutMarker,
     Bronze!PutMarkerRaises, Bronze!RollbackKey, Bronze!Fail, Bronze!Kill,
     BronzeProofs!Types, BronzeProofs!Active, BronzeProofs!Next,
     BronzeProofs!Step, BronzeProofs!Begin, BronzeProofs!Fetchable,
     BronzeProofs!Fetch, BronzeProofs!FetchNothing, BronzeProofs!FetchRaises,
     BronzeProofs!Upload, BronzeProofs!UploadRaises, BronzeProofs!NoData,
     BronzeProofs!PutMarker, BronzeProofs!PutMarkerRaises,
     BronzeProofs!RollbackKey, BronzeProofs!Fail, BronzeProofs!Kill

\* A behaviour of HNDay is one of Ingestion.
THEOREM ImplementsBronze == Spec => BronzeProofs!Spec
  <1>1. Init => BronzeProofs!Init
    BY DEF Init, Bronze!Init, BronzeProofs!Init, Bronze!Types, BronzeProofs!Types
  <1> QED
    BY <1>1, StepIsBronzeStep, PTL DEF Spec, BronzeProofs!Spec

\* What the proofs below use of it.
BronzeInv ==
    /\ Bronze!TypeOK
    /\ \A t \in Types : bronze[t] # NoFile => bronze[t].items \in (SUBSET Items) \ {{}}
    /\ \A r \in marker : pc[r] # "fetch"
    /\ CanDelete = FALSE =>
           \A r \in marker : \A t \in found[r] : bronze[t] # NoFile

LEMMA BronzeInvariance == Spec => []BronzeInv
  <1>1. BronzeProofs!Spec => []BronzeProofs!Inv
    BY BronzeAssumption, BronzeProofs!Invariance
  <1>2. BronzeProofs!Spec => []BronzeProofs!NoEmptyFile
    BY BronzeAssumption, BronzeProofs!NeverEmpty
  <1>3. BronzeProofs!Inv /\ BronzeProofs!NoEmptyFile => BronzeInv
    <2> SUFFICES ASSUME BronzeProofs!Inv, BronzeProofs!NoEmptyFile PROVE BronzeInv
      OBVIOUS
    <2>1. Bronze!TypeOK
      BY DEF BronzeProofs!Inv, BronzeProofs!TypeOK, BronzeProofs!Types,
             BronzeProofs!File, BronzeProofs!Active, BronzeProofs!Ended,
             Bronze!TypeOK, Bronze!Types, Bronze!File, Bronze!Active, Bronze!Ended
    <2>2. \A t \in Types : bronze[t] # NoFile => bronze[t].items \in (SUBSET Items) \ {{}}
      BY <2>1 DEF BronzeProofs!NoEmptyFile, BronzeProofs!Exists, BronzeProofs!Types,
                  Types, Bronze!TypeOK, Bronze!Types, Bronze!File
    <2>3. \A r \in marker : pc[r] # "fetch"
      BY DEF BronzeProofs!Inv, BronzeProofs!MarkerInv
    <2>4. CanDelete = FALSE => \A r \in marker : \A t \in found[r] : bronze[t] # NoFile
      BY DEF BronzeProofs!Inv, BronzeProofs!KeptInv, BronzeProofs!Kept,
             BronzeProofs!Exists, BronzeProofs!TypeOK
    <2> QED
      BY <2>1, <2>2, <2>3, <2>4 DEF BronzeInv
  <1> QED
    BY <1>1, <1>2, <1>3, ImplementsBronze, PTL

-----------------------------------------------------------------------------
(***************************************************************************)
(* Type correctness                                                        *)
(***************************************************************************)

\* One of the numbers of a set of numbers up to N is the greatest.
LEMMA Greatest ==
    ASSUME NEW N \in Nat, NEW S \in SUBSET (1 .. N), S # {}
    PROVE  \E x \in S : \A y \in S : y <= x
  <1> DEFINE T == {N - x : x \in S}
  <1>1. T \in SUBSET Nat /\ T # {}
    <2>1. \A x \in S : N - x \in Nat
      OBVIOUS
    <2> QED
      BY <2>1
  <1> HIDE DEF T
  <1>2. PICK x \in T : \A y \in T : <<y, x>> \notin OpToRel(<, Nat)
    BY <1>1, NatLessThanWellFounded, WFMin
  <1>3. \A y \in T : ~(y < x)
    <2> SUFFICES ASSUME NEW y \in T PROVE ~(y < x)
      OBVIOUS
    <2>1. y \in Nat /\ x \in Nat
      BY <1>1
    <2>2. <<y, x>> \notin OpToRel(<, Nat)
      BY <1>2
    <2> QED
      BY <2>1, <2>2, Zenon DEF OpToRel
  <1>4. PICK z \in S : x = N - z
    BY DEF T
  <1>5. \A y \in S : y <= z
    <2> SUFFICES ASSUME NEW y \in S PROVE y <= z
      OBVIOUS
    <2>1. N - y \in T
      BY DEF T
    <2>2. ~(N - y < N - z)
      BY <1>3, <1>4, <2>1
    <2> QED
      BY <2>2
  <1> QED
    BY <1>5

LEMMA LastMetType ==
    ASSUME NEW files \in [Types -> SUBSET Items], NEW order \in Bijection(Types, Types),
           NEW x \in UNION Range(files)
    PROVE  LastMet(files, order, x) \in Types /\ x \in files[LastMet(files, order, x)]
  <1>1. order \in [Types -> 1 .. NTypes]
    BY DEF Bijection, Injection, Surjection, Types
  <1>2. PICK u \in Types : x \in files[u]
    BY DEF Range
  <1> DEFINE S == {order[t] : t \in {v \in Types : x \in files[v]}}
  <1>3. S \in SUBSET (1 .. NTypes) /\ S # {}
    BY <1>1, <1>2
  <1>4. PICK m \in S : \A y \in S : y <= m
    <2> HIDE DEF S
    <2> QED
      BY <1>3, Greatest, NormalizationAssumption
  <1>5. PICK t \in Types : x \in files[t] /\ order[t] = m
    OBVIOUS
  <1>6. \A v \in Types : x \in files[v] => order[v] <= order[t]
    BY <1>4, <1>5
  <1> QED
    BY <1>5, <1>6 DEF LastMet

LEMMA RowsOfType ==
    ASSUME NTypeOK, NEW n \in Norms, NEW tab \in Tables
    PROVE  /\ RowsOf(n, tab) \in Rows
           /\ RowsOf(n, tab) # NoFile
           /\ DOMAIN RowsOf(n, tab) = DOMAIN kind[n] \cap Yields[tab]
  <1>1. PICK S \in SUBSET Items : kind[n] \in [S -> 0 .. NTypes]
    BY DEF NTypeOK, Rows
  <1>2. RowsOf(n, tab) \in [S \cap Yields[tab] -> 0 .. NTypes]
    BY <1>1, NormalizationAssumption DEF RowsOf
  <1> QED
    BY <1>1, <1>2, NormalizationAssumption DEF Rows

LEMMA ContentType ==
    ASSUME BronzeInv, NEW t \in Types, NEW items \in Readable(t)
    PROVE  items \in SUBSET Items
  BY DEF BronzeInv, Readable, Content

LEMMA InitNTypes == NInit => NTypeOK
  <1> SUFFICES ASSUME NInit PROVE NTypeOK
    OBVIOUS
  <1>1. [x \in {} |-> 0] \in Rows
    BY DEF Rows
  <1> QED
    BY <1>1 DEF NInit, NTypeOK

LEMMA NextNTypes == NTypeOK /\ BronzeInv /\ [Next]_vars => NTypeOK'
  <1> SUFFICES ASSUME NTypeOK, BronzeInv, [Next]_vars PROVE NTypeOK'
    OBVIOUS
  <1> USE DEF NActive, NEnded
  <1>1. CASE UNCHANGED vars \/ Ingest
    BY <1>1 DEF NTypeOK, vars, nvars, Ingest
  <1>2. ASSUME NEW n \in Norms,
               Check(n) \/ Skip(n) \/ ReadRaises(n) \/ NothingRead(n) \/ Finish(n) \/ NKill(n)
        PROVE  NTypeOK'
    BY <1>2 DEF NTypeOK, Check, Skip, ReadRaises, NothingRead, Finish, NKill
  <1>3. ASSUME NEW n \in Norms, ReadType(n) PROVE NTypeOK'
    <2>1. PICK t \in unread[n] : \E items \in Readable(t) :
              /\ unread' = [unread EXCEPT ![n] = @ \ {t}]
              /\ got' = [got EXCEPT ![n][t] = items]
      BY <1>3 DEF ReadType
    <2>2. t \in Types
      BY DEF NTypeOK
    <2>3. PICK items \in Readable(t) : got' = [got EXCEPT ![n][t] = items]
      BY <2>1
    <2>4. items \in SUBSET Items
      BY <2>2, ContentType
    <2> QED
      BY <1>3, <2>1, <2>2, <2>3, <2>4 DEF ReadType, NTypeOK
  <1>4. ASSUME NEW n \in Norms, Dedup(n) PROVE NTypeOK'
    <2>1. PICK order \in Bijection(Types, Types) :
              kind' = [kind EXCEPT ![n] = [x \in UNION Range(got[n]) |->
                                               LastMet(got[n], order, x)]]
      BY <1>4 DEF Dedup
    <2>2. got[n] \in [Types -> SUBSET Items]
      BY DEF NTypeOK
    <2>3. [x \in UNION Range(got[n]) |-> LastMet(got[n], order, x)] \in Rows
      <3> DEFINE S == UNION Range(got[n])
                 L(x) == LastMet(got[n], order, x)
      <3>1. S \in SUBSET Items
        BY <2>2 DEF Range
      <3>2. \A x \in S : L(x) \in 0 .. NTypes
        BY <2>2, LastMetType, NormalizationAssumption DEF Types
      <3> HIDE DEF S, L
      <3>3. [x \in S |-> L(x)] \in [S -> 0 .. NTypes]
        BY <3>2
      <3>4. [x \in S |-> L(x)] \in Rows
        BY <3>1, <3>3 DEF Rows
      <3> QED
        BY <3>4 DEF S, L
    <2> QED
      BY <1>4, <2>1, <2>3 DEF Dedup, NTypeOK
  <1>5. ASSUME NEW n \in Norms, PutTable(n) PROVE NTypeOK'
    <2>1. PICK tab \in todo[n] :
              /\ silver' = [silver EXCEPT ![tab] = RowsOf(n, tab)]
              /\ todo' = [todo EXCEPT ![n] = @ \ {tab}]
      BY <1>5 DEF PutTable
    <2>2. RowsOf(n, tab) \in Rows
      BY RowsOfType DEF NTypeOK
    <2> QED
      BY <1>5, <2>1, <2>2 DEF PutTable, NTypeOK
  <1>6. ASSUME NEW n \in Norms, PutNothing(n) PROVE NTypeOK'
    BY <1>6 DEF PutNothing, NTypeOK
  <1>7. ASSUME NEW n \in Norms, PutRaises(n) PROVE NTypeOK'
    <2>1. PICK tab \in todo[n] :
              /\ silver' = silver \/ silver' = [silver EXCEPT ![tab] = RowsOf(n, tab)]
              /\ todo' = [todo EXCEPT ![n] = @ \ {tab}]
              /\ lost' = [lost EXCEPT ![n] = @ \cup {tab}]
      BY <1>7 DEF PutRaises
    <2>2. RowsOf(n, tab) \in Rows /\ tab \in Tables
      BY RowsOfType DEF NTypeOK
    <2> QED
      BY <1>7, <2>1, <2>2 DEF PutRaises, NTypeOK
  <1> QED
    BY <1>1, <1>2, <1>3, <1>4, <1>5, <1>6, <1>7 DEF Next, Normalize, NNext, NStep

\* Every variable keeps its type, in both layers.
THEOREM HNDayTypes == Spec => []TypeOK
  <1>1. Init => NTypeOK
    BY InitNTypes DEF Init
  <1>2. NTypeOK /\ BronzeInv => TypeOK
    BY DEF TypeOK, BronzeInv
  <1> QED
    BY <1>1, <1>2, NextNTypes, BronzeInvariance, PTL DEF Spec

-----------------------------------------------------------------------------
(***************************************************************************)
(* The tables                                                              *)
(*                                                                         *)
(* An object of Silver is the work of one normalization that had merged    *)
(* its files (Provenance), and a table such a normalization has behind it  *)
(* without an error is there (Written).  The properties about the tables   *)
(* follow from the two, whatever the faults.                               *)
(***************************************************************************)

\* Where an invocation is, and what it has by then.
Phases ==
    \A n \in Norms :
        /\ npc[n] = "idle" => unread[n] = Types
        /\ npc[n] \in {"write", "done"} => Merged(n)
        /\ npc[n] \in {"idle", "skipped", "read", "no_data"} => ~Merged(n)
        /\ Merged(n) => unread[n] = {} /\ DOMAIN kind[n] = UNION Range(got[n])
        /\ npc[n] = "done" => todo[n] = {} /\ lost[n] = {}

Provenance ==
    \A tab \in Tables : silver[tab] # NoFile =>
        \E m \in Norms :
            Merged(m) /\ silver[tab] = RowsOf(m, tab) /\ DOMAIN RowsOf(m, tab) # {}

Written ==
    \A m \in Norms, tab \in Tables :
        Merged(m) /\ tab \notin todo[m] \cup lost[m] /\ DOMAIN RowsOf(m, tab) # {} =>
            silver[tab] # NoFile

TablesInv == Phases /\ Provenance /\ Written

LEMMA InitTables == NInit => TablesInv
  BY DEF NInit, TablesInv, Phases, Provenance, Written, Merged

\* Everything TablesInv speaks of, but the phase, the same.
LEMMA TablesAlone ==
    ASSUME TablesInv, UNCHANGED <<silver, kind, todo, lost>>
    PROVE  (Provenance /\ Written)'
  BY DEF TablesInv, Provenance, Written, Merged, RowsOf

\* What a put of a table by n leaves, with or without an acknowledgement.
LEMMA PutKeeps ==
    ASSUME NTypeOK, TablesInv, NEW n \in Norms, NEW tab \in todo[n],
           Merged(n), DOMAIN RowsOf(n, tab) # {},
           silver' = [silver EXCEPT ![tab] = RowsOf(n, tab)],
           todo' = [todo EXCEPT ![n] = @ \ {tab}],
           lost' \in {lost, [lost EXCEPT ![n] = @ \cup {tab}]},
           UNCHANGED <<got, kind>>
    PROVE  (Provenance /\ Written)'
  <1>1. tab \in Tables /\ RowsOf(n, tab) # NoFile
    BY RowsOfType DEF NTypeOK
  <1>2. \A m \in Norms, u \in Tables : (RowsOf(m, u))' = RowsOf(m, u) /\ Merged(m)' = Merged(m)
    BY DEF RowsOf, Merged
  <1>3. /\ silver'[tab] = RowsOf(n, tab)
        /\ \A u \in Tables \ {tab} : silver'[u] = silver[u]
    BY <1>1 DEF NTypeOK
  <1>4. \A m \in Norms, u \in Tables \ {tab} :
            u \notin todo'[m] \cup lost'[m] => u \notin todo[m] \cup lost[m]
    BY <1>1 DEF NTypeOK
  <1>5. Provenance'
    BY <1>1, <1>2, <1>3 DEF TablesInv, Provenance
  <1>6. Written'
    BY <1>1, <1>2, <1>3, <1>4 DEF TablesInv, Written
  <1> QED
    BY <1>5, <1>6

LEMMA NextTables == NTypeOK /\ BronzeInv /\ TablesInv /\ [Next]_vars => TablesInv'
  <1> SUFFICES ASSUME NTypeOK, BronzeInv, TablesInv, [Next]_vars PROVE TablesInv'
    OBVIOUS
  <1>1. CASE UNCHANGED nvars
    BY <1>1, TablesAlone DEF TablesInv, Phases, Merged, nvars
  <1>2. ASSUME NEW n \in Norms, Check(n) \/ Skip(n) PROVE TablesInv'
    <2>1. Phases'
      BY <1>2 DEF TablesInv, Phases, Merged, Check, Skip, NTypeOK
    <2>2. UNCHANGED <<silver, kind, todo, lost>>
      BY <1>2 DEF Check, Skip
    <2> QED
      BY <2>1, <2>2, TablesAlone DEF TablesInv
  <1>3. ASSUME NEW n \in Norms, ReadRaises(n) \/ NothingRead(n) \/ NKill(n)
        PROVE  TablesInv'
    <2>1. Phases'
      BY <1>3 DEF TablesInv, Phases, Merged, ReadRaises, NothingRead, NKill, NActive, NTypeOK
    <2>2. UNCHANGED <<silver, kind, todo, lost>>
      BY <1>3 DEF ReadRaises, NothingRead, NKill
    <2> QED
      BY <2>1, <2>2, TablesAlone DEF TablesInv
  <1>4. ASSUME NEW n \in Norms, Finish(n) PROVE TablesInv'
    <2>1. Phases'
      BY <1>4 DEF TablesInv, Phases, Merged, Finish, NTypeOK
    <2>2. UNCHANGED <<silver, kind, todo, lost>>
      BY <1>4 DEF Finish
    <2> QED
      BY <2>1, <2>2, TablesAlone DEF TablesInv
  <1>5. ASSUME NEW n \in Norms, ReadType(n) PROVE TablesInv'
    <2>1. /\ npc[n] = "read" /\ ~Merged(n)
          /\ \A m \in Norms \ {n} : got'[m] = got[m] /\ unread'[m] = unread[m]
      BY <1>5 DEF ReadType, TablesInv, Phases, NTypeOK
    <2>2. Phases'
      BY <1>5, <2>1 DEF ReadType, TablesInv, Phases, Merged
    <2>3. (Provenance /\ Written)'
      BY <1>5, TablesAlone DEF ReadType
    <2> QED
      BY <2>2, <2>3 DEF TablesInv
  <1>6. ASSUME NEW n \in Norms, Dedup(n) PROVE TablesInv'
    <2> DEFINE S == UNION Range(got[n])
    <2>1. /\ npc[n] = "read" /\ ~Merged(n) /\ unread[n] = {}
          /\ npc' = [npc EXCEPT ![n] = "write"]
          /\ todo' = [todo EXCEPT ![n] = Tables]
          /\ UNCHANGED <<silver, unread, got, lost>>
      BY <1>6 DEF Dedup, TablesInv, Phases
    <2>2. S # {}
      BY <1>6 DEF Dedup, Range, NTypeOK
    <2>3. DOMAIN kind'[n] = S /\ \A m \in Norms \ {n} : kind'[m] = kind[m]
      <3>1. PICK order \in Bijection(Types, Types) :
                kind' = [kind EXCEPT ![n] = [x \in UNION Range(got[n]) |->
                                                 LastMet(got[n], order, x)]]
        BY <1>6 DEF Dedup
      <3> QED
        BY <3>1 DEF NTypeOK
    <2>4. Phases'
      BY <2>1, <2>2, <2>3 DEF TablesInv, Phases, Merged, NTypeOK
    <2>5. \A m \in Norms \ {n}, tab \in Tables :
              (RowsOf(m, tab))' = RowsOf(m, tab) /\ Merged(m)' = Merged(m)
      BY <2>3 DEF RowsOf, Merged
    <2>6. Provenance'
      BY <2>1, <2>5 DEF TablesInv, Provenance
    <2>7. Written'
      BY <2>1, <2>5 DEF TablesInv, Written, NTypeOK
    <2> QED
      BY <2>4, <2>6, <2>7 DEF TablesInv
  <1>7. ASSUME NEW n \in Norms, PutTable(n) PROVE TablesInv'
    <2>1. PICK tab \in todo[n] :
              /\ DOMAIN RowsOf(n, tab) # {}
              /\ silver' = [silver EXCEPT ![tab] = RowsOf(n, tab)]
              /\ todo' = [todo EXCEPT ![n] = @ \ {tab}]
      BY <1>7 DEF PutTable
    <2>2. Merged(n) /\ UNCHANGED <<npc, unread, got, kind, lost>>
      BY <1>7 DEF PutTable, TablesInv, Phases
    <2>3. Phases'
      BY <2>1, <2>2 DEF TablesInv, Phases, Merged, NTypeOK
    <2> QED
      BY <2>1, <2>2, <2>3, PutKeeps DEF TablesInv
  <1>8. ASSUME NEW n \in Norms, PutNothing(n) PROVE TablesInv'
    <2>1. PICK tab \in todo[n] :
              /\ DOMAIN RowsOf(n, tab) = {}
              /\ todo' = [todo EXCEPT ![n] = @ \ {tab}]
      BY <1>8 DEF PutNothing
    <2>2. UNCHANGED <<silver, npc, unread, got, kind, lost>>
      BY <1>8 DEF PutNothing
    <2>3. Phases'
      BY <2>1, <2>2 DEF TablesInv, Phases, Merged, NTypeOK
    <2>4. \A m \in Norms, u \in Tables : (RowsOf(m, u))' = RowsOf(m, u) /\ Merged(m)' = Merged(m)
      BY <2>2 DEF RowsOf, Merged
    <2>5. Provenance'
      BY <2>2, <2>4 DEF TablesInv, Provenance
    <2>6. Written'
      BY <2>1, <2>2, <2>4 DEF TablesInv, Written, NTypeOK
    <2> QED
      BY <2>3, <2>5, <2>6 DEF TablesInv
  <1>9. ASSUME NEW n \in Norms, PutRaises(n) PROVE TablesInv'
    <2>1. PICK tab \in todo[n] :
              /\ DOMAIN RowsOf(n, tab) # {}
              /\ silver' = silver \/ silver' = [silver EXCEPT ![tab] = RowsOf(n, tab)]
              /\ todo' = [todo EXCEPT ![n] = @ \ {tab}]
              /\ lost' = [lost EXCEPT ![n] = @ \cup {tab}]
      BY <1>9 DEF PutRaises
    <2>2. Merged(n) /\ npc[n] = "write" /\ UNCHANGED <<npc, unread, got, kind>>
      BY <1>9 DEF PutRaises, TablesInv, Phases
    <2>3. Phases'
      BY <2>1, <2>2 DEF TablesInv, Phases, Merged, NTypeOK
    <2>4. CASE silver' = [silver EXCEPT ![tab] = RowsOf(n, tab)]
      BY <2>1, <2>2, <2>3, <2>4, PutKeeps DEF TablesInv
    <2>5. CASE silver' = silver
      <3>1. \A m \in Norms, u \in Tables : (RowsOf(m, u))' = RowsOf(m, u) /\ Merged(m)' = Merged(m)
        BY <2>2 DEF RowsOf, Merged
      <3>2. Provenance'
        BY <2>5, <3>1 DEF TablesInv, Provenance
      <3>3. Written'
        BY <2>1, <2>5, <3>1 DEF TablesInv, Written, NTypeOK
      <3> QED
        BY <2>3, <3>2, <3>3 DEF TablesInv
    <2> QED
      BY <2>1, <2>4, <2>5
  <1> QED
    BY <1>1, <1>2, <1>3, <1>4, <1>5, <1>6, <1>7, <1>8, <1>9
       DEF Next, Ingest, Normalize, NNext, NStep, vars, nvars

LEMMA TablesInvariance == Spec => [](NTypeOK /\ BronzeInv /\ TablesInv)
  <1>1. Init => NTypeOK /\ TablesInv
    BY InitNTypes, InitTables DEF Init
  <1> QED
    BY <1>1, NextNTypes, NextTables, BronzeInvariance, PTL DEF Spec

\* The rows a table of a merged normalization gets.
LEMMA RowsOfMerged ==
    ASSUME NTypeOK, TablesInv, NEW n \in Norms, npc[n] = "done", NEW tab \in Tables,
           \A m \in Norms : Merged(m) => DOMAIN kind[m] = DOMAIN kind[n]
    PROVE  RowsIn(tab) = DOMAIN kind[n] \cap Yields[tab]
  <1>1. Merged(n) /\ todo[n] = {} /\ lost[n] = {}
    BY DEF TablesInv, Phases
  <1>2. CASE silver[tab] = NoFile
    BY <1>1, <1>2, RowsOfType DEF TablesInv, Written, RowsIn
  <1>3. CASE silver[tab] # NoFile
    <2>1. PICK m \in Norms : Merged(m) /\ silver[tab] = RowsOf(m, tab)
      BY <1>3 DEF TablesInv, Provenance
    <2> QED
      BY <1>3, <2>1, RowsOfType DEF RowsIn
  <1> QED
    BY <1>2, <1>3

\* When every normalization that merged its files had read all that the windows
\* cover, one that reports success leaves the rows of it in every table, whoever
\* else is writing, failing or killed beside it (README.md:188).
THEOREM NoPartialDay == Spec => []NoPartialSilver
  <1>1. NTypeOK /\ TablesInv => NoPartialSilver
    <2> SUFFICES ASSUME NTypeOK, TablesInv,
                        \A m \in Norms : Merged(m) => ReadCovered(m),
                        NEW n \in Norms, npc[n] = "done", NEW tab \in Tables
                 PROVE  RowsIn(tab) = CoveredRows(tab)
      BY DEF NoPartialSilver, SilverNeverPartial
    <2>1. \A m \in Norms : Merged(m) => DOMAIN kind[m] = CoveredItems
      <3> SUFFICES ASSUME NEW m \in Norms, Merged(m) PROVE DOMAIN kind[m] = CoveredItems
        OBVIOUS
      <3>1. got[m] = Covered
        BY HNDayAssumption DEF NTypeOK, ReadCovered
      <3> QED
        BY <3>1 DEF TablesInv, Phases, CoveredItems
    <2>2. Merged(n)
      BY DEF TablesInv, Phases
    <2> QED
      BY <2>1, <2>2, RowsOfMerged DEF CoveredRows
  <1> QED
    BY <1>1, TablesInvariance, PTL

\* Whatever was lost on the way in, the tables of a single successful
\* normalization agree: each holds the rows its posts yield, and there are posts.
THEOREM TablesOfADayAgree == Spec => []TablesAgree
  <1>1. NTypeOK /\ TablesInv => TablesAgree
    <2> SUFFICES ASSUME NTypeOK, TablesInv, NEW n \in Norms, npc[n] = "done",
                        \A m \in Norms \ {n} : npc[m] \in {"idle", "skipped"}
                 PROVE  /\ RowsIn("posts") # {}
                        /\ \A tab \in Tables : RowsIn(tab) = RowsIn("posts") \cap Yields[tab]
      BY DEF TablesAgree
    <2>1. \A m \in Norms : Merged(m) => m = n
      BY DEF TablesInv, Phases
    <2>2. \A tab \in Tables : RowsIn(tab) = DOMAIN kind[n] \cap Yields[tab]
      BY <2>1, RowsOfMerged
    <2>3. DOMAIN kind[n] # {} /\ DOMAIN kind[n] \subseteq Items
      BY DEF TablesInv, Phases, Merged, NTypeOK, Rows
    <2> QED
      BY <2>2, <2>3, NormalizationAssumption
  <1> QED
    BY <1>1, TablesInvariance, PTL

-----------------------------------------------------------------------------
(***************************************************************************)
(* The marker's promise                                                    *)
(***************************************************************************)

\* While an invocation reads, some published run stands behind it: what it
\* has read of that run's types was there.
Promised ==
    \A n \in Norms : npc[n] \in {"read", "write", "done"} =>
        \E r \in marker : \A t \in found[r] \ unread[n] : got[n][t] # {}

\* A marker is for good, and so is what the runs behind it found.
LEMMA MarkerStays ==
    ASSUME BronzeInv, Ingest
    PROVE  marker \subseteq marker' /\ \A r \in marker : found'[r] = found[r]
  BY DEF Ingest, BronzeInv, Bronze!TypeOK, Bronze!Next, Bronze!Step, Bronze!Begin,
     Bronze!Fetch, Bronze!FetchNothing, Bronze!FetchRaises, Bronze!Upload,
     Bronze!UploadRaises, Bronze!NoData, Bronze!PutMarker, Bronze!PutMarkerRaises,
     Bronze!RollbackKey, Bronze!Fail, Bronze!Kill

LEMMA NextPromised ==
    ASSUME CanDelete = FALSE, "read" \notin NFaults
    PROVE  NTypeOK /\ BronzeInv /\ TablesInv /\ Promised /\ [Next]_vars => Promised'
  <1> SUFFICES ASSUME NTypeOK, BronzeInv, TablesInv, Promised, [Next]_vars PROVE Promised'
    OBVIOUS
  <1>1. CASE UNCHANGED vars
    BY <1>1 DEF Promised, vars, ivars, nvars
  <1>2. CASE Ingest
    <2>1. UNCHANGED <<npc, unread, got>>
      BY <1>2 DEF Ingest, nvars
    <2> QED
      BY <1>2, <2>1, MarkerStays DEF Promised
  <1>3. ASSUME NEW n \in Norms, Check(n), UNCHANGED <<marker, found>> PROVE Promised'
    <2>1. \A r \in marker : found[r] \subseteq Types
      BY DEF BronzeInv, Bronze!TypeOK, Bronze!Types, Types
    <2>2. unread[n] = Types /\ marker # {}
      BY <1>3 DEF Check, TablesInv, Phases
    <2>3. npc'[n] = "read" /\ \A m \in Norms \ {n} : npc'[m] = npc[m]
      BY <1>3 DEF Check, NTypeOK
    <2>4. \E r \in marker : \A t \in found[r] \ unread[n] : got[n][t] # {}
      BY <2>1, <2>2
    <2>5. UNCHANGED <<unread, got>>
      BY <1>3 DEF Check
    <2> QED
      BY <1>3, <2>3, <2>4, <2>5 DEF Promised
  <1>4. ASSUME NEW n \in Norms, ReadType(n), UNCHANGED <<marker, found>> PROVE Promised'
    <2>0. PICK t \in unread[n] :
              /\ unread' = [unread EXCEPT ![n] = @ \ {t}]
              /\ \E items \in Readable(t) : got' = [got EXCEPT ![n][t] = items]
      BY <1>4 DEF ReadType
    <2>1. PICK items \in Readable(t) : got' = [got EXCEPT ![n][t] = items]
      BY <2>0
    <2>2. t \in Types /\ items = Content(t)
      BY DEF NTypeOK, Readable
    <2>3. \A r \in marker : t \in found[r] => items # {}
      BY <2>2 DEF BronzeInv, Content
    <2>4. /\ unread'[n] = unread[n] \ {t} /\ got'[n] = [got[n] EXCEPT ![t] = items]
          /\ \A m \in Norms \ {n} : unread'[m] = unread[m] /\ got'[m] = got[m]
      BY <2>0, <2>1 DEF NTypeOK
    <2>5. npc[n] = "read" /\ npc' = npc
      BY <1>4 DEF ReadType
    <2>6. PICK r \in marker : \A u \in found[r] \ unread[n] : got[n][u] # {}
      BY <2>5 DEF Promised
    <2>7. \A u \in found[r] \ unread'[n] : got'[n][u] # {}
      <3>1. \A u \in found[r] : u \in Types
        BY DEF BronzeInv, Bronze!TypeOK, Bronze!Types, Types
      <3>2. got[n] \in [Types -> SUBSET Items]
        BY DEF NTypeOK
      <3> QED
        BY <2>2, <2>3, <2>4, <2>6, <3>1, <3>2
    <2> SUFFICES ASSUME NEW m \in Norms, npc'[m] \in {"read", "write", "done"}
                 PROVE  \E q \in marker' : \A u \in found'[q] \ unread'[m] : got'[m][u] # {}
      BY DEF Promised
    <2>8. CASE m = n
      BY <1>4, <2>7, <2>8
    <2>9. CASE m # n
      BY <1>4, <2>4, <2>5, <2>9 DEF Promised
    <2> QED
      BY <2>8, <2>9
  <1>5. ASSUME NEW n \in Norms, UNCHANGED <<marker, found>>,
               \/ Skip(n) \/ ReadRaises(n) \/ NothingRead(n) \/ Dedup(n) \/ PutTable(n)
               \/ PutNothing(n) \/ PutRaises(n) \/ Finish(n) \/ NKill(n)
        PROVE  Promised'
    <2>1. /\ UNCHANGED <<unread, got>>
          /\ \A m \in Norms : npc'[m] \in {"read", "write", "done"} =>
                                  npc[m] \in {"read", "write", "done"}
      BY <1>5 DEF NTypeOK, Skip, ReadRaises, NothingRead, Dedup, PutTable, PutNothing,
                  PutRaises, Finish, NKill
    <2> QED
      BY <1>5, <2>1 DEF Promised
  <1> QED
    BY <1>1, <1>2, <1>3, <1>4, <1>5 DEF Next, Normalize, NNext, NStep, ivars

\* With the role as deployed, which cannot delete, and reads that succeed or
\* raise, the marker tested at the start covers what is read later: a
\* normalization that has merged its files read a non-empty file for every
\* type some published run had found.
THEOREM ReadsPromised ==
    ASSUME CanDelete = FALSE, "read" \notin NFaults
    PROVE  Spec => []ReadsWhatWasPromised
  <1>1. Init => Promised
    BY DEF Init, NInit, Promised
  <1>2. TablesInv /\ Promised => ReadsWhatWasPromised
    BY DEF TablesInv, Phases, Promised, ReadsWhatWasPromised
  <1> QED
    BY <1>1, <1>2, NextPromised, TablesInvariance, PTL DEF Spec

-----------------------------------------------------------------------------
(***************************************************************************)
(* All that the windows cover                                              *)
(***************************************************************************)

\* Under the marker, a file reads as what the windows cover of its type.
AllPublished == marker # {} => \A t \in Types : Content(t) = Covered[t]

LEMMA PublishedContent ==
    ASSUME "fetch" \notin Faults, CanDelete = FALSE
    PROVE  Spec => []AllPublished
  <1>1. BronzeProofs!Spec => []BronzeProofs!PublishedHoldsCovered
    BY BronzeAssumption, BronzeProofs!PublishedCovered
  <1>2. BronzeProofs!Spec => [](BronzeProofs!RunsMissNothing /\ BronzeProofs!ObjectsMissNothing)
    BY BronzeAssumption, BronzeProofs!NothingMissedInvariance
  <1>3. BronzeInv /\ BronzeProofs!PublishedHoldsCovered /\ BronzeProofs!ObjectsMissNothing => AllPublished
    <2> SUFFICES ASSUME BronzeInv, BronzeProofs!PublishedHoldsCovered,
                        BronzeProofs!ObjectsMissNothing, marker # {}, NEW t \in Types
                 PROVE  Content(t) = Covered[t]
      BY DEF AllPublished
    <2>1. Covered[t] # {} => bronze[t] # NoFile /\ bronze[t].items = Covered[t]
      BY DEF BronzeProofs!PublishedHoldsCovered, BronzeProofs!Exists, BronzeProofs!Types, Types
    <2>2. bronze[t] # NoFile => bronze[t].items = Covered[t] /\ bronze[t].items # {}
      BY DEF BronzeInv, BronzeProofs!ObjectsMissNothing, BronzeProofs!Exists,
             BronzeProofs!Types, Types
    <2> QED
      BY <2>1, <2>2 DEF Content
  <1> QED
    BY <1>1, <1>2, <1>3, BronzeInvariance, ImplementsBronze, PTL

\* An invocation that reads does so under the marker, and misses nothing.
AllRead ==
    \A n \in Norms :
        /\ npc[n] = "read" => marker # {}
        /\ \A t \in Types \ unread[n] : got[n][t] = Covered[t]

LEMMA NextAllRead ==
    ASSUME "read" \notin NFaults
    PROVE  NTypeOK /\ BronzeInv /\ AllPublished /\ AllRead /\ [Next]_vars => AllRead'
  <1> SUFFICES ASSUME NTypeOK, BronzeInv, AllPublished, AllRead, [Next]_vars
               PROVE  AllRead'
    OBVIOUS
  <1>1. CASE UNCHANGED vars
    BY <1>1 DEF AllRead, vars, nvars
  <1>2. CASE Ingest
    BY <1>2, MarkerStays DEF AllRead, Ingest, nvars
  <1>3. ASSUME NEW n \in Norms, Check(n), UNCHANGED marker PROVE AllRead'
    BY <1>3 DEF AllRead, Check, NTypeOK
  <1>4. ASSUME NEW n \in Norms, ReadType(n), UNCHANGED marker PROVE AllRead'
    <2>1. PICK t \in unread[n] :
              /\ unread' = [unread EXCEPT ![n] = @ \ {t}]
              /\ \E items \in Readable(t) : got' = [got EXCEPT ![n][t] = items]
      BY <1>4 DEF ReadType
    <2>2. t \in Types /\ got' = [got EXCEPT ![n][t] = Content(t)]
      BY <2>1 DEF NTypeOK, Readable
    <2>3. Content(t) = Covered[t]
      BY <1>4, <2>2 DEF AllRead, AllPublished, ReadType
    <2>4. /\ unread'[n] = unread[n] \ {t}
          /\ \A u \in Types : got'[n][u] = IF u = t THEN Covered[t] ELSE got[n][u]
          /\ \A m \in Norms \ {n} : unread'[m] = unread[m] /\ got'[m] = got[m]
      BY <2>1, <2>2, <2>3 DEF NTypeOK
    <2> QED
      BY <1>4, <2>4 DEF AllRead, ReadType
  <1>5. ASSUME NEW n \in Norms, UNCHANGED marker,
               \/ Skip(n) \/ ReadRaises(n) \/ NothingRead(n) \/ Dedup(n) \/ PutTable(n)
               \/ PutNothing(n) \/ PutRaises(n) \/ Finish(n) \/ NKill(n)
        PROVE  AllRead'
    <2>1. /\ UNCHANGED <<unread, got>>
          /\ \A m \in Norms : npc'[m] = "read" => npc[m] = "read"
      BY <1>5 DEF NTypeOK, Skip, ReadRaises, NothingRead, Dedup, PutTable, PutNothing,
                  PutRaises, Finish, NKill
    <2> QED
      BY <1>5, <2>1 DEF AllRead
  <1> QED
    BY <1>1, <1>2, <1>3, <1>4, <1>5 DEF Next, Normalize, NNext, NStep

LEMMA AllReadInvariance ==
    ASSUME "fetch" \notin Faults, CanDelete = FALSE, "read" \notin NFaults
    PROVE  Spec => []AllRead
  <1>1. Init => AllRead
    BY DEF Init, NInit, AllRead
  <1> QED
    BY <1>1, NextAllRead, TablesInvariance, PublishedContent, PTL DEF Spec

LEMMA MergedReadCovered ==
    ASSUME TablesInv, AllRead, NEW n \in Norms, Merged(n)
    PROVE  ReadCovered(n) /\ (NTypeOK => DOMAIN kind[n] = CoveredItems)
  <1>1. ReadCovered(n)
    BY DEF TablesInv, Phases, AllRead, ReadCovered
  <1>2. ASSUME NTypeOK PROVE DOMAIN kind[n] = CoveredItems
    <2>1. got[n] = Covered
      BY <1>1, <1>2, HNDayAssumption DEF NTypeOK, ReadCovered
    <2> QED
      BY <2>1 DEF TablesInv, Phases, CoveredItems
  <1> QED
    BY <1>1, <1>2

\* What README.md:188 promises of the marker, that no partial data enters Silver,
\* holds of what the windows cover when no failed page or read is passed over in
\* silence and the role cannot delete: every normalization that reports success
\* leaves in every table the rows of all of it, whatever other faults there are
\* and whoever runs beside it.  That the windows cover the day is not said here:
\* see CoveredIsListed in PagedIngestionProofs for when they do.
THEOREM CoveredDayInSilver ==
    ASSUME "fetch" \notin Faults, CanDelete = FALSE, "read" \notin NFaults
    PROVE  Spec => []SilverNeverPartial
  <1>1. TablesInv /\ AllRead => \A m \in Norms : Merged(m) => ReadCovered(m)
    BY MergedReadCovered
  <1>2. TablesInv /\ AllRead /\ NoPartialSilver => SilverNeverPartial
    BY <1>1 DEF NoPartialSilver
  <1> QED
    BY <1>2, NoPartialDay, TablesInvariance, AllReadInvariance, PTL

-----------------------------------------------------------------------------
(***************************************************************************)
(* Re-runs                                                                 *)
(***************************************************************************)

\* The post_type of a row is a type under which the item was read.
KindsRead ==
    \A n \in Norms : \A x \in DOMAIN kind[n] :
        kind[n][x] \in Types /\ x \in got[n][kind[n][x]]

LEMMA NextKindsRead == NTypeOK /\ TablesInv /\ KindsRead /\ [Next]_vars => KindsRead'
  <1> SUFFICES ASSUME NTypeOK, TablesInv, KindsRead, [Next]_vars PROVE KindsRead'
    OBVIOUS
  <1>1. ASSUME UNCHANGED <<got, kind>> PROVE KindsRead'
    BY <1>1 DEF KindsRead
  <1>2. ASSUME NEW n \in Norms, ReadType(n) PROVE KindsRead'
    <2>1. /\ DOMAIN kind[n] = {} /\ UNCHANGED kind
          /\ \A m \in Norms \ {n} : got'[m] = got[m]
      BY <1>2 DEF ReadType, TablesInv, Phases, Merged, NTypeOK
    <2> QED
      BY <2>1 DEF KindsRead
  <1>3. ASSUME NEW n \in Norms, Dedup(n) PROVE KindsRead'
    <2>1. PICK order \in Bijection(Types, Types) :
              kind' = [kind EXCEPT ![n] = [x \in UNION Range(got[n]) |->
                                               LastMet(got[n], order, x)]]
      BY <1>3 DEF Dedup
    <2>2. got[n] \in [Types -> SUBSET Items] /\ UNCHANGED got
      BY <1>3 DEF Dedup, NTypeOK
    <2> DEFINE S == UNION Range(got[n])
               L(x) == LastMet(got[n], order, x)
    <2>3. \A x \in S : L(x) \in Types /\ x \in got[n][L(x)]
      BY <2>2, LastMetType
    <2>4. kind' = [kind EXCEPT ![n] = [x \in S |-> L(x)]]
      BY <2>1
    <2> HIDE DEF S, L
    <2>5. kind'[n] = [x \in S |-> L(x)] /\ \A m \in Norms \ {n} : kind'[m] = kind[m]
      BY <2>4 DEF NTypeOK
    <2> QED
      BY <2>2, <2>3, <2>5 DEF KindsRead
  <1> QED
    BY <1>1, <1>2, <1>3
       DEF Next, Ingest, Normalize, NNext, NStep, vars, nvars, Check, Skip, ReadRaises,
           NothingRead, PutTable, PutNothing, PutRaises, Finish, NKill

LEMMA KindsInvariance == Spec => []KindsRead
  <1>1. Init => KindsRead
    BY DEF Init, NInit, KindsRead
  <1> QED
    BY <1>1, NextKindsRead, TablesInvariance, PTL DEF Spec

\* Two normalizations that missed nothing make the same rows, if no item is
\* collected under two types.
LEMMA SameRows ==
    ASSUME NTypeOK, TablesInv, AllRead, KindsRead,
           \A t, u \in Types : t # u => Covered[t] \cap Covered[u] = {},
           NEW m \in Norms, Merged(m), NEW n \in Norms, Merged(n), NEW tab \in Tables
    PROVE  RowsOf(m, tab) = RowsOf(n, tab)
  <1>1. DOMAIN kind[m] = DOMAIN kind[n]
    BY MergedReadCovered
  <1>2. ASSUME NEW x \in DOMAIN kind[m] PROVE kind[m][x] = kind[n][x]
    <2>1. /\ kind[m][x] \in Types /\ x \in Covered[kind[m][x]]
          /\ kind[n][x] \in Types /\ x \in Covered[kind[n][x]]
      BY <1>1, MergedReadCovered DEF KindsRead, ReadCovered
    <2> QED
      BY <2>1
  <1> QED
    BY <1>1, <1>2 DEF RowsOf

\* "Re-running a day overwrites deterministically" (ORCHESTRATION_HANDOFF.md:105)
\* holds when nothing is passed over in silence, as above, and no item is
\* collected under two types: which of its types a post gets is all that the order
\* of the reads decides.
THEOREM RerunsAgree ==
    ASSUME "fetch" \notin Faults, CanDelete = FALSE, "read" \notin NFaults,
           \A t, u \in Types : t # u => Covered[t] \cap Covered[u] = {}
    PROVE  Spec => RerunOverwritesTheSame
  <1>1. NTypeOK /\ TablesInv /\ AllRead /\ KindsRead /\ [Next]_vars =>
            [\A tab \in Tables : silver[tab] # NoFile => silver'[tab] = silver[tab]]_vars
    <2> SUFFICES ASSUME NTypeOK, TablesInv, AllRead, KindsRead, [Next]_vars,
                        NEW tab \in Tables, silver[tab] # NoFile
                 PROVE  silver'[tab] = silver[tab]
      OBVIOUS
    <2>1. CASE UNCHANGED silver
      BY <2>1
    <2>2. ASSUME NEW n \in Norms, PutTable(n) \/ PutRaises(n)
          PROVE  silver'[tab] = silver[tab]
      <3>1. PICK u \in todo[n] : \/ silver' = silver
                                 \/ silver' = [silver EXCEPT ![u] = RowsOf(n, u)]
        BY <2>2 DEF PutTable, PutRaises
      <3>2. Merged(n)
        BY <2>2 DEF PutTable, PutRaises, TablesInv, Phases
      <3>3. PICK m \in Norms : Merged(m) /\ silver[tab] = RowsOf(m, tab)
        BY DEF TablesInv, Provenance
      <3>4. RowsOf(m, tab) = RowsOf(n, tab)
        BY <3>2, <3>3, SameRows
      <3> QED
        BY <3>1, <3>3, <3>4 DEF NTypeOK
    <2> QED
      BY <2>1, <2>2
         DEF Next, Ingest, Normalize, NNext, NStep, vars, nvars, Check, Skip, ReadType,
             ReadRaises, NothingRead, Dedup, PutNothing, Finish, NKill
  <1> QED
    BY <1>1, TablesInvariance, AllReadInvariance, KindsInvariance, PTL
       DEF Spec, RerunOverwritesTheSame
=============================================================================
