--------------------------- MODULE GoldTruthProofs ---------------------------
(***************************************************************************)
(* Proofs about what is in Silver and Gold, for every number of            *)
(* invocations, days and metrics, every uploaded file and every choice of  *)
(* faults: that Gold is true of the uploaded rows (GoldIsTrue), on the way *)
(* through what the tables make of the rows and what a read makes of the   *)
(* tables.                                                                 *)
(***************************************************************************)
EXTENDS XToGoldProofs, FiniteSetTheorems, SequenceTheorems

-----------------------------------------------------------------------------
(***************************************************************************)
(* Finite sets                                                             *)
(***************************************************************************)

\* A finite set that is not empty has an element below no other.
LEMMA FiniteMax ==
    ASSUME NEW S, IsFiniteSet(S), S # {}, NEW R,
           \A e \in S : <<e, e>> \notin R,
           \A e, f, h \in S : <<e, f>> \in R /\ <<f, h>> \in R => <<e, h>> \in R
    PROVE  \E e \in S : \A f \in S : <<e, f>> \notin R
  <1> DEFINE Above(e) == {f \in S : <<e, f>> \in R}
             T == {Above(e) : e \in S}
  <1>1. IsWellFoundedOn(StrictSubsetOrdering(S), SUBSET S)
    BY FS_StrictSubsetOrderingWellFounded, FS_FiniteSubsetsOfFinite
  <1>2. T \subseteq SUBSET S /\ T # {}
    <2>1. \A e \in S : Above(e) \subseteq S /\ Above(e) \in T
      OBVIOUS
    <2> QED
      BY <2>1, Zenon
  <1>3. PICK A \in T : \A B \in T : <<B, A>> \notin StrictSubsetOrdering(S)
    <2> HIDE DEF T
    <2> QED
      BY <1>1, <1>2, WFMin
  <1>4. PICK e \in S : A = Above(e)
    BY <1>3
  <1>5. ASSUME NEW f \in S, <<e, f>> \in R PROVE FALSE
    <2>1. Above(f) \subseteq Above(e) /\ f \in Above(e) /\ f \notin Above(f)
      BY <1>5
    <2>2. <<Above(f), Above(e)>> \in StrictSubsetOrdering(S)
      BY <2>1 DEF StrictSubsetOrdering
    <2> QED
      BY <1>3, <1>4, <2>2
  <1> QED
    BY <1>5

\* The domain of a sequence made of a finite set.
LEMMA SetToSeqDomain ==
    ASSUME NEW S, IsFiniteSet(S)
    PROVE  IsFiniteSet(DOMAIN SetToSeq(S)) /\ DOMAIN SetToSeq(S) \subseteq Nat
  <1>1. Cardinality(S) \in Nat /\ ExistsBijection(1 .. Cardinality(S), S)
    BY FS_CardinalityType
  <1>2. PICK f \in [1 .. Cardinality(S) -> S] : IsInjective(f)
    BY <1>1 DEF ExistsBijection, Bijection, Injection, IsInjective
  <1>3. SetToSeq(S) \in [1 .. Cardinality(S) -> S]
    BY <1>2 DEF SetToSeq
  <1>4. DOMAIN SetToSeq(S) = 1 .. Cardinality(S)
    BY <1>3
  <1> QED
    BY <1>1, <1>4, FS_Interval

LEMMA FiniteImage ==
    ASSUME NEW S, IsFiniteSet(S), NEW f, S \subseteq DOMAIN f
    PROVE  IsFiniteSet({f[x] : x \in S})
  <1> DEFINE T == {f[x] : x \in S}
             h == [x \in S |-> f[x]]
  <1>1. h \in Surjection(S, T)
    BY DEF Surjection
  <1> QED
    BY <1>1, FS_Surjection

-----------------------------------------------------------------------------
(***************************************************************************)
(* The rows of the files, and the tables made of them                      *)
(***************************************************************************)

\* The uploads there can be of the file of a day and source.
Uploads(k) == 1 .. Len(Csv[k[1]][k[2]])

LEMMA PostedRows ==
    ASSUME NEW k \in XKeys
    PROVE  /\ Len(Csv[k[1]][k[2]]) \in Nat /\ DOMAIN Posted[k] = Uploads(k)
           /\ \A v \in Uploads(k) :
                  /\ DOMAIN Posted[k][v] \subseteq Nat /\ IsFiniteSet(DOMAIN Posted[k][v])
                  /\ \A i \in DOMAIN Posted[k][v] : IsCsvRow(Posted[k][v][i])
  <1> DEFINE files == Csv[k[1]][k[2]]
  <1>1. k[1] \in Days /\ k[2] \in XSources
    BY DEF XKeys
  <1>2. files \in Seq(Range(files)) /\ Len(files) \in Nat /\ DOMAIN files = Uploads(k)
    BY <1>1, XAssumption DEF Uploads
  <1>3. DOMAIN Posted[k] = Uploads(k)
    BY <1>2 DEF Posted
  <1>4. ASSUME NEW v \in Uploads(k)
        PROVE  /\ DOMAIN Posted[k][v] \subseteq Nat /\ IsFiniteSet(DOMAIN Posted[k][v])
               /\ \A i \in DOMAIN Posted[k][v] : IsCsvRow(Posted[k][v][i])
    <2> DEFINE csv == files[v]
               places == {i \in DOMAIN csv : csv[i].user # NoName}
    <2>1. csv \in Range(files)
      BY <1>2 DEF Range
    <2>2. csv \in Seq(Range(csv)) /\ \A r \in Range(csv) : IsCsvRow(r)
      BY <1>1, <2>1, XAssumption
    <2>3. Posted[k][v] = [i \in places |-> csv[i]]
      BY <1>2 DEF Posted, Restrict
    <2>4. Len(csv) \in Nat /\ DOMAIN csv = 1 .. Len(csv)
      BY <2>2
    <2>5. IsFiniteSet(DOMAIN csv)
      <3>1. 1 \in Int /\ Len(csv) \in Int
        BY <2>4
      <3> HIDE DEF csv
      <3>2. IsFiniteSet(1 .. Len(csv))
        BY <3>1, FS_Interval
      <3> QED
        BY <2>4, <3>2
    <2>6. IsFiniteSet(places)
      BY <2>5, FS_Subset
    <2>7. DOMAIN Posted[k][v] = places
      BY <2>3
    <2>8. \A i \in places : Posted[k][v][i] = csv[i] /\ csv[i] \in Range(csv)
      BY <2>3 DEF Range
    <2> HIDE DEF csv, places
    <2>9. places \subseteq DOMAIN csv
      BY DEF places
    <2> QED
      BY <2>2, <2>4, <2>6, <2>7, <2>8, <2>9
  <1> QED
    BY <1>2, <1>3, <1>4

\* What is named in a column of a file is finite, and so are the rows made of it.
LEMMA ColumnFinite ==
    ASSUME NEW csv, IsFiniteSet(DOMAIN csv), \A i \in DOMAIN csv : IsCsvRow(csv[i]),
           NEW column \in {"hashtags", "urls", "sources"}
    PROVE  \A f \in {DimensionRows(csv, column), LinkRows(csv, column)} :
               DOMAIN f \subseteq Nat /\ IsFiniteSet(DOMAIN f)
  <1> DEFINE named == [i \in DOMAIN csv |-> csv[i].refs[column]]
             linked == [i \in DOMAIN csv |-> {PostId(csv[i])} \X csv[i].refs[column]]
             N == UNION {csv[i].refs[column] : i \in DOMAIN csv}
             L == UNION {{PostId(csv[i])} \X csv[i].refs[column] : i \in DOMAIN csv}
             asRow(S) == [x \in S |-> [id |-> x]]
  <1>1. \A i \in DOMAIN csv : IsFiniteSet(csv[i].refs[column])
    BY DEF IsCsvRow
  <1>2. \A i \in DOMAIN csv : IsFiniteSet({PostId(csv[i])} \X csv[i].refs[column])
    BY <1>1, FS_Singleton, FS_Product
  <1>3. IsFiniteSet(N)
    <2>1. IsFiniteSet({named[i] : i \in DOMAIN csv})
      BY FiniteImage
    <2>2. {named[i] : i \in DOMAIN csv} = {csv[i].refs[column] : i \in DOMAIN csv}
      OBVIOUS
    <2> QED
      BY <1>1, <2>1, <2>2, FS_UNION
  <1>4. IsFiniteSet(L)
    <2>1. IsFiniteSet({linked[i] : i \in DOMAIN csv})
      <3>1. DOMAIN csv \subseteq DOMAIN linked
        OBVIOUS
      <3> HIDE DEF linked
      <3> QED
        BY <3>1, FiniteImage
    <2>2. {linked[i] : i \in DOMAIN csv} = {{PostId(csv[i])} \X csv[i].refs[column] : i \in DOMAIN csv}
      OBVIOUS
    <2> QED
      BY <1>2, <2>1, <2>2, FS_UNION
  <1>5. ASSUME NEW S, IsFiniteSet(S) PROVE IsFiniteSet({[id |-> x] : x \in S})
    <2>1. IsFiniteSet({asRow(S)[x] : x \in S})
      BY <1>5, FiniteImage
    <2>2. {asRow(S)[x] : x \in S} = {[id |-> x] : x \in S}
      OBVIOUS
    <2> QED
      BY <2>1, <2>2
  <1>6. DOMAIN DimensionRows(csv, column) \subseteq Nat /\ IsFiniteSet(DOMAIN DimensionRows(csv, column))
    BY <1>3, <1>5, SetToSeqDomain DEF DimensionRows
  <1>7. DOMAIN LinkRows(csv, column) \subseteq Nat /\ IsFiniteSet(DOMAIN LinkRows(csv, column))
    BY <1>4, <1>5, SetToSeqDomain DEF LinkRows
  <1> QED
    BY <1>6, <1>7

\* The rows a file makes of a table are at finitely many natural numbers.
LEMMA TableDomain ==
    ASSUME NEW k \in XKeys, NEW v \in Uploads(k), NEW tab \in SilverTableNames
    PROVE  DOMAIN TableOf(k, v, tab) \subseteq Nat /\ IsFiniteSet(DOMAIN TableOf(k, v, tab))
  <1> DEFINE csv == Posted[k][v]
             G(f) == DOMAIN f \subseteq Nat /\ IsFiniteSet(DOMAIN f)
  <1>1. G(csv) /\ \A i \in DOMAIN csv : IsCsvRow(csv[i])
    BY PostedRows
  <1>2. DOMAIN Csv[k[1]][k[2]] = Uploads(k)
    BY XAssumption DEF Uploads, XKeys
  <1>3. TableOf(k, v, tab) = Rows(csv, tab)
    BY <1>2 DEF TableOf, Tables
  <1> SUFFICES G(Rows(csv, tab))
    BY <1>3
  <1> HIDE DEF csv
  <1>4. G([i \in DOMAIN csv |-> PostRow(csv[i])]) /\ G([i \in DOMAIN csv |-> SnapshotRow(csv[i])])
    BY <1>1
  <1>5. G(UserRows(csv))
    <2> DEFINE D == {j \in DOMAIN csv : \A l \in PlacesOf(csv, csv[j].user) : j <= l}
    <2>1. DOMAIN UserRows(csv) = D
      BY DEF UserRows
    <2> QED
      BY <1>1, <2>1, FS_Subset
  <1>6. \A column \in {"hashtags", "urls", "sources"} :
            G(DimensionRows(csv, column)) /\ G(LinkRows(csv, column))
    BY <1>1, ColumnFinite
  <1>7. G(<<>>)
    BY FS_EmptySet
  <1> HIDE DEF G
  <1>8. CASE tab = "posts"
    BY <1>4, <1>8 DEF Rows
  <1>9. CASE tab = "users"
    BY <1>5, <1>9 DEF Rows
  <1>10. CASE tab = "user_snapshots"
    BY <1>4, <1>10 DEF Rows
  <1>11. CASE tab \in {"hashtags", "urls", "sources"}
    BY <1>6, <1>11 DEF Rows
  <1>12. CASE tab \in {"post_hashtags", "post_urls"}
    BY <1>6, <1>12 DEF Rows
  <1>13. CASE tab = "post_engagement"
    BY <1>7, <1>13 DEF Rows
  <1> QED
    BY <1>8, <1>9, <1>10, <1>11, <1>12, <1>13 DEF SilverTableNames
-----------------------------------------------------------------------------
(***************************************************************************)
(* What the invocations hold in memory                                     *)
(***************************************************************************)

Running(g) == gpc[g] \in {"compute", "clear", "put"}

\* The metrics that GoldIsTrue is about.
XMetrics == {"daily_post_counts", "daily_users_metric", "top_x_users_followers"}
CountMetrics == {"daily_post_counts", "daily_users_metric"}

\* An invocation has what its reads and counts returned, in their order, and an
\* upload that was read is one that there was.
Held ==
    /\ DOMAIN snap = GRuns /\ DOMAIN counted = GRuns
    /\ \A g \in GRuns :
           /\ snap[g] \in Seq(Range(snap[g])) /\ Len(snap[g]) <= 4
           /\ gpc[g] = "idle" => snap[g] = <<>>
           /\ gpc[g] = "read" => Len(snap[g]) < 4
           /\ counted[g] \in Seq(Nat) /\ Len(counted[g]) <= Len(QTables)
    /\ errors \in [GRuns -> SUBSET Metrics]
    /\ \A k \in XKeys : chunk[k[1]][k[2]] <= Len(Csv[k[1]][k[2]])
    /\ \A n \in XNorms, k \in XKeys : took[n][k] <= chunk[k[1]][k[2]]
    /\ \A tab \in SilverTableNames, d \in Days : silver[tab][<<d, "hn">>] = HNFiles[tab][d]

\* The metrics an invocation has behind it, that of the step it is at included
\* while it writes it, are what they were computed to be unless they failed.
Behind(g, i) == i < step[g] \/ (i = step[g] /\ Writing(g))

Done ==
    \A g \in GRuns :
        /\ ~Running(g) => \A m \in Metrics : result[g][m] = Nothing
        /\ gpc[g] \in {"idle", "read"} => step[g] = 1
        /\ Running(g) =>
               /\ Len(snap[g]) = 4
               /\ \A m \in XMetrics : result[g][m] \in Computed(g, m) \cup {Nothing}
               /\ \A i \in DOMAIN Steps :
                      /\ Behind(g, i)
                      /\ Steps[i] \in CountMetrics \ errors[g]
                      => result[g][Steps[i]] \in Computed(g, Steps[i])

\* What was read of X for a key, or what HNFiles has, is in the object.
LEMMA SilverFinite ==
    ASSUME SilverTypes, NothingClobbered, Held, NEW tab \in SilverTableNames, NEW k \in Keys
    PROVE  DOMAIN silver[tab][k] \subseteq Nat /\ IsFiniteSet(DOMAIN silver[tab][k])
  <1>1. CASE k[2] = "hn"
    <2>1. k[1] \in Days /\ k = <<k[1], "hn">>
      BY <1>1 DEF Keys
    <2>2. silver[tab][k] = HNFiles[tab][k[1]]
      BY <2>1 DEF Held
    <2> QED
      BY <2>1, <2>2, HNAssumption
  <1>2. CASE k[2] # "hn" /\ silver[tab][k] = <<>>
    <2>1. DOMAIN silver[tab][k] = {}
      BY <1>2
    <2> QED
      BY <2>1, FS_EmptySet
  <1>3. CASE k[2] # "hn" /\ silver[tab][k] # <<>>
    <2>1. k \in XKeys
      BY <1>3 DEF Keys, XKeys
    <2>2. PICK n \in XNorms : took[n][k] # 0 /\ silver[tab][k] = TableOf(k, took[n][k], tab)
      BY <1>3, <2>1 DEF NothingClobbered
    <2>3. k[1] \in Days /\ k[2] \in XSources
      BY <2>1 DEF XKeys
    <2>4. took[n][k] \in Nat /\ chunk[k[1]][k[2]] \in Nat /\ Len(Csv[k[1]][k[2]]) \in Nat
      BY <2>1, <2>3, PostedRows DEF SilverTypes
    <2>5. took[n][k] <= chunk[k[1]][k[2]] /\ chunk[k[1]][k[2]] <= Len(Csv[k[1]][k[2]])
      BY <2>1 DEF Held
    <2>6. took[n][k] \in Uploads(k)
      BY <2>2, <2>4, <2>5 DEF Uploads
    <2> QED
      BY <2>1, <2>2, <2>6, TableDomain
  <1> QED
    BY <1>1, <1>2, <1>3

LEMMA KeysFinite == IsFiniteSet(Keys) /\ IsFiniteSet(XKeys)
  <1>1. IsFiniteSet(XSources \cup {"hn"}) /\ IsFiniteSet(XSources)
    <2>1. IsFiniteSet({"covid"}) /\ IsFiniteSet({"bitcoin"}) /\ IsFiniteSet({"hn"})
      BY FS_Singleton
    <2>2. IsFiniteSet({"covid"} \cup {"bitcoin"})
      BY <2>1, FS_Union
    <2>3. {"covid"} \cup {"bitcoin"} = XSources
      BY DEF XSources
    <2> QED
      BY <2>1, <2>2, <2>3, FS_Union
  <1> QED
    BY <1>1, DaysAssumption, FS_Product DEF Keys, XKeys

\* A read returns finitely many rows.
LEMMA PlacesFinite ==
    ASSUME SilverTypes, NothingClobbered, Held,
           NEW tab \in SilverTableNames, NEW keys \in SUBSET Keys
    PROVE  IsFiniteSet(Places(tab, keys)) /\ Cardinality(KeptPlaces(tab, keys)) \in Nat
  <1> DEFINE of(k) == {k} \X DOMAIN silver[tab][k]
             parts == [k \in keys |-> of(k)]
  <1>1. IsFiniteSet(keys)
    BY KeysFinite, FS_Subset
  <1>2. \A k \in keys : IsFiniteSet(of(k))
    BY SilverFinite, FS_Singleton, FS_Product
  <1>3. IsFiniteSet({parts[k] : k \in keys})
    <2>1. keys \subseteq DOMAIN parts
      OBVIOUS
    <2> HIDE DEF parts
    <2> QED
      BY <1>1, <2>1, FiniteImage
  <1>4. {parts[k] : k \in keys} = {of(k) : k \in keys}
    OBVIOUS
  <1>5. IsFiniteSet(UNION {of(k) : k \in keys})
    BY <1>2, <1>3, <1>4, FS_UNION
  <1>6. IsFiniteSet(Places(tab, keys))
    BY <1>5 DEF Places
  <1>7. KeptPlaces(tab, keys) \subseteq Places(tab, keys)
    BY DEF KeptPlaces
  <1> QED
    BY <1>6, <1>7, FS_Subset, FS_CardinalityType

\* A sequence with one more element.
LEMMA Appended ==
    ASSUME NEW s, s \in Seq(Range(s)), NEW x
    PROVE  Append(s, x) \in Seq(Range(Append(s, x))) /\ Len(Append(s, x)) = Len(s) + 1
  <1> DEFINE T == Range(s) \cup {x}
             t == Append(s, x)
  <1>1. s \in Seq(T)
    <2>1. Len(s) \in Nat /\ DOMAIN s = 1 .. Len(s) /\ \A i \in 1 .. Len(s) : s[i] \in T
      BY DEF Range
    <2> QED
      BY <2>1
  <1> HIDE DEF T
  <1>2. t \in Seq(T) /\ Len(t) = Len(s) + 1
    BY <1>1 DEF T
  <1>3. Len(t) \in Nat /\ DOMAIN t = 1 .. Len(t) /\ \A i \in 1 .. Len(t) : t[i] \in Range(t)
    BY <1>2 DEF Range
  <1> HIDE DEF t
  <1>4. t \in [1 .. Len(t) -> T]
    BY <1>2
  <1>5. t \in [1 .. Len(t) -> Range(t)]
    BY <1>3, <1>4
  <1>6. t \in Seq(Range(t))
    BY <1>3, <1>5, SeqDef
  <1> QED
    BY <1>2, <1>6 DEF t

LEMMA InitHeld == Init => Held /\ Done
  <1> SUFFICES ASSUME Init PROVE Held /\ Done
    OBVIOUS
  <1>1. <<>> \in Seq(Range(<<>>)) /\ <<>> \in Seq(Nat) /\ Len(<<>>) = 0
    BY DEF Range
  <1>2. /\ \A k \in XKeys : Len(Csv[k[1]][k[2]]) \in Nat
        /\ Len(QTables) \in Nat
    BY PostedRows, GoldAssumption
  <1>3. \A k \in XKeys : k[1] \in Days /\ k[2] \in XSources
    BY DEF XKeys
  <1>4. /\ \A k \in XKeys : chunk[k[1]][k[2]] = 0
        /\ \A n \in XNorms, k \in XKeys : took[n][k] = 0
    BY <1>3 DEF Init, XInit
  <1>5. \A tab \in SilverTableNames, d \in Days : silver[tab][<<d, "hn">>] = HNFiles[tab][d]
    BY DEF Init, Keys
  <1>6. Held
    BY <1>1, <1>2, <1>4, <1>5 DEF Init, GInit, Held
  <1>7. Done
    BY DEF Init, GInit, Done, Running
  <1> QED
    BY <1>6, <1>7

\* What a step of normalization_x does to what was uploaded and read.
LEMMA NextHeldX ==
    ASSUME SilverTypes, SilverPhases, Held, XNext, UNCHANGED gvars
    PROVE  Held'
  <1>1. \A k \in XKeys : k[1] \in Days /\ k[2] \in XSources
    BY DEF XKeys
  <1>2. /\ \A k \in XKeys : chunk[k[1]][k[2]] \in Nat /\ Len(Csv[k[1]][k[2]]) \in Nat
        /\ \A n \in XNorms, k \in XKeys : took[n][k] \in Nat
    BY <1>1, PostedRows DEF SilverTypes
  <1> DEFINE Bounds ==
          /\ \A k \in XKeys : chunk'[k[1]][k[2]] <= Len(Csv[k[1]][k[2]])
          /\ \A n \in XNorms, k \in XKeys : took'[n][k] <= chunk'[k[1]][k[2]]
  <1>3. Bounds
    <2>1. CASE \E d \in Days : Mark(d)
      BY <2>1 DEF Mark, Held
    <2>2. ASSUME NEW d \in Days, NEW u \in XSources, Upload(d, u)
          PROVE  Bounds
      <3>1. \A k \in XKeys :
                \/ k = <<d, u>> /\ chunk'[k[1]][k[2]] = chunk[k[1]][k[2]] + 1
                                /\ chunk[k[1]][k[2]] < Len(Csv[k[1]][k[2]])
                \/ chunk'[k[1]][k[2]] = chunk[k[1]][k[2]]
        BY <1>1, <2>2 DEF Upload, SilverTypes, XKeys
      <3>2. took' = took
        BY <2>2 DEF Upload
      <3> QED
        BY <1>2, <3>1, <3>2 DEF Held
    <2>3. ASSUME NEW n \in XNorms, Target(n) \/ NoTarget(n) \/ XStep(n) \/ XKill(n)
          PROVE  Bounds
      <3>1. chunk' = chunk
        BY <2>3, XStepEffect
      <3>2. CASE took' = took
        BY <3>1, <3>2 DEF Held
      <3>3. CASE took' # took
        <4>1. xpc[n] = "read" /\ took' = [took EXCEPT ![n][Key(n)] = chunk[Key(n)[1]][Key(n)[2]]]
          BY <2>3, <3>3, XStepEffect
        <4>2. Key(n) \in XKeys
          BY <4>1, DayQueued DEF SilverPhases
        <4>3. \A m \in XNorms, k \in XKeys :
                  took'[m][k] = took[m][k] \/ took'[m][k] = chunk[k[1]][k[2]]
          BY <4>1, <4>2 DEF SilverTypes
        <4>4. \A m \in XNorms, k \in XKeys : took'[m][k] <= chunk[k[1]][k[2]]
          BY <1>2, <4>3 DEF Held
        <4> QED
          BY <3>1, <4>4 DEF Held
      <3> QED
        BY <3>2, <3>3
    <2> QED
      BY <2>1, <2>2, <2>3 DEF XNext
  <1>4. \A tab \in SilverTableNames, d \in Days : silver'[tab][<<d, "hn">>] = HNFiles[tab][d]
    <2>1. CASE silver' = silver
      BY <2>1 DEF Held
    <2>2. CASE silver' # silver
      <3>1. PICK n \in XNorms, t \in SilverTableNames :
                /\ Key(n) \in XKeys
                /\ silver' = [silver EXCEPT ![t][Key(n)] = TableOf(Key(n), took[n][Key(n)], t)]
        BY <2>2, XPutEffect
      <3>2. \A d \in Days : <<d, "hn">> # Key(n) /\ <<d, "hn">> \in Keys
        BY <3>1 DEF XKeys, XSources, Keys
      <3>3. \A tab \in SilverTableNames, d \in Days :
                silver'[tab][<<d, "hn">>] = silver[tab][<<d, "hn">>]
        BY <3>1, <3>2 DEF SilverTypes
      <3> QED
        BY <3>3 DEF Held
    <2> QED
      BY <2>1, <2>2
  <1> QED
    BY <1>3, <1>4 DEF Held, gvars

\* What a step of analytics does to what it has read and counted.
LEMMA NextHeldG ==
    ASSUME SilverTypes, NothingClobbered, GoldTypes, GoldPhases, Held, GNext, UNCHANGED xvars
    PROVE  Held'
  <1>1. UNCHANGED <<silver, chunk, took>>
    BY DEF xvars
  <1>2. PICK g \in GRuns : Invoke(g) \/ GStep(g) \/ GKill(g)
    BY DEF GNext
  <1>3. <<>> \in Seq(Range(<<>>)) /\ <<>> \in Seq(Nat) /\ Len(<<>>) = 0
    BY DEF Range
  <1>4. Len(QTables) \in Nat /\ \A i \in 1 .. Len(QTables) : QTables[i] \in SilverTableNames
    BY GoldAssumption
  <1>5. AtStep(g) \/ Writing(g) => Metric(g) \in Metrics
    BY GoldAssumption, PartitionLeft DEF AtStep, Metric, GoldTypes
  <1>6. Len(snap[g]) \in Nat /\ Len(counted[g]) \in Nat
    BY DEF Held
  <1>7. CASE Invoke(g)
    <2>1. gpc'[g] = "read" /\ snap' = snap /\ Len(snap[g]) < 4
      BY <1>3, <1>7 DEF Invoke, GoldTypes, Held
    <2> QED
      BY <1>1, <1>7, <2>1 DEF Invoke, GoldTypes, Held
  <1>8. CASE ReadSilver(g)
    <2>1. PICK rows : snap' = [snap EXCEPT ![g] = Append(@, rows)]
      BY <1>8 DEF ReadSilver
    <2>2. Append(snap[g], rows) \in Seq(Range(Append(snap[g], rows)))
          /\ Len(Append(snap[g], rows)) = Len(snap[g]) + 1
      BY Appended DEF Held
    <2>3. Len(snap[g]) < 4 /\ gpc[g] = "read"
      BY <1>8 DEF ReadSilver, Held
    <2>4. /\ snap'[g] \in Seq(Range(snap'[g])) /\ Len(snap'[g]) <= 4
          /\ gpc'[g] \in {"read", "compute"}
          /\ gpc'[g] = "read" => Len(snap'[g]) < 4
          /\ DOMAIN snap' = GRuns
          /\ \A h \in GRuns \ {g} : snap'[h] = snap[h] /\ gpc'[h] = gpc[h]
      <3>1. snap'[g] = Append(snap[g], rows)
        BY <2>1 DEF Held
      <3>2. gpc'[g] = IF Len(snap[g]) = 3 THEN "compute" ELSE "read"
        BY <1>8 DEF ReadSilver, GoldTypes
      <3>3. Len(snap'[g]) = Len(snap[g]) + 1 /\ snap'[g] \in Seq(Range(snap'[g]))
        BY <2>2, <3>1
      <3>4. /\ Len(snap'[g]) <= 4
            /\ gpc'[g] \in {"read", "compute"}
            /\ gpc'[g] = "read" => Len(snap'[g]) < 4
        <4>1. PICK l \in Nat : l = Len(snap[g])
          BY <1>6
        <4>2. l < 4
          BY <2>3, <4>1, Zenon
        <4>3. (l = 3 \/ l + 1 < 4) /\ l + 1 <= 4
          BY <4>2
        <4> QED
          BY <3>2, <3>3, <4>1, <4>3
      <3>5. /\ DOMAIN snap' = GRuns
            /\ \A h \in GRuns \ {g} : snap'[h] = snap[h] /\ gpc'[h] = gpc[h]
        BY <1>8, <2>1 DEF ReadSilver, GoldTypes, Held
      <3> QED
        BY <3>3, <3>4, <3>5
    <2> QED
      BY <1>1, <1>8, <2>4 DEF ReadSilver, Held
  <1>9. CASE CountRows(g)
    <2>1. PICK c \in MayCount(QTables[Len(counted[g]) + 1]) :
              counted' = [counted EXCEPT ![g] = Append(@, c)]
      BY <1>9 DEF CountRows
    <2>2. Len(counted[g]) < Len(QTables)
      BY <1>9 DEF CountRows, Counting
    <2>3. QTables[Len(counted[g]) + 1] \in SilverTableNames
      BY <1>4, <1>6, <2>2
    <2>4. c \in Nat
      BY <2>3, PlacesFinite DEF MayCount
    <2>5. counted[g] \in Seq(Nat)
      BY DEF Held
    <2>6. Append(counted[g], c) \in Seq(Nat) /\ Len(Append(counted[g], c)) <= Len(QTables)
      BY <1>4, <2>2, <2>4, <2>5
    <2> QED
      BY <1>1, <1>9, <2>1, <2>6 DEF CountRows, Held
  <1>10. CASE Compute(g)
    BY <1>1, <1>10 DEF Compute, AtStep, GoldTypes, Held
  <1>11. CASE ComputeEmpty(g)
    BY <1>1, <1>11 DEF ComputeEmpty, Held
  <1>12. CASE ComputeRaises(g)
    BY <1>1, <1>5, <1>12 DEF ComputeRaises, Held
  <1>13. CASE Clear(g) \/ Put(g) \/ PutLast(g)
    BY <1>1, <1>13 DEF Clear, Put, PutLast, GoldTypes, Held
  <1>14. CASE WriteRaises(g)
    <2>1. Metric(g) \in Metrics
      BY <1>5, <1>14 DEF WriteRaises, Writing
    <2> QED
      BY <1>1, <1>14, <2>1 DEF WriteRaises, GoldTypes, Held
  <1>15. CASE GFinish(g) \/ GKill(g)
    <2>1. snap' = [snap EXCEPT ![g] = <<>>] /\ counted' = [counted EXCEPT ![g] = <<>>]
          /\ errors' = errors /\ gpc'[g] \notin {"idle", "read"}
          /\ \A h \in GRuns \ {g} : gpc'[h] = gpc[h]
      BY <1>15 DEF GFinish, GKill, Forget, GoldTypes
    <2>2. \A h \in GRuns \ {g} : snap'[h] = snap[h] /\ counted'[h] = counted[h]
      BY <2>1
    <2>3. snap'[g] = <<>> /\ counted'[g] = <<>> /\ DOMAIN snap' = GRuns /\ DOMAIN counted' = GRuns
      BY <2>1 DEF Held
    <2>4. \A h \in GRuns :
              /\ snap'[h] \in Seq(Range(snap'[h])) /\ Len(snap'[h]) <= 4
              /\ gpc'[h] = "idle" => snap'[h] = <<>>
              /\ gpc'[h] = "read" => Len(snap'[h]) < 4
              /\ counted'[h] \in Seq(Nat) /\ Len(counted'[h]) <= Len(QTables)
      <3>1. /\ snap'[g] \in Seq(Range(snap'[g])) /\ Len(snap'[g]) <= 4
            /\ counted'[g] \in Seq(Nat) /\ Len(counted'[g]) <= Len(QTables)
        BY <1>3, <1>4, <2>3
      <3> QED
        BY <2>1, <2>2, <3>1 DEF Held
    <2> QED
      BY <1>1, <2>1, <2>3, <2>4 DEF Held
  <1> QED
    BY <1>2, <1>7, <1>8, <1>9, <1>10, <1>11, <1>12, <1>13, <1>14, <1>15 DEF GStep

LEMMA HeldInvariance == Spec => []Held
  <1>1. SilverTypes /\ SilverInv /\ GoldTypes /\ GoldInv /\ Held /\ [Next]_vars => Held'
    <2> SUFFICES ASSUME SilverTypes, SilverInv, GoldTypes, GoldInv, Held, [Next]_vars PROVE Held'
      OBVIOUS
    <2>1. CASE Normalize
      BY <2>1, NextHeldX DEF Normalize, SilverInv
    <2>2. CASE Analyze
      BY <2>2, NextHeldG DEF Analyze, SilverInv, GoldInv
    <2>3. CASE UNCHANGED vars
      BY <2>3 DEF vars, xvars, gvars, Held
    <2> QED
      BY <2>1, <2>2, <2>3 DEF Next
  <1>2. Init => Held
    BY InitHeld
  <1> QED
    BY <1>1, <1>2, SilverInvariance, GoldInvariance, PTL DEF Spec

\* Every variable has its type, in particular the rows counted are numbers and
\* no upload was read that there was not.
THEOREM TypeCorrect == Spec => []TypeOK
  <1>1. SilverTypes /\ GoldTypes /\ Held => TypeOK
    <2> SUFFICES ASSUME SilverTypes, GoldTypes, Held PROVE TypeOK
      OBVIOUS
    <2>1. \A k \in XKeys : k[1] \in Days /\ k[2] \in XSources
      BY DEF XKeys
    <2>2. /\ \A k \in XKeys : chunk[k[1]][k[2]] \in Nat /\ Len(Csv[k[1]][k[2]]) \in Nat
          /\ \A n \in XNorms, k \in XKeys : took[n][k] \in Nat
      BY <2>1, PostedRows DEF SilverTypes
    <2>3. /\ \A k \in XKeys : chunk[k[1]][k[2]] \in 0 .. Len(Csv[k[1]][k[2]])
          /\ \A n \in XNorms, k \in XKeys : took[n][k] \in 0 .. chunk[k[1]][k[2]]
      BY <2>2 DEF Held
    <2>4. XTypeOK
      BY <2>3 DEF XTypeOK, SilverTypes
    <2>5. \A g \in GRuns : Len(snap[g]) \in 0 .. 4
      <3>1. \A g \in GRuns : Len(snap[g]) \in Nat /\ Len(snap[g]) <= 4
        BY DEF Held
      <3>2. \A l \in Nat : l <= 4 => l \in 0 .. 4
        OBVIOUS
      <3> QED
        BY <3>1, <3>2, Zenon
    <2>6. GTypeOK
      BY <2>5 DEF GTypeOK, GoldTypes, Held, Files, MetricPartitions
    <2> QED
      BY <2>4, <2>6 DEF TypeOK
  <1> QED
    BY <1>1, SilverInvariance, GoldInvariance, HeldInvariance, PTL
-----------------------------------------------------------------------------
(***************************************************************************)
(* What was computed                                                       *)
(***************************************************************************)

LEMMA ComputedSame ==
    ASSUME NEW g \in GRuns, snap'[g] = snap[g], day'[g] = day[g], NEW m \in XMetrics
    PROVE  Computed(g, m)' = Computed(g, m)
  <1>1. CASE m = "daily_post_counts"
    BY <1>1 DEF Computed
  <1>2. CASE m = "daily_users_metric"
    BY <1>2 DEF Computed
  <1>3. CASE m = "top_x_users_followers"
    BY <1>3 DEF Computed
  <1> QED
    BY <1>1, <1>2, <1>3 DEF XMetrics

\* A count without partitions is the function without arguments.
LEMMA EmptyCount ==
    ASSUME NEW g \in GRuns, NEW m \in CountMetrics, NEW value \in Computed(g, m),
           DOMAIN value = {}
    PROVE  value = Nothing
  <1> DEFINE users == [HackerNews |-> snap[g][3], X |-> snap[g][4]]
  <1>1. ASSUME NEW posts, DOMAIN PostCounts(day[g], posts) = {}
        PROVE  PostCounts(day[g], posts) = Nothing
    BY <1>1 DEF PostCounts, Nothing
  <1>2. ASSUME NEW posts, DOMAIN UserCounts(day[g], users, posts) = {}
        PROVE  UserCounts(day[g], users, posts) = Nothing
    BY <1>2 DEF UserCounts, Nothing
  <1> HIDE DEF users
  <1>3. CASE m = "daily_post_counts"
    BY <1>1, <1>3 DEF Computed
  <1>4. CASE m = "daily_users_metric"
    BY <1>2, <1>4 DEF Computed, users
  <1> QED
    BY <1>3, <1>4 DEF CountMetrics

\* An invocation with what it has read and computed.
DoneOf(g) ==
    /\ ~Running(g) => \A m \in Metrics : result[g][m] = Nothing
    /\ gpc[g] \in {"idle", "read"} => step[g] = 1
    /\ Running(g) =>
           /\ Len(snap[g]) = 4
           /\ \A m \in XMetrics : result[g][m] \in Computed(g, m) \cup {Nothing}
           /\ \A i \in DOMAIN Steps :
                  /\ Behind(g, i)
                  /\ Steps[i] \in CountMetrics \ errors[g]
                  => result[g][Steps[i]] \in Computed(g, Steps[i])

\* A step that computes nothing leaves what was computed before it.
LEMMA DoneStays ==
    ASSUME GoldTypes, NEW g \in GRuns, DoneOf(g), Running(g), Running(g)',
           snap'[g] = snap[g], day'[g] = day[g], result'[g] = result[g],
           errors[g] \subseteq errors'[g],
           \A i \in DOMAIN Steps :
               Behind(g, i)' /\ Steps[i] \in CountMetrics \ errors'[g] =>
                   Behind(g, i) \/ result[g][Steps[i]] \in Computed(g, Steps[i])
    PROVE  DoneOf(g)'
  <1>1. CountMetrics \subseteq XMetrics
    BY DEF CountMetrics, XMetrics
  <1>2. \A m \in XMetrics : Computed(g, m)' = Computed(g, m)
    BY ComputedSame
  <1>3. gpc'[g] \notin {"idle", "read"}
    BY DEF Running
  <1>4. \A m \in XMetrics : result'[g][m] \in Computed(g, m)' \cup {Nothing}
    BY <1>2 DEF DoneOf
  <1>5. \A i \in DOMAIN Steps :
            Behind(g, i)' /\ Steps[i] \in CountMetrics \ errors'[g] =>
                result'[g][Steps[i]] \in Computed(g, Steps[i])'
    BY <1>1, <1>2 DEF DoneOf
  <1> QED
    BY <1>3, <1>4, <1>5 DEF DoneOf

LEMMA NextDone ==
    ASSUME GoldTypes, GoldPhases, Held, Done, GNext
    PROVE  Done'
  <1>1. PICK g \in GRuns : Invoke(g) \/ GStep(g) \/ GKill(g)
    BY DEF GNext
  <1>2. \A h \in GRuns : DoneOf(h)
    BY DEF Done, DoneOf
  <1>3. Len(Steps) \in Nat /\ DOMAIN Steps = 1 .. Len(Steps) /\ step[g] \in 1 .. Len(Steps) + 1
    BY GoldAssumption DEF GoldTypes
  <1>4. XMetrics \subseteq Metrics /\ CountMetrics \subseteq XMetrics
    BY DEF XMetrics, CountMetrics, Metrics
  <1>5. ASSUME NEW h \in GRuns \ {g} PROVE DoneOf(h)'
    <2>1. /\ gpc'[h] = gpc[h] /\ day'[h] = day[h] /\ step'[h] = step[h]
          /\ snap'[h] = snap[h] /\ result'[h] = result[h] /\ errors'[h] = errors[h]
      <3>1. CASE Invoke(g) \/ ReadSilver(g) \/ CountRows(g)
        BY <1>5, <3>1 DEF Invoke, ReadSilver, CountRows, GoldTypes, Held
      <3>2. CASE Compute(g)
        BY <1>5, <3>2 DEF Compute, GoldTypes, Held
      <3>3. CASE ComputeEmpty(g) \/ ComputeRaises(g)
        BY <1>5, <3>3 DEF ComputeEmpty, ComputeRaises, GoldTypes, Held
      <3>4. CASE Clear(g) \/ Put(g) \/ PutLast(g)
        BY <1>5, <3>4 DEF Clear, Put, PutLast, GoldTypes, Held
      <3>5. CASE WriteRaises(g)
        BY <1>5, <3>5 DEF WriteRaises, GoldTypes, Held
      <3>6. CASE GFinish(g) \/ GKill(g)
        BY <1>5, <3>6 DEF GFinish, GKill, Forget, GoldTypes, Held
      <3> QED
        BY <1>1, <3>1, <3>2, <3>3, <3>4, <3>5, <3>6 DEF GStep
    <2>2. CASE ~Running(h)
      BY <1>2, <2>1, <2>2 DEF DoneOf, Running
    <2>3. CASE Running(h)
      <3>1. Running(h)' /\ \A i \in DOMAIN Steps : Behind(h, i)' = Behind(h, i)
        BY <2>1, <2>3 DEF Running, Behind, Writing
      <3>2. h \in GRuns /\ DoneOf(h)
        BY <1>2
      <3> QED
        BY <2>1, <2>3, <3>1, <3>2, DoneStays
    <2> QED
      BY <2>2, <2>3
  <1>6. DoneOf(g)'
    <2>1. CASE Invoke(g)
      <3>1. /\ gpc[g] = "idle" /\ gpc'[g] = "read" /\ step' = step /\ result' = result
        BY <2>1 DEF Invoke, GoldTypes
      <3> QED
        BY <1>2, <3>1 DEF DoneOf, Running
    <2>2. CASE ReadSilver(g)
      <3>1. /\ gpc[g] = "read" /\ step' = step /\ result' = result
            /\ gpc'[g] = (IF Len(snap[g]) = 3 THEN "compute" ELSE "read")
        BY <2>2 DEF ReadSilver, GoldTypes
      <3>2. PICK rows : snap' = [snap EXCEPT ![g] = Append(@, rows)]
        BY <2>2 DEF ReadSilver
      <3>3. snap'[g] = Append(snap[g], rows) /\ Len(Append(snap[g], rows)) = Len(snap[g]) + 1
        BY <3>2, Appended DEF Held
      <3>4. step[g] = 1 /\ \A m \in Metrics : result[g][m] = Nothing
        BY <1>2, <3>1 DEF DoneOf, Running
      <3>5. CASE gpc'[g] = "read"
        BY <3>1, <3>4, <3>5 DEF DoneOf, Running
      <3>6. CASE gpc'[g] # "read"
        <4>1. gpc'[g] = "compute" /\ Len(snap'[g]) = 4
          <5>1. Len(snap[g]) = 3
            BY <3>1, <3>6
          <5> QED
            BY <3>1, <3>3, <5>1
        <4>2. ~Writing(g)' /\ step'[g] = 1
          BY <3>1, <3>4, <4>1 DEF Writing
        <4>3. \A i \in DOMAIN Steps : ~Behind(g, i)'
          BY <1>3, <4>2 DEF Behind
        <4> QED
          BY <1>4, <3>1, <3>4, <4>1, <4>3 DEF DoneOf, Running
      <3> QED
        BY <3>5, <3>6
    <2>3. CASE CountRows(g)
      BY <1>2, <2>3, DoneStays DEF CountRows, AtStep, Running, Behind, Writing
    <2>4. CASE Compute(g)
      <3> DEFINE mm == Metric(g)
      <3>1. PICK value \in Computed(g, mm) : result' = [result EXCEPT ![g][mm] = value]
        BY <2>4 DEF Compute
      <3>2. /\ gpc[g] = "compute" /\ gpc'[g] = "clear" /\ step[g] <= Len(Steps)
            /\ UNCHANGED <<snap, day, step, errors>>
        BY <2>4 DEF Compute, AtStep, GoldTypes
      <3>3. step[g] \in DOMAIN Steps /\ mm = Steps[step[g]] /\ mm \in Metrics
        BY <1>3, <3>2, GoldAssumption DEF Metric
      <3>4. \A m \in XMetrics : Computed(g, m)' = Computed(g, m)
        BY <3>2, ComputedSame
      <3>5. /\ result'[g][mm] = value
            /\ \A m \in Metrics : m # mm => result'[g][m] = result[g][m]
        BY <3>1, <3>3 DEF GoldTypes
      <3>6. Running(g) /\ Running(g)' /\ Len(snap'[g]) = 4
        BY <1>2, <3>2 DEF Running, DoneOf
      <3>7. \A m \in XMetrics : result'[g][m] \in Computed(g, m) \cup {Nothing}
        BY <1>2, <1>4, <3>1, <3>5, <3>6 DEF DoneOf
      <3>8. ASSUME NEW i \in DOMAIN Steps, Behind(g, i)', Steps[i] \in CountMetrics \ errors'[g]
            PROVE  result'[g][Steps[i]] \in Computed(g, Steps[i])
        <4>1. CASE Steps[i] = mm
          BY <3>1, <3>5, <4>1
        <4>2. CASE Steps[i] # mm
          <5>1. i < step[g]
            BY <3>2, <3>3, <3>8, <4>2 DEF Behind
          <5>2. Behind(g, i)
            BY <5>1 DEF Behind
          <5> QED
            BY <1>2, <1>4, <3>2, <3>5, <3>6, <3>8, <4>2, <5>2 DEF DoneOf
        <4> QED
          BY <4>1, <4>2
      <3>9. gpc'[g] \notin {"idle", "read"}
        BY <3>2
      <3> HIDE DEF mm
      <3> QED
        BY <1>4, <3>4, <3>6, <3>7, <3>8, <3>9 DEF DoneOf
    <2>5. CASE ComputeEmpty(g)
      <3>1. /\ gpc[g] = "compute" /\ step[g] <= Len(Steps) /\ step'[g] = step[g] + 1
            /\ UNCHANGED <<gpc, snap, day, result, errors>>
        BY <2>5 DEF ComputeEmpty, AtStep, GoldTypes
      <3>2. PICK value \in Computed(g, Metric(g)) : DOMAIN value = {}
        BY <2>5 DEF ComputeEmpty
      <3>3. step[g] \in DOMAIN Steps /\ Metric(g) = Steps[step[g]]
        BY <1>3, <3>1 DEF Metric
      <3>4. Running(g) /\ Running(g)'
        BY <3>1 DEF Running
      <3>5. ASSUME NEW i \in DOMAIN Steps, Behind(g, i)', Steps[i] \in CountMetrics \ errors'[g]
            PROVE  Behind(g, i) \/ result[g][Steps[i]] \in Computed(g, Steps[i])
        <4>1. i <= step[g]
          BY <1>3, <3>1, <3>5 DEF Behind, Writing
        <4>2. CASE i = step[g]
          <5>1. value = Nothing
            BY <3>2, <3>3, <3>5, <4>2, EmptyCount
          <5>2. result[g][Steps[i]] \in Computed(g, Steps[i]) \cup {Nothing}
            BY <1>2, <1>4, <3>4, <3>5 DEF DoneOf
          <5> QED
            BY <3>2, <3>3, <4>2, <5>1, <5>2
        <4>3. CASE i # step[g]
          BY <1>3, <4>1, <4>3 DEF Behind
        <4> QED
          BY <4>2, <4>3
      <3> QED
        BY <1>2, <3>1, <3>4, <3>5, DoneStays
    <2>6. CASE ComputeRaises(g) \/ WriteRaises(g)
      <3>1. /\ Running(g) /\ gpc'[g] = "compute"
            /\ step[g] <= Len(Steps) /\ step'[g] = step[g] + 1
            /\ UNCHANGED <<snap, day, result>>
            /\ errors'[g] = errors[g] \cup {Metric(g)}
        <4>1. step[g] <= Len(Steps)
          BY <2>6 DEF ComputeRaises, AtStep, WriteRaises, GoldPhases, Writing
        <4> QED
          BY <2>6, <4>1 DEF ComputeRaises, WriteRaises, AtStep, GoldTypes, Held, Running
      <3>2. Running(g)' /\ ~Writing(g)'
        BY <3>1 DEF Running, Writing
      <3>3. ASSUME NEW i \in DOMAIN Steps, Behind(g, i)', Steps[i] \in CountMetrics \ errors'[g]
            PROVE  Behind(g, i)
        <4>1. i <= step[g] /\ i # step[g]
          BY <1>3, <3>1, <3>2, <3>3 DEF Behind, Metric
        <4> QED
          BY <1>3, <4>1 DEF Behind
      <3> QED
        BY <1>2, <3>1, <3>2, <3>3, DoneStays
    <2>7. CASE Clear(g) \/ Put(g)
      <3>1. /\ Writing(g) /\ Writing(g)'
            /\ UNCHANGED <<snap, day, result, errors, step>>
        BY <2>7 DEF Clear, Put, GoldTypes, Writing
      <3>2. Running(g) /\ Running(g)'
        BY <3>1 DEF Writing, Running
      <3>3. \A i \in DOMAIN Steps : Behind(g, i)' => Behind(g, i)
        BY <3>1 DEF Behind
      <3> QED
        BY <1>2, <3>1, <3>2, <3>3, DoneStays
    <2>8. CASE PutLast(g)
      <3>1. /\ Writing(g) /\ gpc'[g] = "compute" /\ step'[g] = step[g] + 1
            /\ UNCHANGED <<snap, day, result, errors>>
        BY <2>8 DEF PutLast, GoldTypes, Writing
      <3>2. Running(g) /\ Running(g)' /\ ~Writing(g)'
        BY <3>1 DEF Writing, Running
      <3>3. \A i \in DOMAIN Steps : Behind(g, i)' => Behind(g, i)
        <4> SUFFICES ASSUME NEW i \in DOMAIN Steps, Behind(g, i)' PROVE Behind(g, i)
          OBVIOUS
        <4>1. i <= step[g]
          BY <1>3, <3>1, <3>2 DEF Behind
        <4> QED
          BY <1>3, <3>1, <4>1 DEF Behind
      <3> QED
        BY <1>2, <3>1, <3>2, <3>3, DoneStays
    <2>9. CASE GFinish(g) \/ GKill(g)
      <3>1. gpc'[g] \in GEnded /\ result'[g] = [m \in Metrics |-> Nothing]
        BY <2>9 DEF GFinish, GKill, Forget, GoldTypes, GEnded
      <3> QED
        BY <3>1 DEF DoneOf, Running, GEnded
    <2> QED
      BY <1>1, <2>1, <2>2, <2>3, <2>4, <2>5, <2>6, <2>7, <2>8, <2>9 DEF GStep
  <1> QED
    BY <1>5, <1>6 DEF Done, DoneOf

LEMMA DoneInvariance == Spec => []Done
  <1>1. GoldTypes /\ GoldInv /\ Held /\ Done /\ [Next]_vars => Done'
    <2> SUFFICES ASSUME GoldTypes, GoldInv, Held, Done, [Next]_vars PROVE Done'
      OBVIOUS
    <2>1. CASE GNext
      BY <2>1, NextDone DEF GoldInv
    <2>2. CASE UNCHANGED gvars
      <3>1. \A g \in GRuns, m \in XMetrics : Computed(g, m)' = Computed(g, m)
        BY <2>2, ComputedSame DEF gvars
      <3>2. CountMetrics \subseteq XMetrics
        BY DEF CountMetrics, XMetrics
      <3> QED
        BY <2>2, <3>1, <3>2 DEF gvars, Done, Running, Behind, Writing
    <2> QED
      BY <2>1, <2>2 DEF Next, Normalize, Analyze, vars
  <1> QED
    BY <1>1, InitHeld, GoldInvariance, HeldInvariance, PTL DEF Spec
-----------------------------------------------------------------------------
(***************************************************************************)
(* What a read returns                                                     *)
(***************************************************************************)

\* The order of keys, and that of places, are total.
LEMMA KeyOrder ==
    ASSUME NEW k \in Keys, NEW l \in Keys, NEW j \in Keys
    PROVE  /\ ~Before(k, k)
           /\ Before(k, l) /\ Before(l, j) => Before(k, j)
           /\ Before(k, l) => ~Before(l, k)
           /\ k = l \/ Before(k, l) \/ Before(l, k)
  <1> DEFINE S == XSources \cup {"hn"}
  <1>1. \A s \in S : Rank(s) \in Nat
    BY DEF XSources, Rank
  <1>2. \A s, t \in S : Rank(s) = Rank(t) => s = t
    BY DEF XSources, Rank
  <1>3. \A x \in {k, l, j} : x = <<x[1], x[2]>> /\ x[1] \in Nat /\ x[2] \in S
    <2>1. \A x \in Days \X S : x = <<x[1], x[2]>> /\ x[1] \in Days /\ x[2] \in S
      OBVIOUS
    <2> QED
      BY <2>1, DaysAssumption DEF Keys
  <1> HIDE DEF S
  <1>4. \A x \in {k, l, j} : x[1] \in Nat /\ Rank(x[2]) \in Nat
    BY <1>1, <1>3
  <1>5. \A x, y \in {k, l, j} : x[1] = y[1] /\ Rank(x[2]) = Rank(y[2]) => x = y
    BY <1>2, <1>3
  <1> QED
    BY <1>4, <1>5 DEF Before

\* Places: a key and a natural number.
IsPlace(e) == e[1] \in Keys /\ e[2] \in Nat /\ e = <<e[1], e[2]>>

LEMMA PlaceOrder ==
    ASSUME NEW e, NEW f, NEW h, IsPlace(e), IsPlace(f), IsPlace(h)
    PROVE  /\ ~ReadBefore(e, e)
           /\ ReadBefore(e, f) /\ ReadBefore(f, h) => ReadBefore(e, h)
           /\ e = f \/ ReadBefore(e, f) \/ ReadBefore(f, e)
  <1>1. ~Before(e[1], e[1])
    BY KeyOrder DEF IsPlace
  <1>2. Before(e[1], f[1]) /\ Before(f[1], h[1]) => Before(e[1], h[1])
    BY KeyOrder DEF IsPlace
  <1>3. e[1] = f[1] \/ Before(e[1], f[1]) \/ Before(f[1], e[1])
    BY KeyOrder DEF IsPlace
  <1>4. e[2] \in Nat /\ f[2] \in Nat /\ h[2] \in Nat
    BY DEF IsPlace
  <1>5. ~ReadBefore(e, e)
    BY <1>1, <1>4 DEF ReadBefore
  <1>6. ReadBefore(e, f) /\ ReadBefore(f, h) => ReadBefore(e, h)
    BY <1>2, <1>4 DEF ReadBefore
  <1>7. e = f \/ ReadBefore(e, f) \/ ReadBefore(f, e)
    BY <1>3, <1>4 DEF ReadBefore, IsPlace
  <1> QED
    BY <1>5, <1>6, <1>7

LEMMA AllPlaces ==
    ASSUME SilverTypes, NothingClobbered, Held,
           NEW tab \in SilverTableNames, NEW keys \in SUBSET Keys, NEW e \in Places(tab, keys)
    PROVE  IsPlace(e) /\ e[1] \in keys /\ e[2] \in DOMAIN silver[tab][e[1]]
  <1>1. PICK k \in keys : e \in {k} \X DOMAIN silver[tab][k]
    BY DEF Places
  <1>2. DOMAIN silver[tab][k] \subseteq Nat
    BY SilverFinite
  <1> QED
    BY <1>1, <1>2 DEF IsPlace

\* Of the rows with one primary key, a read keeps one and one only.
LEMMA KeptOne ==
    ASSUME SilverTypes, NothingClobbered, Held,
           NEW tab \in SilverTableNames, HasPrimaryKey(tab), NEW keys \in SUBSET Keys
    PROVE  /\ \A e \in Places(tab, keys) :
                  \E f \in KeptPlaces(tab, keys) : RowAt(tab, f).id = RowAt(tab, e).id
           /\ \A e, f \in KeptPlaces(tab, keys) : RowAt(tab, f).id = RowAt(tab, e).id => e = f
  <1> DEFINE P == Places(tab, keys)
  <1>1. \A e \in P : IsPlace(e)
    BY AllPlaces
  <1>2. IsFiniteSet(P)
    BY PlacesFinite
  <1>3. ASSUME NEW e \in P
        PROVE  \E f \in KeptPlaces(tab, keys) : RowAt(tab, f).id = RowAt(tab, e).id
    <2> DEFINE S == {f \in P : RowAt(tab, f).id = RowAt(tab, e).id}
               R == {w \in P \X P : ReadBefore(w[1], w[2])}
    <2>1. IsFiniteSet(S) /\ S # {} /\ S \subseteq P
      BY <1>2, FS_Subset
    <2>2. \A f, h \in P : <<f, h>> \in R <=> ReadBefore(f, h)
      OBVIOUS
    <2>3. /\ \A f \in S : <<f, f>> \notin R
          /\ \A f, h, j \in S : <<f, h>> \in R /\ <<h, j>> \in R => <<f, j>> \in R
      BY <1>1, <2>1, <2>2, PlaceOrder
    <2>4. PICK f \in S : \A h \in S : <<f, h>> \notin R
      <3> HIDE DEF S, R
      <3> QED
        BY <2>1, <2>3, FiniteMax
    <2>5. \A h \in P : ReadBefore(f, h) => RowAt(tab, h).id # RowAt(tab, f).id
      BY <2>1, <2>2, <2>4
    <2>6. f \in KeptPlaces(tab, keys)
      BY <2>5 DEF KeptPlaces
    <2> QED
      BY <2>6
  <1>4. ASSUME NEW e \in KeptPlaces(tab, keys), NEW f \in KeptPlaces(tab, keys),
               RowAt(tab, f).id = RowAt(tab, e).id
        PROVE  e = f
    <2>1. e \in P /\ f \in P /\ ~ReadBefore(e, f) /\ ~ReadBefore(f, e)
      BY <1>4 DEF KeptPlaces
    <2> QED
      BY <1>1, <2>1, PlaceOrder
  <1> QED
    BY <1>3, <1>4

\* So a read returns rows of every primary key there is, and one for each.
LEMMA ReadOne ==
    ASSUME SilverTypes, NothingClobbered, Held,
           NEW tab \in SilverTableNames, HasPrimaryKey(tab), NEW keys \in SUBSET Keys
    PROVE  /\ \A r \in ReadRows(tab, keys) : \E e \in KeptPlaces(tab, keys) : r = RowAt(tab, e)
           /\ \A e \in KeptPlaces(tab, keys) : e \in Places(tab, keys) /\ RowAt(tab, e) \in ReadRows(tab, keys)
           /\ \A e \in Places(tab, keys) :
                  \E r \in ReadRows(tab, keys) : r.id = RowAt(tab, e).id
           /\ \A r, q \in ReadRows(tab, keys) : r.id = q.id => r = q
           /\ IsFiniteSet(ReadRows(tab, keys))
  <1> DEFINE K == KeptPlaces(tab, keys)
             at_ == [e \in K |-> RowAt(tab, e)]
  <1>1. ReadRows(tab, keys) = {RowAt(tab, e) : e \in K} /\ K \subseteq Places(tab, keys)
    BY DEF ReadRows, KeptPlaces
  <1>2. IsFiniteSet(K)
    BY <1>1, PlacesFinite, FS_Subset
  <1>3. IsFiniteSet({at_[e] : e \in K})
    <2>1. K \subseteq DOMAIN at_
      OBVIOUS
    <2> HIDE DEF K, at_
    <2> QED
      BY <1>2, <2>1, FiniteImage
  <1>4. {at_[e] : e \in K} = ReadRows(tab, keys)
    BY <1>1
  <1> HIDE DEF K, at_
  <1>5. \A e \in Places(tab, keys) : \E f \in K : RowAt(tab, f).id = RowAt(tab, e).id
    BY KeptOne DEF K
  <1>6. \A e, f \in K : RowAt(tab, f).id = RowAt(tab, e).id => e = f
    BY KeptOne DEF K
  <1> QED
    BY <1>1, <1>3, <1>4, <1>5, <1>6 DEF K
-----------------------------------------------------------------------------
(***************************************************************************)
(* The tables of X, when Silver holds what the uploaded files make of it   *)
(***************************************************************************)

Version(k) == chunk[k[1]][k[2]]
File(k) == Posted[k][Version(k)]

\* What Silver is when it has settled, key by key.
LEMMA SettledObjects ==
    ASSUME SilverTypes, NothingClobbered, Held, Settled, NEW k \in XKeys
    PROVE  /\ k \in Keys /\ Version(k) \in Nat
           /\ Version(k) = 0 => silver["posts"][k] = <<>> /\ silver["users"][k] = <<>>
           /\ Version(k) # 0 =>
                  /\ Version(k) \in Uploads(k)
                  /\ silver["posts"][k] = [i \in DOMAIN File(k) |-> PostRow(File(k)[i])]
                  /\ silver["users"][k] = UserRows(File(k))
  <1>1. k \in Keys /\ k[1] \in Days /\ k[2] \in XSources
    BY KeysOfX DEF XKeys
  <1>2. Version(k) \in Nat /\ Version(k) <= Len(Csv[k[1]][k[2]]) /\ Len(Csv[k[1]][k[2]]) \in Nat
    BY <1>1, PostedRows DEF SilverTypes, Held, Version
  <1>3. {"posts", "users"} \subseteq SilverTableNames
    BY DEF SilverTableNames
  <1>4. ASSUME Version(k) = 0, NEW tab \in {"posts", "users"} PROVE silver[tab][k] = <<>>
    <2>1. \A n \in XNorms : took[n][k] = 0
      BY <1>1, <1>4 DEF Held, SilverTypes, Version
    <2> QED
      BY <1>3, <2>1 DEF NothingClobbered
  <1>5. ASSUME Version(k) # 0
        PROVE  /\ Version(k) \in Uploads(k)
               /\ silver["posts"][k] = [i \in DOMAIN File(k) |-> PostRow(File(k)[i])]
               /\ silver["users"][k] = UserRows(File(k))
    <2>1. Version(k) \in Uploads(k)
      BY <1>2, <1>5 DEF Uploads
    <2>2. DOMAIN Csv[k[1]][k[2]] = Uploads(k)
      BY <1>1, XAssumption DEF Uploads
    <2>3. \A tab \in {"posts", "users"} : silver[tab][k] = TableOf(k, Version(k), tab)
      BY <1>5 DEF Settled, Version
    <2>4. \A tab \in SilverTableNames : TableOf(k, Version(k), tab) = Rows(File(k), tab)
      BY <2>1, <2>2 DEF TableOf, Tables, File
    <2>5. Rows(File(k), "posts") = [i \in DOMAIN File(k) |-> PostRow(File(k)[i])]
      BY DEF Rows
    <2>6. Rows(File(k), "users") = UserRows(File(k))
      BY DEF Rows
    <2> QED
      BY <1>3, <2>1, <2>3, <2>4, <2>5, <2>6
  <1> QED
    BY <1>1, <1>2, <1>4, <1>5

\* The rows of the files that are there, by their entries.
LEMMA EntryRows ==
    ASSUME SilverTypes, NothingClobbered, Held, Settled, NEW keys \in SUBSET Keys
    PROVE  /\ \A e : e \in Entries(keys) <=>
                  /\ e[1] \in keys /\ e[1] \in XKeys /\ Version(e[1]) # 0
                  /\ e = <<e[1], e[2]>> /\ e[2] \in DOMAIN File(e[1])
           /\ \A e \in Entries(keys) : IsPlace(e) /\ Row(e) = File(e[1])[e[2]] /\ IsCsvRow(Row(e))
           /\ \A e \in Entries(keys) : e \in Entries(Keys)
  <1>1. \A e : e \in Entries(keys) <=>
            /\ e[1] \in keys /\ e[1] \in XKeys /\ Version(e[1]) # 0
            /\ e = <<e[1], e[2]>> /\ e[2] \in DOMAIN File(e[1])
    BY DEF Entries, Version, File
  <1>2. ASSUME NEW e \in Entries(keys)
        PROVE  IsPlace(e) /\ Row(e) = File(e[1])[e[2]] /\ IsCsvRow(Row(e))
    <2>1. e[1] \in XKeys /\ Version(e[1]) # 0 /\ e = <<e[1], e[2]>> /\ e[2] \in DOMAIN File(e[1])
      BY <1>1
    <2>2. Version(e[1]) \in Uploads(e[1]) /\ e[1] \in Keys
      BY <2>1, SettledObjects
    <2>3. e[2] \in Nat /\ IsCsvRow(File(e[1])[e[2]])
      BY <2>1, <2>2, PostedRows DEF File
    <2>4. Row(e) = File(e[1])[e[2]]
      BY DEF Row, File, Version
    <2> QED
      BY <2>1, <2>2, <2>3, <2>4 DEF IsPlace
  <1>3. \A e \in Entries(keys) : e \in Entries(Keys)
    BY DEF Entries
  <1> QED
    BY <1>1, <1>2, <1>3

\* The places of posts: those of X are the entries, the others are of Hacker News.
LEMMA PostPlaces ==
    ASSUME SilverTypes, NothingClobbered, Held, Settled, NEW keys \in SUBSET Keys
    PROVE  /\ \A e \in Entries(keys) :
                  e \in Places("posts", keys) /\ RowAt("posts", e) = PostRow(Row(e))
           /\ \A e \in Places("posts", keys) :
                  \/ e \in Entries(keys)
                  \/ /\ RowAt("posts", e).platform = "HackerNews"
                     /\ \A f \in Entries(Keys) : RowAt("posts", e).id # PostId(Row(f))
  <1>1. "posts" \in SilverTableNames
    BY DEF SilverTableNames
  <1>2. ASSUME NEW e \in Entries(keys)
        PROVE  e \in Places("posts", keys) /\ RowAt("posts", e) = PostRow(Row(e))
    <2>1. /\ e[1] \in keys /\ e[1] \in XKeys /\ Version(e[1]) # 0
          /\ e = <<e[1], e[2]>> /\ e[2] \in DOMAIN File(e[1]) /\ Row(e) = File(e[1])[e[2]]
      BY EntryRows
    <2>2. silver["posts"][e[1]] = [i \in DOMAIN File(e[1]) |-> PostRow(File(e[1])[i])]
      BY <2>1, SettledObjects
    <2> QED
      BY <2>1, <2>2 DEF Places, RowAt
  <1>3. ASSUME NEW e \in Places("posts", keys), e[1] \in XKeys
        PROVE  e \in Entries(keys)
    <2>1. e[1] \in keys /\ e[2] \in DOMAIN silver["posts"][e[1]] /\ e = <<e[1], e[2]>>
      BY <1>1, AllPlaces DEF IsPlace
    <2>2. Version(e[1]) # 0
      <3>1. DOMAIN <<>> = {}
        OBVIOUS
      <3> QED
        BY <1>3, <2>1, <3>1, SettledObjects
    <2>3. DOMAIN silver["posts"][e[1]] = DOMAIN File(e[1])
      BY <1>3, <2>2, SettledObjects
    <2> QED
      BY <1>3, <2>1, <2>2, <2>3, EntryRows
  <1>4. ASSUME NEW e \in Places("posts", keys), e[1] \notin XKeys
        PROVE  /\ RowAt("posts", e).platform = "HackerNews"
               /\ \A f \in Entries(Keys) : RowAt("posts", e).id # PostId(Row(f))
    <2>1. IsPlace(e) /\ e[2] \in DOMAIN silver["posts"][e[1]]
      BY <1>1, AllPlaces
    <2>2. PICK d \in Days : e[1] = <<d, "hn">>
      BY <1>4, <2>1 DEF IsPlace, Keys, XKeys
    <2>3. silver["posts"][e[1]] = HNFiles["posts"][d]
      BY <1>1, <2>2 DEF Held
    <2>4. RowAt("posts", e) \in Range(HNFiles["posts"][d])
      BY <2>1, <2>3 DEF RowAt, Range
    <2>5. RowAt("posts", e).platform = "HackerNews"
      BY <2>4, HNAssumption
    <2>6. ASSUME NEW f \in Entries(Keys) PROVE RowAt("posts", e).id # PostId(Row(f))
      <3>1. /\ f[1] \in XKeys /\ Version(f[1]) # 0
            /\ f[2] \in DOMAIN File(f[1]) /\ Row(f) = File(f[1])[f[2]]
        BY EntryRows
      <3>2. Version(f[1]) \in DOMAIN Posted[f[1]]
        BY <3>1, SettledObjects, PostedRows
      <3> QED
        BY <2>4, <3>1, <3>2, HNAssumption DEF File
    <2> QED
      BY <2>5, <2>6
  <1> QED
    BY <1>2, <1>3, <1>4

\* What a read of posts returns of X: a row for each post of the entries, with
\* its author and date, and one only.
LEMMA PostsRead ==
    ASSUME SilverTypes, NothingClobbered, Held, Settled, NEW keys \in SUBSET Keys
    PROVE  LET rows == Of(ReadRows("posts", keys), "X")
           IN  /\ \A r \in rows : \E e \in Entries(keys) : r = PostRow(Row(e))
               /\ \A e \in Entries(keys) :
                      \E r \in rows :
                          /\ r.id = PostId(Row(e))
                          /\ r.author = UserId[Row(e).user] /\ r.at = Row(e).at
               /\ \A r, q \in rows : r.id = q.id => r = q
               /\ IsFiniteSet(rows)
  <1> DEFINE all == ReadRows("posts", keys)
             rows == Of(all, "X")
  <1>1. "posts" \in SilverTableNames /\ HasPrimaryKey("posts")
    BY DEF SilverTableNames, HasPrimaryKey
  <1>2. rows \subseteq all /\ IsFiniteSet(all)
    BY <1>1, ReadOne DEF Of
  <1>3. \A r, q \in rows : r.id = q.id => r = q
    BY <1>1, <1>2, ReadOne
  <1>4. ASSUME NEW r \in all
        PROVE  \/ \E e \in Entries(keys) : r = PostRow(Row(e))
               \/ r.platform = "HackerNews" /\ \A f \in Entries(Keys) : r.id # PostId(Row(f))
    <2>1. PICK e \in Places("posts", keys) : r = RowAt("posts", e)
      BY <1>1, ReadOne
    <2> QED
      BY <2>1, PostPlaces
  <1>5. ASSUME NEW r \in rows PROVE \E e \in Entries(keys) : r = PostRow(Row(e))
    <2>1. r \in all /\ r.platform = "X"
      BY DEF Of
    <2> QED
      BY <1>4, <2>1
  <1>6. ASSUME NEW e \in Entries(keys)
        PROVE  \E r \in rows :
                   /\ r.id = PostId(Row(e))
                   /\ r.author = UserId[Row(e).user] /\ r.at = Row(e).at
    <2>1. e \in Places("posts", keys) /\ RowAt("posts", e).id = PostId(Row(e))
      BY PostPlaces DEF PostRow
    <2>2. PICK r \in all : r.id = PostId(Row(e))
      BY <1>1, <2>1, ReadOne
    <2>3. PICK f \in Entries(keys) : r = PostRow(Row(f))
      BY <1>4, <2>2, EntryRows
    <2>4. PostId(Row(f)) = PostId(Row(e)) /\ r.platform = "X"
      BY <2>2, <2>3 DEF PostRow
    <2>5. Row(f).user = Row(e).user /\ Row(f).at = Row(e).at
      BY <2>4 DEF PostId
    <2>6. r.author = UserId[Row(e).user] /\ r.at = Row(e).at
      BY <2>3, <2>5 DEF PostRow
    <2> QED
      BY <2>2, <2>4, <2>6 DEF Of
  <1>7. IsFiniteSet(rows)
    BY <1>2, FS_Subset
  <1> QED
    BY <1>3, <1>5, <1>6, <1>7

\* The last row of a name in a file, and the place where the name first appears.
Newest(csv, name, i) ==
    \A j \in PlacesOf(csv, name) :
        \/ csv[j].at < csv[i].at
        \/ csv[j].at = csv[i].at /\ j <= i

LEMMA NameRows ==
    ASSUME NEW csv, IsFiniteSet(DOMAIN csv), DOMAIN csv \subseteq Nat,
           \A i \in DOMAIN csv : IsCsvRow(csv[i]),
           NEW name, PlacesOf(csv, name) # {}
    PROVE  /\ LatestPlace(csv, name) \in PlacesOf(csv, name)
           /\ Newest(csv, name, LatestPlace(csv, name))
           /\ \A i \in PlacesOf(csv, name) : Newest(csv, name, i) => i = LatestPlace(csv, name)
           /\ \E i \in PlacesOf(csv, name) : \A j \in PlacesOf(csv, name) : i <= j
  <1> DEFINE P == PlacesOf(csv, name)
             older(i, j) == csv[i].at < csv[j].at \/ (csv[i].at = csv[j].at /\ i < j)
             R == {w \in P \X P : older(w[1], w[2])}
             Q == {w \in P \X P : w[2] < w[1]}
  <1>1. P \subseteq DOMAIN csv /\ P \subseteq Nat /\ IsFiniteSet(P)
    BY FS_Subset DEF PlacesOf
  <1>2. \A i \in P : i \in Nat /\ csv[i].at \in Int
    BY <1>1 DEF IsCsvRow, Unknown
  <1>3. /\ \A i, j \in P : <<i, j>> \in R <=> older(i, j)
        /\ \A i, j \in P : <<i, j>> \in Q <=> j < i
    OBVIOUS
  <1>4. /\ \A i \in P : ~older(i, i)
        /\ \A i, j, l \in P : older(i, j) /\ older(j, l) => older(i, l)
        /\ \A i, j \in P : ~older(i, j) <=> (csv[j].at < csv[i].at \/ (csv[j].at = csv[i].at /\ j <= i))
    BY <1>2
  <1> HIDE DEF R, Q, older
  <1>5. PICK i \in P : \A j \in P : <<i, j>> \notin R
    <2> HIDE DEF P
    <2>1. /\ \A e \in P : <<e, e>> \notin R
          /\ \A e, f, h \in P : <<e, f>> \in R /\ <<f, h>> \in R => <<e, h>> \in R
      BY <1>3, <1>4
    <2>2. P # {}
      BY DEF P
    <2> QED
      BY <1>1, <2>1, <2>2, FiniteMax
  <1>6. Newest(csv, name, i)
    BY <1>3, <1>4, <1>5 DEF Newest
  <1>7. \A l \in P : Newest(csv, name, l) => \A j \in P : ~older(l, j)
    BY <1>4 DEF Newest
  <1>8. \A l, j \in P : ~older(l, j) /\ ~older(j, l) => l = j
    BY <1>2 DEF older
  <1>9. \A l, j \in P : Newest(csv, name, l) /\ Newest(csv, name, j) => l = j
    BY <1>7, <1>8
  <1>10. LatestPlace(csv, name) = CHOOSE l \in P : Newest(csv, name, l)
    BY DEF LatestPlace, Newest
  <1>11. LatestPlace(csv, name) \in P /\ Newest(csv, name, LatestPlace(csv, name))
    <2> HIDE DEF P
    <2> QED
      BY <1>6, <1>10
  <1>12. \E l \in P : \A j \in P : l <= j
    <2>1. PICK l \in P : \A j \in P : <<l, j>> \notin Q
      <3> HIDE DEF P
      <3>1. /\ \A e \in P : <<e, e>> \notin Q
            /\ \A e, f, h \in P : <<e, f>> \in Q /\ <<f, h>> \in Q => <<e, h>> \in Q
        BY <1>2, <1>3
      <3>2. P # {}
        BY DEF P
      <3> QED
        BY <1>1, <3>1, <3>2, FiniteMax
    <2>2. \A j \in P : ~(j < l)
      BY <1>3, <2>1
    <2> QED
      BY <1>2, <2>2
  <1> QED
    BY <1>9, <1>11, <1>12

\* The history of a user: the entries of the user, whatever the spelling.
History(u) == {e \in Entries(Keys) : UserId[Row(e).user] = u}

LEMMA EntriesFinite ==
    ASSUME SilverTypes, NothingClobbered, Held, Settled
    PROVE  IsFiniteSet(Entries(Keys))
  <1>1. Entries(Keys) \subseteq Places("posts", Keys)
    BY PostPlaces
  <1>2. IsFiniteSet(Places("posts", Keys))
    BY PlacesFinite DEF SilverTableNames
  <1> QED
    BY <1>1, <1>2, FS_Subset

\* A history that is not empty has one last entry.
LEMMA LastEntry ==
    ASSUME SilverTypes, NothingClobbered, Held, Settled,
           NEW H, H \subseteq Entries(Keys), H # {}
    PROVE  \E e \in H : LastRow(H) = Row(e) /\ \A f \in H : Later(e, f)
  <1> DEFINE older(e, f) == \/ Before(e[1], f[1])
                            \/ e[1] = f[1] /\ Row(e).at < Row(f).at
                            \/ e[1] = f[1] /\ Row(e).at = Row(f).at /\ e[2] < f[2]
             R == {w \in H \X H : older(w[1], w[2])}
  <1>1. IsFiniteSet(H)
    BY EntriesFinite, FS_Subset
  <1>2. \A e \in H : e[1] \in Keys /\ e[2] \in Nat /\ Row(e).at \in Int
    BY EntryRows DEF IsPlace, IsCsvRow, Unknown
  <1>3. \A e, f \in H : <<e, f>> \in R <=> older(e, f)
    OBVIOUS
  <1>4. \A e \in H : ~older(e, e)
    BY <1>2, KeyOrder
  <1>5. \A e, f, h \in H : older(e, f) /\ older(f, h) => older(e, h)
    BY <1>2, KeyOrder
  <1>6. \A e, f \in H : ~older(e, f) => Later(e, f)
    BY <1>2, KeyOrder DEF Later
  <1> HIDE DEF R, older
  <1>7. PICK e \in H : \A f \in H : <<e, f>> \notin R
    <2>1. /\ \A x \in H : <<x, x>> \notin R
          /\ \A x, f, h \in H : <<x, f>> \in R /\ <<f, h>> \in R => <<x, h>> \in R
      BY <1>3, <1>4, <1>5
    <2> QED
      BY <1>1, <2>1, FiniteMax
  <1>8. \A f \in H : Later(e, f)
    BY <1>3, <1>6, <1>7
  <1>9. LET c == CHOOSE x \in H : \A f \in H : Later(x, f)
        IN  c \in H /\ \A f \in H : Later(c, f)
    BY <1>8
  <1> QED
    BY <1>9 DEF LastRow

\* The places of users of X: each of a name where it first appears, with the last
\* row of the name, which is an entry.
LEMMA UserPlaces ==
    ASSUME SilverTypes, NothingClobbered, Held, Settled,
           NEW f \in Places("users", {k \in Keys : k[2] # "hn"})
    PROVE  /\ f[1] \in XKeys /\ IsPlace(f) /\ f[2] \in DOMAIN File(f[1])
           /\ \A l \in PlacesOf(File(f[1]), File(f[1])[f[2]].user) : f[2] <= l
           /\ \E e \in Entries(Keys) :
                  /\ e[1] = f[1] /\ RowAt("users", f) = UserRow(Row(e))
                  /\ Row(e).user = File(f[1])[f[2]].user
  <1> DEFINE k == f[1]
             csv == File(k)
             name == csv[f[2]].user
             i == LatestPlace(csv, name)
             e == <<k, i>>
  <1>1. "users" \in SilverTableNames /\ {j \in Keys : j[2] # "hn"} \subseteq XKeys
    BY DEF SilverTableNames, Keys, XKeys
  <1>2. IsPlace(f) /\ f[2] \in DOMAIN silver["users"][k] /\ k \in XKeys
    BY <1>1, AllPlaces
  <1>3. Version(k) # 0
    <2>1. DOMAIN <<>> = {}
      OBVIOUS
    <2> QED
      BY <1>2, <2>1, SettledObjects
  <1>4. silver["users"][k] = UserRows(csv) /\ Version(k) \in Uploads(k)
    BY <1>2, <1>3, SettledObjects
  <1>5. /\ DOMAIN csv \subseteq Nat /\ IsFiniteSet(DOMAIN csv)
        /\ \A j \in DOMAIN csv : IsCsvRow(csv[j])
    BY <1>2, <1>4, PostedRows DEF File
  <1>6. /\ f[2] \in DOMAIN csv
        /\ \A l \in PlacesOf(csv, name) : f[2] <= l
        /\ RowAt("users", f) = UserRow(csv[i])
    <2> HIDE DEF csv
    <2> QED
      BY <1>2, <1>4 DEF UserRows, RowAt
  <1>7. PlacesOf(csv, name) # {}
    BY <1>6 DEF PlacesOf
  <1>8. i \in PlacesOf(csv, name)
    <2> HIDE DEF csv, name
    <2> QED
      BY <1>5, <1>7, NameRows
  <1>9. i \in DOMAIN csv /\ csv[i].user = name
    BY <1>8 DEF PlacesOf
  <1>10. e \in Entries(Keys) /\ Row(e) = csv[i]
    BY <1>2, <1>3, <1>9, EntryRows, KeysOfX
  <1> QED
    BY <1>2, <1>6, <1>9, <1>10

\* What a read of the users of X returns: for each user in the files one row,
\* which is that of the last entry of the user.
LEMMA UsersRead ==
    ASSUME SilverTypes, NothingClobbered, Held, Settled, OneSpelling
    PROVE  LET rows == ReadRows("users", {k \in Keys : k[2] # "hn"})
           IN  /\ \A e \in Entries(Keys) : UserRow(LastRow(History(UserId[Row(e).user]))) \in rows
               /\ \A r \in rows :
                      \E e \in Entries(Keys) :
                          /\ r.id = UserId[Row(e).user]
                          /\ r = UserRow(LastRow(History(UserId[Row(e).user])))
               /\ \A r, q \in rows : r.id = q.id => r = q
               /\ IsFiniteSet(rows)
  <1> DEFINE keys == {k \in Keys : k[2] # "hn"}
             rows == ReadRows("users", keys)
             last(u) == UserRow(LastRow(History(u)))
  <1>1. "users" \in SilverTableNames /\ HasPrimaryKey("users") /\ keys \in SUBSET Keys
    BY DEF SilverTableNames, HasPrimaryKey
  <1>2. \A r, q \in rows : r.id = q.id => r = q
    BY <1>1, ReadOne
  <1>3. IsFiniteSet(rows)
    BY <1>1, ReadOne
  <1>4. ASSUME NEW u, History(u) # {}
        PROVE  last(u) \in rows /\ last(u).id = u
    <2>1. History(u) \subseteq Entries(Keys)
      BY DEF History
    <2>2. PICK e \in History(u) : LastRow(History(u)) = Row(e) /\ \A f \in History(u) : Later(e, f)
      BY <1>4, <2>1, LastEntry
    <2> DEFINE k == e[1]
               csv == File(k)
               name == Row(e).user
    <2>3. e \in Entries(Keys) /\ UserId[name] = u
      BY <2>2 DEF History
    <2>4. /\ k \in XKeys /\ k \in Keys /\ Version(k) # 0 /\ e = <<k, e[2]>> /\ IsPlace(e)
          /\ e[2] \in DOMAIN csv /\ Row(e) = csv[e[2]]
      BY <2>3, EntryRows DEF IsPlace
    <2>5. silver["users"][k] = UserRows(csv) /\ Version(k) \in Uploads(k)
      BY <2>4, SettledObjects
    <2>6. /\ DOMAIN csv \subseteq Nat /\ IsFiniteSet(DOMAIN csv)
          /\ \A j \in DOMAIN csv : IsCsvRow(csv[j])
      BY <2>4, <2>5, PostedRows DEF File
    <2>7. e[2] \in PlacesOf(csv, name)
      BY <2>4 DEF PlacesOf
    <2>8. \A j \in PlacesOf(csv, name) : <<k, j>> \in History(u) /\ Row(<<k, j>>) = csv[j]
      <3> SUFFICES ASSUME NEW j \in PlacesOf(csv, name)
                   PROVE  <<k, j>> \in History(u) /\ Row(<<k, j>>) = csv[j]
        OBVIOUS
      <3>1. j \in DOMAIN csv /\ csv[j].user = name
        BY DEF PlacesOf
      <3>2. <<k, j>> \in Entries(Keys) /\ Row(<<k, j>>) = csv[j]
        BY <2>4, <3>1, EntryRows
      <3> QED
        BY <2>3, <3>1, <3>2 DEF History
    <2>9. Newest(csv, name, e[2])
      <3> SUFFICES ASSUME NEW j \in PlacesOf(csv, name)
                   PROVE  \/ csv[j].at < csv[e[2]].at
                          \/ csv[j].at = csv[e[2]].at /\ j <= e[2]
        BY DEF Newest
      <3>1. Later(e, <<k, j>>) /\ Row(<<k, j>>) = csv[j]
        BY <2>2, <2>8
      <3>2. ~Before(k, k)
        BY <2>4, KeyOrder
      <3> QED
        BY <2>4, <3>1, <3>2 DEF Later
    <2>10. e[2] = LatestPlace(csv, name)
      <3> HIDE DEF csv, name
      <3> QED
        BY <2>6, <2>7, <2>9, NameRows
    <2>11. PICK i \in PlacesOf(csv, name) : \A j \in PlacesOf(csv, name) : i <= j
      <3> HIDE DEF csv, name
      <3> QED
        BY <2>6, <2>7, NameRows
    <2>12. i \in DOMAIN csv /\ csv[i].user = name /\ i \in Nat
      BY <2>6, <2>11 DEF PlacesOf
    <2> DEFINE p == <<k, i>>
    <2>13. i \in DOMAIN silver["users"][k] /\ silver["users"][k][i] = UserRow(Row(e))
      <3>1. i \in {j \in DOMAIN csv : \A l \in PlacesOf(csv, csv[j].user) : j <= l}
        BY <2>11, <2>12
      <3>2. UserRows(csv)[i] = UserRow(csv[LatestPlace(csv, csv[i].user)])
        BY <3>1 DEF UserRows
      <3> QED
        BY <2>4, <2>5, <2>10, <2>12, <3>1, <3>2 DEF UserRows
    <2>14. k \in keys
      BY <2>4 DEF XKeys, XSources
    <2>15. p \in Places("users", keys) /\ RowAt("users", p) = UserRow(Row(e)) /\ IsPlace(p)
      BY <2>4, <2>12, <2>13, <2>14 DEF Places, RowAt, IsPlace
    <2>16. UserRow(Row(e)).id = u
      BY <2>3 DEF UserRow
    <2>17. ASSUME NEW f \in Places("users", keys), ReadBefore(p, f), RowAt("users", f).id = u
           PROVE  FALSE
      <3>1. /\ f[1] \in XKeys /\ IsPlace(f) /\ f[2] \in DOMAIN File(f[1])
            /\ \A l \in PlacesOf(File(f[1]), File(f[1])[f[2]].user) : f[2] <= l
        BY UserPlaces
      <3>2. PICK h \in Entries(Keys) :
                /\ h[1] = f[1] /\ RowAt("users", f) = UserRow(Row(h))
                /\ Row(h).user = File(f[1])[f[2]].user
        BY UserPlaces
      <3>3. h \in History(u)
        BY <2>17, <3>2 DEF UserRow, History
      <3>4. Before(h[1], k) \/ h[1] = k
        BY <2>2, <3>3 DEF Later
      <3>5. Before(k, h[1]) \/ (h[1] = k /\ i < f[2])
        BY <2>17, <3>2 DEF ReadBefore
      <3>6. ~Before(k, k) /\ ~(Before(h[1], k) /\ Before(k, h[1]))
        BY <2>4, <3>1, <3>2, KeyOrder DEF IsPlace
      <3>7. h[1] = k /\ f[1] = k /\ i < f[2]
        BY <3>2, <3>4, <3>5, <3>6
      <3>8. UserId[Row(h).user] = u
        BY <3>3 DEF History
      <3>9. Row(h).user = name
        BY <2>3, <3>7, <3>8 DEF OneSpelling
      <3>10. i \in PlacesOf(File(f[1]), File(f[1])[f[2]].user)
        BY <2>11, <3>2, <3>7, <3>9
      <3> QED
        BY <2>12, <3>1, <3>7, <3>10 DEF IsPlace
    <2>18. p \in KeptPlaces("users", keys)
      BY <2>15, <2>16, <2>17 DEF KeptPlaces
    <2>19. UserRow(Row(e)) \in rows
      BY <2>15, <2>18 DEF ReadRows
    <2> QED
      BY <2>2, <2>16, <2>19
  <1>5. ASSUME NEW e \in Entries(Keys)
        PROVE  last(UserId[Row(e).user]) \in rows /\ last(UserId[Row(e).user]).id = UserId[Row(e).user]
    <2>1. e \in History(UserId[Row(e).user])
      BY DEF History
    <2> QED
      BY <1>4, <2>1
  <1>6. ASSUME NEW r \in rows
        PROVE  \E e \in Entries(Keys) : r.id = UserId[Row(e).user] /\ r = last(UserId[Row(e).user])
    <2>1. PICK f \in Places("users", keys) : r = RowAt("users", f)
      <3>1. PICK f \in KeptPlaces("users", keys) : r = RowAt("users", f)
        BY <1>1, ReadOne
      <3>2. f \in Places("users", keys)
        BY <1>1, ReadOne
      <3> QED
        BY <3>1, <3>2
    <2>2. PICK e \in Entries(Keys) : r = UserRow(Row(e))
      BY <2>1, UserPlaces
    <2>3. r.id = UserId[Row(e).user]
      BY <2>2 DEF UserRow
    <2> QED
      BY <1>2, <1>5, <2>3
  <1> QED
    BY <1>2, <1>3, <1>5, <1>6
-----------------------------------------------------------------------------
(***************************************************************************)
(* What is known of the users, and what Gold has seen of them              *)
(***************************************************************************)

\* Two sets have as many elements when one element of the second is named by
\* each of the first.
LEMMA SameNumber ==
    ASSUME NEW S, IsFiniteSet(S), NEW T, NEW f \in [S -> T],
           \A x, y \in S : f[x] = f[y] => x = y,
           \A z \in T : \E x \in S : f[x] = z
    PROVE  IsFiniteSet(T) /\ Cardinality(T) = Cardinality(S)
  <1>1. f \in Bijection(S, T)
    BY DEF Bijection, Injection, Surjection, IsInjective
  <1>2. ExistsBijection(S, T)
    BY <1>1 DEF ExistsBijection
  <1> QED
    BY <1>2, FS_Bijection

LEMMA FirstNat ==
    ASSUME NEW S \in SUBSET Nat, S # {}
    PROVE  \E x \in S : \A y \in S : x <= y
  <1>1. PICK x \in S : \A y \in S : <<y, x>> \notin OpToRel(<, Nat)
    BY NatLessThanWellFounded, WFMin
  <1>2. ASSUME NEW y \in S PROVE x <= y
    <2>1. x \in Nat /\ y \in Nat
      OBVIOUS
    <2>2. ~(y < x)
      BY <1>1, <2>1, Zenon DEF OpToRel
    <2> QED
      BY <2>1, <2>2
  <1> QED
    BY <1>2

\* The date of a time that is known is a natural number, and that of one that
\* is not known is not.
LEMMA Dates ==
    /\ \A t \in Nat : DateOf(t) \in Nat
    /\ DateOf(Unknown) \notin Nat
    /\ Unknown \notin Nat /\ Unknown \in Int
  <1>1. \A t \in Int : t \div 2 \in Int /\ 2 * (t \div 2) <= t
    OBVIOUS
  <1>2. \A t \in Nat : t \div 2 \in Nat
    OBVIOUS
  <1>3. Unknown \in Int /\ Unknown < 0 /\ Unknown \notin Nat
    BY DEF Unknown
  <1>4. 2 * (Unknown \div 2) < 0 /\ Unknown \div 2 \in Int
    BY <1>1, <1>3
  <1>5. Unknown \div 2 \notin Nat
    BY <1>4
  <1> QED
    BY <1>2, <1>3, <1>5 DEF DateOf, TicksPerDay

Ids == {UserId[Row(e).user] : e \in Entries(Keys)}

LastOf(u) == LastRow(History(u))

PostedDates(u) == {DateOf(Row(e).at) : e \in {f \in History(u) : Row(f).at # Unknown}}

KnownDates(u) ==
    IF LastOf(u).account # Unknown THEN {DateOf(LastOf(u).account)} ELSE PostedDates(u)

KnownUser(u) == [id |-> u, followers |-> LastOf(u).followers, dates |-> KnownDates(u)]

LEMMA LastOfUser ==
    ASSUME SilverTypes, NothingClobbered, Held, Settled, NEW u \in Ids
    PROVE  /\ \E e \in History(u) : LastOf(u) = Row(e)
           /\ UserId[LastOf(u).user] = u
           /\ IsCsvRow(LastOf(u))
           /\ KnownDates(u) \subseteq Nat /\ PostedDates(u) \subseteq Nat
           /\ {DateOf(Row(e).at) : e \in History(u)} \ {DateOf(Unknown)} = PostedDates(u)
  <1>1. History(u) \subseteq Entries(Keys) /\ History(u) # {}
    BY DEF History, Ids
  <1>2. PICK e \in History(u) : LastOf(u) = Row(e)
    BY <1>1, LastEntry DEF LastOf
  <1>3. \A f \in History(u) : IsCsvRow(Row(f)) /\ UserId[Row(f).user] = u
    BY <1>1, EntryRows DEF History
  <1>4. \A f \in History(u) : Row(f).at = Unknown \/ Row(f).at \in Nat
    BY <1>3 DEF IsCsvRow
  <1>5. LastOf(u).account = Unknown \/ LastOf(u).account \in Nat
    BY <1>2, <1>3 DEF IsCsvRow
  <1>6. PostedDates(u) \subseteq Nat
    BY <1>4, Dates DEF PostedDates
  <1>7. KnownDates(u) \subseteq Nat
    BY <1>5, <1>6, Dates DEF KnownDates
  <1>8. {DateOf(Row(f).at) : f \in History(u)} \ {DateOf(Unknown)} = PostedDates(u)
    BY <1>4, Dates DEF PostedDates
  <1> QED
    BY <1>2, <1>3, <1>6, <1>7, <1>8

LEMMA KnownUsersAre ==
    ASSUME SilverTypes, NothingClobbered, Held, Settled
    PROVE  KnownUsers = {KnownUser(u) : u \in Ids}
  <1> DEFINE all == Entries(Keys)
             histories == {{e \in all : UserId[Row(e).user] = u} : u \in {UserId[Row(e).user] : e \in all}}
             known(history, last) ==
                 [id |-> UserId[last.user],
                  followers |-> last.followers,
                  dates |-> IF last.account # Unknown THEN {DateOf(last.account)}
                            ELSE {DateOf(Row(e).at) : e \in history} \ {DateOf(Unknown)}]
  <1>1. KnownUsers = {known(history, LastRow(history)) : history \in histories}
    BY DEF KnownUsers
  <1>2. histories = {History(u) : u \in Ids}
    BY DEF History, Ids
  <1>3. \A u \in Ids : known(History(u), LastRow(History(u))) = KnownUser(u)
    BY LastOfUser DEF KnownUser, KnownDates, LastOf
  <1> HIDE DEF known, histories
  <1>4. KnownUsers = {known(History(u), LastRow(History(u))) : u \in Ids}
    BY <1>1, <1>2
  <1> QED
    BY <1>3, <1>4

\* FirstSeen has a date for each user with a known date, and it is the first.
LEMMA SeenAre ==
    ASSUME SilverTypes, NothingClobbered, Held, Settled, OneSpelling
    PROVE  LET seen == FirstSeen(ReadRows("users", {k \in Keys : k[2] # "hn"}),
                                 Of(ReadRows("posts", Keys), "X"))
           IN  /\ DOMAIN seen = {u \in Ids : KnownDates(u) # {}}
               /\ \A u \in DOMAIN seen :
                      seen[u] \in KnownDates(u) /\ \A x \in KnownDates(u) : seen[u] <= x
  <1> DEFINE users == ReadRows("users", {k \in Keys : k[2] # "hn"})
             posts == Of(ReadRows("posts", Keys), "X")
             dated == {r \in users : r.account # Unknown}
             posting == {r.author : r \in {q \in posts : q.at # Unknown}}
             D == {r.id : r \in dated} \cup posting
             date(u) == IF \E r \in dated : r.id = u
                        THEN DateOf((CHOOSE r \in dated : r.id = u).account)
                        ELSE CHOOSE x \in PostDates(posts, u) : \A y \in PostDates(posts, u) : x <= y
             seen == FirstSeen(users, posts)
  <1>1. seen = [u \in D |-> date(u)]
    BY DEF FirstSeen
  <1>2. /\ \A u \in Ids : UserRow(LastOf(u)) \in users
        /\ \A r \in users : r.id \in Ids /\ r = UserRow(LastOf(r.id))
    <2>1. /\ \A e \in Entries(Keys) : UserRow(LastRow(History(UserId[Row(e).user]))) \in users
          /\ \A r \in users :
                 \E e \in Entries(Keys) :
                     r.id = UserId[Row(e).user] /\ r = UserRow(LastRow(History(UserId[Row(e).user])))
      BY UsersRead
    <2> HIDE DEF users
    <2> QED
      BY <2>1 DEF Ids, LastOf
  <1>3. \A u \in Ids : UserRow(LastOf(u)).id = u /\ UserRow(LastOf(u)).account = LastOf(u).account
    BY LastOfUser DEF UserRow
  <1>4. /\ \A r \in posts : \E e \in Entries(Keys) : r = PostRow(Row(e))
        /\ \A e \in Entries(Keys) :
               \E r \in posts : r.author = UserId[Row(e).user] /\ r.at = Row(e).at
    <2>1. Keys \in SUBSET Keys
      OBVIOUS
    <2> QED
      BY <2>1, PostsRead
  <1> HIDE DEF users, posts
  <1>5. ASSUME NEW u
        PROVE  (\E r \in dated : r.id = u) <=> u \in Ids /\ LastOf(u).account # Unknown
    BY <1>2, <1>3
  <1>6. ASSUME NEW u \in Ids, LastOf(u).account # Unknown
        PROVE  date(u) = DateOf(LastOf(u).account)
    <2>1. \E r \in dated : r.id = u
      BY <1>5, <1>6
    <2>2. \A r \in dated : r.id = u => r = UserRow(LastOf(u))
      BY <1>2
    <2>3. (CHOOSE r \in dated : r.id = u) = UserRow(LastOf(u))
      <3> HIDE DEF dated
      <3> QED
        BY <2>1, <2>2
    <2> QED
      BY <1>3, <2>1, <2>3
  <1>7. \A r \in posts : r.author \in Ids /\ \E e \in History(r.author) : Row(e).at = r.at
    <2> SUFFICES ASSUME NEW r \in posts
                 PROVE  r.author \in Ids /\ \E e \in History(r.author) : Row(e).at = r.at
      OBVIOUS
    <2>1. PICK e \in Entries(Keys) : r = PostRow(Row(e))
      BY <1>4
    <2>2. r.author = UserId[Row(e).user] /\ r.at = Row(e).at
      BY <2>1 DEF PostRow
    <2> QED
      BY <2>2 DEF Ids, History
  <1>8. \A u \in Ids : \A e \in History(u) : \E r \in posts : r.author = u /\ r.at = Row(e).at
    BY <1>4 DEF History
  <1>9. \A u \in Ids : PostDates(posts, u) = PostedDates(u)
    <2> SUFFICES ASSUME NEW u \in Ids PROVE PostDates(posts, u) = PostedDates(u)
      OBVIOUS
    <2>1. \A x \in PostDates(posts, u) : x \in PostedDates(u)
      <3> SUFFICES ASSUME NEW r \in posts, r.author = u, r.at # Unknown
                   PROVE  DateOf(r.at) \in PostedDates(u)
        BY DEF PostDates
      <3> QED
        BY <1>7 DEF PostedDates
    <2>2. \A x \in PostedDates(u) : x \in PostDates(posts, u)
      <3> SUFFICES ASSUME NEW e \in History(u), Row(e).at # Unknown
                   PROVE  DateOf(Row(e).at) \in PostDates(posts, u)
        BY DEF PostedDates
      <3> QED
        BY <1>8 DEF PostDates
    <2> QED
      BY <2>1, <2>2
  <1>10. \A u : u \in posting <=> u \in Ids /\ PostedDates(u) # {}
    <2>1. \A u \in posting : u \in Ids /\ PostedDates(u) # {}
      BY <1>7 DEF PostedDates
    <2>2. ASSUME NEW u \in Ids, PostedDates(u) # {} PROVE u \in posting
      <3>1. PICK e \in History(u) : Row(e).at # Unknown
        BY <2>2 DEF PostedDates
      <3> QED
        BY <1>8, <3>1
    <2> QED
      BY <2>1, <2>2
  <1>11. ASSUME NEW u \in Ids, LastOf(u).account = Unknown, PostedDates(u) # {}
         PROVE  date(u) \in PostedDates(u) /\ \A y \in PostedDates(u) : date(u) <= y
    <2>1. date(u) = CHOOSE x \in PostedDates(u) : \A y \in PostedDates(u) : x <= y
      BY <1>5, <1>9, <1>11
    <2>2. PostedDates(u) \in SUBSET Nat
      BY LastOfUser
    <2>3. \E x \in PostedDates(u) : \A y \in PostedDates(u) : x <= y
      BY <1>11, <2>2, FirstNat
    <2> HIDE DEF date
    <2> QED
      BY <2>1, <2>3
  <1>12. \A u : u \in D <=> u \in Ids /\ KnownDates(u) # {}
    <2>1. \A u : u \in D <=> (\E r \in dated : r.id = u) \/ u \in posting
      OBVIOUS
    <2> HIDE DEF D, dated, posting
    <2> QED
      BY <1>5, <1>10, <2>1 DEF KnownDates
  <1>13. ASSUME NEW u \in D
         PROVE  date(u) \in KnownDates(u) /\ \A x \in KnownDates(u) : date(u) <= x
    <2>1. u \in Ids /\ KnownDates(u) # {}
      BY <1>12
    <2>2. CASE LastOf(u).account # Unknown
      <3>1. KnownDates(u) = {date(u)}
        BY <1>6, <2>1, <2>2 DEF KnownDates
      <3>2. KnownDates(u) \subseteq Nat
        BY <2>1, LastOfUser
      <3> HIDE DEF date
      <3> QED
        BY <3>1, <3>2
    <2>3. CASE LastOf(u).account = Unknown
      <3> HIDE DEF date
      <3> QED
        BY <1>11, <2>1, <2>3 DEF KnownDates
    <2> QED
      BY <2>2, <2>3
  <1> HIDE DEF D, date, seen
  <1>14. /\ DOMAIN seen = {u \in Ids : KnownDates(u) # {}}
         /\ \A u \in DOMAIN seen :
                seen[u] \in KnownDates(u) /\ \A x \in KnownDates(u) : seen[u] <= x
    BY <1>1, <1>12, <1>13
  <1> QED
    BY <1>14 DEF seen, users, posts
-----------------------------------------------------------------------------
(***************************************************************************)
(* Gold is true of the rows                                                *)
(***************************************************************************)

\* An invocation that reports a count holds what it computed from its reads.
LEMMA ReportedIsComputed ==
    ASSUME GoldTypes, GoldPhases, Done, NEW g \in GRuns, Reporting(g)
    PROVE  /\ day[g] \in Days
           /\ \A m \in CountMetrics : Reports(g, m) => result[g][m] \in Computed(g, m)
           /\ \A m \in XMetrics : result[g][m] \in Computed(g, m) \cup {Nothing}
  <1>1. gpc[g] = "compute" /\ Running(g) /\ step[g] > Len(Steps)
    BY DEF Reporting, Running
  <1>2. Len(Steps) \in Nat /\ DOMAIN Steps = 1 .. Len(Steps) /\ step[g] \in 1 .. Len(Steps) + 1
    BY GoldAssumption DEF GoldTypes
  <1>3. ASSUME NEW m \in CountMetrics, Reports(g, m)
        PROVE  result[g][m] \in Computed(g, m)
    <2>1. PICK i \in DOMAIN Steps : m = Steps[i]
      BY <1>3 DEF Reports, Range
    <2>2. Steps[i] \in CountMetrics \ errors[g]
      BY <1>3, <2>1 DEF Reports
    <2>3. Behind(g, i)
      BY <1>1, <1>2 DEF Behind
    <2> QED
      BY <1>1, <2>1, <2>2, <2>3 DEF Done
  <1>4. day[g] \in Days
    BY <1>1 DEF GoldPhases
  <1> QED
    BY <1>1, <1>3, <1>4 DEF Done

\* What its four reads returned.
LEMMA FreshReads ==
    ASSUME NEW g \in GRuns, Fresh(g)
    PROVE  /\ snap[g][1] = ReadRows("posts", {k \in Keys : k[1] = day[g]})
           /\ snap[g][2] = ReadRows("posts", Keys)
           /\ snap[g][4] = ReadRows("users", {k \in Keys : k[2] # "hn"})
  <1>1. \A i \in 1 .. 4 : snap[g][i] = ReadRows(ReadOrder(g)[i].tab, ReadOrder(g)[i].keys)
    BY DEF Fresh
  <1>2. 1 \in 1 .. 4 /\ 2 \in 1 .. 4 /\ 4 \in 1 .. 4
    OBVIOUS
  <1>3. /\ snap[g][1] = ReadRows(ReadOrder(g)[1].tab, ReadOrder(g)[1].keys)
        /\ snap[g][2] = ReadRows(ReadOrder(g)[2].tab, ReadOrder(g)[2].keys)
        /\ snap[g][4] = ReadRows(ReadOrder(g)[4].tab, ReadOrder(g)[4].keys)
    BY <1>1, <1>2, Zenon
  <1>4. /\ ReadOrder(g)[1].tab = "posts" /\ ReadOrder(g)[1].keys = {k \in Keys : k[1] = day[g]}
        /\ ReadOrder(g)[2].tab = "posts" /\ ReadOrder(g)[2].keys = Keys
        /\ ReadOrder(g)[4].tab = "users" /\ ReadOrder(g)[4].keys = {k \in Keys : k[2] # "hn"}
    BY DEF ReadOrder
  <1> QED
    BY <1>3, <1>4

\* Posts of two types, counted by type, are all the posts.
LEMMA CountedByType ==
    ASSUME NEW rows, IsFiniteSet(rows), \A r \in rows : r.kind \in {"tweet", "retweet"},
           NEW count,
           count = [k \in {r.kind : r \in rows} |-> Cardinality({r \in rows : r.kind = k})]
    PROVE  /\ DOMAIN count \subseteq {"tweet", "retweet"}
           /\ OfType(count, "tweet") + OfType(count, "retweet") = Cardinality(rows)
  <1> DEFINE T(k) == {r \in rows : r.kind = k}
  <1>1. \A k : IsFiniteSet(T(k))
    BY FS_Subset
  <1>2. \A k : Cardinality(T(k)) \in Nat
    BY <1>1, FS_CardinalityType
  <1>3. \A k \in {"tweet", "retweet"} : OfType(count, k) = Cardinality(T(k))
    <2> SUFFICES ASSUME NEW k \in {"tweet", "retweet"} PROVE OfType(count, k) = Cardinality(T(k))
      OBVIOUS
    <2>1. CASE k \in DOMAIN count
      BY <2>1 DEF OfType
    <2>2. CASE k \notin DOMAIN count
      <3>1. T(k) = {}
        BY <2>2
      <3>2. Cardinality({}) = 0
        BY FS_EmptySet
      <3> QED
        BY <2>2, <3>1, <3>2 DEF OfType
    <2> QED
      BY <2>1, <2>2
  <1>4. T("tweet") \cup T("retweet") = rows /\ T("tweet") \cap T("retweet") = {}
    OBVIOUS
  <1>5. DOMAIN count \subseteq {"tweet", "retweet"}
    OBVIOUS
  <1> HIDE DEF T
  <1>6. Cardinality(rows) = Cardinality(T("tweet")) + Cardinality(T("retweet")) - Cardinality({})
    BY <1>1, <1>4, FS_Union
  <1>7. Cardinality({}) = 0
    BY FS_EmptySet
  <1> QED
    BY <1>2, <1>3, <1>5, <1>6, <1>7

LEMMA PostsTrue ==
    ASSUME SilverTypes, NothingClobbered, Held, Settled, GoldTypes, GoldPhases, Done,
           NEW g \in GRuns, Reporting(g), Fresh(g)
    PROVE  PostsAreTrue(g)
  <1> SUFFICES ASSUME Reports(g, "daily_post_counts")
               PROVE  /\ \A count \in ForX(g, "daily_post_counts") :
                             /\ DOMAIN count \subseteq {"tweet", "retweet"}
                             /\ OfType(count, "tweet") + OfType(count, "retweet")
                                    = Cardinality(PostsOf(day[g]))
                      /\ ForX(g, "daily_post_counts") = {} => PostsOf(day[g]) = {}
    BY DEF PostsAreTrue
  <1> DEFINE d == day[g]
             keys == {k \in Keys : k[1] = d}
             posts == ReadRows("posts", keys)
             rows == Of(posts, "X")
             all == PostsOf(d)
             byType == [k \in {r.kind : r \in rows} |-> Cardinality({r \in rows : r.kind = k})]
             counts == result[g]["daily_post_counts"]
  <1>1. counts = PostCounts(d, posts)
    <2>1. counts \in Computed(g, "daily_post_counts")
      BY ReportedIsComputed DEF CountMetrics
    <2>2. Computed(g, "daily_post_counts") = {PostCounts(d, snap[g][1])}
      BY DEF Computed
    <2> QED
      BY <2>1, <2>2, FreshReads
  <1>2. /\ \A r \in rows : \E e \in Entries(keys) : r = PostRow(Row(e))
        /\ \A e \in Entries(keys) : \E r \in rows : r.id = PostId(Row(e))
        /\ \A r, q \in rows : r.id = q.id => r = q
        /\ IsFiniteSet(rows)
    <2>1. keys \in SUBSET Keys
      OBVIOUS
    <2> HIDE DEF keys
    <2> QED
      BY <2>1, PostsRead
  <1>3. all = {PostId(Row(e)) : e \in Entries(keys)}
    BY DEF PostsOf
  <1> HIDE DEF keys, posts
  <1>4. Cardinality(all) = Cardinality(rows)
    <2> DEFINE f == [r \in rows |-> r.id]
    <2>1. \A r \in rows : r.id \in all
      <3> SUFFICES ASSUME NEW r \in rows PROVE r.id \in all
        OBVIOUS
      <3>1. PICK e \in Entries(keys) : r = PostRow(Row(e))
        BY <1>2
      <3>2. r.id = PostId(Row(e))
        BY <3>1 DEF PostRow
      <3> QED
        BY <1>3, <3>2
    <2>2. \A z \in all : \E r \in rows : f[r] = z
      BY <1>2, <1>3
    <2>3. f \in [rows -> all] /\ \A r, q \in rows : f[r] = f[q] => r = q
      BY <1>2, <2>1
    <2> HIDE DEF f, rows, all
    <2> QED
      BY <1>2, <2>2, <2>3, SameNumber
  <1>5. \A r \in rows : r.kind \in {"tweet", "retweet"}
    BY <1>2 DEF PostRow
  <1>6. \A count \in ForX(g, "daily_post_counts") : count = byType /\ rows # {}
    <2>1. \A p \in DOMAIN PostCounts(d, posts) :
              p[1] = "X" => PostCounts(d, posts)[p] = byType /\ rows # {}
      BY DEF PostCounts
    <2> QED
      BY <1>1, <2>1 DEF ForX
  <1>7. rows # {} => ForX(g, "daily_post_counts") # {}
    <2> SUFFICES ASSUME rows # {} PROVE ForX(g, "daily_post_counts") # {}
      OBVIOUS
    <2>1. <<"X", d>> \in DOMAIN PostCounts(d, posts)
      BY DEF PostCounts
    <2>2. <<"X", d>>[1] = "X"
      OBVIOUS
    <2> QED
      BY <1>1, <2>1, <2>2 DEF ForX
  <1>8. /\ DOMAIN byType \subseteq {"tweet", "retweet"}
        /\ OfType(byType, "tweet") + OfType(byType, "retweet") = Cardinality(rows)
    BY <1>2, <1>5, CountedByType
  <1>9. rows = {} => all = {}
    BY <1>2, <1>3
  <1> QED
    BY <1>4, <1>6, <1>7, <1>8, <1>9

\* As many users are known by a date as were seen by it, and new on it.
LEMMA KnownBySeen ==
    ASSUME SilverTypes, NothingClobbered, Held, Settled, OneSpelling, NEW d \in Int,
           NEW seen, DOMAIN seen = {u \in Ids : KnownDates(u) # {}},
           \A u \in DOMAIN seen : seen[u] \in KnownDates(u) /\ \A x \in KnownDates(u) : seen[u] <= x
    PROVE  LET by(c) == {u \in KnownUsers : \E x \in u.dates : x <= c}
           IN  /\ Cardinality({u \in DOMAIN seen : seen[u] <= d}) = Cardinality(by(d))
               /\ Cardinality({u \in DOMAIN seen : seen[u] = d}) = Cardinality(by(d) \ by(d - 1))
               /\ (\E u \in KnownUsers : u.dates # {}) <=> DOMAIN seen # {}
  <1> DEFINE by(c) == {u \in KnownUsers : \E x \in u.dates : x <= c}
             f == [u \in DOMAIN seen |-> KnownUser(u)]
  <1>1. KnownUsers = {KnownUser(u) : u \in Ids}
    BY KnownUsersAre
  <1>2. \A u : KnownUser(u).id = u /\ KnownUser(u).dates = KnownDates(u)
    BY DEF KnownUser
  <1>3. \A u \in DOMAIN seen : u \in Ids /\ KnownDates(u) \subseteq Nat /\ seen[u] \in Int
    BY LastOfUser
  <1>4. ASSUME NEW c \in Int, NEW u \in DOMAIN seen
        PROVE  seen[u] <= c <=> \E x \in KnownDates(u) : x <= c
    <2>1. \A x \in KnownDates(u) : x \in Int /\ seen[u] <= x
      BY <1>3
    <2>2. seen[u] \in KnownDates(u) /\ seen[u] \in Int
      BY <1>3
    <2> QED
      BY <2>1, <2>2
  <1>5. IsFiniteSet(Ids)
    <2> DEFINE id == [e \in Entries(Keys) |-> UserId[Row(e).user]]
    <2>1. Entries(Keys) \subseteq DOMAIN id /\ {id[e] : e \in Entries(Keys)} = Ids
      BY DEF Ids
    <2> HIDE DEF id
    <2>2. IsFiniteSet({id[e] : e \in Entries(Keys)})
      BY <2>1, EntriesFinite, FiniteImage
    <2> QED
      BY <2>1, <2>2
  <1>6. IsFiniteSet(DOMAIN seen)
    BY <1>5, FS_Subset
  <1>7. ASSUME NEW c \in Int
        PROVE  by(c) = {KnownUser(u) : u \in {v \in DOMAIN seen : seen[v] <= c}}
    <2>1. ASSUME NEW x \in by(c)
          PROVE  \E u \in DOMAIN seen : seen[u] <= c /\ x = KnownUser(u)
      <3>1. PICK u \in Ids : x = KnownUser(u)
        BY <1>1
      <3>2. \E y \in KnownDates(u) : y <= c
        BY <1>2, <3>1
      <3>3. u \in DOMAIN seen
        BY <3>2
      <3> QED
        BY <1>4, <3>1, <3>2, <3>3
    <2>2. ASSUME NEW u \in DOMAIN seen, seen[u] <= c
          PROVE  KnownUser(u) \in by(c)
      BY <1>1, <1>2, <1>3, <1>4, <2>2
    <2> HIDE DEF by
    <2> QED
      BY <2>1, <2>2
  <1>8. ASSUME NEW S \in SUBSET DOMAIN seen
        PROVE  Cardinality({KnownUser(u) : u \in S}) = Cardinality(S)
    <2> DEFINE T == {KnownUser(u) : u \in S}
               h == [u \in S |-> KnownUser(u)]
    <2>1. IsFiniteSet(S)
      BY <1>6, FS_Subset
    <2>2. /\ h \in [S -> T]
          /\ \A x, y \in S : h[x] = h[y] => x = y
          /\ \A z \in T : \E x \in S : h[x] = z
      <3>1. \A x, y \in S : KnownUser(x) = KnownUser(y) => x = y
        BY <1>2, Zenon
      <3> QED
        BY <3>1
    <2> HIDE DEF h, T
    <2>3. Cardinality(T) = Cardinality(S)
      BY <2>1, <2>2, SameNumber
    <2> QED
      BY <2>3 DEF T
  <1>9. Cardinality({u \in DOMAIN seen : seen[u] <= d}) = Cardinality(by(d))
    <2> DEFINE S == {u \in DOMAIN seen : seen[u] <= d}
    <2>1. by(d) = {KnownUser(u) : u \in S}
      BY <1>7
    <2>2. S \in SUBSET DOMAIN seen
      OBVIOUS
    <2> HIDE DEF by, S
    <2>3. Cardinality(by(d)) = Cardinality(S)
      BY <1>8, <2>1, <2>2
    <2> QED
      BY <2>3 DEF S
  <1>10. Cardinality({u \in DOMAIN seen : seen[u] = d}) = Cardinality(by(d) \ by(d - 1))
    <2> DEFINE S == {u \in DOMAIN seen : seen[u] = d}
               A == {v \in DOMAIN seen : seen[v] <= d}
               B == {v \in DOMAIN seen : seen[v] <= d - 1}
    <2>0. d - 1 \in Int
      BY <1>3
    <2>1. by(d) = {KnownUser(u) : u \in A} /\ by(d - 1) = {KnownUser(u) : u \in B}
      <3>1. by(d) = {KnownUser(u) : u \in A}
        BY <1>3, <1>7
      <3> HIDE DEF by
      <3>2. by(d - 1) = {KnownUser(u) : u \in B}
        BY <1>7, <2>0
      <3> QED
        BY <3>1, <3>2
    <2>2. S = A \ B
      BY <1>3
    <2>3. by(d) \ by(d - 1) = {KnownUser(u) : u \in S}
      <3>1. \A x, y : KnownUser(x) = KnownUser(y) => x = y
        BY <1>2, Zenon
      <3> HIDE DEF by, S, A, B
      <3> QED
        BY <2>1, <2>2, <3>1
    <2>4. S \in SUBSET DOMAIN seen
      OBVIOUS
    <2> HIDE DEF by, S
    <2>5. Cardinality(by(d) \ by(d - 1)) = Cardinality(S)
      BY <1>8, <2>3, <2>4
    <2> QED
      BY <2>5 DEF S
  <1>11. (\E u \in KnownUsers : u.dates # {}) <=> DOMAIN seen # {}
    BY <1>1, <1>2
  <1> QED
    BY <1>9, <1>10, <1>11

LEMMA UsersTrue ==
    ASSUME SilverTypes, NothingClobbered, Held, Settled, GoldTypes, GoldPhases, Done,
           NEW g \in GRuns, Reporting(g), Fresh(g), OneSpelling
    PROVE  UsersAreTrue(g, KnownUsers)
  <1> DEFINE d == day[g]
             m == "daily_users_metric"
             usersX == ReadRows("users", {k \in Keys : k[2] # "hn"})
             posts == ReadRows("posts", Keys)
             users == [HackerNews |-> snap[g][3], X |-> usersX]
             seen == FirstSeen(usersX, Of(posts, "X"))
             by(c) == {u \in KnownUsers : \E x \in u.dates : x <= c}
             value == [total |-> Cardinality({u \in DOMAIN seen : seen[u] <= d}),
                       new |-> Cardinality({u \in DOMAIN seen : seen[u] = d})]
             counts == UserCounts(d, users, posts)
  <1> SUFFICES ASSUME Reports(g, m)
               PROVE  ForX(g, m) = IF \E u \in KnownUsers : u.dates # {}
                                   THEN {[total |-> Cardinality(by(d)),
                                          new |-> Cardinality(by(d) \ by(d - 1))]}
                                   ELSE {}
    BY DEF UsersAreTrue
  <1>1. result[g][m] = counts
    <2>1. result[g][m] \in Computed(g, m)
      BY ReportedIsComputed DEF CountMetrics
    <2>2. Computed(g, m) = {UserCounts(d, [HackerNews |-> snap[g][3], X |-> snap[g][4]], snap[g][2])}
      BY DEF Computed
    <2> QED
      BY <2>1, <2>2, FreshReads
  <1>2. /\ DOMAIN seen = {u \in Ids : KnownDates(u) # {}}
        /\ \A u \in DOMAIN seen :
               seen[u] \in KnownDates(u) /\ \A x \in KnownDates(u) : seen[u] <= x
    BY SeenAre
  <1>3. d \in Int
    BY ReportedIsComputed, DaysAssumption
  <1>4. DOMAIN seen # {} => usersX # {}
    <2> SUFFICES ASSUME DOMAIN seen # {} PROVE usersX # {}
      OBVIOUS
    <2>1. Entries(Keys) # {}
      BY <1>2 DEF Ids
    <2> QED
      BY <2>1, UsersRead
  <1> HIDE DEF usersX, posts
  <1>5. /\ \A p \in DOMAIN counts : p[1] = "X" => DOMAIN seen # {} /\ counts[p] = value
        /\ DOMAIN seen # {} => <<"X", d>> \in DOMAIN counts
    <2>1. users["X"] = usersX /\ "X" \in DOMAIN users
      OBVIOUS
    <2> DEFINE all == [p \in DOMAIN users |-> FirstSeen(users[p], Of(posts, p))]
               shown == {p \in DOMAIN users : users[p] # {} /\ DOMAIN all[p] # {}}
    <2>2. all["X"] = seen
      BY <2>1
    <2>3. counts = [q \in shown \X {d} |->
                       [total |-> Cardinality({u \in DOMAIN all[q[1]] : all[q[1]][u] <= d}),
                        new |-> Cardinality({u \in DOMAIN all[q[1]] : all[q[1]][u] = d})]]
      BY DEF UserCounts
    <2>4. "X" \in shown <=> DOMAIN seen # {}
      BY <1>4, <2>1, <2>2
    <2> HIDE DEF all, shown, users, seen, counts
    <2> QED
      BY <2>2, <2>3, <2>4
  <1>6. ForX(g, m) = {counts[p] : p \in {q \in DOMAIN counts : q[1] = "X"}}
    BY <1>1 DEF ForX
  <1> HIDE DEF seen, counts
  <1>7. ForX(g, m) = IF DOMAIN seen # {} THEN {value} ELSE {}
    <2> HIDE DEF value
    <2>1. <<"X", d>>[1] = "X"
      OBVIOUS
    <2> QED
      BY <1>5, <1>6, <2>1
  <1>8. /\ Cardinality({u \in DOMAIN seen : seen[u] <= d}) = Cardinality(by(d))
        /\ Cardinality({u \in DOMAIN seen : seen[u] = d}) = Cardinality(by(d) \ by(d - 1))
        /\ (\E u \in KnownUsers : u.dates # {}) <=> DOMAIN seen # {}
    <2> HIDE DEF d
    <2> QED
      BY <1>2, <1>3, KnownBySeen
  <1> QED
    BY <1>7, <1>8

LEMMA FollowersTrue ==
    ASSUME SilverTypes, NothingClobbered, Held, Settled, GoldTypes, GoldPhases, Done,
           NEW g \in GRuns, Reporting(g), Fresh(g), OneSpelling
    PROVE  FollowersAreTrue(g, KnownUsers)
  <1> DEFINE m == "top_x_users_followers"
             rows == ReadRows("users", {k \in Keys : k[2] # "hn"})
             valued == {r \in rows : r["followers"] # Unknown}
             place == <<NoPlatform, NoDay>>
  <1> SUFFICES ASSUME NEW p \in DOMAIN result[g][m]
               PROVE  LET top == result[g][m][p]
                      IN  /\ \A r \in top :
                                 \E u \in KnownUsers : u.id = r.id /\ u.followers = r.followers
                          /\ \A u \in KnownUsers, r \in top :
                                 u.id \notin {q.id : q \in top} => u.followers <= r.followers
    BY DEF FollowersAreTrue
  <1> DEFINE top == result[g][m][p]
  <1>1. result[g][m] \in Rankings(place, rows, "followers", 1)
    <2>1. result[g][m] \in Computed(g, m) \cup {Nothing}
      BY ReportedIsComputed DEF XMetrics
    <2>2. Computed(g, m) = Rankings(place, snap[g][4], "followers", 1)
      BY DEF Computed
    <2>3. result[g][m] # Nothing
      BY DEF Nothing
    <2> QED
      BY <2>1, <2>2, <2>3, FreshReads
  <1>2. /\ top \subseteq valued
        /\ \A r \in top, q \in valued \ top : 1 * q["followers"] <= 1 * r["followers"]
    <2> HIDE DEF rows, place
    <2> QED
      BY <1>1 DEF Rankings, Nothing
  <1>3. KnownUsers = {KnownUser(u) : u \in Ids}
    BY KnownUsersAre
  <1>4. /\ \A u \in Ids : UserRow(LastOf(u)) \in rows
        /\ \A r \in rows : r.id \in Ids /\ r = UserRow(LastOf(r.id))
    <2>1. /\ \A e \in Entries(Keys) : UserRow(LastRow(History(UserId[Row(e).user]))) \in rows
          /\ \A r \in rows :
                 \E e \in Entries(Keys) :
                     r.id = UserId[Row(e).user] /\ r = UserRow(LastRow(History(UserId[Row(e).user])))
      BY UsersRead
    <2> HIDE DEF rows
    <2> QED
      BY <2>1 DEF Ids, LastOf
  <1>5. \A u \in Ids :
            /\ UserRow(LastOf(u)).id = u
            /\ UserRow(LastOf(u)).followers = KnownUser(u).followers
            /\ KnownUser(u).id = u
            /\ KnownUser(u).followers = Unknown \/ KnownUser(u).followers \in Nat
    BY LastOfUser DEF UserRow, KnownUser, IsCsvRow
  <1> HIDE DEF rows
  <1>6. \A r \in valued :
            /\ r.id \in Ids /\ r.followers = KnownUser(r.id).followers
            /\ r.followers \in Nat
    BY <1>4, <1>5
  <1>7. \A r \in top : \E u \in KnownUsers : u.id = r.id /\ u.followers = r.followers
    <2> HIDE DEF top, valued
    <2> QED
      BY <1>2, <1>3, <1>5, <1>6
  <1>8. ASSUME NEW u \in KnownUsers, NEW r \in top, u.id \notin {q.id : q \in top}
        PROVE  u.followers <= r.followers
    <2>1. PICK v \in Ids : u = KnownUser(v)
      BY <1>3
    <2>2. u.id = v
      BY <1>5, <2>1
    <2>3. r \in valued /\ r.followers \in Nat
      BY <1>2, <1>6
    <2>4. CASE u.followers = Unknown
      BY <2>3, <2>4 DEF Unknown
    <2>5. CASE u.followers # Unknown
      <3> DEFINE q == UserRow(LastOf(v))
      <3>1. q \in rows /\ q.id = v /\ q.followers = u.followers
        BY <1>4, <1>5, <2>1
      <3>2. q \in valued /\ q \notin top
        BY <1>8, <2>2, <2>5, <3>1
      <3>3. u.followers \in Nat
        BY <1>5, <2>1, <2>5
      <3>4. 1 * q["followers"] <= 1 * r["followers"]
        BY <1>2, <3>2
      <3> HIDE DEF q
      <3> QED
        BY <2>3, <3>1, <3>3, <3>4
    <2> QED
      BY <2>4, <2>5
  <1> QED
    BY <1>7, <1>8

\* Gold is true of what was uploaded, for every file, day, metric and ranking
\* length: a run that reports, read Silver as it now is and found there what the
\* uploaded files make of it counts each user and each post once, and ranks the
\* users by their last known followers (analytics/lambda_function.py:69-216).
THEOREM GoldTrue == Spec => []GoldIsTrue
  <1>1. SilverTypes /\ SilverInv /\ GoldTypes /\ GoldInv /\ Held /\ Done => GoldIsTrue
    <2> SUFFICES ASSUME SilverTypes, SilverInv, GoldTypes, GoldInv, Held, Done,
                        NEW g \in GRuns, Reporting(g), Settled, Fresh(g)
                 PROVE  /\ PostsAreTrue(g)
                        /\ OneSpelling => UsersAreTrue(g, KnownUsers) /\ FollowersAreTrue(g, KnownUsers)
      BY DEF GoldIsTrue
    <2>1. NothingClobbered /\ GoldPhases
      BY DEF SilverInv, GoldInv
    <2> QED
      BY <2>1, PostsTrue, UsersTrue, FollowersTrue
  <1> QED
    BY <1>1, SilverInvariance, GoldInvariance, HeldInvariance, DoneInvariance, PTL
=============================================================================
