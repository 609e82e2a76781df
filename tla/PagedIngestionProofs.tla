------------------------ MODULE PagedIngestionProofs ------------------------
(***************************************************************************)
(* Proofs about PagedIngestion, for every day, width of the windows, size  *)
(* of the pages, number of invocations and choice of faults: the loop over *)
(* windows and pages collects what the windows cover, each item once, and  *)
(* so implements the single step of Ingestion.  What holds of Ingestion is *)
(* then taken from IngestionProofs.                                        *)
(***************************************************************************)
EXTENDS PagedIngestion, FiniteSetTheorems, TLAPS

CoarseProofs == INSTANCE IngestionProofs WITH Covered <- Covered, Faults <- CoarseFaults

-----------------------------------------------------------------------------
(***************************************************************************)
(* Seconds and windows                                                     *)
(***************************************************************************)

LEMMA DivMod ==
    ASSUME NEW x \in Nat, NEW w \in Nat \ {0}
    PROVE  /\ x \div w \in Nat /\ x % w \in 0 .. w - 1
           /\ x = w * (x \div w) + (x % w)
  OBVIOUS

LEMMA Halves ==
    ASSUME NEW n \in Nat
    PROVE  (2 * n) \div 2 = n /\ (2 * n + 1) \div 2 = n
  OBVIOUS

LEMMA Multiples ==
    ASSUME NEW k \in Nat, NEW q \in Nat, NEW w \in Nat \ {0}, q < k
    PROVE  w * q + w <= w * k
  <1>1. PICK d \in Nat : k = q + 1 + d
    <2>1. k - q - 1 \in Nat
      OBVIOUS
    <2> QED
      BY <2>1
  <1>2. w * k = w * q + w + w * d
    BY <1>1
  <1>3. w * d \in Nat /\ w * q \in Nat
    OBVIOUS
  <1> QED
    BY <1>2, <1>3

\* A second strictly inside the k-th window is one with quotient k that is not
\* an edge.
LEMMA Inside ==
    ASSUME NEW x \in Nat, NEW w \in Nat \ {0}, NEW k \in Nat
    PROVE  w * k < x /\ x < w * k + w <=> x \div w = k /\ x % w # 0
  <1>1. PICK q \in Nat, r \in 0 .. w - 1 : q = x \div w /\ r = x % w /\ x = w * q + r
    BY DivMod
  <1>2. w * k \in Nat /\ w * q \in Nat
    OBVIOUS
  <1>3. q < k => w * q + w <= w * k
    BY Multiples
  <1>4. k < q => w * k + w <= w * q
    BY Multiples
  <1> QED
    BY <1>1, <1>2, <1>3, <1>4

\* What the search API selects of the window that begins at start.
Window(t, start) == Matches(t, start, WindowEnd(t, start))

\* Where a window of type t may begin.
Start(t, start) == start < EndOfDay /\ \E k \in Nat : start = 2 * (Width[t] * k)

\* How far the loop is is where it may be: at a window, or past the last one.
Boundary(t, start) == start = EndOfDay \/ Start(t, start)

\* Where the windows end, and what they hold.
LEMMA Windows ==
    ASSUME NEW t \in Types, NEW k \in Nat, NEW start \in Nat,
           start = 2 * (Width[t] * k), start < EndOfDay
    PROVE  /\ WindowEnd(t, start) \in 0 .. EndOfDay /\ start < WindowEnd(t, start)
           /\ Boundary(t, WindowEnd(t, start))
           /\ Window(t, start) = {i \in Listed[t] : InWindow(t, i) /\ At[i] \div Width[t] = k}
           /\ \A i \in Listed[t] : InWindow(t, i) =>
                 /\ At[i] \div Width[t] = k => start < 2 * At[i] /\ 2 * At[i] < WindowEnd(t, start)
                 /\ 2 * At[i] < WindowEnd(t, start) => 2 * At[i] < start \/ At[i] \div Width[t] = k
  <1> DEFINE w == Width[t]
             b == w * k
             e == w * (k + 1)
  <1>1. w \in Nat \ {0} /\ DayLength \in Nat \ {0} /\ Listed[t] \subseteq Items
        /\ \A i \in Items : At[i] \in 0 .. DayLength - 1
    BY PagedAssumption
  <1>2. b \in Nat /\ e = b + w /\ e \in Nat
    BY <1>1
  <1> HIDE DEF w, b, e
  <1>3. start + 2 * Width[t] = 2 * e /\ start = 2 * b /\ EndOfDay = 2 * (DayLength - 1) + 1
    BY <1>1, <1>2 DEF EndOfDay, w, b
  <1>4. start \div 2 = b
    BY <1>2, <1>3, Halves
  <1>5. \A x \in Nat : b < x /\ x < e <=> x \div w = k /\ x % w # 0
    BY <1>1, <1>2, Inside DEF b, e
  <1>6. CASE e < DayLength
    <2>1. WindowEnd(t, start) = 2 * e
      BY <1>1, <1>2, <1>3, <1>6 DEF WindowEnd
    <2>2. (2 * e) \div 2 = e
      BY <1>2, Halves
    <2>3. WindowEnd(t, start) < EndOfDay /\ start < WindowEnd(t, start)
      BY <1>1, <1>2, <1>3, <1>6, <2>1
    <2>4. Boundary(t, WindowEnd(t, start))
      BY <2>1, <2>3 DEF Boundary, Start, e, w
    <2>5. \A i \in Listed[t] : b < At[i] /\ At[i] < e <=> InWindow(t, i) /\ At[i] \div w = k
      BY <1>1, <1>2, <1>5, <1>6 DEF InWindow, w
    <2>6. Window(t, start) = {i \in Listed[t] : InWindow(t, i) /\ At[i] \div Width[t] = k}
      BY <1>4, <2>1, <2>2, <2>5 DEF Window, Matches, w
    <2>7. \A i \in Listed[t] : InWindow(t, i) =>
                 /\ At[i] \div Width[t] = k => start < 2 * At[i] /\ 2 * At[i] < WindowEnd(t, start)
                 /\ 2 * At[i] < WindowEnd(t, start) => 2 * At[i] < start \/ At[i] \div Width[t] = k
      <3> SUFFICES ASSUME NEW i \in Listed[t], InWindow(t, i)
                   PROVE  /\ At[i] \div w = k => start < 2 * At[i] /\ 2 * At[i] < WindowEnd(t, start)
                          /\ 2 * At[i] < WindowEnd(t, start) => 2 * At[i] < start \/ At[i] \div w = k
        BY DEF w
      <3>1. At[i] \in Nat /\ (At[i] \div w = k <=> b < At[i] /\ At[i] < e)
        BY <1>1, <2>5
      <3>2. At[i] # b
        <4>1. At[i] = b => At[i] % w = 0
          BY <1>1, <1>2, DivMod, <1>5, <3>1 DEF b
        <4> QED
          BY <4>1 DEF InWindow, w
      <3> QED
        BY <1>2, <1>3, <2>1, <3>1, <3>2
    <2> QED
      <3>1. WindowEnd(t, start) \in 0 .. EndOfDay
        BY <1>1, <1>2, <1>3, <2>1, <2>3
      <3> QED
        BY <2>3, <2>4, <2>6, <2>7, <3>1
  <1>7. CASE ~(e < DayLength)
    <2>1. WindowEnd(t, start) = EndOfDay
      BY <1>1, <1>2, <1>3, <1>7 DEF WindowEnd
    <2>2. EndOfDay \div 2 = DayLength - 1
      BY <1>1, <1>3, Halves
    <2>5. \A i \in Listed[t] : b < At[i] /\ At[i] < DayLength - 1 <=> InWindow(t, i) /\ At[i] \div w = k
      BY <1>1, <1>2, <1>5, <1>7 DEF InWindow, w
    <2>6. Window(t, start) = {i \in Listed[t] : InWindow(t, i) /\ At[i] \div Width[t] = k}
      BY <1>4, <2>1, <2>2, <2>5 DEF Window, Matches, w
    <2>7. \A i \in Listed[t] : InWindow(t, i) =>
                 /\ At[i] \div Width[t] = k => start < 2 * At[i] /\ 2 * At[i] < WindowEnd(t, start)
                 /\ 2 * At[i] < WindowEnd(t, start) => 2 * At[i] < start \/ At[i] \div Width[t] = k
      <3> SUFFICES ASSUME NEW i \in Listed[t], InWindow(t, i)
                   PROVE  /\ At[i] \div w = k => start < 2 * At[i] /\ 2 * At[i] < WindowEnd(t, start)
                          /\ 2 * At[i] < WindowEnd(t, start) => 2 * At[i] < start \/ At[i] \div w = k
        BY DEF w
      <3>1. At[i] \in Nat /\ At[i] < DayLength - 1 /\ (At[i] \div w = k <=> b < At[i])
        BY <1>1, <2>5 DEF InWindow
      <3>2. At[i] # b
        <4>1. At[i] = b => At[i] % w = 0
          BY <1>1, <1>2, DivMod, <1>5, <3>1 DEF b
        <4> QED
          BY <4>1 DEF InWindow, w
      <3> QED
        BY <1>1, <1>2, <1>3, <2>1, <3>1, <3>2
    <2> QED
      BY <1>1, <1>2, <1>3, <2>1, <2>6, <2>7 DEF Boundary
  <1> QED
    BY <1>6, <1>7

-----------------------------------------------------------------------------
(***************************************************************************)
(* Windows and pages, one after the other                                  *)
(***************************************************************************)

\* The covered items whose turn has come when page p of the window that begins
\* at start is asked for.
Turn(t, start, p) ==
    {i \in Covered[t] :
        \/ 2 * At[i] < start
        \/ /\ start < EndOfDay
           /\ i \in Window(t, start)
           /\ Rank(i, Window(t, start)) < p * PageSize}

LEMMA RankNat ==
    ASSUME NEW S \in SUBSET Items, NEW i \in Items
    PROVE  Rank(i, S) \in Nat
  <1>1. IsFiniteSet({j \in S : j > i})
    BY PagedAssumption, FS_Subset
  <1> QED
    BY <1>1, FS_CardinalityType DEF Rank

LEMMA CoveredListed ==
    ASSUME NEW t \in Types
    PROVE  /\ Covered[t] \subseteq Listed[t] /\ Covered[t] \subseteq Items
           /\ \A i \in Covered[t] : InWindow(t, i) /\ i \in Items /\ At[i] \in 0 .. DayLength - 1
  BY PagedAssumption DEF Covered

\* Of a window, the covered items are those the search API serves.
LEMMA CoveredServed ==
    ASSUME NEW t \in Types, NEW start \in Nat, Start(t, start)
    PROVE  /\ Window(t, start) \subseteq Items
           /\ Reachable(Window(t, start)) = Window(t, start) \cap Covered[t]
  <1>1. PICK k \in Nat : start = 2 * (Width[t] * k) /\ start < EndOfDay
    BY DEF Start
  <1> DEFINE S == Window(t, start)
  <1>2. S = {i \in Listed[t] : InWindow(t, i) /\ At[i] \div Width[t] = k}
    BY <1>1, Windows
  <1> HIDE DEF S
  <1>3. S \subseteq Items
    BY <1>2, PagedAssumption
  <1>4. ASSUME NEW i \in S PROVE i \in Covered[t] <=> Rank(i, S) < Served
    <2>1. {j \in Listed[t] :
               /\ InWindow(t, j)
               /\ At[j] \div Width[t] = At[i] \div Width[t]
               /\ j > i} = {j \in S : j > i}
      BY <1>2, <1>4
    <2> QED
      BY <1>2, <1>4, <2>1 DEF Covered, Rank
  <1>5. Reachable(S) = S \cap Covered[t]
    BY <1>4 DEF Reachable
  <1> QED
    BY <1>3, <1>5 DEF S

LEMMA PageServed ==
    ASSUME NEW S, NEW p
    PROVE  PageOf(S, p) \subseteq Reachable(S)
  BY DEF PageOf

\* At the first page of the first window no turn has come.
LEMMA TurnFirst ==
    ASSUME NEW t \in Types
    PROVE  Turn(t, 0, 0) = {} /\ Boundary(t, 0)
  <1>1. \A i \in Covered[t] : At[i] \in Nat
    BY CoveredListed
  <1>2. Start(t, 0)
    BY PagedAssumption DEF Start, EndOfDay
  <1>3. \A i \in Window(t, 0) : Rank(i, Window(t, 0)) \in Nat
    BY <1>2, CoveredServed, RankNat
  <1>4. 0 * PageSize = 0
    BY PagedAssumption
  <1> QED
    BY <1>1, <1>2, <1>3, <1>4 DEF Turn, Boundary

\* Who is on a page is of the window.
LEMMA InTheWindow ==
    ASSUME NEW t \in Types, NEW start \in Nat, Start(t, start)
    PROVE  /\ \A i \in Window(t, start) : i \in Listed[t] /\ InWindow(t, i) /\ start < 2 * At[i]
           /\ \A i \in Window(t, start) : 2 * At[i] < WindowEnd(t, start)
           /\ \A i \in Covered[t] : 2 * At[i] < WindowEnd(t, start) =>
                 2 * At[i] < start \/ i \in Window(t, start)
           /\ start < WindowEnd(t, start) /\ WindowEnd(t, start) \in 0 .. EndOfDay
           /\ Boundary(t, WindowEnd(t, start))
  <1>1. PICK k \in Nat : start = 2 * (Width[t] * k) /\ start < EndOfDay
    BY DEF Start
  <1> QED
    BY <1>1, Windows, CoveredListed

\* A page is of the items whose turn comes with it, and of no others.
LEMMA TurnPage ==
    ASSUME NEW t \in Types, NEW start \in Nat, NEW p \in Nat, Start(t, start)
    PROVE  /\ Turn(t, start, p + 1) = Turn(t, start, p) \cup PageOf(Window(t, start), p)
           /\ Turn(t, start, p) \cap PageOf(Window(t, start), p) = {}
  <1> DEFINE S == Window(t, start)
  <1>1. /\ S \subseteq Items /\ Reachable(S) = S \cap Covered[t] /\ start < EndOfDay
        /\ \A i \in S : Rank(i, S) \in Nat /\ At[i] \in Nat /\ start < 2 * At[i]
    <2>1. S \subseteq Items /\ Reachable(S) = S \cap Covered[t] /\ start < EndOfDay
      BY CoveredServed DEF Start
    <2>2. \A i \in S : At[i] \in Nat /\ start < 2 * At[i]
      <3>1. \A i \in S : start < 2 * At[i]
        BY InTheWindow
      <3>2. \A i \in Items : At[i] \in Nat
        BY PagedAssumption
      <3> QED
        BY <2>1, <3>1, <3>2
    <2>3. \A i \in S : Rank(i, S) \in Nat
      BY <2>1, RankNat
    <2> QED
      BY <2>1, <2>2, <2>3
  <1>2. p * PageSize \in Nat /\ (p + 1) * PageSize = p * PageSize + PageSize /\ PageSize \in Nat
    BY PagedAssumption
  <1>3. Turn(t, start, p) = {i \in Covered[t] : 2 * At[i] < start \/ (i \in S /\ Rank(i, S) < p * PageSize)}
    BY <1>1 DEF Turn
  <1>4. Turn(t, start, p + 1) =
            {i \in Covered[t] : 2 * At[i] < start \/ (i \in S /\ Rank(i, S) < (p + 1) * PageSize)}
    BY <1>1 DEF Turn
  <1>5. PageOf(S, p) =
            {i \in S \cap Covered[t] : p * PageSize <= Rank(i, S) /\ Rank(i, S) < (p + 1) * PageSize}
    BY <1>1 DEF PageOf
  <1> HIDE DEF S
  <1>6. Turn(t, start, p + 1) = Turn(t, start, p) \cup PageOf(S, p)
    BY <1>1, <1>2, <1>3, <1>4, <1>5
  <1>7. Turn(t, start, p) \cap PageOf(S, p) = {}
    BY <1>1, <1>2, <1>3, <1>5
  <1> QED
    BY <1>6, <1>7 DEF S

\* With the next window, the turn of all that is left of this one has come.
LEMMA TurnWindow ==
    ASSUME NEW t \in Types, NEW start \in Nat, NEW p \in Nat, Start(t, start)
    PROVE  Turn(t, WindowEnd(t, start), 0) =
               {i \in Covered[t] : 2 * At[i] < start \/ i \in Window(t, start)}
  <1> DEFINE end == WindowEnd(t, start)
  <1>1. /\ \A i \in Covered[t] : At[i] \in Nat
        /\ \A i \in Window(t, start) : 2 * At[i] < end
        /\ \A i \in Covered[t] : 2 * At[i] < end => 2 * At[i] < start \/ i \in Window(t, start)
        /\ start < end /\ end \in Nat /\ Boundary(t, end)
    BY CoveredListed, InTheWindow
  <1> HIDE DEF end
  <1>2. end < EndOfDay => \A i \in Window(t, end) : ~(Rank(i, Window(t, end)) < 0 * PageSize)
    <2>1. end < EndOfDay => Start(t, end)
      BY <1>1, PagedAssumption DEF Boundary, EndOfDay
    <2>2. 0 * PageSize = 0
      BY PagedAssumption
    <2> QED
      BY <1>1, <2>1, <2>2, CoveredServed, RankNat
  <1>3. Turn(t, end, 0) = {i \in Covered[t] : 2 * At[i] < end}
    BY <1>2 DEF Turn
  <1> QED
    BY <1>1, <1>3 DEF end

LEMMA TurnLast ==
    ASSUME NEW t \in Types, NEW start \in Nat, NEW p \in Nat, Start(t, start),
           IsLast(Window(t, start), p)
    PROVE  Turn(t, WindowEnd(t, start), 0) = Turn(t, start, p + 1)
  <1>1. \A i \in Window(t, start) \cap Covered[t] : Rank(i, Window(t, start)) < (p + 1) * PageSize
    BY CoveredServed DEF IsLast
  <1> QED
    BY <1>1, TurnWindow DEF Turn, Start

LEMMA TurnSkip ==
    ASSUME NEW t \in Types, NEW start \in Nat, NEW p \in Nat, Start(t, start)
    PROVE  Turn(t, start, p) \subseteq Turn(t, WindowEnd(t, start), 0)
  BY TurnWindow DEF Turn

\* After the last window every turn has come.
LEMMA TurnAll ==
    ASSUME NEW t \in Types, NEW p \in Nat
    PROVE  Turn(t, EndOfDay, p) = Covered[t]
  <1>1. \A i \in Covered[t] : 2 * At[i] < EndOfDay
    BY CoveredListed, PagedAssumption DEF EndOfDay
  <1> QED
    BY <1>1 DEF Turn

-----------------------------------------------------------------------------
(***************************************************************************)
(* What fetch_type has collected                                           *)
(***************************************************************************)

\* Inside fetch_type, an invocation has the items whose turn has come, or a
\* part of them once an error was logged; outside, it has none.
Fetched(r) ==
    /\ count[r] = Cardinality(all[r])
    /\ pc[r] \in {"idle", "upload"} => from[r] = 0 /\ page[r] = 0 /\ all[r] = {}
    /\ pc[r] = "fetch" /\ cur[r] \in Types =>
           /\ Boundary(cur[r], from[r])
           /\ all[r] \subseteq Turn(cur[r], from[r], page[r])
           /\ cur[r] \notin logged[r] => all[r] = Turn(cur[r], from[r], page[r])
    /\ logged[r] # {} => "fetch" \in Faults

FetchedInv == TypeOK /\ \A r \in Runs : Fetched(r)

LEMMA TypesOfPaged ==
    ASSUME TypeOK
    PROVE  /\ DOMAIN pc = Runs /\ cur \in [Runs -> 1 .. NTypes + 1]
           /\ from \in [Runs -> 0 .. EndOfDay] /\ page \in [Runs -> Nat]
           /\ all \in [Runs -> SUBSET Items] /\ count \in [Runs -> Nat]
           /\ logged \in [Runs -> SUBSET Types] /\ waits \in [Runs -> 0 .. MaxWaits]
           /\ hits \in [Runs -> SUBSET Items] /\ found \in [Runs -> SUBSET Types]
           /\ DOMAIN bronze = Types
           /\ \A r \in Runs : pc[r] = "upload" => cur[r] \in Types
  BY DEF TypeOK, Coarse!TypeOK, Coarse!Types, Types

LEMMA FiniteItems ==
    ASSUME NEW S \in SUBSET Items
    PROVE  IsFiniteSet(S) /\ Cardinality(S) \in Nat
  BY PagedAssumption, FS_Subset, FS_CardinalityType

\* Where a running fetch_type is.
LEMMA FetchAt ==
    ASSUME FetchedInv, NEW r \in Runs, InFetch(r)
    PROVE  /\ cur[r] \in Types /\ from[r] \in Nat /\ page[r] \in Nat /\ pc[r] = "fetch"
           /\ Start(cur[r], from[r])
           /\ Query(r) = Window(cur[r], from[r])
           /\ End(r) = WindowEnd(cur[r], from[r])
           /\ Query(r) \subseteq Items /\ PageOf(Query(r), page[r]) \subseteq Items
           /\ End(r) \in 0 .. EndOfDay
  <1>1. /\ cur[r] \in Types /\ from[r] \in Nat /\ page[r] \in Nat /\ pc[r] = "fetch"
        /\ Start(cur[r], from[r])
    BY TypesOfPaged, PagedAssumption DEF FetchedInv, Fetched, InFetch, Boundary, EndOfDay
  <1>2. Query(r) = Window(cur[r], from[r]) /\ End(r) = WindowEnd(cur[r], from[r])
    BY DEF Query, Window, End
  <1>3. Query(r) \subseteq Items /\ End(r) \in 0 .. EndOfDay
    BY <1>1, <1>2, CoveredServed, InTheWindow
  <1>4. PageOf(Query(r), page[r]) \subseteq Items
    BY <1>3 DEF PageOf, Reachable
  <1> QED
    BY <1>1, <1>2, <1>3, <1>4

LEMMA InitFetched == Init => FetchedInv
  <1> SUFFICES ASSUME Init PROVE FetchedInv
    OBVIOUS
  <1>1. 0 \in 0 .. EndOfDay /\ 0 \in 0 .. MaxWaits /\ 1 \in 1 .. NTypes + 1
    BY PagedAssumption DEF EndOfDay
  <1>2. TypeOK
    BY <1>1, PagedAssumption
       DEF Init, TypeOK, Types, Coarse!Init, Coarse!TypeOK, Coarse!Types, Coarse!File,
           Coarse!Active, Coarse!Ended
  <1>3. \A r \in Runs : Fetched(r)
    BY FS_EmptySet DEF Init, Coarse!Init, Fetched
  <1> QED
    BY <1>2, <1>3 DEF FetchedInv

\* What a step that is not inside fetch_type leaves alone, and where it leads.
LEMMA OutsideFetch ==
    ASSUME FetchedInv, NEW r \in Runs, Begin(r) \/ Coarsely(r) \/ Kill(r) \/ OutOfTime(r)
    PROVE  /\ UNCHANGED fvars
           /\ \A q \in Runs \ {r} : pc'[q] = pc[q] /\ cur'[q] = cur[q]
           /\ pc'[r] \notin {"idle", "upload"}
           /\ pc'[r] = "fetch" => pc[r] \in {"idle", "upload"}
  <1> USE TypesOfPaged DEF FetchedInv
  <1>1. CASE Begin(r)
    BY <1>1 DEF Begin, Coarse!Begin
  <1>2. CASE Kill(r) \/ OutOfTime(r)
    BY <1>2 DEF Kill, Coarse!Kill, OutOfTime, fvars
  <1>3. CASE Coarsely(r)
    BY <1>3 DEF Coarsely, Coarse!FetchRaises, Coarse!Upload, Coarse!UploadRaises, Coarse!NoData,
       Coarse!PutMarker, Coarse!PutMarkerRaises, Coarse!RollbackKey, Coarse!Fail
  <1> QED
    BY <1>1, <1>2, <1>3

\* What all_items becomes is counted as it grows, as a page has nothing of it.
LEMMA ExtendCounts ==
    ASSUME FetchedInv, NEW r \in Runs, InFetch(r), Extend(r)
    PROVE  /\ all'[r] = all[r] \cup PageOf(Query(r), page[r])
           /\ count'[r] = Cardinality(all'[r])
           /\ \A q \in Runs \ {r} : all'[q] = all[q] /\ count'[q] = count[q]
           /\ all' \in [Runs -> SUBSET Items] /\ count' \in [Runs -> Nat]
  <1> DEFINE new == PageOf(Query(r), page[r])
  <1>1. /\ new \subseteq Items /\ all[r] \subseteq Items
        /\ all \in [Runs -> SUBSET Items] /\ count \in [Runs -> Nat]
    BY FetchAt, TypesOfPaged DEF FetchedInv
  <1>2. all[r] \cap new = {}
    BY FetchAt, TurnPage DEF FetchedInv, Fetched
  <1>3. Cardinality(all[r] \cup new) = Cardinality(all[r]) + Cardinality(new)
    <2>1. /\ IsFiniteSet(all[r]) /\ Cardinality(all[r]) \in Nat
          /\ IsFiniteSet(new) /\ Cardinality(new) \in Nat
      BY <1>1, FiniteItems
    <2>2. Cardinality(all[r] \cup new) =
              Cardinality(all[r]) + Cardinality(new) - Cardinality(all[r] \cap new)
      BY <2>1, FS_Union
    <2> QED
      BY <1>2, <2>1, <2>2, FS_EmptySet
  <1>4. Cardinality(all[r] \cup new) \in Nat /\ Cardinality(new) \in Nat
    BY <1>1, FiniteItems
  <1>5. count[r] = Cardinality(all[r])
    BY DEF FetchedInv, Fetched
  <1> QED
    BY <1>1, <1>3, <1>4, <1>5 DEF Extend

\* A page, the last page or a failed one leaves fetch_type where it should be.
LEMMA PagesFetched ==
    ASSUME FetchedInv, NEW r \in Runs, Page(r) \/ LastPage(r) \/ PageFails(r)
    PROVE  Fetched(r)'
  <1> DEFINE t == cur[r]
             start == from[r]
             p == page[r]
             new == PageOf(Window(t, start), p)
  <1>1. InFetch(r) /\ pc' = pc /\ cur' = cur
    BY DEF Page, LastPage, PageFails, bvars
  <1>2. /\ t \in Types /\ start \in Nat /\ p \in Nat /\ pc[r] = "fetch"
        /\ Start(t, start) /\ Query(r) = Window(t, start) /\ End(r) = WindowEnd(t, start)
    BY <1>1, FetchAt
  <1>3. /\ all[r] \subseteq Turn(t, start, p)
        /\ t \notin logged[r] => all[r] = Turn(t, start, p)
        /\ count[r] = Cardinality(all[r])
        /\ logged[r] # {} => "fetch" \in Faults
        /\ Boundary(t, start)
    BY <1>2 DEF FetchedInv, Fetched
  <1>4. Turn(t, start, p + 1) = Turn(t, start, p) \cup new
    BY <1>2, TurnPage
  <1>5. Boundary(t, WindowEnd(t, start))
    BY <1>2, InTheWindow
  <1> HIDE DEF t, start, p, new
  <1>6. /\ from \in [Runs -> 0 .. EndOfDay] /\ page \in [Runs -> Nat]
        /\ logged \in [Runs -> SUBSET Types]
    BY TypesOfPaged DEF FetchedInv
  <1>7. CASE Page(r)
    <2>1. /\ all'[r] = all[r] \cup new /\ count'[r] = Cardinality(all'[r])
          /\ from' = from /\ page'[r] = p + 1 /\ logged' = logged
      BY <1>1, <1>2, <1>6, <1>7, ExtendCounts DEF Page, t, start, p, new
    <2>2. cur'[r] = t /\ from'[r] = start
      BY <1>1, <2>1 DEF t, start
    <2>3. /\ all'[r] \subseteq Turn(t, start, p + 1)
          /\ t \notin logged[r] => all'[r] = Turn(t, start, p + 1)
      BY <1>3, <1>4, <2>1
    <2> QED
      BY <1>1, <1>2, <1>3, <2>1, <2>2, <2>3 DEF Fetched, Boundary, Start, Turn
  <1>8. CASE LastPage(r)
    <2>1. /\ all'[r] = all[r] \cup new /\ count'[r] = Cardinality(all'[r])
          /\ from'[r] = WindowEnd(t, start) /\ page'[r] = 0 /\ logged' = logged
      BY <1>1, <1>2, <1>6, <1>8, ExtendCounts DEF LastPage, NextWindow, t, start, p, new
    <2>2. Turn(t, WindowEnd(t, start), 0) = Turn(t, start, p + 1)
      BY <1>2, <1>8, TurnLast DEF LastPage, t, start, p
    <2>3. /\ all'[r] \subseteq Turn(t, WindowEnd(t, start), 0)
          /\ t \notin logged[r] => all'[r] = Turn(t, WindowEnd(t, start), 0)
      BY <1>3, <1>4, <2>1, <2>2
    <2>4. cur'[r] = t
      BY <1>1 DEF t
    <2> QED
      BY <1>1, <1>2, <1>3, <1>5, <2>1, <2>3, <2>4 DEF Fetched, Boundary, Start, Turn
  <1>9. CASE PageFails(r)
    <2>1. /\ all' = all /\ count' = count /\ from'[r] = WindowEnd(t, start) /\ page'[r] = 0
          /\ t \in logged'[r] /\ "fetch" \in Faults
      BY <1>2, <1>6, <1>9 DEF PageFails, NextWindow, t, start
    <2>2. all'[r] \subseteq Turn(t, WindowEnd(t, start), 0)
      BY <1>2, <1>3, <2>1, TurnSkip
    <2>3. cur'[r] = t
      BY <1>1 DEF t
    <2> QED
      BY <1>1, <1>2, <1>3, <1>5, <2>1, <2>2, <2>3 DEF Fetched, Boundary, Start, Turn
  <1> QED
    BY <1>7, <1>8, <1>9

LEMMA NextFetched ==
    ASSUME FetchedInv, [Next]_vars
    PROVE  \A r \in Runs : Fetched(r)'
  <1> SUFFICES ASSUME NEW q \in Runs PROVE Fetched(q)'
    OBVIOUS
  <1>0. Fetched(q) /\ TypeOK
    BY DEF FetchedInv
  \* An invocation that does not step stays as it is.
  <1>1. ASSUME /\ pc'[q] = pc[q] /\ cur'[q] = cur[q] /\ from'[q] = from[q] /\ page'[q] = page[q]
               /\ all'[q] = all[q] /\ count'[q] = count[q] /\ logged'[q] = logged[q]
        PROVE  Fetched(q)'
    BY <1>0, <1>1 DEF Fetched, Boundary, Start, Turn
  \* One that has collected nothing is where the first window begins.
  <1>2. ASSUME /\ from'[q] = 0 /\ page'[q] = 0 /\ all'[q] = {} /\ count'[q] = 0
               /\ logged'[q] = logged[q]
        PROVE  Fetched(q)'
    <2>1. \A t \in Types : Turn(t, 0, 0) = {} /\ Boundary(t, 0)
      BY TurnFirst
    <2> QED
      BY <1>0, <1>2, <2>1, FS_EmptySet DEF Fetched, Boundary, Start, Turn
  <1>3. CASE UNCHANGED vars
    BY <1>1, <1>3 DEF vars, bvars, fvars
  <1>4. ASSUME NEW r \in Runs, Begin(r) \/ Coarsely(r) \/ Kill(r) \/ OutOfTime(r) PROVE Fetched(q)'
    <2>1. /\ UNCHANGED fvars
          /\ q # r => pc'[q] = pc[q] /\ cur'[q] = cur[q]
          /\ pc'[r] \notin {"idle", "upload"}
          /\ pc'[r] = "fetch" => pc[r] \in {"idle", "upload"}
      BY <1>4, OutsideFetch
    <2>2. CASE q # r
      BY <1>1, <2>1, <2>2 DEF fvars
    <2>3. CASE q = r /\ pc'[r] = "fetch"
      BY <1>0, <1>2, <2>1, <2>3, FS_EmptySet DEF Fetched, fvars
    <2>4. CASE q = r /\ pc'[r] # "fetch"
      BY <1>0, <2>1, <2>4 DEF Fetched, fvars
    <2> QED
      BY <2>2, <2>3, <2>4
  <1>5. ASSUME NEW r \in Runs, Page(r) \/ LastPage(r) \/ PageFails(r) PROVE Fetched(q)'
    <2>1. CASE q = r
      BY <1>5, <2>1, PagesFetched
    <2>2. CASE q # r
      <3>1. InFetch(r) /\ pc' = pc /\ cur' = cur
        BY <1>5 DEF Page, LastPage, PageFails, bvars
      <3>2. all'[q] = all[q] /\ count'[q] = count[q]
        BY <1>5, <2>2, <3>1, ExtendCounts DEF Page, LastPage, PageFails
      <3>3. from'[q] = from[q] /\ page'[q] = page[q] /\ logged'[q] = logged[q]
        BY <1>0, <1>5, <2>2, TypesOfPaged DEF Page, LastPage, PageFails, NextWindow
      <3> QED
        BY <1>1, <3>1, <3>2, <3>3
    <2> QED
      BY <2>1, <2>2
  <1>6. ASSUME NEW r \in Runs, Busy(r) PROVE Fetched(q)'
    BY <1>1, <1>6 DEF Busy, bvars
  <1>7. ASSUME NEW r \in Runs, Collected(r) \/ CollectedNothing(r) PROVE Fetched(q)'
    <2>1. CASE q = r
      BY <1>0, <1>2, <1>7, <2>1, TypesOfPaged DEF Collected, CollectedNothing, Restart
    <2>2. CASE q # r
      BY <1>0, <1>1, <1>7, <2>2, TypesOfPaged DEF Collected, CollectedNothing, Restart
    <2> QED
      BY <2>1, <2>2
  <1> QED
    BY <1>3, <1>4, <1>5, <1>6, <1>7 DEF Next, Step

-----------------------------------------------------------------------------
(***************************************************************************)
(* The steps of Ingestion                                                  *)
(***************************************************************************)

\* What a loop that is through with its windows may return, Ingestion may fetch.
LEMMA FinishedFetchable ==
    ASSUME FetchedInv, NEW r \in Runs, Finished(r)
    PROVE  all[r] \in Coarse!Fetchable(cur[r]) /\ cur[r] \in Types /\ pc[r] = "fetch"
  <1>1. cur[r] \in Types /\ pc[r] = "fetch" /\ page[r] \in Nat
    BY TypesOfPaged DEF Finished, FetchedInv
  <1>2. from[r] = EndOfDay
    BY TypesOfPaged, PagedAssumption DEF Finished, FetchedInv, EndOfDay
  <1>3. Turn(cur[r], from[r], page[r]) = Covered[cur[r]]
    BY <1>1, <1>2, TurnAll
  <1>4. /\ all[r] \subseteq Covered[cur[r]]
        /\ cur[r] \notin logged[r] => all[r] = Covered[cur[r]]
        /\ logged[r] # {} => "fetch" \in CoarseFaults
    BY <1>1, <1>3 DEF FetchedInv, Fetched, CoarseFaults
  <1> QED
    BY <1>1, <1>4 DEF Coarse!Fetchable

LEMMA StepIsCoarse ==
    ASSUME FetchedInv, [Next]_vars
    PROVE  [Coarse!Next]_(Coarse!vars)
  <1>1. CASE UNCHANGED vars
    BY <1>1 DEF vars, bvars, Coarse!vars
  <1>2. ASSUME NEW r \in Runs, Page(r) \/ LastPage(r) \/ PageFails(r) \/ Busy(r)
        PROVE  UNCHANGED Coarse!vars
    BY <1>2 DEF Page, LastPage, PageFails, Busy, bvars, Coarse!vars
  <1>3. ASSUME NEW r \in Runs, Collected(r) PROVE Coarse!Step(r)
    <2>1. Coarse!Fetch(r)
      <3>1. Finished(r) /\ all[r] # {}
        BY <1>3 DEF Collected
      <3>2. all[r] \in Coarse!Fetchable(cur[r]) \ {{}} /\ cur[r] \in Types /\ pc[r] = "fetch"
        BY <3>1, FinishedFetchable
      <3> QED
        BY <1>3, <3>2 DEF Collected, Coarse!Fetch, Coarse!Types, Types
    <2> QED
      BY <2>1 DEF Coarse!Step
  <1>4. ASSUME NEW r \in Runs, CollectedNothing(r) PROVE Coarse!Step(r)
    <2>1. Coarse!FetchNothing(r)
      <3>1. Finished(r) /\ all[r] = {}
        BY <1>4 DEF CollectedNothing
      <3>2. {} \in Coarse!Fetchable(cur[r]) /\ cur[r] \in Types /\ pc[r] = "fetch"
        BY <3>1, FinishedFetchable
      <3> QED
        BY <1>4, <3>2 DEF CollectedNothing, Coarse!FetchNothing, Coarse!Types, Types
    <2> QED
      BY <2>1 DEF Coarse!Step
  <1>5. ASSUME NEW r \in Runs, Coarsely(r) PROVE Coarse!Step(r)
    BY <1>5 DEF Coarsely, Coarse!Step
  <1>6. ASSUME NEW r \in Runs, Begin(r) PROVE Coarse!Begin(r)
    BY <1>6 DEF Begin
  <1>7. ASSUME NEW r \in Runs, Kill(r) \/ OutOfTime(r) PROVE Coarse!Kill(r)
    BY <1>7 DEF Kill, OutOfTime, InFetch, CoarseFaults, Coarse!Kill, Coarse!Active
  <1> QED
    BY <1>1, <1>2, <1>3, <1>4, <1>5, <1>6, <1>7 DEF Next, Step, Coarse!Next

\* Ingestion, as IngestionProofs speaks of it.
LEMMA CoarseAssumption == CoarseProofs!IngestionAssumption
  <1>1. Covered \in [Types -> SUBSET Items]
    BY PagedAssumption DEF Covered
  <1>2. CoarseFaults \subseteq CoarseProofs!FaultKinds
    BY PagedAssumption DEF CoarseFaults, CoarseProofs!FaultKinds
  <1> QED
    BY <1>1, <1>2, PagedAssumption
       DEF CoarseProofs!IngestionAssumption, CoarseProofs!Types, Types, CoarseProofs!File

LEMMA SameStep == [Coarse!Next]_(Coarse!vars) => [CoarseProofs!Next]_(CoarseProofs!vars)
  BY DEF Coarse!vars, Coarse!Types, Coarse!Active, Coarse!Next, Coarse!Step, Coarse!Begin,
     Coarse!Fetchable, Coarse!Fetch, Coarse!FetchNothing, Coarse!FetchRaises,
     Coarse!Upload, Coarse!UploadRaises, Coarse!NoData, Coarse!PutMarker,
     Coarse!PutMarkerRaises, Coarse!RollbackKey, Coarse!Fail, Coarse!Kill,
     CoarseProofs!vars, CoarseProofs!Types, CoarseProofs!Active, CoarseProofs!Next,
     CoarseProofs!Step, CoarseProofs!Begin, CoarseProofs!Fetchable, CoarseProofs!Fetch,
     CoarseProofs!FetchNothing, CoarseProofs!FetchRaises, CoarseProofs!Upload,
     CoarseProofs!UploadRaises, CoarseProofs!NoData, CoarseProofs!PutMarker,
     CoarseProofs!PutMarkerRaises, CoarseProofs!RollbackKey, CoarseProofs!Fail,
     CoarseProofs!Kill

LEMMA SameTypes ==
    /\ Coarse!TypeOK <=> CoarseProofs!TypeOK
    /\ Coarse!TypeOK' <=> CoarseProofs!TypeOK'
  BY DEF Coarse!TypeOK, Coarse!Types, Coarse!File, Coarse!Active, Coarse!Ended,
     CoarseProofs!TypeOK, CoarseProofs!Types, CoarseProofs!File, CoarseProofs!Active,
     CoarseProofs!Ended

LEMMA SameInit == Coarse!Init => CoarseProofs!Init
  BY DEF Coarse!Init, CoarseProofs!Init, Coarse!Types, CoarseProofs!Types

LEMMA NextTypes ==
    ASSUME FetchedInv, [Next]_vars
    PROVE  TypeOK'
  <1>1. Coarse!TypeOK'
    BY StepIsCoarse, SameStep, SameTypes, CoarseAssumption, CoarseProofs!NextType
       DEF FetchedInv, TypeOK
  <1> DEFINE Own == /\ from \in [Runs -> 0 .. EndOfDay]
                    /\ page \in [Runs -> Nat]
                    /\ all \in [Runs -> SUBSET Items]
                    /\ count \in [Runs -> Nat]
                    /\ logged \in [Runs -> SUBSET Types]
                    /\ waits \in [Runs -> 0 .. MaxWaits]
  <1>2. Own /\ cur \in [Runs -> 1 .. NTypes + 1]
    BY TypesOfPaged DEF FetchedInv
  <1>3. UNCHANGED fvars => Own'
    BY <1>2 DEF fvars
  <1>4. ASSUME NEW r \in Runs, Page(r) \/ LastPage(r) \/ PageFails(r) PROVE Own'
    <2>1. InFetch(r)
      BY <1>4 DEF Page, LastPage, PageFails
    <2>2. cur[r] \in Types /\ End(r) \in 0 .. EndOfDay /\ page[r] \in Nat
      BY <2>1, FetchAt
    <2>3. 0 \in Nat /\ page[r] + 1 \in Nat
      BY <2>2
    <2>4. all' \in [Runs -> SUBSET Items] /\ count' \in [Runs -> Nat]
      BY <1>2, <1>4, <2>1, ExtendCounts DEF Page, LastPage, PageFails
    <2> QED
      BY <1>2, <1>4, <2>2, <2>3, <2>4 DEF Page, LastPage, PageFails, NextWindow
  <1>5. ASSUME NEW r \in Runs, Busy(r) PROVE Own'
    <2>1. waits[r] + 1 \in 0 .. MaxWaits
      BY <1>2, <1>5, PagedAssumption DEF Busy
    <2> QED
      BY <1>2, <1>5, <2>1 DEF Busy
  <1>6. ASSUME NEW r \in Runs, Collected(r) \/ CollectedNothing(r) PROVE Own'
    <2>1. 0 \in 0 .. EndOfDay
      BY PagedAssumption DEF EndOfDay
    <2> QED
      BY <1>2, <1>6, <2>1 DEF Collected, CollectedNothing, Restart
  <1>7. Own'
    <2> HIDE DEF Own
    <2>1. \A r \in Runs : Begin(r) \/ Coarsely(r) \/ Kill(r) \/ OutOfTime(r) => UNCHANGED fvars
      BY OutsideFetch
    <2> QED
      BY <1>3, <1>4, <1>5, <1>6, <2>1 DEF Next, Step, vars
  <1> QED
    BY <1>1, <1>7 DEF TypeOK

LEMMA FetchedInvariance == Spec => []FetchedInv
  <1>1. FetchedInv /\ [Next]_vars => FetchedInv'
    BY NextFetched, NextTypes DEF FetchedInv
  <1> QED
    BY <1>1, InitFetched, PTL DEF Spec

\* The variables keep their types: no window begins past the end of the day,
\* whatever the width (lambda_function.py:97), and no upload is of a type past
\* the last.
THEOREM PagedTypes == Spec => []TypeOK
  BY FetchedInvariance, PTL DEF FetchedInv

\* len(all_items), which the file gives as total_items, is the number of the
\* items it has: windows and pages overlap in none (lambda_function.py:145).
THEOREM EachItemOnce == Spec => []NothingTwice
  <1>1. FetchedInv => NothingTwice
    BY DEF FetchedInv, Fetched, NothingTwice
  <1> QED
    BY <1>1, FetchedInvariance, PTL

\* The loop over windows and pages is the single step Ingestion takes for it.
THEOREM PagesImplementIngestion == Spec => ImplementsIngestion
  <1>1. Init => Coarse!Init
    BY DEF Init
  <1> QED
    BY <1>1, FetchedInvariance, StepIsCoarse, PTL DEF Spec, ImplementsIngestion, Coarse!Spec

LEMMA CoarseSpec == Spec => CoarseProofs!Spec
  <1>1. Init => CoarseProofs!Init
    BY SameInit DEF Init
  <1> QED
    BY <1>1, FetchedInvariance, StepIsCoarse, SameStep, PTL DEF Spec, CoarseProofs!Spec

\* Under the deployed role, which may not delete, what a marker promises is
\* there, however the pages come in and whatever fails (lambda_function.py:257).
THEOREM PagedKeepsPublished ==
    ASSUME CanDelete = FALSE
    PROVE  Spec => []PublishedFilesPresent
  <1>1. CoarseProofs!Spec => []CoarseProofs!PublishedFilesPresent
    BY CoarseAssumption, CoarseProofs!DeployedKeepsPublished
  <1>2. CoarseProofs!PublishedFilesPresent => PublishedFilesPresent
    BY DEF CoarseProofs!PublishedFilesPresent, CoarseProofs!Exists,
           PublishedFilesPresent, Coarse!PublishedFilesPresent, Coarse!Exists
  <1> QED
    BY <1>1, <1>2, CoarseSpec, PTL

-----------------------------------------------------------------------------
(***************************************************************************)
(* What is lost is logged                                                  *)
(***************************************************************************)

\* A set of items of type t got by r is all of it, or an error was logged.
Heard(r, t, items) ==
    \/ items = Covered[t]
    \/ items \subseteq Covered[t] /\ t \in logged[r]

\* So for the objects that are there, for what is to be uploaded next, for the
\* types the loop is done with, and for all types of a run that put the marker.
LossInv ==
    /\ \A t \in Types : bronze[t] # NoFile => bronze[t].by \in Runs /\ Heard(bronze[t].by, t, bronze[t].items)
    /\ \A r \in Runs :
          /\ pc[r] = "upload" => Heard(r, cur[r], hits[r]) /\ cur[r] \in found[r]
          /\ pc[r] = "idle" => cur[r] = 1
          /\ pc[r] \in {"idle", "fetch", "upload"} =>
                \A t \in Types : t < cur[r] => t \in found[r] \/ Heard(r, t, {})
          /\ r \in marker => \A t \in Types : t \in found[r] \/ Heard(r, t, {})

\* Nothing is unlogged, and no type found is forgotten.
LEMMA HeardForGood ==
    ASSUME FetchedInv, [Next]_vars, NEW r \in Runs
    PROVE  /\ found[r] \subseteq found'[r]
           /\ \A t, items : Heard(r, t, items) => Heard(r, t, items)'
  <1>1. /\ found \in [Runs -> SUBSET Types] /\ logged \in [Runs -> SUBSET Types]
    BY TypesOfPaged DEF FetchedInv
  <1>2. CASE UNCHANGED vars
    BY <1>2 DEF vars, bvars, fvars, Heard
  <1>3. ASSUME NEW q \in Runs, Begin(q) \/ Coarsely(q) \/ Kill(q) \/ OutOfTime(q)
        PROVE  UNCHANGED <<found, logged>>
    <2>1. UNCHANGED logged
      BY <1>3, OutsideFetch DEF fvars
    <2>2. UNCHANGED found
      BY <1>3 DEF Begin, Kill, OutOfTime, Coarsely, Coarse!Begin, Coarse!Kill, Coarse!FetchRaises,
         Coarse!Upload, Coarse!UploadRaises, Coarse!NoData, Coarse!PutMarker,
         Coarse!PutMarkerRaises, Coarse!RollbackKey, Coarse!Fail
    <2> QED
      BY <2>1, <2>2
  <1>4. ASSUME NEW q \in Runs,
               Page(q) \/ LastPage(q) \/ PageFails(q) \/ Busy(q) \/ Collected(q) \/ CollectedNothing(q)
        PROVE  found[r] \subseteq found'[r] /\ logged[r] \subseteq logged'[r]
    BY <1>1, <1>4 DEF Page, LastPage, PageFails, Busy, Collected, CollectedNothing, bvars
  <1>5. found[r] \subseteq found'[r] /\ logged[r] \subseteq logged'[r]
    BY <1>2, <1>3, <1>4 DEF Next, Step, vars, bvars, fvars
  <1> QED
    BY <1>5 DEF Heard

\* What a loop that is through with its windows returns.
LEMMA FinishedHeard ==
    ASSUME FetchedInv, NEW r \in Runs, Finished(r)
    PROVE  cur[r] \in Types /\ Heard(r, cur[r], all[r])
  <1>1. /\ cur[r] \in Types /\ pc[r] = "fetch" /\ page[r] \in Nat /\ from[r] = EndOfDay
    BY TypesOfPaged, PagedAssumption DEF Finished, FetchedInv, EndOfDay
  <1>2. Turn(cur[r], from[r], page[r]) = Covered[cur[r]]
    BY <1>1, TurnAll
  <1> QED
    BY <1>1, <1>2 DEF FetchedInv, Fetched, Heard

LEMMA NextLoss ==
    ASSUME FetchedInv, LossInv, [Next]_vars
    PROVE  LossInv'
  <1> DEFINE Object(t) == bronze[t] # NoFile =>
                bronze[t].by \in Runs /\ Heard(bronze[t].by, t, bronze[t].items)
             Ready(r) == pc[r] = "upload" => Heard(r, cur[r], hits[r]) /\ cur[r] \in found[r]
             First(r) == pc[r] = "idle" => cur[r] = 1
             Behind(r) == pc[r] \in {"idle", "fetch", "upload"} =>
                \A t \in Types : t < cur[r] => t \in found[r] \/ Heard(r, t, {})
             Promised(r) == r \in marker => \A t \in Types : t \in found[r] \/ Heard(r, t, {})
  <1>1. /\ \A t \in Types : Object(t)
        /\ \A r \in Runs : Ready(r) /\ First(r) /\ Behind(r) /\ Promised(r)
    BY DEF LossInv
  <1>2. /\ cur \in [Runs -> 1 .. NTypes + 1] /\ DOMAIN pc = Runs /\ DOMAIN bronze = Types
        /\ hits \in [Runs -> SUBSET Items] /\ found \in [Runs -> SUBSET Types]
        /\ \A r \in Runs : pc[r] = "upload" => cur[r] \in Types
    BY TypesOfPaged DEF FetchedInv
  <1>3. \A r \in Runs : found[r] \subseteq found'[r]
    BY HeardForGood
  <1>4. \A r \in Runs : \A t, items : Heard(r, t, items) => Heard(r, t, items)'
    BY HeardForGood
  \* What is as it was is as it should be.
  <1>5. ASSUME NEW t \in Types, bronze'[t] = bronze[t] PROVE Object(t)'
    <2>1. CASE bronze[t] = NoFile
      BY <1>5, <2>1
    <2>2. CASE bronze[t] # NoFile
      <3>1. PICK r \in Runs : bronze[t].by = r
        BY <1>1, <2>2
      <3>2. PICK items : bronze[t].items = items
        OBVIOUS
      <3>3. Heard(r, t, items)'
        BY <1>1, <1>4, <2>2, <3>1, <3>2
      <3> QED
        BY <1>5, <3>1, <3>2, <3>3 DEF Heard
    <2> QED
      BY <2>1, <2>2
  <1>6. ASSUME NEW r \in Runs, pc'[r] = pc[r], cur'[r] = cur[r], hits'[r] = hits[r] PROVE Ready(r)'
    <2>1. PICK t \in 1 .. NTypes + 1, items \in SUBSET Items : cur[r] = t /\ hits[r] = items
      BY <1>2
    <2>2. pc[r] = "upload" => Heard(r, t, items)' /\ t \in found'[r]
      BY <1>1, <1>3, <1>4, <2>1
    <2> QED
      BY <1>6, <2>1, <2>2 DEF Heard
  <1>7. ASSUME NEW r \in Runs, cur'[r] = cur[r],
               pc'[r] \in {"idle", "fetch", "upload"} => pc[r] \in {"idle", "fetch", "upload"}
        PROVE  Behind(r)'
    BY <1>1, <1>3, <1>4, <1>7
  <1>8. ASSUME NEW r \in Runs, r \in marker' => r \in marker PROVE Promised(r)'
    BY <1>1, <1>3, <1>4, <1>8
  <1>9. ASSUME NEW r \in Runs, pc'[r] \notin {"idle", "fetch", "upload"}
        PROVE  Ready(r)' /\ First(r)' /\ Behind(r)'
    BY <1>9
  <1>10. ASSUME NEW r \in Runs, pc'[r] = pc[r], cur'[r] = cur[r], hits'[r] = hits[r]
         PROVE  Ready(r)' /\ First(r)' /\ Behind(r)'
    <2>1. First(r)'
      BY <1>1, <1>10
    <2> HIDE DEF Ready, First, Behind
    <2> QED
      BY <1>6, <1>7, <1>10, <2>1
  <1>11. ASSUME UNCHANGED <<bronze, marker, pc, cur, hits>> PROVE LossInv'
    <2> HIDE DEF Object, Ready, First, Behind, Promised
    <2>1. \A t \in Types : Object(t)'
      BY <1>5, <1>11
    <2>2. \A r \in Runs : Ready(r)' /\ First(r)' /\ Behind(r)' /\ Promised(r)'
      BY <1>8, <1>10, <1>11
    <2> QED
      BY <2>1, <2>2 DEF LossInv, Object, Ready, First, Behind, Promised
  \* A step of r after which it is neither in its loop nor idle.
  <1>12. ASSUME NEW r \in Runs, pc'[r] \notin {"idle", "fetch", "upload"},
                UNCHANGED <<cur, hits>>, \A q \in Runs \ {r} : pc'[q] = pc[q]
         PROVE  \A q \in Runs : Ready(q)' /\ First(q)' /\ Behind(q)'
    <2> HIDE DEF Ready, First, Behind
    <2> QED
      BY <1>9, <1>10, <1>12
  <1>13. ASSUME NEW r \in Runs,
                \/ Kill(r) \/ OutOfTime(r)
                \/ Coarsely(r) /\ (Coarse!FetchRaises(r) \/ Coarse!NoData(r) \/ Coarse!Fail(r))
         PROVE  LossInv'
    <2>1. /\ pc'[r] \notin {"idle", "fetch", "upload"} /\ UNCHANGED <<bronze, marker, cur, hits>>
          /\ \A q \in Runs \ {r} : pc'[q] = pc[q]
      BY <1>2, <1>13
         DEF Kill, OutOfTime, fvars, Coarse!Kill, Coarse!FetchRaises, Coarse!NoData, Coarse!Fail
    <2> HIDE DEF Object, Ready, First, Behind, Promised
    <2>2. \A t \in Types : Object(t)'
      BY <1>5, <2>1
    <2>3. \A q \in Runs : Ready(q)' /\ First(q)' /\ Behind(q)' /\ Promised(q)'
      BY <1>8, <1>12, <2>1
    <2> QED
      BY <2>2, <2>3 DEF LossInv, Object, Ready, First, Behind, Promised
  <1>14. ASSUME NEW r \in Runs, Begin(r) PROVE LossInv'
    <2>1. /\ pc[r] = "idle" /\ pc'[r] = "fetch" /\ UNCHANGED <<bronze, marker, cur, hits>>
          /\ \A q \in Runs \ {r} : pc'[q] = pc[q]
      BY <1>2, <1>14 DEF Begin, Coarse!Begin
    <2>2. Ready(r)' /\ First(r)'
      BY <2>1
    <2>3. Behind(r)'
      BY <1>7, <2>1
    <2> HIDE DEF Object, Ready, First, Behind, Promised
    <2>4. \A t \in Types : Object(t)'
      BY <1>5, <2>1
    <2>5. \A q \in Runs : Ready(q)' /\ First(q)' /\ Behind(q)' /\ Promised(q)'
      BY <1>8, <1>10, <2>1, <2>2, <2>3
    <2> QED
      BY <2>4, <2>5 DEF LossInv, Object, Ready, First, Behind, Promised
  <1>15. ASSUME NEW r \in Runs, Collected(r) \/ CollectedNothing(r) PROVE LossInv'
    <2>1. /\ pc[r] = "fetch" /\ UNCHANGED <<bronze, marker>>
          /\ \A q \in Runs \ {r} : pc'[q] = pc[q] /\ cur'[q] = cur[q] /\ hits'[q] = hits[q]
      BY <1>2, <1>15 DEF Collected, CollectedNothing, Finished
    <2>2. PICK t \in Types, items \in SUBSET Items :
             cur[r] = t /\ all[r] = items /\ Heard(r, t, items)
      BY <1>15, FinishedHeard, TypesOfPaged DEF FetchedInv, Collected, CollectedNothing
    <2>3. Heard(r, t, items)'
      BY <1>4, <2>2
    <2>4. Ready(r)' /\ First(r)' /\ Behind(r)'
      <3>1. CASE Collected(r)
        <4>1. /\ pc'[r] = "upload" /\ cur' = cur /\ hits'[r] = items /\ t \in found'[r]
          BY <1>2, <2>2, <3>1 DEF Collected
        <4>2. Ready(r)' /\ First(r)'
          BY <2>2, <2>3, <4>1 DEF Heard
        <4>3. Behind(r)'
          BY <1>7, <2>1, <4>1
        <4> QED
          BY <4>2, <4>3
      <3>2. CASE CollectedNothing(r)
        <4>1. /\ pc' = pc /\ cur'[r] = t + 1 /\ items = {}
          BY <1>2, <2>2, <3>2 DEF CollectedNothing
        <4>2. \A u \in Types : u < t + 1 => u < t \/ u = t
          BY DEF Types
        <4>3. Behind(r)'
          BY <1>1, <1>3, <1>4, <2>1, <2>2, <2>3, <4>1, <4>2
        <4> QED
          BY <2>1, <4>1, <4>3
      <3> QED
        BY <1>15, <3>1, <3>2
    <2> HIDE DEF Object, Ready, First, Behind, Promised
    <2>5. \A u \in Types : Object(u)'
      BY <1>5, <2>1
    <2>6. \A q \in Runs : Ready(q)' /\ First(q)' /\ Behind(q)' /\ Promised(q)'
      BY <1>8, <1>10, <2>1, <2>4
    <2> QED
      BY <2>5, <2>6 DEF LossInv, Object, Ready, First, Behind, Promised
  <1>16. ASSUME NEW r \in Runs, Coarse!Upload(r) \/ Coarse!UploadRaises(r) PROVE LossInv'
    <2>1. /\ pc[r] = "upload" /\ UNCHANGED <<marker, hits>>
          /\ \A q \in Runs \ {r} : pc'[q] = pc[q] /\ cur'[q] = cur[q]
      BY <1>2, <1>16 DEF Coarse!Upload, Coarse!UploadRaises
    <2>2. PICK t \in Types, items \in SUBSET Items :
             cur[r] = t /\ hits[r] = items /\ Heard(r, t, items) /\ t \in found[r]
      BY <1>1, <1>2, <2>1
    <2>3. Heard(r, t, items)'
      BY <1>4, <2>2
    <2>4. \A u \in Types : Object(u)'
      <3>1. /\ \A u \in Types \ {t} : bronze'[u] = bronze[u]
            /\ \/ bronze'[t] = bronze[t]
               \/ bronze'[t] = [by |-> r, items |-> items]
        BY <1>2, <1>16, <2>2 DEF Coarse!Upload, Coarse!UploadRaises
      <3>2. bronze'[t] = [by |-> r, items |-> items] => Object(t)'
        BY <2>3 DEF Heard
      <3> HIDE DEF Object
      <3> QED
        BY <1>5, <3>1, <3>2
    <2>5. Ready(r)' /\ First(r)' /\ Behind(r)'
      <3>1. CASE Coarse!Upload(r)
        <4>1. pc'[r] = "fetch" /\ cur'[r] = t + 1
          BY <1>2, <2>2, <3>1 DEF Coarse!Upload
        <4>2. \A u \in Types : u < t + 1 => u < t \/ u = t
          BY DEF Types
        <4> QED
          BY <1>1, <1>3, <1>4, <2>1, <2>2, <4>1, <4>2
      <3>2. CASE Coarse!UploadRaises(r)
        <4>1. pc'[r] = "rollback"
          BY <1>2, <3>2 DEF Coarse!UploadRaises
        <4> QED
          BY <1>9, <4>1
      <3> QED
        BY <1>16, <3>1, <3>2
    <2> HIDE DEF Object, Ready, First, Behind, Promised
    <2>6. \A q \in Runs : Ready(q)' /\ First(q)' /\ Behind(q)' /\ Promised(q)'
      BY <1>8, <1>10, <2>1, <2>5
    <2> QED
      BY <2>4, <2>6 DEF LossInv, Object, Ready, First, Behind, Promised
  <1>17. ASSUME NEW r \in Runs, Coarse!PutMarker(r) \/ Coarse!PutMarkerRaises(r) PROVE LossInv'
    <2>1. /\ pc[r] = "fetch" /\ cur[r] \notin Types /\ UNCHANGED <<bronze, cur, hits>>
          /\ pc'[r] \notin {"idle", "fetch", "upload"}
          /\ \A q \in Runs \ {r} : pc'[q] = pc[q] /\ (q \in marker' => q \in marker)
      BY <1>2, <1>17 DEF Coarse!PutMarker, Coarse!PutMarkerRaises, Coarse!Types, Types
    <2>2. \A t \in Types : t < cur[r]
      BY <1>2, <2>1, PagedAssumption DEF Types
    <2>3. Promised(r)'
      BY <1>1, <1>3, <1>4, <2>1, <2>2
    <2> HIDE DEF Object, Ready, First, Behind, Promised
    <2>4. \A t \in Types : Object(t)'
      BY <1>5, <2>1
    <2>5. \A q \in Runs : Ready(q)' /\ First(q)' /\ Behind(q)' /\ Promised(q)'
      BY <1>8, <1>12, <2>1, <2>3
    <2> QED
      BY <2>4, <2>5 DEF LossInv, Object, Ready, First, Behind, Promised
  <1>18. ASSUME NEW r \in Runs, Coarse!RollbackKey(r) PROVE LossInv'
    <2>1. UNCHANGED <<marker, pc, cur, hits>>
      BY <1>18 DEF Coarse!RollbackKey
    <2>2. \A t \in Types : bronze'[t] = bronze[t] \/ bronze'[t] = NoFile
      BY <1>2, <1>18 DEF Coarse!RollbackKey
    <2>3. \A t \in Types : bronze'[t] = NoFile => Object(t)'
      OBVIOUS
    <2> HIDE DEF Object, Ready, First, Behind, Promised
    <2>4. \A t \in Types : Object(t)'
      BY <1>5, <2>2, <2>3
    <2>5. \A q \in Runs : Ready(q)' /\ First(q)' /\ Behind(q)' /\ Promised(q)'
      BY <1>8, <1>10, <2>1
    <2> QED
      BY <2>4, <2>5 DEF LossInv, Object, Ready, First, Behind, Promised
  <1>19. CASE UNCHANGED vars \/ \E r \in Runs : Page(r) \/ LastPage(r) \/ PageFails(r) \/ Busy(r)
    BY <1>11, <1>19 DEF vars, bvars, Page, LastPage, PageFails, Busy
  <1>20. \A r \in Runs : Coarsely(r) =>
            \/ Coarsely(r) /\ (Coarse!FetchRaises(r) \/ Coarse!NoData(r) \/ Coarse!Fail(r))
            \/ Coarse!Upload(r) \/ Coarse!UploadRaises(r)
            \/ Coarse!PutMarker(r) \/ Coarse!PutMarkerRaises(r) \/ Coarse!RollbackKey(r)
    BY DEF Coarsely
  <1> HIDE DEF Object, Ready, First, Behind, Promised
  <1> QED
    BY <1>13, <1>14, <1>15, <1>16, <1>17, <1>18, <1>19, <1>20 DEF Next, Step

LEMMA LossInvariance == Spec => [](FetchedInv /\ LossInv)
  <1>1. Init => LossInv
    BY PagedAssumption
       DEF Init, Coarse!Init, Coarse!Types, LossInv, Types
  <1>2. FetchedInv /\ LossInv /\ [Next]_vars => LossInv'
    BY NextLoss
  <1> QED
    BY <1>1, <1>2, FetchedInvariance, PTL DEF Spec

\* What a failed page lost of a day is never both published and unlogged: the
\* file is what the windows cover, or the run that put it logged an error for
\* its type (lambda_function.py:114, 123).
THEOREM LossLogged == Spec => []LossIsLogged
  <1>1. FetchedInv /\ LossInv => LossIsLogged
    <2> SUFFICES ASSUME FetchedInv, LossInv PROVE LossIsLogged
      OBVIOUS
    <2>1. marker \subseteq Runs
      BY DEF FetchedInv, TypeOK, Coarse!TypeOK
    <2>2. \A r \in marker : \A t \in Types :
             Covered[t] # {} /\ t \notin found[r] => t \in logged[r]
      BY <2>1 DEF LossInv, Heard
    <2>3. \A t \in Types : bronze[t] # NoFile =>
             \/ bronze[t].items = Covered[t]
             \/ bronze[t].items \subseteq Covered[t] /\ t \in logged[bronze[t].by]
      BY DEF LossInv, Heard
    <2> QED
      BY <2>2, <2>3 DEF LossIsLogged
  <1> QED
    BY <1>1, LossInvariance, PTL

-----------------------------------------------------------------------------
(***************************************************************************)
(* What the windows cover, and the whole day                               *)
(***************************************************************************)

LEMMA NoFailedPage ==
    ASSUME "fetch" \notin Faults
    PROVE  "fetch" \notin CoarseFaults
  BY DEF CoarseFaults

\* When no page request fails and the role cannot delete, a published day holds
\* all that the windows cover, whatever 429s, puts, crashes and concurrent runs do.
THEOREM PagedPublishesCovered ==
    ASSUME "fetch" \notin Faults, CanDelete = FALSE
    PROVE  Spec => []Coarse!PublishedHoldsCovered
  <1>1. CoarseProofs!Spec => []CoarseProofs!PublishedHoldsCovered
    BY CoarseAssumption, NoFailedPage, CoarseProofs!PublishedCovered
  <1>2. CoarseProofs!PublishedHoldsCovered => Coarse!PublishedHoldsCovered
    BY DEF CoarseProofs!PublishedHoldsCovered, CoarseProofs!Exists, CoarseProofs!Types,
           Coarse!PublishedHoldsCovered, Coarse!Exists, Coarse!Types
  <1> QED
    BY <1>1, <1>2, CoarseSpec, PTL

\* The items of i's window, the one second at its edge left out by every query.
Beside(t, i) == {j \in Listed[t] : At[j] \div Width[t] = At[i] \div Width[t]}

\* No item of the day was created at an edge of a window or in the last second,
\* and no window has more items than the API serves of a query.
WindowsFit ==
    \A t \in Types : \A i \in Listed[t] :
        InWindow(t, i) /\ Cardinality(Beside(t, i)) <= Served

\* Then the windows cover the day.
LEMMA CoveredIsListed ==
    ASSUME WindowsFit, NEW t \in Types
    PROVE  Covered[t] = Listed[t]
  <1>1. ASSUME NEW i \in Listed[t] PROVE i \in Covered[t]
    <2> DEFINE N == {j \in Listed[t] :
                       /\ InWindow(t, j)
                       /\ At[j] \div Width[t] = At[i] \div Width[t]
                       /\ j > i}
    <2>1. i \in Items /\ i \in Nat /\ Beside(t, i) \subseteq Items
      BY PagedAssumption DEF Beside
    <2>2. N \subseteq Beside(t, i) \ {i} /\ i \in Beside(t, i)
      BY <2>1 DEF Beside
    <2>3. /\ IsFiniteSet(Beside(t, i)) /\ Cardinality(Beside(t, i)) \in Nat
          /\ IsFiniteSet(Beside(t, i) \ {i})
          /\ Cardinality(Beside(t, i) \ {i}) = Cardinality(Beside(t, i)) - 1
      BY <2>1, <2>2, FiniteItems, FS_RemoveElement
    <2> HIDE DEF N
    <2>4. Cardinality(N) \in Nat /\ Cardinality(N) <= Cardinality(Beside(t, i) \ {i})
      BY <2>2, <2>3, FS_Subset, FS_CardinalityType
    <2>5. Cardinality(N) < Served
      BY <2>3, <2>4, PagedAssumption DEF WindowsFit
    <2> QED
      BY <2>5 DEF N, Covered, WindowsFit
  <1> QED
    BY <1>1, CoveredListed

\* "Collects all items from HN for a given day" (lambda_function.py:4) holds of
\* every published file when no page request fails and the windows fit the
\* day; these are the only ways in which an item is missed.
THEOREM CollectsWhatFits ==
    ASSUME "fetch" \notin Faults, WindowsFit
    PROVE  Spec => []CollectsTheDay
  <1>1. CoarseProofs!Spec => [](CoarseProofs!RunsMissNothing /\ CoarseProofs!ObjectsMissNothing)
    BY CoarseAssumption, NoFailedPage, CoarseProofs!NothingMissedInvariance
  <1>2. CoarseProofs!ObjectsMissNothing => CollectsTheDay
    BY CoveredIsListed
       DEF CoarseProofs!ObjectsMissNothing, CoarseProofs!Exists, CoarseProofs!Types, Types,
           CollectsTheDay
  <1> QED
    BY <1>1, <1>2, CoarseSpec, PTL

\* Under a role without delete, moreover, no file is missing: then, and with
\* these assumptions only, _SUCCESS stands for every item of the day.
THEOREM PublishesWhatFits ==
    ASSUME "fetch" \notin Faults, CanDelete = FALSE, WindowsFit
    PROVE  Spec => [](marker # {} => \A t \in Types : Listed[t] # {} =>
                          bronze[t] # NoFile /\ bronze[t].items = Listed[t])
  <1>1. Coarse!PublishedHoldsCovered =>
            (marker # {} => \A t \in Types : Listed[t] # {} =>
                 bronze[t] # NoFile /\ bronze[t].items = Listed[t])
    BY CoveredIsListed DEF Coarse!PublishedHoldsCovered, Coarse!Exists, Coarse!Types, Types
  <1> QED
    BY <1>1, PagedPublishesCovered, PTL
=============================================================================
