--------------------------- MODULE PagedIngestion ---------------------------
(***************************************************************************)
(* The ingestion Lambda with the inside of fetch_type: the day is cut into *)
(* windows, each window is asked for page after page, a 429 is asked again *)
(* after two seconds, and a failed request counts as a last, empty page.   *)
(* Uploads, marker and rollback are those of Ingestion, which this module  *)
(* implements: there, fetching a type is a single step.                    *)
(*                                                                         *)
(* The search API is external.  It serves the newest Served hits of a      *)
(* query, newest first, in pages of hitsPerPage; the day is over when it   *)
(* is ingested, so the items are taken not to change meanwhile.            *)
(***************************************************************************)
EXTENDS Integers, FiniteSets

CONSTANTS
    Runs,       \* invocations of the ingestion Lambda for this day
    NTypes,     \* number of item types
    Items,      \* the day's items by objectID: a later item has a larger one
    Listed,     \* Listed[t]: the items the search API holds under type t
    At,         \* At[i]: created_at_i, in seconds since midnight
    DayLength,  \* seconds in a day, 86400
    Width,      \* Width[t]: window width in seconds (WINDOW_HOURS)
    PageSize,   \* HITS_PER_PAGE, 1000
    Served,     \* hits the API serves of one query, 1000
    MaxWaits,   \* two-second waits that fit into the Lambda's 300 s limit
    NoFile,     \* an absent object
    CanDelete,  \* whether the Lambda's role may call s3:DeleteObject
    Faults      \* the kinds of Ingestion, and "busy": the API answers 429

VARIABLES
    bronze, marker, pc, cur, hits, found, written,      \* see Ingestion
    from,    \* from[r]: window_start, in half seconds since midnight
    page,    \* page[r]: the page asked for next
    all,     \* all[r]: the items in all_items
    count,   \* count[r]: len(all_items)
    logged,  \* logged[r]: types for which fetch_page logged an error
    waits    \* waits[r]: how often the invocation slept after a 429

bvars == <<bronze, marker, pc, cur, hits, found, written>>
fvars == <<from, page, all, count, logged, waits>>
vars == <<bvars, fvars>>

Types == 1 .. NTypes

ASSUME PagedAssumption ==
    /\ NTypes \in Nat
    /\ Items \subseteq Nat /\ IsFiniteSet(Items)
    /\ Listed \in [Types -> SUBSET Items]
    /\ At \in [Items -> 0 .. DayLength - 1]
    /\ DayLength \in Nat \ {0}
    /\ Width \in [Types -> Nat \ {0}]
    /\ PageSize \in Nat \ {0}
    /\ Served \in Nat \ {0}
    /\ MaxWaits \in Nat
    /\ CanDelete \in BOOLEAN
    /\ Faults \subseteq {"fetch", "raise", "put", "put_unacked", "delete", "kill", "busy"}
    /\ NoFile \notin [by : Runs, items : SUBSET Items]

-----------------------------------------------------------------------------
(***************************************************************************)
(* Windows and pages                                                       *)
(***************************************************************************)

\* 23:59:59.999999, which int() will round down to the last second.
EndOfDay == 2 * DayLength - 1

\* Mutant of WindowEnd: the last window is not cut off at the end of the day.
WindowEndUncapped(t, start) == start + 2 * Width[t]

\* Where the window that begins at start ends.
WindowEnd(t, start) ==
    IF start + 2 * Width[t] < EndOfDay THEN start + 2 * Width[t] ELSE EndOfDay

\* Mutant of Matches: both bounds are included.
MatchesClosed(t, start, end) ==
    {i \in Listed[t] : start \div 2 <= At[i] /\ At[i] <= end \div 2}

\* What a query selects: both bounds are rounded down and excluded.
Matches(t, start, end) ==
    {i \in Listed[t] : start \div 2 < At[i] /\ At[i] < end \div 2}

\* How many hits of the query come before i.
Rank(i, S) == Cardinality({j \in S : j > i})

\* The hits that are served at all.
Reachable(S) == {i \in S : Rank(i, S) < Served}

\* The hits of page p.
PageOf(S, p) ==
    {i \in Reachable(S) : p * PageSize <= Rank(i, S) /\ Rank(i, S) < (p + 1) * PageSize}

\* Page p is the last one: page >= nbPages - 1.
IsLast(S, p) == \A i \in Reachable(S) : Rank(i, S) < (p + 1) * PageSize

\* What the windows of a type reach, said of each item by itself: it was not
\* created at a window's edge nor in the last second of the day, and few
\* enough items of its window are newer.
InWindow(t, i) == At[i] % Width[t] # 0 /\ At[i] < DayLength - 1

Covered ==
    [t \in Types |->
        {i \in Listed[t] :
            /\ InWindow(t, i)
            /\ Cardinality({j \in Listed[t] :
                   /\ InWindow(t, j)
                   /\ At[j] \div Width[t] = At[i] \div Width[t]
                   /\ j > i}) < Served}]

-----------------------------------------------------------------------------

\* A Lambda that sleeps too often reaches its limit: for Ingestion, a kill.
CoarseFaults == IF "busy" \in Faults THEN (Faults \ {"busy"}) \cup {"kill"} ELSE Faults

Coarse == INSTANCE Ingestion WITH Covered <- Covered, Faults <- CoarseFaults

TypeOK ==
    /\ Coarse!TypeOK
    /\ from \in [Runs -> 0 .. EndOfDay]
    /\ page \in [Runs -> Nat]
    /\ all \in [Runs -> SUBSET Items]
    /\ count \in [Runs -> Nat]
    /\ logged \in [Runs -> SUBSET Types]
    /\ waits \in [Runs -> 0 .. MaxWaits]

Init ==
    /\ Coarse!Init
    /\ from = [r \in Runs |-> 0]
    /\ page = [r \in Runs |-> 0]
    /\ all = [r \in Runs |-> {}]
    /\ count = [r \in Runs |-> 0]
    /\ logged = [r \in Runs |-> {}]
    /\ waits = [r \in Runs |-> 0]

\* The invocation is inside fetch_type, in a window.
InFetch(r) == pc[r] = "fetch" /\ cur[r] \in Types /\ from[r] < EndOfDay

End(r) == WindowEnd(cur[r], from[r])

Query(r) == Matches(cur[r], from[r], End(r))

\* all_items.extend(hits)
Extend(r) ==
    /\ all' = [all EXCEPT ![r] = @ \cup PageOf(Query(r), page[r])]
    /\ count' = [count EXCEPT ![r] = @ + Cardinality(PageOf(Query(r), page[r]))]

\* The loop over the pages is left for the next window.
NextWindow(r) ==
    /\ from' = [from EXCEPT ![r] = End(r)]
    /\ page' = [page EXCEPT ![r] = 0]

\* A page is answered, and it is not the last one.
Page(r) ==
    /\ InFetch(r)
    /\ ~IsLast(Query(r), page[r])
    /\ Extend(r)
    /\ page' = [page EXCEPT ![r] = @ + 1]
    /\ UNCHANGED <<bvars, from, logged, waits>>

\* Mutant of LastPage: the loop ends one page early.
LastPageEarly(r) ==
    /\ InFetch(r)
    /\ IsLast(Query(r), page[r] + 1)
    /\ Extend(r)
    /\ NextWindow(r)
    /\ UNCHANGED <<bvars, logged, waits>>

\* The last page of a window is answered.
LastPage(r) ==
    /\ InFetch(r)
    /\ IsLast(Query(r), page[r])
    /\ Extend(r)
    /\ NextWindow(r)
    /\ UNCHANGED <<bvars, logged, waits>>

\* A request fails, with a network error or a status: fetch_page logs it and
\* returns {}, which has no hits and one page.
PageFails(r) ==
    /\ "fetch" \in Faults
    /\ InFetch(r)
    /\ logged' = [logged EXCEPT ![r] = @ \cup {cur[r]}]
    /\ NextWindow(r)
    /\ UNCHANGED <<bvars, all, count, waits>>

\* A 429: fetch_page sleeps for two seconds and calls itself.
Busy(r) ==
    /\ "busy" \in Faults
    /\ InFetch(r)
    /\ waits[r] < MaxWaits
    /\ waits' = [waits EXCEPT ![r] = @ + 1]
    /\ UNCHANGED <<bvars, from, page, all, count, logged>>

\* A 429 too many: the recursion knows no limit, the Lambda does.
OutOfTime(r) ==
    /\ "busy" \in Faults
    /\ InFetch(r)
    /\ waits[r] = MaxWaits
    /\ pc' = [pc EXCEPT ![r] = "killed"]
    /\ UNCHANGED <<bronze, marker, cur, hits, found, written, fvars>>

\* The next call of fetch_type begins with the first window and no item.
Restart(r) ==
    /\ from' = [from EXCEPT ![r] = 0]
    /\ page' = [page EXCEPT ![r] = 0]
    /\ all' = [all EXCEPT ![r] = {}]
    /\ count' = [count EXCEPT ![r] = 0]

Finished(r) == pc[r] = "fetch" /\ cur[r] \in Types /\ ~(from[r] < EndOfDay)

\* Mutant of Collected: all_items is not emptied for the next type.
CollectedKept(r) ==
    /\ Finished(r)
    /\ all[r] # {}
    /\ hits' = [hits EXCEPT ![r] = all[r]]
    /\ found' = [found EXCEPT ![r] = @ \cup {cur[r]}]
    /\ pc' = [pc EXCEPT ![r] = "upload"]
    /\ from' = [from EXCEPT ![r] = 0]
    /\ UNCHANGED <<bronze, marker, cur, written, page, all, count, logged, waits>>

\* fetch_type returns items.
Collected(r) ==
    /\ Finished(r)
    /\ all[r] # {}
    /\ hits' = [hits EXCEPT ![r] = all[r]]
    /\ found' = [found EXCEPT ![r] = @ \cup {cur[r]}]
    /\ pc' = [pc EXCEPT ![r] = "upload"]
    /\ Restart(r)
    /\ UNCHANGED <<bronze, marker, cur, written, logged, waits>>

\* Mutant of CollectedNothing: the loop over the types starts over.
CollectedNothingRestarts(r) ==
    /\ Finished(r)
    /\ all[r] = {}
    /\ cur' = [cur EXCEPT ![r] = 1]
    /\ Restart(r)
    /\ UNCHANGED <<bronze, marker, pc, hits, found, written, logged, waits>>

\* fetch_type returns none: the loop over the types goes on.
CollectedNothing(r) ==
    /\ Finished(r)
    /\ all[r] = {}
    /\ cur' = [cur EXCEPT ![r] = @ + 1]
    /\ Restart(r)
    /\ UNCHANGED <<bronze, marker, pc, hits, found, written, logged, waits>>

\* What the Lambda does outside of fetch_type, and an answer that is not JSON.
Coarsely(r) ==
    /\ \/ Coarse!FetchRaises(r)
       \/ Coarse!Upload(r) \/ Coarse!UploadRaises(r)
       \/ Coarse!NoData(r)
       \/ Coarse!PutMarker(r) \/ Coarse!PutMarkerRaises(r)
       \/ Coarse!RollbackKey(r) \/ Coarse!Fail(r)
    /\ UNCHANGED fvars

\* The steps a running Lambda takes by itself.
Step(r) ==
    \/ Page(r) \/ LastPage(r) \/ PageFails(r) \/ Busy(r) \/ OutOfTime(r)
    \/ Collected(r) \/ CollectedNothing(r)
    \/ Coarsely(r)

Begin(r) == Coarse!Begin(r) /\ UNCHANGED fvars

Kill(r) == Coarse!Kill(r) /\ UNCHANGED fvars

Next == \E r \in Runs : Begin(r) \/ Step(r) \/ Kill(r)

Spec == Init /\ [][Next]_vars

\* As in Ingestion: every call of a running Lambda has a time limit.  Nothing
\* is assumed of the API, which may answer 429 for ever.
FairSpec == Spec /\ \A r \in Runs : WF_vars(Step(r))

-----------------------------------------------------------------------------
(***************************************************************************)
(* Properties                                                              *)
(***************************************************************************)

\* fetch_type as a loop over windows and pages does what one step of Ingestion
\* does: it returns a part of what the windows cover, all of it if no page
\* failed; so whatever holds of Ingestion holds of the Lambda with its pages.
ImplementsIngestion == Coarse!Spec

\* No item is collected twice within a type, although windows share their
\* edges, pages follow each other and a 429 repeats a request
\* (lambda_function.py:145): total_items is the number of items.
NothingTwice == \A r \in Runs : count[r] = Cardinality(all[r])

\* What the windows cover is in the day's file of its type, unless fetch_page
\* logged an error for that type in the run that put the file or, where there
\* is none, in the run that put the marker (lambda_function.py:114, 123): an
\* error never goes both unpublished and unheard.
LossIsLogged ==
    \A t \in Types :
        /\ bronze[t] # NoFile =>
               \/ bronze[t].items = Covered[t]
               \/ bronze[t].items \subseteq Covered[t] /\ t \in logged[bronze[t].by]
        /\ \A r \in marker :
               Covered[t] # {} /\ t \notin found[r] => t \in logged[r]

\* See Ingestion: under the deployed role, what the marker promises is there.
PublishedFilesPresent == Coarse!PublishedFilesPresent

\* Every invocation that started comes to an end, whatever the API answers.
RunsEnd == \A r \in Runs : pc[r] = "fetch" ~> pc[r] \in Coarse!Ended

\* "Collects all items from HN for a given day" (lambda_function.py:4): a
\* published file holds every item of its type.
CollectsTheDay ==
    marker # {} => \A t \in Types : bronze[t] # NoFile => bronze[t].items = Listed[t]

=============================================================================
