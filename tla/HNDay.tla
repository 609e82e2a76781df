-------------------------------- MODULE HNDay --------------------------------
(***************************************************************************)
(* One Hacker News day from Bronze to Silver: invocations of the ingestion *)
(* Lambda and of normalization_hn over the same partition.  The two meet   *)
(* in the type files and the marker only.  The state machine starts a      *)
(* normalization after an ingestion that returned; retries, timeouts that  *)
(* leave an earlier invocation running, backfills and manual invocations   *)
(* add others at any time, so here every invocation may start at any time. *)
(***************************************************************************)
EXTENDS NormalizationHN

CONSTANTS
    Runs, Covered, CanDelete, Faults     \* see Ingestion

VARIABLES
    pc, cur, hits, found, written       \* see Ingestion

Bronze == INSTANCE Ingestion

ASSUME HNDayAssumption ==
    /\ Covered \in [Types -> SUBSET Items]
    /\ NoFile \notin Bronze!File
    /\ CanDelete \in BOOLEAN
    /\ Faults \subseteq Bronze!FaultKinds

ivars == <<pc, cur, hits, found, written>>
vars == <<bronze, marker, ivars, nvars>>

TypeOK == Bronze!TypeOK /\ NTypeOK

Init == Bronze!Init /\ NInit

Ingest == Bronze!Next /\ UNCHANGED nvars

Normalize == NNext /\ UNCHANGED <<bronze, marker, ivars>>

Next == Ingest \/ Normalize

Spec == Init /\ [][Next]_vars

-----------------------------------------------------------------------------
(***************************************************************************)
(* Properties                                                              *)
(***************************************************************************)

\* All that an ingestion can collect of the day.
CoveredItems == UNION Range(Covered)

\* The items that have a row in a table.
RowsIn(tab) == IF silver[tab] = NoFile THEN {} ELSE DOMAIN silver[tab]

\* The rows a table should hold of it.
CoveredRows(tab) == Yields[tab] \cap CoveredItems

\* A normalization that has merged its files, and one that found all there is.
Merged(n) == DOMAIN kind[n] # {}
ReadCovered(n) == \A t \in Types : got[n][t] = Covered[t]

\* "Preventing partial data from entering the silver layer" (README.md:188): a
\* normalization that reports success leaves every table with a row for every
\* item the windows cover that yields one, and no other.
SilverNeverPartial ==
    \A n \in Norms : npc[n] = "done" =>
        \A tab \in Tables : RowsIn(tab) = CoveredRows(tab)

\* What is left of it beside reads and pages that fail in silence: when every
\* normalization that got as far as its tables had read all that the windows
\* cover, none leaves a table partial, whoever else is writing or has failed.
NoPartialSilver ==
    (\A m \in Norms : Merged(m) => ReadCovered(m)) => SilverNeverPartial

\* What the marker promised is what is read, although it is tested long before
\* the files are read and other runs come and go in between: a normalization
\* that has merged its files read a non-empty file for every type that some
\* published run had found.
ReadsWhatWasPromised ==
    \A n \in Norms : npc[n] \in {"write", "done"} =>
        \E r \in marker : \A t \in found[r] : got[n][t] # {}

\* The tables of a day agree: when one normalization has run and has reported
\* success, every table has exactly the rows yielded by the posts written,
\* whatever was lost on the way in, and there are posts.
TablesAgree ==
    \A n \in Norms :
        npc[n] = "done" /\ (\A m \in Norms \ {n} : npc[m] \in {"idle", "skipped"}) =>
            /\ RowsIn("posts") # {}
            /\ \A tab \in Tables : RowsIn(tab) = RowsIn("posts") \cap Yields[tab]

\* Re-running a day overwrites deterministically (ORCHESTRATION_HANDOFF.md:105):
\* a put over an object of the day leaves the same rows.
RerunOverwritesTheSame ==
    [][\A tab \in Tables : silver[tab] # NoFile => silver'[tab] = silver[tab]]_vars

=============================================================================
