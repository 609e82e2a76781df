---------------------------- MODULE AtomicReload ----------------------------
(***************************************************************************)
(* What the delivery Lambda promises a reader of the database (the header  *)
(* of src/delivery/lambda_function.py): the rows shown for a table and a   *)
(* date are those of one version of the Gold partition; they are replaced  *)
(* at once, one table at a time, and never by nothing; a request for a     *)
(* date replaces that date only.                                           *)
(***************************************************************************)
CONSTANTS
    Tables,      \* names of the tables
    DateScoped,  \* those loaded by date
    Parts(_),    \* Parts(t): the dates of table t, or its single snapshot
    Versions,    \* versions of a Gold partition
    NoVersion,   \* no rows
    FullRefresh  \* the request for every table and date

VARIABLES
    shown,       \* shown[t][p]: the version a reader sees
    requests     \* what deliveries have been asked for

Init ==
    /\ DOMAIN shown = Tables
    /\ \A t \in Tables : shown[t] \in [Parts(t) -> Versions \cup {NoVersion}]
    /\ requests = {}

\* A delivery is invoked.
Request ==
    /\ requests \subseteq requests'
    /\ UNCHANGED shown

\* The rows of one date are replaced.
ReloadDay(t, p) ==
    /\ p \in requests
    /\ shown'[t][p] \in Versions
    /\ shown' = [shown EXCEPT ![t][p] = shown'[t][p]]
    /\ UNCHANGED requests

\* The table is replaced by what the Gold layer has.
ReloadAll(t) ==
    /\ IF t \in DateScoped THEN FullRefresh \in requests ELSE requests # {}
    /\ shown'[t] \in [Parts(t) -> Versions \cup {NoVersion}]
    /\ \E p \in Parts(t) : shown'[t][p] # NoVersion
    /\ shown' = [shown EXCEPT ![t] = shown'[t]]
    /\ UNCHANGED requests

Next ==
    \/ Request
    \/ \E t \in Tables : ReloadAll(t) \/ \E p \in Parts(t) : ReloadDay(t, p)

Spec == Init /\ [][Next]_<<shown, requests>>
=============================================================================
