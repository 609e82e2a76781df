---------------------------- MODULE SilverTables ----------------------------
(***************************************************************************)
(* The Silver tables as both normalizations leave them and Gold reads      *)
(* them: one object for each table, day and source, under a key made of    *)
(* the three (silver_common.run_tag, silver_key), and nothing else.  Every *)
(* object holds its rows in order, a row for each of some natural numbers, *)
(* and is never put without rows (put_parquet), so an absent object and    *)
(* one without rows are the same.                                          *)
(***************************************************************************)
EXTENDS Integers, Sequences, FiniteSets

CONSTANT Days       \* the days, numbered from 1

VARIABLE silver     \* silver[tab][k]: the rows of the object of table tab under k

\* An absent date or number: the None that compares as "" in the code.
Unknown == -1

\* The length of a day in the unit of the times of rows.
TicksPerDay == 2

ASSUME DaysAssumption == Days \subseteq Nat /\ IsFiniteSet(Days)

SilverTableNames ==
    {"users", "posts", "post_engagement", "hashtags", "post_hashtags",
     "urls", "post_urls", "user_snapshots", "sources"}

XSources == {"covid", "bitcoin"}

Keys == Days \X (XSources \cup {"hn"})

\* The order of two keys in a listing: the day, then hn, x_bitcoin, x_covid.
Rank(source) == CASE source = "hn" -> 0 [] source = "bitcoin" -> 1 [] source = "covid" -> 2

Before(k, l) ==
    \/ k[1] < l[1]
    \/ k[1] = l[1] /\ Rank(k[2]) < Rank(l[2])

\* A row of a table is named by its place: the key of the object, and the
\* position in it.
Places(tab, keys) == UNION {{k} \X DOMAIN silver[tab][k] : k \in keys}

RowAt(tab, e) == silver[tab][e[1]][e[2]]

ReadBefore(e, f) ==
    \/ Before(e[1], f[1])
    \/ e[1] = f[1] /\ e[2] < f[2]

\* SILVER_PRIMARY_KEYS: snapshots have none.
HasPrimaryKey(tab) == tab # "user_snapshots"

\* What is read under the given keys: of the rows with one primary key, the
\* last (safe_read_parquet).
KeptPlaces(tab, keys) ==
    LET places == Places(tab, keys)
    IN  {e \in places :
            HasPrimaryKey(tab) =>
                \A f \in places : ReadBefore(e, f) => RowAt(tab, f).id # RowAt(tab, e).id}

ReadRows(tab, keys) == {RowAt(tab, e) : e \in KeptPlaces(tab, keys)}
=============================================================================
