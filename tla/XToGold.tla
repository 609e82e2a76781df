------------------------------- MODULE XToGold -------------------------------
(***************************************************************************)
(* The X data from the uploaded files to Gold: invocations of              *)
(* normalization_x and of analytics over the same Silver tables, which     *)
(* also hold the rows of Hacker News.  The two are invoked by hand or by a *)
(* schedule, without waiting for each other, and meet in Silver only.      *)
(***************************************************************************)
EXTENDS NormalizationX, Gold

CONSTANTS
    HNFiles     \* HNFiles[tab][d]: the rows normalization_hn left for day d

\* The objects of Hacker News hold rows at natural numbers, and no post of it
\* has the id of a post of X: the one is a number, the other a digest.
ASSUME HNAssumption ==
    /\ \A tab \in SilverTableNames, d \in Days :
           DOMAIN HNFiles[tab][d] \subseteq Nat /\ IsFiniteSet(DOMAIN HNFiles[tab][d])
    /\ \A d \in Days : \A r \in Range(HNFiles["posts"][d]) :
           /\ r.platform = "HackerNews"
           /\ \A k \in XKeys : \A v \in DOMAIN Posted[k] : \A i \in DOMAIN Posted[k][v] :
                  r.id # PostId(Posted[k][v][i])

vars == <<xvars, gvars>>

TypeOK == XTypeOK /\ GTypeOK

Init ==
    /\ silver = [tab \in SilverTableNames |->
                    [k \in Keys |-> IF k[2] = "hn" THEN HNFiles[tab][k[1]] ELSE <<>>]]
    /\ XInit
    /\ GInit

Normalize == XNext /\ UNCHANGED gvars

Analyze == GNext /\ UNCHANGED xvars

Next == Normalize \/ Analyze

Spec == Init /\ [][Next]_vars

-----------------------------------------------------------------------------
(***************************************************************************)
(* What Gold should say of X, from the uploaded rows                       *)
(***************************************************************************)

\* The rows there are now, named by key and position.
Row(e) == Posted[e[1]][chunk[e[1][1]][e[1][2]]][e[2]]

Entries(keys) ==
    UNION {{k} \X DOMAIN Posted[k][chunk[k[1]][k[2]]] :
               k \in {l \in XKeys \cap keys : chunk[l[1]][l[2]] # 0}}

Later(e, f) ==
    \/ Before(f[1], e[1])
    \/ f[1] = e[1] /\ Row(f).at < Row(e).at
    \/ f[1] = e[1] /\ Row(f).at = Row(e).at /\ f[2] <= e[2]

LastRow(history) == Row(CHOOSE e \in history : \A f \in history : Later(e, f))

\* What the rows say of their users; the first of the dates is the user's.
KnownUsers ==
    LET all == Entries(Keys)
        histories == {{e \in all : UserId[Row(e).user] = u} : u \in {UserId[Row(e).user] : e \in all}}
        known(history, last) ==
            [id |-> UserId[last.user],
             followers |-> last.followers,
             dates |-> IF last.account # Unknown THEN {DateOf(last.account)}
                       ELSE {DateOf(Row(e).at) : e \in history} \ {DateOf(Unknown)}]
    IN  {known(history, LastRow(history)) : history \in histories}

-----------------------------------------------------------------------------
(***************************************************************************)
(* Properties                                                              *)
(***************************************************************************)

\* Silver holds what the uploaded files make of it.
Settled ==
    \A k \in XKeys : chunk[k[1]][k[2]] # 0 =>
        \A tab \in {"posts", "users"} : silver[tab][k] = TableOf(k, chunk[k[1]][k[2]], tab)

\* What the invocation read is what Silver holds.
Fresh(g) ==
    /\ Len(snap[g]) = 4
    /\ \A i \in 1 .. 4 : snap[g][i] = ReadRows(ReadOrder(g)[i].tab, ReadOrder(g)[i].keys)

\* The invocation has done all its metrics and is about to report.
Reporting(g) == gpc[g] = "compute" /\ step[g] > Len(Steps)

\* The value of metric m for platform X, where there is one.
ForX(g, m) == {result[g][m][p] : p \in {q \in DOMAIN result[g][m] : q[1] = "X"}}

\* Whether metric m is among those it computes and did not fail.
Reports(g, m) == m \in Range(Steps) \ errors[g]

UsersAreTrue(g, known) ==
    LET by(d) == {u \in known : \E x \in u.dates : x <= d}
    IN  Reports(g, "daily_users_metric") =>
            ForX(g, "daily_users_metric") =
                IF \E u \in known : u.dates # {}
                THEN {[total |-> Cardinality(by(day[g])),
                       new |-> Cardinality(by(day[g]) \ by(day[g] - 1))]}
                ELSE {}

PostsOf(d) == {PostId(Row(e)) : e \in Entries({k \in Keys : k[1] = d})}

\* What a count of posts by type says of one type.
OfType(count, type) == IF type \in DOMAIN count THEN count[type] ELSE 0

PostsAreTrue(g) ==
    Reports(g, "daily_post_counts") =>
        /\ \A count \in ForX(g, "daily_post_counts") :
               /\ DOMAIN count \subseteq {"tweet", "retweet"}
               /\ OfType(count, "tweet") + OfType(count, "retweet") = Cardinality(PostsOf(day[g]))
        /\ ForX(g, "daily_post_counts") = {} => PostsOf(day[g]) = {}

FollowersAreTrue(g, known) ==
    \A p \in DOMAIN result[g]["top_x_users_followers"] :
        LET top == result[g]["top_x_users_followers"][p]
        IN  /\ \A r \in top : \E u \in known : u.id = r.id /\ u.followers = r.followers
            /\ \A u \in known, r \in top :
                   u.id \notin {q.id : q \in top} => u.followers <= r.followers

\* No file that is there spells the name of one user in two ways.  One that
\* does leaves two rows of the user, and not the later one is read but that of
\* the spelling that first appears last.
OneSpelling ==
    \A e, f \in Entries(Keys) :
        e[1] = f[1] /\ UserId[Row(e).user] = UserId[Row(f).user] => Row(e).user = Row(f).user

\* Gold is true of what was uploaded: when an invocation reports that read Silver
\* as it now is, and Silver is what the uploaded files make of it, the users seen
\* by the day and new on it, the posts of the day and the followers of the
\* ranked users are those of the rows of the files: each user and each post
\* counted once, however many files, days and spellings of a name it is in
\* (for the users: unless one file has two spellings of a name).
GoldIsTrue ==
    \A g \in GRuns :
        Reporting(g) /\ Settled /\ Fresh(g) =>
            LET known == KnownUsers
            IN  /\ PostsAreTrue(g)
                /\ OneSpelling => UsersAreTrue(g, known) /\ FollowersAreTrue(g, known)
=============================================================================
