------------------------------ MODULE MCXToGold ------------------------------
(***************************************************************************)
(* An instance of XToGold for TLC.  Day 1 has a covid file that is later   *)
(* uploaded again, corrected and without hashtags; day 2 has a bitcoin     *)
(* file.  A user tweets on both days under two spellings of one name, one  *)
(* twice on a day, and one has an account of before the first tweet.       *)
(***************************************************************************)
EXTENDS XToGold, TLC

CONSTANT MaxFaults      \* bound on the number of faults

VARIABLES
    faults,     \* the faults there have been
    alone       \* every analytics began after normalization_x had done all days

MCDays == {1, 2}

Tweet(user, time, account, followers, tags) ==
    [user |-> user, at |-> time, text |-> "text", retweet |-> FALSE,
     account |-> account, followers |-> followers,
     refs |-> [hashtags |-> tags, urls |-> {}, sources |-> {"web"}]]

MCCsv ==
    <<[covid |-> <<
         <<Tweet("Ann", 3, Unknown, 5, {"a"}), Tweet("Ann", 2, Unknown, 4, {}),
           Tweet("Bob", 2, 1, 7, {"a", "b"}), Tweet(NoName, 2, Unknown, 9, {})>>,
         <<Tweet("Ann", 3, Unknown, 6, {}), Tweet("Bob", 2, 4, 7, {})>> >>,
       bitcoin |-> <<>>],
      [covid |-> <<>>,
       bitcoin |-> <<
         <<Tweet("ann", 5, Unknown, 8, {"a"}), Tweet("Cid", 4, Unknown, Unknown, {}),
           Tweet("Cid", 4, Unknown, 3, {})>> >>]>>

MCUserId == [Ann |-> "u1", ann |-> "u1", Bob |-> "u2", Cid |-> "u3"]

MCWriteOrder == <<"posts", "users", "hashtags">>

Story ==
    [id |-> <<"h", 2, "story">>, author |-> "h1", platform |-> "HackerNews",
     kind |-> "story", at |-> 2, score |-> 10]

Reader ==
    [id |-> "h1", name |-> "h", platform |-> "HackerNews",
     account |-> Unknown, karma |-> Unknown, followers |-> Unknown]

MCHNFiles ==
    [tab \in SilverTableNames |->
        <<IF tab = "posts" THEN <<Story>> ELSE IF tab = "users" THEN <<Reader>> ELSE <<>>, <<>> >>]

MCSteps ==
    <<"daily_post_counts", "daily_users_metric", "top_x_users_followers",
      "data_quality_score">>

MCQTables == <<"hashtags">>

Begun(pc) == {x \in DOMAIN pc : pc[x] # "idle"}

\* An invocation has processed every day as first uploaded, and none is running.
AllDone ==
    /\ \A k \in XKeys : chunk[k[1]][k[2]] <= 1
    /\ \A n \in XNorms : xpc[n] \in {"idle", "done"}
    /\ \E n \in XNorms : processed[n] = Days

\* Two normalizations, one and an analytics beside it, or two analytics after
\* a normalization of every day.
Bounded ==
    IF Begun(gpc) = {} THEN TRUE
    ELSE /\ Cardinality(Begun(xpc)) <= 1
         /\ Cardinality(Begun(gpc)) <= IF alone THEN 2 ELSE 1

\* A step of normalization_x, and one of analytics, that no fault explains.
XFault ==
    \E n \in XNorms :
        \/ xpc[n] \in XActive /\ xpc'[n] \in {"failed", "killed"}
        \/ xpc[n] = "check" /\ queue'[n] # queue[n] /\ Day(n) \in marked

GFault ==
    \E g \in GRuns :
        \/ gpc[g] \in GActive /\ gpc'[g] = "killed"
        \/ errors'[g] # errors[g]
        \/ Len(snap'[g]) > Len(snap[g])
               /\ LET r == ReadOrder(g)[Len(snap'[g])]
                  IN  Last(snap'[g]) # ReadRows(r.tab, r.keys)
        \/ Len(counted'[g]) > Len(counted[g])
               /\ Last(counted'[g]) # Cardinality(KeptPlaces(QTables[Len(counted'[g])], Keys))

\* Files and markers are first uploaded before any invocation; a file may be
\* uploaded again while normalization_x runs.
UploadsBounded ==
    /\ marked' # marked => Begun(xpc) \cup Begun(gpc) = {}
    /\ chunk' # chunk => IF \E n \in XNorms : xpc[n] \in XActive
                         THEN \A k \in XKeys : chunk[k[1]][k[2]] = 0 => chunk'[k[1]][k[2]] = 0
                         ELSE Begun(xpc) \cup Begun(gpc) = {}

MCInit == Init /\ faults = 0 /\ alone = TRUE

MCNext ==
    /\ Next
    /\ UploadsBounded
    /\ alone' = (alone /\ (Begun(gpc') # Begun(gpc) => AllDone))
    /\ Bounded'
    /\ faults' = IF XFault \/ GFault THEN faults + 1 ELSE faults
    /\ faults' <= MaxFaults
    /\ GFault => alone

MCSpec == MCInit /\ [][MCNext]_<<vars, faults, alone>>

FlowSymmetry == Permutations(XNorms) \cup Permutations(GRuns)
=============================================================================
