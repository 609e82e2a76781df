----------------------------- MODULE MCDelivery -----------------------------
(***************************************************************************)
(* Instances of Delivery for TLC: a table without dates and one with       *)
(* dates, both ranked; the second version of a partition has a row more    *)
(* than the first.                                                         *)
(***************************************************************************)
EXTENDS Delivery

MCOrder == <<"top_x_users_followers", "top_hn_stories_score">>
MCOneTable == <<"top_hn_stories_score">>
MCDateScoped == {"top_hn_stories_score"}
MCRanks == <<{1}, {1, 2}>>

\* The partition of the first date is rewritten while deliveries run.
MCRewritten == {<<"top_hn_stories_score", 1>>}

\* Gold is complete at first; a rewrite makes the other cases.
MCInit == Init /\ \E v \in Versions : \A t \in Tables : \A p \in Parts(t) : gold[t][p] = v

MCSpec == MCInit /\ [][Next]_vars /\ Fairness

ASSUME DeployedVersionsOverlap == VersionsOverlap /\ FirstRankInAll
=============================================================================
