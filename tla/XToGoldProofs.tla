--------------------------- MODULE XToGoldProofs ---------------------------
(***************************************************************************)
(* Proofs about XToGold, for every number of invocations, days, metrics    *)
(* and tables, every uploaded file and every choice of faults: what Gold   *)
(* and Silver hold while invocations overlap, fail and are killed.         *)
(***************************************************************************)
EXTENDS XToGold, WellFoundedInduction, TLAPS

-----------------------------------------------------------------------------
(***************************************************************************)
(* Gold                                                                    *)
(***************************************************************************)

Files == SUBSET (GRuns \cup {Earlier})
MetricPartitions == Metrics \X Partitions

GoldTypes ==
    /\ gold \in [Metrics -> [Partitions -> Files]]
    /\ gpc \in [GRuns -> {"idle"} \cup GActive \cup GEnded]
    /\ day \in [GRuns -> Days \cup {NoDay}]
    /\ step \in [GRuns -> 1 .. Len(Steps) + 1]
    /\ DOMAIN result = GRuns
    /\ \A g \in GRuns : DOMAIN result[g] = Metrics
    /\ \A g \in GRuns, m \in Metrics : DOMAIN result[g][m] \subseteq Partitions
    /\ left \in [GRuns -> SUBSET Partitions]
    /\ holes \in [GRuns -> SUBSET MetricPartitions]
    /\ summary \in [GRuns -> SUBSET MetricPartitions]
    /\ ago \in [GRuns -> Files]

Writing(g) == gpc[g] \in {"clear", "put"}

\* Where an invocation is, and what it has by then.
GoldPhases ==
    \A g \in GRuns :
        /\ gpc[g] # "idle" => day[g] \in Days
        /\ Writing(g) => step[g] <= Len(Steps) /\ left[g] # {}
        /\ \A h \in ago[g] \cap GRuns : gpc[h] \in GEnded
        /\ gpc[g] = "idle" =>
               /\ summary[g] = {}
               /\ \A m \in Metrics, p \in Partitions : g \notin gold[m][p]

\* Between the delete and the put, only invocations that run at the same time
\* have put a file into the partition.
EmptiedSince ==
    \A g \in GRuns : gpc[g] = "put" =>
        \A h \in gold[Metric(g)][Partition(g)] : h \in GRuns /\ h \notin ago[g]

\* The file of g is in a partition, or one of an invocation that was not over
\* when g began is, or such a one has emptied it.
Kept(g, w) ==
    \/ g \in gold[w[1]][w[2]]
    \/ \E h \in GRuns \ ago[g] : h \in gold[w[1]][w[2]] \/ w \in holes[h]

Reported ==
    \A g \in GRuns :
        /\ \A w \in summary[g] : Kept(g, w)
        /\ Writing(g) =>
               \A p \in DOMAIN result[g][Metric(g)] \ left[g] : Kept(g, <<Metric(g), p>>)

GoldInv ==
    /\ GoldPhases
    /\ NothingVanishes
    /\ EmptiedSince
    /\ RerunReplaces
    /\ Reported

LEMMA ComputedDomain ==
    ASSUME GoldTypes, NEW g \in GRuns, day[g] \in Days, NEW m \in Metrics,
           NEW value \in Computed(g, m)
    PROVE  DOMAIN value \subseteq Partitions
  <1> DEFINE d == day[g]
             users == [HackerNews |-> snap[g][3], X |-> snap[g][4]]
  <1>1. \A posts : DOMAIN PostCounts(d, posts) \subseteq Partitions
    BY DEF PostCounts, Partitions
  <1>2. \A posts : DOMAIN UserCounts(d, users, posts) \subseteq Partitions
    BY DEF UserCounts, Partitions
  <1>3. <<NoPlatform, d>> \in Partitions /\ <<NoPlatform, NoDay>> \in Partitions
    BY DEF Partitions
  <1>4. CASE m = "daily_post_counts"
    BY <1>1, <1>4 DEF Computed
  <1>5. CASE m = "daily_users_metric"
    BY <1>2, <1>5 DEF Computed
  <1>6. CASE m = "top_x_users_followers"
    BY <1>3, <1>6 DEF Computed, Rankings, Nothing
  <1>7. CASE m = "top_hn_users_karma"
    BY <1>3, <1>7 DEF Computed, Rankings, Nothing
  <1>8. CASE m = "bottom_hn_users_karma"
    BY <1>3, <1>8 DEF Computed, Rankings, Nothing
  <1>9. CASE m \in {"top_hn_jobs_score", "top_hn_stories_score"}
    BY <1>3, <1>9 DEF Computed, Rankings, Nothing
  <1>10. CASE m = "data_quality_score"
    BY <1>3, <1>10 DEF Computed
  <1> QED
    BY <1>4, <1>5, <1>6, <1>7, <1>8, <1>9, <1>10 DEF Metrics

\* The partition an invocation replaces is one it has still to replace.
LEMMA PartitionLeft ==
    ASSUME GoldTypes, GoldPhases, NEW g \in GRuns, Writing(g)
    PROVE  Metric(g) \in Metrics /\ Partition(g) \in left[g] /\ Partition(g) \in Partitions
  <1>1. Metric(g) \in Metrics
    BY GoldAssumption DEF GoldTypes, GoldPhases, Metric
  <1>2. \E p \in left[g] : \A q \in left[g] : ~WrittenBefore(q, p)
    <2>1. CASE \E p \in left[g] : p[1] = "HackerNews"
      BY <2>1 DEF WrittenBefore
    <2>2. CASE ~\E p \in left[g] : p[1] = "HackerNews"
      BY <2>2 DEF WrittenBefore, GoldPhases
    <2> QED
      BY <2>1, <2>2
  <1> QED
    BY <1>1, <1>2 DEF Partition, GoldTypes

\* What emptying and filling a partition leave, partition by partition.
LEMMA EmptiedEffect ==
    ASSUME GoldTypes, GoldPhases, NEW g \in GRuns, Writing(g), Emptied(g)
    PROVE  /\ gold' \in [Metrics -> [Partitions -> Files]]
           /\ holes' \in [GRuns -> SUBSET MetricPartitions]
           /\ gold'[Metric(g)][Partition(g)] = {}
           /\ \A m \in Metrics, p \in Partitions :
                  <<m, p>> # <<Metric(g), Partition(g)>> => gold'[m][p] = gold[m][p]
           /\ holes'[g] = holes[g] \cup {<<Metric(g), Partition(g)>>}
           /\ \A h \in GRuns \ {g} : holes'[h] = holes[h]
  BY PartitionLeft DEF GoldTypes, Emptied, Cleared, Files, MetricPartitions

LEMMA FilledEffect ==
    ASSUME GoldTypes, GoldPhases, NEW g \in GRuns, Writing(g), Filled(g)
    PROVE  /\ gold' \in [Metrics -> [Partitions -> Files]]
           /\ holes' \in [GRuns -> SUBSET MetricPartitions]
           /\ gold'[Metric(g)][Partition(g)] = gold[Metric(g)][Partition(g)] \cup {g}
           /\ \A m \in Metrics, p \in Partitions :
                  <<m, p>> # <<Metric(g), Partition(g)>> => gold'[m][p] = gold[m][p]
           /\ holes'[g] = holes[g] \ {<<Metric(g), Partition(g)>>}
           /\ \A h \in GRuns \ {g} : holes'[h] = holes[h]
  BY PartitionLeft DEF GoldTypes, Filled, Files, MetricPartitions

\* What a step of analytics does to Gold.
Writes(g) ==
    \/ UNCHANGED <<gold, holes>>
    \/ gpc[g] = "clear" /\ Emptied(g)
    \/ gpc[g] = "put" /\ Filled(g)

LEMMA InitGold == GInit => GoldTypes /\ GoldInv
  <1> SUFFICES ASSUME GInit PROVE GoldTypes /\ GoldInv
    OBVIOUS
  <1>1. GoldTypes
    BY DEF GInit, GoldTypes, Files, Nothing
  <1>2. GoldPhases
    BY GoldAssumption DEF GInit, GoldPhases, Writing
  <1>3. NothingVanishes /\ EmptiedSince /\ RerunReplaces /\ Reported
    BY DEF GInit, NothingVanishes, EmptiedSince, RerunReplaces, Reported, Writing
  <1> QED
    BY <1>1, <1>2, <1>3 DEF GoldInv

\* The next metric, while there is one.
LEMMA StepOn ==
    ASSUME GoldTypes, NEW g \in GRuns, step[g] <= Len(Steps),
           step' = [step EXCEPT ![g] = @ + 1]
    PROVE  step' \in [GRuns -> 1 .. Len(Steps) + 1]
  <1>1. Len(Steps) \in Nat
    BY GoldAssumption
  <1>2. step[g] \in 1 .. Len(Steps) + 1
    BY DEF GoldTypes
  <1>3. step[g] + 1 \in 1 .. Len(Steps) + 1
    BY <1>1, <1>2
  <1> QED
    BY <1>3 DEF GoldTypes

LEMMA NextGoldTypes == GoldTypes /\ GoldPhases /\ [GNext]_gvars => GoldTypes'
  <1> SUFFICES ASSUME GoldTypes, GoldPhases, [GNext]_gvars PROVE GoldTypes'
    OBVIOUS
  <1> USE DEF GActive, GEnded
  <1>1. CASE UNCHANGED gvars
    BY <1>1 DEF GoldTypes, gvars
  <1>2. ASSUME NEW g \in GRuns, Invoke(g) PROVE GoldTypes'
    BY <1>2 DEF GoldTypes, Invoke, Files
  <1>3. ASSUME NEW g \in GRuns, ReadSilver(g) \/ CountRows(g) PROVE GoldTypes'
    BY <1>3 DEF GoldTypes, ReadSilver, CountRows
  <1>4. ASSUME NEW g \in GRuns, Compute(g) PROVE GoldTypes'
    <2>1. PICK value \in Computed(g, Metric(g)) :
              /\ result' = [result EXCEPT ![g][Metric(g)] = value]
              /\ left' = [left EXCEPT ![g] = DOMAIN value]
      BY <1>4 DEF Compute
    <2>2. day[g] \in Days /\ Metric(g) \in Metrics
      BY <1>4, GoldAssumption DEF Compute, AtStep, Metric, GoldTypes, GoldPhases
    <2>3. DOMAIN value \subseteq Partitions
      BY <2>2, ComputedDomain
    <2>4. /\ DOMAIN result' = GRuns
          /\ \A h \in GRuns : DOMAIN result'[h] = Metrics
          /\ \A h \in GRuns, m \in Metrics : DOMAIN result'[h][m] \subseteq Partitions
      BY <2>1, <2>3 DEF GoldTypes
    <2> QED
      BY <1>4, <2>1, <2>3, <2>4 DEF GoldTypes, Compute
  <1>5. ASSUME NEW g \in GRuns, ComputeEmpty(g) \/ ComputeRaises(g) PROVE GoldTypes'
    <2>1. step' \in [GRuns -> 1 .. Len(Steps) + 1]
      BY <1>5, StepOn DEF ComputeEmpty, ComputeRaises, AtStep
    <2> QED
      BY <1>5, <2>1 DEF GoldTypes, ComputeEmpty, ComputeRaises
  <1>6. ASSUME NEW g \in GRuns, Clear(g) PROVE GoldTypes'
    <2>1. gold' \in [Metrics -> [Partitions -> Files]] /\ holes' \in [GRuns -> SUBSET MetricPartitions]
      BY <1>6, EmptiedEffect DEF Clear, Writing
    <2> QED
      BY <1>6, <2>1 DEF GoldTypes, Clear
  <1>7. ASSUME NEW g \in GRuns, Put(g) PROVE GoldTypes'
    <2>1. gold' \in [Metrics -> [Partitions -> Files]] /\ holes' \in [GRuns -> SUBSET MetricPartitions]
      BY <1>7, FilledEffect DEF Put, Writing
    <2> QED
      BY <1>7, <2>1 DEF GoldTypes, Put
  <1>8. ASSUME NEW g \in GRuns, PutLast(g) PROVE GoldTypes'
    <2>1. gold' \in [Metrics -> [Partitions -> Files]] /\ holes' \in [GRuns -> SUBSET MetricPartitions]
      BY <1>8, FilledEffect DEF PutLast, Writing
    <2>2. step[g] <= Len(Steps) /\ Metric(g) \in Metrics
      BY <1>8, PartitionLeft DEF PutLast, Writing, GoldPhases
    <2>3. {Metric(g)} \X DOMAIN result[g][Metric(g)] \subseteq MetricPartitions
      BY <2>2 DEF GoldTypes, MetricPartitions
    <2>4. step' \in [GRuns -> 1 .. Len(Steps) + 1]
      BY <1>8, <2>2, StepOn DEF PutLast
    <2>5. summary' \in [GRuns -> SUBSET MetricPartitions]
      BY <1>8, <2>3 DEF PutLast, GoldTypes
    <2> QED
      BY <1>8, <2>1, <2>4, <2>5 DEF GoldTypes, PutLast
  <1>9. ASSUME NEW g \in GRuns, WriteRaises(g) PROVE GoldTypes'
    <2>1. gold' \in [Metrics -> [Partitions -> Files]] /\ holes' \in [GRuns -> SUBSET MetricPartitions]
      BY <1>9, EmptiedEffect, FilledEffect DEF WriteRaises, Writing, GoldTypes
    <2>2. step[g] <= Len(Steps)
      BY <1>9 DEF WriteRaises, Writing, GoldPhases
    <2>3. step' \in [GRuns -> 1 .. Len(Steps) + 1]
      BY <1>9, <2>2, StepOn DEF WriteRaises
    <2> QED
      BY <1>9, <2>1, <2>3 DEF GoldTypes, WriteRaises
  <1>10. ASSUME NEW g \in GRuns, GFinish(g) \/ GKill(g) PROVE GoldTypes'
    <2>1. result' = [result EXCEPT ![g] = [m \in Metrics |-> Nothing]]
      BY <1>10 DEF GFinish, GKill, Forget
    <2>2. DOMAIN Nothing \subseteq Partitions
      BY DEF Nothing
    <2>3. /\ DOMAIN result' = GRuns
          /\ \A h \in GRuns : DOMAIN result'[h] = Metrics
          /\ \A h \in GRuns, m \in Metrics : DOMAIN result'[h][m] \subseteq Partitions
      BY <2>1, <2>2 DEF GoldTypes
    <2> QED
      BY <1>10, <2>3 DEF GoldTypes, GFinish, GKill, Forget
  <1> QED
    BY <1>1, <1>2, <1>3, <1>4, <1>5, <1>6, <1>7, <1>8, <1>9, <1>10 DEF GNext, GStep

\* What every step has in common: it is that of one invocation, which writes to
\* Gold while it is active and leaves the rest of the others alone.
LEMMA StepWrites ==
    ASSUME GoldTypes, GoldPhases, GNext
    PROVE  \E g \in GRuns :
               /\ Writes(g)
               /\ gpc[g] \notin GEnded
               /\ \A h \in GRuns \ {g} :
                      /\ gpc'[h] = gpc[h] /\ day'[h] = day[h] /\ step'[h] = step[h]
                      /\ left'[h] = left[h] /\ summary'[h] = summary[h]
                      /\ result'[h] = result[h] /\ ago'[h] = ago[h]
               /\ gpc[g] # "idle" => ago'[g] = ago[g] /\ day'[g] = day[g]
               /\ gpc[g] = "idle" => Invoke(g)
               /\ gpc'[g] # "idle"
               /\ gpc'[g] = "put" => Clear(g)
  <1>1. PICK g \in GRuns : Invoke(g) \/ GStep(g) \/ GKill(g)
    BY DEF GNext
  <1> USE DEF GActive, GEnded
  <1>2. Writes(g) /\ gpc[g] \notin GEnded /\ (gpc[g] = "idle" => Invoke(g))
    BY <1>1 DEF Writes, Invoke, GStep, ReadSilver, CountRows, Compute, ComputeEmpty,
       ComputeRaises, AtStep, Clear, Put, PutLast, WriteRaises, GFinish, GKill
  <1>3. \A h \in GRuns \ {g} :
            /\ gpc'[h] = gpc[h] /\ day'[h] = day[h] /\ step'[h] = step[h]
            /\ left'[h] = left[h] /\ summary'[h] = summary[h]
            /\ result'[h] = result[h] /\ ago'[h] = ago[h]
    <2>1. CASE Invoke(g)
      BY <2>1 DEF Invoke, GoldTypes
    <2>2. CASE ReadSilver(g) \/ CountRows(g)
      BY <2>2 DEF ReadSilver, CountRows, GoldTypes
    <2>3. CASE Compute(g)
      BY <2>3 DEF Compute, GoldTypes
    <2>4. CASE ComputeEmpty(g) \/ ComputeRaises(g)
      BY <2>4 DEF ComputeEmpty, ComputeRaises, GoldTypes
    <2>5. CASE Clear(g) \/ Put(g) \/ PutLast(g)
      BY <2>5 DEF Clear, Put, PutLast, GoldTypes
    <2>6. CASE WriteRaises(g)
      BY <2>6 DEF WriteRaises, GoldTypes
    <2>7. CASE GFinish(g) \/ GKill(g)
      BY <2>7 DEF GFinish, GKill, Forget, GoldTypes
    <2> QED
      BY <1>1, <2>1, <2>2, <2>3, <2>4, <2>5, <2>6, <2>7 DEF GStep
  <1>4. gpc[g] # "idle" => ago'[g] = ago[g] /\ day'[g] = day[g]
    BY <1>1 DEF Invoke, GStep, ReadSilver, CountRows, Compute, ComputeEmpty,
       ComputeRaises, Clear, Put, PutLast, WriteRaises, GFinish, GKill, GoldTypes
  <1>5. gpc'[g] # "idle" /\ (gpc'[g] = "put" => Clear(g))
    <2>1. CASE Invoke(g) \/ ReadSilver(g) \/ CountRows(g) \/ Compute(g)
      BY <2>1 DEF Invoke, ReadSilver, CountRows, Compute, AtStep, GoldTypes
    <2>2. CASE ComputeEmpty(g) \/ ComputeRaises(g) \/ Put(g) \/ PutLast(g) \/ WriteRaises(g)
      BY <2>2 DEF ComputeEmpty, ComputeRaises, AtStep, Put, PutLast, WriteRaises, GoldTypes
    <2>3. CASE Clear(g) \/ GFinish(g) \/ GKill(g)
      BY <2>3 DEF Clear, GFinish, GKill, GoldTypes
    <2> QED
      BY <1>1, <2>1, <2>2, <2>3 DEF GStep
  <1> QED
    BY <1>2, <1>3, <1>4, <1>5

\* What holds of Gold as a whole is kept by whatever a step writes.
LEMMA NextGoldWhole ==
    ASSUME GoldTypes, GoldInv, GNext
    PROVE  (NothingVanishes /\ RerunReplaces)'
  <1>1. PICK g \in GRuns :
            /\ Writes(g)
            /\ gpc[g] \notin GEnded
            /\ \A h \in GRuns \ {g} : ago'[h] = ago[h]
            /\ gpc[g] # "idle" => ago'[g] = ago[g]
            /\ gpc[g] = "idle" => Invoke(g)
    BY StepWrites DEF GoldInv
  <1>2. CASE UNCHANGED <<gold, holes>>
    <2>1. NothingVanishes'
      BY <1>2 DEF GoldInv, NothingVanishes
    <2>2. \A m \in Metrics, p \in Partitions : \A h \in gold[m][p] \cap GRuns : ago'[h] = ago[h]
      BY <1>1 DEF GoldInv, GoldPhases
    <2>3. RerunReplaces'
      BY <1>2, <2>2 DEF GoldInv, RerunReplaces, Beside
    <2> QED
      BY <2>1, <2>3
  <1>3. ASSUME gpc[g] \in {"clear", "put"} PROVE \A h \in GRuns : ago'[h] = ago[h]
    BY <1>1, <1>3
  <1>4. CASE gpc[g] = "clear" /\ Emptied(g)
    <2> DEFINE w == <<Metric(g), Partition(g)>>
    <2>1. /\ gold'[Metric(g)][Partition(g)] = {}
          /\ \A m \in Metrics, p \in Partitions : <<m, p>> # w => gold'[m][p] = gold[m][p]
          /\ holes'[g] = holes[g] \cup {w}
          /\ \A h \in GRuns \ {g} : holes'[h] = holes[h]
      BY <1>4, EmptiedEffect DEF GoldInv, Writing
    <2>2. NothingVanishes'
      BY <2>1 DEF GoldInv, NothingVanishes
    <2>3. RerunReplaces'
      BY <1>3, <1>4, <2>1 DEF GoldInv, RerunReplaces, Beside
    <2> QED
      BY <2>2, <2>3
  <1>5. CASE gpc[g] = "put" /\ Filled(g)
    <2> DEFINE w == <<Metric(g), Partition(g)>>
    <2>1. /\ gold'[Metric(g)][Partition(g)] = gold[Metric(g)][Partition(g)] \cup {g}
          /\ \A m \in Metrics, p \in Partitions : <<m, p>> # w => gold'[m][p] = gold[m][p]
          /\ holes'[g] = holes[g] \ {w}
          /\ \A h \in GRuns \ {g} : holes'[h] = holes[h]
      BY <1>5, FilledEffect DEF GoldInv, Writing
    <2>2. NothingVanishes'
      BY <2>1 DEF GoldInv, NothingVanishes
    <2>3. \A h \in gold[Metric(g)][Partition(g)] : h \in GRuns /\ h \notin ago[g] /\ g \notin ago[h]
      BY <1>1, <1>5 DEF GoldInv, EmptiedSince, GoldPhases
    <2>4. \A h \in gold[Metric(g)][Partition(g)] : Beside(g, h) /\ Beside(h, g)
      BY <2>3 DEF Beside
    <2>5. \A a, b : Beside(a, b)' = Beside(a, b)
      BY <1>3, <1>5 DEF Beside
    <2>6. Metric(g) \in Metrics /\ Partition(g) \in Partitions
      BY <1>5, PartitionLeft DEF GoldInv, Writing
    <2>7. ASSUME NEW m \in Metrics, NEW p \in Partitions,
                 NEW a \in gold'[m][p], NEW b \in gold'[m][p], a # b
          PROVE  Beside(a, b)
      <3>1. CASE <<m, p>> = w
        BY <2>1, <2>4, <2>6, <2>7, <3>1 DEF GoldInv, RerunReplaces
      <3>2. CASE <<m, p>> # w
        BY <2>1, <2>7, <3>2 DEF GoldInv, RerunReplaces
      <3> QED
        BY <3>1, <3>2
    <2>8. RerunReplaces'
      BY <2>5, <2>7 DEF RerunReplaces
    <2> QED
      BY <2>2, <2>8
  <1> QED
    BY <1>1, <1>2, <1>4, <1>5 DEF Writes

LEMMA NextGoldPhases ==
    ASSUME GoldTypes, GoldInv, GNext
    PROVE  GoldPhases'
  <1>1. PICK g \in GRuns :
            /\ Writes(g)
            /\ gpc[g] \notin GEnded
            /\ \A h \in GRuns \ {g} :
                   /\ gpc'[h] = gpc[h] /\ day'[h] = day[h] /\ step'[h] = step[h]
                   /\ left'[h] = left[h] /\ summary'[h] = summary[h] /\ ago'[h] = ago[h]
            /\ gpc[g] # "idle" => ago'[g] = ago[g] /\ day'[g] = day[g]
            /\ gpc[g] = "idle" => Invoke(g)
            /\ gpc'[g] # "idle"
    BY StepWrites DEF GoldInv
  <1>2. ASSUME NEW k \in GRuns, gpc'[k] # "idle" PROVE day'[k] \in Days
    <2>1. CASE k = g /\ gpc[g] = "idle"
      BY <1>1, <2>1 DEF Invoke, GoldTypes
    <2> QED
      BY <1>1, <1>2, <2>1 DEF GoldInv, GoldPhases
  <1>3. ASSUME NEW k \in GRuns, Writing(k)' PROVE (step[k] <= Len(Steps) /\ left[k] # {})'
    <2>1. CASE k # g
      BY <1>1, <1>3, <2>1 DEF GoldInv, GoldPhases, Writing
    <2>2. CASE k = g
      <3>1. PICK h \in GRuns : Invoke(h) \/ GStep(h) \/ GKill(h)
        BY DEF GNext
      <3>2. CASE Compute(h)
        <4>1. step' = step /\ step[h] <= Len(Steps) /\ left'[h] # {}
          BY <3>2 DEF Compute, AtStep, GoldTypes
        <4>2. \A i \in GRuns \ {h} : gpc'[i] = gpc[i] /\ left'[i] = left[i]
          BY <3>2 DEF Compute, GoldTypes
        <4> QED
          BY <1>3, <4>1, <4>2 DEF GoldInv, GoldPhases, Writing
      <3>3. CASE Clear(h)
        BY <1>3, <3>3 DEF Clear, GoldTypes, GoldInv, GoldPhases, Writing
      <3>4. CASE Put(h)
        BY <1>3, <3>4 DEF Put, GoldTypes, GoldInv, GoldPhases, Writing
      <3>5. CASE ReadSilver(h) \/ CountRows(h)
        BY <1>3, <3>5 DEF ReadSilver, CountRows, AtStep, GoldTypes, GoldInv, GoldPhases, Writing
      <3>6. CASE Invoke(h) \/ ComputeEmpty(h) \/ ComputeRaises(h)
        <4>1. gpc'[h] \notin {"clear", "put"}
          BY <3>6 DEF Invoke, ComputeEmpty, ComputeRaises, AtStep, GoldTypes
        <4>2. \A i \in GRuns \ {h} : gpc'[i] = gpc[i] /\ left'[i] = left[i] /\ step'[i] = step[i]
          BY <3>6 DEF Invoke, ComputeEmpty, ComputeRaises, GoldTypes
        <4> QED
          BY <1>3, <4>1, <4>2 DEF GoldInv, GoldPhases, Writing
      <3>7. CASE PutLast(h) \/ WriteRaises(h) \/ GFinish(h) \/ GKill(h)
        <4>1. gpc'[h] \notin {"clear", "put"}
          BY <3>7 DEF PutLast, WriteRaises, GFinish, GKill, GoldTypes
        <4>2. \A i \in GRuns \ {h} : gpc'[i] = gpc[i] /\ left'[i] = left[i] /\ step'[i] = step[i]
          BY <3>7 DEF PutLast, WriteRaises, GFinish, GKill, Forget, GoldTypes
        <4> QED
          BY <1>3, <4>1, <4>2 DEF GoldInv, GoldPhases, Writing
      <3> QED
        BY <3>1, <3>2, <3>3, <3>4, <3>5, <3>6, <3>7 DEF GStep
    <2> QED
      BY <2>1, <2>2
  <1>4. ASSUME NEW k \in GRuns, NEW h \in ago'[k] \cap GRuns PROVE gpc'[h] \in GEnded
    <2>1. CASE k = g /\ gpc[g] = "idle"
      <3>1. h \in {i \in GRuns : gpc[i] \in GEnded}
        BY <1>1, <1>4, <2>1, GoldAssumption DEF Invoke, GoldTypes
      <3> QED
        BY <1>1, <3>1
    <2>2. CASE ~(k = g /\ gpc[g] = "idle")
      BY <1>1, <1>4, <2>2 DEF GoldInv, GoldPhases
    <2> QED
      BY <2>1, <2>2
  <1>5. ASSUME NEW k \in GRuns, gpc'[k] = "idle"
        PROVE  summary'[k] = {} /\ \A m \in Metrics, p \in Partitions : k \notin gold'[m][p]
    <2>1. k # g /\ gpc[k] = "idle"
      BY <1>1, <1>5
    <2>2. summary'[k] = {} /\ \A m \in Metrics, p \in Partitions : k \notin gold[m][p]
      BY <1>1, <2>1 DEF GoldInv, GoldPhases
    <2>3. \A m \in Metrics, p \in Partitions : gold'[m][p] \subseteq gold[m][p] \cup {g}
      <3>1. CASE UNCHANGED <<gold, holes>>
        BY <3>1
      <3>2. CASE gpc[g] = "clear" /\ Emptied(g)
        BY <3>2, EmptiedEffect DEF GoldInv, Writing
      <3>3. CASE gpc[g] = "put" /\ Filled(g)
        BY <3>3, FilledEffect DEF GoldInv, Writing
      <3> QED
        BY <1>1, <3>1, <3>2, <3>3 DEF Writes
    <2> QED
      BY <2>1, <2>2, <2>3
  <1> QED
    BY <1>2, <1>3, <1>4, <1>5 DEF GoldPhases

LEMMA NextEmptiedSince ==
    ASSUME GoldTypes, GoldInv, GNext
    PROVE  EmptiedSince'
  <1>1. PICK g \in GRuns :
            /\ Writes(g)
            /\ gpc[g] \notin GEnded
            /\ \A h \in GRuns \ {g} :
                   /\ gpc'[h] = gpc[h] /\ step'[h] = step[h]
                   /\ left'[h] = left[h] /\ ago'[h] = ago[h]
            /\ gpc'[g] = "put" => Clear(g)
    BY StepWrites DEF GoldInv
  <1>2. SUFFICES ASSUME NEW k \in GRuns, gpc'[k] = "put"
                 PROVE  \A h \in gold'[Metric(k)'][Partition(k)'] : h \in GRuns /\ h \notin ago'[k]
    BY DEF EmptiedSince
  <1>3. CASE k = g
    <2>1. /\ gpc[g] = "clear" /\ Emptied(g)
          /\ step' = step /\ left' = left
      BY <1>1, <1>2, <1>3 DEF Clear
    <2>2. gold'[Metric(g)][Partition(g)] = {}
      BY <2>1, EmptiedEffect DEF GoldInv, Writing
    <2>3. Metric(g)' = Metric(g) /\ Partition(g)' = Partition(g)
      BY <2>1 DEF Metric, Partition
    <2> QED
      BY <1>3, <2>2, <2>3
  <1>4. CASE k # g
    <2>1. gpc[k] = "put" /\ ago'[k] = ago[k]
      BY <1>1, <1>2, <1>4
    <2>2. Metric(k)' = Metric(k) /\ Partition(k)' = Partition(k)
      BY <1>1, <1>4 DEF Metric, Partition
    <2>3. g \notin ago[k]
      BY <1>1 DEF GoldInv, GoldPhases
    <2>4. Metric(k) \in Metrics /\ Partition(k) \in Partitions
      BY <2>1, PartitionLeft DEF GoldInv, Writing
    <2>5. gold'[Metric(k)][Partition(k)] \subseteq gold[Metric(k)][Partition(k)] \cup {g}
      <3>1. CASE UNCHANGED <<gold, holes>>
        BY <3>1
      <3>2. CASE gpc[g] = "clear" /\ Emptied(g)
        BY <2>4, <3>2, EmptiedEffect DEF GoldInv, Writing
      <3>3. CASE gpc[g] = "put" /\ Filled(g)
        BY <2>4, <3>3, FilledEffect DEF GoldInv, Writing
      <3> QED
        BY <1>1, <3>1, <3>2, <3>3 DEF Writes
    <2>6. \A h \in gold[Metric(k)][Partition(k)] : h \in GRuns /\ h \notin ago[k]
      BY <2>1 DEF GoldInv, EmptiedSince
    <2> QED
      BY <2>1, <2>2, <2>3, <2>5, <2>6
  <1> QED
    BY <1>3, <1>4

\* What an invocation has once kept stays kept.
LEMMA KeptForGood ==
    ASSUME GoldTypes, GoldInv, GNext,
           NEW k \in GRuns, gpc[k] # "idle", NEW w \in MetricPartitions, Kept(k, w)
    PROVE  Kept(k, w)'
  <1>1. PICK g \in GRuns :
            /\ Writes(g)
            /\ gpc[g] \notin GEnded
            /\ \A h \in GRuns \ {g} : ago'[h] = ago[h]
            /\ gpc[g] # "idle" => ago'[g] = ago[g]
    BY StepWrites DEF GoldInv
  <1>2. ago'[k] = ago[k] /\ g \notin ago[k]
    BY <1>1 DEF GoldInv, GoldPhases
  <1>3. PICK m \in Metrics, p \in Partitions : w = <<m, p>>
    BY DEF MetricPartitions
  <1>4. CASE UNCHANGED <<gold, holes>>
    BY <1>2, <1>4 DEF Kept
  <1>5. CASE gpc[g] = "clear" /\ Emptied(g)
    <2>1. CASE w = <<Metric(g), Partition(g)>>
      <3>1. w \in holes'[g]
        BY <1>5, <2>1, EmptiedEffect DEF GoldInv, Writing
      <3> QED
        BY <1>2, <3>1 DEF Kept
    <2>2. CASE w # <<Metric(g), Partition(g)>>
      <3>1. gold'[m][p] = gold[m][p] /\ \A h \in GRuns : holes[h] \subseteq holes'[h]
        BY <1>3, <1>5, <2>2, EmptiedEffect DEF GoldInv, Writing
      <3> QED
        BY <1>2, <1>3, <3>1 DEF Kept
    <2> QED
      BY <2>1, <2>2
  <1>6. CASE gpc[g] = "put" /\ Filled(g)
    <2>1. CASE w = <<Metric(g), Partition(g)>>
      <3>1. g \in gold'[w[1]][w[2]]
        BY <1>6, <2>1, FilledEffect DEF GoldInv, Writing
      <3> QED
        BY <1>2, <3>1 DEF Kept
    <2>2. CASE w # <<Metric(g), Partition(g)>>
      <3>1. gold'[m][p] = gold[m][p] /\ \A h \in GRuns : w \in holes[h] => w \in holes'[h]
        BY <1>3, <1>6, <2>2, FilledEffect DEF GoldInv, Writing
      <3> QED
        BY <1>2, <1>3, <3>1 DEF Kept
    <2> QED
      BY <2>1, <2>2
  <1> QED
    BY <1>1, <1>4, <1>5, <1>6 DEF Writes

\* An invocation in a step that neither puts a file nor writes summary.
LEMMA ReportedAlone ==
    ASSUME GoldTypes, GoldInv, GNext, NEW k \in GRuns,
           summary'[k] = summary[k],
           Writing(k)' => Writing(k) /\ left'[k] = left[k] /\ result'[k] = result[k]
                          /\ step'[k] = step[k]
    PROVE  /\ \A w \in summary'[k] : Kept(k, w)'
           /\ Writing(k)' =>
                  \A p \in DOMAIN result'[k][Metric(k)'] \ left'[k] : Kept(k, <<Metric(k), p>>)'
  <1>1. \A w \in summary'[k] : Kept(k, w)'
    <2>1. summary[k] # {} => gpc[k] # "idle"
      BY DEF GoldInv, GoldPhases
    <2>2. \A w \in summary[k] : w \in MetricPartitions /\ Kept(k, w)
      BY DEF GoldInv, Reported, GoldTypes
    <2> QED
      BY <2>1, <2>2, KeptForGood
  <1>2. ASSUME Writing(k)', NEW p \in DOMAIN result'[k][Metric(k)'] \ left'[k]
        PROVE  Kept(k, <<Metric(k), p>>)'
    <2>1. Metric(k)' = Metric(k) /\ Writing(k) /\ Metric(k) \in Metrics
      BY <1>2, PartitionLeft DEF Metric, GoldInv
    <2>2. <<Metric(k), p>> \in MetricPartitions /\ Kept(k, <<Metric(k), p>>)
      BY <1>2, <2>1 DEF GoldInv, Reported, GoldTypes, MetricPartitions
    <2>3. gpc[k] # "idle"
      BY <2>1 DEF Writing
    <2>4. \A v \in MetricPartitions : Kept(k, v) => Kept(k, v)'
      BY <2>3, KeptForGood
    <2> QED
      BY <2>1, <2>2, <2>4 DEF Kept
  <1> QED
    BY <1>1, <1>2

LEMMA NextReported ==
    ASSUME GoldTypes, GoldInv, GNext
    PROVE  Reported'
  <1> DEFINE Good(k) ==
          /\ \A w \in summary[k] : Kept(k, w)
          /\ Writing(k) =>
                 \A p \in DOMAIN result[k][Metric(k)] \ left[k] : Kept(k, <<Metric(k), p>>)
  <1>1. PICK g \in GRuns : Invoke(g) \/ GStep(g) \/ GKill(g)
    BY DEF GNext
  <1>2. ASSUME NEW k \in GRuns,
               summary'[k] = summary[k],
               Writing(k)' => Writing(k) /\ left'[k] = left[k] /\ result'[k] = result[k]
                              /\ step'[k] = step[k]
        PROVE  Good(k)'
    BY <1>2, ReportedAlone
  <1> SUFFICES \A k \in GRuns : Good(k)'
    BY DEF Reported
  <1>3. ASSUME NEW k \in GRuns \ {g} PROVE Good(k)'
    <2>1. /\ gpc'[k] = gpc[k] /\ summary'[k] = summary[k] /\ left'[k] = left[k]
          /\ result'[k] = result[k] /\ step'[k] = step[k]
      <3>1. CASE Invoke(g) \/ ReadSilver(g) \/ CountRows(g)
        BY <1>3, <3>1 DEF Invoke, ReadSilver, CountRows, GoldTypes
      <3>2. CASE Compute(g)
        BY <1>3, <3>2 DEF Compute, GoldTypes
      <3>3. CASE ComputeEmpty(g) \/ ComputeRaises(g)
        BY <1>3, <3>3 DEF ComputeEmpty, ComputeRaises, GoldTypes
      <3>4. CASE Clear(g) \/ Put(g) \/ PutLast(g)
        BY <1>3, <3>4 DEF Clear, Put, PutLast, GoldTypes
      <3>5. CASE WriteRaises(g)
        BY <1>3, <3>5 DEF WriteRaises, GoldTypes
      <3>6. CASE GFinish(g) \/ GKill(g)
        BY <1>3, <3>6 DEF GFinish, GKill, Forget, GoldTypes
      <3> QED
        BY <1>1, <3>1, <3>2, <3>3, <3>4, <3>5, <3>6 DEF GStep
    <2> HIDE DEF Good
    <2> QED
      BY <1>2, <2>1 DEF Writing
  <1>4. Good(g)'
    <2>1. CASE Invoke(g) \/ ReadSilver(g) \/ CountRows(g)
      <3>1. summary'[g] = summary[g] /\ ~Writing(g)'
        BY <2>1 DEF Invoke, ReadSilver, CountRows, AtStep, Writing, GoldTypes
      <3> HIDE DEF Good
      <3> QED
        BY <1>2, <3>1
    <2>2. CASE ComputeEmpty(g) \/ ComputeRaises(g) \/ WriteRaises(g)
      <3>1. summary'[g] = summary[g] /\ ~Writing(g)'
        BY <2>2 DEF ComputeEmpty, ComputeRaises, WriteRaises, AtStep, Writing, GoldTypes
      <3> HIDE DEF Good
      <3> QED
        BY <1>2, <3>1
    <2>3. CASE GFinish(g) \/ GKill(g)
      <3>1. summary'[g] = summary[g] /\ ~Writing(g)'
        BY <2>3 DEF GFinish, GKill, Writing, GoldTypes
      <3> HIDE DEF Good
      <3> QED
        BY <1>2, <3>1
    <2>4. CASE Clear(g)
      <3>1. /\ summary'[g] = summary[g] /\ Writing(g)
            /\ left'[g] = left[g] /\ result'[g] = result[g] /\ step'[g] = step[g]
        BY <2>4 DEF Clear, Writing
      <3> HIDE DEF Good
      <3> QED
        BY <1>2, <3>1
    <2>5. CASE Compute(g)
      <3>1. /\ gpc[g] = "compute" /\ step' = step /\ summary' = summary
            /\ Metric(g) \in Metrics
        BY <2>5, GoldAssumption DEF Compute, AtStep, Metric, GoldTypes
      <3>2. DOMAIN result'[g][Metric(g)] = left'[g]
        BY <2>5, <3>1 DEF Compute, GoldTypes
      <3>3. Metric(g)' = Metric(g)
        BY <3>1 DEF Metric
      <3>4. \A w \in summary'[g] : Kept(g, w)'
        <4>1. \A w \in summary[g] : w \in MetricPartitions /\ Kept(g, w)
          BY DEF GoldInv, Reported, GoldTypes
        <4> QED
          BY <3>1, <4>1, KeptForGood
      <3> QED
        BY <3>2, <3>3, <3>4
    <2>6. CASE Put(g) \/ PutLast(g)
      <3>1. /\ gpc[g] = "put" /\ Filled(g) /\ result' = result
            /\ Metric(g) \in Metrics /\ Partition(g) \in Partitions
        BY <2>6, PartitionLeft DEF Put, PutLast, GoldInv, Writing
      <3>8. PICK m \in Metrics : m = Metric(g)
        BY <3>1
      <3>9. PICK p \in Partitions : p = Partition(g)
        BY <3>1
      <3>2. Kept(g, <<m, p>>)'
        <4>1. g \in gold'[m][p]
          BY <3>1, <3>8, <3>9, FilledEffect DEF GoldInv, Writing
        <4> QED
          BY <4>1 DEF Kept
      <3>3. \A q \in DOMAIN result[g][m] \ left[g] : Kept(g, <<m, q>>)'
        <4> SUFFICES ASSUME NEW q \in DOMAIN result[g][m] \ left[g]
                     PROVE  Kept(g, <<m, q>>)'
          OBVIOUS
        <4>1. <<m, q>> \in MetricPartitions /\ Kept(g, <<m, q>>)
          BY <3>1, <3>8 DEF GoldInv, Reported, Writing, GoldTypes, MetricPartitions
        <4> QED
          BY <3>1, <4>1, KeptForGood
      <3>4. \A w \in summary[g] : Kept(g, w)'
        <4>1. \A w \in summary[g] : w \in MetricPartitions /\ Kept(g, w)
          BY DEF GoldInv, Reported, GoldTypes
        <4> QED
          BY <3>1, <4>1, KeptForGood
      <3>5. CASE Put(g)
        <4>1. /\ left'[g] = left[g] \ {p} /\ summary' = summary /\ step' = step
          BY <3>5, <3>9 DEF Put, GoldTypes
        <4>2. Metric(g)' = m
          BY <3>8, <4>1 DEF Metric
        <4> QED
          BY <3>1, <3>2, <3>3, <3>4, <4>1, <4>2
      <3>6. CASE PutLast(g)
        <4>1. /\ ~Writing(g)' /\ left[g] = {p}
              /\ summary'[g] = summary[g] \cup ({m} \X DOMAIN result[g][m])
          BY <3>6, <3>8, <3>9 DEF PutLast, GoldTypes, Writing
        <4>2. \A q \in DOMAIN result[g][m] : Kept(g, <<m, q>>)'
          BY <3>2, <3>3, <4>1
        <4>3. \A w \in summary'[g] : Kept(g, w)'
          BY <3>4, <4>1, <4>2
        <4> QED
          BY <4>1, <4>3
      <3> QED
        BY <2>6, <3>5, <3>6
    <2> QED
      BY <1>1, <2>1, <2>2, <2>3, <2>4, <2>5, <2>6 DEF GStep
  <1> HIDE DEF Good
  <1> QED
    BY <1>3, <1>4

LEMMA GoldInvariance == Spec => [](GoldTypes /\ GoldInv)
  <1>1. Init => GoldTypes /\ GoldInv
    BY InitGold DEF Init
  <1>2. GoldTypes /\ GoldInv /\ [Next]_vars => (GoldTypes /\ GoldInv)'
    <2> SUFFICES ASSUME GoldTypes, GoldInv, [Next]_vars PROVE (GoldTypes /\ GoldInv)'
      OBVIOUS
    <2>1. CASE UNCHANGED gvars
      <3>1. GoldTypes' /\ GoldPhases'
        BY <2>1 DEF gvars, GoldTypes, GoldInv, GoldPhases, Writing
      <3>2. NothingVanishes' /\ RerunReplaces'
        BY <2>1 DEF gvars, GoldInv, NothingVanishes, RerunReplaces, Beside
      <3>3. EmptiedSince'
        BY <2>1 DEF gvars, GoldInv, EmptiedSince, Metric, Partition
      <3>4. Reported'
        BY <2>1 DEF gvars, GoldInv, Reported, Kept, Writing, Metric
      <3> QED
        BY <3>1, <3>2, <3>3, <3>4 DEF GoldInv
    <2>2. CASE GNext
      BY <2>2, NextGoldTypes, NextGoldPhases, NextGoldWhole, NextEmptiedSince, NextReported
         DEF GoldInv
    <2> QED
      BY <2>1, <2>2 DEF Next, Normalize, Analyze, vars
  <1> QED
    BY <1>1, <1>2, PTL DEF Spec

\* A partition of Gold that had data has data, or was emptied by a run that has
\* not put its file there: about to, killed or failed (gold_common.py:58).
THEOREM GoldNeverJustEmptied == Spec => []NothingVanishes
  BY GoldInvariance, PTL DEF GoldInv

\* Files of two runs are side by side only when the runs overlapped: a re-run
\* replaces what it re-writes (gold_common.py:57).
THEOREM GoldReplaced == Spec => []RerunReplaces
  BY GoldInvariance, PTL DEF GoldInv

\* What a run reports as written is there, or was replaced by a run that was
\* not over when it began, whatever fails (lambda_function.py:376-385).
THEOREM GoldSummaryTrue == Spec => []SummaryIsTrue
  <1>1. GoldInv => SummaryIsTrue
    BY DEF GoldInv, Reported, Kept, SummaryIsTrue
  <1> QED
    BY <1>1, GoldInvariance, PTL

-----------------------------------------------------------------------------
(***************************************************************************)
(* Silver                                                                  *)
(***************************************************************************)

SilverTypes ==
    /\ DOMAIN silver = SilverTableNames
    /\ \A tab \in SilverTableNames : DOMAIN silver[tab] = Keys
    /\ chunk \in [Days -> [XSources -> Nat]]
    /\ marked \subseteq Days
    /\ xpc \in [XNorms -> {"idle"} \cup XActive \cup XEnded]
    /\ queue \in [XNorms -> SUBSET Days]
    /\ source \in [XNorms -> XSources]
    /\ at \in [XNorms -> 1 .. Len(WriteOrder) + 1]
    /\ took \in [XNorms -> [XKeys -> Nat]]
    /\ processed \in [XNorms -> SUBSET Days]

\* Where an invocation is, and what it has by then: of the days still to be
\* done it has read at most the file of the one it is writing.
SilverPhases ==
    \A n \in XNorms :
        /\ xpc[n] \in {"list", "read", "write"} => queue[n] # {}
        /\ xpc[n] = "read" => chunk[Day(n)][source[n]] # 0
        /\ xpc[n] = "write" => took[n][Key(n)] # 0
        /\ \A k \in XKeys : k[1] \in queue[n] /\ took[n][k] # 0 =>
               xpc[n] \in {"write", "failed", "killed"} /\ k = Key(n)
        /\ processed[n] \cap queue[n] = {}
        /\ xpc[n] = "idle" => processed[n] = {} /\ \A k \in XKeys : took[n][k] = 0

\* The table of a day and source is what n read, as long as no other invocation
\* read another upload.
Whole(n, k, tab) ==
    (\A m \in XNorms : took[m][k] \in {0, took[n][k]}) =>
        silver[tab][k] = TableOf(k, took[n][k], tab)

\* The tables an invocation has behind it, of the day it is writing and of the
\* days it has done.
WholeBehind ==
    \A n \in XNorms :
        /\ xpc[n] = "write" => \A i \in 1 .. at[n] - 1 : Whole(n, Key(n), WriteOrder[i])
        /\ \A k \in XKeys : k[1] \in processed[n] /\ took[n][k] # 0 =>
               \A i \in 1 .. Len(WriteOrder) : Whole(n, k, WriteOrder[i])

SilverInv == SilverPhases /\ NothingClobbered /\ WholeBehind

LEMMA WriteOrderTables == \A i \in 1 .. Len(WriteOrder) : WriteOrder[i] \in SilverTableNames
  BY XAssumption

LEMMA KeysOfX == XKeys \subseteq Keys
  BY DEF XKeys, Keys

\* A set of days that is not empty has a first.
LEMMA FirstDay ==
    ASSUME NEW S \in SUBSET Days, S # {}
    PROVE  \E d \in S : \A e \in S : d <= e
  <1>1. S \in SUBSET Nat
    BY DaysAssumption
  <1>2. PICK d \in S : \A e \in S : <<e, d>> \notin OpToRel(<, Nat)
    BY <1>1, NatLessThanWellFounded, WFMin
  <1>3. ASSUME NEW e \in S PROVE d <= e
    <2>1. d \in Nat /\ e \in Nat
      BY <1>1
    <2>2. ~(e < d)
      BY <1>2, <2>1, Zenon DEF OpToRel
    <2> QED
      BY <2>1, <2>2
  <1> QED
    BY <1>3

LEMMA DayQueued ==
    ASSUME SilverTypes, NEW n \in XNorms, queue[n] # {}
    PROVE  /\ Day(n) \in queue[n] /\ Day(n) \in Days
           /\ Key(n) \in XKeys /\ Key(n)[1] = Day(n) /\ Key(n)[2] = source[n]
  <1>1. Day(n) \in queue[n] /\ Day(n) \in Days
    BY FirstDay DEF SilverTypes, Day
  <1> QED
    BY <1>1 DEF SilverTypes, Key, XKeys

LEMMA InitSilver == Init => SilverTypes /\ SilverInv
  <1> SUFFICES ASSUME Init PROVE SilverTypes /\ SilverInv
    OBVIOUS
  <1>1. SilverTypes
    BY XAssumption DEF Init, XInit, SilverTypes, XSources
  <1>2. SilverPhases /\ WholeBehind
    BY DEF Init, XInit, SilverPhases, WholeBehind
  <1>3. NothingClobbered
    BY KeysOfX DEF Init, NothingClobbered, XKeys, XSources
  <1> QED
    BY <1>1, <1>2, <1>3 DEF SilverInv

\* What a step of normalization_x does to Silver and to what was read.
LEMMA XStepEffect ==
    ASSUME SilverTypes, SilverPhases, NEW n \in XNorms, Target(n) \/ NoTarget(n) \/ XStep(n) \/ XKill(n)
    PROVE  /\ \/ UNCHANGED silver
              \/ /\ xpc[n] = "write" /\ at[n] <= Len(WriteOrder)
                 /\ silver' = [silver EXCEPT ![Table(n)][Key(n)] = NewRows(n)]
           /\ \/ UNCHANGED took
              \/ /\ xpc[n] = "read"
                 /\ took' = [took EXCEPT ![n][Key(n)] = chunk[Key(n)[1]][Key(n)[2]]]
           /\ UNCHANGED <<chunk, marked>>
  BY DEF Target, NoTarget, XStep, CheckMarker, SkipUnmarked, ListFiles, SkipUnknown, ReadCsv,
     XRaises, XPutTable, XPutNothing, XPutRaises, DayDone, Return, XKill, Object

LEMMA NextSilverTypes ==
    ASSUME SilverTypes, SilverPhases, XNext
    PROVE  SilverTypes'
  <1> USE DEF XActive, XEnded
  <1>1. ASSUME NEW d \in Days, Mark(d) PROVE SilverTypes'
    BY <1>1 DEF SilverTypes, Mark
  <1>2. ASSUME NEW d \in Days, NEW u \in XSources, Upload(d, u) PROVE SilverTypes'
    BY <1>2 DEF SilverTypes, Upload
  <1>3. ASSUME NEW n \in XNorms, Target(n) \/ NoTarget(n) \/ XStep(n) \/ XKill(n)
        PROVE  SilverTypes'
    <2>1. DOMAIN silver' = SilverTableNames /\ \A tab \in SilverTableNames : DOMAIN silver'[tab] = Keys
      BY <1>3, XStepEffect DEF SilverTypes
    <2>2. CASE Target(n) \/ NoTarget(n)
      <3>1. CASE NoTarget(n)
        BY <2>1, <3>1 DEF SilverTypes, NoTarget
      <3>2. CASE Target(n)
        <4>1. PICK S \in SUBSET Days : queue' = [queue EXCEPT ![n] = S]
          BY <3>2 DEF Target, SilverTypes
        <4> QED
          BY <2>1, <3>2, <4>1 DEF SilverTypes, Target
      <3> QED
        BY <2>2, <3>1, <3>2
    <2>3. CASE CheckMarker(n) \/ SkipUnmarked(n) \/ SkipUnknown(n) \/ XRaises(n) \/ Return(n) \/ XKill(n)
      BY <2>1, <2>3 DEF SilverTypes, CheckMarker, SkipUnmarked, SkipUnknown, XRaises, Return, XKill
    <2>4. CASE ListFiles(n)
      BY <2>1, <2>4 DEF SilverTypes, ListFiles, XSources
    <2>5. CASE ReadCsv(n)
      <3>1. Key(n) \in XKeys /\ chunk[Key(n)[1]][Key(n)[2]] \in Nat
        BY <2>5, DayQueued DEF ReadCsv, SilverTypes, SilverPhases
      <3>2. 1 \in 1 .. Len(WriteOrder) + 1
        BY XAssumption
      <3> QED
        BY <2>1, <2>5, <3>1, <3>2 DEF SilverTypes, ReadCsv
    <2>6. CASE XPutTable(n) \/ XPutNothing(n)
      <3>1. at[n] + 1 \in 1 .. Len(WriteOrder) + 1
        <4>1. Len(WriteOrder) \in Nat /\ at[n] \in 1 .. Len(WriteOrder) + 1 /\ at[n] <= Len(WriteOrder)
          BY <2>6, XAssumption DEF XPutTable, XPutNothing, SilverTypes
        <4> QED
          BY <4>1
      <3> QED
        BY <2>1, <2>6, <3>1 DEF SilverTypes, XPutTable, XPutNothing
    <2>7. CASE XPutRaises(n)
      BY <2>1, <2>7 DEF SilverTypes, XPutRaises
    <2>8. CASE DayDone(n)
      <3>1. Day(n) \in Days
        BY <2>8, DayQueued DEF DayDone, SilverPhases
      <3> QED
        BY <2>1, <2>8, <3>1 DEF SilverTypes, DayDone
    <2> QED
      BY <1>3, <2>2, <2>3, <2>4, <2>5, <2>6, <2>7, <2>8 DEF XStep
  <1> QED
    BY <1>1, <1>2, <1>3 DEF XNext

\* The day and the key of an invocation whose queue and source stay.
LEMMA SameKey ==
    ASSUME NEW n \in XNorms, queue'[n] = queue[n], source'[n] = source[n]
    PROVE  Day(n)' = Day(n) /\ Key(n)' = Key(n)
  BY DEF Day, Key

\* An invocation that does not step stays as it is.
LEMMA OtherStays ==
    ASSUME SilverTypes, NEW n \in XNorms, NEW m \in XNorms, n # m,
           Target(m) \/ NoTarget(m) \/ XStep(m) \/ XKill(m)
    PROVE  /\ xpc'[n] = xpc[n] /\ queue'[n] = queue[n] /\ source'[n] = source[n]
           /\ at'[n] = at[n] /\ took'[n] = took[n] /\ processed'[n] = processed[n]
  <1>1. CASE Target(m) \/ NoTarget(m) \/ CheckMarker(m) \/ SkipUnmarked(m) \/ ListFiles(m)
    BY <1>1 DEF Target, NoTarget, CheckMarker, SkipUnmarked, ListFiles, SilverTypes
  <1>2. CASE SkipUnknown(m) \/ ReadCsv(m) \/ XRaises(m) \/ XPutTable(m) \/ XPutNothing(m)
    BY <1>2 DEF SkipUnknown, ReadCsv, XRaises, XPutTable, XPutNothing, SilverTypes
  <1>3. CASE XPutRaises(m) \/ DayDone(m) \/ Return(m) \/ XKill(m)
    BY <1>3 DEF XPutRaises, DayDone, Return, XKill, SilverTypes
  <1> QED
    BY <1>1, <1>2, <1>3 DEF XStep

LEMMA NextSilverPhases ==
    ASSUME SilverTypes, SilverPhases, XNext
    PROVE  SilverPhases'
  <1> DEFINE Phase(n) ==
        /\ xpc[n] \in {"list", "read", "write"} => queue[n] # {}
        /\ xpc[n] = "read" => chunk[Day(n)][source[n]] # 0
        /\ xpc[n] = "write" => took[n][Key(n)] # 0
        /\ \A k \in XKeys : k[1] \in queue[n] /\ took[n][k] # 0 =>
               xpc[n] \in {"write", "failed", "killed"} /\ k = Key(n)
        /\ processed[n] \cap queue[n] = {}
        /\ xpc[n] = "idle" => processed[n] = {} /\ \A k \in XKeys : took[n][k] = 0
  <1>1. \A n \in XNorms : Phase(n)
    BY DEF SilverPhases
  <1> SUFFICES ASSUME NEW n \in XNorms PROVE Phase(n)'
    BY DEF SilverPhases
  <1> USE DEF XActive, XEnded
  <1>2. ASSUME UNCHANGED <<xpc, queue, source, took, processed>>,
               \A d \in Days, u \in XSources : chunk[d][u] # 0 => chunk'[d][u] # 0
        PROVE  Phase(n)'
    <2>1. Day(n)' = Day(n) /\ Key(n)' = Key(n)
      BY <1>2, SameKey
    <2>2. queue[n] # {} => Day(n) \in Days /\ source[n] \in XSources
      BY DayQueued DEF SilverTypes
    <2> QED
      BY <1>1, <1>2, <2>1, <2>2
  <1>3. ASSUME NEW d \in Days, Mark(d) PROVE Phase(n)'
    BY <1>2, <1>3 DEF Mark
  <1>4. ASSUME NEW d \in Days, NEW u \in XSources, Upload(d, u) PROVE Phase(n)'
    <2>1. \A e \in Days, v \in XSources : chunk[e][v] # 0 => chunk'[e][v] # 0
      BY <1>4 DEF Upload, SilverTypes
    <2> HIDE DEF Phase
    <2> QED
      BY <1>2, <1>4, <2>1 DEF Upload
  <1>5. ASSUME NEW m \in XNorms, Target(m) \/ NoTarget(m) \/ XStep(m) \/ XKill(m)
        PROVE  Phase(n)'
    <2>0. UNCHANGED chunk
      BY <1>5, XStepEffect
    <2>1. CASE n # m
      <3>1. /\ xpc'[n] = xpc[n] /\ queue'[n] = queue[n] /\ source'[n] = source[n]
            /\ took'[n] = took[n] /\ processed'[n] = processed[n]
        BY <1>5, <2>1, OtherStays
      <3>2. Day(n)' = Day(n) /\ Key(n)' = Key(n)
        BY <3>1, SameKey
      <3> QED
        BY <1>1, <2>0, <3>1, <3>2
    <2>2. CASE n = m
      <3>1. CASE Target(n)
        BY <1>1, <3>1 DEF Target, SilverTypes
      <3>2. CASE NoTarget(n) \/ CheckMarker(n) \/ XRaises(n) \/ Return(n) \/ XKill(n)
        <4>1. queue' = queue /\ source' = source /\ took' = took /\ processed' = processed
          BY <3>2 DEF NoTarget, CheckMarker, XRaises, Return, XKill
        <4>2. Day(n)' = Day(n) /\ Key(n)' = Key(n)
          BY <4>1, SameKey
        <4>3. /\ xpc'[n] \in {"list"} => queue[n] # {}
              /\ xpc'[n] \notin {"idle", "read", "write"}
              /\ xpc[n] \in {"write", "failed", "killed"} => xpc'[n] \in {"failed", "killed"}
          BY <3>2 DEF NoTarget, CheckMarker, XRaises, Return, XKill, SilverTypes
        <4> QED
          BY <1>1, <4>1, <4>2, <4>3
      <3>3. CASE SkipUnmarked(n) \/ SkipUnknown(n)
        <4>1. /\ xpc[n] \in {"check", "list"} /\ xpc'[n] = "check"
              /\ queue'[n] \subseteq queue[n] /\ took' = took /\ processed' = processed
          BY <3>3 DEF SkipUnmarked, SkipUnknown, SilverTypes
        <4> QED
          BY <1>1, <4>1
      <3>4. CASE ListFiles(n)
        <4>1. /\ xpc[n] = "list" /\ xpc'[n] = "read"
              /\ queue' = queue /\ took' = took /\ processed' = processed
              /\ source'[n] \in Listed(Day(n))
          BY <3>4 DEF ListFiles, SilverTypes, Listed, XSources
        <4>2. Day(n)' = Day(n)
          BY <4>1 DEF Day
        <4> QED
          BY <1>1, <2>0, <4>1, <4>2 DEF Listed
      <3>5. CASE ReadCsv(n)
        <4>1. /\ xpc[n] = "read" /\ xpc'[n] = "write"
              /\ queue' = queue /\ source' = source /\ processed' = processed
              /\ took' = [took EXCEPT ![n][Key(n)] = chunk[Key(n)[1]][Key(n)[2]]]
          BY <3>5 DEF ReadCsv, SilverTypes
        <4>2. Key(n) \in XKeys /\ chunk[Key(n)[1]][Key(n)[2]] # 0
          BY <1>1, <4>1, DayQueued
        <4>3. Day(n)' = Day(n) /\ Key(n)' = Key(n)
          BY <4>1, SameKey
        <4>4. /\ took'[n][Key(n)] = chunk[Key(n)[1]][Key(n)[2]]
              /\ \A k \in XKeys : k # Key(n) => took'[n][k] = took[n][k]
          BY <4>1, <4>2 DEF SilverTypes
        <4> QED
          BY <1>1, <4>1, <4>2, <4>3, <4>4
      <3>6. CASE XPutTable(n) \/ XPutNothing(n) \/ XPutRaises(n)
        <4>1. /\ xpc[n] = "write" /\ xpc'[n] \in {"write", "failed"}
              /\ queue' = queue /\ source' = source /\ took' = took /\ processed' = processed
          BY <3>6 DEF XPutTable, XPutNothing, XPutRaises, SilverTypes
        <4>2. Day(n)' = Day(n) /\ Key(n)' = Key(n)
          BY <4>1, SameKey
        <4> QED
          BY <1>1, <4>1, <4>2
      <3>7. CASE DayDone(n)
        <4>1. /\ xpc[n] = "write" /\ xpc'[n] = "check" /\ took' = took
              /\ queue'[n] = queue[n] \ {Day(n)} /\ processed'[n] = processed[n] \cup {Day(n)}
          BY <3>7 DEF DayDone, SilverTypes
        <4>2. Key(n)[1] = Day(n)
          BY DEF Key
        <4> QED
          BY <1>1, <4>1, <4>2
      <3> QED
        BY <1>5, <2>2, <3>1, <3>2, <3>3, <3>4, <3>5, <3>6, <3>7 DEF XStep
    <2> QED
      BY <2>1, <2>2
  <1> HIDE DEF Phase
  <1> QED
    BY <1>3, <1>4, <1>5 DEF XNext

\* What a step of normalization_x can do to Silver: put at the key of an
\* invocation what it read makes of the table it is at.
LEMMA XPutEffect ==
    ASSUME SilverTypes, SilverPhases, XNext
    PROVE  \/ UNCHANGED silver
           \/ \E n \in XNorms, tab \in SilverTableNames :
                 /\ xpc[n] = "write" /\ UNCHANGED took
                 /\ Key(n) \in XKeys /\ took[n][Key(n)] # 0
                 /\ silver' = [silver EXCEPT ![tab][Key(n)] =
                                  TableOf(Key(n), took[n][Key(n)], tab)]
  <1>1. CASE \E d \in Days : Mark(d) \/ \E u \in XSources : Upload(d, u)
    BY <1>1 DEF Mark, Upload
  <1>2. ASSUME NEW n \in XNorms, Target(n) \/ NoTarget(n) \/ XStep(n) \/ XKill(n),
               silver' # silver
        PROVE  /\ xpc[n] = "write" /\ UNCHANGED took
               /\ Key(n) \in XKeys /\ took[n][Key(n)] # 0
               /\ Table(n) \in SilverTableNames
               /\ silver' = [silver EXCEPT ![Table(n)][Key(n)] =
                                TableOf(Key(n), took[n][Key(n)], Table(n))]
    <2>1. /\ xpc[n] = "write" /\ at[n] <= Len(WriteOrder)
          /\ silver' = [silver EXCEPT ![Table(n)][Key(n)] = NewRows(n)]
          /\ UNCHANGED took
      BY <1>2, XStepEffect
    <2>2. at[n] \in 1 .. Len(WriteOrder)
      BY <2>1, XAssumption DEF SilverTypes
    <2>3. Key(n) \in XKeys /\ took[n][Key(n)] # 0
      BY <2>1, DayQueued DEF SilverPhases
    <2> QED
      BY <2>1, <2>2, <2>3, WriteOrderTables DEF Table, NewRows
  <1> QED
    BY <1>1, <1>2 DEF XNext

\* What an invocation read for a key stays what it read.
LEMMA TookForGood ==
    ASSUME SilverTypes, SilverPhases, XNext, NEW n \in XNorms, NEW k \in XKeys, took[n][k] # 0
    PROVE  took'[n][k] = took[n][k]
  <1>1. CASE \E d \in Days : Mark(d) \/ \E u \in XSources : Upload(d, u)
    BY <1>1 DEF Mark, Upload
  <1>2. ASSUME NEW m \in XNorms, Target(m) \/ NoTarget(m) \/ XStep(m) \/ XKill(m), took' # took
        PROVE  took'[n][k] = took[n][k]
    <2>1. xpc[m] = "read" /\ took' = [took EXCEPT ![m][Key(m)] = chunk[Key(m)[1]][Key(m)[2]]]
      BY <1>2, XStepEffect
    <2>2. Key(m) \in XKeys /\ Key(m)[1] \in queue[m]
      BY <2>1, DayQueued DEF SilverPhases
    <2>3. took[m][Key(m)] = 0
      BY <2>1, <2>2 DEF SilverPhases
    <2> QED
      BY <2>1, <2>2, <2>3 DEF SilverTypes
  <1> QED
    BY <1>1, <1>2 DEF XNext

LEMMA NextClobbered ==
    ASSUME SilverTypes, SilverPhases, NothingClobbered, XNext
    PROVE  NothingClobbered'
  <1> SUFFICES ASSUME NEW tab \in SilverTableNames, NEW k \in XKeys, silver'[tab][k] # <<>>
               PROVE  \E n \in XNorms : took'[n][k] # 0 /\ silver'[tab][k] = TableOf(k, took'[n][k], tab)
    BY DEF NothingClobbered, TableOf
  <1>1. CASE silver'[tab][k] = silver[tab][k]
    <2>1. PICK n \in XNorms : took[n][k] # 0 /\ silver[tab][k] = TableOf(k, took[n][k], tab)
      BY <1>1 DEF NothingClobbered
    <2> QED
      BY <1>1, <2>1, TookForGood
  <1>2. CASE silver'[tab][k] # silver[tab][k]
    <2>1. PICK n \in XNorms, t \in SilverTableNames :
             /\ Key(n) \in XKeys /\ took[n][Key(n)] # 0 /\ UNCHANGED took
             /\ silver' = [silver EXCEPT ![t][Key(n)] = TableOf(Key(n), took[n][Key(n)], t)]
      BY <1>2, XPutEffect
    <2>2. t = tab /\ k = Key(n)
      BY <1>2, <2>1, KeysOfX DEF SilverTypes
    <2>3. silver'[tab][k] = TableOf(k, took[n][k], tab)
      BY <2>1, <2>2, KeysOfX DEF SilverTypes
    <2> QED
      BY <2>1, <2>2, <2>3
  <1> QED
    BY <1>1, <1>2

\* A whole table of an invocation stays whole: who puts another read another upload.
LEMMA WholeForGood ==
    ASSUME SilverTypes, SilverPhases, XNext,
           NEW n \in XNorms, NEW k \in XKeys, NEW tab \in SilverTableNames,
           took[n][k] # 0, Whole(n, k, tab)
    PROVE  Whole(n, k, tab)'
  <1> SUFFICES ASSUME \A m \in XNorms : took'[m][k] \in {0, took'[n][k]}
               PROVE  silver'[tab][k] = TableOf(k, took'[n][k], tab)
    BY DEF Whole, TableOf
  <1>1. took'[n][k] = took[n][k]
    BY TookForGood
  <1>2. \A m \in XNorms : took[m][k] \in {0, took[n][k]}
    BY <1>1, TookForGood
  <1>3. silver[tab][k] = TableOf(k, took[n][k], tab)
    BY <1>2 DEF Whole
  <1>4. CASE silver'[tab][k] = silver[tab][k]
    BY <1>1, <1>3, <1>4
  <1>5. CASE silver'[tab][k] # silver[tab][k]
    <2>1. PICK m \in XNorms, t \in SilverTableNames :
             /\ Key(m) \in XKeys /\ took[m][Key(m)] # 0 /\ UNCHANGED took
             /\ silver' = [silver EXCEPT ![t][Key(m)] = TableOf(Key(m), took[m][Key(m)], t)]
      BY <1>5, XPutEffect
    <2>2. t = tab /\ k = Key(m)
      BY <1>5, <2>1, KeysOfX DEF SilverTypes
    <2>3. silver'[tab][k] = TableOf(k, took[m][k], tab)
      BY <2>1, <2>2, KeysOfX DEF SilverTypes
    <2>4. took[m][k] = took[n][k]
      BY <1>2, <2>1, <2>2
    <2> QED
      BY <1>1, <2>3, <2>4
  <1> QED
    BY <1>4, <1>5

\* The table an invocation puts, or has no rows to put for, is whole.
LEMMA PutIsWhole ==
    ASSUME SilverTypes, SilverPhases, NothingClobbered, NEW n \in XNorms,
           XPutTable(n) \/ XPutNothing(n),
           NEW k \in XKeys, NEW tab \in SilverTableNames, k = Key(n), tab = Table(n)
    PROVE  Whole(n, k, tab)'
  <1>1. took' = took
    BY DEF XPutTable, XPutNothing
  <1> SUFFICES ASSUME \A m \in XNorms : took[m][k] \in {0, took[n][k]}
               PROVE  silver'[tab][k] = TableOf(k, took[n][k], tab)
    BY <1>1 DEF Whole, TableOf
  <1>2. NewRows(n) = TableOf(k, took[n][k], tab)
    BY DEF NewRows
  <1>3. CASE XPutTable(n)
    BY <1>2, <1>3, KeysOfX DEF XPutTable, Object, SilverTypes
  <1>4. CASE XPutNothing(n)
    <2>1. NewRows(n) = <<>> /\ silver' = silver
      BY <1>4 DEF XPutNothing
    <2>2. CASE silver[tab][k] # <<>>
      <3>1. PICK m \in XNorms : took[m][k] # 0 /\ silver[tab][k] = TableOf(k, took[m][k], tab)
        BY <2>2 DEF NothingClobbered
      <3> QED
        BY <2>1, <3>1
    <2> QED
      BY <1>2, <2>1, <2>2
  <1> QED
    BY <1>3, <1>4

LEMMA NextWhole ==
    ASSUME SilverTypes, SilverInv, XNext
    PROVE  WholeBehind'
  <1> DEFINE Behind(n) == xpc[n] = "write" => \A i \in 1 .. at[n] - 1 : Whole(n, Key(n), WriteOrder[i])
             Finished(n) == \A k \in XKeys : k[1] \in processed[n] /\ took[n][k] # 0 =>
                               \A i \in 1 .. Len(WriteOrder) : Whole(n, k, WriteOrder[i])
  <1>1. \A n \in XNorms : Behind(n) /\ Finished(n)
    BY DEF SilverInv, WholeBehind
  <1>2. SilverPhases /\ NothingClobbered
    BY DEF SilverInv
  <1> SUFFICES ASSUME NEW n \in XNorms PROVE Behind(n)' /\ Finished(n)'
    BY DEF WholeBehind
  <1>3. Len(WriteOrder) \in Nat /\ at[n] \in 1 .. Len(WriteOrder) + 1
    BY XAssumption DEF SilverTypes
  \* What was whole of an invocation is whole, for the keys it had read.
  <1>4. \A k \in XKeys, i \in 1 .. Len(WriteOrder) :
           took[n][k] # 0 /\ Whole(n, k, WriteOrder[i]) => Whole(n, k, WriteOrder[i])'
    BY <1>2, WholeForGood, WriteOrderTables
  <1>5. \A k \in XKeys : took[n][k] # 0 => took'[n][k] = took[n][k]
    BY <1>2, TookForGood
  <1>6. ASSUME processed'[n] = processed[n], took'[n] = took[n] PROVE Finished(n)'
    BY <1>1, <1>4, <1>6
  <1>7. ASSUME /\ xpc[n] = "write" /\ queue'[n] = queue[n] /\ source'[n] = source[n]
               /\ at'[n] = at[n]
        PROVE  Behind(n)'
    <2>1. PICK k \in XKeys : k = Key(n) /\ took[n][k] # 0
      BY <1>2, <1>7, DayQueued DEF SilverPhases
    <2>2. Key(n)' = k
      BY <1>7, <2>1, SameKey
    <2>3. \A i \in 1 .. at[n] - 1 : Whole(n, k, WriteOrder[i])
      BY <1>1, <1>7, <2>1
    <2>4. \A i \in 1 .. at[n] - 1 : Whole(n, k, WriteOrder[i])'
      BY <1>3, <1>4, <2>1, <2>3
    <2> QED
      BY <1>7, <2>2, <2>4 DEF Whole, TableOf
  <1>8. CASE \E d \in Days : Mark(d) \/ \E u \in XSources : Upload(d, u)
    <2>1. UNCHANGED <<xpc, queue, source, at, took, processed>>
      BY <1>8 DEF Mark, Upload
    <2>2. xpc[n] # "write" => Behind(n)'
      BY <2>1
    <2> HIDE DEF Behind, Finished
    <2> QED
      BY <1>6, <1>7, <2>1, <2>2
  <1>9. ASSUME NEW m \in XNorms, Target(m) \/ NoTarget(m) \/ XStep(m) \/ XKill(m)
        PROVE  Behind(n)' /\ Finished(n)'
    <2>1. CASE n # m
      <3>1. /\ xpc'[n] = xpc[n] /\ queue'[n] = queue[n] /\ source'[n] = source[n]
            /\ at'[n] = at[n] /\ took'[n] = took[n] /\ processed'[n] = processed[n]
        BY <1>9, <2>1, OtherStays
      <3>2. xpc[n] # "write" => Behind(n)'
        BY <3>1
      <3> HIDE DEF Behind, Finished
      <3> QED
        BY <1>6, <1>7, <3>1, <3>2
    <2>2. CASE n = m /\ ~(XPutTable(n) \/ XPutNothing(n) \/ ReadCsv(n) \/ DayDone(n))
      <3>1. xpc'[n] # "write" /\ processed' = processed /\ took' = took
        BY <1>9, <2>2
           DEF Target, NoTarget, XStep, CheckMarker, SkipUnmarked, ListFiles, SkipUnknown, XRaises,
               XPutRaises, Return, XKill, SilverTypes, XActive, XEnded
      <3> QED
        BY <1>6, <3>1
    <2>3. CASE ReadCsv(n)
      <3>1. /\ at'[n] = 1 /\ processed' = processed
            /\ xpc[n] = "read" /\ queue[n] # {}
            /\ took' = [took EXCEPT ![n][Key(n)] = chunk[Key(n)[1]][Key(n)[2]]]
        BY <1>2, <2>3 DEF ReadCsv, SilverTypes, SilverPhases
      <3>2. Behind(n)'
        BY <3>1
      <3>3. Key(n) \in XKeys /\ Key(n)[1] \notin processed[n]
        BY <1>2, <3>1, DayQueued DEF SilverPhases
      <3>4. \A k \in XKeys : k[1] \in processed[n] => took'[n][k] = took[n][k]
        BY <3>1, <3>3 DEF SilverTypes
      <3> QED
        BY <1>1, <1>4, <3>1, <3>2, <3>4
    <2>4. CASE XPutTable(n) \/ XPutNothing(n)
      <3>1. /\ xpc[n] = "write" /\ at[n] <= Len(WriteOrder) /\ at'[n] = at[n] + 1
            /\ queue' = queue /\ source' = source /\ processed' = processed /\ took' = took
        BY <2>4 DEF XPutTable, XPutNothing, SilverTypes
      <3>2. PICK k \in XKeys : k = Key(n) /\ took[n][k] # 0
        BY <1>2, <3>1, DayQueued DEF SilverPhases
      <3>3. Key(n)' = k
        BY <3>1, <3>2, SameKey
      <3>4. PICK j \in 1 .. Len(WriteOrder) : j = at[n]
        BY <1>3, <3>1
      <3>5. Whole(n, k, WriteOrder[j])'
        BY <1>2, <2>4, <3>2, <3>4, PutIsWhole, WriteOrderTables DEF Table
      <3>6. \A i \in 1 .. at[n] - 1 : Whole(n, k, WriteOrder[i])
        BY <1>1, <3>1, <3>2
      <3>7. \A i \in 1 .. at'[n] - 1 : Whole(n, k, WriteOrder[i])'
        <4> SUFFICES ASSUME NEW i \in 1 .. at'[n] - 1 PROVE Whole(n, k, WriteOrder[i])'
          OBVIOUS
        <4>1. i \in 1 .. Len(WriteOrder) /\ (i = j \/ i \in 1 .. at[n] - 1)
          BY <1>3, <3>1, <3>4
        <4>2. CASE i = j
          BY <3>5, <4>2
        <4>3. CASE i \in 1 .. at[n] - 1
          BY <1>4, <3>2, <3>6, <4>1, <4>3
        <4> QED
          BY <4>1, <4>2, <4>3
      <3>8. Behind(n)'
        BY <3>3, <3>7 DEF Whole, TableOf
      <3>9. Finished(n)'
        BY <1>6, <3>1
      <3> QED
        BY <3>8, <3>9
    <2>5. CASE DayDone(n)
      <3>1. /\ xpc[n] = "write" /\ xpc'[n] = "check" /\ took' = took
            /\ processed'[n] = processed[n] \cup {Day(n)} /\ at[n] > Len(WriteOrder)
        BY <2>5 DEF DayDone, SilverTypes
      <3>2. \A k \in XKeys : k[1] = Day(n) /\ took[n][k] # 0 => k = Key(n)
        BY <1>2, <3>1, DayQueued DEF SilverPhases
      <3>3. at[n] - 1 = Len(WriteOrder)
        BY <1>3, <3>1
      <3>4. \A k \in XKeys : k[1] = Day(n) /\ took[n][k] # 0 =>
               \A i \in 1 .. Len(WriteOrder) : Whole(n, k, WriteOrder[i])
        BY <1>1, <3>1, <3>2, <3>3
      <3>5. Finished(n)'
        BY <1>1, <1>4, <3>1, <3>4
      <3> QED
        BY <3>1, <3>5
    <2> HIDE DEF Behind, Finished
    <2> QED
      BY <1>9, <2>1, <2>2, <2>3, <2>4, <2>5
  <1> HIDE DEF Behind, Finished
  <1> QED
    BY <1>8, <1>9 DEF XNext

LEMMA SilverInvariance == Spec => [](SilverTypes /\ SilverInv)
  <1>1. SilverTypes /\ SilverInv /\ [Next]_vars => (SilverTypes /\ SilverInv)'
    <2> SUFFICES ASSUME SilverTypes, SilverInv, [Next]_vars PROVE (SilverTypes /\ SilverInv)'
      OBVIOUS
    <2>1. CASE UNCHANGED xvars
      <3>1. SilverTypes'
        BY <2>1 DEF xvars, SilverTypes
      <3>2. SilverPhases'
        BY <2>1 DEF xvars, SilverInv, SilverPhases, Day, Key
      <3>3. NothingClobbered' /\ WholeBehind'
        BY <2>1 DEF xvars, SilverInv, NothingClobbered, WholeBehind, Whole, TableOf, Day, Key
      <3> QED
        BY <3>1, <3>2, <3>3 DEF SilverInv
    <2>2. CASE XNext
      BY <2>2, NextSilverTypes, NextSilverPhases, NextClobbered, NextWhole DEF SilverInv
    <2> QED
      BY <2>1, <2>2 DEF Next, Normalize, Analyze, vars
  <1> QED
    BY <1>1, InitSilver, PTL DEF Spec

\* An object of Silver holds what an upload of its own day and source makes of
\* the table, whatever runs and re-runs overlap (silver_common.py:286).
THEOREM SilverNotClobbered == Spec => []NothingClobbered
  BY SilverInvariance, PTL DEF SilverInv

\* A day reported as processed is whole in Silver unless a run read another
\* upload of its file, whatever fails or is stopped (lambda_function.py:344-348).
THEOREM ProcessedWhole == Spec => []ProcessedDayIsWhole
  <1>1. SilverTypes /\ SilverInv => ProcessedDayIsWhole
    <2> SUFFICES ASSUME SilverTypes, SilverInv, NEW n \in XNorms, NEW k \in XKeys,
                        k[1] \in processed[n], took[n][k] # 0,
                        \A m \in XNorms : took[m][k] \in {0, took[n][k]},
                        NEW tab \in Range(WriteOrder)
                 PROVE  silver[tab][k] = TableOf(k, took[n][k], tab)
      BY DEF ProcessedDayIsWhole
    <2>1. PICK i \in 1 .. Len(WriteOrder) : tab = WriteOrder[i]
      BY XAssumption DEF Range
    <2> QED
      BY <2>1 DEF SilverInv, WholeBehind, Whole
  <1> QED
    BY <1>1, SilverInvariance, PTL
=============================================================================
