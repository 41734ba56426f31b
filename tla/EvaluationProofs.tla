------------------------- MODULE EvaluationProofs --------------------------
(***************************************************************************)
(* What Evaluation keeps true for any number of matches, runs and cycles,   *)
(* and Simulation for any season.                                           *)
(***************************************************************************)
EXTENDS MCEvaluation, FiniteSetTheorems, SequenceTheorems, TLAPS

(* One disjunct per action.                                                  *)
AnyStep ==
  \/ \E r \in Run :
       \/ Begin(r) \/ Query(r) \/ FinishBacktest(r) \/ Calibrate(r) \/ ReadChampion(r)
       \/ Store(r) \/ Report(r) \/ Alarm(r) \/ Dies(r)
       \/ \E outcome \in Outcome : Train(r, outcome)
       \/ \E fits \in BOOLEAN : Fold(r, fits)
       \/ \E metrics, breached \in SUBSET Metric : Detect(r, metrics, breached)
  \/ \E m \in Match : MatchChanges(m)
  \/ \E v \in Version \union {None} : Rollback(v)

LEMMA AnyNext == Next => AnyStep
BY DEF Next, AnyStep, Step, World

LEMMA Constants ==
  /\ Matches \in Nat /\ MaxCycles \in Nat
  /\ InitialTrain \in Nat /\ InitialTrain > 0 /\ FoldSize \in Nat /\ FoldSize > 0
  /\ MinCalibrate \in Nat /\ MinCalibrate > 0 /\ MinConformal \in Nat /\ MinConformal > 0
  /\ Tied \subseteq Match
BY SettingsAssumption DEF Match

-----------------------------------------------------------------------------
(* Counting who is ahead numbers a finite set that is strictly and totally   *)
(* ordered: from 0, each number once, and in the order.                      *)
StrictOrder(S, R) ==
  /\ \A s \in S : <<s, s>> \notin R
  /\ \A s, t, u \in S : <<s, t>> \in R /\ <<t, u>> \in R => <<s, u>> \in R
  /\ \A s, t \in S : s = t \/ <<s, t>> \in R \/ <<t, s>> \in R

AheadIn(S, R, s) == {u \in S : <<u, s>> \in R}

LEMMA Numbering ==
  ASSUME NEW S, IsFiniteSet(S), NEW R, StrictOrder(S, R)
  PROVE  /\ [s \in S |-> Cardinality(AheadIn(S, R, s))] \in Bijection(S, 0..(Cardinality(S) - 1))
         /\ \A s, t \in S : Cardinality(AheadIn(S, R, s)) < Cardinality(AheadIn(S, R, t)) => <<s, t>> \in R
<1> DEFINE N == Cardinality(S)
           rank == [s \in S |-> Cardinality(AheadIn(S, R, s))]
<1>1. N \in Nat
  BY FS_CardinalityType
<1>2. ASSUME NEW s \in S
      PROVE  IsFiniteSet(AheadIn(S, R, s)) /\ rank[s] \in 0..(N - 1)
  <2>1. AheadIn(S, R, s) \subseteq S \ {s}
    BY DEF AheadIn, StrictOrder
  <2>2. IsFiniteSet(S \ {s}) /\ Cardinality(S \ {s}) = N - 1
    BY FS_RemoveElement
  <2>3. IsFiniteSet(AheadIn(S, R, s)) /\ Cardinality(AheadIn(S, R, s)) <= N - 1
    BY <2>1, <2>2, FS_Subset
  <2>4. Cardinality(AheadIn(S, R, s)) \in Nat
    BY <2>3, FS_CardinalityType
  <2> QED BY <1>1, <2>3, <2>4
<1>3. ASSUME NEW s \in S, NEW t \in S, <<s, t>> \in R
      PROVE  rank[s] < rank[t]
  <2>1. AheadIn(S, R, s) \subseteq AheadIn(S, R, t)
    BY <1>3 DEF AheadIn, StrictOrder
  <2>2. s \in AheadIn(S, R, t) /\ s \notin AheadIn(S, R, s)
    BY <1>3 DEF AheadIn, StrictOrder
  <2>3. /\ Cardinality(AheadIn(S, R, s)) <= Cardinality(AheadIn(S, R, t))
        /\ Cardinality(AheadIn(S, R, s)) # Cardinality(AheadIn(S, R, t))
    BY <1>2, <2>1, <2>2, FS_Subset
  <2> QED BY <1>1, <1>2, <2>3
<1>4. rank \in Injection(S, 0..(N - 1))
  <2>1. ASSUME NEW s \in S, NEW t \in S, s # t PROVE rank[s] # rank[t]
    <3>1. <<s, t>> \in R \/ <<t, s>> \in R
      BY <2>1 DEF StrictOrder
    <3>2. rank[s] < rank[t] \/ rank[t] < rank[s]
      BY <1>3, <3>1
    <3>3. rank[s] \in Int /\ rank[t] \in Int
      BY <1>2
    <3> HIDE DEF rank
    <3> QED BY <3>2, <3>3
  <2> QED BY <1>2, <2>1 DEF Injection, IsInjective
<1>5. IsFiniteSet(0..(N - 1)) /\ Cardinality(0..(N - 1)) = N
  <2>1. N - 1 \in Int /\ N - 1 - 0 + 1 = N /\ (0 > N - 1 => N = 0)
    BY <1>1
  <2> QED BY <2>1, FS_Interval
<1>6. rank \in Surjection(S, 0..(N - 1))
  BY <1>4, <1>5, FS_Injection
<1>7. ASSUME NEW s \in S, NEW t \in S, rank[s] < rank[t] PROVE <<s, t>> \in R
  <2>1. rank[s] \in Int /\ rank[t] \in Int
    BY <1>2
  <2>2. s # t /\ <<t, s>> \notin R
    <3>1. ~(rank[t] < rank[s]) /\ rank[s] # rank[t]
      <4> HIDE DEF rank
      <4> QED BY <1>7, <2>1
    <3> QED BY <1>3, <3>1
  <2> QED BY <2>2 DEF StrictOrder
<1> QED BY <1>4, <1>6, <1>7 DEF Bijection

-----------------------------------------------------------------------------
(* Sets of matches and their order.                                          *)
LEMMA MatchIsNat == Match \subseteq Nat
BY Constants DEF Match

LEMMA MatchSets ==
  ASSUME NEW S \in SUBSET Match
  PROVE  IsFiniteSet(S) /\ Cardinality(S) \in Nat /\ Cardinality(S) <= Matches
<1>1. IsFiniteSet(Match) /\ Cardinality(Match) <= Matches
  BY Constants, FS_Interval DEF Match
<1>2. IsFiniteSet(S) /\ Cardinality(S) <= Cardinality(Match)
  BY <1>1, FS_Subset
<1> QED BY <1>1, <1>2, FS_CardinalityType, Constants

Below(S, m) == {n \in S : n < m}

LEMMA BelowFacts ==
  ASSUME NEW S \in SUBSET Nat, IsFiniteSet(S), NEW m \in S
  PROVE  /\ IsFiniteSet(Below(S, m)) /\ Cardinality(Below(S, m)) \in 0..(Cardinality(S) - 1)
         /\ Below(S, m) \subseteq S \ {m}
         /\ Cardinality(Below(S, m)) = Cardinality(S) - 1 => Below(S, m) = S \ {m}
<1>1. Below(S, m) \subseteq S \ {m}
  <2>1. m \in Nat /\ ~(m < m)
    OBVIOUS
  <2> QED BY <2>1 DEF Below
<1>2. IsFiniteSet(S \ {m}) /\ Cardinality(S \ {m}) = Cardinality(S) - 1
  BY FS_RemoveElement
<1>3. IsFiniteSet(Below(S, m)) /\ Cardinality(Below(S, m)) <= Cardinality(S) - 1
  BY <1>1, <1>2, FS_Subset
<1>4. Cardinality(Below(S, m)) = Cardinality(S) - 1 => Below(S, m) = S \ {m}
  BY <1>1, <1>2, FS_Subset
<1>5. Cardinality(Below(S, m)) \in Nat /\ Cardinality(S) \in Nat
  BY <1>3, FS_CardinalityType
<1> QED BY <1>1, <1>3, <1>4, <1>5

(* Each rank is that of one element.                                         *)
LEMMA Ranks ==
  ASSUME NEW S \in SUBSET Nat, IsFiniteSet(S)
  PROVE  \A k \in 0..(Cardinality(S) - 1) : \E m \in S : Cardinality(Below(S, m)) = k
<1> DEFINE R == {p \in S \X S : p[1] < p[2]}
           rank == [m \in S |-> Cardinality(AheadIn(S, R, m))]
<1>1. StrictOrder(S, R)
  <2>1. /\ \A m \in S : ~(m < m)
        /\ \A m, n, o \in S : m < n /\ n < o => m < o
        /\ \A m, n \in S : m = n \/ m < n \/ n < m
    OBVIOUS
  <2> QED BY <2>1 DEF StrictOrder
<1>2. rank \in Surjection(S, 0..(Cardinality(S) - 1))
  BY ZenonT(30), <1>1, Numbering DEF Bijection
<1>3. \A m \in S : AheadIn(S, R, m) = Below(S, m)
  BY DEF AheadIn, Below
<1> HIDE DEF R
<1> QED BY <1>2, <1>3 DEF Surjection

(* A finite set that is not empty has a greatest element, and one only.      *)
LEMMA NewestFacts ==
  ASSUME NEW S \in SUBSET Nat, IsFiniteSet(S), S # {}
  PROVE  /\ Newest(S) \in S /\ \A u \in S : u <= Newest(S)
         /\ \A v \in S : (\A u \in S : u <= v) => v = Newest(S)
<1>1. Cardinality(S) \in Nat /\ Cardinality(S) # 0
  BY FS_CardinalityType, FS_EmptySet
<1>2. PICK m \in S : Cardinality(Below(S, m)) = Cardinality(S) - 1
  BY <1>1, Ranks
<1>3. \A u \in S : u = m \/ u < m
  BY <1>2, BelowFacts DEF Below
<1>4. \A u \in S : u <= m
  BY <1>3
<1>5. Newest(S) \in S /\ \A u \in S : u <= Newest(S)
  BY <1>4 DEF Newest
<1>6. ASSUME NEW v \in S, \A u \in S : u <= v PROVE v = Newest(S)
  <2>1. v <= Newest(S) /\ Newest(S) <= v /\ v \in Nat /\ Newest(S) \in Nat
    BY <1>5, <1>6
  <2> QED BY <2>1
<1> QED BY <1>5, <1>6

Increasing(s) == \A i, j \in 1..Len(s) : i < j => s[i] < s[j]

(* The completed matches, in order: as many, and increasing.                 *)
LEMMA OrderedFacts ==
  ASSUME NEW S \in SUBSET Match
  PROVE  /\ Ordered(S) \in Seq(Match)
         /\ Len(Ordered(S)) = Cardinality(S)
         /\ Increasing(Ordered(S))
<1> DEFINE N == Cardinality(S)
           at(i) == CHOOSE m \in S : Cardinality(Below(S, m)) = i - 1
<1>1. N \in Nat
  BY MatchSets
<1>2. Ordered(S) = [i \in 1..N |-> at(i)]
  BY DEF Ordered, Below
<1>3. ASSUME NEW i \in 1..N PROVE at(i) \in S /\ Cardinality(Below(S, at(i))) = i - 1
  <2>1. i - 1 \in 0..(N - 1)
    BY <1>1
  <2> QED BY <2>1, MatchSets, MatchIsNat, Ranks
<1> HIDE DEF at
<1>4. Ordered(S) \in [1..N -> Match]
  BY <1>2, <1>3
<1>5. Ordered(S) \in Seq(Match)
  BY <1>1, <1>4, SeqDef
<1>6. Len(Ordered(S)) = N
  BY <1>1, <1>4, <1>5, LenProperties
<1>7. ASSUME NEW i \in 1..N, NEW j \in 1..N, i < j PROVE Ordered(S)[i] < Ordered(S)[j]
  <2>1. SUFFICES ASSUME ~(at(i) < at(j)) PROVE FALSE
    BY <1>2
  <2>2. at(i) \in Match /\ at(j) \in Match
    BY <1>3
  <2>3. Below(S, at(j)) \subseteq Below(S, at(i))
    <3>1. ASSUME NEW x \in Below(S, at(j)) PROVE x < at(i)
      <4>1. x \in S /\ x < at(j) /\ x \in Nat /\ at(i) \in Nat /\ at(j) \in Nat
        BY <2>2, MatchIsNat DEF Below
      <4> QED BY <4>1, <2>1
    <3> QED BY <3>1 DEF Below
  <2>4. IsFiniteSet(Below(S, at(i)))
    BY MatchSets DEF Below
  <2>5. Cardinality(Below(S, at(j))) <= Cardinality(Below(S, at(i)))
    BY <2>3, <2>4, FS_Subset
  <2> QED BY <1>1, <1>3, <1>7, <2>5
<1> QED BY <1>5, <1>6, <1>7 DEF Increasing

(* A match with a higher number does not kick off earlier.                   *)
LEMMA KickoffOrder ==
  ASSUME NEW m \in Match, NEW n \in Match, m <= n
  PROVE  kickoff[m] <= kickoff[n]
<1> DEFINE tied(k) == Tied \intersect 1..k
           more == Tied \intersect (m + 1)..n
<1>0. m \in Nat /\ n \in Nat /\ m <= Matches /\ n <= Matches
  BY Constants DEF Match
<1>1. tied(n) = tied(m) \union more /\ tied(m) \intersect more = {}
  BY <1>0
<1>2. /\ IsFiniteSet(tied(m)) /\ IsFiniteSet(more)
      /\ Cardinality(tied(m)) \in Nat /\ Cardinality(tied(n)) \in Nat /\ Cardinality(more) \in Nat
  BY <1>0, MatchSets, Constants DEF Match
<1>3. Cardinality(tied(n)) = Cardinality(tied(m)) + Cardinality(more)
  BY <1>1, <1>2, FS_Union, FS_EmptySet
<1>4. IsFiniteSet((m + 1)..n) /\ Cardinality((m + 1)..n) = n - m
  <2>1. m + 1 \in Int /\ n \in Int /\ n - (m + 1) + 1 = n - m /\ (m + 1 > n => n - m = 0)
    BY <1>0
  <2> QED BY <2>1, FS_Interval
<1>5. Cardinality(more) <= n - m
  BY <1>4, FS_Subset
<1>6. kickoff[m] = m - Cardinality(tied(m)) /\ kickoff[n] = n - Cardinality(tied(n))
  BY DEF kickoff
<1> HIDE DEF tied, more
<1> QED BY <1>0, <1>2, <1>3, <1>5, <1>6

-----------------------------------------------------------------------------
(* The rows of the database.                                                 *)
Pc == {"idle", "train", "query", "fold", "calibrate", "conformal", "store",
       "drift", "report", "alarm"}
Interval == [cycle : 0..cycles, calibration : 0..Matches, test : 0..Matches]
Monitored == [cycle : 1..cycles, metric : Metric, version : Version,
              against : Version \union {None}, breached : BOOLEAN]
Finding == [metric : Metric, version : Version \union {None}, breached : BOOLEAN,
            against : Version \union {None}]

StoredOK ==
  /\ played \subseteq Match
  /\ cycles \in 0..MaxCycles
  /\ live \in Version \union {None}
  /\ born \in [Version -> Version \union {None}]
  /\ \A v \in Version : born[v] \in {None, v}
  /\ backtest \in [Version -> 0..cycles]
  /\ calibrated \in [Version -> [cycle : 0..cycles, n : 0..Matches]]
  /\ interval \in [Version -> [Target -> Interval]]
  /\ cut \subseteq 1..cycles
  /\ monitoring \subseteq Monitored
  /\ events \subseteq (1..cycles) \X Metric

(* What each run has in hand.                                                *)
Domains ==
  /\ pc \in [Run -> Pc]
  /\ cycle \in [Run -> Nat]
  /\ rows \in [Run -> Seq(Match)]
  /\ start \in [Run -> Nat]
  /\ pred \in [Run -> SUBSET (Nat \X Nat)]
  /\ champ \in [Run -> Version \union {None}]
  /\ left \in [Run -> SUBSET Target]
  /\ found \in [Run -> SUBSET Finding]

(* A run has a number of its own.                                            *)
CycleOK(r) ==
  /\ cycle[r] <= cycles
  /\ cycle[r] = None <=> pc[r] = "idle"
  /\ \A d \in Run : cycle[d] = cycle[r] => d = r \/ cycle[r] = None

(* Its predictions are of matches it has passed, from fits on earlier ones,  *)
(* one each.                                                                 *)
FoldsOK(r) ==
  /\ Len(rows[r]) <= Matches
  /\ Increasing(rows[r])
  /\ start[r] <= Len(rows[r])
  /\ pc[r] = "fold" => start[r] >= InitialTrain
  /\ pc[r] \in {"idle", "train", "query"} => rows[r] = <<>> /\ start[r] = 0 /\ pred[r] = {}
  /\ \A p \in pred[r] :
       /\ p[1] <= start[r]
       /\ InitialTrain <= p[2] /\ p[2] < p[1]
       /\ \A q \in pred[r] : q[1] = p[1] => q = p

StoreOK(r) ==
  /\ pc[r] = "store" <=> left[r] # {}
  /\ pc[r] = "store" <=> champ[r] # None
  /\ pc[r] = "store" => Cardinality(pred[r]) >= MinConformal

(* What it has found about the models; its alarms come after its rows.       *)
FoundOK(r) ==
  /\ \A f, g \in found[r] : f.metric = g.metric => f = g
  /\ \A f \in found[r] : f.metric = "parameters" => f.version # None
  /\ pc[r] # "idle" => \A e \in events : e[1] # cycle[r]
  /\ pc[r] \notin {"idle", "alarm"} => \A m \in monitoring : m.cycle # cycle[r]
  /\ pc[r] = "alarm" =>
       /\ \A m \in monitoring : m.cycle = cycle[r] =>
            \E f \in found[r] : f.metric = m.metric /\ f.breached = m.breached
       /\ \A f \in found[r] : f.metric = "parameters" =>
            \E m \in monitoring : m.cycle = cycle[r] /\ m.metric = f.metric

RunsOK == \A r \in Run : CycleOK(r) /\ FoldsOK(r) /\ StoreOK(r) /\ FoundOK(r)

IInv == StoredOK /\ Domains /\ RunsOK /\ AlarmsMatchRows

(* With one run at a time: it has the last number, and what it has stored of *)
(* the intervals is all of this backtest.                                    *)
StoringOK(r) ==
  /\ pc[r] # "idle" => cycle[r] = cycles /\ \A d \in Run : pc[d] # "idle" => d = r
  /\ pc[r] = "store" => \A t \in Target \ left[r] : interval[champ[r]][t] = Split(r)

SerialInv == IntervalsOfOneBacktest /\ \A r \in Run : StoringOK(r)

-----------------------------------------------------------------------------
(* The predictions of a backtest are at most as many as the matches.         *)
LEMMA PredictionsAreFew ==
  ASSUME IInv, NEW r \in Run
  PROVE  IsFiniteSet(pred[r]) /\ Cardinality(pred[r]) \in 0..Matches
<1> DEFINE n == Len(rows[r])
           at == [p \in pred[r] |-> p[1]]
<1>1. rows[r] \in Seq(Match) /\ pred[r] \subseteq Nat \X Nat /\ FoldsOK(r) /\ start[r] \in Nat
  BY DEF IInv, Domains, RunsOK
<1>2. n \in Nat /\ n <= Matches
  BY <1>1, LenProperties DEF FoldsOK
<1>3. ASSUME NEW p \in pred[r] PROVE p[1] \in 1..n
  BY <1>1, <1>2 DEF FoldsOK
<1>4. at \in Injection(pred[r], 1..n)
  BY <1>1, <1>3 DEF FoldsOK, Injection, IsInjective
<1>5. IsFiniteSet(1..n) /\ Cardinality(1..n) = n
  <2>1. 1 \in Int /\ n \in Int /\ n - 1 + 1 = n /\ (1 > n => n = 0)
    BY <1>2
  <2> QED BY <2>1, FS_Interval
<1>6. IsFiniteSet(pred[r]) /\ Cardinality(pred[r]) <= n
  BY <1>4, <1>5, FS_Injection
<1> QED BY <1>2, <1>6, FS_CardinalityType, Constants

(* What a run has in hand is its own.                                        *)
Untouched(d) ==
  /\ pc'[d] = pc[d] /\ cycle'[d] = cycle[d] /\ rows'[d] = rows[d] /\ start'[d] = start[d]
  /\ pred'[d] = pred[d] /\ champ'[d] = champ[d] /\ left'[d] = left[d] /\ found'[d] = found[d]

(* A step of one run: it remains to look at the run itself and at what is    *)
(* stored.                                                                   *)
LEMMA OwnStep ==
  ASSUME IInv, NEW r \in Run,
         StoredOK', Domains', FoldsOK(r)', StoreOK(r)', FoundOK(r)', AlarmsMatchRows',
         \A d \in Run \ {r} : Untouched(d),
         cycles <= cycles', cycle'[r] <= cycles',
         cycle'[r] = None <=> pc'[r] = "idle",
         cycle'[r] \in {cycle[r], None} \/ cycle'[r] > cycles,
         monitoring \subseteq monitoring',
         \A m \in monitoring' : m \in monitoring \/ (m.cycle = cycle[r] /\ cycle[r] # None),
         \A e \in events' : e \in events \/ (e[1] = cycle[r] /\ cycle[r] # None)
  PROVE  IInv'
<1>1. /\ cycles \in Nat /\ cycles' \in Nat
      /\ \A d \in Run : cycle[d] \in Nat /\ cycle'[d] \in Nat /\ cycle[d] <= cycles
  BY Constants DEF IInv, RunsOK, CycleOK, Domains, StoredOK
<1>2. ASSUME NEW d \in Run PROVE CycleOK(d)'
  BY <1>1 DEF IInv, RunsOK, CycleOK, Untouched, None
<1>3. ASSUME NEW d \in Run, d # r PROVE FoldsOK(d)' /\ StoreOK(d)' /\ FoundOK(d)'
  <2>1. FoldsOK(d)' /\ StoreOK(d)'
    BY <1>3 DEF IInv, RunsOK, FoldsOK, StoreOK, Untouched
  <2>2. FoundOK(d)'
    BY <1>1, <1>3 DEF IInv, RunsOK, FoundOK, CycleOK, Untouched
  <2> QED BY <2>1, <2>2
<1> QED BY <1>2, <1>3 DEF IInv, RunsOK

(* Nothing is said about the models, and a run about to raise its alarms     *)
(* stays there or is cut off.                                                *)
LEMMA QuietStep ==
  ASSUME IInv, UNCHANGED <<monitoring, events>>, cut \subseteq cut',
         \A r \in Run : pc[r] = "alarm" =>
            (pc'[r] = "alarm" /\ cycle'[r] = cycle[r]) \/ cycle[r] \in cut'
  PROVE  AlarmsMatchRows'
BY DEF IInv, AlarmsMatchRows

LEMMA InvInit == Init => IInv
<1> SUFFICES ASSUME Init PROVE IInv
  OBVIOUS
<1>1. StoredOK
  BY Constants DEF Init, StoredOK, NoEvidence, NoInterval, Interval, None, Version
<1>2. Domains
  BY DEF Init, Domains, Pc, None
<1>3. ASSUME NEW r \in Run PROVE CycleOK(r) /\ FoldsOK(r) /\ StoreOK(r) /\ FoundOK(r)
  <2>1. Len(<<>>) = 0
    OBVIOUS
  <2> QED BY <2>1, Constants DEF Init, CycleOK, FoldsOK, StoreOK, FoundOK, Increasing, None
<1> QED BY <1>1, <1>2, <1>3 DEF Init, IInv, RunsOK, AlarmsMatchRows

LEMMA WorldStep ==
  ASSUME IInv,
         \/ \E m \in Match : MatchChanges(m)
         \/ \E v \in Version \union {None} : Rollback(v)
  PROVE  IInv'
<1>1. UNCHANGED <<cycles, born, rowVars, pc, cycle, foldVars, storeVars, driftVars>>
  BY DEF MatchChanges, Rollback, modelVars
<1>2. live' \in Version \union {None} /\ played' \subseteq Match
  BY DEF MatchChanges, Rollback, modelVars, IInv, StoredOK
<1> USE <1>1 DEF rowVars, foldVars, storeVars, driftVars
<1>3. StoredOK'
  BY <1>2 DEF IInv, StoredOK, Interval, Monitored
<1>4. Domains'
  BY DEF IInv, Domains
<1>5. RunsOK'
  BY DEF IInv, RunsOK, CycleOK, FoldsOK, StoreOK, FoundOK
<1>6. AlarmsMatchRows'
  BY DEF IInv, AlarmsMatchRows
<1> QED BY <1>3, <1>4, <1>5, <1>6 DEF IInv

LEMMA BeginStep == ASSUME IInv, NEW r \in Run, Begin(r) PROVE IInv'
<1> USE DEF Begin, modelVars, rowVars, foldVars, storeVars, driftVars, GoTo
<1>0. cycles \in Nat /\ cycles' \in Nat /\ cycles' = cycles + 1 /\ cycles' <= MaxCycles /\ cycles' # None
      /\ 0..cycles \subseteq 0..cycles' /\ 1..cycles \subseteq 1..cycles'
  BY Constants DEF IInv, StoredOK, None
<1>1. StoredOK'
  <2>1. Interval \subseteq Interval' /\ Monitored \subseteq Monitored'
    BY <1>0 DEF Interval, Monitored
  <2>2. cycles' \in 0..MaxCycles
    BY <1>0, Constants
  <2>3. [cycle : 0..cycles, n : 0..Matches] \subseteq [cycle : 0..cycles', n : 0..Matches]
    BY <1>0
  <2>4. calibrated' \in [Version -> [cycle : 0..cycles', n : 0..Matches]]
        /\ interval' \in [Version -> [Target -> Interval']]
        /\ backtest' \in [Version -> 0..cycles']
    <3>1. ASSUME NEW v \in Version PROVE interval'[v] \in [Target -> Interval']
      BY <2>1 DEF IInv, StoredOK
    <3> QED BY <3>1, <2>3, <1>0 DEF IInv, StoredOK
  <2>5. monitoring' \subseteq Monitored' /\ events' \subseteq (1..cycles') \X Metric /\ cut' \subseteq 1..cycles'
    BY <1>0, <2>1 DEF IInv, StoredOK
  <2> QED BY <2>2, <2>4, <2>5 DEF IInv, StoredOK
<1>2. Domains'
  BY <1>0 DEF IInv, Domains, Pc
<1>3. pc'[r] = "train" /\ cycle'[r] = cycles + 1 /\ pc[r] = "idle"
      /\ rows'[r] = rows[r] /\ start'[r] = start[r] /\ pred'[r] = pred[r] /\ champ'[r] = champ[r]
      /\ left'[r] = left[r] /\ found'[r] = found[r]
  BY DEF IInv, Domains
<1>4. FoldsOK(r)' /\ StoreOK(r)'
  BY <1>3 DEF IInv, RunsOK, FoldsOK, StoreOK
<1>5. FoundOK(r)'
  <2>1. (\A e \in events : e[1] <= cycles) /\ \A m \in monitoring : m.cycle <= cycles
    BY <1>0 DEF IInv, StoredOK, Monitored
  <2>2. (\A e \in events : e[1] \in Nat) /\ \A m \in monitoring : m.cycle \in Nat
    BY <1>0 DEF IInv, StoredOK, Monitored
  <2>3. (\A e \in events : e[1] # cycles + 1) /\ \A m \in monitoring : m.cycle # cycles + 1
    BY <1>0, <2>1, <2>2
  <2> QED BY <1>3, <2>3 DEF IInv, RunsOK, FoundOK
<1>6. AlarmsMatchRows'
  BY <1>3, QuietStep DEF IInv, Domains
<1>7. \A d \in Run \ {r} : Untouched(d)
  BY DEF Untouched, IInv, Domains
<1> QED BY <1>0, <1>1, <1>2, <1>3, <1>4, <1>5, <1>6, <1>7, OwnStep

(* The steps before the alarms: what is said about the models stays, and the *)
(* run goes on.                                                              *)
LEMMA EarlyStep ==
  ASSUME IInv, NEW r \in Run, pc[r] \notin {"idle", "report", "alarm"},
         StoredOK', Domains', FoldsOK(r)', StoreOK(r)',
         \A d \in Run \ {r} : Untouched(d),
         pc'[r] \notin {"idle", "report", "alarm"},
         cycle'[r] = cycle[r], found'[r] = found[r],
         UNCHANGED <<cycles, monitoring, events, cut>>
  PROVE  IInv'
<1>1. FoundOK(r)'
  BY DEF IInv, RunsOK, FoundOK
<1>2. AlarmsMatchRows'
  BY QuietStep DEF Untouched
<1>3. cycle[r] # None /\ cycle'[r] <= cycles' /\ cycles <= cycles'
  BY Constants DEF IInv, RunsOK, CycleOK, StoredOK
<1> QED BY <1>1, <1>2, <1>3, OwnStep

LEMMA TrainStep ==
  ASSUME IInv, NEW r \in Run, NEW outcome \in Outcome, Train(r, outcome)
  PROVE  IInv'
<1> USE DEF Train, rowVars, foldVars, storeVars, driftVars, GoTo
<1>0. cycle[r] \in Version /\ pc[r] = "train"
  BY SMTT(30), Constants DEF IInv, RunsOK, CycleOK, Domains, StoredOK, Version, None
<1>1. StoredOK'
  <2>1. live' \in Version \union {None}
    BY <1>0 DEF IInv, StoredOK
  <2>2. born' \in [Version -> Version \union {None}] /\ \A v \in Version : born'[v] \in {None, v}
    BY <1>0 DEF IInv, StoredOK
  <2> QED BY <2>1, <2>2 DEF IInv, StoredOK, Interval, Monitored
<1>2. Domains' /\ pc'[r] = "query"
  BY DEF IInv, Domains, Pc
<1>3. FoldsOK(r)' /\ StoreOK(r)'
  BY <1>0, <1>2 DEF IInv, RunsOK, FoldsOK, StoreOK
<1>4. \A d \in Run \ {r} : Untouched(d)
  BY DEF Untouched, IInv, Domains
<1> QED BY <1>0, <1>1, <1>2, <1>3, <1>4, EarlyStep

LEMMA QueryStep == ASSUME IInv, NEW r \in Run, Query(r) PROVE IInv'
<1> USE DEF Query, modelVars, rowVars, storeVars, driftVars, GoTo
<1>0. played \subseteq Match /\ pc[r] = "query" /\ FoldsOK(r) /\ StoreOK(r)
  BY DEF IInv, StoredOK, RunsOK
<1>1. StoredOK'
  BY DEF IInv, StoredOK, Interval, Monitored
<1>2. \A d \in Run \ {r} : Untouched(d)
  BY DEF Untouched, IInv, Domains
<1>3. CASE Cardinality(played) < InitialTrain + FoldSize
  <2>1. Domains' /\ pc'[r] = "calibrate"
    BY <1>3 DEF IInv, Domains, Pc
  <2>2. FoldsOK(r)' /\ StoreOK(r)'
    BY <1>0, <1>3, <2>1 DEF FoldsOK, StoreOK
  <2> QED BY <1>0, <1>1, <1>2, <1>3, <2>1, <2>2, EarlyStep
<1>4. CASE ~(Cardinality(played) < InitialTrain + FoldSize)
  <2>1. Domains' /\ pc'[r] = "fold" /\ rows'[r] = Ordered(played) /\ start'[r] = InitialTrain
        /\ pred'[r] = {}
    <3>1. Ordered(played) \in Seq(Match)
      BY <1>0, OrderedFacts
    <3>2. pc' \in [Run -> Pc] /\ rows' \in [Run -> Seq(Match)] /\ start' \in [Run -> Nat]
      BY ZenonT(30), <3>1, <1>4, Constants DEF IInv, Domains, Pc
    <3>3. Domains'
      BY <3>2 DEF IInv, Domains
    <3> QED BY <1>0, <1>4, <3>3 DEF IInv, Domains, FoldsOK
  <2>2. Cardinality(played) \in Nat /\ Cardinality(played) <= Matches
        /\ InitialTrain <= Cardinality(played)
    BY <1>0, <1>4, MatchSets, Constants
  <2>3. FoldsOK(r)'
    BY <1>0, <2>1, <2>2, OrderedFacts, Constants DEF FoldsOK
  <2>4. StoreOK(r)'
    BY <1>0, <2>1 DEF StoreOK
  <2> QED BY <1>0, <1>1, <1>2, <1>4, <2>1, <2>3, <2>4, EarlyStep
<1> QED BY <1>3, <1>4

LEMMA FoldStep ==
  ASSUME IInv, NEW r \in Run, NEW fits \in BOOLEAN, Fold(r, fits)
  PROVE  IInv'
<1> USE DEF Fold, modelVars, rowVars, storeVars, driftVars
<1> DEFINE from == start[r]
           to == FoldEnd(r)
           new == ((from + 1)..to) \X {from}
<1>0. /\ pc[r] = "fold" /\ FoldsOK(r) /\ StoreOK(r) /\ from \in Nat /\ Len(rows[r]) \in Nat
      /\ rows[r] \in Seq(Match) /\ pred[r] \subseteq Nat \X Nat
  BY LenProperties DEF IInv, RunsOK, Domains
<1>1. to \in Nat /\ from < to /\ to <= Len(rows[r])
  BY <1>0, Constants DEF FoldEnd, Least
<1>2. StoredOK'
  BY DEF IInv, StoredOK, Interval, Monitored
<1>3. /\ start'[r] = to /\ pred'[r] = (IF fits THEN pred[r] \union new ELSE pred[r])
      /\ pc'[r] = pc[r] /\ rows'[r] = rows[r] /\ left'[r] = left[r] /\ champ'[r] = champ[r]
  BY DEF IInv, Domains
<1>4. Domains'
  <2>1. new \subseteq Nat \X Nat
    BY <1>0, <1>1
  <2> QED BY <1>0, <1>1, <2>1 DEF IInv, Domains
<1>5. FoldsOK(r)'
  <2>1. ASSUME NEW p \in pred'[r]
        PROVE  /\ p[1] <= to /\ InitialTrain <= p[2] /\ p[2] < p[1]
               /\ \A q \in pred'[r] : q[1] = p[1] => q = p
    <3>1. \A q \in new : q[1] \in Nat /\ q[1] > from /\ q[1] <= to /\ q[2] = from /\ q = <<q[1], q[2]>>
      BY <1>0, <1>1
    <3>2. \A q \in pred[r] : q[1] \in Nat /\ q[2] \in Nat /\ q[1] <= from
                             /\ InitialTrain <= q[2] /\ q[2] < q[1]
      BY <1>0 DEF FoldsOK
    <3>3. CASE p \in pred[r]
      <4>1. \A q \in new : q[1] # p[1]
        BY <1>0, <3>1, <3>2, <3>3
      <4> QED BY <1>0, <1>1, <1>3, <3>2, <3>3, <4>1 DEF FoldsOK
    <3>4. CASE p \in new
      <4>1. \A q \in pred[r] : q[1] # p[1]
        BY <1>0, <3>1, <3>2, <3>4
      <4>2. InitialTrain <= from
        BY <1>0 DEF FoldsOK
      <4> HIDE DEF new
      <4> QED BY <1>0, <1>1, <1>3, <3>1, <3>4, <4>1, <4>2
    <3> QED BY <1>3, <2>1, <3>3, <3>4
  <2>2. InitialTrain <= to
    BY <1>0, <1>1, Constants DEF FoldsOK
  <2> QED BY <1>0, <1>1, <1>3, <2>1, <2>2 DEF FoldsOK
<1>6. StoreOK(r)'
  BY <1>0, <1>3 DEF StoreOK
<1>7. \A d \in Run \ {r} : Untouched(d)
  BY DEF Untouched, IInv, Domains
<1> QED BY <1>0, <1>2, <1>3, <1>4, <1>5, <1>6, <1>7, EarlyStep

LEMMA FinishStep == ASSUME IInv, NEW r \in Run, FinishBacktest(r) PROVE IInv'
<1> USE DEF FinishBacktest, modelVars, foldVars, storeVars, driftVars, GoTo
<1>0. pc[r] = "fold" /\ FoldsOK(r) /\ StoreOK(r) /\ cycle[r] \in 0..cycles
  BY Constants DEF IInv, RunsOK, Domains, CycleOK, StoredOK
<1>1. StoredOK'
  BY <1>0 DEF IInv, StoredOK, Interval, Monitored
<1>2. Domains' /\ pc'[r] = "calibrate"
  BY DEF IInv, Domains, Pc
<1>3. FoldsOK(r)' /\ StoreOK(r)'
  BY <1>0, <1>2 DEF FoldsOK, StoreOK
<1>4. \A d \in Run \ {r} : Untouched(d)
  BY DEF Untouched, IInv, Domains
<1> QED BY <1>0, <1>1, <1>2, <1>3, <1>4, EarlyStep

LEMMA CalibrateStep == ASSUME IInv, NEW r \in Run, Calibrate(r) PROVE IInv'
<1> USE DEF Calibrate, modelVars, foldVars, storeVars, driftVars, GoTo
<1>0. pc[r] = "calibrate" /\ FoldsOK(r) /\ StoreOK(r) /\ cycle[r] \in 0..cycles
  BY Constants DEF IInv, RunsOK, Domains, CycleOK, StoredOK
<1>1. StoredOK'
  <2>1. [cycle |-> cycle[r], n |-> Cardinality(pred[r])] \in [cycle : 0..cycles, n : 0..Matches]
    BY <1>0, PredictionsAreFew
  <2>2. calibrated' \in [Version -> [cycle : 0..cycles, n : 0..Matches]]
    BY <2>1 DEF IInv, StoredOK
  <2> QED BY <2>2 DEF IInv, StoredOK, Interval, Monitored
<1>2. Domains' /\ pc'[r] = "conformal"
  BY DEF IInv, Domains, Pc
<1>3. FoldsOK(r)' /\ StoreOK(r)'
  BY <1>0, <1>2 DEF FoldsOK, StoreOK
<1>4. \A d \in Run \ {r} : Untouched(d)
  BY DEF Untouched, IInv, Domains
<1> QED BY <1>0, <1>1, <1>2, <1>3, <1>4, EarlyStep

LEMMA ReadChampionStep == ASSUME IInv, NEW r \in Run, ReadChampion(r) PROVE IInv'
<1> USE DEF ReadChampion, modelVars, rowVars, foldVars, storeVars, driftVars, GoTo
<1>0. pc[r] = "conformal" /\ FoldsOK(r) /\ StoreOK(r)
  BY DEF IInv, RunsOK
<1>1. StoredOK'
  BY DEF IInv, StoredOK, Interval, Monitored
<1>2. Domains' /\ pc'[r] \in {"store", "drift"}
  <2>1. CASE live # None /\ Cardinality(pred[r]) >= MinConformal
    <3>1. champ' = [champ EXCEPT ![r] = live] /\ left' = [left EXCEPT ![r] = Target]
          /\ pc' = [pc EXCEPT ![r] = "store"]
      BY <2>1
    <3>2. champ' \in [Run -> Version \union {None}] /\ left' \in [Run -> SUBSET Target]
          /\ pc' \in [Run -> Pc] /\ pc'[r] = "store"
      BY <3>1 DEF IInv, Domains, Pc, StoredOK
    <3> QED BY <3>2 DEF IInv, Domains
  <2>2. CASE ~(live # None /\ Cardinality(pred[r]) >= MinConformal)
    BY <2>2 DEF IInv, Domains, Pc
  <2> QED BY <2>1, <2>2
<1>3. FoldsOK(r)'
  BY <1>0, <1>2 DEF FoldsOK
<1>4. StoreOK(r)'
  <2>1. CASE pc'[r] = "store"
    <3>1. live # None /\ Cardinality(pred[r]) >= MinConformal /\ champ'[r] = live /\ left'[r] = Target
      BY <2>1 DEF IInv, Domains
    <3> QED BY <2>1, <3>1 DEF StoreOK, Target
  <2>2. CASE pc'[r] = "drift"
    <3>1. UNCHANGED storeVars
      BY <2>2 DEF IInv, Domains
    <3> QED BY <1>0, <2>2, <3>1 DEF StoreOK
  <2> QED BY <1>2, <2>1, <2>2
<1>5. \A d \in Run \ {r} : Untouched(d)
  BY DEF Untouched, IInv, Domains
<1> QED BY <1>0, <1>1, <1>2, <1>3, <1>4, <1>5, EarlyStep

(* A target is still to store, and is one of the four.                       *)
LEMMA NextTargetIsLeft ==
  ASSUME IInv, NEW r \in Run, pc[r] = "store"
  PROVE  /\ NextTarget(r) \in left[r] /\ NextTarget(r) \in Target
         /\ IsFiniteSet(left[r]) /\ left[r] # {}
<1>1. left[r] # {} /\ left[r] \subseteq Target
  BY DEF IInv, RunsOK, StoreOK, Domains
<1> DEFINE first(i) == /\ Order[i] \in left[r]
                       /\ \A j \in 1..(i - 1) : Order[j] \notin left[r]
<1>2. Order[1] = "home_goals" /\ Order[2] = "away_goals" /\ Order[3] = "total_goals" /\ Order[4] = "outcome"
  BY DEF Order
<1>3. \E i \in 1..4 : Order[i] \in left[r]
  <2>1. 1 \in 1..4 /\ 2 \in 1..4 /\ 3 \in 1..4 /\ 4 \in 1..4
    OBVIOUS
  <2>2. PICK t \in left[r] : t \in {"home_goals", "away_goals", "total_goals", "outcome"}
    BY <1>1 DEF Target
  <2> QED BY <1>2, <2>1, <2>2
<1>4. \E i \in 1..4 : first(i)
  <2>1. \A j \in 1..(1 - 1) : FALSE
    OBVIOUS
  <2>2. (\A j \in 1..(2 - 1) : j = 1) /\ (\A j \in 1..(3 - 1) : j \in {1, 2}) /\ \A j \in 1..(4 - 1) : j \in {1, 2, 3}
    OBVIOUS
  <2>3. CASE Order[1] \in left[r]
    BY <2>1, <2>3
  <2>4. CASE Order[2] \in left[r] /\ Order[1] \notin left[r]
    BY <2>2, <2>4
  <2>5. CASE Order[3] \in left[r] /\ Order[1] \notin left[r] /\ Order[2] \notin left[r]
    BY <2>2, <2>5
  <2>6. CASE Order[4] \in left[r] /\ Order[1] \notin left[r] /\ Order[2] \notin left[r] /\ Order[3] \notin left[r]
    BY <2>2, <2>6
  <2>7. \A i \in 1..4 : i \in {1, 2, 3, 4}
    OBVIOUS
  <2> QED BY <1>3, <2>3, <2>4, <2>5, <2>6, <2>7
<1>5. NextTarget(r) \in left[r]
  <2>1. PICK i \in 1..4 : NextTarget(r) = Order[i] /\ first(i)
    BY <1>4 DEF NextTarget
  <2> QED BY <2>1
<1>6. IsFiniteSet(Target)
  <2>1. IsFiniteSet({"home_goals"} \union {"away_goals"} \union {"total_goals"} \union {"outcome"})
    BY FS_Singleton, FS_Union
  <2>2. Target = {"home_goals"} \union {"away_goals"} \union {"total_goals"} \union {"outcome"}
    BY DEF Target
  <2> QED BY <2>1, <2>2
<1>7. IsFiniteSet(left[r])
  BY <1>1, <1>6, FS_Subset
<1> QED BY <1>1, <1>5, <1>7

(* The predictions split into two parts, of which the first is not empty.    *)
LEMMA SplitFacts ==
  ASSUME IInv, NEW r \in Run, pc[r] = "store"
  PROVE  /\ Split(r) \in Interval
         /\ Split(r).cycle = cycle[r] /\ cycle[r] # None
         /\ Split(r).calibration >= 1
         /\ Split(r).calibration + Split(r).test >= MinConformal
<1> DEFINE n == Cardinality(pred[r])
           half == IF n < 2 THEN 1 ELSE n \div 2
<1>1. n \in Nat /\ n <= Matches /\ n >= 1 /\ n >= MinConformal
  BY PredictionsAreFew, Constants DEF IInv, RunsOK, StoreOK
<1>2. half \in Nat /\ half >= 1 /\ half <= n
  BY <1>1
<1>3. half \in 0..Matches /\ n - half \in 0..Matches /\ half + (n - half) = n
  <2> HIDE DEF half, n
  <2> QED BY <1>1, <1>2, Constants
<1>4. cycle[r] \in 0..cycles /\ cycle[r] # None
  BY Constants DEF IInv, RunsOK, CycleOK, Domains, StoredOK
<1>5. Split(r) = [cycle |-> cycle[r], calibration |-> half, test |-> n - half]
  BY DEF Split
<1> HIDE DEF half, n
<1> QED BY <1>1, <1>2, <1>3, <1>4, <1>5 DEF Interval

LEMMA StoredFacts ==
  ASSUME IInv, NEW r \in Run, Store(r)
  PROVE  /\ pc[r] = "store" /\ champ[r] \in Version
         /\ left'[r] = left[r] \ {NextTarget(r)}
         /\ \/ left'[r] = {} /\ pc'[r] = "drift" /\ champ'[r] = None
            \/ left'[r] # {} /\ pc'[r] = "store" /\ champ'[r] = champ[r]
         /\ \A d \in Run \ {r} : Untouched(d)
         /\ interval' = [interval EXCEPT ![champ[r]][NextTarget(r)] = Split(r)]
         /\ UNCHANGED <<played, cycles, modelVars, backtest, calibrated, cycle, foldVars, driftVars>>
         /\ Domains'
<1> USE DEF Store, Stored, GoTo
<1>1. pc[r] = "store" /\ champ[r] \in Version
  BY DEF IInv, RunsOK, StoreOK, Domains
<1>2. left'[r] = left[r] \ {NextTarget(r)}
  BY DEF IInv, Domains
<1>3. CASE Cardinality(left[r]) = 1
  <2>1. PICK x : left[r] = {x}
    BY <1>1, <1>3, NextTargetIsLeft, FS_Singleton
  <2>2. left'[r] = {}
    BY <1>1, <1>2, <2>1, NextTargetIsLeft
  <2>3. Domains' /\ pc'[r] = "drift" /\ champ'[r] = None
    <3>1. /\ pc' = [pc EXCEPT ![r] = "drift"] /\ champ' = [champ EXCEPT ![r] = None]
          /\ left' = [left EXCEPT ![r] = left[r] \ {NextTarget(r)}]
          /\ UNCHANGED <<cycle, rows, start, pred, found>>
      BY <1>3 DEF foldVars, driftVars
    <3>2. pc' \in [Run -> Pc] /\ pc'[r] = "drift" /\ champ' \in [Run -> Version \union {None}] /\ champ'[r] = None
      BY <3>1 DEF IInv, Domains, Pc
    <3>3. left' \in [Run -> SUBSET Target]
      BY <3>1 DEF IInv, Domains
    <3> QED BY <3>1, <3>2, <3>3 DEF IInv, Domains
  <2>4. \A d \in Run \ {r} : Untouched(d)
    BY <1>3 DEF IInv, Domains, foldVars, driftVars, Untouched
  <2> QED BY <1>1, <1>2, <2>2, <2>3, <2>4
<1>4. CASE Cardinality(left[r]) # 1
  <2>1. left'[r] # {}
    <3>1. SUFFICES ASSUME left'[r] = {} PROVE FALSE
      OBVIOUS
    <3>2. left[r] = {NextTarget(r)}
      BY <1>1, <1>2, <3>1, NextTargetIsLeft
    <3> QED BY <1>4, <3>2, FS_Singleton
  <2>2. Domains' /\ pc'[r] = "store" /\ champ'[r] = champ[r]
    BY <1>1, <1>4 DEF IInv, Domains, Pc, foldVars, driftVars
  <2>3. \A d \in Run \ {r} : Untouched(d)
    BY <1>4 DEF IInv, Domains, foldVars, driftVars, Untouched
  <2> QED BY <1>1, <1>2, <2>1, <2>2, <2>3
<1> QED BY <1>3, <1>4

LEMMA StoreStep == ASSUME IInv, NEW r \in Run, Store(r) PROVE IInv'
<1> USE StoredFacts DEF modelVars, foldVars, driftVars
<1>0. pc[r] = "store" /\ FoldsOK(r) /\ StoreOK(r)
  BY DEF IInv, RunsOK
<1>1. StoredOK'
  <2>1. Split(r) \in Interval /\ NextTarget(r) \in Target
    BY <1>0, SplitFacts, NextTargetIsLeft
  <2>2. interval' \in [Version -> [Target -> Interval]]
    <3>1. [interval[champ[r]] EXCEPT ![NextTarget(r)] = Split(r)] \in [Target -> Interval]
      BY <2>1 DEF IInv, StoredOK
    <3>2. interval' = [interval EXCEPT ![champ[r]] = [@ EXCEPT ![NextTarget(r)] = Split(r)]]
      OBVIOUS
    <3> QED BY <3>1, <3>2 DEF IInv, StoredOK
  <2>3. Interval' = Interval
    BY DEF Interval
  <2> QED BY <2>2, <2>3 DEF IInv, StoredOK, Monitored
<1>2. FoldsOK(r)'
  <2>1. pc'[r] \in {"drift", "store"}
    OBVIOUS
  <2> QED BY <1>0, <2>1 DEF FoldsOK
<1>3. StoreOK(r)'
  BY <1>0 DEF StoreOK
<1> QED BY <1>0, <1>1, <1>2, <1>3, EarlyStep

(* The version compared with is a stored one.                                *)
LEMMA RetiredFacts ==
  ASSUME IInv, Retired # {}
  PROVE  Newest(Retired) \in Version
<1>1. Version \subseteq Nat /\ IsFiniteSet(Version)
  BY Constants, FS_Interval DEF Version
<1>2. Retired \subseteq Version /\ IsFiniteSet(Retired)
  BY <1>1, FS_Subset DEF Retired
<1> QED BY <1>1, <1>2, NewestFacts

LEMMA DetectStep ==
  ASSUME IInv, NEW r \in Run, NEW metrics \in SUBSET Metric, NEW breached \in SUBSET Metric,
         Detect(r, metrics, breached)
  PROVE  IInv'
<1> USE DEF Detect, modelVars, rowVars, foldVars, storeVars, GoTo
<1> DEFINE finding(m) == [metric |-> m, version |-> live, breached |-> m \in breached,
                          against |-> IF m = "parameters" THEN Newest(Retired) ELSE None]
           new == {finding(m) : m \in metrics}
<1>0. pc[r] = "drift" /\ FoldsOK(r) /\ StoreOK(r) /\ FoundOK(r) /\ live \in Version \union {None}
  BY DEF IInv, RunsOK, StoredOK
<1>1. ASSUME NEW m \in metrics PROVE finding(m) \in Finding
  <2>1. m = "parameters" => Newest(Retired) \in Version
    BY RetiredFacts
  <2> QED BY <1>0, <2>1 DEF Finding
<1>2. StoredOK'
  BY DEF IInv, StoredOK, Interval, Monitored
<1>3. Domains' /\ pc'[r] = "report" /\ found'[r] = new
  <2>1. found' = [found EXCEPT ![r] = new] /\ new \subseteq Finding
    BY <1>1
  <2> HIDE DEF new
  <2>2. found' \in [Run -> SUBSET Finding] /\ found'[r] = new
    BY <2>1 DEF IInv, Domains
  <2> QED BY <2>2 DEF IInv, Domains, Pc
<1>4. FoldsOK(r)' /\ StoreOK(r)'
  BY <1>0, <1>3 DEF FoldsOK, StoreOK
<1>5. FoundOK(r)'
  <2>1. \A f, g \in new : f.metric = g.metric => f = g
    OBVIOUS
  <2>2. \A f \in new : f.metric = "parameters" => f.version # None
    OBVIOUS
  <2>3. cycle'[r] = cycle[r] /\ UNCHANGED <<monitoring, events>>
    OBVIOUS
  <2> HIDE DEF new
  <2> QED BY <1>0, <1>3, <2>1, <2>2, <2>3 DEF FoundOK
<1>6. \A d \in Run \ {r} : Untouched(d)
  BY DEF Untouched, IInv, Domains
<1>7. AlarmsMatchRows'
  BY <1>0, <1>6, QuietStep DEF Untouched
<1>8. cycle'[r] = cycle[r] /\ cycle[r] # None /\ cycle[r] <= cycles /\ cycles' = cycles /\ cycles \in Nat
  BY <1>0, Constants DEF IInv, RunsOK, CycleOK, StoredOK
<1> QED BY <1>2, <1>3, <1>4, <1>5, <1>6, <1>7, <1>8, OwnStep

(* The row of a finding: of its own version, or of the one live by now.      *)
versionOf(f) == IF f.version # None THEN f.version ELSE live
rowOf(r, f) == [cycle |-> cycle[r], metric |-> f.metric, version |-> versionOf(f),
                against |-> f.against, breached |-> f.breached]

LEMMA ReportStep == ASSUME IInv, NEW r \in Run, Report(r) PROVE IInv'
<1> USE DEF Report, modelVars, rowVars, foldVars, storeVars, GoTo
<1> DEFINE new == {rowOf(r, f) : f \in {g \in found[r] : versionOf(g) # None}}
<1>0. /\ pc[r] = "report" /\ FoldsOK(r) /\ StoreOK(r) /\ FoundOK(r) /\ live \in Version \union {None}
      /\ found[r] \subseteq Finding
  BY DEF IInv, RunsOK, StoredOK, Domains
<1>1. cycle'[r] = cycle[r] /\ cycle[r] # None /\ cycle[r] <= cycles /\ cycles' = cycles /\ cycles \in Nat
      /\ cycle[r] \in Nat /\ cycle[r] \in 1..cycles
  BY <1>0, Constants DEF IInv, RunsOK, CycleOK, StoredOK, Domains, None
<1>2. monitoring' = monitoring \union new
  BY DEF rowOf, versionOf
<1>3. new \subseteq Monitored
  <2>1. ASSUME NEW f \in found[r], versionOf(f) # None PROVE rowOf(r, f) \in Monitored
    BY <1>0, <1>1, <2>1 DEF rowOf, versionOf, Monitored, Finding
  <2> QED BY <2>1
<1>4. \A m \in new : m.cycle = cycle[r] /\ \E f \in found[r] : f.metric = m.metric /\ f.breached = m.breached
  BY DEF rowOf
<1>5. \A f \in found[r] : f.metric = "parameters" => \E m \in new : m.cycle = cycle[r] /\ m.metric = f.metric
  <2>1. ASSUME NEW f \in found[r], f.metric = "parameters"
        PROVE  rowOf(r, f) \in new /\ rowOf(r, f).cycle = cycle[r] /\ rowOf(r, f).metric = f.metric
    BY <1>0, <2>1 DEF FoundOK, versionOf, rowOf
  <2> QED BY <2>1
<1> HIDE DEF new
<1>6. StoredOK'
  BY <1>2, <1>3 DEF IInv, StoredOK, Interval, Monitored
<1>7. Domains' /\ pc'[r] = "alarm" /\ found'[r] = found[r]
  BY DEF IInv, Domains, Pc
<1>8. FoldsOK(r)' /\ StoreOK(r)'
  BY <1>0, <1>7 DEF FoldsOK, StoreOK
<1>9. FoundOK(r)'
  BY <1>0, <1>1, <1>2, <1>4, <1>5, <1>7 DEF FoundOK
<1>10. \A d \in Run \ {r} : Untouched(d)
  BY DEF Untouched, IInv, Domains
<1>11. AlarmsMatchRows'
  <2>1. ASSUME NEW m \in monitoring'
        PROVE  \/ m.breached <=> <<m.cycle, m.metric>> \in events'
               \/ m.cycle \in cut'
               \/ \E d \in Run : pc'[d] = "alarm" /\ cycle'[d] = m.cycle
    <3>1. CASE m \in new
      BY <1>1, <1>4, <1>7, <3>1
    <3>2. CASE m \in monitoring
      BY <1>0, <1>10, <3>2 DEF IInv, AlarmsMatchRows, Untouched
    <3> QED BY <1>2, <2>1, <3>1, <3>2
  <2> QED BY <1>2, <2>1 DEF IInv, AlarmsMatchRows
<1>12. \A m \in monitoring' : m \in monitoring \/ m.cycle = cycle[r]
  BY <1>2, <1>4
<1> QED BY <1>1, <1>2, <1>6, <1>7, <1>8, <1>9, <1>10, <1>11, <1>12, OwnStep

(* A run that is over has nothing in hand.                                   *)
LEMMA ForgetFacts ==
  ASSUME IInv, NEW r \in Run, Forget(r)
  PROVE  /\ Domains' /\ pc'[r] = "idle" /\ cycle'[r] = None /\ found'[r] = {}
         /\ FoldsOK(r)' /\ StoreOK(r)'
         /\ \A d \in Run \ {r} : Untouched(d)
<1> USE DEF Forget, GoTo
<1>1. Domains'
  BY DEF IInv, Domains, Pc, None
<1>2. /\ pc'[r] = "idle" /\ cycle'[r] = None /\ rows'[r] = <<>> /\ start'[r] = 0 /\ pred'[r] = {}
      /\ champ'[r] = None /\ left'[r] = {} /\ found'[r] = {}
  BY DEF IInv, Domains
<1>3. FoldsOK(r)'
  <2>1. Len(<<>>) = 0
    OBVIOUS
  <2> QED BY <1>2, <2>1, Constants DEF FoldsOK, Increasing
<1>4. \A d \in Run \ {r} : Untouched(d)
  BY DEF IInv, Domains, Untouched
<1> QED BY <1>1, <1>2, <1>3, <1>4 DEF StoreOK

LEMMA AlarmStep == ASSUME IInv, NEW r \in Run, Alarm(r) PROVE IInv'
<1> DEFINE new == {<<cycle[r], f.metric>> : f \in Breached(r)}
<1>0. /\ pc[r] = "alarm" /\ FoundOK(r) /\ found[r] \subseteq Finding
      /\ Forget(r) /\ UNCHANGED <<played, cycles, modelVars, rowVars, monitoring, cut>>
      /\ cycle[r] # None /\ cycle[r] \in 1..cycles /\ cycles \in Nat
  BY Constants DEF IInv, RunsOK, Domains, CycleOK, StoredOK, Alarm, Forget, None
<1>1. events' = events \union new
  BY DEF Alarm
<1>2. new \subseteq (1..cycles) \X Metric
  BY <1>0 DEF Breached, Finding
<1>3. \A m \in Metric : <<cycle[r], m>> \in new <=> \E f \in found[r] : f.metric = m /\ f.breached
  BY DEF Breached
<1>4. \A e \in new : e[1] = cycle[r] /\ \E f \in found[r] : f.metric = e[2]
  BY DEF Breached
<1> HIDE DEF new
<1>5. StoredOK'
  BY <1>0, <1>1, <1>2 DEF IInv, StoredOK, Interval, Monitored, modelVars, rowVars
<1>6. FoundOK(r)'
  BY <1>0, ForgetFacts DEF FoundOK
<1>7. AlarmsMatchRows'
  <2>1. ASSUME NEW m \in monitoring
        PROVE  \/ m.breached <=> <<m.cycle, m.metric>> \in events'
               \/ m.cycle \in cut
               \/ \E d \in Run : pc'[d] = "alarm" /\ cycle'[d] = m.cycle
    <3>0. m \in Monitored /\ m.metric \in Metric /\ m.breached \in BOOLEAN
      BY DEF IInv, StoredOK, Monitored
    <3>1. CASE m.cycle = cycle[r]
      <4>1. PICK f \in found[r] : f.metric = m.metric /\ f.breached = m.breached
        BY <1>0, <3>1 DEF FoundOK
      <4>2. <<cycle[r], m.metric>> \in new <=> m.breached
        BY <1>0, <1>3, <3>0, <4>1 DEF FoundOK
      <4>3. <<cycle[r], m.metric>> \notin events
        BY <1>0 DEF FoundOK
      <4> QED BY <1>1, <3>1, <4>2, <4>3
    <3>2. CASE m.cycle # cycle[r]
      <4>1. <<m.cycle, m.metric>> \in events' <=> <<m.cycle, m.metric>> \in events
        BY <1>1, <1>4, <3>2
      <4>2. \A d \in Run : cycle[d] = m.cycle => d # r
        BY <3>2
      <4> QED BY <1>0, <4>1, <4>2, ForgetFacts DEF IInv, AlarmsMatchRows, Untouched
    <3> QED BY <3>1, <3>2
  <2>2. ASSUME NEW e \in new, e[2] = "parameters"
        PROVE  \E m \in monitoring : m.cycle = e[1] /\ m.metric = e[2]
    BY <1>0, <1>4, <2>2 DEF FoundOK
  <2> QED BY <1>0, <1>1, <2>1, <2>2 DEF IInv, AlarmsMatchRows
<1>8. \A e \in events' : e \in events \/ e[1] = cycle[r]
  BY <1>1, <1>4
<1>9. cycle'[r] <= cycles' /\ cycles <= cycles'
  BY <1>0, ForgetFacts DEF None
<1> QED BY <1>0, <1>5, <1>6, <1>7, <1>8, <1>9, ForgetFacts, OwnStep

LEMMA DiesStep == ASSUME IInv, NEW r \in Run, Dies(r) PROVE IInv'
<1>0. /\ Forget(r) /\ UNCHANGED <<played, cycles, modelVars, rowVars, monitoring, events>>
      /\ cycle[r] # None /\ cycle[r] \in 1..cycles /\ cycles \in Nat /\ FoundOK(r)
      /\ cut' = cut \union {cycle[r]}
  BY Constants DEF IInv, RunsOK, Domains, CycleOK, StoredOK, Dies, Forget, None
<1>1. StoredOK'
  BY <1>0 DEF IInv, StoredOK, Interval, Monitored, modelVars, rowVars
<1>2. FoundOK(r)'
  BY <1>0, ForgetFacts DEF FoundOK
<1>3. AlarmsMatchRows'
  BY <1>0, ForgetFacts, QuietStep DEF Untouched
<1>4. cycle'[r] <= cycles' /\ cycles <= cycles'
  BY <1>0, ForgetFacts, Constants DEF None, IInv, StoredOK
<1> QED BY <1>0, <1>1, <1>2, <1>3, <1>4, ForgetFacts, OwnStep

LEMMA InvStep == IInv /\ [Next]_vars => IInv'
<1> SUFFICES ASSUME IInv, [Next]_vars PROVE IInv'
  OBVIOUS
<1>1. CASE UNCHANGED vars
  <2>1. StoredOK' /\ Domains'
    BY <1>1 DEF IInv, vars, StoredOK, Domains, Interval, Monitored
  <2>2. RunsOK' /\ AlarmsMatchRows'
    BY <1>1 DEF IInv, vars, RunsOK, CycleOK, FoldsOK, StoreOK, FoundOK, AlarmsMatchRows
  <2> QED BY <2>1, <2>2 DEF IInv
<1>2. CASE AnyStep
  <2>1. ASSUME NEW r \in Run, Begin(r) \/ Query(r) \/ FinishBacktest(r) \/ Calibrate(r) PROVE IInv'
    BY <2>1, BeginStep, QueryStep, FinishStep, CalibrateStep
  <2>2. ASSUME NEW r \in Run, ReadChampion(r) \/ Store(r) \/ Report(r) \/ Alarm(r) \/ Dies(r) PROVE IInv'
    BY <2>2, ReadChampionStep, StoreStep, ReportStep, AlarmStep, DiesStep
  <2>3. ASSUME NEW r \in Run, NEW outcome \in Outcome, Train(r, outcome) PROVE IInv'
    BY <2>3, TrainStep
  <2>4. ASSUME NEW r \in Run, NEW fits \in BOOLEAN, Fold(r, fits) PROVE IInv'
    BY <2>4, FoldStep
  <2>5. ASSUME NEW r \in Run, NEW metrics \in SUBSET Metric, NEW breached \in SUBSET Metric,
               Detect(r, metrics, breached)
        PROVE  IInv'
    BY <2>5, DetectStep
  <2> QED BY <1>2, <2>1, <2>2, <2>3, <2>4, <2>5, WorldStep DEF AnyStep
<1> QED BY <1>1, <1>2, AnyNext

LEMMA Invariant == Spec => []IInv
BY InvInit, InvStep, PTL DEF Spec

-----------------------------------------------------------------------------
(* Every variable keeps its type, for any number of runs at the same time.   *)
THEOREM TypeCorrect == Spec => []TypeOK
<1>1. IInv => TypeOK
  <2> SUFFICES ASSUME IInv PROVE TypeOK
    OBVIOUS
  <2>1. ASSUME NEW r \in Run
        PROVE  /\ pc[r] \in Pc
               /\ cycle[r] \in 0..cycles /\ (cycle[r] = None <=> pc[r] = "idle")
               /\ left[r] \subseteq Target /\ champ[r] \in Version \union {None}
               /\ (pc[r] = "store" <=> left[r] # {}) /\ (pc[r] = "store" <=> champ[r] # None)
    BY Constants DEF IInv, StoredOK, Domains, RunsOK, CycleOK, StoreOK
  <2>2. ASSUME NEW r \in Run
        PROVE  /\ Len(rows[r]) <= Matches /\ \A i \in 1..Len(rows[r]) : rows[r][i] \in Match
               /\ start[r] \in 0..Len(rows[r])
               /\ pred[r] \subseteq (1..Len(rows[r])) \X (1..Len(rows[r]))
    <3>1. FoldsOK(r) /\ rows[r] \in Seq(Match) /\ start[r] \in Nat /\ pred[r] \subseteq Nat \X Nat
      BY DEF IInv, Domains, RunsOK
    <3>2. Len(rows[r]) \in Nat
      BY <3>1, LenProperties
    <3>3. ASSUME NEW p \in pred[r] PROVE p \in (1..Len(rows[r])) \X (1..Len(rows[r]))
      BY <3>1, <3>2, Constants DEF FoldsOK
    <3> QED BY <3>1, <3>2, <3>3, ElementOfSeq DEF FoldsOK
  <2> QED BY <2>1, <2>2 DEF IInv, StoredOK, Interval, Monitored, Pc, TypeOK
<1> QED BY <1>1, Invariant, PTL

(* However many runs overlap and whichever matches are completed or taken    *)
(* back meanwhile (kickoffs are fixed), a prediction comes from a fit that   *)
(* has seen no match that kicks off later than the one predicted and no      *)
(* fewer than the initial window, and a match is predicted once              *)
(* (backtesting.py, the folds of run and run_gbdt).                          *)
THEOREM PredictionsWalkForward == Spec => []WalksForward
<1>1. IInv => WalksForward
  <2> SUFFICES ASSUME IInv, NEW r \in Run, NEW p \in pred[r], NEW j \in 1..p[2]
               PROVE  /\ rows[r][j] # rows[r][p[1]]
                      /\ kickoff[rows[r][j]] <= kickoff[rows[r][p[1]]]
    BY DEF IInv, RunsOK, FoldsOK, WalksForward
  <2>1. FoldsOK(r) /\ rows[r] \in Seq(Match) /\ start[r] \in Nat /\ p[1] \in Nat /\ p[2] \in Nat
    BY DEF IInv, Domains, RunsOK
  <2>2. Len(rows[r]) \in Nat /\ p[1] \in 1..Len(rows[r]) /\ j \in 1..Len(rows[r]) /\ j < p[1]
    BY <2>1, LenProperties DEF FoldsOK
  <2>3. rows[r][j] \in Match /\ rows[r][p[1]] \in Match /\ rows[r][j] < rows[r][p[1]]
    BY <2>1, <2>2, ElementOfSeq DEF FoldsOK, Increasing
  <2>4. rows[r][j] \in Nat /\ rows[r][p[1]] \in Nat
    BY <2>3, MatchIsNat
  <2> QED BY <2>3, <2>4, KickoffOrder
<1> QED BY <1>1, Invariant, PTL

(* With any number of runs at a time: a monitoring row is breached exactly   *)
(* when its alarm was raised, unless the alarm is to come or its run was cut *)
(* off, and an alarm about the parameters has its row (drift_detection.py:   *)
(* rows in one commit, events in the next).                                  *)
THEOREM AlarmsAgree == Spec => []AlarmsMatchRows
BY Invariant, PTL DEF IInv

-----------------------------------------------------------------------------
(* What the other steps of a run mean for its intervals.                     *)
LEMMA OtherSteps ==
  ASSUME IInv, NEW r \in Run,
         \/ Query(r) \/ FinishBacktest(r) \/ Calibrate(r) \/ ReadChampion(r) \/ Report(r)
         \/ \E outcome \in Outcome : Train(r, outcome)
         \/ \E fits \in BOOLEAN : Fold(r, fits)
         \/ \E metrics, breached \in SUBSET Metric : Detect(r, metrics, breached)
  PROVE  /\ UNCHANGED <<interval, cut, cycle, cycles>>
         /\ pc[r] \notin {"idle", "store"} /\ pc'[r] # "idle"
         /\ pc'[r] = "store" => left'[r] = Target
         /\ \A d \in Run \ {r} : Untouched(d)
<1> USE DEF IInv, Domains, modelVars, rowVars, foldVars, storeVars, driftVars, GoTo, Untouched
<1>1. CASE Query(r)
  BY <1>1 DEF Query
<1>2. CASE FinishBacktest(r) \/ Calibrate(r) \/ Report(r)
  BY <1>2 DEF FinishBacktest, Calibrate, Report
<1>3. CASE ReadChampion(r)
  BY <1>3 DEF ReadChampion
<1>4. ASSUME NEW outcome \in Outcome, Train(r, outcome)
      PROVE  /\ UNCHANGED <<interval, cut, cycle, cycles>>
             /\ pc[r] = "train" /\ pc'[r] = "query" /\ \A d \in Run \ {r} : Untouched(d)
  BY <1>4 DEF Train
<1>5. ASSUME NEW fits \in BOOLEAN, Fold(r, fits)
      PROVE  /\ UNCHANGED <<interval, cut, cycle, cycles>>
             /\ pc[r] = "fold" /\ pc'[r] = "fold" /\ \A d \in Run \ {r} : Untouched(d)
  BY <1>5 DEF Fold
<1>6. ASSUME NEW metrics \in SUBSET Metric, NEW breached \in SUBSET Metric, Detect(r, metrics, breached)
      PROVE  /\ UNCHANGED <<interval, cut, cycle, cycles>>
             /\ pc[r] = "drift" /\ pc'[r] = "report" /\ \A d \in Run \ {r} : Untouched(d)
  BY <1>6 DEF Detect
<1> QED BY <1>1, <1>2, <1>3, <1>4, <1>5, <1>6

(* The newest of a version's rows.                                           *)
Last(v) == Newest({interval[v][t].cycle : t \in Target})

LEMMA LastFacts ==
  ASSUME NEW row, NEW n \in Nat, \A t \in Target : row[t].cycle \in 0..n
  PROVE  \A t \in Target : row[t].cycle = n => Newest({row[u].cycle : u \in Target}) = n
<1> DEFINE S == {row[t].cycle : t \in Target}
<1>1. S \subseteq 0..n /\ S \in SUBSET Nat /\ S # {}
  BY DEF Target
<1>2. IsFiniteSet(0..n)
  <2>1. 0 \in Int /\ n \in Int
    OBVIOUS
  <2> QED BY <2>1, FS_Interval
<1>3. IsFiniteSet(S)
  BY <1>1, <1>2, FS_Subset
<1>4. \A c \in S : (\A u \in S : u <= c) => c = Newest(S)
  BY <1>1, <1>3, NewestFacts
<1>5. \A u \in S : u <= n
  BY <1>1
<1> QED BY <1>4, <1>5

(* IntervalsOfOneBacktest, version by version.                               *)
Whole(v) ==
  \/ \A t \in Target : interval[v][t] = NoInterval
  \/ \A t, u \in Target : /\ interval[v][t] = interval[v][u]
                            /\ interval[v][t].calibration >= 1
                            /\ interval[v][t].calibration + interval[v][t].test >= MinConformal
  \/ Last(v) \in cut
Partial(v) == \E r \in Run : pc[r] = "store" /\ champ[r] = v /\ cycle[r] = Last(v)

LEMMA ByVersion ==
  /\ IntervalsOfOneBacktest <=> \A v \in Version : Whole(v) \/ Partial(v)
  /\ IntervalsOfOneBacktest' <=> \A v \in Version : Whole(v)' \/ Partial(v)'
BY DEF IntervalsOfOneBacktest, Whole, Partial, Last

LEMMA WholeFrame ==
  ASSUME NEW v \in Version, interval'[v] = interval[v], cut \subseteq cut', Whole(v)
  PROVE  Whole(v)'
BY DEF Whole, Last, Newest

LEMMA SerialStore ==
  ASSUME IInv, IInv', SerialInv, NEW r \in Run, Store(r)
  PROVE  SerialInv'
<1>v. PICK v \in Version : v = champ[r]
  BY StoredFacts
<1>t. PICK t \in Target : t = NextTarget(r) /\ t \in left[r]
  BY StoredFacts, NextTargetIsLeft
<1>0. /\ pc[r] = "store" /\ left[r] \subseteq Target
      /\ UNCHANGED <<cut, cycle, cycles, pred>>
  BY StoredFacts DEF IInv, Domains, foldVars, driftVars
<1>b. cycle[r] = cycles /\ \A d \in Run : pc[d] # "idle" => d = r
  BY <1>0 DEF SerialInv, StoringOK
<1>c. \A d \in Run : pc'[d] # "idle" => d = r
  BY <1>b, StoredFacts DEF Untouched
<1>1. interval' = [interval EXCEPT ![v] = [@ EXCEPT ![t] = Split(r)]]
  BY <1>v, <1>t, StoredFacts
<1>2. /\ \A w \in Version : w # v => interval'[w] = interval[w]
      /\ interval'[v][t] = Split(r)
      /\ \A u \in Target : u # t => interval'[v][u] = interval[v][u]
  BY <1>0, <1>1 DEF IInv, StoredOK
<1>3. Split(r)' = Split(r)
  BY <1>0 DEF Split
<1>4. \A u \in Target \ left'[r] : interval'[v][u] = Split(r)
  <2>1. left'[r] = left[r] \ {t}
    BY <1>t, StoredFacts
  <2>2. \A u \in Target \ left[r] : interval[v][u] = Split(r)
    BY <1>0, <1>v DEF SerialInv, StoringOK
  <2> QED BY <1>2, <2>1, <2>2
<1>5. \A d \in Run : StoringOK(d)'
  <2>1. pc'[r] = "store" => champ'[r] = v
    BY <1>v, StoredFacts
  <2> QED BY <1>0, <1>b, <1>c, <1>3, <1>4, <2>1 DEF StoringOK
<1>6. ASSUME NEW w \in Version, w # v PROVE Whole(w)'
  <2>1. ~Partial(w)
    BY <1>b, <1>v, <1>6 DEF Partial
  <2>2. Whole(w)
    BY <2>1, ByVersion DEF SerialInv
  <2> QED BY <1>0, <1>2, <1>6, <2>2, WholeFrame
<1>7. CASE left'[r] = {}
  <2>1. \A u \in Target : interval'[v][u] = Split(r)
    BY <1>4, <1>7
  <2>2. Whole(v)'
    BY <1>0, <2>1, SplitFacts DEF Whole
  <2> QED BY <1>5, <1>6, <2>2, ByVersion DEF SerialInv
<1>8. CASE left'[r] # {}
  <2>1. pc'[r] = "store" /\ champ'[r] = v /\ cycle'[r] = cycles'
    BY <1>0, <1>b, <1>8, <1>v, StoredFacts
  <2>2. interval'[v][t].cycle = cycles' /\ cycles' \in Nat
    BY <1>0, <1>b, <1>2, SplitFacts, Constants DEF IInv, StoredOK
  <2>3. \A u \in Target : interval'[v][u].cycle \in 0..cycles'
    BY <1>0 DEF IInv, StoredOK, Interval
  <2>4. Last(v)' = cycles'
    BY <2>2, <2>3, LastFacts DEF Last, Newest
  <2>5. Partial(v)'
    BY <2>1, <2>4 DEF Partial
  <2> QED BY <1>5, <1>6, <2>5, ByVersion DEF SerialInv
<1> QED BY <1>7, <1>8

LEMMA SerialOther ==
  ASSUME IInv, SerialInv, NEW r \in Run,
         UNCHANGED <<interval, cut, cycle, cycles>>,
         pc[r] \notin {"idle", "store"}, pc'[r] # "idle",
         pc'[r] = "store" => left'[r] = Target,
         \A d \in Run \ {r} : Untouched(d)
  PROVE  SerialInv'
<1>1. cycle[r] = cycles /\ \A d \in Run : pc[d] # "idle" => d = r
  BY DEF SerialInv, StoringOK
<1>2. \A d \in Run : pc'[d] # "idle" => d = r
  BY <1>1 DEF Untouched
<1>3. \A d \in Run : StoringOK(d)'
  BY <1>1, <1>2 DEF StoringOK
<1>4. ASSUME NEW v \in Version PROVE Whole(v)'
  <2>1. Whole(v)
    BY <1>1, ByVersion DEF SerialInv, Partial
  <2> QED BY <2>1, WholeFrame
<1> QED BY <1>3, <1>4, ByVersion DEF SerialInv

LEMMA SerialOver ==
  ASSUME IInv, SerialInv, NEW r \in Run, Alarm(r) \/ Dies(r)
  PROVE  SerialInv'
<1>1. Forget(r) /\ pc[r] # "idle" /\ UNCHANGED <<interval, cycles>> /\ cut \subseteq cut'
      /\ (pc[r] = "store" => cycle[r] \in cut')
  BY DEF Alarm, Dies, Forget, rowVars
<1>2. \A d \in Run : pc[d] # "idle" => d = r
  BY <1>1 DEF SerialInv, StoringOK
<1>3. \A d \in Run : pc'[d] = "idle"
  BY <1>1, <1>2, ForgetFacts DEF Untouched
<1>4. ASSUME NEW v \in Version PROVE Whole(v)'
  <2>1. CASE Whole(v)
    BY <1>1, <2>1, WholeFrame
  <2>2. CASE Partial(v)
    BY <1>1, <1>2, <2>2 DEF Partial, Whole, Last, Newest
  <2> QED BY <2>1, <2>2, ByVersion DEF SerialInv
<1> QED BY <1>3, <1>4, ByVersion DEF SerialInv, StoringOK

LEMMA SerialBegin ==
  ASSUME IInv, SerialInv, NEW r \in Run, Quiet, Begin(r)
  PROVE  SerialInv'
<1>1. /\ UNCHANGED <<interval, cut>> /\ pc'[r] = "train" /\ cycle'[r] = cycles'
      /\ \A d \in Run : d # r => pc'[d] = "idle"
  BY DEF Quiet, Begin, rowVars, driftVars, GoTo, IInv, Domains
<1>2. ASSUME NEW v \in Version PROVE Whole(v)'
  <2>1. Whole(v)
    BY ByVersion DEF SerialInv, Partial, Quiet
  <2> QED BY <1>1, <2>1, WholeFrame
<1> QED BY <1>1, <1>2, ByVersion DEF SerialInv, StoringOK

LEMMA SerialStep == IInv /\ IInv' /\ SerialInv /\ [NextSerial]_vars => SerialInv'
<1> SUFFICES ASSUME IInv, IInv', SerialInv, [NextSerial]_vars PROVE SerialInv'
  OBVIOUS
<1>1. CASE UNCHANGED vars \/ World
  <2>1. UNCHANGED <<interval, cut, pc, cycle, champ, left, pred, cycles>>
    BY <1>1 DEF vars, World, MatchChanges, Rollback, rowVars, foldVars, storeVars, driftVars
  <2>2. \A r \in Run : Split(r)' = Split(r)
    BY <2>1 DEF Split
  <2>3. \A r \in Run : StoringOK(r)'
    BY <2>1, <2>2 DEF SerialInv, StoringOK
  <2>4. \A v \in Version : Partial(v)' <=> Partial(v)
    BY <2>1 DEF Partial, Last, Newest
  <2>5. \A v \in Version : Whole(v) => Whole(v)'
    BY <2>1, WholeFrame
  <2> QED BY <2>3, <2>4, <2>5, ByVersion DEF SerialInv
<1>2. ASSUME NEW r \in Run, Quiet /\ Begin(r) PROVE SerialInv'
  BY <1>2, SerialBegin
<1>3. ASSUME NEW r \in Run, Step(r) PROVE SerialInv'
  <2>1. CASE Store(r)
    BY <2>1, SerialStore
  <2>2. CASE Alarm(r) \/ Dies(r)
    BY <2>2, SerialOver
  <2>3. CASE ~(Store(r) \/ Alarm(r) \/ Dies(r))
    BY <1>3, <2>3, OtherSteps, SerialOther DEF Step
  <2> QED BY <2>1, <2>2, <2>3
<1> QED BY <1>1, <1>2, <1>3 DEF NextSerial

LEMMA SerialInit == Init => SerialInv
BY DEF Init, SerialInv, IntervalsOfOneBacktest, StoringOK

(* One run at a time, dying anywhere, with an administrator who may roll     *)
(* back between any two commits: the four intervals of a version come of one *)
(* backtest and one split, with something to calibrate on, unless the run    *)
(* that stored the last of them is still storing or was cut off              *)
(* (conformal_calibration.py: four commits at a champion read once).         *)
THEOREM IntervalsComplete == SpecSerial => []IntervalsOfOneBacktest
<1>1. [NextSerial]_vars => [Next]_vars
  BY DEF NextSerial, Next
<1>2. IInv /\ SerialInv /\ [NextSerial]_vars => IInv' /\ SerialInv'
  BY <1>1, InvStep, SerialStep
<1>3. SerialInv => IntervalsOfOneBacktest
  BY DEF SerialInv
<1> QED BY <1>2, <1>3, InvInit, SerialInit, PTL DEF SpecSerial
-----------------------------------------------------------------------------
(* A simulated season (Simulation), for any clubs, fixtures, scores and      *)
(* number of relegation spots.                                               *)

(* The instance has its own copies of these two operators; they are the same.*)
LEMMA SameOperators ==
  \A S : (Table!IsFiniteSet(S) <=> IsFiniteSet(S)) /\ Table!Cardinality(S) = Cardinality(S)
BY DEF Table!IsFiniteSet, IsFiniteSet, Table!Cardinality, Cardinality

TableTypes ==
  /\ result \in [Game -> Scores \union {NoScore}]
  /\ counted \in [Game -> Scores \union {NoScore}]
  /\ points \in [Club -> Nat] /\ diff \in [Club -> Int] /\ base \in [Club -> Nat]
  /\ given \subseteq Game /\ drawn \subseteq Game

(* A fixture that has still to be added or drawn has not been counted, and   *)
(* is not in both lists.                                                     *)
CountedOnce ==
  /\ given \intersect drawn = {}
  /\ \A g \in given \union drawn : counted[g] = NoScore

PointsInv ==
  \A t \in Club :
    /\ points[t] = 3 * Cardinality(Table!Won(t)) + Cardinality(Table!Shared(t))
    /\ base[t] <= points[t]

(* The stored standings are those of the table as it still is.               *)
Standing(lots) == [t \in Club |-> 1 + Cardinality({u \in Club : Table!Ahead(u, t, lots)})]
PositionInv ==
  \/ position = Table!Zero
  \/ step = "idle" /\ \E lots \in Table!Tiebreaks : position = Standing(lots)

TableInv == TableTypes /\ CountedOnce /\ PointsInv /\ PositionInv

LEMMA ScoreFacts ==
  ASSUME Table!ConstantsOK, NEW score \in Scores
  PROVE  /\ score[1] \in Nat /\ score[2] \in Nat /\ score # NoScore
         /\ Table!Earned(score[1], score[2]) \in Nat /\ Table!Earned(score[2], score[1]) \in Nat
BY DEF Table!ConstantsOK, Table!Earned

(* A match that is counted is a win, a draw or a defeat of its two clubs and *)
(* nothing to the others.                                                    *)
LEMMA PlayCounts ==
  ASSUME Table!ConstantsOK, TableTypes, PointsInv, NEW g \in Game, counted[g] = NoScore,
         NEW score \in Scores, Table!Play(g, score), base' = base
  PROVE  /\ counted' = [counted EXCEPT ![g] = score]
         /\ counted' \in [Game -> Scores \union {NoScore}]
         /\ points' \in [Club -> Nat] /\ diff' \in [Club -> Int]
         /\ PointsInv'
<1> DEFINE h == Home[g]
           a == Away[g]
           eh == Table!Earned(score[1], score[2])
           ea == Table!Earned(score[2], score[1])
<1>1. h \in Club /\ a \in Club /\ h # a
  BY DEF Table!ConstantsOK
<1>2. score[1] \in Nat /\ score[2] \in Nat /\ score # NoScore /\ eh \in Nat /\ ea \in Nat
  BY ScoreFacts
<1>3. counted' = [counted EXCEPT ![g] = score]
  BY DEF Table!Play
<1>4. counted' \in [Game -> Scores \union {NoScore}]
  BY <1>3 DEF TableTypes
<1>5. points' = [points EXCEPT ![h] = @ + eh, ![a] = @ + ea]
  BY DEF Table!Play
<1>6. diff' = [diff EXCEPT ![h] = @ + (score[1] - score[2]), ![a] = @ + (score[2] - score[1])]
  BY DEF Table!Play
<1>7. counted'[g] = score /\ \A x \in Game \ {g} : counted'[x] = counted[x]
  BY <1>3 DEF TableTypes
<1> HIDE DEF h, a, eh, ea
<1>8. /\ points'[h] = points[h] + eh /\ points'[a] = points[a] + ea
      /\ \A t \in Club \ {h, a} : points'[t] = points[t]
      /\ points' \in [Club -> Nat]
  BY <1>1, <1>2, <1>5 DEF TableTypes
<1>9. diff' \in [Club -> Int]
  BY <1>1, <1>2, <1>6 DEF TableTypes
<1>10. ASSUME NEW t \in Club
       PROVE  /\ points'[t] = 3 * Cardinality(Table!Won(t)') + Cardinality(Table!Shared(t)')
              /\ base'[t] <= points'[t]
  <2> DEFINE wins == (t = h /\ score[1] > score[2]) \/ (t = a /\ score[2] > score[1])
             draws == t \in {h, a} /\ score[1] = score[2]
             W == Table!Won(t)
             S == Table!Shared(t)
  <2>1. IsFiniteSet(W) /\ IsFiniteSet(S) /\ g \notin W /\ g \notin S
    <3>1. IsFiniteSet(Game)
      BY SameOperators DEF Table!ConstantsOK
    <3>2. W \subseteq Game /\ S \subseteq Game /\ g \notin W /\ g \notin S
      BY DEF Table!Won, Table!Shared
    <3> QED BY <3>1, <3>2, FS_Subset
  <2>2. Table!Won(t)' = IF wins THEN W \union {g} ELSE W
    BY <1>2, <1>7 DEF Table!Won, h, a
  <2>3. Table!Shared(t)' = IF draws THEN S \union {g} ELSE S
    BY <1>2, <1>7 DEF Table!Shared, h, a
  <2>4. /\ Cardinality(W) \in Nat /\ Cardinality(W \union {g}) = Cardinality(W) + 1
        /\ Cardinality(S) \in Nat /\ Cardinality(S \union {g}) = Cardinality(S) + 1
    BY <2>1, FS_CardinalityType, FS_AddElement
  <2>5. points'[t] = points[t] + (IF t = h THEN eh ELSE IF t = a THEN ea ELSE 0)
    <3>1. points[t] \in Nat
      BY DEF TableTypes
    <3> QED BY <1>1, <1>8, <3>1
  <2>6. (IF t = h THEN eh ELSE IF t = a THEN ea ELSE 0) =
          3 * (IF wins THEN 1 ELSE 0) + (IF draws THEN 1 ELSE 0)
    BY <1>1, <1>2 DEF eh, ea, Table!Earned
  <2>7. points[t] = 3 * Cardinality(W) + Cardinality(S)
    BY DEF PointsInv
  <2>8. Cardinality(Table!Won(t)') = Cardinality(W) + (IF wins THEN 1 ELSE 0)
    BY <2>2, <2>4
  <2>9. Cardinality(Table!Shared(t)') = Cardinality(S) + (IF draws THEN 1 ELSE 0)
    BY <2>3, <2>4
  <2> DEFINE w == IF wins THEN 1 ELSE 0
             d == IF draws THEN 1 ELSE 0
  <2>10. w \in Nat /\ d \in Nat
    OBVIOUS
  <2>11. points'[t] = points[t] + (3 * w + d)
    BY <2>5, <2>6
  <2>12. /\ Cardinality(Table!Won(t)') = Cardinality(W) + w
         /\ Cardinality(Table!Shared(t)') = Cardinality(S) + d
    BY <2>8, <2>9
  <2> HIDE DEF w, d, wins, draws, W, S
  <2>13. points'[t] = 3 * Cardinality(Table!Won(t)') + Cardinality(Table!Shared(t)')
    BY <2>4, <2>7, <2>10, <2>11, <2>12
  <2>14. base[t] <= points[t] /\ base[t] \in Nat /\ points[t] \in Nat
    BY DEF PointsInv, TableTypes
  <2>15. base'[t] <= points'[t]
    BY <2>10, <2>11, <2>14
  <2> QED BY <2>13, <2>15
<1> QED BY <1>3, <1>4, <1>8, <1>9, <1>10 DEF PointsInv

LEMMA ClearedFacts ==
  ASSUME Table!Cleared
  PROVE  /\ counted' \in [Game -> Scores \union {NoScore}]
         /\ points' \in [Club -> Nat] /\ diff' \in [Club -> Int] /\ base' \in [Club -> Nat]
         /\ \A g \in Game : counted'[g] = NoScore
         /\ PointsInv' /\ position' = Table!Zero'
<1>1. \A g \in Game : counted'[g] = NoScore
  BY DEF Table!Cleared
<1>2. \A t \in Club : Table!Won(t)' = {} /\ Table!Shared(t)' = {}
  BY <1>1 DEF Table!Won, Table!Shared
<1>3. Cardinality({}) = 0
  BY FS_EmptySet
<1>4. \A t \in Club : points'[t] = 0 /\ base'[t] = 0
  BY DEF Table!Cleared, Table!Zero
<1>5. PointsInv'
  <2>1. \A t \in Club : points'[t] = 3 * Cardinality(Table!Won(t)') + Cardinality(Table!Shared(t)')
    BY <1>2, <1>3, <1>4
  <2>2. \A t \in Club : base'[t] <= points'[t]
    BY <1>4
  <2> QED BY <2>1, <2>2 DEF PointsInv
<1> QED BY <1>1, <1>5 DEF Table!Cleared, Table!Zero

LEMMA PointsStay ==
  ASSUME PointsInv, UNCHANGED <<points, base, counted>> PROVE PointsInv'
BY DEF PointsInv, Table!Won, Table!Shared

LEMMA PositionStay ==
  ASSUME PositionInv, UNCHANGED <<points, diff, position>>, step' = "idle" \/ step # "idle"
  PROVE  PositionInv'
BY DEF PositionInv, Standing, Table!Zero, Table!Ahead, Table!Tiebreaks

LEMMA PositionBusy ==
  ASSUME PositionInv, step # "idle", position' = position
  PROVE  PositionInv' /\ position = Table!Zero
BY DEF PositionInv, Table!Zero

LEMMA TableStep ==
  ASSUME Table!ConstantsOK, TableInv, [Table!Next]_Table!simVars
  PROVE  TableInv'
<1>0. TableTypes /\ CountedOnce /\ PointsInv /\ PositionInv
  BY DEF TableInv
<1>1. ASSUME NEW g \in Game, NEW s \in Table!GameStatus, NEW score \in Scores \union {NoScore},
             Table!Sync(g, s, score)
      PROVE  TableInv'
  <2>1. UNCHANGED <<step, given, drawn, points, diff, base, counted, position>>
    BY <1>1 DEF Table!Sync
  <2>2. result' \in [Game -> Scores \union {NoScore}]
    BY <1>0, <1>1 DEF Table!Sync, TableTypes
  <2>3. TableTypes' /\ CountedOnce'
    BY <1>0, <2>1, <2>2 DEF TableTypes, CountedOnce
  <2> QED BY <1>0, <2>1, <2>3, PointsStay, PositionStay DEF TableInv
<1>2. CASE Table!Simulate
  <2>1. /\ Table!Cleared /\ result' = result
        /\ given' = {g \in Game : state[g] = "COMPLETED"}
        /\ drawn' = {g \in Game : state[g] \in Table!Remaining}
    BY <1>2 DEF Table!Simulate, Table!worldVars
  <2>2. given' \subseteq Game /\ drawn' \subseteq Game /\ given' \intersect drawn' = {}
    BY <2>1 DEF Table!Remaining
  <2>3. TableTypes' /\ CountedOnce'
    BY <1>0, <2>1, <2>2, ClearedFacts DEF TableTypes, CountedOnce
  <2> QED BY <2>1, <2>3, ClearedFacts DEF TableInv, PositionInv
<1>3. ASSUME NEW g \in Game, Table!AddResult(g) PROVE TableInv'
  <2>1. /\ step = "results" /\ g \in given /\ given' = given \ {g}
        /\ UNCHANGED <<result, step, drawn, base, position>>
    BY <1>3 DEF Table!AddResult, Table!worldVars
  <2>2. PositionInv'
    BY <1>0, <2>1, PositionBusy
  <2>3. CASE result[g] = NoScore
    <3>1. UNCHANGED <<points, diff, counted>>
      BY <1>3, <2>3 DEF Table!AddResult
    <3>2. TableTypes' /\ CountedOnce'
      BY <1>0, <2>1, <3>1 DEF TableTypes, CountedOnce
    <3> QED BY <1>0, <2>1, <2>2, <3>1, <3>2, PointsStay DEF TableInv
  <2>4. CASE result[g] # NoScore
    <3>1. Table!Play(g, result[g]) /\ result[g] \in Scores /\ counted[g] = NoScore
      BY <1>0, <1>3, <2>1, <2>4 DEF Table!AddResult, TableTypes, CountedOnce
    <3>2. /\ counted' = [counted EXCEPT ![g] = result[g]]
          /\ counted' \in [Game -> Scores \union {NoScore}]
          /\ points' \in [Club -> Nat] /\ diff' \in [Club -> Int]
          /\ PointsInv'
      BY <1>0, <2>1, <3>1, PlayCounts
    <3>3. TableTypes'
      BY <1>0, <2>1, <3>2 DEF TableTypes
    <3>4. CountedOnce'
      <4>1. g \notin given' /\ g \notin drawn'
        BY <1>0, <2>1 DEF CountedOnce
      <4> QED BY <1>0, <2>1, <3>2, <4>1 DEF TableTypes, CountedOnce
    <3> QED BY <2>2, <3>2, <3>3, <3>4 DEF TableInv
  <2> QED BY <2>3, <2>4
<1>4. CASE Table!AllAdded
  <2>1. /\ step = "results" /\ base' = points
        /\ UNCHANGED <<result, given, drawn, points, diff, counted, position>>
    BY <1>4 DEF Table!AllAdded, Table!worldVars
  <2>2. TableTypes' /\ CountedOnce'
    BY <1>0, <2>1 DEF TableTypes, CountedOnce
  <2>3. PointsInv'
    <3>1. \A t \in Club : points[t] \in Nat /\ base'[t] = points[t] /\ points'[t] = points[t]
      BY <1>0, <2>1 DEF TableTypes
    <3>2. \A t \in Club : base'[t] <= points'[t]
      BY <3>1
    <3> QED BY <1>0, <2>1, <3>2 DEF PointsInv, Table!Won, Table!Shared
  <2> QED BY <1>0, <2>1, <2>2, <2>3, PositionBusy DEF TableInv
<1>5. ASSUME NEW g \in Game, NEW score \in Scores, Table!Draw(g, score) PROVE TableInv'
  <2>1. /\ step = "draws" /\ g \in drawn /\ drawn' = drawn \ {g}
        /\ UNCHANGED <<result, step, given, base, position>>
    BY <1>5 DEF Table!Draw, Table!worldVars
  <2>2. PositionInv'
    BY <1>0, <2>1, PositionBusy
  <2>3. CASE ~({Home[g], Away[g]} \subseteq rated)
    <3>1. UNCHANGED <<points, diff, counted>>
      BY <1>5, <2>3 DEF Table!Draw
    <3>2. TableTypes' /\ CountedOnce'
      BY <1>0, <2>1, <3>1 DEF TableTypes, CountedOnce
    <3> QED BY <1>0, <2>1, <2>2, <3>1, <3>2, PointsStay DEF TableInv
  <2>4. CASE {Home[g], Away[g]} \subseteq rated
    <3>1. Table!Play(g, score) /\ counted[g] = NoScore
      BY <1>0, <1>5, <2>1, <2>4 DEF Table!Draw, CountedOnce
    <3>2. /\ counted' = [counted EXCEPT ![g] = score]
          /\ counted' \in [Game -> Scores \union {NoScore}]
          /\ points' \in [Club -> Nat] /\ diff' \in [Club -> Int]
          /\ PointsInv'
      BY <1>0, <2>1, <3>1, PlayCounts
    <3>3. TableTypes'
      BY <1>0, <2>1, <3>2 DEF TableTypes
    <3>4. CountedOnce'
      <4>1. g \notin given' /\ g \notin drawn'
        BY <1>0, <2>1 DEF CountedOnce
      <4> QED BY <1>0, <2>1, <3>2, <4>1 DEF TableTypes, CountedOnce
    <3> QED BY <2>2, <3>2, <3>3, <3>4 DEF TableInv
  <2> QED BY <2>3, <2>4
<1>6. CASE Table!Rank
  <2>1. /\ step' = "idle"
        /\ UNCHANGED <<result, given, drawn, points, diff, base, counted>>
    BY <1>6 DEF Table!Rank, Table!worldVars
  <2>2. PICK lots \in Table!Tiebreaks :
          position' = [t \in Club |-> 1 + Table!Cardinality({u \in Club : Table!Ahead(u, t, lots)})]
    BY <1>6 DEF Table!Rank
  <2>3. position' = Standing(lots)
    BY <2>2, SameOperators DEF Standing
  <2>4. Standing(lots)' = Standing(lots) /\ Table!Tiebreaks' = Table!Tiebreaks
    BY <2>1 DEF Standing, Table!Ahead, Table!Tiebreaks
  <2>5. PositionInv'
    BY <2>1, <2>3, <2>4 DEF PositionInv
  <2>6. TableTypes' /\ CountedOnce'
    BY <1>0, <2>1 DEF TableTypes, CountedOnce
  <2> QED BY <1>0, <2>1, <2>5, <2>6, PointsStay DEF TableInv
<1>7. CASE Table!Dies
  <2>1. Table!Cleared /\ given' = {} /\ drawn' = {} /\ result' = result
    BY <1>7 DEF Table!Dies, Table!worldVars
  <2>2. TableTypes' /\ CountedOnce'
    BY <1>0, <2>1, ClearedFacts DEF TableTypes, CountedOnce
  <2> QED BY <2>1, <2>2, ClearedFacts DEF TableInv, PositionInv
<1>8. CASE UNCHANGED Table!simVars
  <2>1. UNCHANGED <<result, step, given, drawn, points, diff, base, counted, position>>
    BY <1>8 DEF Table!simVars
  <2>2. TableTypes' /\ CountedOnce'
    BY <1>0, <2>1 DEF TableTypes, CountedOnce
  <2> QED BY <1>0, <2>1, <2>2, PointsStay, PositionStay DEF TableInv
<1> QED BY <1>1, <1>2, <1>3, <1>4, <1>5, <1>6, <1>7, <1>8 DEF Table!Next

-----------------------------------------------------------------------------
(* What the ranking makes of any table.                                      *)
LEMMA AheadOrders ==
  ASSUME Table!ConstantsOK, TableTypes, NEW lots \in Table!Tiebreaks
  PROVE  StrictOrder(Club, {p \in Club \X Club : Table!Ahead(p[1], p[2], lots)})
<1>1. \A t \in Club : points[t] \in Int /\ diff[t] \in Int
  BY DEF TableTypes
<1>2. \A t \in Club : lots[t] \in Int
  <2>1. IsFiniteSet(Club)
    BY SameOperators DEF Table!ConstantsOK
  <2>2. Table!Cardinality(Club) \in Nat
    BY <2>1, SameOperators, FS_CardinalityType
  <2> QED BY <2>2 DEF Table!Tiebreaks
<1>3. \A t, u \in Club : lots[t] = lots[u] => t = u
  BY DEF Table!Tiebreaks
<1>4. \A t \in Club : ~Table!Ahead(t, t, lots)
  BY <1>1, <1>2 DEF Table!Ahead
<1>5. \A t, u, v \in Club : Table!Ahead(t, u, lots) /\ Table!Ahead(u, v, lots) => Table!Ahead(t, v, lots)
  BY <1>1, <1>2 DEF Table!Ahead
<1>6. \A t, u \in Club : t = u \/ Table!Ahead(t, u, lots) \/ Table!Ahead(u, t, lots)
  BY <1>1, <1>2, <1>3 DEF Table!Ahead
<1> QED BY <1>4, <1>5, <1>6 DEF StrictOrder

(* As many go down as there are spots.                                       *)
LEMMA BottomFacts ==
  ASSUME NEW S, NEW f, NEW n \in Nat, NEW k \in Nat, k <= n, f \in Bijection(S, 1..n)
  PROVE  Cardinality({s \in S : f[s] >= n - k + 1}) = k
<1> DEFINE B == {s \in S : f[s] >= n - k + 1}
           I == (n - k + 1)..n
           g == [s \in B |-> f[s]]
<1>1. n - k + 1 \in Int /\ n \in Int /\ n - (n - k + 1) + 1 = k /\ (n - k + 1 > n => k = 0)
  OBVIOUS
<1>2. IsFiniteSet(I) /\ Cardinality(I) = k
  BY <1>1, FS_Interval
<1>3. /\ \A s \in S : f[s] \in 1..n
      /\ \A s, t \in S : f[s] = f[t] => s = t
      /\ \A i \in 1..n : \E s \in S : f[s] = i
  BY DEF Bijection, Injection, Surjection, IsInjective
<1>4. \A s \in B : g[s] \in I
  BY <1>3
<1>5. \A i \in I : \E s \in B : g[s] = i
  <2> SUFFICES ASSUME NEW i \in I PROVE \E s \in B : g[s] = i
    OBVIOUS
  <2>1. i \in 1..n /\ i >= n - k + 1
    OBVIOUS
  <2>2. PICK s \in S : f[s] = i
    BY <1>3, <2>1
  <2> QED BY <2>1, <2>2
<1>6. g \in Bijection(B, I)
  BY <1>3, <1>4, <1>5 DEF Bijection, Injection, Surjection, IsInjective
<1>7. g \in Injection(B, I) /\ g \in Surjection(B, I)
  BY <1>6 DEF Bijection
<1> HIDE DEF g, B, I
<1>8. Cardinality(B) = Cardinality(I)
  BY <1>2, <1>7, FS_Injection
<1> QED BY <1>2, <1>8 DEF B

(* The positions are 1 to the number of clubs, each taken once, and better   *)
(* the further ahead.                                                        *)
LEMMA StandingFacts ==
  ASSUME Table!ConstantsOK, TableTypes, NEW lots \in Table!Tiebreaks
  PROVE  /\ Standing(lots) \in Bijection(Club, 1..Cardinality(Club))
         /\ \A t, u \in Club : Standing(lots)[t] < Standing(lots)[u] => Table!Ahead(t, u, lots)
<1> DEFINE R == {p \in Club \X Club : Table!Ahead(p[1], p[2], lots)}
           rank == [t \in Club |-> Cardinality(AheadIn(Club, R, t))]
           N == Cardinality(Club)
           P == Standing(lots)
<1>1. IsFiniteSet(Club) /\ N \in Nat
  BY SameOperators, FS_CardinalityType DEF Table!ConstantsOK
<1>2. /\ rank \in Bijection(Club, 0..(N - 1))
      /\ \A t, u \in Club : Cardinality(AheadIn(Club, R, t)) < Cardinality(AheadIn(Club, R, u)) => <<t, u>> \in R
  BY <1>1, AheadOrders, Numbering
<1>3. \A t \in Club : AheadIn(Club, R, t) = {u \in Club : Table!Ahead(u, t, lots)}
  BY DEF AheadIn
<1>4. P = [t \in Club |-> 1 + rank[t]]
  BY <1>3 DEF Standing
<1>5. \A t, u \in Club : rank[t] < rank[u] => Table!Ahead(t, u, lots)
  BY <1>2
<1> HIDE DEF rank, P
<1>6. /\ \A t \in Club : rank[t] \in 0..(N - 1)
      /\ \A t, u \in Club : rank[t] = rank[u] => t = u
      /\ \A i \in 0..(N - 1) : \E t \in Club : rank[t] = i
  BY <1>2 DEF Bijection, Injection, Surjection, IsInjective
<1> HIDE DEF N
<1>7. \A t \in Club : rank[t] \in Int /\ P[t] = 1 + rank[t] /\ P[t] \in 1..N
  BY <1>1, <1>4, <1>6
<1>8. \A t, u \in Club : P[t] = P[u] => t = u
  BY <1>6, <1>7
<1>9. \A i \in 1..N : \E t \in Club : P[t] = i
  <2> SUFFICES ASSUME NEW i \in 1..N PROVE \E t \in Club : P[t] = i
    OBVIOUS
  <2>1. i - 1 \in 0..(N - 1) /\ 1 + (i - 1) = i
    BY <1>1
  <2>2. PICK t \in Club : rank[t] = i - 1
    BY <1>6, <2>1
  <2> QED BY <1>7, <2>1, <2>2
<1>10. P \in [Club -> 1..N]
  BY <1>4, <1>7
<1>11. P \in Bijection(Club, 1..N)
  BY <1>8, <1>9, <1>10 DEF Bijection, Injection, Surjection, IsInjective
<1>12. \A t, u \in Club : P[t] < P[u] => Table!Ahead(t, u, lots)
  <2> SUFFICES ASSUME NEW t \in Club, NEW u \in Club, P[t] < P[u] PROVE rank[t] < rank[u]
    BY <1>5
  <2> QED BY <1>7
<1> QED BY <1>11, <1>12 DEF P, N

LEMMA TableInit == Table!ConstantsOK /\ Table!Init => TableInv
<1> SUFFICES ASSUME Table!Init PROVE TableInv
  OBVIOUS
<1>1. TableTypes /\ CountedOnce /\ PositionInv
  BY DEF Table!Init, Table!Zero, TableTypes, CountedOnce, PositionInv
<1>2. \A t \in Club : Table!Won(t) = {} /\ Table!Shared(t) = {}
  BY DEF Table!Init, Table!Won, Table!Shared
<1>3. Cardinality({}) = 0
  BY FS_EmptySet
<1>4. \A t \in Club : points[t] = 0 /\ base[t] = 0
  BY DEF Table!Init, Table!Zero
<1> QED BY <1>1, <1>2, <1>3, <1>4 DEF TableInv, PointsInv

LEMMA TableFacts == Table!ConstantsOK /\ TableInv => Table!TableIsTrue
<1> SUFFICES ASSUME Table!ConstantsOK, TableInv PROVE Table!TableIsTrue
  OBVIOUS
<1>0. TableTypes /\ PointsInv /\ PositionInv
  BY DEF TableInv
<1> DEFINE N == Cardinality(Club)
           down == {t \in Club : position[t] >= N - Relegation + 1}
<1>1. Table!Cardinality(Club) = N /\ N \in Nat /\ IsFiniteSet(Club) /\ Relegation \in Nat
  BY SameOperators, FS_CardinalityType DEF Table!ConstantsOK
<1>2. \A t \in Club : points[t] = 3 * Table!Cardinality(Table!Won(t)) + Table!Cardinality(Table!Shared(t))
  BY <1>0, SameOperators DEF PointsInv
<1>3. \A t \in Club : base[t] <= points[t]
  BY <1>0 DEF PointsInv
<1>4. Table!Relegated = down /\ Table!Cardinality(Table!Relegated) = Cardinality(down)
  BY <1>1, SameOperators DEF Table!Relegated
<1>5. CASE Club = {}
  <2>1. N = 0 /\ 1..0 = {}
    BY <1>5, FS_EmptySet
  <2>2. Relegation <= N => Cardinality(down) = Relegation
    <3>1. down = {} /\ Cardinality({}) = 0
      BY <1>5, FS_EmptySet
    <3> HIDE DEF down
    <3> QED BY <1>1, <2>1, <3>1
  <2> HIDE DEF N, down
  <2>3. {position[t] : t \in Club} = 1..N
    BY <1>5, <2>1
  <2> QED BY <1>1, <1>2, <1>3, <1>4, <1>5, <2>2, <2>3 DEF Table!TableIsTrue
<1>6. CASE Club # {} /\ position = Table!Zero
  <2>1. ~Table!Ranked
    BY <1>6 DEF Table!Ranked, Table!Zero
  <2> QED BY <2>1 DEF Table!TableIsTrue
<1>7. ASSUME NEW lots \in Table!Tiebreaks, position = Standing(lots) PROVE Table!TableIsTrue
  <2>1. /\ position \in Bijection(Club, 1..N)
        /\ \A t, u \in Club : position[t] < position[u] => Table!Ahead(t, u, lots)
    BY <1>0, <1>7, StandingFacts
  <2>2. {position[t] : t \in Club} = 1..N
    BY <2>1 DEF Bijection, Surjection
  <2>3. \A t, u \in Club : position[t] < position[u] =>
          points[t] > points[u] \/ (points[t] = points[u] /\ diff[t] >= diff[u])
    BY <1>0, <2>1 DEF Table!Ahead, TableTypes
  <2>4. Relegation <= N => Cardinality(down) = Relegation
    <3> HIDE DEF N
    <3> QED BY <1>1, <2>1, BottomFacts
  <2> HIDE DEF N, down
  <2> QED BY <1>1, <1>2, <1>3, <1>4, <2>2, <2>3, <2>4 DEF Table!TableIsTrue
<1> QED BY <1>0, <1>5, <1>6, <1>7 DEF PositionInv

(* What a simulation stores is a league table, for any number of clubs,      *)
(* fixtures, scores and spots and whatever the sync does to the fixtures     *)
(* meanwhile: every match counts once, the positions are the numbers from    *)
(* one, in the order of points and goal difference, and as many are          *)
(* relegated as there are spots (simulation.py).                             *)
THEOREM SeasonsEndInATable == Table!Spec => []TableIsTrue
<1>1. Table!Init => TableInv
  BY TableInit, TableAssumption
<1>2. TableInv /\ [Table!Next]_Table!simVars => TableInv'
  BY TableStep, TableAssumption
<1>3. TableInv => TableIsTrue
  BY TableFacts, TableAssumption DEF TableIsTrue
<1> QED BY <1>1, <1>2, <1>3, PTL DEF Table!Spec
=============================================================================
