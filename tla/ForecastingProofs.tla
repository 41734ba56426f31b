------------------------- MODULE ForecastingProofs -------------------------
(***************************************************************************)
(* What a published forecast of Forecasting can rely on, for every number   *)
(* of models, matches, syncs and requests.                                  *)
(***************************************************************************)
EXTENDS Forecasting, FiniteSetTheorems, TLAPS

ModelType ==
  /\ played \in 0..MaxMatches
  /\ syncs \in 0..MaxSyncs
  /\ window \in [Version -> 0..MaxMatches]
  /\ fitted \in [Model -> SUBSET Version]
  /\ live \in [Model -> Version \union {None}]
  /\ weights \subseteq Row

JobType ==
  /\ job \in JobPC
  /\ jobModel \in Model
  /\ jobVersion \in Version \union {None}
  /\ syncing \in BOOLEAN

RequestType ==
  /\ rpc \in [Request -> RequestPC]
  /\ fixture \in [Request -> Fixture \union {0}]
  /\ at \in [Request -> Nat]
  /\ champ \in [Request -> Version \union {None}]
  /\ blend \in [Request -> SUBSET Row]
  /\ status \in [Request -> ForecastStatus]
  /\ saved \subseteq Request
  /\ answer \in [Request -> Request \union {NoRequest}]

(* A sync enables what it fitted, under its own number; a live version and   *)
(* one about to be is a stored one.                                          *)
JobInv ==
  /\ job = "idle" => ~syncing
  /\ job = "train" => syncing
  /\ syncing => syncs \in Version
  /\ job \in {"swap", "enable"} => jobVersion \in fitted[jobModel]
  /\ job \in {"swap", "enable"} /\ syncing => jobVersion = syncs
  /\ \A m \in Model : fitted[m] \subseteq 1..syncs
  /\ \A m \in Model : live[m] \in fitted[m] \union {None}

(* A request pools versions it has read, and its gate has seen to the        *)
(* champion's window.                                                        *)
BlendInv ==
  \A r \in Request :
    /\ rpc[r] \in {"idle", "champion"} => blend[r] = {}
    /\ rpc[r] = "weights" => champ[r] = live[Anchor] /\ champ[r] # None
    /\ rpc[r] = "weights" => window[champ[r]] < fixture[r]
    /\ \A row \in blend[r] : row[2] \in 1..syncs
    /\ \A row \in blend[r] : row[1] = Anchor => row[2] = champ[r]

(* Later syncs see at least as many matches.                                 *)
WindowInv ==
  /\ \A v \in 1..syncs : window[v] <= played
  /\ \A u, v \in 1..syncs : u <= v => window[u] <= window[v]

(* dixon_coles, trained first and never turned back, leads.                  *)
LeadInv ==
  /\ job = "idle" => jobModel = Anchor
  /\ job = "train" /\ jobModel # Anchor => live[Anchor] = syncs
  /\ job \in {"swap", "enable"} /\ syncing /\ jobModel # Anchor => live[Anchor] = syncs
  /\ job \in {"swap", "enable"} /\ jobModel = Anchor => syncing
  /\ live[Anchor] # None =>
       \A m \in Model : m # Anchor => \A v \in fitted[m] : v <= live[Anchor]

LeakInv == \A r \in Request : \A row \in blend[r] : window[row[2]] < fixture[r]

(* Who has been answered, and with what.                                     *)
AnswerInv ==
  \A r \in Request :
    /\ r \in saved => rpc[r] \in {"respond", "done"}
    /\ r \in saved /\ rpc[r] = "done" =>
         /\ answer[r] \in saved
         /\ fixture[answer[r]] = fixture[r]
         /\ at[answer[r]] >= at[r]
-----------------------------------------------------------------------------
LEMMA Constants ==
  /\ Models \in Nat /\ MaxMatches \in Nat /\ MaxSyncs \in Nat
  /\ Anchor \in Model /\ Version \subseteq Nat /\ None \notin Version /\ None \notin Model
  /\ Model \subseteq Nat
BY BoundAssumption DEF Anchor, Model, Version, None

(* What a sync or a rollback leaves alone, and what a request does.          *)
LEMMA JobFrame == JobStep => UNCHANGED <<played, requestVars>>
BY DEF JobStep, BeginSync, Promotes, Rejects, Disables, Swap, Enable, ClearWeights,
       LearnWeights, Rollback, JobFails

LEMMA RequestFrame ==
  ASSUME NEW r \in Request, RequestStep(r)
  PROVE  UNCHANGED <<played, modelVars, jobVars>>
BY DEF RequestStep, Receive, Gate, Blend, Save, Respond

LEMMA NextFollowing ==
  ASSUME JobType, NEW m \in Model, Following(m)
  PROVE  JobType' /\ job' \in {"train", "clear"} /\ syncing' = syncing
BY Constants DEF JobType, Following, JobPC, Model

LEMMA NextRest ==
  ASSUME Rest
  PROVE  JobType' /\ job' = "idle" /\ syncing' = FALSE
BY Constants DEF JobType, Rest, JobPC

LEMMA ModelStep ==
  ModelType /\ JobType /\ JobInv /\ JobStep => ModelType' /\ JobType' /\ JobInv'
<1> SUFFICES ASSUME ModelType, JobType, JobInv, JobStep PROVE ModelType' /\ JobType' /\ JobInv'
  OBVIOUS
<1> USE Constants
<1>0. played' = played
  BY JobFrame
<1>1. CASE BeginSync
  <2>1. syncs + 1 \in Version /\ syncs' = syncs + 1 /\ syncing' = TRUE
    BY <1>1 DEF BeginSync, ModelType, Version
  <2>2. 1..syncs \subseteq 1..syncs'
    BY <2>1 DEF ModelType
  <2>3. ModelType'
    BY <1>0, <1>1, <2>1 DEF BeginSync, ModelType, Version
  <2>4. JobType'
    BY <1>1 DEF BeginSync, JobType, JobPC
  <2>5. JobInv'
    BY <1>1, <2>1, <2>2 DEF BeginSync, JobInv
  <2> QED BY <2>3, <2>4, <2>5
<1>2. CASE Promotes
  <2>1. Turn \in Model /\ syncs \in Version /\ syncing
    BY <1>2 DEF Promotes, JobInv, JobType, Turn
  <2>2. fitted' = [fitted EXCEPT ![Turn] = @ \union {syncs}]
    BY <1>2 DEF Promotes
  <2>3. ModelType'
    BY <1>0, <1>2, <2>1, <2>2 DEF Promotes, ModelType
  <2>4. JobType'
    BY <1>2, <2>1 DEF Promotes, JobType, JobPC
  <2>5. \A m \in Model : fitted[m] \subseteq fitted'[m] /\ fitted'[m] \subseteq fitted[m] \union {syncs}
    BY <2>2 DEF ModelType
  <2>6. syncs \in 1..syncs
    BY <2>1 DEF Version, ModelType
  <2>7. syncs \in fitted'[jobModel]
    BY <2>1, <2>2 DEF ModelType, Turn
  <2>8. JobInv'
    BY <1>2, <2>1, <2>5, <2>6, <2>7 DEF Promotes, JobInv
  <2> QED BY <2>3, <2>4, <2>8
<1>3. CASE Rejects
  <2>1. Turn \in Model /\ jobModel \in Model /\ syncs \in Version /\ syncing
    BY <1>3 DEF Rejects, JobInv, JobType, Turn
  <2>2. fitted' = [fitted EXCEPT ![Turn] = @ \union {syncs}]
    BY <1>3 DEF Rejects
  <2>3. ModelType'
    BY <1>0, <1>3, <2>1, <2>2 DEF Rejects, ModelType
  <2>4. JobType' /\ job' \in {"train", "clear"} /\ syncing' = syncing
    BY <1>3, <2>1, NextFollowing DEF Rejects
  <2>5. \A m \in Model : fitted[m] \subseteq fitted'[m] /\ fitted'[m] \subseteq fitted[m] \union {syncs}
    BY <2>2 DEF ModelType
  <2>6. syncs \in 1..syncs
    BY <2>1 DEF Version, ModelType
  <2>7. JobInv'
    BY <1>3, <2>1, <2>4, <2>5, <2>6 DEF Rejects, JobInv
  <2> QED BY <2>3, <2>4, <2>7
<1>4. CASE Disables
  <2>1. Turn \in Model /\ jobModel \in Model /\ syncing
    BY <1>4 DEF Disables, JobInv, JobType, Turn
  <2>2. ModelType'
    BY <1>0, <1>4, <2>1 DEF Disables, ModelType
  <2>3. JobType' /\ job' \in {"train", "clear"} /\ syncing' = syncing
    BY <1>4, <2>1, NextFollowing DEF Disables
  <2>4. \A m \in Model : live'[m] \in {live[m], None}
    BY <1>4 DEF Disables, ModelType
  <2>5. JobInv'
    BY <1>4, <2>1, <2>3, <2>4 DEF Disables, JobInv
  <2> QED BY <2>2, <2>3, <2>5
<1>5. CASE Swap
  <2>1. Turn = jobModel /\ jobModel \in Model
    BY DEF JobType, Turn
  <2>2. ModelType'
    BY <1>0, <1>5, <2>1 DEF Swap, ModelType
  <2>3. JobType'
    BY <1>5 DEF Swap, JobType, JobPC
  <2>4. \A m \in Model : live'[m] \in {live[m], None}
    BY <1>5 DEF Swap, ModelType
  <2>5. JobInv'
    BY <1>5, <2>4 DEF Swap, JobInv
  <2> QED BY <2>2, <2>3, <2>5
<1>6. CASE Enable
  <2>1. Turn = jobModel /\ jobModel \in Model /\ jobVersion \in fitted[jobModel]
    BY <1>6 DEF Enable, JobType, JobInv, Turn
  <2>2. jobVersion \in Version
    BY <2>1 DEF ModelType
  <2>3. ModelType'
    BY <1>0, <1>6, <2>1, <2>2 DEF Enable, ModelType
  <2>4. /\ JobType' /\ job' \notin {"swap", "enable"}
        /\ job' = "train" => syncing
        /\ job' = "idle" => ~syncing'
        /\ syncing' => syncing
    <3>1. CASE syncing
      BY <1>6, <2>1, <3>1, NextFollowing DEF Enable
    <3>2. CASE ~syncing
      BY <1>6, <3>2, NextRest DEF Enable
    <3> QED BY <3>1, <3>2
  <2>5. job' = "train" => syncing'
    BY <1>6, <2>4 DEF Enable, Following
  <2>6. \A m \in Model : live'[m] \in {live[m], None} \union fitted[m]
    BY <1>6, <2>1 DEF Enable, ModelType
  <2>7. JobInv'
    BY <1>6, <2>4, <2>5, <2>6 DEF Enable, JobInv
  <2> QED BY <2>3, <2>4, <2>7
<1>7. CASE ClearWeights
  <2>1. ModelType'
    BY <1>0, <1>7 DEF ClearWeights, ModelType
  <2>2. JobType' /\ JobInv'
    BY <1>7 DEF ClearWeights, JobType, JobPC, JobInv
  <2> QED BY <2>1, <2>2
<1>8. CASE LearnWeights
  <2>1. weights' \subseteq Row
    BY <1>8 DEF LearnWeights, ModelType, Row
  <2>2. ModelType'
    BY <1>0, <1>8, <2>1 DEF LearnWeights, ModelType
  <2>3. JobType' /\ JobInv'
    BY <1>8, NextRest DEF LearnWeights, JobInv
  <2> QED BY <2>2, <2>3
<1>9. ASSUME NEW m \in Model, NEW v \in Version, Rollback(m, v)
      PROVE  ModelType' /\ JobType' /\ JobInv'
  <2>1. ModelType'
    BY <1>0, <1>9 DEF Rollback, ModelType, modelVars
  <2>2. JobType'
    BY <1>9 DEF Rollback, JobType, JobPC
  <2>3. ~syncing
    BY <1>9 DEF Rollback, JobInv
  <2>4. JobInv'
    BY <1>9, <2>3 DEF Rollback, JobInv, modelVars
  <2> QED BY <2>1, <2>2, <2>4
<1>10. CASE JobFails
  BY <1>0, <1>10, NextRest DEF JobFails, ModelType, JobInv, modelVars
<1> QED BY <1>1, <1>2, <1>3, <1>4, <1>5, <1>6, <1>7, <1>8, <1>9, <1>10 DEF JobStep
-----------------------------------------------------------------------------
LEMMA RequestTypeStep ==
  ASSUME ModelType, RequestType, BlendInv, NEW r \in Request, RequestStep(r)
  PROVE  RequestType'
<1> USE Constants
<1>1. ASSUME NEW k \in Fixture, Receive(r, k) PROVE RequestType'
  <2>1. Cardinality({q \in Request : at[q] > 0}) \in Nat
    BY RequestAssumption, FS_Subset, FS_CardinalityType
  <2> QED BY <1>1, <2>1 DEF Receive, RequestType, RequestPC
<1>2. ASSUME NEW quality \in {"good", "limited", "bad"}, Gate(r, quality) PROVE RequestType'
  BY <1>2 DEF Gate, RequestType, RequestPC, ForecastStatus, ModelType
<1>3. ASSUME NEW unknown \in SUBSET Members, Blend(r, unknown) PROVE RequestType'
  <2> DEFINE pool == Members \ unknown
             used == IF pool = {} THEN {<<Anchor, champ[r]>>} ELSE pool
  <2>1. champ[r] \in Version
    BY <1>3 DEF Blend, BlendInv, RequestType
  <2>2. used \subseteq Row
    BY <2>1 DEF Members, ModelType, Row
  <2>3. blend' = [blend EXCEPT ![r] = used]
    BY <1>3 DEF Blend
  <2>4. blend' \in [Request -> SUBSET Row]
    BY <2>2, <2>3 DEF RequestType
  <2> QED BY <1>3, <2>4 DEF Blend, RequestType, RequestPC, ForecastStatus
<1>4. CASE Save(r)
  BY <1>4 DEF Save, RequestType, RequestPC
<1>5. CASE Respond(r)
  <2>1. Latest(fixture[r]) \subseteq Request \union {NoRequest}
    BY DEF Latest, Rows, RequestType
  <2> QED BY <1>5, <2>1 DEF Respond, RequestType, RequestPC
<1> QED BY <1>1, <1>2, <1>3, <1>4, <1>5 DEF RequestStep

LEMMA PoolFacts ==
  ASSUME ModelType, JobInv, RequestType, BlendInv,
         NEW r \in Request, NEW unknown \in SUBSET Members, Blend(r, unknown),
         NEW row \in blend'[r]
  PROVE  /\ row[1] \in Model /\ row[2] \in 1..syncs /\ row[2] \in Version
         /\ row[2] = live[row[1]] /\ row[2] \in fitted[row[1]]
         /\ champ[r] = live[Anchor] /\ champ[r] # None
         /\ window[champ[r]] < fixture[r]
<1>1. champ[r] = live[Anchor] /\ champ[r] # None /\ window[champ[r]] < fixture[r]
  BY DEF Blend, BlendInv
<1>2. blend'[r] \subseteq Members \union {<<Anchor, champ[r]>>}
  BY DEF Blend, RequestType
<1>3. CASE row \in Members
  <2>1. row \in Row /\ live[row[1]] = row[2]
    BY <1>3 DEF Members, ModelType
  <2>2. row[1] \in Model /\ row[2] \in Version
    BY <2>1 DEF Row
  <2> QED BY <1>1, <2>1, <2>2, Constants DEF JobInv
<1>4. CASE row = <<Anchor, champ[r]>>
  <2>1. row[1] = Anchor /\ row[2] = champ[r]
    BY <1>4
  <2>2. live[Anchor] \in fitted[Anchor] /\ fitted[Anchor] \subseteq 1..syncs /\ live[Anchor] \in Version
    BY <1>1, Constants DEF JobInv, ModelType
  <2> QED BY <1>1, <2>1, <2>2, Constants
<1> QED BY <1>2, <1>3, <1>4

LEMMA BlendRequestStep ==
  ASSUME ModelType, JobInv, RequestType, BlendInv, NEW r \in Request, RequestStep(r)
  PROVE  BlendInv'
<1> USE Constants
<1>0. UNCHANGED <<syncs, live, window>>
  BY RequestFrame DEF modelVars
<1>1. ASSUME NEW k \in Fixture, Receive(r, k) PROVE BlendInv'
  BY <1>0, <1>1 DEF Receive, BlendInv, RequestType
<1>2. ASSUME NEW quality \in {"good", "limited", "bad"}, Gate(r, quality) PROVE BlendInv'
  <2>1. rpc[r] = "champion" /\ blend[r] = {} /\ UNCHANGED <<fixture, blend>>
    BY <1>2 DEF Gate, BlendInv
  <2>2. champ'[r] = live[Anchor]
    BY <1>2 DEF Gate, RequestType
  <2>3. \A q \in Request : q # r => rpc'[q] = rpc[q] /\ champ'[q] = champ[q]
    BY <1>2 DEF Gate, RequestType
  <2>4. rpc'[r] \in {"weights", "save", "respond"}
    BY <1>2 DEF Gate, RequestType
  <2>5. rpc'[r] = "weights" => live[Anchor] # None /\ window[live[Anchor]] < fixture[r]
    <3>1. rpc'[r] = "weights" => live[Anchor] # None /\ ~Leaks(live[Anchor], fixture[r])
      BY <1>2 DEF Gate, RequestType
    <3>2. live[Anchor] # None => window[live[Anchor]] \in 0..MaxMatches
      BY DEF ModelType
    <3>3. fixture[r] \in Nat
      BY DEF RequestType, Fixture
    <3>4. \A w \in 0..MaxMatches : ~(fixture[r] <= w) => w < fixture[r]
      BY <3>3
    <3> QED BY <3>1, <3>2, <3>4 DEF Leaks
  <2> QED BY <1>0, <2>1, <2>2, <2>3, <2>4, <2>5 DEF BlendInv
<1>3. ASSUME NEW unknown \in SUBSET Members, Blend(r, unknown) PROVE BlendInv'
  <2>1. \A row \in blend'[r] : row[2] \in 1..syncs /\ (row[1] = Anchor => row[2] = champ[r])
    BY <1>3, PoolFacts
  <2>2. \A q \in Request : q # r => blend'[q] = blend[q] /\ rpc'[q] = rpc[q]
    BY <1>3 DEF Blend, RequestType
  <2>3. rpc'[r] = "save" /\ UNCHANGED <<fixture, champ>>
    BY <1>3 DEF Blend, RequestType
  <2> QED BY <1>0, <2>1, <2>2, <2>3 DEF BlendInv
<1>4. CASE Save(r)
  BY <1>0, <1>4 DEF Save, BlendInv, RequestType
<1>5. CASE Respond(r)
  BY <1>0, <1>5 DEF Respond, BlendInv, RequestType
<1> QED BY <1>1, <1>2, <1>3, <1>4, <1>5 DEF RequestStep

(* The number of a stored version keeps its window, and syncs only grow.     *)
LEMMA JobKeepsWindows ==
  ASSUME ModelType, JobStep
  PROVE  /\ 1..syncs \subseteq 1..syncs'
         /\ \A v \in 1..syncs : window'[v] = window[v]
<1>1. CASE BeginSync
  <2>1. syncs \in Nat /\ syncs' = syncs + 1
    BY <1>1, Constants DEF BeginSync, ModelType
  <2>2. \A v \in 1..syncs : v # syncs + 1 /\ v \in Version
    BY <1>1, <2>1, Constants DEF BeginSync, Version, ModelType
  <2> QED BY <1>1, <2>1, <2>2 DEF BeginSync, ModelType
<1>2. CASE ~BeginSync
  <2>1. UNCHANGED <<syncs, window>>
    BY <1>2 DEF JobStep, Promotes, Rejects, Disables, Swap, Enable, ClearWeights,
                LearnWeights, Rollback, JobFails, modelVars
  <2> QED BY <2>1
<1> QED BY <1>1, <1>2

LEMMA BlendJobStep ==
  ASSUME ModelType, RequestType, BlendInv, NoneBlending, JobStep
  PROVE  BlendInv'
<1>1. UNCHANGED requestVars
  BY JobFrame
<1>2. \A r \in Request : rpc'[r] # "weights"
  BY <1>1 DEF NoneBlending, requestVars
<1> QED BY <1>1, <1>2, JobKeepsWindows DEF BlendInv, requestVars

-----------------------------------------------------------------------------
SafeInv == ModelType /\ JobType /\ RequestType /\ JobInv /\ BlendInv

LEMMA SafeInit == Init => SafeInv
<1> SUFFICES ASSUME Init PROVE SafeInv
  OBVIOUS
<1> USE Constants DEF Init
<1>1. ModelType
  BY DEF ModelType
<1>2. JobType /\ JobInv
  BY DEF JobType, JobPC, JobInv
<1>3. RequestType
  BY DEF RequestType, RequestPC, ForecastStatus
<1>4. BlendInv
  BY DEF BlendInv
<1> QED BY <1>1, <1>2, <1>3, <1>4 DEF SafeInv

LEMMA SafeStep == SafeInv /\ [NextAtomic]_vars => SafeInv'
<1> SUFFICES ASSUME SafeInv, [NextAtomic]_vars PROVE SafeInv'
  OBVIOUS
<1>0. ModelType /\ JobType /\ RequestType /\ JobInv /\ BlendInv
  BY DEF SafeInv
<1>1. CASE MatchCompletes
  <2>1. ModelType'
    BY <1>0, <1>1, Constants DEF MatchCompletes, ModelType, modelVars
  <2>2. JobType' /\ JobInv'
    BY <1>0, <1>1 DEF MatchCompletes, JobType, JobInv, modelVars, jobVars
  <2>3. RequestType'
    BY <1>0, <1>1 DEF MatchCompletes, RequestType, requestVars
  <2>4. BlendInv'
    BY <1>0, <1>1 DEF MatchCompletes, BlendInv, modelVars, requestVars
  <2> QED BY <2>1, <2>2, <2>3, <2>4 DEF SafeInv
<1>2. CASE NoneBlending /\ JobStep
  <2>1. RequestType'
    BY <1>0, <1>2, JobFrame DEF RequestType, requestVars
  <2> QED BY <1>0, <1>2, <2>1, ModelStep, BlendJobStep DEF SafeInv
<1>3. ASSUME NEW r \in Request, RequestStep(r) PROVE SafeInv'
  <2>1. UNCHANGED <<played, modelVars, jobVars>>
    BY <1>3, RequestFrame
  <2>2. ModelType' /\ JobType' /\ JobInv'
    BY <1>0, <2>1 DEF ModelType, JobType, JobInv, modelVars, jobVars
  <2>3. RequestType' /\ BlendInv'
    BY <1>0, <1>3, RequestTypeStep, BlendRequestStep
  <2> QED BY <2>2, <2>3 DEF SafeInv
<1>4. CASE UNCHANGED vars
  BY <1>0, <1>4 DEF vars, SafeInv, ModelType, JobType, RequestType, JobInv, BlendInv
<1> QED BY <1>1, <1>2, <1>3, <1>4 DEF NextAtomic

(* Every variable keeps its type.                                            *)
THEOREM TypeCorrect == SpecAtomic => []TypeOK
<1>1. SafeInv => TypeOK
  BY DEF SafeInv, TypeOK, ModelType, JobType, RequestType
<1> QED BY SafeInit, SafeStep, <1>1, PTL DEF SpecAtomic

(* Where no commit of a sync falls between a forecast's reads, the version   *)
(* it names and snapshots is the dixon_coles version it pooled.              *)
THEOREM SnapshotsAreFaithful == SpecAtomic => []SnapshotIsOfTheBlend
<1>1. SafeInv => SnapshotIsOfTheBlend
  BY DEF SafeInv, BlendInv, RequestType, SnapshotIsOfTheBlend
<1> QED BY SafeInit, SafeStep, <1>1, PTL DEF SpecAtomic
(* A request that has been answered keeps the answer, and what it says of    *)
(* other requests' rows is not touched by later ones.                        *)
LEMMA AnswerStep == SafeInv /\ AnswerInv /\ [NextAtomic]_vars => AnswerInv'
<1> SUFFICES ASSUME SafeInv, AnswerInv, [NextAtomic]_vars PROVE AnswerInv'
  OBVIOUS
<1>0. RequestType
  BY DEF SafeInv
<1>1. CASE UNCHANGED requestVars
  BY <1>1 DEF AnswerInv, requestVars
<1>2. ASSUME NEW r \in Request, RequestStep(r) PROVE AnswerInv'
  <2>1. ASSUME NEW k \in Fixture, Receive(r, k) PROVE AnswerInv'
    <3>1. r \notin saved
      BY <2>1 DEF Receive, AnswerInv
    <3>2. \A q \in saved : fixture'[q] = fixture[q] /\ at'[q] = at[q] /\ rpc'[q] = rpc[q]
      BY <1>0, <2>1, <3>1 DEF Receive, RequestType
    <3> QED BY <2>1, <3>1, <3>2 DEF Receive, AnswerInv
  <2>2. ASSUME NEW quality \in {"good", "limited", "bad"}, Gate(r, quality) PROVE AnswerInv'
    BY <1>0, <2>2 DEF Gate, AnswerInv, RequestType
  <2>3. ASSUME NEW unknown \in SUBSET Members, Blend(r, unknown) PROVE AnswerInv'
    BY <1>0, <2>3 DEF Blend, AnswerInv, RequestType
  <2>4. CASE Save(r)
    BY <1>0, <2>4 DEF Save, AnswerInv, RequestType
  <2>5. CASE Respond(r)
    <3>1. r \in saved => \A q \in Latest(fixture[r]) :
            q \in saved /\ fixture[q] = fixture[r] /\ at[r] <= at[q]
      BY DEF Latest, Rows
    <3>2. PICK q \in Latest(fixture[r]) : answer' = [answer EXCEPT ![r] = q]
      BY <2>5 DEF Respond
    <3>3. r \in saved => q \in saved /\ fixture[q] = fixture[r] /\ at[q] >= at[r]
      <4>1. at[r] \in Nat /\ (q \in saved => at[q] \in Nat)
        BY <1>0 DEF RequestType
      <4> QED BY <3>1, <4>1
    <3>4. answer'[r] = q /\ \A p \in Request : p # r => answer'[p] = answer[p] /\ rpc'[p] = rpc[p]
      BY <1>0, <2>5, <3>2 DEF Respond, RequestType
    <3>5. UNCHANGED <<fixture, at, saved>> /\ rpc'[r] = "done"
      BY <1>0, <2>5 DEF Respond, RequestType
    <3> QED BY <3>3, <3>4, <3>5 DEF AnswerInv
  <2> QED BY <1>2, <2>1, <2>2, <2>3, <2>4, <2>5 DEF RequestStep
<1>3. MatchCompletes \/ JobStep => UNCHANGED requestVars
  BY JobFrame DEF MatchCompletes
<1>4. UNCHANGED vars => UNCHANGED requestVars
  BY DEF vars, requestVars
<1> QED BY <1>1, <1>2, <1>3, <1>4 DEF NextAtomic

(* POST /forecast answers a stored forecast with itself or a later one.      *)
THEOREM AnswersAreCurrent == SpecAtomic => []AnswerIsCurrent
<1>1. Init => AnswerInv
  BY DEF Init, AnswerInv
<1>2. SafeInv /\ AnswerInv => AnswerIsCurrent
  BY DEF SafeInv, RequestType, AnswerInv, AnswerIsCurrent
<1> QED BY SafeInit, SafeStep, AnswerStep, <1>1, <1>2, PTL DEF SpecAtomic

-----------------------------------------------------------------------------
LEMMA WindowStep == SafeInv /\ WindowInv /\ [NextAtomic]_vars => WindowInv'
<1> SUFFICES ASSUME SafeInv, WindowInv, [NextAtomic]_vars PROVE WindowInv'
  OBVIOUS
<1>0. /\ syncs \in Nat /\ played \in Nat /\ window \in [Version -> 0..MaxMatches]
      /\ \A v \in 1..syncs : window[v] \in Nat /\ v \in Version
  BY Constants DEF SafeInv, ModelType, Version
<1>1. CASE MatchCompletes
  <2>1. played' = played + 1 /\ UNCHANGED <<syncs, window>>
    BY <1>1 DEF MatchCompletes, modelVars
  <2> QED BY <1>0, <2>1 DEF WindowInv
<1>2. CASE BeginSync
  <2>1. syncs' = syncs + 1 /\ played' = played /\ syncs + 1 \in Version
    BY <1>0, <1>2, Constants DEF BeginSync, Version
  <2>2. window'[syncs + 1] = played
    BY <1>0, <1>2, <2>1 DEF BeginSync
  <2>3. \A v \in 1..syncs : window'[v] = window[v] /\ v < syncs + 1
    BY <1>0, <1>2 DEF BeginSync
  <2>4. \A v \in 1..(syncs + 1) : v \in 1..syncs \/ v = syncs + 1
    BY <1>0
  <2> QED BY <1>0, <2>1, <2>2, <2>3, <2>4 DEF WindowInv
<1>3. CASE JobStep /\ ~BeginSync
  <2>1. UNCHANGED <<played, syncs, window>>
    BY <1>3 DEF JobStep, Promotes, Rejects, Disables, Swap, Enable, ClearWeights,
                LearnWeights, Rollback, JobFails, modelVars
  <2> QED BY <2>1 DEF WindowInv
<1>4. ASSUME NEW r \in Request, RequestStep(r) PROVE WindowInv'
  BY <1>4, RequestFrame DEF WindowInv, modelVars
<1>5. CASE UNCHANGED vars
  BY <1>5 DEF vars, WindowInv
<1> QED BY <1>1, <1>2, <1>3, <1>4, <1>5 DEF NextAtomic

AnchorMovesOn == Anchor \notin Rejectable /\ Anchor \notin Revertible

LEMMA LeadStep ==
  ASSUME AnchorMovesOn
  PROVE  SafeInv /\ LeadInv /\ [NextAtomic]_vars => LeadInv'
<1> SUFFICES ASSUME SafeInv, LeadInv, [NextAtomic]_vars PROVE LeadInv'
  OBVIOUS
<1> USE Constants
<1>0. ModelType /\ JobType /\ JobInv
  BY DEF SafeInv
<1>1. syncs \in Nat /\ \A m \in Model : fitted[m] \subseteq Nat /\ \A v \in fitted[m] : v <= syncs
  BY <1>0 DEF ModelType, JobInv
<1>2. CASE BeginSync
  <2>1. UNCHANGED <<live, fitted>> /\ job' \in {"train", "clear"} /\ jobModel' = jobModel
    BY <1>2 DEF BeginSync
  <2>2. jobModel = Anchor
    BY <1>2 DEF BeginSync, LeadInv
  <2> QED BY <2>1, <2>2 DEF LeadInv
<1>3. CASE Promotes
  <2>1. /\ Turn = jobModel /\ jobModel \in Model /\ syncing
        /\ fitted' = [fitted EXCEPT ![Turn] = @ \union {syncs}]
        /\ UNCHANGED <<live, syncs, jobModel, syncing>>
        /\ job = "train" /\ job' \in {"swap", "enable"}
    BY <1>0, <1>3 DEF Promotes, JobType, JobInv, Turn
  <2>2. \A m \in Model : m # jobModel => fitted'[m] = fitted[m]
    BY <1>0, <2>1 DEF ModelType
  <2>3. fitted'[jobModel] = fitted[jobModel] \union {syncs}
    BY <1>0, <2>1 DEF ModelType
  <2> QED BY <1>1, <2>1, <2>2, <2>3 DEF LeadInv
<1>4. CASE Rejects
  <2>1. /\ jobModel \in Model /\ jobModel \in Rejectable /\ job = "train"
        /\ fitted' = [fitted EXCEPT ![jobModel] = @ \union {syncs}]
        /\ UNCHANGED <<live, syncs>>
    BY <1>0, <1>4 DEF Rejects, JobType, Turn
  <2>2. jobModel # Anchor /\ live[Anchor] = syncs
    BY <2>1, AnchorMovesOn DEF AnchorMovesOn, LeadInv
  <2>3. job' \in {"train", "clear"}
    BY <1>4 DEF Rejects, Following
  <2>4. \A m \in Model : \A v \in fitted'[m] : v <= syncs
    BY <1>0, <1>1, <2>1 DEF ModelType
  <2> QED BY <2>1, <2>2, <2>3, <2>4 DEF LeadInv
<1>5. CASE Disables
  <2>1. /\ jobModel \in Model /\ jobModel # Anchor
        /\ live' = [live EXCEPT ![jobModel] = None]
        /\ UNCHANGED <<fitted, syncs>>
        /\ job = "train" /\ job' \in {"train", "clear"}
    BY <1>0, <1>5, ModelAssumption DEF Disables, JobType, Turn, Following
  <2>2. live'[Anchor] = live[Anchor]
    BY <1>0, <2>1 DEF ModelType
  <2> QED BY <2>1, <2>2 DEF LeadInv
<1>6. CASE Swap
  <2>1. /\ jobModel \in Model /\ job = "swap" /\ job' = "enable"
        /\ live' = [live EXCEPT ![jobModel] = None]
        /\ UNCHANGED <<fitted, syncs, jobModel, syncing>>
    BY <1>0, <1>6 DEF Swap, JobType, Turn
  <2>2. live'[Anchor] = IF jobModel = Anchor THEN None ELSE live[Anchor]
    BY <1>0, <2>1 DEF ModelType
  <2> QED BY <2>1, <2>2 DEF LeadInv
<1>7. CASE Enable
  <2>1. /\ jobModel \in Model /\ job = "enable"
        /\ live' = [live EXCEPT ![jobModel] = jobVersion]
        /\ UNCHANGED <<fitted, syncs>>
        /\ syncing => Following(jobModel)
        /\ ~syncing => Rest
        /\ syncing => jobVersion = syncs
    BY <1>0, <1>7 DEF Enable, JobType, JobInv, Turn
  <2>2. live'[Anchor] = IF jobModel = Anchor THEN jobVersion ELSE live[Anchor]
    BY <1>0, <2>1 DEF ModelType
  <2>3. CASE syncing
    <3>1. live'[Anchor] = syncs
      BY <2>1, <2>2, <2>3 DEF LeadInv
    <3>2. job' \in {"train", "clear"}
      BY <2>1, <2>3 DEF Following
    <3> QED BY <1>1, <2>1, <3>1, <3>2 DEF LeadInv
  <2>4. CASE ~syncing
    <3>1. jobModel # Anchor
      BY <2>1, <2>4 DEF LeadInv
    <3> QED BY <2>1, <2>2, <2>4, <3>1 DEF LeadInv, Rest
  <2> QED BY <2>3, <2>4
<1>8. CASE ClearWeights \/ LearnWeights \/ JobFails
  <2>1. UNCHANGED <<fitted, live, syncs>>
    BY <1>8 DEF ClearWeights, LearnWeights, JobFails, modelVars
  <2>2. job' \in {"weigh", "idle"} /\ (job' = "idle" => jobModel' = Anchor)
    BY <1>8 DEF ClearWeights, LearnWeights, JobFails, Rest
  <2> QED BY <2>1, <2>2 DEF LeadInv
<1>9. ASSUME NEW m \in Model, NEW v \in Version, Rollback(m, v) PROVE LeadInv'
  <2>1. UNCHANGED <<fitted, live, syncs, syncing>> /\ jobModel' = m
    BY <1>9 DEF Rollback, modelVars
  <2>2. job' \in {"swap", "enable"} /\ job = "idle" /\ m \in Revertible
    BY <1>9 DEF Rollback
  <2>3. m # Anchor /\ ~syncing
    BY <1>0, <2>2, AnchorMovesOn DEF AnchorMovesOn, JobInv
  <2> QED BY <2>1, <2>2, <2>3 DEF LeadInv
<1>10. CASE UNCHANGED <<modelVars, jobVars>>
  BY <1>10 DEF modelVars, jobVars, LeadInv
<1>11. MatchCompletes => UNCHANGED <<modelVars, jobVars>>
  BY DEF MatchCompletes
<1>12. \A r \in Request : RequestStep(r) => UNCHANGED <<modelVars, jobVars>>
  BY RequestFrame
<1>13. UNCHANGED vars => UNCHANGED <<modelVars, jobVars>>
  BY DEF vars, modelVars, jobVars
<1> QED BY <1>2, <1>3, <1>4, <1>5, <1>6, <1>7, <1>8, <1>9, <1>10, <1>11, <1>12, <1>13
        DEF NextAtomic, JobStep

LEMMA LeakStep ==
  SafeInv /\ WindowInv /\ LeadInv /\ LeakInv /\ [NextAtomic]_vars => LeakInv'
<1> SUFFICES ASSUME SafeInv, WindowInv, LeadInv, LeakInv, [NextAtomic]_vars PROVE LeakInv'
  OBVIOUS
<1> USE Constants
<1>0. ModelType /\ JobInv /\ RequestType /\ BlendInv
  BY DEF SafeInv
<1>1. CASE JobStep
  BY <1>0, <1>1, JobFrame, JobKeepsWindows DEF LeakInv, BlendInv, requestVars
<1>2. ASSUME NEW r \in Request, RequestStep(r) PROVE LeakInv'
  <2>0. UNCHANGED <<window, syncs>>
    BY <1>2, RequestFrame DEF modelVars
  <2>1. ASSUME NEW k \in Fixture, Receive(r, k) PROVE LeakInv'
    BY <1>0, <2>0, <2>1 DEF Receive, LeakInv, BlendInv, RequestType
  <2>2. ASSUME NEW unknown \in SUBSET Members, Blend(r, unknown) PROVE LeakInv'
    <3>1. ASSUME NEW row \in blend'[r] PROVE window[row[2]] < fixture[r]
      <4>1. /\ row[1] \in Model /\ row[2] \in 1..syncs /\ row[2] \in Version
            /\ row[2] = live[row[1]] /\ row[2] \in fitted[row[1]]
            /\ champ[r] = live[Anchor] /\ champ[r] # None
            /\ window[champ[r]] < fixture[r]
        BY <1>0, <2>2, <3>1, PoolFacts
      <4>2. live[Anchor] \in 1..syncs /\ live[Anchor] \in Version
        BY <1>0, <4>1 DEF JobInv, ModelType
      <4>3. row[2] <= live[Anchor]
        BY <4>1, <4>2 DEF LeadInv
      <4>4. window[row[2]] <= window[live[Anchor]]
        BY <4>1, <4>2, <4>3 DEF WindowInv
      <4>5. window[row[2]] \in Nat /\ window[live[Anchor]] \in Nat /\ fixture[r] \in Nat
        BY <1>0, <4>1, <4>2 DEF ModelType, RequestType, Fixture
      <4> QED BY <4>1, <4>4, <4>5
    <3>2. \A q \in Request : q # r => blend'[q] = blend[q]
      BY <1>0, <2>2 DEF Blend, RequestType
    <3>3. fixture' = fixture
      BY <2>2 DEF Blend
    <3> QED BY <2>0, <3>1, <3>2, <3>3 DEF LeakInv
  <2>3. ASSUME UNCHANGED <<blend, fixture>> PROVE LeakInv'
    BY <2>0, <2>3 DEF LeakInv
  <2>4. \A quality \in {"good", "limited", "bad"} : Gate(r, quality) => UNCHANGED <<blend, fixture>>
    BY DEF Gate
  <2>5. Save(r) \/ Respond(r) => UNCHANGED <<blend, fixture>>
    BY DEF Save, Respond
  <2> QED BY <1>2, <2>1, <2>2, <2>3, <2>4, <2>5 DEF RequestStep
<1>3. CASE MatchCompletes
  BY <1>3 DEF MatchCompletes, LeakInv, modelVars, requestVars
<1>4. CASE UNCHANGED vars
  BY <1>4 DEF vars, LeakInv
<1> QED BY <1>1, <1>2, <1>3, <1>4 DEF NextAtomic

(* As long as dixon_coles is promoted by every sync and never rolled back,   *)
(* its window bounds those of all the models it is pooled with - because it  *)
(* is trained first - so the gate's test of one window covers them all.      *)
THEOREM NoForecastLeaks ==
  ASSUME AnchorMovesOn
  PROVE  SpecAtomic => []NoLeakage
<1>1. Init => WindowInv /\ LeadInv /\ LeakInv
  BY Constants DEF Init, WindowInv, LeadInv, LeakInv
<1>2. SafeInv /\ LeakInv => NoLeakage
  BY DEF SafeInv, RequestType, LeakInv, NoLeakage
<1>3. SafeInv /\ LeadInv /\ [NextAtomic]_vars => LeadInv'
  BY LeadStep
<1> QED BY SafeInit, SafeStep, WindowStep, <1>3, LeakStep, <1>1, <1>2, PTL DEF SpecAtomic
=============================================================================
