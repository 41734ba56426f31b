------------------------ MODULE ModelRegistryProofs ------------------------
(***************************************************************************)
(* What holds of ModelRegistry for every number of syncs, administrators,   *)
(* matches and versions.                                                    *)
(***************************************************************************)
EXTENDS ModelRegistry, TLAPS

(* Where retire_active goes on to.                                           *)
GoalOK ==
  \A p \in Process :
    /\ pc[p] \in {"select", "retire"} => goal[p] \in {"promote", "persist", "disable"}
    /\ pc[p] \in {"select", "retire", "promote", "log"} /\ goal[p] = "promote"
         => mine[p] \in Version
    /\ pc[p] \in {"promote", "reject", "log"} => mine[p] \in Version
    /\ pc[p] = "promote" => goal[p] = "promote"
    /\ pc[p] = "reject" => goal[p] = "reject"
    /\ pc[p] = "persist" => goal[p] = "persist"

TInv == TypeOK /\ GoalOK

(* Steps of one process, whoever may take them.                              *)
AnyStep == MatchCompletes \/ \E p \in Process : Start(p) \/ Step(p) \/ Fails(p)

LEMMA AnyNext ==
  /\ NextF => AnyStep
  /\ NextSerialF => AnyStep
BY DEF NextF, NextSerialF, Next, NextSerial, AnyStep

LEMMA ConstantsOK ==
  /\ Version \subseteq Nat
  /\ NoVersion \notin Version
  /\ NoCutoff \notin Cutoff
  /\ MaxMatches \in Nat
BY BoundsAssumption DEF Version, NoVersion, Cutoff, NoCutoff

LEMMA TypeInit == Init => TInv
BY BoundsAssumption DEF Init, TInv, TypeOK, GoalOK, Status, Reason, Event, PC, Goal, Cutoff, NoCutoff, NoVersion

LEMMA ChampionsType ==
  ASSUME TypeOK
  PROVE  Champions \subseteq Version \union {NoVersion}
BY DEF Champions, Live, WithStatus

(* What a process that starts or goes on does to its own variables.          *)
LEMMA TypeStep == TInv /\ [AnyStep]_vars => TInv'
<1> SUFFICES ASSUME TInv, [AnyStep]_vars PROVE TInv'
  OBVIOUS
<1> USE DEF TInv
<1>1. CASE MatchCompletes
  BY <1>1, ConstantsOK DEF MatchCompletes, TypeOK, GoalOK, rowVars, logVars, procVars
<1>2. ASSUME NEW p \in Process, Start(p) PROVE TInv'
  <2>1. CASE p \in Trainer /\ Begin(p)
    BY <2>1 DEF Begin, GoTo, Aim, TypeOK, GoalOK, PC, Goal, rowVars, logVars
  <2>2. CASE p \in Admin /\ \E v \in Version : Rollback(p, v)
    BY <2>2 DEF Rollback, GoTo, Aim, TypeOK, GoalOK, PC, Goal, rowVars, logVars
  <2> QED BY <1>2, <2>1, <2>2 DEF Start
<1>3. ASSUME NEW p \in Process, Step(p) PROVE TInv'
  <2>1. CASE ReadChampion(p)
    BY <2>1, ChampionsType DEF ReadChampion, GoTo, TypeOK, GoalOK, PC, rowVars, logVars
  <2>2. CASE FitFails(p)
    BY <2>2 DEF FitFails, GoTo, Aim, TypeOK, GoalOK, PC, Goal, rowVars, logVars
  <2>3. CASE StageSelect(p)
    BY <2>3 DEF StageSelect, WithStatus, GoTo, TypeOK, GoalOK, PC, rowVars, logVars
  <2>4. CASE Stage(p)
    <3>1. PICK v \in Version :
            /\ status' = [u \in Version |->
                 IF u = v THEN "CHALLENGER" ELSE IF u \in sel[p] THEN "RETIRED" ELSE status[u]]
            /\ cutoff' = [cutoff EXCEPT ![v] = seen[p]]
            /\ mine' = [mine EXCEPT ![p] = v]
      BY <2>4 DEF Stage
    <3>2. PICK verdict \in Verdicts(champ[p], seen[p]) : Follow(p, verdict)
      BY <2>4 DEF Stage
    <3>3. status' \in [Version -> Status] /\ cutoff' \in [Version -> Cutoff \union {NoCutoff}]
      BY <3>1 DEF TypeOK, Status, Cutoff
    <3>4. reason' \in [Version -> Reason]
      BY <2>4 DEF Stage, TypeOK, Reason
    <3>5. /\ pc' \in [Process -> PC] /\ goal' \in [Process -> Goal]
          /\ mine' \in [Process -> Version \union {NoVersion}]
      BY <3>1, <3>2 DEF Follow, GoTo, Aim, TypeOK, PC, Goal
    <3>6. GoalOK'
      BY <3>1, <3>2 DEF Follow, GoTo, Aim, TypeOK, GoalOK
    <3> QED BY <2>4, <3>3, <3>4, <3>5, <3>6 DEF Stage, Forget, TypeOK, logVars
  <2>5. CASE SelectLive(p)
    BY <2>5 DEF SelectLive, Live, WithStatus, GoTo, TypeOK, GoalOK, PC, Goal, rowVars, logVars
  <2>6. CASE Retire(p)
    BY <2>6 DEF Retire, Forget, GoTo, TypeOK, GoalOK, PC, Goal, Status, logVars
  <2>7. CASE Promote(p)
    BY <2>7 DEF Promote, GoTo, TypeOK, GoalOK, PC, Status, logVars
  <2>8. CASE Reject(p)
    BY <2>8 DEF Reject, GoTo, TypeOK, GoalOK, PC, Status, Reason, logVars
  <2>9. CASE Persist(p)
    BY <2>9, ConstantsOK DEF Persist, Done, Forget, GoTo, Aim, TypeOK, GoalOK, PC, Goal, Status, Cutoff, logVars
  <2>10. CASE Disable(p)
    BY <2>10, ConstantsOK DEF Disable, Done, Forget, GoTo, Aim, TypeOK, GoalOK, PC, Goal, Status, Reason, logVars
  <2>11. CASE LogDecision(p)
    BY <2>11, ConstantsOK DEF LogDecision, Done, Forget, GoTo, Aim, TypeOK, GoalOK, PC, Goal, Event, rowVars
  <2>12. CASE RecordAudit(p)
    <3>1. audited' \subseteq Version
      BY <2>12 DEF RecordAudit, TypeOK, GoalOK
    <3> QED BY <2>12, <3>1, ConstantsOK DEF RecordAudit, Done, Forget, GoTo, Aim, TypeOK, GoalOK, PC, Goal, rowVars
  <2> QED BY <1>3, <2>1, <2>2, <2>3, <2>4, <2>5, <2>6, <2>7, <2>8, <2>9, <2>10, <2>11, <2>12 DEF Step
<1>4. ASSUME NEW p \in Process, Fails(p) PROVE TInv'
  BY <1>4, ConstantsOK DEF Fails, Done, Forget, GoTo, Aim, TypeOK, GoalOK, PC, Goal, rowVars, logVars
<1>5. CASE UNCHANGED vars
  BY <1>5 DEF vars, TypeOK, GoalOK
<1> QED BY <1>1, <1>2, <1>3, <1>4, <1>5 DEF AnyStep

(* Whoever runs at the same time and whatever fails, every variable keeps    *)
(* its type.                                                                 *)
THEOREM TypeCorrect == SpecF => []TypeOK
<1>1. TInv /\ [NextF]_vars => TInv'
  BY TypeStep, AnyNext
<1>2. TInv => TypeOK
  BY DEF TInv
<1> QED BY TypeInit, <1>1, <1>2, PTL DEF SpecF

-----------------------------------------------------------------------------
(* One operation at a time.                                                  *)

Challengers == WithStatus("CHALLENGER")

OneBusy == \A p, q \in Process : pc[p] # "idle" /\ pc[q] # "idle" => p = q

(* What an operation under way knows of the rows.                            *)
ProcOK(p) ==
  /\ pc[p] \in {"fit", "stage"} =>
       /\ Live \subseteq {champ[p]}
       /\ champ[p] # NoVersion => champ[p] \in Live
  /\ pc[p] = "stage" => sel[p] = Challengers
  /\ pc[p] = "retire" => sel[p] = Live
  /\ pc[p] \in {"promote", "persist", "disable"} => Live = {}
  /\ p \in Trainer /\ pc[p] \in {"select", "retire"} /\ goal[p] = "promote"
       => Live \subseteq {champ[p]}
  /\ pc[p] = "reject" =>
       /\ status[mine[p]] = "CHALLENGER"
       /\ champ[p] \in Live

SInv ==
  /\ TInv
  /\ OneBusy
  /\ AtMostOneLive
  /\ AtMostOneChallenger
  /\ \A p \in Process : ProcOK(p)

SerialStep ==
  \/ MatchCompletes
  \/ \E p \in Process : (Quiet /\ Start(p)) \/ Step(p) \/ Fails(p)

LEMMA SerialNext ==
  /\ NextSerial => SerialStep
  /\ NextSerialF => SerialStep
  /\ SerialStep => AnyStep
BY DEF NextSerial, NextSerialF, SerialStep, AnyStep

LEMMA SerialInit == Init => SInv
<1> SUFFICES ASSUME Init PROVE SInv
  OBVIOUS
<1>1. TInv
  BY TypeInit
<1> QED BY <1>1 DEF Init, SInv, OneBusy, AtMostOneLive, AtMostOneChallenger, ProcOK, Live, WithStatus, Challengers

(* Whoever is busy is the only one, and stays so.                            *)
LEMMA Alone ==
  ASSUME TypeOK, OneBusy, NEW p \in Process, pc[p] # "idle" \/ Quiet,
         NEW l, pc' = [pc EXCEPT ![p] = l]
  PROVE  /\ OneBusy'
         /\ pc'[p] = l
         /\ \A q \in Process : q # p => pc'[q] = "idle"
BY DEF TypeOK, OneBusy, Quiet

(* An idle process owes nothing.                                             *)
LEMMA IdleOK == ASSUME NEW p \in Process, pc'[p] = "idle" PROVE ProcOK(p)'
BY DEF ProcOK

(* A step that changes no row and leaves its process at l.                   *)
LEMMA RowsFrame ==
  ASSUME SInv, NEW p \in Process, pc[p] # "idle" \/ Quiet, UNCHANGED status,
         NEW l, pc' = [pc EXCEPT ![p] = l], ProcOK(p)', TInv'
  PROVE  SInv'
<1>1. OneBusy' /\ \A q \in Process : q # p => pc'[q] = "idle"
  BY Alone DEF SInv, TInv
<1>2. AtMostOneLive' /\ AtMostOneChallenger'
  BY DEF SInv, AtMostOneLive, AtMostOneChallenger, Live, WithStatus
<1>3. \A q \in Process : ProcOK(q)'
  BY <1>1, IdleOK
<1> QED BY <1>1, <1>2, <1>3 DEF SInv

LEMMA DoneGoesIdle ==
  ASSUME NEW p \in Process, Done(p), TypeOK
  PROVE  pc' = [pc EXCEPT ![p] = "idle"] /\ pc'[p] = "idle"
BY DEF Done, GoTo, TypeOK

LEMMA SerialInvStep == SInv /\ [SerialStep]_vars => SInv'
<1> SUFFICES ASSUME SInv, [SerialStep]_vars PROVE SInv'
  OBVIOUS
<1>0. TInv' /\ TInv /\ TypeOK
  BY TypeStep, SerialNext DEF SInv, TInv
<1>1. CASE MatchCompletes \/ UNCHANGED vars
  BY <1>0, <1>1 DEF MatchCompletes, vars, rowVars, logVars, procVars, SInv, OneBusy, AtMostOneLive,
       AtMostOneChallenger, ProcOK, Live, WithStatus, Challengers
<1>2. ASSUME NEW p \in Process, Quiet, Start(p) PROVE SInv'
  <2>1. CASE p \in Trainer /\ Begin(p)
    <3>1. \E l \in {"select", "champion"} : pc' = [pc EXCEPT ![p] = l] /\ pc'[p] = l
      BY <1>0, <2>1 DEF Begin, GoTo, TypeOK
    <3>2. goal'[p] # "promote" /\ UNCHANGED status
      BY <1>0, <2>1 DEF Begin, Aim, TypeOK, rowVars
    <3>3. ProcOK(p)'
      BY <3>1, <3>2 DEF ProcOK
    <3> QED BY <1>0, <1>2, <3>1, <3>2, <3>3, RowsFrame
  <2>2. CASE p \in Admin /\ \E v \in Version : Rollback(p, v)
    <3>1. pc' = [pc EXCEPT ![p] = "select"] /\ pc'[p] = "select" /\ UNCHANGED status
      BY <1>0, <2>2 DEF Rollback, GoTo, TypeOK, rowVars
    <3>2. p \notin Trainer
      BY <2>2, ProcessAssumption
    <3>3. ProcOK(p)'
      BY <3>1, <3>2 DEF ProcOK
    <3> QED BY <1>0, <1>2, <3>1, <3>3, RowsFrame
  <2> QED BY <1>2, <2>1, <2>2 DEF Start
<1>3. ASSUME NEW p \in Process, Step(p) PROVE SInv'
  <2>0. pc[p] # "idle"
    BY <1>3 DEF Step, ReadChampion, FitFails, StageSelect, Stage, SelectLive, Retire, Promote,
         Reject, Persist, Disable, LogDecision, RecordAudit
  <2>1. CASE ReadChampion(p)
    <3>1. pc' = [pc EXCEPT ![p] = "fit"] /\ pc'[p] = "fit" /\ UNCHANGED status /\ UNCHANGED goal
      BY <1>0, <2>1 DEF ReadChampion, GoTo, TypeOK, rowVars
    <3>2. PICK c \in Champions : champ' = [champ EXCEPT ![p] = c]
      BY <2>1 DEF ReadChampion
    <3>3. champ'[p] = c /\ Live' = Live
      BY <1>0, <3>1, <3>2 DEF TypeOK, Live, WithStatus
    <3>4. Live \subseteq {c} /\ (c # NoVersion => c \in Live)
      BY <3>2 DEF SInv, AtMostOneLive, Champions
    <3>5. ProcOK(p)'
      BY <3>1, <3>3, <3>4 DEF ProcOK
    <3> QED BY <1>0, <2>0, <3>1, <3>5, RowsFrame
  <2>2. CASE FitFails(p)
    <3>1. /\ pc' = [pc EXCEPT ![p] = "select"] /\ pc'[p] = "select" /\ UNCHANGED status
          /\ goal'[p] = "disable"
      BY <1>0, <2>2 DEF FitFails, GoTo, Aim, TypeOK, rowVars
    <3>2. ProcOK(p)'
      BY <3>1 DEF ProcOK
    <3> QED BY <1>0, <2>0, <3>1, <3>2, RowsFrame
  <2>3. CASE StageSelect(p)
    <3>1. /\ pc' = [pc EXCEPT ![p] = "stage"] /\ pc'[p] = "stage"
          /\ UNCHANGED <<status, champ>> /\ sel'[p] = Challengers
      BY <1>0, <2>3 DEF StageSelect, GoTo, TypeOK, rowVars, Challengers
    <3>2. ProcOK(p)'
      BY <2>3, <3>1 DEF ProcOK, SInv, Live, WithStatus, Challengers, StageSelect
    <3> QED BY <1>0, <2>0, <3>1, <3>2, RowsFrame
  <2>4. CASE Stage(p)
    <3>1. PICK v \in Version :
            /\ IsFresh(v)
            /\ status' = [u \in Version |->
                 IF u = v THEN "CHALLENGER" ELSE IF u \in sel[p] THEN "RETIRED" ELSE status[u]]
            /\ mine' = [mine EXCEPT ![p] = v]
      BY <2>4 DEF Stage
    <3>2. PICK verdict \in Verdicts(champ[p], seen[p]) : Follow(p, verdict)
      BY <2>4 DEF Stage
    <3>3. sel[p] = Challengers /\ Live \subseteq {champ[p]} /\ (champ[p] # NoVersion => champ[p] \in Live)
      BY <2>4 DEF Stage, SInv, ProcOK
    <3>4. Live' = Live
      BY <1>0, <3>1, <3>3 DEF Live, WithStatus, Challengers, IsFresh, TypeOK
    <3>5. Challengers' = {v}
      BY <1>0, <3>1, <3>3 DEF WithStatus, Challengers, TypeOK
    <3>6. mine'[p] = v /\ status'[v] = "CHALLENGER" /\ UNCHANGED champ
      BY <1>0, <2>4, <3>1 DEF TypeOK, Stage
    <3>7. \/ /\ pc' = [pc EXCEPT ![p] = "select"] /\ pc'[p] = "select" /\ goal'[p] = "promote"
          \/ /\ pc' = [pc EXCEPT ![p] = "reject"] /\ pc'[p] = "reject" /\ champ[p] # NoVersion
      BY <1>0, <3>2 DEF Follow, GoTo, Aim, TypeOK, Verdicts
    <3>8. ProcOK(p)'
      BY <3>3, <3>4, <3>6, <3>7 DEF ProcOK
    <3>9. OneBusy' /\ \A q \in Process : q # p => pc'[q] = "idle"
      BY <1>0, <2>0, <3>7, Alone DEF SInv
    <3>10. AtMostOneLive' /\ AtMostOneChallenger'
      BY <3>4, <3>5 DEF SInv, AtMostOneLive, AtMostOneChallenger, Challengers
    <3> QED BY <1>0, <3>8, <3>9, <3>10, IdleOK DEF SInv
  <2>5. CASE SelectLive(p)
    <3>1. UNCHANGED <<status, goal, champ>> /\ Live' = Live /\ sel'[p] = Live
      BY <1>0, <2>5 DEF SelectLive, TypeOK, rowVars, Live, WithStatus
    <3>2. goal[p] \in {"promote", "persist", "disable"}
      BY <1>0, <2>5 DEF SelectLive, TInv, GoalOK
    <3>3. CASE Live = {}
      <4>1. pc' = [pc EXCEPT ![p] = goal[p]] /\ pc'[p] = goal[p]
        BY <1>0, <2>5, <3>3 DEF SelectLive, GoTo, TypeOK
      <4>2. ProcOK(p)'
        BY <3>1, <3>2, <3>3, <4>1 DEF ProcOK
      <4> QED BY <1>0, <2>0, <3>1, <4>1, <4>2, RowsFrame
    <3>4. CASE Live # {}
      <4>1. pc' = [pc EXCEPT ![p] = "retire"] /\ pc'[p] = "retire"
        BY <1>0, <2>5, <3>4 DEF SelectLive, GoTo, TypeOK
      <4>2. ProcOK(p)'
        BY <2>5, <3>1, <4>1 DEF ProcOK, SInv, SelectLive
      <4> QED BY <1>0, <2>0, <3>1, <4>1, <4>2, RowsFrame
    <3> QED BY <3>3, <3>4
  <2>6. CASE Retire(p)
    <3>1. pc' = [pc EXCEPT ![p] = goal[p]] /\ pc'[p] = goal[p] /\ sel[p] = Live
      BY <1>0, <2>6 DEF Retire, GoTo, TypeOK, SInv, ProcOK
    <3>2. goal[p] \in {"promote", "persist", "disable"}
      BY <1>0, <2>6 DEF Retire, TInv, GoalOK
    <3>3. Live' = {} /\ Challengers' = Challengers
      BY <1>0, <2>6, <3>1 DEF Retire, Live, WithStatus, Challengers, TypeOK
    <3>4. ProcOK(p)'
      BY <3>1, <3>2, <3>3 DEF ProcOK
    <3>5. OneBusy' /\ \A q \in Process : q # p => pc'[q] = "idle"
      BY <1>0, <2>0, <3>1, Alone DEF SInv
    <3>6. AtMostOneLive' /\ AtMostOneChallenger'
      BY <3>3 DEF SInv, AtMostOneLive, AtMostOneChallenger, Challengers
    <3> QED BY <1>0, <3>4, <3>5, <3>6, IdleOK DEF SInv
  <2>7. CASE Promote(p)
    <3>1. pc' = [pc EXCEPT ![p] = "log"] /\ pc'[p] = "log" /\ Live = {} /\ mine[p] \in Version
      BY <1>0, <2>7 DEF Promote, GoTo, TypeOK, SInv, ProcOK, TInv, GoalOK
    <3>2. Live' = {mine[p]} /\ Challengers' \subseteq Challengers
      BY <1>0, <2>7, <3>1 DEF Promote, Live, WithStatus, Challengers, TypeOK
    <3>3. ProcOK(p)'
      BY <3>1 DEF ProcOK
    <3>4. OneBusy' /\ \A q \in Process : q # p => pc'[q] = "idle"
      BY <1>0, <2>0, <3>1, Alone DEF SInv
    <3>5. AtMostOneLive' /\ AtMostOneChallenger'
      BY <3>2 DEF SInv, AtMostOneLive, AtMostOneChallenger, Challengers
    <3> QED BY <1>0, <3>3, <3>4, <3>5, IdleOK DEF SInv
  <2>8. CASE Reject(p)
    <3>1. /\ pc' = [pc EXCEPT ![p] = "log"] /\ pc'[p] = "log"
          /\ mine[p] \in Version /\ status[mine[p]] = "CHALLENGER"
      BY <1>0, <2>8 DEF Reject, GoTo, TypeOK, SInv, ProcOK, TInv, GoalOK
    <3>2. Live' = Live /\ Challengers' \subseteq Challengers
      BY <1>0, <2>8, <3>1 DEF Reject, Live, WithStatus, Challengers, TypeOK
    <3>3. ProcOK(p)'
      BY <3>1 DEF ProcOK
    <3>4. OneBusy' /\ \A q \in Process : q # p => pc'[q] = "idle"
      BY <1>0, <2>0, <3>1, Alone DEF SInv
    <3>5. AtMostOneLive' /\ AtMostOneChallenger'
      BY <3>2 DEF SInv, AtMostOneLive, AtMostOneChallenger, Challengers
    <3> QED BY <1>0, <3>3, <3>4, <3>5, IdleOK DEF SInv
  <2>9. CASE Persist(p)
    <3>1. PICK v \in Version : status' = [status EXCEPT ![v] = "ENABLED"]
      BY <2>9 DEF Persist
    <3>2. pc' = [pc EXCEPT ![p] = "idle"] /\ pc'[p] = "idle" /\ Live = {}
      BY <1>0, <2>9, DoneGoesIdle DEF Persist, SInv, ProcOK
    <3>3. Live' = {v} /\ Challengers' \subseteq Challengers
      BY <1>0, <3>1, <3>2 DEF Live, WithStatus, Challengers, TypeOK
    <3>4. OneBusy' /\ \A q \in Process : q # p => pc'[q] = "idle"
      BY <1>0, <2>0, <3>2, Alone DEF SInv
    <3>5. AtMostOneLive' /\ AtMostOneChallenger'
      BY <3>3 DEF SInv, AtMostOneLive, AtMostOneChallenger, Challengers
    <3> QED BY <1>0, <3>2, <3>4, <3>5, IdleOK DEF SInv
  <2>10. CASE Disable(p)
    <3>1. pc' = [pc EXCEPT ![p] = "idle"] /\ pc'[p] = "idle"
      BY <1>0, <2>10, DoneGoesIdle DEF Disable
    <3>2. Live' = Live /\ Challengers' = Challengers
      <4>1. CASE WithStatus("DISABLED") # {}
        BY <2>10, <4>1 DEF Disable, Live, WithStatus, Challengers
      <4>2. CASE WithStatus("DISABLED") = {}
        BY <1>0, <2>10, <4>2 DEF Disable, IsFresh, Live, WithStatus, Challengers, TypeOK
      <4> QED BY <4>1, <4>2
    <3>3. OneBusy' /\ \A q \in Process : q # p => pc'[q] = "idle"
      BY <1>0, <2>0, <3>1, Alone DEF SInv
    <3>4. AtMostOneLive' /\ AtMostOneChallenger'
      BY <3>2 DEF SInv, AtMostOneLive, AtMostOneChallenger, Challengers
    <3> QED BY <1>0, <3>1, <3>3, <3>4, IdleOK DEF SInv
  <2>11. CASE LogDecision(p) \/ RecordAudit(p)
    <3>1. pc' = [pc EXCEPT ![p] = "idle"] /\ pc'[p] = "idle" /\ UNCHANGED status
      BY <1>0, <2>11, DoneGoesIdle DEF LogDecision, RecordAudit, rowVars
    <3> QED BY <1>0, <2>0, <3>1, IdleOK, RowsFrame
  <2> QED BY <1>3, <2>1, <2>2, <2>3, <2>4, <2>5, <2>6, <2>7, <2>8, <2>9, <2>10, <2>11 DEF Step
<1>4. ASSUME NEW p \in Process, Fails(p) PROVE SInv'
  <2>1. pc[p] # "idle" /\ pc' = [pc EXCEPT ![p] = "idle"] /\ pc'[p] = "idle" /\ UNCHANGED status
    BY <1>0, <1>4, DoneGoesIdle DEF Fails, rowVars
  <2> QED BY <1>0, <2>1, IdleOK, RowsFrame
<1> QED BY <1>1, <1>2, <1>3, <1>4 DEF SerialStep

LEMMA SerialInvF == SpecSerialF => []SInv
<1>1. SInv /\ [NextSerialF]_vars => SInv'
  BY SerialInvStep, SerialNext
<1> QED BY SerialInit, <1>1, PTL DEF SpecSerialF

(* One operation at a time, whichever commit it dies after: a slot never has *)
(* two live versions.                                                        *)
THEOREM OneLive == SpecSerialF => []AtMostOneLive
<1>1. SInv => AtMostOneLive
  BY DEF SInv
<1> QED BY SerialInvF, <1>1, PTL

(* ... and the challengers that dead cycles left behind do not pile up.      *)
THEOREM OneChallenger == SpecSerialF => []AtMostOneChallenger
<1>1. SInv => AtMostOneChallenger
  BY DEF SInv
<1> QED BY SerialInvF, <1>1, PTL

(* Where pc leads, for the two action properties below.                      *)
LEMMA OnlyRetirePromotes ==
  ASSUME TypeOK, NEW t \in Process, NEW p \in Process, Step(p),
         pc[t] = "retire", pc'[t] = "promote"
  PROVE  t = p /\ Retire(t)
<1>1. t = p
  BY DEF Step, ReadChampion, FitFails, StageSelect, Stage, SelectLive, Retire, Promote, Reject,
       Persist, Disable, LogDecision, RecordAudit, Done, Follow, GoTo, TypeOK
<1>2. Retire(p)
  BY <1>1 DEF Step, ReadChampion, FitFails, StageSelect, Stage, SelectLive, Promote, Reject,
       Persist, Disable, LogDecision, RecordAudit
<1> QED BY <1>1, <1>2

LEMMA OnlyRejectRejects ==
  ASSUME TypeOK, NEW t \in Process, NEW p \in Process, Step(p),
         pc[t] = "reject", pc'[t] = "log"
  PROVE  t = p /\ Reject(t)
<1>1. t = p
  BY DEF Step, ReadChampion, FitFails, StageSelect, Stage, SelectLive, Retire, Promote, Reject,
       Persist, Disable, LogDecision, RecordAudit, Done, Follow, GoTo, TypeOK
<1>2. Reject(p)
  BY <1>1 DEF Step, ReadChampion, FitFails, StageSelect, Stage, SelectLive, Retire, Promote,
       Persist, Disable, LogDecision, RecordAudit
<1> QED BY <1>1, <1>2

(* The other steps move pc[t] nowhere, to the first label or to "idle".      *)
LEMMA OtherMoves ==
  ASSUME TypeOK, NEW t \in Process, [SerialStep]_vars,
         ~ \E p \in Process : Step(p), pc'[t] # pc[t]
  PROVE  pc'[t] \in {"idle", "select", "champion"}
BY DEF SerialStep, MatchCompletes, Start, Begin, Rollback, Fails, Done, GoTo, TypeOK, vars,
     procVars

(* The live version the gate retires is the one whose evidence it weighed.   *)
THEOREM GateIsFair == SpecSerialF => GateReplacesWhatItCompared
<1> DEFINE Yields ==
      \A v \in Version : status[v] = "ENABLED" /\ status'[v] = "RETIRED" =>
        \A t \in Trainer : pc[t] = "retire" /\ pc'[t] = "promote" => champ[t] = v
<1>1. ASSUME SInv, [NextSerialF]_vars PROVE Yields
  <2> SUFFICES ASSUME NEW v \in Version, status[v] = "ENABLED", status'[v] = "RETIRED",
                      NEW t \in Trainer, pc[t] = "retire", pc'[t] = "promote"
               PROVE  champ[t] = v
    OBVIOUS
  <2>0. TypeOK /\ t \in Process
    BY <1>1 DEF SInv, TInv, Process
  <2>1. PICK p \in Process : Step(p)
    BY <1>1, <2>0, OtherMoves, SerialNext
  <2>2. Retire(t)
    BY <2>0, <2>1, OnlyRetirePromotes
  <2>3. goal[t] = "promote"
    BY <2>0, <2>2 DEF Retire, GoTo, TypeOK
  <2>4. Live \subseteq {champ[t]}
    BY <1>1, <2>0, <2>3 DEF SInv, ProcOK
  <2> QED BY <2>4 DEF Live, WithStatus
<1>2. SInv /\ [NextSerialF]_vars => [Yields]_vars
  BY <1>1
<1> QED BY SerialInvF, <1>2, PTL DEF SpecSerialF, GateReplacesWhatItCompared

(* Turning a challenger down leaves what is live alone.                      *)
THEOREM RejectionIsHarmless == SpecSerialF => RejectionKeepsTheLive
<1> DEFINE Keeps == \A t \in Trainer : pc[t] = "reject" /\ pc'[t] = "log" => Live' = Live
<1>1. ASSUME SInv, [NextSerialF]_vars PROVE Keeps
  <2> SUFFICES ASSUME NEW t \in Trainer, pc[t] = "reject", pc'[t] = "log" PROVE Live' = Live
    OBVIOUS
  <2>0. TypeOK /\ t \in Process
    BY <1>1 DEF SInv, TInv, Process
  <2>1. PICK p \in Process : Step(p)
    BY <1>1, <2>0, OtherMoves, SerialNext
  <2>2. Reject(t)
    BY <2>0, <2>1, OnlyRejectRejects
  <2>3. status[mine[t]] = "CHALLENGER" /\ mine[t] \in Version
    BY <1>1, <2>0, <2>2 DEF SInv, ProcOK, TInv, GoalOK, Reject
  <2> QED BY <2>0, <2>2, <2>3 DEF Reject, Live, WithStatus, TypeOK
<1>2. SInv /\ [NextSerialF]_vars => [Keeps]_vars
  BY <1>1
<1> QED BY SerialInvF, <1>2, PTL DEF SpecSerialF, RejectionKeepsTheLive

-----------------------------------------------------------------------------
(* Without failures a trained slot does not go dark.                         *)

(* Between the two commits of an exchange.                                   *)
Exchanging(p) == pc[p] \in {"select", "retire", "promote", "persist", "disable"}

LitInv ==
  (\E v \in Version : Fitted(v)) =>
    \/ Live # {}
    \/ WithStatus("DISABLED") # {}
    \/ \E p \in Process : Exchanging(p)

LEMMA LitFrame ==
  ASSUME LitInv, UNCHANGED <<status, cutoff>>,
         \A p \in Process : Exchanging(p) => Exchanging(p)' \/ Live' # {} \/ WithStatus("DISABLED")' # {}
  PROVE  LitInv'
BY DEF LitInv, Live, WithStatus, Fitted

LEMMA LitStep == SInv /\ LitInv /\ [NextSerial]_vars => LitInv'
<1> SUFFICES ASSUME SInv, LitInv, [NextSerial]_vars PROVE LitInv'
  OBVIOUS
<1>0. TypeOK /\ TInv
  BY DEF SInv, TInv
<1>1. CASE MatchCompletes \/ UNCHANGED vars
  BY <1>1 DEF MatchCompletes, vars, rowVars, logVars, procVars, LitInv, Live, WithStatus, Fitted, Exchanging
<1>2. ASSUME NEW p \in Process, Quiet, Start(p) PROVE LitInv'
  <2>1. UNCHANGED <<status, cutoff>>
    BY <1>2 DEF Start, Begin, Rollback, rowVars
  <2>2. \A q \in Process : ~Exchanging(q)
    BY <1>2 DEF Quiet, Exchanging
  <2> QED BY <2>1, <2>2, LitFrame
<1>3. ASSUME NEW p \in Process, Step(p) PROVE LitInv'
  <2>1. CASE ReadChampion(p) \/ FitFails(p) \/ StageSelect(p) \/ LogDecision(p) \/ RecordAudit(p)
    <3>1. UNCHANGED <<status, cutoff>>
      BY <2>1 DEF ReadChampion, FitFails, StageSelect, LogDecision, RecordAudit, rowVars
    <3>2. pc[p] # "idle" /\ ~Exchanging(p)
      BY <2>1 DEF ReadChampion, FitFails, StageSelect, LogDecision, RecordAudit, Exchanging
    <3>3. \A q \in Process : ~Exchanging(q)
      BY <3>2 DEF SInv, OneBusy, Exchanging
    <3> QED BY <3>1, <3>3, LitFrame
  <2>2. CASE Stage(p)
    <3>1. PICK verdict \in Verdicts(champ[p], seen[p]) : Follow(p, verdict)
      BY <2>2 DEF Stage
    <3>2. PICK v \in Version :
            /\ IsFresh(v)
            /\ status' = [u \in Version |->
                 IF u = v THEN "CHALLENGER" ELSE IF u \in sel[p] THEN "RETIRED" ELSE status[u]]
      BY <2>2 DEF Stage
    <3>3. CASE pc'[p] = "select"
      BY <3>3 DEF LitInv, Exchanging
    <3>4. CASE champ[p] # NoVersion
      <4>1. champ[p] \in Live /\ sel[p] = Challengers
        BY <2>2, <3>4 DEF Stage, SInv, ProcOK
      <4>2. Live' # {}
        BY <1>0, <3>2, <4>1 DEF Live, WithStatus, Challengers, IsFresh, TypeOK
      <4> QED BY <4>2 DEF LitInv
    <3> QED BY <1>0, <3>1, <3>3, <3>4 DEF Follow, GoTo, Verdicts, TypeOK
  <2>3. CASE SelectLive(p) \/ Retire(p)
    <3>1. goal[p] \in {"promote", "persist", "disable"}
      BY <1>0, <2>3 DEF SelectLive, Retire, TInv, GoalOK
    <3>2. pc'[p] \in {"retire", "promote", "persist", "disable"}
      BY <1>0, <2>3, <3>1 DEF SelectLive, Retire, GoTo, TypeOK
    <3> QED BY <3>2 DEF LitInv, Exchanging
  <2>4. CASE Promote(p)
    <3>1. mine[p] \in Version
      BY <1>0, <2>4 DEF Promote, TInv, GoalOK
    <3>2. mine[p] \in Live'
      BY <1>0, <2>4, <3>1 DEF Promote, Live, WithStatus, TypeOK
    <3> QED BY <3>2 DEF LitInv
  <2>5. CASE Reject(p)
    <3>1. champ[p] \in Live /\ status[mine[p]] = "CHALLENGER"
      BY <2>5 DEF Reject, SInv, ProcOK
    <3>2. champ[p] \in Live'
      BY <1>0, <2>5, <3>1 DEF Reject, Live, WithStatus, TypeOK
    <3> QED BY <3>2 DEF LitInv
  <2>6. CASE Persist(p)
    <3>1. PICK v \in Version : status' = [status EXCEPT ![v] = "ENABLED"]
      BY <2>6 DEF Persist
    <3>2. v \in Live'
      BY <1>0, <3>1 DEF Live, WithStatus, TypeOK
    <3> QED BY <3>2 DEF LitInv
  <2>7. CASE Disable(p)
    <3>1. WithStatus("DISABLED")' # {}
      <4>1. CASE WithStatus("DISABLED") # {}
        BY <2>7, <4>1 DEF Disable, WithStatus
      <4>2. CASE WithStatus("DISABLED") = {}
        BY <1>0, <2>7, <4>2 DEF Disable, WithStatus, TypeOK
      <4> QED BY <4>1, <4>2
    <3> QED BY <3>1 DEF LitInv
  <2> QED BY <1>3, <2>1, <2>2, <2>3, <2>4, <2>5, <2>6, <2>7 DEF Step
<1> QED BY <1>1, <1>2, <1>3 DEF NextSerial

(* A slot that has a fit is served, or says why it is not, whenever no       *)
(* operation is under way.                                                   *)
THEOREM StaysLit == SpecSerial => []NeverDark
<1>1. Init => LitInv
  BY DEF Init, LitInv, Fitted
<1>2. SInv /\ [NextSerial]_vars => SInv'
  BY SerialInvStep, SerialNext
<1>3. LitInv => NeverDark
  BY DEF LitInv, NeverDark, Exchanging, Quiet
<1> QED BY SerialInit, <1>1, <1>2, <1>3, LitStep, PTL DEF SpecSerial

-----------------------------------------------------------------------------
(* Everybody at once, without failures: a loser returns by audit only.       *)

Inserted(v) == status[v] # "NONE"

LoserInv ==
  /\ \A v \in Version : ~Inserted(v) => reason[v] = "none"
  /\ \A p \in Process : \A v \in sel[p] : Inserted(v)
  /\ \A t \in Trainer : mine[t] \in Version =>
       /\ Inserted(mine[t])
       /\ goal[t] = "promote" => reason[mine[t]] # "rejected"
       /\ \A u \in Trainer : mine[u] = mine[t] => u = t
  /\ LosersReturnAudited

(* An administrator only ever promotes.                                      *)
AdminOK ==
  \A a \in Admin :
    /\ pc[a] \in {"idle", "select", "retire", "promote", "log"}
    /\ pc[a] # "idle" => goal[a] = "promote"

LEMMA AdminStep == TInv /\ AdminOK /\ [Next]_vars => AdminOK'
<1> SUFFICES ASSUME TInv, AdminOK, [Next]_vars, NEW a \in Admin
             PROVE  /\ pc'[a] \in {"idle", "select", "retire", "promote", "log"}
                    /\ pc'[a] # "idle" => goal'[a] = "promote"
  BY DEF AdminOK
<1>0. a \in Process /\ a \notin Trainer /\ TypeOK
  BY ProcessAssumption DEF Process, TInv
<1>1. CASE MatchCompletes \/ UNCHANGED vars
  BY <1>1 DEF MatchCompletes, vars, procVars, AdminOK
<1>2. ASSUME NEW p \in Process, Start(p) PROVE /\ pc'[a] \in {"idle", "select", "retire", "promote", "log"}
                                               /\ pc'[a] # "idle" => goal'[a] = "promote"
  BY <1>0, <1>2 DEF Start, Begin, Rollback, GoTo, Aim, TypeOK, AdminOK
<1>3. ASSUME NEW p \in Process, Step(p) PROVE /\ pc'[a] \in {"idle", "select", "retire", "promote", "log"}
                                              /\ pc'[a] # "idle" => goal'[a] = "promote"
  BY <1>0, <1>3 DEF Step, ReadChampion, FitFails, StageSelect, Stage, SelectLive, Retire, Promote,
       Reject, Persist, Disable, LogDecision, RecordAudit, Done, Follow, GoTo, Aim, TypeOK, AdminOK
<1> QED BY <1>1, <1>2, <1>3 DEF Next

(* What a process leaves behind.                                             *)
LEMMA DoneLeaves ==
  ASSUME TypeOK, NEW p \in Process, Done(p)
  PROVE  /\ mine'[p] = NoVersion
         /\ sel'[p] = {}
         /\ pc'[p] = "idle"
         /\ \A q \in Process : q # p =>
              mine'[q] = mine[q] /\ sel'[q] = sel[q] /\ goal'[q] = goal[q] /\ pc'[q] = pc[q]
BY DEF Done, Forget, GoTo, Aim, TypeOK

LEMMA LoserStep == TInv /\ AdminOK /\ LoserInv /\ [Next]_vars => LoserInv'
<1> SUFFICES ASSUME TInv, AdminOK, LoserInv, [Next]_vars PROVE LoserInv'
  OBVIOUS
<1>0. TypeOK /\ \A p \in Process : (p \in Trainer) = (p \notin Admin)
  BY ProcessAssumption DEF TInv, Process
<1>00. Trainer \subseteq Process /\ Admin \subseteq Process /\ NoVersion \notin Version
  BY ConstantsOK DEF Process
<1>1. CASE MatchCompletes \/ UNCHANGED vars
  BY <1>1 DEF MatchCompletes, vars, rowVars, logVars, procVars, LoserInv, Inserted, LosersReturnAudited
<1>2. ASSUME NEW p \in Process, Start(p) PROVE LoserInv'
  <2>1. CASE p \in Trainer /\ Begin(p)
    <3>1. goal'[p] # "promote" /\ \A q \in Process : q # p => goal'[q] = goal[q]
      BY <1>0, <2>1 DEF Begin, Aim, TypeOK
    <3>2. UNCHANGED <<status, reason, mine, sel, audited>>
      BY <2>1 DEF Begin, rowVars, logVars
    <3>3. \A a \in Admin : pc'[a] = pc[a]
      BY <1>0, <1>00, <2>1 DEF Begin, GoTo, TypeOK
    <3> QED BY <1>0, <1>00, <3>1, <3>2, <3>3 DEF LoserInv, Inserted, LosersReturnAudited
  <2>2. CASE p \in Admin /\ \E v \in Version : Rollback(p, v)
    <3>1. \A t \in Trainer : mine'[t] = mine[t] /\ goal'[t] = goal[t]
      BY <1>0, <1>00, <2>2 DEF Rollback, Aim, TypeOK
    <3>2. UNCHANGED <<status, reason, sel, audited>>
      BY <2>2 DEF Rollback, rowVars, logVars
    <3>3. pc[p] = "idle" /\ \A a \in Admin : a # p => pc'[a] = pc[a] /\ mine'[a] = mine[a]
      BY <1>0, <1>00, <2>2 DEF Rollback, GoTo, TypeOK
    <3> QED BY <3>1, <3>2, <3>3 DEF LoserInv, Inserted, LosersReturnAudited
  <2> QED BY <1>2, <2>1, <2>2 DEF Start
<1>3. ASSUME NEW p \in Process, Step(p) PROVE LoserInv'
  <2>1. CASE ReadChampion(p) \/ FitFails(p) \/ StageSelect(p) \/ SelectLive(p)
    <3>1. UNCHANGED <<status, reason, mine, audited>> /\ pc[p] # "log"
      BY <2>1 DEF ReadChampion, FitFails, StageSelect, SelectLive, rowVars, logVars
    <3>2. \A q \in Process : goal'[q] = "promote" => goal[q] = "promote"
      BY <1>0, <2>1 DEF ReadChampion, FitFails, StageSelect, SelectLive, Aim, TypeOK
    <3>3. \A a \in Admin : pc[a] = "log" => pc'[a] = "log"
      BY <1>0, <1>00, <2>1 DEF ReadChampion, FitFails, StageSelect, SelectLive, GoTo, TypeOK
    <3>4. \A q \in Process : \A v \in sel'[q] : Inserted(v)
      BY <1>0, <2>1 DEF ReadChampion, FitFails, StageSelect, SelectLive, TypeOK, LoserInv,
           WithStatus, Live, Inserted
    <3> QED BY <1>00, <3>1, <3>2, <3>3, <3>4 DEF LoserInv, Inserted, LosersReturnAudited
  <2>2. CASE Stage(p)
    <3>1. PICK v \in Version :
            /\ IsFresh(v)
            /\ status' = [u \in Version |->
                 IF u = v THEN "CHALLENGER" ELSE IF u \in sel[p] THEN "RETIRED" ELSE status[u]]
            /\ mine' = [mine EXCEPT ![p] = v]
      BY <2>2 DEF Stage
    <3>2. reason' = [u \in Version |-> IF u \in sel[p] THEN "superseded" ELSE reason[u]]
      BY <2>2 DEF Stage
    <3>3. UNCHANGED audited /\ \A q \in Process : sel'[q] \subseteq sel[q]
      BY <1>0, <2>2 DEF Stage, Forget, TypeOK, logVars
    <3>4. \A q \in Process : q # p => pc'[q] = pc[q] /\ goal'[q] = goal[q] /\ mine'[q] = mine[q]
      BY <1>0, <2>2, <3>1 DEF Stage, Follow, GoTo, Aim, TypeOK
    <3>5. mine'[p] = v /\ pc[p] = "stage" /\ v \notin sel[p] /\ ~Inserted(v) /\ reason[v] = "none"
      BY <1>0, <2>2, <3>1 DEF Stage, IsFresh, TypeOK, LoserInv, Inserted
    <3>6. \A u \in Version : (Inserted(u) => Inserted(u)') /\ Inserted(v)'
      BY <3>1 DEF Inserted
    <3>7. \A u \in Version : reason'[u] = "rejected" => reason[u] = "rejected"
      BY <3>2
    <3>8. (\A u \in Version : ~Inserted(u) => reason[u] = "none")'
      BY <1>0, <3>2, <3>6 DEF LoserInv, Inserted, TypeOK
    <3>9. (\A q \in Process : \A u \in sel[q] : Inserted(u))'
      BY <1>0, <3>3, <3>6 DEF LoserInv, TypeOK
    <3>10. (\A t \in Trainer : mine[t] \in Version =>
              /\ Inserted(mine[t])
              /\ goal[t] = "promote" => reason[mine[t]] # "rejected"
              /\ \A u \in Trainer : mine[u] = mine[t] => u = t)'
      <4> SUFFICES ASSUME NEW t \in Trainer, mine'[t] \in Version
                   PROVE  /\ Inserted(mine[t])'
                          /\ goal'[t] = "promote" => reason'[mine'[t]] # "rejected"
                          /\ \A u \in Trainer : mine'[u] = mine'[t] => u = t
        OBVIOUS
      <4>1. CASE t = p
        BY <1>00, <3>2, <3>4, <3>5, <3>6, <4>1 DEF LoserInv, Inserted
      <4>2. CASE t # p
        BY <1>00, <3>4, <3>5, <3>6, <3>7, <4>2 DEF LoserInv, Inserted
      <4> QED BY <4>1, <4>2
    <3>11. LosersReturnAudited'
      BY <1>00, <3>1, <3>3, <3>4, <3>5, <3>7 DEF LoserInv, LosersReturnAudited
    <3> QED BY <3>8, <3>9, <3>10, <3>11 DEF LoserInv
  <2>3. CASE Retire(p)
    <3>1. /\ UNCHANGED <<reason, mine, goal, audited>>
          /\ status' = [v \in Version |-> IF v \in sel[p] THEN "RETIRED" ELSE status[v]]
          /\ \A q \in Process : sel'[q] \subseteq sel[q]
      BY <1>0, <2>3 DEF Retire, Forget, logVars, TypeOK
    <3>2. \A q \in Process : pc[q] = "log" => pc'[q] = "log"
      BY <1>0, <2>3 DEF Retire, GoTo, TypeOK
    <3>3. \A v \in Version : Inserted(v)' = Inserted(v)
      BY <1>0, <3>1 DEF Inserted, LoserInv
    <3>4. (\A v \in Version : ~Inserted(v) => reason[v] = "none")'
      BY <3>1, <3>3 DEF LoserInv
    <3>5. (\A q \in Process : \A v \in sel[q] : Inserted(v))'
      BY <1>0, <3>1, <3>3 DEF LoserInv, TypeOK
    <3>6. LosersReturnAudited'
      BY <1>00, <3>1, <3>2 DEF LoserInv, LosersReturnAudited
    <3> QED BY <3>1, <3>3, <3>4, <3>5, <3>6 DEF LoserInv
  <2>4. CASE Promote(p)
    <3>1. UNCHANGED <<reason, mine, goal, audited, sel>> /\ status' = [status EXCEPT ![mine[p]] = "ENABLED"]
      BY <2>4 DEF Promote, logVars
    <3>2. mine[p] \in Version /\ goal[p] = "promote"
      BY <2>4 DEF Promote, TInv, GoalOK
    <3>3. pc'[p] = "log" /\ \A q \in Process : q # p => pc'[q] = pc[q]
      BY <1>0, <2>4 DEF Promote, GoTo, TypeOK
    <3>4. \A v \in Version : Inserted(v) => Inserted(v)'
      BY <1>0, <3>1, <3>2 DEF Inserted, TypeOK
    <3>5. (\A v \in Version : ~Inserted(v) => reason[v] = "none")'
      BY <3>1, <3>4 DEF LoserInv
    <3>6. (\A q \in Process : \A v \in sel[q] : Inserted(v))'
      BY <1>0, <3>1, <3>4 DEF LoserInv, TypeOK
    <3>7. p \in Trainer => reason[mine[p]] # "rejected"
      BY <3>2 DEF LoserInv
    <3>8. LosersReturnAudited'
      <4> SUFFICES ASSUME NEW v \in Version, status'[v] = "ENABLED", reason'[v] = "rejected"
                   PROVE  v \in audited' \/ \E a \in Admin : pc'[a] = "log" /\ mine'[a] = v
        BY DEF LosersReturnAudited
      <4>1. CASE v = mine[p]
        BY <1>0, <3>1, <3>3, <3>7, <4>1
      <4>2. CASE v # mine[p]
        <5>1. status[v] = "ENABLED" /\ reason[v] = "rejected"
          BY <1>0, <3>1, <4>2 DEF TypeOK
        <5>2. pc[p] # "log"
          BY <2>4 DEF Promote
        <5> QED BY <1>00, <3>1, <3>3, <5>1, <5>2 DEF LoserInv, LosersReturnAudited
      <4> QED BY <4>1, <4>2
    <3> QED BY <3>1, <3>4, <3>5, <3>6, <3>8 DEF LoserInv
  <2>5. CASE Reject(p)
    <3>1. mine[p] \in Version /\ p \in Trainer /\ goal[p] # "promote"
      BY <1>0, <1>00, <2>5 DEF Reject, TInv, GoalOK, AdminOK
    <3>2. /\ UNCHANGED <<mine, goal, audited, sel>>
          /\ status' = [status EXCEPT ![mine[p]] = "RETIRED"]
          /\ reason' = [reason EXCEPT ![mine[p]] = "rejected"]
      BY <2>5 DEF Reject, logVars
    <3>3. \A a \in Admin : pc'[a] = pc[a]
      BY <1>0, <1>00, <2>5, <3>1 DEF Reject, GoTo, TypeOK
    <3>4. \A v \in Version : Inserted(v)' = Inserted(v)
      BY <1>0, <3>1, <3>2 DEF Inserted, TypeOK, LoserInv
    <3>5. (\A v \in Version : ~Inserted(v) => reason[v] = "none")'
      BY <1>0, <3>1, <3>2, <3>4 DEF LoserInv, TypeOK
    <3>6. (\A q \in Process : \A v \in sel[q] : Inserted(v))'
      BY <1>0, <3>2, <3>4 DEF LoserInv, TypeOK
    <3>7. (\A t \in Trainer : mine[t] \in Version =>
              /\ Inserted(mine[t])
              /\ goal[t] = "promote" => reason[mine[t]] # "rejected"
              /\ \A u \in Trainer : mine[u] = mine[t] => u = t)'
      <4> SUFFICES ASSUME NEW t \in Trainer, mine[t] \in Version
                   PROVE  /\ Inserted(mine[t])'
                          /\ goal[t] = "promote" => reason'[mine[t]] # "rejected"
                          /\ \A u \in Trainer : mine[u] = mine[t] => u = t
        BY <3>2 DEF Inserted
      <4>1. /\ Inserted(mine[t]) /\ (goal[t] = "promote" => reason[mine[t]] # "rejected")
            /\ \A u \in Trainer : mine[u] = mine[t] => u = t
        BY DEF LoserInv
      <4>2. Inserted(mine[t])'
        BY <3>2, <3>4, <4>1 DEF Inserted
      <4> QED BY <1>0, <3>1, <3>2, <4>1, <4>2 DEF TypeOK
    <3>8. LosersReturnAudited'
      BY <1>0, <3>1, <3>2, <3>3 DEF LoserInv, LosersReturnAudited, TypeOK
    <3> QED BY <3>5, <3>6, <3>7, <3>8 DEF LoserInv
  <2>6. CASE Persist(p)
    <3>1. PICK v \in Version : IsFresh(v) /\ status' = [status EXCEPT ![v] = "ENABLED"]
      BY <2>6 DEF Persist
    <3>2. Done(p) /\ UNCHANGED <<reason, audited>> /\ pc[p] # "log"
      BY <2>6 DEF Persist, logVars
    <3>3. reason[v] = "none" /\ \A u \in Version : Inserted(u) => Inserted(u)'
      BY <1>0, <3>1 DEF LoserInv, IsFresh, Inserted, TypeOK
    <3>4. LosersReturnAudited'
      BY <1>0, <1>00, <3>1, <3>2, <3>3, DoneLeaves DEF LoserInv, LosersReturnAudited, TypeOK
    <3> QED BY <1>0, <1>00, <3>2, <3>3, <3>4, DoneLeaves DEF LoserInv, Inserted, TypeOK
  <2>7. CASE Disable(p)
    <3>1. Done(p) /\ UNCHANGED audited /\ pc[p] # "log"
      BY <2>7 DEF Disable, logVars
    <3>2. /\ \A u \in Version : status'[u] = "ENABLED" => status[u] = "ENABLED"
          /\ \A u \in Version : reason'[u] = "rejected" => reason[u] = "rejected"
          /\ \A u \in Version : Inserted(u) => Inserted(u)'
          /\ \A u \in Version : ~Inserted(u)' => reason'[u] = reason[u] /\ ~Inserted(u)
      <4>1. CASE UNCHANGED <<status, reason>>
        BY <4>1 DEF Inserted
      <4>2. CASE \E v \in Version :
                   /\ status' = [status EXCEPT ![v] = "DISABLED"]
                   /\ reason' = [reason EXCEPT ![v] = "ineligible"]
        BY <1>0, <4>2 DEF Inserted, TypeOK
      <4> QED BY <2>7, <4>1, <4>2 DEF Disable
    <3>3. LosersReturnAudited'
      BY <1>0, <1>00, <3>1, <3>2, DoneLeaves DEF LoserInv, LosersReturnAudited
    <3>4. (\A v \in Version : ~Inserted(v) => reason[v] = "none")'
      BY <3>2 DEF LoserInv
    <3> QED BY <1>0, <1>00, <3>1, <3>2, <3>3, <3>4, DoneLeaves DEF LoserInv, Inserted, TypeOK
  <2>8. CASE LogDecision(p)
    <3>1. p \in Trainer /\ Done(p) /\ UNCHANGED <<status, reason, audited>>
      BY <2>8 DEF LogDecision, rowVars
    <3>2. LosersReturnAudited'
      BY <1>0, <1>00, <3>1, DoneLeaves DEF LoserInv, LosersReturnAudited
    <3> QED BY <1>0, <1>00, <3>1, <3>2, DoneLeaves DEF LoserInv, Inserted
  <2>9. CASE RecordAudit(p)
    <3>1. /\ p \in Admin /\ Done(p) /\ UNCHANGED <<status, reason>>
          /\ audited' = audited \union {mine[p]}
      BY <2>9 DEF RecordAudit, rowVars
    <3>2. LosersReturnAudited'
      BY <1>0, <1>00, <3>1, DoneLeaves DEF LoserInv, LosersReturnAudited
    <3> QED BY <1>0, <1>00, <3>1, <3>2, DoneLeaves DEF LoserInv, Inserted
  <2> QED BY <1>3, <2>1, <2>2, <2>3, <2>4, <2>5, <2>6, <2>7, <2>8, <2>9 DEF Step
<1> QED BY <1>1, <1>2, <1>3 DEF Next

(* However many syncs and administrators interleave, a challenger that lost  *)
(* its comparison is live only with an audit entry that names it.            *)
THEOREM LosersNeedAnAdmin == Spec => []LosersReturnAudited
<1>1. Init => LoserInv /\ AdminOK
  BY ConstantsOK, ProcessAssumption DEF Init, LoserInv, Inserted, LosersReturnAudited, AdminOK, Process
<1>2. TInv /\ [Next]_vars => TInv'
  BY TypeStep, AnyNext DEF NextF
<1>3. LoserInv => LosersReturnAudited
  BY DEF LoserInv
<1> QED BY TypeInit, <1>1, <1>2, <1>3, AdminStep, LoserStep, PTL DEF Spec

-----------------------------------------------------------------------------
(* What the gate decided on a version, and who has still to log it.          *)
Logging(g, v) == \E t \in Trainer : pc[t] = "log" /\ goal[t] = g /\ mine[t] = v
Auditing(v) == \E a \in Admin : pc[a] = "log" /\ mine[a] = v

(* A version gets one event, from the one cycle it belongs to: until that    *)
(* cycle has logged there is none, so no other can overwrite it.             *)
DecisionInv ==
  /\ \A t \in Trainer :
       /\ goal[t] # "persist"
       /\ pc[t] = "log" => goal[t] \in {"promote", "reject"}
       /\ pc[t] = "log" /\ goal[t] = "reject" => reason[mine[t]] # "none"
       /\ mine[t] \in Version => event[mine[t]] = "none"
  /\ \A v \in Version :
       /\ ~Inserted(v) => event[v] = "none"
       /\ reason[v] = "rejected" =>
            event[v] = "MODEL_CHALLENGER_REJECTED" \/ Logging("reject", v)
       /\ status[v] = "ENABLED" /\ reason[v] = "none" =>
            event[v] = "MODEL_PROMOTED" \/ v \in audited \/ Logging("promote", v) \/ Auditing(v)

(* A step that leaves the log states, the reasons of decided versions and    *)
(* the logs alone, and makes nothing live, keeps DecisionInv.                *)
LEMMA DecisionFrame ==
  ASSUME TInv, AdminOK, DecisionInv,
         \A t \in Trainer :
           /\ goal'[t] # "persist"
           /\ pc'[t] = "log" <=> pc[t] = "log"
           /\ pc[t] = "log" => goal'[t] = goal[t]
           /\ mine'[t] = mine[t] \/ (pc[t] # "log" /\ (mine'[t] \in Version => event'[mine'[t]] = "none")),
         \A a \in Admin : (pc[a] = "log" => pc'[a] = "log" /\ mine'[a] = mine[a]),
         UNCHANGED <<event, audited>>,
         \A v \in Version :
           /\ Inserted(v) => Inserted(v)'
           /\ reason'[v] = "rejected" => reason[v] = "rejected"
           /\ reason[v] # "none" => reason'[v] # "none"
           /\ status'[v] = "ENABLED" => status[v] = "ENABLED"
  PROVE  DecisionInv'
<1>0. \A t \in Trainer : pc[t] = "log" => mine[t] \in Version
  BY DEF TInv, GoalOK, Process
<1>1. \A g \in Goal, v \in Version : Logging(g, v) => Logging(g, v)'
  BY DEF Logging
<1>2. \A v \in Version : Auditing(v) => Auditing(v)'
  BY DEF Auditing
<1>3. (\A t \in Trainer :
         /\ goal[t] # "persist"
         /\ pc[t] = "log" => goal[t] \in {"promote", "reject"}
         /\ pc[t] = "log" /\ goal[t] = "reject" => reason[mine[t]] # "none"
         /\ mine[t] \in Version => event[mine[t]] = "none")'
  BY <1>0 DEF DecisionInv
<1>4. (\A v \in Version :
         /\ ~Inserted(v) => event[v] = "none"
         /\ reason[v] = "rejected" =>
              event[v] = "MODEL_CHALLENGER_REJECTED" \/ Logging("reject", v)
         /\ status[v] = "ENABLED" /\ reason[v] = "none" =>
              event[v] = "MODEL_PROMOTED" \/ v \in audited \/ Logging("promote", v) \/ Auditing(v))'
  BY <1>1, <1>2 DEF DecisionInv, Goal
<1> QED BY <1>3, <1>4 DEF DecisionInv

LEMMA DecisionStep ==
  Gated /\ TInv /\ AdminOK /\ LoserInv /\ DecisionInv /\ [Next]_vars => DecisionInv'
<1> SUFFICES ASSUME Gated, TInv, AdminOK, LoserInv, DecisionInv, [Next]_vars PROVE DecisionInv'
  OBVIOUS
<1>0. TypeOK /\ \A p \in Process : (p \in Trainer) = (p \notin Admin)
  BY ProcessAssumption DEF TInv, Process
<1>00. Trainer \subseteq Process /\ Admin \subseteq Process /\ NoVersion \notin Version
  BY ConstantsOK DEF Process
<1>1. CASE MatchCompletes \/ UNCHANGED vars
  BY <1>1 DEF MatchCompletes, vars, rowVars, logVars, procVars, DecisionInv, Inserted, Logging, Auditing
<1>2. ASSUME NEW p \in Process, Start(p) PROVE DecisionInv'
  <2>1. /\ UNCHANGED <<status, reason, event, audited>>
        /\ pc[p] = "idle" /\ pc'[p] # "log"
        /\ p \in Trainer => mine'[p] = mine[p] /\ goal'[p] # "persist"
    BY <1>0, <1>2 DEF Start, Begin, Rollback, GoTo, Aim, rowVars, logVars, TypeOK
  <2>2. \A q \in Process : q # p => pc'[q] = pc[q] /\ goal'[q] = goal[q] /\ mine'[q] = mine[q]
    BY <1>0, <1>2 DEF Start, Begin, Rollback, GoTo, Aim, TypeOK
  <2>3. \A t \in Trainer :
           /\ goal'[t] # "persist"
           /\ pc'[t] = "log" <=> pc[t] = "log"
           /\ pc[t] = "log" => goal'[t] = goal[t]
           /\ mine'[t] = mine[t]
    BY <1>00, <2>1, <2>2 DEF DecisionInv
  <2>4. \A a \in Admin : (pc[a] = "log" => pc'[a] = "log" /\ mine'[a] = mine[a])
    BY <1>00, <2>1, <2>2
  <2>5. \A v \in Version : Inserted(v) => Inserted(v)'
    BY <2>1 DEF Inserted
  <2> QED BY <2>1, <2>3, <2>4, <2>5, DecisionFrame
<1>3. ASSUME NEW p \in Process, Step(p) PROVE DecisionInv'
  <2>1. CASE ReadChampion(p) \/ FitFails(p) \/ StageSelect(p) \/ SelectLive(p) \/ Retire(p)
    <3>1. UNCHANGED <<reason, event, audited, mine>> /\ pc[p] # "log"
      BY <2>1 DEF ReadChampion, FitFails, StageSelect, SelectLive, Retire, rowVars, logVars
    <3>2. pc'[p] # "log" /\ \A q \in Process : q # p => pc'[q] = pc[q]
      BY <1>0, <2>1 DEF ReadChampion, FitFails, StageSelect, SelectLive, Retire, GoTo, TypeOK, TInv, GoalOK
    <3>3. \A q \in Process : goal'[q] = goal[q] \/ (q = p /\ goal'[q] = "disable")
      BY <1>0, <2>1 DEF ReadChampion, FitFails, StageSelect, SelectLive, Retire, Aim, TypeOK
    <3>4. \A v \in Version : status'[v] = status[v] \/ (status'[v] = "RETIRED" /\ v \in sel[p])
      BY <1>0, <2>1 DEF ReadChampion, FitFails, StageSelect, SelectLive, Retire, rowVars, TypeOK
    <3>5. \A v \in Version : /\ Inserted(v) => Inserted(v)'
                             /\ status'[v] = "ENABLED" => status[v] = "ENABLED"
      BY <3>4 DEF Inserted
    <3>6. \A t \in Trainer :
             /\ goal'[t] # "persist"
             /\ pc'[t] = "log" <=> pc[t] = "log"
             /\ pc[t] = "log" => goal'[t] = goal[t]
             /\ mine'[t] = mine[t]
      BY <1>00, <3>1, <3>2, <3>3 DEF DecisionInv
    <3>7. \A a \in Admin : (pc[a] = "log" => pc'[a] = "log" /\ mine'[a] = mine[a])
      BY <1>00, <3>1, <3>2
    <3> QED BY <3>1, <3>5, <3>6, <3>7, DecisionFrame
  <2>2. CASE Stage(p)
    <3>1. PICK v \in Version :
            /\ IsFresh(v)
            /\ status' = [u \in Version |->
                 IF u = v THEN "CHALLENGER" ELSE IF u \in sel[p] THEN "RETIRED" ELSE status[u]]
            /\ mine' = [mine EXCEPT ![p] = v]
      BY <2>2 DEF Stage
    <3>2. /\ reason' = [u \in Version |-> IF u \in sel[p] THEN "superseded" ELSE reason[u]]
          /\ UNCHANGED <<event, audited>> /\ pc[p] = "stage"
      BY <2>2 DEF Stage, logVars
    <3>3. /\ pc'[p] # "log" /\ goal'[p] \in {"promote", "reject"}
          /\ \A q \in Process : q # p => pc'[q] = pc[q] /\ goal'[q] = goal[q] /\ mine'[q] = mine[q]
      BY <1>0, <2>2, <3>1 DEF Stage, Follow, GoTo, Aim, TypeOK
    <3>4. mine'[p] = v /\ event'[v] = "none"
      BY <1>0, <3>1, <3>2 DEF IsFresh, TypeOK, DecisionInv, Inserted
    <3>5. \A u \in Version :
            /\ Inserted(u) => Inserted(u)'
            /\ reason'[u] = "rejected" => reason[u] = "rejected"
            /\ reason[u] # "none" => reason'[u] # "none"
            /\ status'[u] = "ENABLED" => status[u] = "ENABLED"
      BY <3>1, <3>2 DEF Inserted
    <3>6. \A t \in Trainer :
             /\ goal'[t] # "persist"
             /\ pc'[t] = "log" <=> pc[t] = "log"
             /\ pc[t] = "log" => goal'[t] = goal[t]
             /\ mine'[t] = mine[t] \/ (pc[t] # "log" /\ (mine'[t] \in Version => event'[mine'[t]] = "none"))
      BY <1>00, <3>2, <3>3, <3>4 DEF DecisionInv
    <3>7. \A a \in Admin : (pc[a] = "log" => pc'[a] = "log" /\ mine'[a] = mine[a])
      BY <1>00, <3>2, <3>3
    <3> QED BY <3>2, <3>5, <3>6, <3>7, DecisionFrame
  <2>3. CASE Promote(p)
    <3>1. /\ UNCHANGED <<reason, mine, goal, event, audited>> /\ pc[p] = "promote"
          /\ status' = [status EXCEPT ![mine[p]] = "ENABLED"]
      BY <2>3 DEF Promote, logVars
    <3>2. mine[p] \in Version /\ goal[p] = "promote"
      BY <2>3 DEF Promote, TInv, GoalOK
    <3>3. pc'[p] = "log" /\ \A q \in Process : q # p => pc'[q] = pc[q]
      BY <1>0, <2>3 DEF Promote, GoTo, TypeOK
    <3>4. \A g, v : Logging(g, v) => Logging(g, v)'
      BY <1>00, <3>1, <3>3 DEF Logging
    <3>5. \A v : Auditing(v) => Auditing(v)'
      BY <1>00, <3>1, <3>3 DEF Auditing
    <3>6. Logging("promote", mine[p])' \/ Auditing(mine[p])'
      BY <1>0, <3>1, <3>2, <3>3 DEF Logging, Auditing
    <3>7. \A v \in Version : /\ Inserted(v) => Inserted(v)'
                             /\ v # mine[p] => status'[v] = status[v]
      BY <1>0, <3>1 DEF Inserted, TypeOK
    <3>8. (\A t \in Trainer :
             /\ goal[t] # "persist"
             /\ pc[t] = "log" => goal[t] \in {"promote", "reject"}
             /\ pc[t] = "log" /\ goal[t] = "reject" => reason[mine[t]] # "none"
             /\ mine[t] \in Version => event[mine[t]] = "none")'
      BY <1>00, <3>1, <3>2, <3>3 DEF DecisionInv
    <3>9. ASSUME NEW v \in Version
          PROVE  (/\ ~Inserted(v) => event[v] = "none"
                  /\ reason[v] = "rejected" =>
                       event[v] = "MODEL_CHALLENGER_REJECTED" \/ Logging("reject", v)
                  /\ status[v] = "ENABLED" /\ reason[v] = "none" =>
                       event[v] = "MODEL_PROMOTED" \/ v \in audited \/ Logging("promote", v) \/ Auditing(v))'
      <4>1. CASE v = mine[p]
        BY <3>1, <3>4, <3>6, <3>7, <4>1 DEF DecisionInv
      <4>2. CASE v # mine[p]
        BY <3>1, <3>4, <3>5, <3>7, <4>2 DEF DecisionInv
      <4> QED BY <4>1, <4>2
    <3> QED BY <3>8, <3>9 DEF DecisionInv
  <2>4. CASE Reject(p)
    <3>1. mine[p] \in Version /\ p \in Trainer /\ goal[p] = "reject"
      BY <1>0, <1>00, <2>4 DEF Reject, TInv, GoalOK, AdminOK
    <3>2. /\ UNCHANGED <<mine, goal, event, audited>>
          /\ status' = [status EXCEPT ![mine[p]] = "RETIRED"]
          /\ reason' = [reason EXCEPT ![mine[p]] = "rejected"]
      BY <2>4 DEF Reject, logVars
    <3>3. pc'[p] = "log" /\ \A q \in Process : q # p => pc'[q] = pc[q]
      BY <1>0, <2>4 DEF Reject, GoTo, TypeOK
    <3>4. pc[p] = "reject"
      BY <2>4 DEF Reject
    <3>5. \A g, v : Logging(g, v) => Logging(g, v)'
      BY <1>00, <3>2, <3>3 DEF Logging
    <3>6. \A v : Auditing(v) => Auditing(v)'
      BY <1>00, <3>2, <3>3 DEF Auditing
    <3>7. Logging("reject", mine[p])'
      BY <3>1, <3>2, <3>3 DEF Logging
    <3>8. /\ reason'[mine[p]] = "rejected" /\ status'[mine[p]] = "RETIRED"
          /\ \A v \in Version : v # mine[p] => status'[v] = status[v] /\ reason'[v] = reason[v]
      BY <1>0, <3>1, <3>2 DEF TypeOK
    <3>9. \A v \in Version : Inserted(v) => Inserted(v)'
      BY <3>8 DEF Inserted
    <3>10. ASSUME NEW t \in Trainer
           PROVE  (/\ goal[t] # "persist"
                   /\ pc[t] = "log" => goal[t] \in {"promote", "reject"}
                   /\ pc[t] = "log" /\ goal[t] = "reject" => reason[mine[t]] # "none"
                   /\ mine[t] \in Version => event[mine[t]] = "none")'
      <4>1. pc[t] = "log" => mine[t] \in Version
        BY <1>00 DEF TInv, GoalOK
      <4> QED BY <1>00, <3>1, <3>2, <3>3, <3>8, <4>1 DEF DecisionInv
    <3>11. ASSUME NEW v \in Version
           PROVE  (/\ ~Inserted(v) => event[v] = "none"
                   /\ reason[v] = "rejected" =>
                        event[v] = "MODEL_CHALLENGER_REJECTED" \/ Logging("reject", v)
                   /\ status[v] = "ENABLED" /\ reason[v] = "none" =>
                        event[v] = "MODEL_PROMOTED" \/ v \in audited \/ Logging("promote", v) \/ Auditing(v))'
      <4>1. CASE v = mine[p]
        BY <3>2, <3>7, <3>8, <3>9, <4>1 DEF DecisionInv
      <4>2. CASE v # mine[p]
        BY <3>2, <3>5, <3>6, <3>8, <3>9, <4>2 DEF DecisionInv
      <4> QED BY <4>1, <4>2
    <3> QED BY <3>10, <3>11 DEF DecisionInv
  <2>5. CASE Persist(p)
    BY <1>0, <1>00, <2>5 DEF Persist, TInv, GoalOK, AdminOK, DecisionInv
  <2>6. CASE Disable(p)
    <3>1. Done(p) /\ UNCHANGED <<event, audited>> /\ pc[p] = "disable"
      BY <2>6 DEF Disable, logVars
    <3>2. \A u \in Version :
            /\ Inserted(u) => Inserted(u)'
            /\ reason'[u] = "rejected" => reason[u] = "rejected"
            /\ reason[u] # "none" => reason'[u] # "none"
            /\ status'[u] = "ENABLED" => status[u] = "ENABLED"
      <4>1. CASE UNCHANGED <<status, reason>>
        BY <4>1 DEF Inserted
      <4>2. CASE \E v \in Version :
                   /\ status' = [status EXCEPT ![v] = "DISABLED"]
                   /\ reason' = [reason EXCEPT ![v] = "ineligible"]
        BY <1>0, <4>2 DEF Inserted, TypeOK
      <4> QED BY <2>6, <4>1, <4>2 DEF Disable
    <3>3. goal'[p] = "none"
      BY <1>0, <3>1 DEF Done, Aim, TypeOK
    <3>4. \A t \in Trainer :
             /\ goal'[t] # "persist"
             /\ pc'[t] = "log" <=> pc[t] = "log"
             /\ pc[t] = "log" => goal'[t] = goal[t]
             /\ mine'[t] = mine[t] \/ (pc[t] # "log" /\ mine'[t] \notin Version)
      BY <1>0, <1>00, <3>1, <3>3, DoneLeaves DEF DecisionInv
    <3>5. \A a \in Admin : (pc[a] = "log" => pc'[a] = "log" /\ mine'[a] = mine[a])
      BY <1>0, <1>00, <3>1, DoneLeaves
    <3> QED BY <3>1, <3>2, <3>4, <3>5, DecisionFrame
  <2>7. CASE LogDecision(p)
    <3>1. p \in Trainer /\ pc[p] = "log" /\ Done(p) /\ UNCHANGED <<status, reason, audited>>
      BY <2>7 DEF LogDecision, rowVars
    <3>2. event' = [event EXCEPT ![mine[p]] =
             IF goal[p] = "reject" THEN "MODEL_CHALLENGER_REJECTED" ELSE "MODEL_PROMOTED"]
      BY <2>7 DEF LogDecision
    <3>3. mine[p] \in Version /\ goal[p] \in {"promote", "reject"} /\ Inserted(mine[p])
      BY <1>00, <3>1 DEF TInv, GoalOK, DecisionInv, LoserInv
    <3>4. /\ mine'[p] = NoVersion /\ pc'[p] = "idle"
          /\ \A q \in Process : q # p => mine'[q] = mine[q] /\ goal'[q] = goal[q] /\ pc'[q] = pc[q]
      BY <1>0, <3>1, DoneLeaves
    <3>5. goal'[p] = "none"
      BY <1>0, <3>1 DEF Done, Aim, TypeOK
    <3>6. \A v \in Version : v # mine[p] => event'[v] = event[v]
      BY <1>0, <3>2 DEF TypeOK
    <3>7. event'[mine[p]] = IF goal[p] = "reject" THEN "MODEL_CHALLENGER_REJECTED" ELSE "MODEL_PROMOTED"
      BY <1>0, <3>2, <3>3 DEF TypeOK
    <3>8. \A g, v : v # mine[p] /\ Logging(g, v) => Logging(g, v)'
      BY <1>00, <3>4 DEF Logging
    <3>9. \A v : Auditing(v) => Auditing(v)'
      BY <1>0, <1>00, <3>1, <3>4 DEF Auditing
    <3>10. \A t \in Trainer : t # p => mine[t] # mine[p]
      BY <3>1, <3>3 DEF LoserInv
    <3>11. (\A t \in Trainer :
              /\ goal[t] # "persist"
              /\ pc[t] = "log" => goal[t] \in {"promote", "reject"}
              /\ pc[t] = "log" /\ goal[t] = "reject" => reason[mine[t]] # "none"
              /\ mine[t] \in Version => event[mine[t]] = "none")'
      BY <1>00, <3>1, <3>4, <3>5, <3>6, <3>10 DEF DecisionInv
    <3>12. ASSUME NEW v \in Version
           PROVE  (/\ ~Inserted(v) => event[v] = "none"
                   /\ reason[v] = "rejected" =>
                        event[v] = "MODEL_CHALLENGER_REJECTED" \/ Logging("reject", v)
                   /\ status[v] = "ENABLED" /\ reason[v] = "none" =>
                        event[v] = "MODEL_PROMOTED" \/ v \in audited \/ Logging("promote", v) \/ Auditing(v))'
      <4>1. CASE v = mine[p] /\ goal[p] = "reject"
        <5>1. reason[v] # "none"
          BY <3>1, <4>1 DEF DecisionInv
        <5> QED BY <3>1, <3>3, <3>7, <4>1, <5>1 DEF Inserted
      <4>2. CASE v = mine[p] /\ goal[p] = "promote"
        <5>1. reason[v] # "rejected"
          BY <3>1, <3>3, <4>2 DEF LoserInv
        <5> QED BY <3>1, <3>3, <3>7, <4>2, <5>1 DEF Inserted
      <4>3. CASE v # mine[p]
        BY <3>1, <3>6, <3>8, <3>9, <4>3 DEF DecisionInv, Inserted
      <4> QED BY <3>3, <4>1, <4>2, <4>3
    <3> QED BY <3>11, <3>12 DEF DecisionInv
  <2>8. CASE RecordAudit(p)
    <3>1. /\ p \in Admin /\ Done(p) /\ UNCHANGED <<status, reason, event>>
          /\ audited' = audited \union {mine[p]}
      BY <2>8 DEF RecordAudit, rowVars
    <3>2. \A q \in Process : q # p => mine'[q] = mine[q] /\ goal'[q] = goal[q] /\ pc'[q] = pc[q]
      BY <1>0, <3>1, DoneLeaves
    <3>3. \A g, v : Logging(g, v) => Logging(g, v)'
      BY <1>0, <1>00, <3>1, <3>2 DEF Logging
    <3>4. \A v : Auditing(v) => v \in audited' \/ Auditing(v)'
      BY <1>00, <3>1, <3>2 DEF Auditing
    <3> QED BY <1>0, <1>00, <3>1, <3>2, <3>3, <3>4 DEF DecisionInv, Inserted
  <2> QED BY <1>3, <2>1, <2>2, <2>3, <2>4, <2>5, <2>6, <2>7, <2>8 DEF Step
<1> QED BY <1>1, <1>2, <1>3 DEF Next

(* However many syncs and administrators interleave, every decision of the   *)
(* gate has its event once the sync that made it has moved on.               *)
THEOREM DecisionsAreLogged == Spec => []EveryDecisionLogged
<1>1. Init => LoserInv /\ AdminOK /\ (Gated => DecisionInv)
  BY ConstantsOK, ProcessAssumption DEF Init, LoserInv, Inserted, LosersReturnAudited, AdminOK,
     DecisionInv, Process
<1>2. TInv /\ [Next]_vars => TInv'
  BY TypeStep, AnyNext DEF NextF
<1>3. TInv /\ AdminOK /\ LoserInv /\ (Gated => DecisionInv) /\ [Next]_vars => (Gated => DecisionInv)'
  BY DecisionStep
<1>4. (Gated => DecisionInv) => EveryDecisionLogged
  BY DEF DecisionInv, EveryDecisionLogged, Logging, Auditing, Process
<1> QED BY TypeInit, <1>1, <1>2, <1>3, <1>4, AdminStep, LoserStep, PTL DEF Spec
=============================================================================
