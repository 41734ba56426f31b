--------------------------- MODULE FullSyncProofs ---------------------------
(***************************************************************************)
(* Proofs about FullSync: types with any number of runs at the same time,   *)
(* and what a report is worth with one at a time.                           *)
(***************************************************************************)
EXTENDS FullSync, TLAPS

(* What a run is in the middle of.                                           *)
InHand ==
  \A r \in Run :
    /\ InCompetition(r) => comp[r] \in Comp
    /\ pc[r] = "commit" => stage[r] \in {"teams", "results"}
    /\ pc[r] = "store" => stage[r] \in Product

TypeInv == TypeOK /\ InHand

LEMMA InitType == Init => TypeInv
BY VersionAssumption
   DEF Init, TypeInv, TypeOK, InHand, InCompetition, Version, Data, NoData, Nothing, Unlisted,
       Listing, PC, Stage, Source, Product, Report

(* The end of a run is well typed, whatever it was about.                    *)
LEMMA OverType ==
  ASSUME TypeInv, NEW r \in Run, NEW how \in Report, Over(r, how),
         offered' = offered
  PROVE  /\ pc' \in [Run -> PC] /\ stage' \in [Run -> Stage]
         /\ comp' \in [Run -> Comp \union {NoComp}] /\ todo' \in [Run -> SUBSET Comp]
         /\ found' \in [Run -> [Comp -> Listing]] /\ knew' \in [Run -> [Comp -> Listing]]
         /\ basis' \in [Run -> Data] /\ was' \in [Run -> Data]
         /\ errs' \in [Run -> SUBSET (Comp \X Kind)] /\ lost' \in [Run -> BOOLEAN]
         /\ since' \in [Run -> [Comp -> Version]] /\ report' \in [Run -> Report]
         /\ InHand'
<1>1. [c \in Comp |-> 0] \in [Comp -> Version]
  BY VersionAssumption DEF Version
<1>2. Unlisted \in [Comp -> Listing] /\ NoData \in Data
  BY VersionAssumption DEF Unlisted, Listing, NoData, Data, Version
<1>3. pc' \in [Run -> PC] /\ stage' \in [Run -> Stage] /\ comp' \in [Run -> Comp \union {NoComp}]
      /\ todo' \in [Run -> SUBSET Comp]
  BY DEF TypeInv, TypeOK, Over, GoTo, TurnTo, PC, Stage, Source
<1>4. /\ found' \in [Run -> [Comp -> Listing]] /\ knew' \in [Run -> [Comp -> Listing]]
      /\ basis' \in [Run -> Data] /\ was' \in [Run -> Data]
  BY <1>2 DEF TypeInv, TypeOK, Over
<1>5. errs' \in [Run -> SUBSET (Comp \X Kind)] /\ lost' \in [Run -> BOOLEAN]
      /\ report' \in [Run -> Report]
  BY DEF TypeInv, TypeOK, Over
<1>6. since' \in [Run -> [Comp -> Version]]
  BY <1>1 DEF TypeInv, TypeOK, Over
<1>7. InHand'
  BY DEF TypeInv, TypeOK, InHand, Over, GoTo, TurnTo, InCompetition
<1> QED BY <1>3, <1>4, <1>5, <1>6, <1>7

LEMMA CloseType ==
  ASSUME TypeInv, NEW r \in Run, CloseSession(r)
  PROVE  want' \in [Run -> [Comp \X Source -> Version]] /\ saw' \in [Run -> [Comp \X Source -> Version]]
<1>1. Nothing \in [Comp \X Source -> Version]
  BY VersionAssumption DEF Nothing, Version
<1> QED BY <1>1 DEF TypeInv, TypeOK, CloseSession

LEMMA FlushType ==
  ASSUME TypeInv, NEW r \in Run, Flush(r)
  PROVE  /\ stored' \in [Comp \X Source -> Version]
         /\ want' \in [Run -> [Comp \X Source -> Version]] /\ saw' \in [Run -> [Comp \X Source -> Version]]
<1>1. stored' \in [Comp \X Source -> Version]
  <2>1. \A x \in Comp \X Source :
          (IF want[r][x] # saw[r][x] THEN want[r][x] ELSE stored[x]) \in Version
    BY DEF TypeInv, TypeOK
  <2> QED BY <2>1 DEF Flush
<1> QED BY <1>1, CloseType DEF Flush

LEMMA PrepareType ==
  ASSUME TypeInv, NEW r \in Run, comp[r] \in Comp, NEW s \in Source, NEW v \in Version,
         Prepare(r, s, v)
  PROVE  want' \in [Run -> [Comp \X Source -> Version]] /\ saw' \in [Run -> [Comp \X Source -> Version]]
<1>1. stored[<<comp[r], s>>] \in Version
  BY DEF TypeInv, TypeOK
<1>2. /\ [want[r] EXCEPT ![<<comp[r], s>>] = v] \in [Comp \X Source -> Version]
      /\ [saw[r] EXCEPT ![<<comp[r], s>>] = stored[<<comp[r], s>>]] \in [Comp \X Source -> Version]
  BY <1>1 DEF TypeInv, TypeOK
<1>3. want \in [Run -> [Comp \X Source -> Version]] /\ saw \in [Run -> [Comp \X Source -> Version]]
  BY DEF TypeInv, TypeOK
<1>4. want' \in [Run -> [Comp \X Source -> Version]] BY <1>2, <1>3 DEF Prepare
<1>5. saw' \in [Run -> [Comp \X Source -> Version]] BY <1>2, <1>3 DEF Prepare
<1> QED BY <1>4, <1>5

LEMMA StepType == ASSUME TypeInv, [Next]_vars PROVE TypeInv'
<1> USE DEF TypeInv, dbVars, discoveryVars, sessionVars, productVars, reportVars
<1>1. ASSUME NEW c \in Comp, ProviderMoves(c) PROVE TypeInv'
  <2>1. offered[c] + 1 \in Version
    BY <1>1, VersionAssumption DEF ProviderMoves, TypeOK, Version
  <2> QED BY <1>1, <2>1 DEF ProviderMoves, TypeOK, InHand, InCompetition
<1>2. ASSUME NEW r \in Run, Begin(r) PROVE TypeInv'
  BY <1>2 DEF Begin, GoTo, TypeOK, InHand, InCompetition, PC, Report
<1>3. ASSUME NEW r \in Run, DiscoveryFails(r) PROVE TypeInv'
  BY <1>3 DEF DiscoveryFails, GoTo, Known, TypeOK, InHand, InCompetition, PC
<1>4. ASSUME NEW r \in Run, NEW broken \in SUBSET Listed, Discover(r, broken) PROVE TypeInv'
  BY <1>4 DEF Discover, GoTo, Listed, TypeOK, InHand, InCompetition, PC, Listing, Kind
<1>5. ASSUME NEW r \in Run, Announce(r) PROVE TypeInv'
  BY ZenonT(30), <1>5 DEF Announce, GoTo, Unlisted, TypeOK, InHand, InCompetition, PC, Listing
<1>6. ASSUME NEW r \in Run, NEW c \in Comp, Pick(r, c) PROVE TypeInv'
  BY <1>6 DEF Pick, GoTo, TurnTo, TypeOK, InHand, InCompetition, PC, Stage, Source, Product
<1>7. ASSUME NEW r \in Run, AllPicked(r) PROVE TypeInv'
  <2>1. /\ stored' \in [Comp \X Source -> Version]
        /\ want' \in [Run -> [Comp \X Source -> Version]] /\ saw' \in [Run -> [Comp \X Source -> Version]]
    BY <1>7, FlushType DEF AllPicked, TypeOK
  <2> QED BY <1>7, <2>1 DEF AllPicked, GoTo, TypeOK, InHand, InCompetition, PC
<1>8. ASSUME NEW r \in Run, LoadTeams(r) PROVE TypeInv'
  <2>1. comp[r] \in Comp BY <1>8 DEF LoadTeams, InHand, InCompetition
  <2>2. want' \in [Run -> [Comp \X Source -> Version]] /\ saw' \in [Run -> [Comp \X Source -> Version]]
    BY <1>8, <2>1, PrepareType DEF LoadTeams, TypeOK, Source
  <2> QED BY <1>8, <2>1, <2>2 DEF LoadTeams, GoTo, TypeOK, InHand, InCompetition, PC
<1>9. ASSUME NEW r \in Run, TeamsFail(r) PROVE TypeInv'
  <2>1. comp[r] \in Comp BY <1>9 DEF TeamsFail, InHand, InCompetition
  <2> QED BY <1>9, <2>1 DEF TeamsFail, Note, TurnTo, TypeOK, InHand, InCompetition, Stage, Source, Kind
<1>10. ASSUME NEW r \in Run, LoadFixtures(r) PROVE TypeInv'
  <2>1. comp[r] \in Comp BY <1>10 DEF LoadFixtures, InHand, InCompetition
  <2>2. Storable(comp[r]) \subseteq Version BY <2>1 DEF Storable, TypeOK, Source
  <2>4. errs' \in [Run -> SUBSET (Comp \X Kind)]
    <3>1. PICK kinds \in SUBSET {"skipped"} : Note(r, kinds) BY <1>10 DEF LoadFixtures
    <3> QED BY <2>1, <3>1 DEF Note, TypeOK, Kind
  <2>3. want' \in [Run -> [Comp \X Source -> Version]] /\ saw' \in [Run -> [Comp \X Source -> Version]]
    BY <1>10, <2>1, <2>2, PrepareType DEF LoadFixtures, Source
  <2> QED BY <1>10, <2>1, <2>3, <2>4 DEF LoadFixtures, TurnTo, TypeOK, InHand, InCompetition, Stage, Source
<1>11. ASSUME NEW r \in Run, FixturesFail(r) PROVE TypeInv'
  <2>1. comp[r] \in Comp BY <1>11 DEF FixturesFail, InHand, InCompetition
  <2> QED BY <1>11, <2>1 DEF FixturesFail, Note, TurnTo, TypeOK, InHand, InCompetition, Stage, Product, Kind
<1>12. ASSUME NEW r \in Run, NEW kinds \in SUBSET {"listed"}, LoadResults(r, kinds) PROVE TypeInv'
  <2>1. comp[r] \in Comp BY <1>12 DEF LoadResults, InHand, InCompetition
  <2>2. want' \in [Run -> [Comp \X Source -> Version]] /\ saw' \in [Run -> [Comp \X Source -> Version]]
    BY <1>12, <2>1, PrepareType DEF LoadResults, TypeOK, Source
  <2> QED BY <1>12, <2>1, <2>2 DEF LoadResults, Note, GoTo, TypeOK, InHand, InCompetition, PC, Kind
<1>13. ASSUME NEW r \in Run, Commit(r) PROVE TypeInv'
  <2>1. /\ stored' \in [Comp \X Source -> Version]
        /\ want' \in [Run -> [Comp \X Source -> Version]] /\ saw' \in [Run -> [Comp \X Source -> Version]]
    BY <1>13, FlushType DEF Commit
  <2> QED BY <1>13, <2>1 DEF Commit, GoTo, TurnTo, TypeOK, InHand, InCompetition, PC, Stage, Source, Product
<1>14. ASSUME NEW r \in Run, Compute(r) PROVE TypeInv'
  <2>1. comp[r] \in Comp BY <1>14 DEF Compute, InHand, InCompetition
  <2>2. Matches(comp[r]) \in Data BY <2>1 DEF Matches, Data, TypeOK, Source
  <2>3. derived[<<comp[r], stage[r]>>] \in Data BY <1>14, <2>1 DEF Compute, TypeOK
  <2> QED BY <1>14, <2>1, <2>2, <2>3 DEF Compute, GoTo, TypeOK, InHand, InCompetition, PC
<1>15. ASSUME NEW r \in Run, Store(r) PROVE TypeInv'
  <2>1. /\ stored' \in [Comp \X Source -> Version]
        /\ want' \in [Run -> [Comp \X Source -> Version]] /\ saw' \in [Run -> [Comp \X Source -> Version]]
    BY <1>15, FlushType DEF Store
  <2>2. After(stage[r]) \in Stage
    BY <1>15 DEF Store, InHand, After, Stage, Product
  <2>3. comp[r] \in Comp BY <1>15 DEF Store, InHand, InCompetition
  <2>4. NoData \in Data BY VersionAssumption DEF NoData, Data, Version
  <2>5. derived' \in [Comp \X Product -> Data]
    BY <1>15 DEF Store, TypeOK
  <2> QED BY <1>15, <2>1, <2>2, <2>3, <2>4, <2>5 DEF Store, GoTo, TurnTo, TypeOK, InHand, InCompetition, PC
<1>16. ASSUME NEW r \in Run, Look(r) PROVE TypeInv'
  <2>1. comp[r] \in Comp BY <1>16 DEF Look, InHand, InCompetition
  <2>2. PICK kinds \in SUBSET {"listed"} : Note(r, kinds) BY <1>16 DEF Look
  <2>3. errs' \in [Run -> SUBSET (Comp \X Kind)] BY <2>1, <2>2 DEF Note, TypeOK, Kind
  <2> QED BY <1>16, <2>1, <2>3 DEF Look, GoTo, TypeOK, InHand, InCompetition, PC
<1>17. ASSUME NEW r \in Run, Raises(r) PROVE TypeInv'
  <2>1. comp[r] \in Comp BY <1>17 DEF Raises, InHand, InCompetition
  <2>2. NoData \in Data BY VersionAssumption DEF NoData, Data, Version
  <2> QED BY <1>17, <2>1, <2>2 DEF Raises, Note, GoTo, TypeOK, InHand, InCompetition, PC, Kind
<1>18. ASSUME NEW r \in Run, NEW how \in Report, Over(r, how), CloseSession(r),
              UNCHANGED <<offered, dbVars>>
       PROVE  TypeInv'
  BY <1>18, OverType, CloseType DEF TypeOK
<1>19. ASSUME NEW r \in Run, Dies(r) \/ Collides(r) PROVE TypeInv'
  BY <1>19, <1>18 DEF Dies, Collides, AnnounceCollides, Aborts, FinishCollides, Report
<1>20. ASSUME NEW r \in Run, Finish(r) PROVE TypeInv'
  <2>1. SystemStatus(r) \in Report BY DEF SystemStatus, Report
  <2> QED BY <1>20, <2>1, FlushType, OverType DEF Finish, TypeOK
<1>21. CASE UNCHANGED vars
  BY <1>21 DEF vars, TypeOK, InHand, InCompetition
<1> QED
  BY <1>1, <1>2, <1>3, <1>4, <1>5, <1>6, <1>7, <1>8, <1>9, <1>10, <1>11, <1>12, <1>13, <1>14,
     <1>15, <1>16, <1>17, <1>19, <1>20, <1>21
     DEF Next, Step

(* Every variable keeps its type, with any number of runs at the same time,  *)
(* competitions and versions.                                                *)
THEOREM TypeCorrect == Spec => []TypeOK
<1>1. TypeInv => TypeOK BY DEF TypeInv
<1> QED BY <1>1, InitType, StepType, PTL DEF Spec

-----------------------------------------------------------------------------
(* One run at a time.                                                        *)
Alone == \A r, q \in Run : pc[r] # "idle" /\ pc[q] # "idle" => r = q

(* Nothing that is stored, or was noted when a run began, is newer than what *)
(* the provider has.                                                         *)
Bounded ==
  /\ \A c \in Comp, s \in Source : stored[<<c, s>>] <= offered[c]
  /\ \A r \in Run, c \in Comp : since[r][c] <= offered[c]

(* What a run has prepared and not committed is newer than what is stored,   *)
(* which is still what the run saw.                                          *)
InSession(r) ==
  \A c \in Comp, s \in Source : want[r][<<c, s>>] # saw[r][<<c, s>>] =>
    /\ pc[r] # "idle"
    /\ saw[r][<<c, s>>] = stored[<<c, s>>]
    /\ want[r][<<c, s>>] > stored[<<c, s>>]
    /\ want[r][<<c, s>>] <= offered[c]

(* What discovery read is still so, and it takes no season away.             *)
Announced(r) ==
  pc[r] = "announce" =>
    \A c \in Comp : /\ knew[r][c] = listing[c]
                    /\ listing[c] = "seasons" => found[r][c] = "seasons"

Have(r, c, s) ==
  IF want[r][<<c, s>>] # saw[r][<<c, s>>] THEN want[r][<<c, s>>] ELSE stored[<<c, s>>]
Excused(r, c) == lost[r] \/ Reported(r, c)
Covered(r, c) == \A s \in Source : stored[<<c, s>>] >= since[r][c]

(* How far the competition in hand has come.                                 *)
InProgress(r, c) ==
  /\ stage[r] = "teams" /\ pc[r] = "commit" => Have(r, c, "teams") >= since[r][c]
  /\ stage[r] # "teams" => stored[<<c, "teams">>] >= since[r][c]
  /\ stage[r] = "results" => Have(r, c, "fixtures") >= since[r][c]
  /\ stage[r] = "results" /\ pc[r] = "commit" => Have(r, c, "results") >= since[r][c]
  /\ stage[r] \notin Source => Covered(r, c)

Holds(r, c) == InCompetition(r) /\ comp[r] = c

(* A competition the report does not excuse is still to come, in progress,   *)
(* or stored.                                                                *)
OnItsWay(r, c) ==
  /\ pc[r] = "announce" => found[r][c] = "seasons"
  /\ pc[r] # "announce" =>
       /\ listing[c] = "seasons"
       /\ Holds(r, c) => InProgress(r, c)
       /\ c \notin todo[r] /\ ~Holds(r, c) => Covered(r, c)

Progress(r) ==
  \A c \in Comp :
    pc[r] \notin {"idle", "discover"} /\ since[r][c] > 0 /\ ~Excused(r, c) => OnItsWay(r, c)

Honest(r) == report[r] = "OK" => \A c \in Comp : UpToDate(r, c)

RunInv(r) ==
  /\ InSession(r)
  /\ Announced(r)
  /\ Progress(r)
  /\ pc[r] = "finish" => todo[r] = {}
  /\ Honest(r)

SerialInv ==
  /\ TypeInv
  /\ Alone
  /\ Bounded
  /\ \A r \in Run : RunInv(r)

LEMMA InitSerial == Init => SerialInv
<1> SUFFICES ASSUME Init PROVE SerialInv
  OBVIOUS
<1>1. TypeInv BY InitType
<1>2. Alone /\ Bounded
  BY DEF Init, Alone, Bounded, Nothing
<1>3. ASSUME NEW r \in Run PROVE RunInv(r)
  BY <1>3 DEF Init, RunInv, InSession, Announced, Progress, Honest, Nothing
<1> QED BY <1>1, <1>2, <1>3 DEF SerialInv

LEMMA StoredBounds ==
  ASSUME SerialInv, NEW c \in Comp, NEW s \in Source
  PROVE  /\ stored[<<c, s>>] \in Nat /\ offered[c] \in Nat
         /\ stored[<<c, s>>] <= offered[c]
<1>1. stored[<<c, s>>] \in Version /\ offered[c] \in Version
  BY DEF SerialInv, TypeInv, TypeOK
<1>2. stored[<<c, s>>] <= offered[c]
  BY DEF SerialInv, Bounded
<1> QED BY <1>1, <1>2 DEF Version

(* The rows a run has prepared go to the database, nothing gets older.       *)
LEMMA FlushFacts ==
  ASSUME SerialInv, NEW r \in Run, Flush(r), NEW c \in Comp, NEW s \in Source
  PROVE  /\ stored'[<<c, s>>] = Have(r, c, s)
         /\ stored'[<<c, s>>] >= stored[<<c, s>>]
         /\ stored'[<<c, s>>] <= offered[c]
         /\ want'[r][<<c, s>>] = saw'[r][<<c, s>>]
<1>1. want'[r][<<c, s>>] = saw'[r][<<c, s>>]
  BY DEF SerialInv, TypeInv, TypeOK, Flush, CloseSession
<1>2. stored'[<<c, s>>] = Have(r, c, s)
  BY DEF Flush, Have
<1>3. stored[<<c, s>>] \in Nat /\ offered[c] \in Nat /\ stored[<<c, s>>] <= offered[c]
  BY StoredBounds
<1>4. /\ want[r][<<c, s>>] # saw[r][<<c, s>>] =>
            want[r][<<c, s>>] > stored[<<c, s>>] /\ want[r][<<c, s>>] <= offered[c]
  BY DEF SerialInv, RunInv, InSession
<1>5. Have(r, c, s) >= stored[<<c, s>>] /\ Have(r, c, s) <= offered[c]
  <2>1. want[r][<<c, s>>] \in Nat
    BY DEF SerialInv, TypeInv, TypeOK, Version
  <2> QED BY <1>3, <1>4, <2>1 DEF Have
<1> QED BY <1>1, <1>2, <1>5

(* What a step of run r changes of the other runs and of what is stored.     *)
Frame(r) ==
  /\ offered' = offered
  /\ \A c \in Comp, s \in Source :
       stored'[<<c, s>>] >= stored[<<c, s>>] /\ stored'[<<c, s>>] <= offered[c]
  /\ \A c \in Comp : listing[c] = "seasons" => listing'[c] = "seasons"
  /\ \A q \in Run \ {r} :
       /\ pc'[q] = pc[q] /\ want'[q] = want[q] /\ saw'[q] = saw[q]
       /\ report'[q] = report[q] /\ since'[q] = since[q]
  /\ \A c \in Comp : since'[r][c] = since[r][c] \/ since'[r][c] = 0 \/ since'[r][c] = offered[c]

(* It is enough to look at the run that takes the step.                      *)
LEMMA OneRun ==
  ASSUME SerialInv, TypeInv', NEW r \in Run, Frame(r), RunInv(r)',
         pc[r] # "idle" \/ Quiet
  PROVE  SerialInv'
<1>1. \A q \in Run \ {r} : pc[q] = "idle" /\ pc'[q] = "idle"
  BY DEF SerialInv, Alone, Quiet, Frame
<1>2. Alone'
  BY <1>1 DEF Alone
<1>3. Bounded'
  <2>1. \A c \in Comp, s \in Source : stored'[<<c, s>>] <= offered'[c]
    BY DEF Frame
  <2>2. ASSUME NEW q \in Run, NEW c \in Comp PROVE since'[q][c] <= offered'[c]
    <3>1. since[q][c] <= offered[c] /\ offered[c] \in Nat
      BY DEF SerialInv, Bounded, TypeInv, TypeOK, Version
    <3>2. CASE q = r BY <3>1, <3>2 DEF Frame
    <3>3. CASE q # r BY <3>1, <3>3 DEF Frame
    <3> QED BY <3>2, <3>3
  <2> QED BY <2>1, <2>2 DEF Bounded
<1>4. ASSUME NEW q \in Run \ {r} PROVE RunInv(q)'
  <2>1. InSession(q)'
    BY <1>1 DEF Frame, SerialInv, RunInv, InSession
  <2>2. Announced(q)' /\ Progress(q)' /\ (pc'[q] = "finish" => todo'[q] = {})
    BY <1>1 DEF Announced, Progress
  <2>3. Honest(q)'
    <3> SUFFICES ASSUME report'[q] = "OK", NEW c \in Comp, since'[q][c] > 0
                 PROVE  listing'[c] = "seasons" /\ \A s \in Source : stored'[<<c, s>>] >= since'[q][c]
      BY DEF Honest, UpToDate
    <3>1. listing[c] = "seasons" /\ \A s \in Source : stored[<<c, s>>] >= since[q][c]
      BY DEF Frame, SerialInv, RunInv, Honest, UpToDate
    <3>2. ASSUME NEW s \in Source PROVE stored'[<<c, s>>] >= since'[q][c]
      <4>1. stored[<<c, s>>] \in Nat /\ stored'[<<c, s>>] \in Nat /\ since[q][c] \in Nat
        BY DEF SerialInv, TypeInv, TypeOK, Version
      <4>2. stored'[<<c, s>>] >= stored[<<c, s>>] /\ since'[q][c] = since[q][c]
        BY DEF Frame
      <4> QED BY <3>1, <4>1, <4>2
    <3> QED BY <3>1, <3>2 DEF Frame
  <2> QED BY <2>1, <2>2, <2>3 DEF RunInv
<1> QED BY <1>2, <1>3, <1>4 DEF SerialInv

(* A step that writes nothing to the database.                               *)
LEMMA QuietFrame ==
  ASSUME SerialInv, NEW r \in Run, offered' = offered, stored' = stored, listing' = listing,
         \A q \in Run \ {r} :
           /\ pc'[q] = pc[q] /\ want'[q] = want[q] /\ saw'[q] = saw[q]
           /\ report'[q] = report[q] /\ since'[q] = since[q],
         \A c \in Comp : since'[r][c] = since[r][c] \/ since'[r][c] = 0 \/ since'[r][c] = offered[c]
  PROVE  Frame(r)
<1>1. \A c \in Comp, s \in Source : stored[<<c, s>>] \in Nat /\ stored[<<c, s>>] <= offered[c]
  BY StoredBounds
<1> QED BY <1>1 DEF Frame

(* A run that is over keeps nothing, and has only to answer for its report.  *)
LEMMA IdleRun ==
  ASSUME NEW r \in Run, pc'[r] = "idle", want'[r] = saw'[r], report'[r] # "OK"
  PROVE  RunInv(r)'
BY DEF RunInv, InSession, Announced, Progress, Honest

LEMMA BeginStep ==
  ASSUME SerialInv, TypeInv', NEW r \in Run, Quiet, Begin(r)
  PROVE  SerialInv'
<1> USE DEF Begin, GoTo, dbVars, discoveryVars, sessionVars, productVars
<1>1. Frame(r)
  BY ZenonT(30), QuietFrame DEF SerialInv, TypeInv, TypeOK
<1>2. pc[r] = "idle" /\ pc'[r] = "discover" /\ report'[r] = "none"
  BY DEF SerialInv, TypeInv, TypeOK
<1>3. InSession(r)'
  BY <1>2 DEF SerialInv, RunInv, InSession
<1>4. RunInv(r)'
  BY <1>2, <1>3 DEF RunInv, Announced, Progress, Honest
<1> QED BY <1>1, <1>4, OneRun

LEMMA OverStep ==
  ASSUME SerialInv, TypeInv', NEW r \in Run, NEW how \in Report \ {"OK"}, pc[r] # "idle",
         Over(r, how), CloseSession(r), UNCHANGED <<offered, dbVars>>
  PROVE  SerialInv'
<1> USE DEF Over, CloseSession, GoTo, dbVars
<1>1. Frame(r)
  <2>1. /\ \A q \in Run \ {r} : since'[q] = since[q]
        /\ \A c \in Comp : since'[r][c] = 0
    BY DEF SerialInv, TypeInv, TypeOK
  <2>2. \A q \in Run \ {r} :
          pc'[q] = pc[q] /\ want'[q] = want[q] /\ saw'[q] = saw[q] /\ report'[q] = report[q]
    BY DEF SerialInv, TypeInv, TypeOK
  <2> QED BY <2>1, <2>2, QuietFrame
<1>2. pc'[r] = "idle" /\ want'[r] = saw'[r] /\ report'[r] # "OK"
  BY DEF SerialInv, TypeInv, TypeOK
<1> QED BY <1>1, <1>2, IdleRun, OneRun

LEMMA DiscoveryFailsStep ==
  ASSUME SerialInv, TypeInv', NEW r \in Run, DiscoveryFails(r)
  PROVE  SerialInv'
<1> USE DEF DiscoveryFails, GoTo, dbVars, discoveryVars, sessionVars, productVars
<1>1. Frame(r)
  BY QuietFrame DEF SerialInv, TypeInv, TypeOK
<1>2. pc[r] = "discover" /\ pc'[r] = "pick" /\ lost'[r]
  BY DEF SerialInv, TypeInv, TypeOK
<1>3. InSession(r)'
  BY <1>2 DEF SerialInv, RunInv, InSession
<1>4. Honest(r)'
  BY DEF SerialInv, RunInv, Honest, UpToDate
<1>5. RunInv(r)'
  BY <1>2, <1>3, <1>4 DEF RunInv, Announced, Progress, Excused
<1> QED BY <1>1, <1>2, <1>5, OneRun

LEMMA DiscoverStep ==
  ASSUME SerialInv, TypeInv', NEW r \in Run, NEW broken \in SUBSET Listed, Discover(r, broken)
  PROVE  SerialInv'
<1> USE DEF Discover, GoTo, dbVars, sessionVars, productVars
<1>1. Frame(r)
  BY QuietFrame DEF SerialInv, TypeInv, TypeOK
<1>2. pc[r] = "discover" /\ pc'[r] = "announce"
  BY DEF SerialInv, TypeInv, TypeOK
<1>3. InSession(r)'
  BY <1>2 DEF SerialInv, RunInv, InSession
<1>4. Honest(r)'
  BY DEF SerialInv, RunInv, Honest, UpToDate
<1>5. \A c \in Comp : knew'[r][c] = listing'[c] /\ (listing'[c] = "seasons" => found'[r][c] = "seasons")
  BY DEF SerialInv, TypeInv, TypeOK
<1>6. ASSUME NEW c \in Comp, since'[r][c] > 0, ~Excused(r, c)' PROVE found'[r][c] = "seasons"
  <2>1. c \notin broken
    BY <1>6 DEF Excused, Reported, InReport, SerialInv, TypeInv, TypeOK
  <2>2. offered[c] > 0
    BY <1>6 DEF SerialInv, Bounded, TypeInv, TypeOK, Version
  <2> QED BY <2>1, <2>2 DEF Listed, SerialInv, TypeInv, TypeOK
<1>7. Progress(r)'
  BY <1>2, <1>6 DEF Progress, OnItsWay
<1>8. RunInv(r)'
  BY <1>2, <1>3, <1>4, <1>5, <1>7 DEF RunInv, Announced
<1> QED BY <1>1, <1>2, <1>8, OneRun

LEMMA AnnounceStep ==
  ASSUME SerialInv, TypeInv', NEW r \in Run, Announce(r)
  PROVE  SerialInv'
<1> USE DEF Announce, GoTo, sessionVars, productVars, reportVars
<1>1. pc[r] = "announce" /\ pc'[r] = "pick"
  BY DEF SerialInv, TypeInv, TypeOK
<1>2. \A c \in Comp : listing'[c] = found[r][c]
  BY <1>1 DEF SerialInv, RunInv, Announced
<1>3. \A c \in Comp : listing[c] = "seasons" => listing'[c] = "seasons"
  BY <1>1, <1>2 DEF SerialInv, RunInv, Announced
<1>4. \A c \in Comp, s \in Source : stored[<<c, s>>] \in Nat /\ stored[<<c, s>>] <= offered[c]
  BY StoredBounds
<1>5. Frame(r)
  BY <1>3, <1>4 DEF Frame, SerialInv, TypeInv, TypeOK
<1>6. InSession(r)'
  BY <1>1 DEF SerialInv, RunInv, InSession
<1>7. Honest(r)'
  BY <1>3 DEF SerialInv, RunInv, Honest, UpToDate
<1>8. ASSUME NEW c \in Comp, since'[r][c] > 0, ~Excused(r, c)' PROVE OnItsWay(r, c)'
  <2>1. found[r][c] = "seasons"
    BY <1>1, <1>8 DEF SerialInv, RunInv, Progress, Excused, Reported, OnItsWay
  <2>2. c \in todo'[r]
    BY <1>2, <2>1 DEF SerialInv, TypeInv, TypeOK
  <2> QED BY <1>1, <1>2, <2>1, <2>2 DEF OnItsWay, Holds, InCompetition
<1>9. RunInv(r)'
  BY <1>1, <1>6, <1>7, <1>8 DEF RunInv, Announced, Progress
<1> QED BY <1>1, <1>5, <1>9, OneRun

LEMMA PickStep ==
  ASSUME SerialInv, TypeInv', NEW r \in Run, NEW k \in Comp, Pick(r, k)
  PROVE  SerialInv'
<1> USE DEF Pick, GoTo, TurnTo, dbVars, discoveryVars, sessionVars, productVars, reportVars
<1>1. Frame(r)
  BY QuietFrame DEF SerialInv, TypeInv, TypeOK
<1>2. /\ pc[r] = "pick" /\ pc'[r] = "load" /\ k \in todo[r] /\ comp'[r] = k
      /\ todo'[r] = todo[r] \ {k}
      /\ stage'[r] = IF listing[k] = "seasons" THEN "teams" ELSE "models"
  BY DEF SerialInv, TypeInv, TypeOK
<1>3. InSession(r)'
  BY <1>2 DEF SerialInv, RunInv, InSession
<1>4. Honest(r)'
  BY DEF SerialInv, RunInv, Honest, UpToDate
<1>5. ASSUME NEW c \in Comp, since'[r][c] > 0, ~Excused(r, c)' PROVE OnItsWay(r, c)'
  <2>1. listing[c] = "seasons" /\ (c \notin todo[r] => Covered(r, c))
    BY <1>2, <1>5 DEF SerialInv, RunInv, Progress, Excused, Reported, OnItsWay, Holds, InCompetition
  <2>2. CASE c = k
    BY <1>2, <2>1, <2>2 DEF OnItsWay, Holds, InCompetition, InProgress, Source
  <2>3. CASE c # k
    BY <1>2, <2>1, <2>3 DEF OnItsWay, Holds, Covered
  <2> QED BY <2>2, <2>3
<1>6. RunInv(r)'
  BY <1>2, <1>3, <1>4, <1>5 DEF RunInv, Announced, Progress
<1> QED BY <1>1, <1>2, <1>6, OneRun

(* A step of the competition in hand: the others are where they were.        *)
LEMMA InHandStep ==
  ASSUME SerialInv, TypeInv', NEW r \in Run, InCompetition(r), Frame(r), InSession(r)',
         pc'[r] \in {"load", "commit", "store", "pick"},
         UNCHANGED <<listing, since, todo, comp, lost, report>>,
         \A c \in Comp : Excused(r, c) => Excused(r, c)',
         since[r][comp[r]] > 0 /\ ~Excused(r, comp[r])' =>
           IF pc'[r] = "pick" THEN Covered(r, comp[r])' ELSE InProgress(r, comp[r])'
  PROVE  SerialInv'
<1>1. comp[r] \in Comp
  BY DEF SerialInv, TypeInv, InHand
<1>2. \A c \in Comp : Covered(r, c) => Covered(r, c)'
  <2> SUFFICES ASSUME NEW c \in Comp, NEW s \in Source, stored[<<c, s>>] >= since[r][c]
               PROVE  stored'[<<c, s>>] >= since'[r][c]
    BY DEF Covered
  <2>1. stored[<<c, s>>] \in Version /\ stored'[<<c, s>>] \in Version /\ since[r][c] \in Version
    BY DEF SerialInv, TypeInv, TypeOK
  <2>2. stored'[<<c, s>>] >= stored[<<c, s>>] /\ since' = since
    BY DEF Frame
  <2> QED BY <2>1, <2>2 DEF Version
<1>3. Honest(r)'
  BY <1>2 DEF SerialInv, RunInv, Honest, UpToDate, Covered
<1>4. ASSUME NEW c \in Comp, since'[r][c] > 0, ~Excused(r, c)' PROVE OnItsWay(r, c)'
  <2>1. /\ listing[c] = "seasons"
        /\ c \notin todo[r] /\ c # comp[r] => Covered(r, c)
    BY <1>4 DEF SerialInv, RunInv, Progress, OnItsWay, Holds, InCompetition
  <2>2. CASE c = comp[r]
    BY <1>4, <2>1, <2>2 DEF OnItsWay, Holds, InCompetition
  <2>3. CASE c # comp[r]
    BY <1>2, <2>1, <2>3 DEF OnItsWay, Holds
  <2> QED BY <2>2, <2>3
<1>5. RunInv(r)'
  BY <1>3, <1>4 DEF RunInv, Announced, Progress
<1>6. pc[r] # "idle"
  BY DEF InCompetition
<1> QED BY <1>5, <1>6, OneRun

(* A note never takes one back, and leaves the other competitions alone.     *)
LEMMA NoteFacts ==
  ASSUME SerialInv, NEW r \in Run, comp[r] \in Comp, NEW kinds \in SUBSET Kind, Note(r, kinds)
  PROVE  /\ \A c \in Comp, k \in Kind : <<c, k>> \in errs[r] => <<c, k>> \in errs'[r]
         /\ \A c \in Comp, k \in Kind :
              <<c, k>> \in errs'[r] => <<c, k>> \in errs[r] \/ (c = comp[r] /\ k \in kinds)
         /\ \A k \in kinds : <<comp[r], k>> \in errs'[r]
BY DEF Note, SerialInv, TypeInv, TypeOK

LEMMA NoteExcuses ==
  ASSUME SerialInv, NEW r \in Run, comp[r] \in Comp, NEW kinds \in SUBSET Kind, Note(r, kinds),
         lost' = lost
  PROVE  /\ \A c \in Comp : Excused(r, c) => Excused(r, c)'
         /\ kinds \intersect InReport # {} => \A c \in Comp : c = comp[r] => Excused(r, c)'
         /\ kinds \intersect InReport = {} => \A c \in Comp : Excused(r, c)' <=> Excused(r, c)
<1>1. /\ \A c \in Comp, k \in Kind : <<c, k>> \in errs[r] => <<c, k>> \in errs'[r]
      /\ \A c \in Comp, k \in Kind :
           <<c, k>> \in errs'[r] => <<c, k>> \in errs[r] \/ (c = comp[r] /\ k \in kinds)
      /\ \A k \in kinds : <<comp[r], k>> \in errs'[r]
  BY NoteFacts
<1>2. InReport \subseteq Kind
  BY DEF InReport, Kind
<1>3. \A c \in Comp : Reported(r, c) => Reported(r, c)'
  BY <1>1, <1>2 DEF Reported
<1>4. ASSUME kinds \intersect InReport # {}, NEW c \in Comp, c = comp[r]
      PROVE  Reported(r, c)'
  <2>1. PICK k \in InReport : k \in kinds
    BY <1>4
  <2>2. <<c, k>> \in errs'[r]
    BY <1>1, <1>4, <2>1
  <2> QED BY <2>1, <2>2 DEF Reported
<1>5. kinds \intersect InReport = {} => \A c \in Comp : Reported(r, c)' => Reported(r, c)
  BY <1>1, <1>2 DEF Reported
<1> QED BY <1>3, <1>4, <1>5 DEF Excused

(* A step that lists the competition in hand.                                *)
LEMMA ListedStep ==
  ASSUME SerialInv, TypeInv', NEW r \in Run, NEW kinds \in SUBSET InReport,
         InCompetition(r), Frame(r), InSession(r)', pc'[r] \in {"load", "commit", "pick"},
         kinds # {}, Note(r, kinds),
         UNCHANGED <<listing, since, todo, comp, lost, report>>
  PROVE  SerialInv'
<1>1. comp[r] \in Comp
  BY DEF SerialInv, TypeInv, InHand
<1>2. kinds \in SUBSET Kind /\ kinds \intersect InReport # {}
  BY DEF InReport, Kind
<1>3. /\ \A c \in Comp : c = comp[r] => Excused(r, c)'
      /\ \A c \in Comp : Excused(r, c) => Excused(r, c)'
  BY <1>1, <1>2, NoteExcuses
<1>4. Excused(r, comp[r])'
  BY <1>1, <1>3
<1> QED BY <1>3, <1>4, InHandStep

LEMMA FailedStep ==
  ASSUME SerialInv, TypeInv', NEW r \in Run, TeamsFail(r) \/ FixturesFail(r)
  PROVE  SerialInv'
<1> USE DEF TeamsFail, FixturesFail, TurnTo, dbVars, discoveryVars, sessionVars, productVars
<1>1. Frame(r)
  BY QuietFrame DEF SerialInv, TypeInv, TypeOK
<1>2. pc'[r] = "load" /\ InCompetition(r) /\ pc[r] # "idle"
  BY DEF InCompetition, SerialInv, TypeInv, TypeOK
<1>3. InSession(r)'
  BY DEF SerialInv, RunInv, InSession
<1>4. {"listed"} \in SUBSET InReport /\ {"listed"} # {}
  BY DEF InReport
<1>5. Note(r, {"listed"})
  OBVIOUS
<1> QED BY <1>1, <1>2, <1>3, <1>4, <1>5, ListedStep

LEMMA RaisesStep ==
  ASSUME SerialInv, TypeInv', NEW r \in Run, Raises(r)
  PROVE  SerialInv'
<1> USE DEF Raises, GoTo, dbVars, discoveryVars, sessionVars
<1>1. Frame(r)
  BY QuietFrame DEF SerialInv, TypeInv, TypeOK
<1>2. pc'[r] = "pick" /\ InCompetition(r)
  BY DEF SerialInv, TypeInv, TypeOK
<1>3. InSession(r)'
  BY <1>2 DEF SerialInv, RunInv, InSession
<1>4. {"exception"} \in SUBSET InReport /\ {"exception"} # {}
  BY DEF InReport
<1>5. Note(r, {"exception"})
  OBVIOUS
<1> QED BY <1>1, <1>2, <1>3, <1>4, <1>5, ListedStep

(* What the invariant says of the competition in hand.                       *)
LEMMA Current ==
  ASSUME SerialInv, NEW r \in Run, InCompetition(r)
  PROVE  /\ comp[r] \in Comp
         /\ since[r][comp[r]] \in Nat /\ since[r][comp[r]] <= offered[comp[r]]
         /\ since[r][comp[r]] > 0 /\ ~Excused(r, comp[r]) => InProgress(r, comp[r])
<1>1. comp[r] \in Comp
  BY DEF SerialInv, TypeInv, InHand
<1>2. since[r][comp[r]] \in Nat
  BY <1>1 DEF SerialInv, TypeInv, TypeOK, Version
<1>3. since[r][comp[r]] <= offered[comp[r]]
  BY <1>1 DEF SerialInv, Bounded
<1>4. since[r][comp[r]] > 0 /\ ~Excused(r, comp[r]) => InProgress(r, comp[r])
  BY <1>1 DEF SerialInv, RunInv, Progress, OnItsWay, Holds, InCompetition
<1> QED BY <1>1, <1>2, <1>3, <1>4

(* The rows of one source are prepared, the others are left as they are.     *)
LEMMA PrepareFacts ==
  ASSUME SerialInv, NEW r \in Run, NEW s \in Source, NEW v \in Version,
         comp[r] \in Comp, v >= stored[<<comp[r], s>>], v <= offered[comp[r]],
         Prepare(r, s, v), pc'[r] # "idle", UNCHANGED <<offered, stored, comp>>
  PROVE  /\ InSession(r)'
         /\ Have(r, comp[r], s)' = v
         /\ \A t \in Source \ {s} : Have(r, comp[r], t)' = Have(r, comp[r], t)
         /\ \A q \in Run \ {r} : want'[q] = want[q] /\ saw'[q] = saw[q]
<1>1. /\ \A q \in Run \ {r} : want'[q] = want[q] /\ saw'[q] = saw[q]
      /\ want'[r] = [want[r] EXCEPT ![<<comp[r], s>>] = v]
      /\ saw'[r] = [saw[r] EXCEPT ![<<comp[r], s>>] = stored[<<comp[r], s>>]]
  BY DEF Prepare, SerialInv, TypeInv, TypeOK
<1>2. /\ want[r] \in [Comp \X Source -> Version] /\ saw[r] \in [Comp \X Source -> Version]
      /\ <<comp[r], s>> \in Comp \X Source
  BY DEF SerialInv, TypeInv, TypeOK
<1>3. want'[r][<<comp[r], s>>] = v /\ saw'[r][<<comp[r], s>>] = stored[<<comp[r], s>>]
  BY <1>1, <1>2
<1>4. ASSUME NEW c \in Comp, NEW t \in Source, c # comp[r] \/ t # s
      PROVE  want'[r][<<c, t>>] = want[r][<<c, t>>] /\ saw'[r][<<c, t>>] = saw[r][<<c, t>>]
  <2>1. <<c, t>> # <<comp[r], s>> /\ <<c, t>> \in Comp \X Source
    BY <1>4
  <2> QED BY <1>1, <1>2, <2>1
<1>5. stored[<<comp[r], s>>] \in Nat /\ v \in Nat /\ offered[comp[r]] \in Nat
  BY StoredBounds DEF Version
<1>6. Have(r, comp[r], s)' = v
  BY <1>3 DEF Have
<1>7. \A t \in Source \ {s} : Have(r, comp[r], t)' = Have(r, comp[r], t)
  BY <1>4 DEF Have
<1>8. InSession(r)'
  <2> SUFFICES ASSUME NEW c \in Comp, NEW t \in Source, want'[r][<<c, t>>] # saw'[r][<<c, t>>]
               PROVE  /\ saw'[r][<<c, t>>] = stored[<<c, t>>]
                      /\ want'[r][<<c, t>>] > stored[<<c, t>>]
                      /\ want'[r][<<c, t>>] <= offered[c]
    BY DEF InSession
  <2>1. CASE c = comp[r] /\ t = s
    BY <1>3, <1>5, <2>1
  <2>2. CASE c # comp[r] \/ t # s
    BY <1>4, <2>2 DEF SerialInv, RunInv, InSession
  <2> QED BY <2>1, <2>2
<1> QED BY <1>1, <1>6, <1>7, <1>8

LEMMA LoadTeamsStep ==
  ASSUME SerialInv, TypeInv', NEW r \in Run, LoadTeams(r)
  PROVE  SerialInv'
<1> USE DEF LoadTeams, GoTo, dbVars, discoveryVars, productVars, reportVars
<1>1. InCompetition(r) /\ pc'[r] = "commit"
  BY DEF InCompetition, SerialInv, TypeInv, TypeOK
<1>2. comp[r] \in Comp /\ since[r][comp[r]] <= offered[comp[r]]
  BY <1>1, Current
<1>3. /\ offered[comp[r]] \in Version
      /\ offered[comp[r]] >= stored[<<comp[r], "teams">>] /\ offered[comp[r]] <= offered[comp[r]]
  <2>1. "teams" \in Source BY DEF Source
  <2>2. offered[comp[r]] \in Version BY <1>2 DEF SerialInv, TypeInv, TypeOK
  <2> QED BY <1>2, <2>1, <2>2, StoredBounds
<1>4. /\ InSession(r)' /\ Have(r, comp[r], "teams")' = offered[comp[r]]
      /\ \A q \in Run \ {r} : want'[q] = want[q] /\ saw'[q] = saw[q]
  BY <1>1, <1>2, <1>3, PrepareFacts DEF Source
<1>5. Frame(r)
  BY <1>4, QuietFrame DEF SerialInv, TypeInv, TypeOK
<1>6. InProgress(r, comp[r])'
  BY <1>1, <1>2, <1>4 DEF InProgress, Source
<1> QED BY <1>1, <1>4, <1>5, <1>6, InHandStep DEF Excused, Reported

LEMMA LoadFixturesStep ==
  ASSUME SerialInv, TypeInv', NEW r \in Run, LoadFixtures(r)
  PROVE  SerialInv'
<1> USE DEF LoadFixtures, TurnTo, dbVars, discoveryVars, productVars
<1>1. InCompetition(r) /\ pc' = pc /\ pc[r] = "load" /\ stage[r] = "fixtures" /\ stage'[r] = "results"
  BY DEF InCompetition, SerialInv, TypeInv, TypeOK
<1>2. /\ comp[r] \in Comp
      /\ since[r][comp[r]] \in Nat /\ since[r][comp[r]] <= offered[comp[r]]
      /\ since[r][comp[r]] > 0 /\ ~Excused(r, comp[r]) => InProgress(r, comp[r])
  BY <1>1, Current
<1>3. PICK v \in Storable(comp[r]), kinds \in SUBSET {"skipped"} :
        Prepare(r, "fixtures", v) /\ Note(r, kinds)
  OBVIOUS
<1>9. \A c \in Comp : Excused(r, c)' <=> Excused(r, c)
  <2>1. kinds \in SUBSET Kind /\ kinds \intersect InReport = {}
    BY DEF Kind, InReport
  <2> QED BY <1>2, <1>3, <2>1, NoteExcuses
<1>4. /\ stored[<<comp[r], "teams">>] \in Version /\ stored[<<comp[r], "fixtures">>] \in Version
      /\ offered[comp[r]] \in Version
      /\ stored[<<comp[r], "teams">>] <= offered[comp[r]]
      /\ stored[<<comp[r], "fixtures">>] <= offered[comp[r]]
  <2>1. "teams" \in Source /\ "fixtures" \in Source BY DEF Source
  <2>2. /\ stored[<<comp[r], "teams">>] \in Version /\ stored[<<comp[r], "fixtures">>] \in Version
        /\ offered[comp[r]] \in Version
    BY <1>2, <2>1 DEF SerialInv, TypeInv, TypeOK
  <2> QED BY <1>2, <2>1, <2>2, StoredBounds
<1>5. /\ v \in Version /\ v >= stored[<<comp[r], "fixtures">>] /\ v <= offered[comp[r]]
      /\ v = offered[comp[r]] \/ v >= stored[<<comp[r], "teams">>]
  BY <1>4 DEF Storable, Version
<1>6. /\ InSession(r)' /\ Have(r, comp[r], "fixtures")' = v
      /\ \A q \in Run \ {r} : want'[q] = want[q] /\ saw'[q] = saw[q]
  BY <1>1, <1>2, <1>3, <1>5, PrepareFacts DEF Source
<1>7. Frame(r)
  BY <1>6, QuietFrame DEF SerialInv, TypeInv, TypeOK
<1>8. ASSUME since[r][comp[r]] > 0, ~Excused(r, comp[r])' PROVE InProgress(r, comp[r])'
  <2>1. stored[<<comp[r], "teams">>] >= since[r][comp[r]]
    BY <1>1, <1>2, <1>8, <1>9 DEF InProgress
  <2>2. v >= since[r][comp[r]]
    BY <1>2, <1>4, <1>5, <2>1 DEF Version
  <2> QED BY <1>1, <1>6, <2>1, <2>2 DEF InProgress, Source
<1> QED BY <1>1, <1>6, <1>7, <1>8, <1>9, InHandStep

LEMMA LoadResultsStep ==
  ASSUME SerialInv, TypeInv', NEW r \in Run, NEW kinds \in SUBSET {"listed"}, LoadResults(r, kinds)
  PROVE  SerialInv'
<1> USE DEF LoadResults, GoTo, dbVars, discoveryVars, productVars
<1>1. /\ InCompetition(r) /\ pc[r] = "load" /\ pc'[r] = "commit"
      /\ stage[r] = "results" /\ stage' = stage
  BY DEF InCompetition, SerialInv, TypeInv, TypeOK
<1>2. /\ comp[r] \in Comp
      /\ since[r][comp[r]] \in Nat /\ since[r][comp[r]] <= offered[comp[r]]
      /\ since[r][comp[r]] > 0 /\ ~Excused(r, comp[r]) => InProgress(r, comp[r])
  BY <1>1, Current
<1>3. PICK v \in {stored[<<comp[r], "results">>], offered[comp[r]]} :
        (v = offered[comp[r]] \/ kinds # {}) /\ Prepare(r, "results", v)
  OBVIOUS
<1>4. v \in Version /\ v >= stored[<<comp[r], "results">>] /\ v <= offered[comp[r]]
  <2>1. "results" \in Source BY DEF Source
  <2>2. stored[<<comp[r], "results">>] \in Version /\ offered[comp[r]] \in Version
    BY <1>2, <2>1 DEF SerialInv, TypeInv, TypeOK
  <2>3. stored[<<comp[r], "results">>] <= offered[comp[r]]
    BY <1>2, <2>1, StoredBounds
  <2> QED BY <2>2, <2>3 DEF Version
<1>5. /\ InSession(r)' /\ Have(r, comp[r], "results")' = v
      /\ Have(r, comp[r], "fixtures")' = Have(r, comp[r], "fixtures")
      /\ \A q \in Run \ {r} : want'[q] = want[q] /\ saw'[q] = saw[q]
  BY <1>1, <1>2, <1>3, <1>4, PrepareFacts DEF Source
<1>6. Frame(r)
  BY <1>5, QuietFrame DEF SerialInv, TypeInv, TypeOK
<1>7. CASE kinds # {}
  <2>1. kinds \in SUBSET InReport BY DEF InReport
  <2> QED BY <1>1, <1>5, <1>6, <1>7, <2>1, ListedStep
<1>8. CASE kinds = {}
  <2>1. \A c \in Comp : Excused(r, c)' <=> Excused(r, c)
    BY <1>2, <1>8, NoteExcuses DEF Kind, InReport
  <2>2. ASSUME since[r][comp[r]] > 0, ~Excused(r, comp[r])' PROVE InProgress(r, comp[r])'
    BY <1>1, <1>2, <1>3, <1>5, <1>8, <2>1, <2>2 DEF InProgress, Source
  <2> QED BY <1>1, <1>5, <1>6, <2>1, <2>2, InHandStep
<1> QED BY <1>7, <1>8

(* A step that commits: what was prepared is stored.                         *)
LEMMA FlushFrame ==
  ASSUME SerialInv, NEW r \in Run, Flush(r), UNCHANGED <<offered, listing>>,
         \A q \in Run \ {r} : pc'[q] = pc[q] /\ report'[q] = report[q] /\ since'[q] = since[q],
         \A c \in Comp : since'[r][c] = since[r][c] \/ since'[r][c] = 0
  PROVE  Frame(r) /\ InSession(r)'
<1>1. \A c \in Comp, s \in Source :
        /\ stored'[<<c, s>>] >= stored[<<c, s>>] /\ stored'[<<c, s>>] <= offered[c]
        /\ want'[r][<<c, s>>] = saw'[r][<<c, s>>]
  BY FlushFacts
<1>2. \A q \in Run \ {r} : want'[q] = want[q] /\ saw'[q] = saw[q]
  BY DEF Flush, CloseSession, SerialInv, TypeInv, TypeOK
<1> QED BY <1>1, <1>2 DEF Frame, InSession

LEMMA CommitStep ==
  ASSUME SerialInv, TypeInv', NEW r \in Run, Commit(r)
  PROVE  SerialInv'
<1> USE DEF Commit, GoTo, TurnTo, discoveryVars, productVars, reportVars
<1>1. /\ InCompetition(r) /\ pc[r] = "commit" /\ pc'[r] = "load" /\ stage[r] \in {"teams", "results"}
      /\ stage'[r] = IF stage[r] = "teams" THEN "fixtures" ELSE "quality"
  BY DEF InCompetition, SerialInv, TypeInv, TypeOK, InHand
<1>2. /\ comp[r] \in Comp /\ since[r][comp[r]] \in Nat
      /\ since[r][comp[r]] > 0 /\ ~Excused(r, comp[r]) => InProgress(r, comp[r])
  BY <1>1, Current
<1>3. Frame(r) /\ InSession(r)'
  BY FlushFrame DEF SerialInv, TypeInv, TypeOK
<1>4. \A s \in Source : /\ stored'[<<comp[r], s>>] = Have(r, comp[r], s)
                        /\ stored'[<<comp[r], s>>] >= stored[<<comp[r], s>>]
                        /\ stored[<<comp[r], s>>] \in Nat /\ stored'[<<comp[r], s>>] \in Nat
  <2>1. \A s \in Source : /\ stored'[<<comp[r], s>>] = Have(r, comp[r], s)
                          /\ stored'[<<comp[r], s>>] >= stored[<<comp[r], s>>]
    BY <1>2, FlushFacts
  <2>2. \A s \in Source : stored[<<comp[r], s>>] \in Nat /\ stored'[<<comp[r], s>>] \in Nat
    BY <1>2 DEF SerialInv, TypeInv, TypeOK, Version
  <2> QED BY <2>1, <2>2
<1>5. ASSUME since[r][comp[r]] > 0, ~Excused(r, comp[r])' PROVE InProgress(r, comp[r])'
  <2>1. InProgress(r, comp[r])
    BY <1>2, <1>5 DEF Excused, Reported
  <2>2. CASE stage[r] = "teams"
    <3>1. stored'[<<comp[r], "teams">>] >= since[r][comp[r]]
      BY <1>1, <1>4, <2>1, <2>2 DEF InProgress, Source
    <3> QED BY <1>1, <2>2, <3>1 DEF InProgress, Source
  <2>3. CASE stage[r] = "results"
    <3>1. \A s \in Source : stored'[<<comp[r], s>>] >= since[r][comp[r]]
      BY <1>1, <1>2, <1>4, <2>1, <2>3 DEF InProgress, Source
    <3> QED BY <1>1, <2>3, <3>1 DEF InProgress, Covered, Source
  <2> QED BY <1>1, <2>2, <2>3
<1> QED BY <1>1, <1>3, <1>5, InHandStep DEF Excused, Reported

LEMMA ComputeStep ==
  ASSUME SerialInv, TypeInv', NEW r \in Run, Compute(r)
  PROVE  SerialInv'
<1> USE DEF Compute, GoTo, dbVars, discoveryVars, sessionVars, reportVars
<1>1. /\ InCompetition(r) /\ pc'[r] = "store" /\ stage[r] \notin Source
  BY DEF InCompetition, Product, Source, SerialInv, TypeInv, TypeOK
<1>2. Frame(r)
  BY QuietFrame DEF SerialInv, TypeInv, TypeOK
<1>3. InSession(r)'
  BY <1>1 DEF SerialInv, RunInv, InSession
<1>4. ASSUME since[r][comp[r]] > 0, ~Excused(r, comp[r])' PROVE InProgress(r, comp[r])'
  <2>1. InProgress(r, comp[r])
    BY <1>1, <1>4, Current DEF Excused, Reported
  <2> QED BY <1>1, <2>1 DEF InProgress, Covered, Source
<1> QED BY <1>1, <1>2, <1>3, <1>4, InHandStep DEF Excused, Reported

LEMMA StoreStep ==
  ASSUME SerialInv, TypeInv', NEW r \in Run, Store(r)
  PROVE  SerialInv'
<1> USE DEF Store, GoTo, TurnTo, discoveryVars, reportVars
<1>1. /\ InCompetition(r) /\ pc'[r] = "load" /\ stage[r] \in Product
      /\ stage'[r] = After(stage[r])
  BY DEF InCompetition, SerialInv, TypeInv, TypeOK, InHand
<1>2. stage[r] \notin Source /\ stage'[r] \notin Source
  BY <1>1 DEF After, Product, Source
<1>3. Frame(r) /\ InSession(r)'
  BY FlushFrame DEF SerialInv, TypeInv, TypeOK
<1>4. ASSUME since[r][comp[r]] > 0, ~Excused(r, comp[r])' PROVE InProgress(r, comp[r])'
  <2>1. comp[r] \in Comp /\ since[r][comp[r]] \in Nat /\ InProgress(r, comp[r])
    BY <1>1, <1>4, Current DEF Excused, Reported
  <2>2. ASSUME NEW s \in Source PROVE stored'[<<comp[r], s>>] >= since[r][comp[r]]
    <3>1. stored[<<comp[r], s>>] \in Nat /\ stored'[<<comp[r], s>>] \in Nat
      BY <2>1 DEF SerialInv, TypeInv, TypeOK, Version
    <3>2. stored'[<<comp[r], s>>] >= stored[<<comp[r], s>>]
      BY <2>1, FlushFacts
    <3>3. stored[<<comp[r], s>>] >= since[r][comp[r]]
      BY <1>2, <2>1 DEF InProgress, Covered
    <3> QED BY <2>1, <3>1, <3>2, <3>3
  <2> QED BY <1>1, <1>2, <2>2 DEF InProgress, Covered, Source
<1> QED BY <1>1, <1>3, <1>4, InHandStep DEF Excused, Reported

LEMMA LookStep ==
  ASSUME SerialInv, TypeInv', NEW r \in Run, Look(r)
  PROVE  SerialInv'
<1> USE DEF Look, GoTo, dbVars, discoveryVars, sessionVars, productVars
<1>1. InCompetition(r) /\ pc'[r] = "pick" /\ stage[r] \notin Source
  BY DEF InCompetition, Source, SerialInv, TypeInv, TypeOK
<1>2. Frame(r)
  BY QuietFrame DEF SerialInv, TypeInv, TypeOK
<1>3. InSession(r)'
  BY <1>1 DEF SerialInv, RunInv, InSession
<1>4. PICK kinds \in SUBSET {"listed"} : Note(r, kinds)
  OBVIOUS
<1>5. CASE kinds # {}
  <2>1. kinds \in SUBSET InReport BY DEF InReport
  <2> QED BY <1>1, <1>2, <1>3, <1>4, <1>5, <2>1, ListedStep
<1>6. CASE kinds = {}
  <2>1. \A c \in Comp : Excused(r, c)' <=> Excused(r, c)
    BY <1>1, <1>4, <1>6, Current, NoteExcuses DEF Kind, InReport
  <2>2. ASSUME since[r][comp[r]] > 0, ~Excused(r, comp[r])' PROVE Covered(r, comp[r])'
    <3>1. comp[r] \in Comp /\ InProgress(r, comp[r])
      BY <1>1, <2>1, <2>2, Current
    <3> QED BY <1>1, <3>1 DEF InProgress, Covered
  <2> QED BY <1>1, <1>2, <1>3, <2>1, <2>2, InHandStep
<1> QED BY <1>5, <1>6

(* The steps after the last competition: nothing that is stored gets older.  *)
LEMMA CoveredStays ==
  ASSUME SerialInv, TypeInv', NEW r \in Run, Frame(r), since' = since,
         NEW c \in Comp, Covered(r, c)
  PROVE  Covered(r, c)'
<1> SUFFICES ASSUME NEW s \in Source PROVE stored'[<<c, s>>] >= since[r][c]
  BY DEF Covered
<1>1. stored[<<c, s>>] \in Version /\ stored'[<<c, s>>] \in Version /\ since[r][c] \in Version
  BY DEF SerialInv, TypeInv, TypeOK
<1>2. stored'[<<c, s>>] >= stored[<<c, s>>] /\ stored[<<c, s>>] >= since[r][c]
  BY DEF Frame, Covered
<1> QED BY <1>1, <1>2 DEF Version

LEMMA AllPickedStep ==
  ASSUME SerialInv, TypeInv', NEW r \in Run, AllPicked(r)
  PROVE  SerialInv'
<1> USE DEF AllPicked, GoTo, discoveryVars, productVars, reportVars
<1>1. /\ pc[r] = "pick" /\ pc'[r] = "finish" /\ todo[r] = {} /\ todo' = todo
      /\ \A q \in Run \ {r} : pc'[q] = pc[q]
  BY DEF SerialInv, TypeInv, TypeOK
<1>2. Frame(r) /\ InSession(r)'
  <2>1. CASE Flush(r)
    BY <1>1, <2>1, FlushFrame
  <2>2. CASE UNCHANGED <<stored, sessionVars>>
    BY <1>1, <2>2, QuietFrame DEF sessionVars, SerialInv, RunInv, InSession
  <2> QED BY <2>1, <2>2
<1>3. Honest(r)'
  BY <1>2, CoveredStays DEF SerialInv, RunInv, Honest, UpToDate, Covered
<1>4. ASSUME NEW c \in Comp, since[r][c] > 0, ~Excused(r, c)' PROVE OnItsWay(r, c)'
  <2>1. listing[c] = "seasons" /\ Covered(r, c)
    BY <1>1, <1>4 DEF SerialInv, RunInv, Progress, Excused, Reported, OnItsWay, Holds, InCompetition
  <2>2. Covered(r, c)'
    BY <1>2, <2>1, CoveredStays
  <2> QED BY <1>1, <2>1, <2>2 DEF OnItsWay, Holds, InCompetition
<1>5. RunInv(r)'
  BY <1>1, <1>2, <1>3, <1>4 DEF RunInv, Announced, Progress
<1> QED BY <1>1, <1>2, <1>5, OneRun

LEMMA FinishStep ==
  ASSUME SerialInv, TypeInv', NEW r \in Run, Finish(r)
  PROVE  SerialInv'
<1> USE DEF Finish, Over, GoTo
<1>1. /\ pc[r] = "finish" /\ pc'[r] = "idle" /\ todo[r] = {} /\ report'[r] = SystemStatus(r)
      /\ \A q \in Run \ {r} : pc'[q] = pc[q] /\ report'[q] = report[q]
  BY DEF SerialInv, TypeInv, TypeOK, RunInv
<1>2. /\ \A q \in Run \ {r} : since'[q] = since[q]
      /\ \A c \in Comp : since'[r][c] = since[r][c] \/ since'[r][c] = 0
  BY DEF SerialInv, TypeInv, TypeOK
<1>3. Frame(r) /\ InSession(r)'
  BY <1>1, <1>2, FlushFrame
<1>4. ASSUME SystemStatus(r) = "OK", NEW c \in Comp PROVE UpToDate(r, c)'
  <2>1. ~lost[r] /\ ~Reported(r, c) /\ since' = since
    BY <1>4 DEF SystemStatus
  <2>2. CASE since[r][c] > 0
    <3>1. ~Excused(r, c)
      BY <2>1 DEF Excused
    <3>2. listing[c] = "seasons" /\ Covered(r, c)
      BY <1>1, <2>2, <3>1 DEF SerialInv, RunInv, Progress, OnItsWay, Holds, InCompetition
    <3>3. Covered(r, c)'
      BY <1>3, <2>1, <3>2, CoveredStays
    <3> QED BY <3>2, <3>3 DEF UpToDate, Covered
  <2>3. CASE ~(since[r][c] > 0)
    BY <2>1, <2>3 DEF UpToDate
  <2> QED BY <2>2, <2>3
<1>5. Honest(r)'
  BY <1>1, <1>4 DEF Honest
<1>6. RunInv(r)'
  BY <1>1, <1>3, <1>5 DEF RunInv, Announced, Progress
<1> QED BY <1>1, <1>3, <1>6, OneRun

(* The provider only moves on.                                               *)
LEMMA ProviderStep ==
  ASSUME SerialInv, TypeInv', NEW k \in Comp, ProviderMoves(k)
  PROVE  SerialInv'
<1> USE DEF ProviderMoves, dbVars, discoveryVars, sessionVars, productVars, reportVars
<1>1. \A c \in Comp : offered[c] \in Nat /\ offered'[c] \in Nat /\ offered'[c] >= offered[c]
  BY DEF SerialInv, TypeInv, TypeOK, Version
<1>2. Bounded'
  <2>1. ASSUME NEW c \in Comp, NEW s \in Source PROVE stored[<<c, s>>] <= offered'[c]
    BY <1>1, StoredBounds
  <2>2. ASSUME NEW r \in Run, NEW c \in Comp PROVE since[r][c] <= offered'[c]
    <3>1. since[r][c] \in Nat /\ since[r][c] <= offered[c]
      BY DEF SerialInv, TypeInv, TypeOK, Bounded, Version
    <3> QED BY <1>1, <3>1
  <2> QED BY <2>1, <2>2 DEF Bounded
<1>3. ASSUME NEW r \in Run PROVE InSession(r)'
  <2> SUFFICES ASSUME NEW c \in Comp, NEW s \in Source, want[r][<<c, s>>] # saw[r][<<c, s>>]
               PROVE  /\ pc[r] # "idle" /\ saw[r][<<c, s>>] = stored[<<c, s>>]
                      /\ want[r][<<c, s>>] > stored[<<c, s>>] /\ want[r][<<c, s>>] <= offered'[c]
    BY DEF InSession
  <2>1. want[r][<<c, s>>] \in Nat
    BY DEF SerialInv, TypeInv, TypeOK, Version
  <2>2. /\ pc[r] # "idle" /\ saw[r][<<c, s>>] = stored[<<c, s>>]
        /\ want[r][<<c, s>>] > stored[<<c, s>>] /\ want[r][<<c, s>>] <= offered[c]
    BY DEF SerialInv, RunInv, InSession
  <2> QED BY <1>1, <2>1, <2>2
<1>4. ASSUME NEW r \in Run PROVE RunInv(r)'
  BY <1>3 DEF SerialInv, RunInv, Announced, Progress, Excused, Reported, OnItsWay, Holds, InCompetition,
     InProgress, Have, Covered, Honest, UpToDate
<1> QED BY <1>2, <1>4 DEF SerialInv, Alone

LEMMA SerialIsNext == ASSUME [NextSerial]_vars PROVE [Next]_vars
BY DEF NextSerial, Next

LEMMA SerialStep == ASSUME SerialInv, [NextSerial]_vars PROVE SerialInv'
<1>1. TypeInv'
  BY SerialIsNext, StepType DEF SerialInv
<1>2. ASSUME NEW k \in Comp, ProviderMoves(k) PROVE SerialInv'
  BY <1>1, <1>2, ProviderStep
<1>3. ASSUME NEW r \in Run, Quiet, Begin(r) PROVE SerialInv'
  BY <1>1, <1>3, BeginStep
<1>4. ASSUME NEW r \in Run, Dies(r) PROVE SerialInv'
  <2>1. "RAISED" \in Report \ {"OK"} BY DEF Report
  <2> QED BY <1>1, <1>4, <2>1, OverStep DEF Dies
<1>5. ASSUME NEW r \in Run, Step(r), ~Dies(r) PROVE SerialInv'
  <2>1. CASE DiscoveryFails(r) BY <1>1, <2>1, DiscoveryFailsStep
  <2>2. CASE \E broken \in SUBSET Listed : Discover(r, broken) BY <1>1, <2>2, DiscoverStep
  <2>3. CASE Announce(r) BY <1>1, <2>3, AnnounceStep
  <2>4. CASE \E c \in Comp : Pick(r, c) BY <1>1, <2>4, PickStep
  <2>5. CASE AllPicked(r) BY <1>1, <2>5, AllPickedStep
  <2>6. CASE LoadTeams(r) BY <1>1, <2>6, LoadTeamsStep
  <2>7. CASE TeamsFail(r) \/ FixturesFail(r) BY <1>1, <2>7, FailedStep
  <2>8. CASE LoadFixtures(r) BY <1>1, <2>8, LoadFixturesStep
  <2>9. CASE \E kinds \in SUBSET {"listed"} : LoadResults(r, kinds) BY <1>1, <2>9, LoadResultsStep
  <2>10. CASE Commit(r) BY <1>1, <2>10, CommitStep
  <2>11. CASE Compute(r) BY <1>1, <2>11, ComputeStep
  <2>12. CASE Store(r) BY <1>1, <2>12, StoreStep
  <2>13. CASE Look(r) BY <1>1, <2>13, LookStep
  <2>14. CASE Raises(r) BY <1>1, <2>14, RaisesStep
  <2>15. CASE Finish(r) BY <1>1, <2>15, FinishStep
  <2> QED
    BY <1>5, <2>1, <2>2, <2>3, <2>4, <2>5, <2>6, <2>7, <2>8, <2>9, <2>10, <2>11, <2>12, <2>13,
       <2>14, <2>15 DEF Step
<1>6. CASE UNCHANGED vars
  BY <1>1, <1>6 DEF vars, SerialInv, Alone, Bounded, RunInv, InSession, Announced, Progress,
     Excused, Reported, OnItsWay, Holds, InCompetition, InProgress, Have, Covered, Honest, UpToDate
<1> QED BY <1>2, <1>3, <1>4, <1>5, <1>6 DEF NextSerial

LEMMA SerialInvariant == SpecSerial => []SerialInv
BY InitSerial, SerialStep, PTL DEF SpecSerial

(* The system status is "derived from those [lists], never hand-set": one    *)
(* run at a time, OK means that everything is stored but for fixtures the    *)
(* provider did not name the teams of, and it stays so.                      *)
THEOREM ReportIsHonest == SpecSerial => []HonestReport
<1>1. SerialInv => HonestReport
  BY DEF SerialInv, RunInv, Honest, HonestReport
<1> QED BY <1>1, SerialInvariant, PTL
-----------------------------------------------------------------------------
(* What is derived, one run at a time.                                       *)
Clean(r, c) == \A s \in Source : want[r][<<c, s>>] = saw[r][<<c, s>>]
Agrees(c, made) == \A p \in made : derived[<<c, p>>] = Matches(c)

(* The products that are made before this stage.                             *)
Before(s) ==
  CASE s = "params"  -> {"quality"}
    [] s = "models"  -> {"quality", "params"}
    [] s = "weights" -> {"quality", "params", "models"}
    [] s = "drift"   -> Product
    [] OTHER         -> {}

(* Without seasons a competition has no matches, and nothing made of them.   *)
Seasonless(c) ==
  listing[c] # "seasons" =>
    /\ Matches(c) = NoData
    /\ Agrees(c, {"quality", "params"})

(* The competition in hand: what the session holds of it is committed before *)
(* anything is computed, and stays what it was computed from.                *)
InMaking(r, c) ==
  /\ (stage[r] \in {"teams", "fixtures"} /\ pc[r] = "load") \/ stage[r] \notin Source => Clean(r, c)
  /\ stage[r] \notin Source => Agrees(c, Before(stage[r]))
  /\ pc[r] = "store" => basis[r] = Matches(c)

(* A competition that did not raise is still to come, in the making, or made *)
(* of what is stored, with nothing left in the session to change it.         *)
Made(r, c) ==
  /\ c \in todo[r] => Clean(r, c)
  /\ c \notin todo[r] /\ Holds(r, c) => InMaking(r, c)
  /\ c \notin todo[r] /\ ~Holds(r, c) => Clean(r, c) /\ Agrees(c, Product)

Raised(r, c) == <<c, "exception">> \in errs[r]
Unbegun(r) == pc[r] \in {"idle", "discover", "announce"}

Making(r) ==
  /\ \A c \in Comp : Unbegun(r) \/ listing[c] # "seasons" => Clean(r, c)
  /\ InCompetition(r) => comp[r] \notin todo[r]
  /\ InCompetition(r) /\ stage[r] \notin {"models", "weights", "drift"} => listing[comp[r]] = "seasons"
  /\ ~Unbegun(r) => \A c \in Comp : listing[c] # "none" /\ ~Raised(r, c) => Made(r, c)

DerivedInv ==
  /\ SerialInv
  /\ \A c \in Comp : Seasonless(c)
  /\ \A r \in Run : Making(r)
LEMMA InitDerived == Init => DerivedInv
<1> SUFFICES ASSUME Init PROVE DerivedInv
  OBVIOUS
<1>1. SerialInv BY InitSerial
<1>2. ASSUME NEW c \in Comp PROVE Seasonless(c)
  <2>1. Matches(c) = NoData
    BY DEF Init, Matches, NoData, Nothing, Source
  <2>2. Agrees(c, {"quality", "params"})
    BY <2>1 DEF Init, Agrees, Product
  <2> QED BY <2>1, <2>2 DEF Seasonless
<1>3. ASSUME NEW r \in Run PROVE Making(r)
  BY DEF Init, Making, Clean, Unbegun, InCompetition
<1> QED BY <1>1, <1>2, <1>3 DEF DerivedInv

(* The runs that are not under way have nothing in their sessions: it is     *)
(* enough to look at the run that takes the step.                            *)
LEMMA OneMaking ==
  ASSUME SerialInv, SerialInv', NEW r \in Run, pc[r] # "idle" \/ Quiet,
         \A q \in Run \ {r} : pc'[q] = pc[q],
         \A c \in Comp : Seasonless(c)', Making(r)'
  PROVE  DerivedInv'
<1>1. ASSUME NEW q \in Run \ {r} PROVE Making(q)'
  <2>1. pc'[q] = "idle"
    BY DEF SerialInv, Alone, Quiet
  <2>2. \A c \in Comp : Clean(q, c)'
    <3>1. InSession(q)'
      BY DEF SerialInv, RunInv
    <3> QED BY <2>1, <3>1 DEF InSession, Clean
  <2> QED BY <2>1, <2>2 DEF Making, Unbegun, InCompetition
<1> QED BY <1>1 DEF DerivedInv

(* A run that is over, or has not begun, has nothing in its session.         *)
LEMMA IdleMaking ==
  ASSUME SerialInv', NEW r \in Run, pc'[r] = "idle"
  PROVE  Making(r)'
<1>1. \A c \in Comp : Clean(r, c)'
  BY DEF SerialInv, RunInv, InSession, Clean
<1> QED BY <1>1 DEF Making, Unbegun, InCompetition

LEMMA SameSeasonless ==
  ASSUME DerivedInv, UNCHANGED <<listing, stored, derived>>
  PROVE  \A c \in Comp : Seasonless(c)'
BY DEF DerivedInv, Seasonless, Matches, Agrees

(* What was read or prepared is committed; of a competition the session      *)
(* holds nothing of, nothing changes.                                        *)
LEMMA FlushClean ==
  ASSUME SerialInv, NEW r \in Run, Flush(r), NEW c \in Comp
  PROVE  Clean(r, c)' /\ (Clean(r, c) => Matches(c)' = Matches(c))
<1>1. Clean(r, c)'
  BY FlushFacts DEF Clean
<1>2. ASSUME Clean(r, c), NEW s \in Source PROVE stored'[<<c, s>>] = stored[<<c, s>>]
  BY <1>2, FlushFacts DEF Clean, Have
<1> QED BY <1>1, <1>2 DEF Matches, Source

LEMMA PrepareOthers ==
  ASSUME SerialInv, NEW r \in Run, NEW s \in Source, NEW v, Prepare(r, s, v), comp[r] \in Comp,
         NEW c \in Comp, c # comp[r], Clean(r, c)
  PROVE  Clean(r, c)'
<1> SUFFICES ASSUME NEW t \in Source PROVE want'[r][<<c, t>>] = saw'[r][<<c, t>>]
  BY DEF Clean
<1>1. /\ want'[r] = [want[r] EXCEPT ![<<comp[r], s>>] = v]
      /\ saw'[r] = [saw[r] EXCEPT ![<<comp[r], s>>] = stored[<<comp[r], s>>]]
  BY DEF Prepare, SerialInv, TypeInv, TypeOK
<1>2. /\ want[r] \in [Comp \X Source -> Version] /\ saw[r] \in [Comp \X Source -> Version]
      /\ <<c, t>> \in Comp \X Source /\ <<c, t>> # <<comp[r], s>>
  BY DEF SerialInv, TypeInv, TypeOK
<1> QED BY <1>1, <1>2 DEF Clean

(* A step of the competition in hand.                                        *)
LEMMA HandMaking ==
  ASSUME DerivedInv, SerialInv', NEW r \in Run, InCompetition(r),
         UNCHANGED <<listing, todo, comp>>,
         \A q \in Run \ {r} : pc'[q] = pc[q],
         pc'[r] \in {"load", "commit", "store", "pick"},
         \A c \in Comp : Raised(r, c) => Raised(r, c)',
         \A c \in Comp \ {comp[r]} :
           /\ Clean(r, c) => Clean(r, c)' /\ Matches(c)' = Matches(c)
           /\ \A p \in Product : derived'[<<c, p>>] = derived[<<c, p>>],
         Seasonless(comp[r])', listing[comp[r]] # "seasons" => Clean(r, comp[r])',
         pc'[r] # "pick" /\ stage'[r] \notin {"models", "weights", "drift"} =>
           listing[comp[r]] = "seasons",
         listing[comp[r]] # "none" /\ ~Raised(r, comp[r])' =>
           IF pc'[r] = "pick" THEN Clean(r, comp[r])' /\ Agrees(comp[r], Product)'
           ELSE InMaking(r, comp[r])'
  PROVE  DerivedInv'
<1>1. comp[r] \in Comp /\ ~Unbegun(r) /\ ~Unbegun(r)' /\ pc[r] # "idle"
  BY DEF DerivedInv, SerialInv, TypeInv, InHand, InCompetition, Unbegun
<1>2. Making(r)
  BY DEF DerivedInv
<1>3. ASSUME NEW c \in Comp PROVE Seasonless(c)'
  <2>1. CASE c = comp[r]
    BY <2>1
  <2>2. CASE c # comp[r]
    <3> SUFFICES ASSUME listing[c] # "seasons"
                 PROVE  Matches(c)' = NoData /\ Agrees(c, {"quality", "params"})'
      BY DEF Seasonless
    <3>1. Clean(r, c) BY <1>2 DEF Making
    <3>2. Matches(c) = NoData /\ Agrees(c, {"quality", "params"})
      BY DEF DerivedInv, Seasonless
    <3>3. Matches(c)' = Matches(c) /\ \A p \in Product : derived'[<<c, p>>] = derived[<<c, p>>]
      BY <2>2, <3>1
    <3> QED BY <3>2, <3>3 DEF Agrees, Product
  <2> QED BY <2>1, <2>2
<1>4. ASSUME NEW c \in Comp, listing[c] # "seasons" PROVE Clean(r, c)'
  BY <1>2, <1>4 DEF Making
<1>5. ASSUME NEW c \in Comp, listing[c] # "none", ~Raised(r, c)' PROVE Made(r, c)'
  <2>1. Made(r, c)
    BY <1>1, <1>2, <1>5 DEF Making
  <2>2. CASE c = comp[r]
    <3>1. c \notin todo[r]
      BY <1>2, <2>2 DEF Making
    <3>2. Holds(r, c)' <=> pc'[r] # "pick"
      BY <2>2 DEF Holds, InCompetition
    <3> QED BY <1>5, <2>2, <3>1, <3>2 DEF Made
  <2>3. CASE c # comp[r]
    <3>1. ~Holds(r, c) /\ ~Holds(r, c)'
      BY <2>3 DEF Holds
    <3>2. Clean(r, c)
      BY <2>1, <3>1 DEF Made
    <3>3. Clean(r, c)' /\ (Agrees(c, Product) => Agrees(c, Product)')
      BY <2>3, <3>2 DEF Agrees
    <3> QED BY <2>1, <3>1, <3>3 DEF Made
  <2> QED BY <2>2, <2>3
<1>6. Making(r)'
  <2>1. InCompetition(r)' => pc'[r] # "pick"
    BY DEF InCompetition
  <2> QED BY <1>1, <1>2, <1>4, <1>5, <2>1 DEF Making
<1> QED BY <1>1, <1>3, <1>6, OneMaking DEF DerivedInv

(* What the invariant says of the competition in hand.                       *)
LEMMA HandMade ==
  ASSUME DerivedInv, NEW r \in Run, InCompetition(r)
  PROVE  /\ comp[r] \in Comp /\ comp[r] \notin todo[r]
         /\ Seasonless(comp[r])
         /\ listing[comp[r]] # "seasons" => Clean(r, comp[r])
         /\ stage[r] \notin {"models", "weights", "drift"} => listing[comp[r]] = "seasons"
         /\ listing[comp[r]] # "none" /\ ~Raised(r, comp[r]) => InMaking(r, comp[r])
<1>1. comp[r] \in Comp /\ ~Unbegun(r)
  BY DEF DerivedInv, SerialInv, TypeInv, InHand, InCompetition, Unbegun
<1>2. Making(r) /\ Seasonless(comp[r])
  BY <1>1 DEF DerivedInv
<1> QED BY <1>1, <1>2 DEF Making, Made, Holds

LEMMA DerivedNote ==
  ASSUME SerialInv, NEW r \in Run, comp[r] \in Comp, NEW kinds \in SUBSET Kind, Note(r, kinds)
  PROVE  \A c \in Comp : Raised(r, c) => Raised(r, c)'
BY NoteFacts DEF Raised, Kind

LEMMA BeginMaking ==
  ASSUME DerivedInv, SerialInv', NEW r \in Run, Quiet, Begin(r)
  PROVE  DerivedInv'
<1> USE DEF Begin, GoTo, dbVars, discoveryVars, sessionVars, productVars
<1>1. /\ pc[r] = "idle" /\ pc'[r] = "discover"
      /\ \A q \in Run \ {r} : pc'[q] = pc[q]
  BY DEF DerivedInv, SerialInv, TypeInv, TypeOK
<1>2. \A c \in Comp : Clean(r, c)'
  BY <1>1 DEF DerivedInv, SerialInv, RunInv, InSession, Clean
<1>3. Making(r)'
  BY <1>1, <1>2 DEF Making, Unbegun, InCompetition
<1> QED BY <1>1, <1>3, SameSeasonless, OneMaking DEF DerivedInv

LEMMA OverMaking ==
  ASSUME DerivedInv, SerialInv', NEW r \in Run, pc[r] # "idle",
         pc' = [pc EXCEPT ![r] = "idle"], \A c \in Comp : Seasonless(c)'
  PROVE  DerivedInv'
<1>1. pc'[r] = "idle" /\ \A q \in Run \ {r} : pc'[q] = pc[q]
  BY DEF DerivedInv, SerialInv, TypeInv, TypeOK
<1> QED BY <1>1, IdleMaking, OneMaking DEF DerivedInv

LEMMA DiesMaking ==
  ASSUME DerivedInv, SerialInv', NEW r \in Run, Dies(r)
  PROVE  DerivedInv'
BY SameSeasonless, OverMaking DEF Dies, Over, GoTo, dbVars

LEMMA FinishMaking ==
  ASSUME DerivedInv, SerialInv', NEW r \in Run, Finish(r)
  PROVE  DerivedInv'
<1>1. ASSUME NEW c \in Comp PROVE Seasonless(c)'
  <2>1. listing[c] # "seasons" => Clean(r, c)
    BY DEF DerivedInv, Making
  <2>2. listing[c] # "seasons" => Matches(c)' = Matches(c)
    BY <2>1, FlushClean DEF Finish, DerivedInv
  <2> QED BY <2>2 DEF Finish, DerivedInv, Seasonless, Agrees
<1> QED BY <1>1, OverMaking DEF Finish, Over, GoTo

LEMMA DiscoveryFailsMaking ==
  ASSUME DerivedInv, SerialInv', NEW r \in Run, DiscoveryFails(r)
  PROVE  DerivedInv'
<1> USE DEF DiscoveryFails, GoTo, dbVars, discoveryVars, sessionVars, productVars
<1>1. /\ pc[r] = "discover" /\ pc'[r] = "pick" /\ todo'[r] = Known
      /\ \A q \in Run \ {r} : pc'[q] = pc[q]
  BY DEF DerivedInv, SerialInv, TypeInv, TypeOK
<1>2. \A c \in Comp : Clean(r, c)'
  BY <1>1 DEF DerivedInv, Making, Unbegun, Clean
<1>3. Making(r)'
  BY <1>1, <1>2 DEF Making, Unbegun, InCompetition, Made, Known
<1> QED BY <1>1, <1>3, SameSeasonless, OneMaking DEF DerivedInv

LEMMA DiscoverMaking ==
  ASSUME DerivedInv, SerialInv', NEW r \in Run, NEW broken \in SUBSET Listed, Discover(r, broken)
  PROVE  DerivedInv'
<1> USE DEF Discover, GoTo, dbVars, sessionVars, productVars
<1>1. /\ pc[r] = "discover" /\ pc'[r] = "announce"
      /\ \A q \in Run \ {r} : pc'[q] = pc[q]
  BY DEF DerivedInv, SerialInv, TypeInv, TypeOK
<1>2. \A c \in Comp : Clean(r, c)'
  BY <1>1 DEF DerivedInv, Making, Unbegun, Clean
<1>3. Making(r)'
  BY <1>1, <1>2 DEF Making, Unbegun, InCompetition
<1> QED BY <1>1, <1>3, SameSeasonless, OneMaking DEF DerivedInv

LEMMA AnnounceMaking ==
  ASSUME DerivedInv, SerialInv', NEW r \in Run, Announce(r)
  PROVE  DerivedInv'
<1> USE DEF Announce, GoTo, sessionVars, productVars, reportVars
<1>1. /\ pc[r] = "announce" /\ pc'[r] = "pick" /\ todo'[r] = {c \in Comp : listing'[c] # "none"}
      /\ \A q \in Run \ {r} : pc'[q] = pc[q]
  BY DEF DerivedInv, SerialInv, TypeInv, TypeOK
<1>2. \A c \in Comp : listing[c] = "seasons" => listing'[c] = "seasons"
  BY <1>1 DEF DerivedInv, SerialInv, RunInv, Announced
<1>3. \A c \in Comp : Clean(r, c)'
  <2>1. want' = want /\ saw' = saw
    OBVIOUS
  <2>2. \A c \in Comp : Clean(r, c)
    BY <1>1 DEF DerivedInv, Making, Unbegun
  <2> QED BY <2>1, <2>2 DEF Clean
<1>4. Making(r)'
  BY <1>1, <1>3 DEF Making, Unbegun, InCompetition, Made
<1>5. \A c \in Comp : Seasonless(c)'
  BY <1>2 DEF DerivedInv, Seasonless, Matches, Agrees
<1> QED BY <1>1, <1>4, <1>5, OneMaking DEF DerivedInv

LEMMA PickMaking ==
  ASSUME DerivedInv, SerialInv', NEW r \in Run, NEW k \in Comp, Pick(r, k)
  PROVE  DerivedInv'
<1> USE DEF Pick, GoTo, TurnTo, dbVars, discoveryVars, sessionVars, productVars, reportVars
<1>1. /\ pc[r] = "pick" /\ pc'[r] = "load" /\ k \in todo[r] /\ comp'[r] = k
      /\ todo'[r] = todo[r] \ {k}
      /\ stage'[r] = IF listing[k] = "seasons" THEN "teams" ELSE "models"
      /\ \A q \in Run \ {r} : pc'[q] = pc[q]
  BY DEF DerivedInv, SerialInv, TypeInv, TypeOK
<1>2. Making(r) /\ ~Unbegun(r) /\ ~InCompetition(r)
  BY <1>1 DEF DerivedInv, Unbegun, InCompetition
<1>3. ASSUME NEW c \in Comp, listing[c] # "none", ~Raised(r, c)' PROVE Made(r, c)'
  <2>1. Made(r, c)
    BY <1>2, <1>3 DEF Making, Raised
  <2>2. CASE c = k
    <3>1. Clean(r, k)'
      BY <1>1, <2>1, <2>2 DEF Made, Clean
    <3>2. InMaking(r, k)'
      <4>1. CASE listing[k] = "seasons"
        BY <1>1, <3>1, <4>1 DEF InMaking, Source
      <4>2. CASE listing[k] # "seasons"
        <5>1. Agrees(k, {"quality", "params"})'
          BY <4>2 DEF DerivedInv, Seasonless, Agrees, Matches
        <5> QED BY <1>1, <3>1, <4>2, <5>1 DEF InMaking, Before
      <4> QED BY <4>1, <4>2
    <3> QED BY <1>1, <2>2, <3>2 DEF Made, Holds, InCompetition
  <2>3. CASE c # k
    <3>1. ~Holds(r, c) /\ ~Holds(r, c)' /\ (c \in todo'[r] <=> c \in todo[r])
      BY <1>1, <1>2, <2>3 DEF Holds
    <3> QED BY <2>1, <3>1 DEF Made, Clean, Agrees, Matches
  <2> QED BY <2>2, <2>3
<1>4. Making(r)'
  BY <1>1, <1>2, <1>3 DEF Making, Unbegun, InCompetition, Clean
<1> QED BY <1>1, <1>4, SameSeasonless, OneMaking DEF DerivedInv

LEMMA AllPickedMaking ==
  ASSUME DerivedInv, SerialInv', NEW r \in Run, AllPicked(r)
  PROVE  DerivedInv'
<1> USE DEF AllPicked, GoTo, discoveryVars, productVars, reportVars
<1>1. /\ pc[r] = "pick" /\ pc'[r] = "finish" /\ todo[r] = {} /\ todo' = todo
      /\ \A q \in Run \ {r} : pc'[q] = pc[q]
  BY DEF DerivedInv, SerialInv, TypeInv, TypeOK
<1>2. Making(r) /\ ~Unbegun(r) /\ ~InCompetition(r) /\ ~InCompetition(r)'
  BY <1>1 DEF DerivedInv, Unbegun, InCompetition
<1>3. ASSUME NEW c \in Comp, Clean(r, c) PROVE Clean(r, c)' /\ Matches(c)' = Matches(c)
  <2>1. CASE Flush(r)
    BY <1>3, <2>1, FlushClean DEF DerivedInv
  <2>2. CASE UNCHANGED <<stored, sessionVars>>
    BY <1>3, <2>2 DEF sessionVars, Clean, Matches
  <2> QED BY <2>1, <2>2
<1>4. ASSUME NEW c \in Comp, listing[c] # "none", ~Raised(r, c)' PROVE Made(r, c)'
  <2>1. Clean(r, c) /\ Agrees(c, Product)
    BY <1>1, <1>2, <1>4 DEF Making, Raised, Made, Holds
  <2> QED BY <1>1, <1>2, <1>3, <2>1 DEF Made, Holds, Agrees
<1>5. Making(r)'
  BY <1>1, <1>2, <1>3, <1>4 DEF Making, Unbegun
<1>6. ASSUME NEW c \in Comp PROVE Seasonless(c)'
  BY <1>2, <1>3 DEF DerivedInv, Making, Seasonless, Agrees
<1> QED BY <1>1, <1>5, <1>6, OneMaking DEF DerivedInv

(* A step that leaves the database alone, and all but the one in hand.       *)
LEMMA PreparingMaking ==
  ASSUME DerivedInv, SerialInv', NEW r \in Run, InCompetition(r),
         UNCHANGED <<dbVars, todo, comp>>,
         \A q \in Run \ {r} : pc'[q] = pc[q],
         pc'[r] \in {"load", "commit", "store", "pick"},
         \A c \in Comp : Raised(r, c) => Raised(r, c)',
         \A c \in Comp \ {comp[r]} : Clean(r, c) => Clean(r, c)',
         listing[comp[r]] # "seasons" => Clean(r, comp[r])',
         pc'[r] # "pick" /\ stage'[r] \notin {"models", "weights", "drift"} =>
           listing[comp[r]] = "seasons",
         listing[comp[r]] # "none" /\ ~Raised(r, comp[r])' =>
           IF pc'[r] = "pick" THEN Clean(r, comp[r])' /\ Agrees(comp[r], Product)'
           ELSE InMaking(r, comp[r])'
  PROVE  DerivedInv'
<1>1. comp[r] \in Comp
  BY HandMade
<1>2. \A c \in Comp \ {comp[r]} :
        /\ Clean(r, c) => Clean(r, c)' /\ Matches(c)' = Matches(c)
        /\ \A p \in Product : derived'[<<c, p>>] = derived[<<c, p>>]
  BY DEF dbVars, Matches
<1>3. Seasonless(comp[r])'
  BY <1>1, SameSeasonless DEF dbVars
<1>4. UNCHANGED <<listing, todo, comp>>
  BY DEF dbVars
<1> QED BY <1>2, <1>3, <1>4, HandMaking

(* Rows are prepared: only a competition with seasons comes to it.           *)
LEMMA LoadMaking ==
  ASSUME DerivedInv, SerialInv', NEW r \in Run,
         LoadTeams(r) \/ LoadFixtures(r) \/ \E kinds \in SUBSET {"listed"} : LoadResults(r, kinds)
  PROVE  DerivedInv'
<1> USE DEF LoadTeams, LoadFixtures, LoadResults, GoTo, TurnTo, dbVars, discoveryVars, productVars,
            reportVars
<1>1. /\ InCompetition(r) /\ pc[r] = "load" /\ stage[r] \in Source
      /\ pc'[r] = "commit" \/ (pc'[r] = "load" /\ stage'[r] = "results")
      /\ stage'[r] \in Source /\ UNCHANGED <<dbVars, todo, comp>>
      /\ \A q \in Run \ {r} : pc'[q] = pc[q]
  BY DEF InCompetition, DerivedInv, SerialInv, TypeInv, TypeOK, Source
<1>2. comp[r] \in Comp /\ listing[comp[r]] = "seasons"
  BY <1>1, HandMade DEF Source
<1>3. \A c \in Comp : Raised(r, c) => Raised(r, c)'
  <2>1. CASE LoadTeams(r)
    BY <2>1 DEF Raised, reportVars
  <2>3. CASE LoadFixtures(r)
    <3>1. PICK kinds \in SUBSET {"skipped"} : Note(r, kinds)
      BY <2>3
    <3> QED BY <1>2, <3>1, DerivedNote DEF DerivedInv, Kind
  <2>2. ASSUME NEW kinds \in SUBSET {"listed"}, LoadResults(r, kinds), NEW c \in Comp, Raised(r, c)
        PROVE  Raised(r, c)'
    BY <1>2, <2>2, DerivedNote DEF DerivedInv, Kind
  <2> QED BY <2>1, <2>2, <2>3
<1>4. \E s \in Source : \E v \in Nat : Prepare(r, s, v)
  <2>1. offered[comp[r]] \in Nat /\ \A s \in Source : stored[<<comp[r], s>>] \in Nat
    BY <1>2, StoredBounds DEF DerivedInv, Source
  <2>2. Storable(comp[r]) \subseteq Nat
    BY <2>1 DEF Storable, Source
  <2> QED BY <2>1, <2>2 DEF Source
<1>5. \A c \in Comp \ {comp[r]} : Clean(r, c) => Clean(r, c)'
  BY <1>2, <1>4, PrepareOthers DEF DerivedInv
<1>6. InMaking(r, comp[r])'
  BY <1>1 DEF InMaking, Source
<1> QED BY <1>1, <1>2, <1>3, <1>5, <1>6, PreparingMaking DEF Source

LEMMA FailedMaking ==
  ASSUME DerivedInv, SerialInv', NEW r \in Run, TeamsFail(r) \/ FixturesFail(r)
  PROVE  DerivedInv'
<1> USE DEF TeamsFail, FixturesFail, TurnTo, dbVars, discoveryVars, sessionVars, productVars
<1>1. /\ InCompetition(r) /\ pc[r] = "load" /\ stage[r] \in {"teams", "fixtures"} /\ pc' = pc
      /\ stage'[r] \in {"fixtures", "quality"} /\ UNCHANGED <<want, saw>>
      /\ UNCHANGED <<dbVars, todo, comp>>
  BY DEF InCompetition, DerivedInv, SerialInv, TypeInv, TypeOK
<1>2. /\ comp[r] \in Comp /\ listing[comp[r]] = "seasons"
      /\ ~Raised(r, comp[r]) => InMaking(r, comp[r])
  BY <1>1, HandMade
<1>3. \A c \in Comp : Raised(r, c) => Raised(r, c)'
  <2>1. {"listed"} \in SUBSET Kind /\ Note(r, {"listed"})
    BY DEF Kind
  <2> QED BY <1>2, <2>1, DerivedNote DEF DerivedInv
<1>4. ASSUME listing[comp[r]] # "none", ~Raised(r, comp[r])' PROVE InMaking(r, comp[r])'
  <2>1. Clean(r, comp[r])
    BY <1>1, <1>2, <1>3, <1>4 DEF InMaking
  <2>2. Clean(r, comp[r])'
    BY <1>1, <2>1 DEF Clean
  <2> QED BY <1>1, <2>2 DEF InMaking, Agrees, Before, Source
<1>5. \A c \in Comp : Clean(r, c) => Clean(r, c)'
  BY <1>1 DEF Clean
<1> QED BY <1>1, <1>2, <1>3, <1>4, <1>5, PreparingMaking

LEMMA ComputeMaking ==
  ASSUME DerivedInv, SerialInv', NEW r \in Run, Compute(r)
  PROVE  DerivedInv'
<1> USE DEF Compute, GoTo, dbVars, discoveryVars, sessionVars, reportVars
<1>1. /\ InCompetition(r) /\ stage[r] \in Product /\ stage[r] \notin Source /\ stage' = stage
      /\ pc'[r] = "store" /\ basis'[r] = Matches(comp[r])
      /\ UNCHANGED <<want, saw, dbVars, todo, comp, errs>>
      /\ \A q \in Run \ {r} : pc'[q] = pc[q]
  BY DEF InCompetition, Product, Source, DerivedInv, SerialInv, TypeInv, TypeOK
<1>2. /\ comp[r] \in Comp
      /\ listing[comp[r]] # "seasons" => Clean(r, comp[r])
      /\ stage[r] \notin {"models", "weights", "drift"} => listing[comp[r]] = "seasons"
      /\ listing[comp[r]] # "none" /\ ~Raised(r, comp[r]) => InMaking(r, comp[r])
  BY <1>1, HandMade
<1>3. \A c \in Comp : (Raised(r, c) => Raised(r, c)') /\ (Clean(r, c) => Clean(r, c)')
  BY <1>1 DEF Raised, Clean
<1>4. ASSUME InMaking(r, comp[r]) PROVE InMaking(r, comp[r])'
  <2>1. Clean(r, comp[r])' /\ Agrees(comp[r], Before(stage[r]))'
    BY <1>1, <1>4 DEF InMaking, Clean, Agrees, Matches
  <2>2. basis'[r] = Matches(comp[r])'
    BY <1>1 DEF Matches
  <2> QED BY <1>1, <2>1, <2>2 DEF InMaking
<1> QED BY <1>1, <1>2, <1>3, <1>4, PreparingMaking

LEMMA CommitMaking ==
  ASSUME DerivedInv, SerialInv', NEW r \in Run, Commit(r)
  PROVE  DerivedInv'
<1> USE DEF Commit, GoTo, TurnTo, discoveryVars, productVars, reportVars
<1>1. /\ InCompetition(r) /\ pc[r] = "commit" /\ pc'[r] = "load" /\ stage[r] \in {"teams", "results"}
      /\ stage'[r] \in {"fixtures", "quality"}
      /\ UNCHANGED <<listing, derived, todo, comp, errs>>
      /\ \A q \in Run \ {r} : pc'[q] = pc[q]
  BY DEF InCompetition, DerivedInv, SerialInv, TypeInv, TypeOK, InHand
<1>2. comp[r] \in Comp /\ listing[comp[r]] = "seasons"
  BY <1>1, HandMade
<1>3. \A c \in Comp : Clean(r, c)' /\ (Clean(r, c) => Matches(c)' = Matches(c))
  BY FlushClean DEF DerivedInv
<1>4. InMaking(r, comp[r])'
  BY <1>1, <1>2, <1>3 DEF InMaking, Before, Agrees
<1>5. Seasonless(comp[r])'
  BY <1>1, <1>2 DEF Seasonless
<1> QED BY <1>1, <1>2, <1>3, <1>4, <1>5, HandMaking DEF Raised

(* What is stored of a product is what it was computed from, and this is     *)
(* what is stored of the matches.                                            *)
LEMMA StoreMaking ==
  ASSUME DerivedInv, SerialInv', NEW r \in Run, Store(r)
  PROVE  DerivedInv'
<1> USE DEF Store, GoTo, TurnTo, discoveryVars, reportVars
<1>1. /\ InCompetition(r) /\ pc[r] = "store" /\ pc'[r] = "load" /\ stage[r] \in Product
      /\ stage'[r] = After(stage[r])
      /\ UNCHANGED <<listing, todo, comp, errs>>
      /\ derived' = [derived EXCEPT ![<<comp[r], stage[r]>>] = basis[r]]
      /\ \A q \in Run \ {r} : pc'[q] = pc[q]
  BY DEF InCompetition, DerivedInv, SerialInv, TypeInv, TypeOK, InHand
<1>2. /\ comp[r] \in Comp /\ Seasonless(comp[r])
      /\ listing[comp[r]] # "seasons" => Clean(r, comp[r])
      /\ stage[r] \notin {"models", "weights", "drift"} => listing[comp[r]] = "seasons"
      /\ listing[comp[r]] # "none" /\ ~Raised(r, comp[r]) => InMaking(r, comp[r])
  BY <1>1, HandMade
<1>3. \A c \in Comp : Clean(r, c)' /\ (Clean(r, c) => Matches(c)' = Matches(c))
  BY FlushClean DEF DerivedInv
<1>4. \A c \in Comp, p \in Product :
        derived'[<<c, p>>] = IF c = comp[r] /\ p = stage[r] THEN basis[r] ELSE derived[<<c, p>>]
  BY <1>1 DEF DerivedInv, SerialInv, TypeInv, TypeOK
<1>5. Seasonless(comp[r])'
  <2> SUFFICES ASSUME listing[comp[r]] # "seasons"
               PROVE  Matches(comp[r])' = NoData /\ Agrees(comp[r], {"quality", "params"})'
    BY <1>1 DEF Seasonless
  <2>1. Matches(comp[r])' = NoData /\ Matches(comp[r]) = NoData
    BY <1>2, <1>3 DEF Seasonless
  <2>2. stage[r] \notin {"quality", "params"}
    BY <1>2
  <2> QED BY <1>2, <1>4, <2>1, <2>2 DEF Seasonless, Agrees, Product
<1>6. ASSUME listing[comp[r]] # "none", ~Raised(r, comp[r])'
      PROVE  InMaking(r, comp[r])'
  <2>1. InMaking(r, comp[r])
    BY <1>1, <1>2, <1>6 DEF Raised
  <2>2. /\ Clean(r, comp[r]) /\ Agrees(comp[r], Before(stage[r])) /\ basis[r] = Matches(comp[r])
    BY <1>1, <2>1 DEF InMaking, Source, Product
  <2>3. Matches(comp[r])' = Matches(comp[r])
    BY <1>2, <1>3, <2>2
  <2>4. \A p \in Before(stage[r]) \union {stage[r]} : p \in Product
    BY <1>1 DEF Before, Product
  <2>5. \A p \in Before(stage[r]) \union {stage[r]} : derived'[<<comp[r], p>>] = Matches(comp[r])
    BY <1>2, <1>4, <2>2, <2>4 DEF Agrees
  <2>6. Before(stage'[r]) = Before(stage[r]) \union {stage[r]}
    BY <1>1 DEF Before, After, Product
  <2>7. \A p \in Before(stage'[r]) : derived'[<<comp'[r], p>>] = Matches(comp[r])'
    BY <1>1, <2>3, <2>5, <2>6
  <2>8. Clean(r, comp[r])'
    BY <1>1, <1>2, <1>3
  <2> QED BY <1>1, <2>7, <2>8 DEF InMaking, Agrees
<1>7. stage'[r] \notin {"models", "weights", "drift"} => listing[comp[r]] = "seasons"
  BY <1>1, <1>2 DEF After, Product
<1>8. \A c \in Comp \ {comp[r]} : \A p \in Product : derived'[<<c, p>>] = derived[<<c, p>>]
  <2> SUFFICES ASSUME NEW c \in Comp \ {comp[r]}, NEW p \in Product
               PROVE  derived'[<<c, p>>] = derived[<<c, p>>]
    OBVIOUS
  <2>1. c \in Comp /\ c # comp[r]
    OBVIOUS
  <2> QED BY SMTT(30), <1>4, <2>1
<1> QED BY <1>1, <1>2, <1>3, <1>5, <1>6, <1>7, <1>8, HandMaking DEF Raised

LEMMA LookMaking ==
  ASSUME DerivedInv, SerialInv', NEW r \in Run, Look(r)
  PROVE  DerivedInv'
<1> USE DEF Look, GoTo, dbVars, discoveryVars, sessionVars, productVars
<1>1. /\ InCompetition(r) /\ stage[r] = "drift" /\ pc'[r] = "pick"
      /\ UNCHANGED <<want, saw, dbVars, todo, comp>>
      /\ \A q \in Run \ {r} : pc'[q] = pc[q]
  BY DEF InCompetition, DerivedInv, SerialInv, TypeInv, TypeOK
<1>2. /\ comp[r] \in Comp
      /\ listing[comp[r]] # "seasons" => Clean(r, comp[r])
      /\ listing[comp[r]] # "none" /\ ~Raised(r, comp[r]) => InMaking(r, comp[r])
  BY <1>1, HandMade
<1>3. \A c \in Comp : Raised(r, c) => Raised(r, c)'
  <2>1. \A kinds \in SUBSET {"listed"} : kinds \in SUBSET Kind
    BY DEF Kind
  <2> QED BY <1>2, <2>1, DerivedNote DEF DerivedInv
<1>4. \A c \in Comp : Clean(r, c) => Clean(r, c)'
  BY <1>1 DEF Clean
<1>5. ASSUME InMaking(r, comp[r]) PROVE Clean(r, comp[r])' /\ Agrees(comp[r], Product)'
  <2>1. Clean(r, comp[r]) /\ Agrees(comp[r], Product)
    BY <1>1, <1>5 DEF InMaking, Source, Before
  <2>2. Clean(r, comp[r])'
    BY <1>1, <2>1 DEF Clean
  <2>3. Agrees(comp[r], Product)'
    BY <1>1, <2>1 DEF Agrees, Matches
  <2> QED BY <2>2, <2>3
<1> QED BY <1>1, <1>2, <1>3, <1>4, <1>5, PreparingMaking

LEMMA RaisesMaking ==
  ASSUME DerivedInv, SerialInv', NEW r \in Run, Raises(r)
  PROVE  DerivedInv'
<1> USE DEF Raises, GoTo, dbVars, discoveryVars, sessionVars
<1>1. /\ InCompetition(r) /\ pc'[r] = "pick" /\ UNCHANGED <<want, saw, dbVars, todo, comp>>
      /\ \A q \in Run \ {r} : pc'[q] = pc[q]
  BY DEF DerivedInv, SerialInv, TypeInv, TypeOK
<1>2. /\ comp[r] \in Comp
      /\ listing[comp[r]] # "seasons" => Clean(r, comp[r])
  BY <1>1, HandMade
<1>3. {"exception"} \in SUBSET Kind /\ Note(r, {"exception"})
  BY DEF Kind
<1>4. \A c \in Comp : Raised(r, c) => Raised(r, c)'
  BY <1>2, <1>3, DerivedNote DEF DerivedInv
<1>5. Raised(r, comp[r])'
  BY <1>2, <1>3 DEF Note, Raised, DerivedInv, SerialInv, TypeInv, TypeOK
<1>6. \A c \in Comp : Clean(r, c) => Clean(r, c)'
  BY <1>1 DEF Clean
<1> QED BY <1>1, <1>2, <1>4, <1>5, <1>6, PreparingMaking

(* What the provider has and how runs have ended does not matter to it.      *)
LEMMA SameMaking ==
  ASSUME DerivedInv, SerialInv',
         UNCHANGED <<dbVars, pc, stage, comp, todo, sessionVars, basis, errs>>
  PROVE  DerivedInv'
<1> USE DEF dbVars, sessionVars
<1>1. \A c \in Comp : Seasonless(c)'
  BY SameSeasonless
<1>2. ASSUME NEW r \in Run PROVE Making(r)'
  <2>1. /\ listing' = listing /\ stored' = stored /\ derived' = derived /\ pc' = pc
        /\ stage' = stage /\ comp' = comp /\ todo' = todo /\ want' = want /\ saw' = saw
        /\ basis' = basis /\ errs' = errs
    OBVIOUS
  <2>2. \A c \in Comp : Clean(r, c)' = Clean(r, c)
    BY <2>1 DEF Clean
  <2>3. \A c \in Comp : Made(r, c)' = Made(r, c)
    BY <2>1, <2>2 DEF Made, InMaking, Holds, InCompetition, Agrees, Matches
  <2>4. Making(r) BY DEF DerivedInv
  <2> QED BY <2>1, <2>2, <2>3, <2>4 DEF Making, Unbegun, InCompetition, Raised
<1> QED BY <1>1, <1>2 DEF DerivedInv

LEMMA DerivedStep == ASSUME DerivedInv, [NextSerial]_vars PROVE DerivedInv'
<1>1. SerialInv'
  BY SerialStep DEF DerivedInv
<1>2. ASSUME NEW k \in Comp, ProviderMoves(k) PROVE DerivedInv'
  BY <1>1, <1>2, SameMaking DEF ProviderMoves, productVars, reportVars
<1>3. ASSUME NEW r \in Run, Quiet, Begin(r) PROVE DerivedInv'
  BY <1>1, <1>3, BeginMaking
<1>4. ASSUME NEW r \in Run, Step(r) PROVE DerivedInv'
  <2>1. CASE DiscoveryFails(r) BY <1>1, <2>1, DiscoveryFailsMaking
  <2>2. CASE \E broken \in SUBSET Listed : Discover(r, broken) BY <1>1, <2>2, DiscoverMaking
  <2>3. CASE Announce(r) BY <1>1, <2>3, AnnounceMaking
  <2>4. CASE \E c \in Comp : Pick(r, c) BY <1>1, <2>4, PickMaking
  <2>5. CASE AllPicked(r) BY <1>1, <2>5, AllPickedMaking
  <2>6. CASE LoadTeams(r) \/ LoadFixtures(r) \/ \E kinds \in SUBSET {"listed"} : LoadResults(r, kinds)
    BY <1>1, <2>6, LoadMaking
  <2>7. CASE TeamsFail(r) \/ FixturesFail(r) BY <1>1, <2>7, FailedMaking
  <2>8. CASE Commit(r) BY <1>1, <2>8, CommitMaking
  <2>9. CASE Compute(r) BY <1>1, <2>9, ComputeMaking
  <2>10. CASE Store(r) BY <1>1, <2>10, StoreMaking
  <2>11. CASE Look(r) BY <1>1, <2>11, LookMaking
  <2>12. CASE Raises(r) BY <1>1, <2>12, RaisesMaking
  <2>13. CASE Dies(r) BY <1>1, <2>13, DiesMaking
  <2>14. CASE Finish(r) BY <1>1, <2>14, FinishMaking
  <2> QED
    BY <1>4, <2>1, <2>2, <2>3, <2>4, <2>5, <2>6, <2>7, <2>8, <2>9, <2>10, <2>11, <2>12, <2>13,
       <2>14 DEF Step
<1>5. CASE UNCHANGED vars
  BY <1>1, <1>5, SameMaking DEF vars, dbVars, sessionVars
<1> QED BY <1>2, <1>3, <1>4, <1>5 DEF NextSerial

(* One run at a time, when it is through, what is derived of a competition   *)
(* is derived of the matches that are stored: also where the provider failed *)
(* between the teams and the results, where an earlier run was interrupted,  *)
(* and whatever another competition that raised has left in the session to   *)
(* be committed later.                                                       *)
THEOREM DerivedIsCurrent == SpecSerial => []DerivedAgrees
<1>1. DerivedInv => DerivedAgrees
  <2> SUFFICES ASSUME DerivedInv, NEW r \in Run, pc[r] = "finish",
                      NEW c \in Known, <<c, "exception">> \notin errs[r],
                      NEW p \in Product
               PROVE  derived[<<c, p>>] = Matches(c)
    BY DEF DerivedAgrees
  <2>1. Made(r, c) /\ todo[r] = {} /\ ~Holds(r, c)
    BY DEF DerivedInv, Making, Unbegun, Raised, Known, SerialInv, RunInv, Holds, InCompetition
  <2> QED BY <2>1 DEF Made, Agrees
<1> QED BY <1>1, InitDerived, DerivedStep, PTL DEF SpecSerial
-----------------------------------------------------------------------------
(* What is missing of a competition that nothing was noted about: nothing,   *)
(* the fixtures whose teams were not named at first included.                *)
Noted(r, c) == lost[r] \/ \E k \in Kind : <<c, k>> \in errs[r]

(* The run has been through its fixtures, or has left the competition.       *)
Past(r, c) ==
  /\ ~Unbegun(r)
  /\ c \notin todo[r]
  /\ Holds(r, c) => stage[r] \notin {"teams", "fixtures"}

Named(r, c) ==
  <<c, since[r][c]>> \in Undrawn => <<c, Have(r, c, "fixtures")>> \notin Undrawn

NamedRun(r) ==
  \A c \in Comp : since[r][c] > 0 /\ ~Noted(r, c) /\ Past(r, c) => Named(r, c)

NamedInv ==
  /\ DerivedInv
  /\ \A r \in Run : NamedRun(r)

LEMMA InitNamed == Init => NamedInv
<1> SUFFICES ASSUME Init PROVE NamedInv
  OBVIOUS
<1>1. DerivedInv BY InitDerived
<1>2. ASSUME NEW r \in Run PROVE NamedRun(r)
  BY DEF Init, NamedRun, Past, Unbegun
<1> QED BY <1>1, <1>2 DEF NamedInv

(* The runs that are not under way have been through nothing.                *)
LEMMA OneNamed ==
  ASSUME NamedInv, DerivedInv', NEW r \in Run, pc[r] # "idle" \/ Quiet,
         \A q \in Run \ {r} : pc'[q] = pc[q], NamedRun(r)'
  PROVE  NamedInv'
<1>1. ASSUME NEW q \in Run \ {r} PROVE NamedRun(q)'
  <2>1. pc'[q] = "idle"
    BY DEF NamedInv, DerivedInv, SerialInv, Alone, Quiet
  <2> QED BY <2>1 DEF NamedRun, Past, Unbegun
<1> QED BY <1>1 DEF NamedInv

LEMMA UnbegunNamed ==
  ASSUME NamedInv, DerivedInv', NEW r \in Run, pc[r] # "idle" \/ Quiet,
         \A q \in Run \ {r} : pc'[q] = pc[q],
         pc'[r] \in {"idle", "discover", "announce"} \/ lost'[r]
  PROVE  NamedInv'
<1>1. NamedRun(r)'
  BY DEF NamedRun, Past, Unbegun, Noted
<1> QED BY <1>1, OneNamed

(* A step that neither prepares fixtures nor gets past them without a note.  *)
LEMMA SameNamed ==
  ASSUME NamedInv, DerivedInv', NEW r \in Run, pc[r] # "idle",
         \A q \in Run \ {r} : pc'[q] = pc[q],
         since' = since,
         \A c \in Comp : Noted(r, c) => Noted(r, c)',
         \A c \in Comp : Have(r, c, "fixtures")' = Have(r, c, "fixtures"),
         \A c \in Comp : since[r][c] > 0 /\ ~Noted(r, c)' /\ Past(r, c)' => Past(r, c)
  PROVE  NamedInv'
<1>1. ASSUME NEW c \in Comp, since'[r][c] > 0, ~Noted(r, c)', Past(r, c)' PROVE Named(r, c)'
  <2>1. since[r][c] > 0 /\ ~Noted(r, c) /\ Past(r, c)
    BY <1>1
  <2>2. Named(r, c)
    BY <2>1 DEF NamedInv, NamedRun
  <2> QED BY <2>2 DEF Named
<1> QED BY <1>1, OneNamed DEF NamedRun

LEMMA SameHave ==
  ASSUME UNCHANGED <<stored, sessionVars>>, NEW r \in Run, NEW c \in Comp
  PROVE  Have(r, c, "fixtures")' = Have(r, c, "fixtures")
BY DEF sessionVars, Have

LEMMA FlushHave ==
  ASSUME SerialInv, NEW r \in Run, Flush(r), NEW c \in Comp
  PROVE  Have(r, c, "fixtures")' = Have(r, c, "fixtures")
<1>1. /\ stored'[<<c, "fixtures">>] = Have(r, c, "fixtures")
      /\ want'[r][<<c, "fixtures">>] = saw'[r][<<c, "fixtures">>]
  BY FlushFacts DEF Source
<1> QED BY <1>1 DEF Have

LEMMA PrepareHave ==
  ASSUME SerialInv, NEW r \in Run, NEW s \in Source, NEW v \in Version, comp[r] \in Comp,
         Prepare(r, s, v), stored' = stored, NEW c \in Comp
  PROVE  /\ c # comp[r] \/ s # "fixtures" => Have(r, c, "fixtures")' = Have(r, c, "fixtures")
         /\ c = comp[r] /\ s = "fixtures" => Have(r, c, "fixtures")' = v
<1>1. /\ want'[r] = [want[r] EXCEPT ![<<comp[r], s>>] = v]
      /\ saw'[r] = [saw[r] EXCEPT ![<<comp[r], s>>] = stored[<<comp[r], s>>]]
      /\ want[r] \in [Comp \X Source -> Version] /\ saw[r] \in [Comp \X Source -> Version]
      /\ <<comp[r], s>> \in Comp \X Source /\ <<c, "fixtures">> \in Comp \X Source
  BY DEF Prepare, SerialInv, TypeInv, TypeOK, Source
<1>2. CASE c # comp[r] \/ s # "fixtures"
  <2>1. <<c, "fixtures">> # <<comp[r], s>>
    BY <1>2
  <2>2. /\ want'[r][<<c, "fixtures">>] = want[r][<<c, "fixtures">>]
        /\ saw'[r][<<c, "fixtures">>] = saw[r][<<c, "fixtures">>]
    BY <1>1, <2>1
  <2> QED BY <1>2, <2>2 DEF Have
<1>3. CASE c = comp[r] /\ s = "fixtures"
  <2>1. /\ want'[r][<<c, "fixtures">>] = v
        /\ saw'[r][<<c, "fixtures">>] = stored[<<c, "fixtures">>]
    BY <1>1, <1>3
  <2> QED BY <1>3, <2>1 DEF Have
<1> QED BY <1>2, <1>3

LEMMA NoteNotes ==
  ASSUME SerialInv, NEW r \in Run, comp[r] \in Comp, NEW kinds \in SUBSET Kind, Note(r, kinds),
         lost' = lost
  PROVE  /\ \A c \in Comp : Noted(r, c) => Noted(r, c)'
         /\ kinds # {} => \A c \in Comp : c = comp[r] => Noted(r, c)'
BY NoteFacts DEF Noted

(* Every listed competition is still to come; none without a season goes     *)
(* unnoticed.                                                                *)
LEMMA AnnounceNamed ==
  ASSUME NamedInv, DerivedInv', NEW r \in Run, Announce(r)
  PROVE  NamedInv'
<1> USE DEF Announce, GoTo, sessionVars, productVars, reportVars
<1>1. /\ pc[r] = "announce" /\ pc'[r] = "pick"
      /\ \A q \in Run \ {r} : pc'[q] = pc[q]
      /\ todo'[r] = {c \in Comp : listing'[c] # "none"}
  BY DEF NamedInv, DerivedInv, SerialInv, TypeInv, TypeOK
<1>2. ASSUME NEW c \in Comp, since'[r][c] > 0, ~Noted(r, c)' PROVE c \in todo'[r]
  <2>1. ~Excused(r, c)'
    BY <1>2 DEF Noted, Excused, Reported, InReport, Kind
  <2>2. listing'[c] = "seasons"
    BY <1>1, <1>2, <2>1 DEF DerivedInv, SerialInv, RunInv, Progress, OnItsWay
  <2> QED BY <1>1, <2>2
<1>3. NamedRun(r)'
  BY <1>2 DEF NamedRun, Past
<1> QED BY <1>1, <1>3, OneNamed

LEMMA PickNamed ==
  ASSUME NamedInv, DerivedInv', NEW r \in Run, NEW k \in Comp, Pick(r, k)
  PROVE  NamedInv'
<1> USE DEF Pick, GoTo, TurnTo, dbVars, discoveryVars, productVars, reportVars
<1>1. /\ pc[r] = "pick" /\ pc'[r] = "load" /\ comp'[r] = k
      /\ todo'[r] = todo[r] \ {k}
      /\ stage'[r] = IF listing[k] = "seasons" THEN "teams" ELSE "models"
      /\ \A q \in Run \ {r} : pc'[q] = pc[q]
  BY DEF NamedInv, DerivedInv, SerialInv, TypeInv, TypeOK
<1>2. \A c \in Comp : Noted(r, c)' <=> Noted(r, c)
  BY DEF Noted
<1>3. \A c \in Comp : Have(r, c, "fixtures")' = Have(r, c, "fixtures")
  BY SameHave
<1>4. ASSUME NEW c \in Comp, since[r][c] > 0, ~Noted(r, c)', Past(r, c)' PROVE Past(r, c)
  <2>1. CASE c = k
    <3>1. ~Excused(r, c)
      BY <1>2, <1>4 DEF Noted, Excused, Reported, InReport, Kind
    <3>2. listing[k] = "seasons"
      BY <1>1, <1>4, <2>1, <3>1
         DEF NamedInv, DerivedInv, SerialInv, RunInv, Progress, OnItsWay
    <3> QED BY <1>1, <1>4, <2>1, <3>2 DEF Past, Holds, InCompetition
  <2>2. CASE c # k
    BY <1>1, <1>4, <2>2 DEF Past, Holds, InCompetition, Unbegun
  <2> QED BY <2>1, <2>2
<1> QED BY <1>1, <1>2, <1>3, <1>4, SameNamed

(* Nothing but the matches themselves is looked at by the steps of one       *)
(* competition that stay on their side of its fixtures.                      *)
LEMMA HandNamed ==
  ASSUME NamedInv, DerivedInv', NEW r \in Run, InCompetition(r),
         \A q \in Run \ {r} : pc'[q] = pc[q], UNCHANGED <<todo, comp, since>>,
         pc'[r] \in {"load", "commit", "store", "pick"},
         \A c \in Comp : Noted(r, c) => Noted(r, c)',
         \A c \in Comp : Have(r, c, "fixtures")' = Have(r, c, "fixtures"),
         \/ \A c \in Comp : c = comp[r] => Noted(r, c)'
         \/ stage[r] \notin {"teams", "fixtures"}
         \/ pc'[r] # "pick" /\ stage'[r] \in {"teams", "fixtures"}
  PROVE  NamedInv'
<1>1. ~Unbegun(r) /\ pc[r] # "idle"
  BY DEF InCompetition, Unbegun
<1>2. ASSUME NEW c \in Comp, ~Noted(r, c)', Past(r, c)' PROVE Past(r, c)
  <2>1. CASE c = comp[r]
    BY <1>1, <1>2, <2>1 DEF Past, Holds, InCompetition
  <2>2. CASE c # comp[r]
    BY <1>1, <1>2, <2>2 DEF Past, Holds
  <2> QED BY <2>1, <2>2
<1> QED BY <1>1, <1>2, SameNamed

LEMMA LoadFixturesNamed ==
  ASSUME NamedInv, DerivedInv', NEW r \in Run, LoadFixtures(r)
  PROVE  NamedInv'
<1> USE DEF LoadFixtures, TurnTo, dbVars, discoveryVars, productVars
<1>1. /\ InCompetition(r) /\ pc' = pc /\ pc[r] = "load" /\ stage[r] = "fixtures"
      /\ stage'[r] = "results" /\ UNCHANGED <<todo, comp, since, lost, stored>>
  BY DEF InCompetition, NamedInv, DerivedInv, SerialInv, TypeInv, TypeOK
<1>2. comp[r] \in Comp
  BY <1>1, Current DEF NamedInv, DerivedInv
<1>3. PICK v \in Storable(comp[r]) :
        /\ Prepare(r, "fixtures", v)
        /\ Note(r, IF v < offered[comp[r]] \/ <<comp[r], offered[comp[r]]>> \in Undrawn
                     THEN {"skipped"} ELSE {})
  OBVIOUS
<1>4. /\ v \in Version
      /\ ~(v < offered[comp[r]]) => v = offered[comp[r]]
  <2>1. /\ "teams" \in Source /\ "fixtures" \in Source
        /\ \A s \in Source : stored[<<comp[r], s>>] \in Version
        /\ \A s \in Source : stored[<<comp[r], s>>] <= offered[comp[r]]
        /\ offered[comp[r]] \in Version
    BY <1>2 DEF NamedInv, DerivedInv, SerialInv, TypeInv, TypeOK, Bounded, Source
  <2> QED BY <2>1 DEF Storable, Version
<1>5. ASSUME NEW c \in Comp, since'[r][c] > 0, ~Noted(r, c)', Past(r, c)' PROVE Named(r, c)'
  <2>1. CASE c # comp[r]
    <3>1. Noted(r, c) => Noted(r, c)'
      BY <1>1, <1>2, <1>3, NoteNotes DEF NamedInv, DerivedInv, Kind
    <3>2. Have(r, c, "fixtures")' = Have(r, c, "fixtures")
      BY <1>1, <1>2, <1>3, <1>4, <2>1, PrepareHave DEF NamedInv, DerivedInv, Source
    <3>3. Past(r, c)
      BY <1>1, <1>5, <2>1 DEF Past, Holds, Unbegun
    <3>4. Named(r, c)
      BY <1>1, <1>5, <3>1, <3>3 DEF NamedInv, NamedRun
    <3> QED BY <1>1, <3>2, <3>4 DEF Named
  <2>2. CASE c = comp[r]
    <3>1. v = offered[c] /\ <<c, offered[c]>> \notin Undrawn
      BY <1>1, <1>2, <1>3, <1>4, <1>5, <2>2, NoteNotes DEF NamedInv, DerivedInv, Kind
    <3>2. Have(r, c, "fixtures")' = v
      BY <1>1, <1>2, <1>3, <1>4, <2>2, PrepareHave DEF NamedInv, DerivedInv, Source
    <3> QED BY <3>1, <3>2 DEF Named
  <2> QED BY <2>1, <2>2
<1>6. NamedRun(r)'
  BY <1>5 DEF NamedRun
<1> QED BY <1>1, <1>6, OneNamed DEF InCompetition

(* The other steps of the competition in hand.                               *)
LEMMA StepNamed ==
  ASSUME NamedInv, DerivedInv', NEW r \in Run,
         \/ LoadTeams(r) \/ TeamsFail(r) \/ FixturesFail(r)
         \/ \E kinds \in SUBSET {"listed"} : LoadResults(r, kinds)
         \/ Commit(r) \/ Compute(r) \/ Store(r) \/ Look(r) \/ Raises(r)
  PROVE  NamedInv'
<1>1. /\ InCompetition(r)
      /\ UNCHANGED <<todo, comp, since, lost>>
      /\ pc'[r] \in {"load", "commit", "store", "pick"}
      /\ \A q \in Run \ {r} : pc'[q] = pc[q]
  BY DEF LoadTeams, TeamsFail, FixturesFail, LoadResults, Commit, Compute, Store, Look, Raises,
     GoTo, InCompetition, reportVars, NamedInv, DerivedInv, SerialInv, TypeInv, TypeOK
<1>2. comp[r] \in Comp /\ offered[comp[r]] \in Version /\ stored[<<comp[r], "results">>] \in Version
  BY <1>1, Current DEF NamedInv, DerivedInv, SerialInv, TypeInv, TypeOK, Source
<1>3. \A c \in Comp : Noted(r, c) => Noted(r, c)'
  <2>1. CASE errs' = errs
    BY <1>1, <2>1 DEF Noted
  <2>2. CASE \E kinds \in SUBSET Kind : Note(r, kinds)
    BY <1>1, <1>2, <2>2, NoteNotes DEF NamedInv, DerivedInv
  <2>3. \A kinds \in SUBSET {"listed"} : kinds \in SUBSET Kind
    BY DEF Kind
  <2>4. {"exception"} \in SUBSET Kind /\ {"listed"} \in SUBSET Kind
    BY DEF Kind
  <2> QED BY <2>1, <2>2, <2>3, <2>4
          DEF LoadTeams, TeamsFail, FixturesFail, LoadResults, Commit, Compute, Store, Look,
              Raises, reportVars
<1>4. \A c \in Comp : Have(r, c, "fixtures")' = Have(r, c, "fixtures")
  <2>1. CASE LoadTeams(r)
    BY <1>2, <2>1, PrepareHave DEF LoadTeams, dbVars, NamedInv, DerivedInv, Source
  <2>2. CASE \E kinds \in SUBSET {"listed"} : LoadResults(r, kinds)
    BY <1>2, <2>2, PrepareHave DEF LoadResults, dbVars, NamedInv, DerivedInv, Source
  <2>3. CASE Commit(r) \/ Store(r)
    BY <2>3, FlushHave DEF Commit, Store, NamedInv, DerivedInv
  <2>4. CASE TeamsFail(r) \/ FixturesFail(r) \/ Compute(r) \/ Look(r) \/ Raises(r)
    BY <2>4, SameHave DEF TeamsFail, FixturesFail, Compute, Look, Raises, dbVars
  <2> QED BY <2>1, <2>2, <2>3, <2>4
<1>5. \/ \A c \in Comp : c = comp[r] => Noted(r, c)'
      \/ stage[r] \notin {"teams", "fixtures"}
      \/ pc'[r] # "pick" /\ stage'[r] \in {"teams", "fixtures"}
  <2>1. CASE TeamsFail(r) \/ FixturesFail(r) \/ Raises(r)
    <3>1. Note(r, {"listed"}) \/ Note(r, {"exception"})
      BY <2>1 DEF TeamsFail, FixturesFail, Raises
    <3>2. {"listed"} \in SUBSET Kind /\ {"exception"} \in SUBSET Kind
      BY DEF Kind
    <3>3. {"listed"} # {} /\ {"exception"} # {}
      OBVIOUS
    <3> QED BY <1>1, <1>2, <3>1, <3>2, <3>3, NoteNotes DEF NamedInv, DerivedInv
  <2>2. CASE LoadTeams(r)
    BY <2>2 DEF LoadTeams, GoTo, NamedInv, DerivedInv, SerialInv, TypeInv, TypeOK
  <2>3. CASE Commit(r)
    BY <2>3 DEF Commit, GoTo, TurnTo, NamedInv, DerivedInv, SerialInv, TypeInv, TypeOK, InHand
  <2>4. CASE \/ \E kinds \in SUBSET {"listed"} : LoadResults(r, kinds)
             \/ Compute(r) \/ Store(r) \/ Look(r)
    BY <1>1, <2>4 DEF LoadResults, Compute, Store, Look, Product, NamedInv, DerivedInv, SerialInv,
       TypeInv, InHand
  <2> QED BY <2>1, <2>2, <2>3, <2>4
<1> QED BY <1>1, <1>3, <1>4, <1>5, HandNamed

LEMMA AllPickedNamed ==
  ASSUME NamedInv, DerivedInv', NEW r \in Run, AllPicked(r)
  PROVE  NamedInv'
<1> USE DEF AllPicked, GoTo, reportVars
<1>1. /\ pc[r] = "pick" /\ pc'[r] = "finish" /\ UNCHANGED <<todo, since, errs, lost>>
      /\ \A q \in Run \ {r} : pc'[q] = pc[q]
  BY DEF NamedInv, DerivedInv, SerialInv, TypeInv, TypeOK
<1>2. \A c \in Comp : Have(r, c, "fixtures")' = Have(r, c, "fixtures")
  BY FlushHave, SameHave DEF NamedInv, DerivedInv
<1>3. \A c \in Comp : Noted(r, c) => Noted(r, c)'
  BY <1>1 DEF Noted
<1>4. \A c \in Comp : Past(r, c)' => Past(r, c)
  BY <1>1 DEF Past, Holds, InCompetition, Unbegun
<1> QED BY <1>1, <1>2, <1>3, <1>4, SameNamed

LEMMA NamedStep == ASSUME NamedInv, [NextSerial]_vars PROVE NamedInv'
<1>1. DerivedInv'
  BY DerivedStep DEF NamedInv
<1>2. CASE UNCHANGED vars \/ \E k \in Comp : ProviderMoves(k)
  <2>1. UNCHANGED <<dbVars, pc, stage, comp, todo, want, saw, errs, lost, since>>
    BY <1>2 DEF vars, ProviderMoves, dbVars, sessionVars, reportVars
  <2>2. \A r \in Run : NamedRun(r)'
    BY <2>1 DEF dbVars, NamedInv, NamedRun, Named, Noted, Past, Holds, InCompetition, Unbegun, Have
  <2> QED BY <1>1, <2>2 DEF NamedInv
<1>3. ASSUME NEW r \in Run, (Quiet /\ Begin(r)) \/ DiscoveryFails(r) \/ Dies(r) \/ Finish(r)
                            \/ \E broken \in SUBSET Listed : Discover(r, broken)
      PROVE  NamedInv'
  <2>1. /\ pc'[r] \in {"idle", "discover", "announce"} \/ lost'[r]
        /\ \A q \in Run \ {r} : pc'[q] = pc[q]
        /\ pc[r] # "idle" \/ Quiet
    BY <1>3 DEF Begin, DiscoveryFails, Dies, Finish, Over, Discover, GoTo, NamedInv, DerivedInv,
       SerialInv, TypeInv, TypeOK
  <2> QED BY <1>1, <2>1, UnbegunNamed
<1>4. ASSUME NEW r \in Run, Announce(r) PROVE NamedInv'
  BY <1>1, <1>4, AnnounceNamed
<1>5. ASSUME NEW r \in Run, NEW k \in Comp, Pick(r, k) PROVE NamedInv'
  BY <1>1, <1>5, PickNamed
<1>6. ASSUME NEW r \in Run, LoadFixtures(r) PROVE NamedInv'
  BY <1>1, <1>6, LoadFixturesNamed
<1>7. ASSUME NEW r \in Run, AllPicked(r) PROVE NamedInv'
  BY <1>1, <1>7, AllPickedNamed
<1>8. ASSUME NEW r \in Run,
             \/ LoadTeams(r) \/ TeamsFail(r) \/ FixturesFail(r)
             \/ \E kinds \in SUBSET {"listed"} : LoadResults(r, kinds)
             \/ Commit(r) \/ Compute(r) \/ Store(r) \/ Look(r) \/ Raises(r)
      PROVE  NamedInv'
  BY <1>1, <1>8, StepNamed
<1> QED BY <1>2, <1>3, <1>4, <1>5, <1>6, <1>7, <1>8 DEF NextSerial, Step

(* "Keep one competition's failure from aborting the whole run": one run at  *)
(* a time, whatever fails or raises in between, a competition that is not    *)
(* stored as the provider had it is in the report's lists; only fixtures     *)
(* whose teams the provider does not name may be missing beyond that, and    *)
(* not without a warning in the log.                                         *)
THEOREM GapsAreReported == SpecSerial => []NoSilentGap
<1>1. NamedInv => NoSilentGap
  <2> SUFFICES ASSUME NamedInv, NEW r \in Run, pc[r] = "finish", ~lost[r], NEW c \in Comp,
                      ~Reported(r, c)
               PROVE  UpToDate(r, c) /\ (Drawn(r, c) \/ <<c, "skipped">> \in errs[r])
    BY DEF NoSilentGap
  <2>1. ASSUME since[r][c] > 0 PROVE listing[c] = "seasons" /\ Covered(r, c)
    BY <2>1 DEF NamedInv, DerivedInv, SerialInv, RunInv, Progress, Excused, OnItsWay, Holds,
       InCompetition
  <2>2. UpToDate(r, c)
    BY <2>1 DEF UpToDate, Covered
  <2>3. ASSUME <<c, "skipped">> \notin errs[r] PROVE Drawn(r, c)
    <3>1. ~Noted(r, c)
      BY <2>3 DEF Noted, Reported, InReport, Kind
    <3>2. todo[r] = {} /\ ~Holds(r, c) /\ ~Unbegun(r)
      BY DEF NamedInv, DerivedInv, SerialInv, RunInv, Holds, InCompetition, Unbegun
    <3>3. CASE since[r][c] > 0
      <4>1. Named(r, c)
        BY <3>1, <3>2, <3>3 DEF NamedInv, NamedRun, Past
      <4>2. Made(r, c)
        BY <2>1, <3>2, <3>3 DEF NamedInv, DerivedInv, Making, Raised, Reported, InReport
      <4>3. want[r][<<c, "fixtures">>] = saw[r][<<c, "fixtures">>]
        BY <3>2, <4>2 DEF Made, Clean, Source
      <4> QED BY <4>1, <4>3 DEF Named, Drawn, Have
    <3>4. CASE ~(since[r][c] > 0)
      <4>1. since[r][c] = 0
        BY <3>4 DEF NamedInv, DerivedInv, SerialInv, TypeInv, TypeOK, Version
      <4> QED BY <4>1, UndrawnAssumption DEF Drawn
    <3> QED BY <3>3, <3>4
  <2> QED BY <2>2, <2>3
<1> QED BY <1>1, InitNamed, NamedStep, PTL DEF SpecSerial
=============================================================================
