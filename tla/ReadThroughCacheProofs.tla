----------------------- MODULE ReadThroughCacheProofs -----------------------
(***************************************************************************)
(* How stale the cache of ReadThroughCache can be, for every number of      *)
(* readers and writers, every time to live and every delay; and when it is  *)
(* not stale at all.                                                        *)
(***************************************************************************)
EXTENDS MCReadThroughCache, TLAPS

AnyStep ==
  \/ Tick
  \/ \E r \in Reader : (\E ok \in BOOLEAN : Lookup(r, ok) \/ Fill(r, ok)) \/ Query(r) \/ Answer(r)
  \/ \E w \in Committer :
       \/ \E ok \in BOOLEAN : Finish(w, ok)
       \/ StartWrite(w) \/ Commit(w) \/ FinishScheduled(w) \/ WriteFails(w)

LEMMA AnyNext == NextF => AnyStep
<1> SUFFICES ASSUME NextF PROVE AnyStep
  OBVIOUS
<1>1. TRUE \in BOOLEAN /\ FALSE \in BOOLEAN
  OBVIOUS
<1> QED BY <1>1 DEF NextF, Next, ReaderStep, WriterStep, AnyStep

LEMMA EntryFacts ==
  /\ NoEntry \notin Entry
  /\ NoEntry.exp = 0
  /\ MaxVersion \in Nat /\ MaxTime \in Nat /\ Ttl \in Nat /\ Ttl > 0 /\ Delay \in Nat
BY TimeAssumption DEF NoEntry, Entry, Version

LEMMA NewEntry ==
  ASSUME NEW v \in Version, NEW e \in Nat
  PROVE  /\ [val |-> v, exp |-> e] \in Entry
         /\ [val |-> v, exp |-> e] # NoEntry
         /\ [val |-> v, exp |-> e].val = v
         /\ [val |-> v, exp |-> e].exp = e
BY TimeAssumption DEF Entry, NoEntry, Version

LEMMA TypeInit == Init => TypeOK
BY TimeAssumption DEF Init, TypeOK, Version, Time

LEMMA TypeStep == TypeOK /\ [AnyStep]_vars => TypeOK'
<1> SUFFICES ASSUME TypeOK, [AnyStep]_vars PROVE TypeOK'
  OBVIOUS
<1> USE DEF TypeOK
<1>1. CASE Tick
  BY <1>1, EntryFacts DEF Tick, Time, dbVars, readerVars, writerVars
<1>2. ASSUME NEW r \in Reader, NEW ok \in BOOLEAN, Lookup(r, ok) PROVE TypeOK'
  <2>1. cache # NoEntry => cache.val \in Version
    BY DEF Entry
  <2> QED BY <1>2, <2>1 DEF Lookup, dbVars, writerVars
<1>3. ASSUME NEW r \in Reader, Query(r) PROVE TypeOK'
  BY <1>3 DEF Query, dbVars, writerVars
<1>4. ASSUME NEW r \in Reader, NEW ok \in BOOLEAN, Fill(r, ok) PROVE TypeOK'
  <2>1. [val |-> val[r], exp |-> now + Ttl] \in Entry
    BY EntryFacts DEF Entry, Time
  <2>2. cache' \in Entry \union {NoEntry}
    BY <1>4, <2>1 DEF Fill
  <2>3. 0 \in Time
    BY EntryFacts DEF Time
  <2> QED BY <1>4, <2>2, <2>3 DEF Fill, dbVars, writerVars
<1>5. ASSUME NEW r \in Reader, Answer(r) PROVE TypeOK'
  BY <1>5, EntryFacts DEF Answer, dbVars, writerVars, Version
<1>6. ASSUME NEW w \in Committer, StartWrite(w) \/ WriteFails(w) PROVE TypeOK'
  <2>1. 0 \in Version
    BY EntryFacts DEF Version
  <2>2. CASE StartWrite(w)
    BY <2>1, <2>2 DEF StartWrite, dbVars, readerVars
  <2>3. CASE WriteFails(w)
    BY <2>1, <2>3 DEF WriteFails, dbVars, readerVars
  <2> QED BY <1>6, <2>2, <2>3
<1>7. ASSUME NEW w \in Committer, Commit(w) PROVE TypeOK'
  BY <1>7, EntryFacts DEF Commit, readerVars, Version
<1>8. ASSUME NEW w \in Committer, NEW ok \in BOOLEAN, Finish(w, ok) PROVE TypeOK'
  BY <1>8, EntryFacts DEF Finish, Report, readerVars, Version
<1>9. ASSUME NEW w \in Committer, FinishScheduled(w) PROVE TypeOK'
  BY <1>9, EntryFacts DEF FinishScheduled, Report, readerVars, Version
<1>10. CASE UNCHANGED vars
  BY <1>10 DEF vars
<1> QED BY <1>1, <1>2, <1>3, <1>4, <1>5, <1>6, <1>7, <1>8, <1>9, <1>10 DEF AnyStep

(* Every variable keeps its type, whatever Redis does.                       *)
THEOREM TypeCorrect == SpecF => []TypeOK
<1>1. TypeOK /\ [NextF]_vars => TypeOK'
  BY TypeStep, AnyNext
<1> QED BY TypeInit, <1>1, PTL DEF SpecF

-----------------------------------------------------------------------------
(* An entry of the current version has at most Ttl to go; one of an earlier  *)
(* version was read before that version was replaced.                        *)
EntryInv ==
  cache # NoEntry =>
    /\ now < cache.exp
    /\ cache.val <= db
    /\ cache.val = db => cache.exp <= now + Ttl
    /\ cache.val # db => cache.exp <= replacedAt[cache.val] + Delay + Ttl

ReaderInv ==
  \A r \in Reader : rpc[r] = "fill" =>
    /\ val[r] <= db
    /\ readAt[r] <= now
    /\ now <= readAt[r] + Delay
    /\ val[r] # db => readAt[r] <= replacedAt[val[r]]

AgeInv == EntryInv /\ ReaderInv

LEMMA AgeStep == TypeOK /\ AgeInv /\ [AnyStep]_vars => AgeInv'
<1> SUFFICES ASSUME TypeOK, AgeInv, [AnyStep]_vars PROVE AgeInv'
  OBVIOUS
<1>0. /\ now \in Nat /\ db \in Nat /\ db \in Version /\ Version \subseteq Nat
      /\ \A v \in Version : replacedAt[v] \in Nat
      /\ \A r \in Reader : val[r] \in Version /\ readAt[r] \in Nat
      /\ cache # NoEntry => cache.val \in Version /\ cache.exp \in Nat
  BY EntryFacts DEF TypeOK, Version, Time, Entry
<1>1. CASE Tick
  <2>1. EntryInv'
    BY <1>0, <1>1, EntryFacts DEF Tick, AgeInv, EntryInv, dbVars
  <2>2. ReaderInv'
    BY <1>0, <1>1, EntryFacts DEF Tick, AgeInv, ReaderInv, dbVars, readerVars
  <2> QED BY <2>1, <2>2 DEF AgeInv
<1>2. ASSUME NEW r \in Reader, NEW ok \in BOOLEAN, Lookup(r, ok) PROVE AgeInv'
  BY <1>2 DEF Lookup, AgeInv, EntryInv, ReaderInv, TypeOK, dbVars
<1>3. ASSUME NEW r \in Reader, Query(r) PROVE AgeInv'
  <2>1. EntryInv'
    BY <1>3 DEF Query, AgeInv, EntryInv, dbVars
  <2>2. ReaderInv'
    BY <1>0, <1>3, EntryFacts DEF Query, AgeInv, ReaderInv, TypeOK, dbVars
  <2> QED BY <2>1, <2>2 DEF AgeInv
<1>4. ASSUME NEW r \in Reader, NEW ok \in BOOLEAN, Fill(r, ok) PROVE AgeInv'
  <2>1. ReaderInv'
    BY <1>4 DEF Fill, AgeInv, ReaderInv, TypeOK, dbVars
  <2>2. CASE ok
    <3>1. cache' = [val |-> val[r], exp |-> now + Ttl] /\ UNCHANGED <<now, db, replacedAt>>
      BY <1>4, <2>2 DEF Fill, dbVars
    <3>2. cache'.val = val[r] /\ cache'.exp = now + Ttl
      BY <1>0, <3>1, EntryFacts, NewEntry
    <3>3. /\ val[r] <= db /\ now <= readAt[r] + Delay
          /\ val[r] # db => readAt[r] <= replacedAt[val[r]]
      BY <1>4 DEF Fill, AgeInv, ReaderInv
    <3>4. /\ now \in Nat /\ Ttl \in Nat /\ Ttl > 0 /\ Delay \in Nat
          /\ val[r] \in Version /\ readAt[r] \in Nat /\ replacedAt[val[r]] \in Nat
      BY <1>0, EntryFacts
    <3>5. now < now + Ttl /\ now + Ttl <= readAt[r] + Delay + Ttl
      BY <3>3, <3>4
    <3>6. val[r] # db => now + Ttl <= replacedAt[val[r]] + Delay + Ttl
      BY <3>3, <3>4
    <3>7. now + Ttl <= now + Ttl
      BY <3>4
    <3>8. EntryInv'
      BY <3>1, <3>2, <3>3, <3>5, <3>6, <3>7 DEF EntryInv
    <3> QED BY <2>1, <3>8 DEF AgeInv
  <2>3. CASE ~ok
    BY <1>4, <2>1, <2>3 DEF Fill, AgeInv, EntryInv, dbVars
  <2> QED BY <2>2, <2>3
<1>5. ASSUME NEW r \in Reader, Answer(r) PROVE AgeInv'
  BY <1>5 DEF Answer, AgeInv, EntryInv, ReaderInv, TypeOK, dbVars
<1>6. ASSUME NEW w \in Committer, StartWrite(w) \/ WriteFails(w) \/ FinishScheduled(w) PROVE AgeInv'
  BY <1>6 DEF StartWrite, WriteFails, FinishScheduled, AgeInv, EntryInv, ReaderInv, dbVars, readerVars
<1>7. ASSUME NEW w \in Committer, Commit(w) PROVE AgeInv'
  <2>1. /\ db' = db + 1 /\ UNCHANGED <<now, cache, rpc, val, readAt>>
        /\ replacedAt'[db] = now
        /\ \A v \in Version : v # db => replacedAt'[v] = replacedAt[v]
    BY <1>0, <1>7 DEF Commit, TypeOK, readerVars
  <2>2. EntryInv'
    <3> SUFFICES ASSUME cache # NoEntry
                 PROVE  /\ now < cache.exp
                        /\ cache.val <= db'
                        /\ cache.val = db' => cache.exp <= now + Ttl
                        /\ cache.val # db' => cache.exp <= replacedAt'[cache.val] + Delay + Ttl
      BY <2>1 DEF EntryInv
    <3>1. /\ now < cache.exp /\ cache.val <= db
          /\ cache.val = db => cache.exp <= now + Ttl
          /\ cache.val # db => cache.exp <= replacedAt[cache.val] + Delay + Ttl
      BY DEF AgeInv, EntryInv
    <3>2. cache.val \in Nat /\ cache.val \in Version /\ cache.exp \in Nat
      BY <1>0
    <3>3. cache.val <= db' /\ cache.val # db'
      BY <1>0, <2>1, <3>1, <3>2
    <3>4. cache.val = db => cache.exp <= now + Delay + Ttl
      BY <1>0, <3>1, <3>2, EntryFacts
    <3>5. CASE cache.val = db
      BY <2>1, <3>1, <3>3, <3>4, <3>5
    <3>6. CASE cache.val # db
      BY <2>1, <3>1, <3>2, <3>3, <3>6
    <3> QED BY <3>5, <3>6
  <2>3. ReaderInv'
    <3> SUFFICES ASSUME NEW r \in Reader, rpc[r] = "fill"
                 PROVE  /\ val[r] <= db'
                        /\ readAt[r] <= now
                        /\ now <= readAt[r] + Delay
                        /\ val[r] # db' => readAt[r] <= replacedAt'[val[r]]
      BY <2>1 DEF ReaderInv
    <3>1. /\ val[r] <= db /\ readAt[r] <= now /\ now <= readAt[r] + Delay
          /\ val[r] # db => readAt[r] <= replacedAt[val[r]]
      BY DEF AgeInv, ReaderInv
    <3>2. val[r] \in Version /\ val[r] \in Nat /\ readAt[r] \in Nat
      BY <1>0
    <3>3. val[r] <= db'
      BY <1>0, <2>1, <3>1, <3>2
    <3>4. CASE val[r] = db
      BY <2>1, <3>1, <3>3, <3>4
    <3>5. CASE val[r] # db
      BY <2>1, <3>1, <3>2, <3>3, <3>5
    <3> QED BY <3>4, <3>5
  <2> QED BY <2>2, <2>3 DEF AgeInv
<1>8. ASSUME NEW w \in Committer, NEW ok \in BOOLEAN, Finish(w, ok) PROVE AgeInv'
  BY <1>8 DEF Finish, AgeInv, EntryInv, ReaderInv, readerVars
<1>9. CASE UNCHANGED vars
  BY <1>9 DEF vars, AgeInv, EntryInv, ReaderInv
<1> QED BY <1>1, <1>2, <1>3, <1>4, <1>5, <1>6, <1>7, <1>8, <1>9 DEF AnyStep

(* Whatever fails, a stale entry is gone before its time to live and its     *)
(* reader's delay have passed since the version it copies was replaced.      *)
THEOREM StalenessIsBounded == SpecF => []BoundedStaleness
<1>1. Init => AgeInv
  BY DEF Init, AgeInv, EntryInv, ReaderInv
<1>2. TypeOK /\ [NextF]_vars => TypeOK'
  BY TypeStep, AnyNext
<1>3. TypeOK /\ AgeInv /\ [NextF]_vars => AgeInv'
  BY AgeStep, AnyNext
<1>4. TypeOK /\ AgeInv => BoundedStaleness
  BY EntryFacts DEF TypeOK, AgeInv, EntryInv, BoundedStaleness, Entry, Version, Time
<1> QED BY TypeInit, <1>1, <1>2, <1>3, <1>4, PTL DEF SpecF

-----------------------------------------------------------------------------
(* One request at a time, every writer deleting the key.                     *)
FreshInv ==
  /\ WritersIdle \/ ReadersIdle
  /\ cache # NoEntry /\ WritersIdle => cache.val = db
  /\ finished <= db
  /\ \A w \in Committer : wrote[w] <= db
  /\ \A r \in Reader : rpc[r] \in {"fill", "answer"} => val[r] = db
  /\ \A r \in Reader : need[r] <= finished

LEMMA SerialNext == NextSerial => AnyStep
BY DEF NextSerial, ReaderStep, WriterStep, AnyStep

(* Nobody who commits without deleting the key is at it.                     *)
SchedulerIdle == \A w \in Scheduled : wpc[w] = "idle"

LEMMA FreshStep == TypeOK /\ SchedulerIdle /\ FreshInv /\ [NextSerial]_vars => FreshInv'
<1> SUFFICES ASSUME TypeOK, SchedulerIdle, FreshInv, [NextSerial]_vars PROVE FreshInv'
  OBVIOUS
<1>0. /\ db \in Nat /\ finished \in Nat /\ Version \subseteq Nat
      /\ \A w \in Committer : wrote[w] \in Nat
      /\ \A r \in Reader : val[r] \in Nat /\ need[r] \in Nat
  BY EntryFacts DEF TypeOK, Version
<1>1. CASE Tick
  BY <1>1 DEF Tick, FreshInv, WritersIdle, ReadersIdle, dbVars, readerVars, writerVars
<1>2. ASSUME NEW r \in Reader, WritersIdle, ReaderStep(r) PROVE FreshInv'
  <2>1. CASE Lookup(r, TRUE)
    BY <1>0, <1>2, <2>1 DEF Lookup, FreshInv, WritersIdle, ReadersIdle, TypeOK, dbVars, writerVars
  <2>2. CASE Query(r)
    BY <1>0, <1>2, <2>2 DEF Query, FreshInv, WritersIdle, ReadersIdle, TypeOK, dbVars, writerVars
  <2>3. CASE Fill(r, TRUE)
    <3>1. val[r] = db
      BY <2>3 DEF Fill, FreshInv
    <3>2. cache' = [val |-> db, exp |-> now + Ttl] /\ UNCHANGED <<db, finished>>
      BY <2>3, <3>1 DEF Fill, dbVars
    <3>3. cache'.val = db
      BY <3>2
    <3> QED BY <1>2, <2>3, <3>2, <3>3 DEF Fill, FreshInv, WritersIdle, ReadersIdle, TypeOK, dbVars, writerVars
  <2>4. CASE Answer(r)
    BY <1>0, <1>2, <2>4 DEF Answer, FreshInv, WritersIdle, ReadersIdle, TypeOK, dbVars, writerVars
  <2> QED BY <1>2, <2>1, <2>2, <2>3, <2>4 DEF ReaderStep
<1>3. ASSUME NEW w \in Committer, ReadersIdle, WriterStep(w) PROVE FreshInv'
  <2>1. CASE StartWrite(w)
    BY <1>0, <1>3, <2>1 DEF StartWrite, FreshInv, WritersIdle, ReadersIdle, TypeOK, dbVars, readerVars
  <2>2. CASE Commit(w)
    <3>1. ~WritersIdle /\ ~WritersIdle'
      BY <2>2 DEF Commit, WritersIdle
    <3>2. \A r \in Reader : rpc'[r] = "idle"
      BY <1>3, <2>2 DEF Commit, ReadersIdle, readerVars
    <3> QED BY <1>0, <1>3, <2>2, <3>1, <3>2 DEF Commit, FreshInv, ReadersIdle, TypeOK, readerVars
  <2>3. CASE Finish(w, TRUE)
    BY <1>0, <1>3, <2>3 DEF Finish, Report, FreshInv, WritersIdle, ReadersIdle, TypeOK, readerVars
  <2> QED BY <1>3, <2>1, <2>2, <2>3 DEF WriterStep
<1>4. CASE UNCHANGED vars
  BY <1>4 DEF vars, FreshInv, WritersIdle, ReadersIdle
<1> QED BY <1>1, <1>2, <1>3, <1>4 DEF NextSerial, FinishScheduled, SchedulerIdle

(* Where every writer deletes the key and requests do not overlap, a read    *)
(* always sees what was reported before it.                                  *)
THEOREM SerialReadsAreFresh ==
  ASSUME Scheduled = {}
  PROVE  SpecSerial => []ReadsSeeFinishedWrites
<1>1. Init => FreshInv
  BY DEF Init, FreshInv, WritersIdle, ReadersIdle
<1>2. TypeOK /\ [NextSerial]_vars => TypeOK'
  BY TypeStep, SerialNext
<1>3. TypeOK /\ FreshInv /\ [NextSerial]_vars => FreshInv'
  BY FreshStep DEF SchedulerIdle
<1>4. TypeOK /\ FreshInv => ReadsSeeFinishedWrites
  BY EntryFacts DEF TypeOK, FreshInv, ReadsSeeFinishedWrites, Version
<1> QED BY TypeInit, <1>1, <1>2, <1>3, <1>4, PTL DEF SpecSerial

(* The behaviours of the runs: calm, or anything goes.                       *)
CalmInv == TypeOK /\ (calm => SchedulerIdle /\ FreshInv)

LEMMA CalmStep == CalmInv /\ [MCNext]_<<vars, calm>> => CalmInv'
<1> SUFFICES ASSUME CalmInv, [MCNext]_<<vars, calm>> PROVE CalmInv'
  OBVIOUS
<1>1. CASE calm /\ NextSerial /\ SchedulerIdle' /\ UNCHANGED calm
  <2>1. TypeOK'
    BY <1>1, TypeStep, SerialNext DEF CalmInv
  <2>2. FreshInv'
    BY <1>1, FreshStep DEF CalmInv
  <2> QED BY <1>1, <2>1, <2>2 DEF CalmInv
<1>2. CASE ~calm /\ NextF /\ UNCHANGED calm
  <2>1. TypeOK'
    BY <1>2, TypeStep, AnyNext DEF CalmInv
  <2> QED BY <1>2, <2>1 DEF CalmInv
<1>3. CASE UNCHANGED <<vars, calm>>
  BY <1>3 DEF CalmInv, vars, TypeOK, SchedulerIdle, FreshInv, WritersIdle, ReadersIdle
<1> QED BY <1>1, <1>2, <1>3 DEF MCNext, SchedulerIdle

(* Where nothing fails, requests do not overlap and no scheduled sync runs,  *)
(* a read sees what was reported before it, for any number of readers and    *)
(* writers, whatever the other behaviours do.                                *)
THEOREM CalmReadsAreFresh == MCSpec => []CalmReadsSeeFinishedWrites
<1>1. MCInit => CalmInv
  <2>1. Init => FreshInv /\ SchedulerIdle
    BY DEF Init, FreshInv, WritersIdle, ReadersIdle, SchedulerIdle, Committer
  <2> QED BY <2>1, TypeInit DEF MCInit, CalmInv
<1>2. CalmInv => CalmReadsSeeFinishedWrites
  BY EntryFacts DEF CalmInv, TypeOK, FreshInv, ReadsSeeFinishedWrites, CalmReadsSeeFinishedWrites, Version
<1> QED BY <1>1, <1>2, CalmStep, PTL DEF MCSpec
=============================================================================
