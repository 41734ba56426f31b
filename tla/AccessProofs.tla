---------------------------- MODULE AccessProofs ----------------------------
(***************************************************************************)
(* What Access keeps true of its rows for any number of accounts, keys,     *)
(* addresses and overlapping requests: the audit log tells what a row is,   *)
(* the usage counter counts, and a revoked key stays revoked, whichever     *)
(* requests the limiter refuses; and the limiter lets no more through in a  *)
(* window than it says.                                                     *)
(***************************************************************************)
EXTENDS Access, SequenceTheorems, WellFoundedInduction, TLAPS

(* One disjunct per action.                                                  *)
AnyStep ==
  \/ \E c \in Caller :
       \/ \E e \in Email : ByToken(c, e) \/ LoadUser(c, e)
       \/ \E e \in Email, h \in Host : Login(c, h, e)
       \/ \E k \in KeyId : ByKey(c, k) \/ CreateKey(c, k) \/ LoadKey(c, k)
       \/ \E e \in Email, r \in Role : CreateUser(c, e, r)
       \/ \E r \in Role \union {Keep}, a \in BOOLEAN \union {Keep} : UpdateUser(c, r, a)
       \/ \E a \in BOOLEAN \union {Keep} : UpdateKey(c, a)
       \/ \E right \in BOOLEAN : Password(c, right)
       \/ LoginCounted(c) \/ KeyCounted(c) \/ Stamp(c) \/ Leave(c)
  \/ \E e \in Email : CreateAdmin(e) \/ TokenExpires(e)
  \/ Tick \/ Restart

LEMMA AnyNext == Next => AnyStep
<1> SUFFICES ASSUME Next PROVE AnyStep
  OBVIOUS
<1>1. ASSUME NEW c \in Caller, Authenticate(c) PROVE AnyStep
  BY <1>1 DEF Authenticate, AnyStep
<1>2. ASSUME NEW c \in Caller, Endpoint(c) PROVE AnyStep
  BY <1>2 DEF Endpoint, AnyStep
<1> QED BY <1>1, <1>2 DEF Next, AnyStep

-----------------------------------------------------------------------------
(* Rows have their type; a key belongs to an account; a key that is not      *)
(* there was never used, and an account that is there was announced.         *)
RowsOK ==
  /\ users \in [Email -> Row \union {NoRow}]
  /\ keys \in [KeyId -> ApiKey \union {NoRow}]
  /\ told \in [Email -> Row \union {NoRow}]
  /\ keyTold \in [KeyId -> BOOLEAN]
  /\ used \in [KeyId -> Nat]
  /\ \A e \in Email : users[e] # NoRow => told[e] # NoRow
  /\ \A k \in KeyId :
       /\ keys[k] = NoRow => used[k] = 0
       /\ keys[k] # NoRow => users[keys[k].owner] # NoRow

(* A counter somebody has read and is about to write, increased by one.      *)
CountOK(k, n) ==
  /\ k \in KeyId
  /\ keys[k] # NoRow
  /\ n \in Nat
  /\ n < MaxUse
  /\ n <= used[k]
  /\ k \notin stale => n = keys[k].count

(* What a caller has read is there, and is still so unless the row counts    *)
(* as overtaken.                                                             *)
TaskOK(t) ==
  /\ t.pc \in {"idle", "check", "password", "stamp", "act", "user", "key"}
  /\ t.pc = "check" => t.bucket \in Bucket /\ (t.bucket \in KeyId => CountOK(t.bucket, t.count))
  /\ t.pc = "stamp" => CountOK(t.on, t.count)
  /\ t.pc = "act" =>
       /\ t.who \in Email
       /\ users[t.who] # NoRow
       /\ t.row \in Row
       /\ t.who \notin stale => t.row = users[t.who]
  /\ t.pc = "user" =>
       /\ {t.who, t.on} \subseteq Email
       /\ users[t.who] # NoRow /\ users[t.on] # NoRow
       /\ t.seen \in Row
       /\ t.on \notin stale => t.seen = users[t.on]
  /\ t.pc = "key" =>
       /\ t.who \in Email
       /\ users[t.who] # NoRow
       /\ t.on \in KeyId
       /\ keys[t.on] # NoRow
       /\ t.seen \in BOOLEAN
       /\ t.on \notin stale => t.seen = keys[t.on].active

TasksOK ==
  /\ task = [c \in Caller |-> task[c]]
  /\ \A c \in Caller : TaskOK(task[c])

IInv == RowsOK /\ TasksOK /\ AuditTellsTheRow /\ UsageCounted

LEMMA RowFacts ==
  /\ \A x \in Row : x # NoRow /\ x.role \in Role /\ x.active \in BOOLEAN
  /\ \A r \in Role, a \in BOOLEAN : [role |-> r, active |-> a] \in Row
  /\ \A x \in ApiKey : x # NoRow /\ x.owner \in Email /\ x.active \in BOOLEAN
                         /\ x.count \in Nat /\ x.count <= MaxUse
  /\ \A e \in Email, a \in BOOLEAN, n \in Nat :
       n <= MaxUse => [owner |-> e, active |-> a, count |-> n] \in ApiKey
<1>1. MaxUse \in Nat
  BY LimitAssumption
<1> QED BY <1>1, NoRowAssumption DEF Row, ApiKey

LEMMA IdleOK == TaskOK(Idle) /\ TaskOK(Idle)'
BY DEF TaskOK, Idle

LEMMA InvInit == Init => IInv
<1> SUFFICES ASSUME Init PROVE IInv
  OBVIOUS
<1>1. RowsOK
  BY DEF Init, RowsOK
<1>2. TasksOK
  BY IdleOK DEF Init, TasksOK
<1> QED BY <1>1, <1>2 DEF Init, IInv, AuditTellsTheRow, UsageCounted

-----------------------------------------------------------------------------
(* A caller that only reads, or lets go of what it has read.                 *)
LEMMA ReadStep ==
  ASSUME IInv, NEW c \in Caller, NEW t, Goto(c, t), TaskOK(t),
         UNCHANGED <<users, keys, told, keyTold, used, stale>>
  PROVE  IInv'
<1>1. RowsOK' /\ AuditTellsTheRow' /\ UsageCounted'
  BY DEF IInv, RowsOK, AuditTellsTheRow, UsageCounted
<1>2. ASSUME NEW d \in Caller PROVE TaskOK(task'[d])
  BY DEF Goto, IInv, TasksOK
<1>3. ASSUME NEW d \in Caller PROVE TaskOK(task[d])'
  BY <1>2 DEF TaskOK, CountOK
<1>4. task' = [d \in Caller |-> task'[d]]
  BY DEF Goto, IInv, TasksOK
<1> QED BY <1>1, <1>3, <1>4 DEF IInv, TasksOK

LEMMA Reads ==
  ASSUME IInv, NEW c \in Caller
  PROVE  /\ \A e \in Email : ByToken(c, e) => IInv'
         /\ \A e \in Email, h \in Host : Login(c, h, e) => IInv'
         /\ \A k \in KeyId : ByKey(c, k) => IInv'
<1>1. ASSUME NEW e \in Email, ByToken(c, e) PROVE IInv'
  <2>1. users[e] \in Row
    BY <1>1 DEF ByToken, Active, IInv, RowsOK
  <2>2. TaskOK([pc |-> "act", who |-> e, row |-> users[e]])
    BY <2>1, RowFacts DEF TaskOK
  <2> QED BY <1>1, <2>2, ReadStep DEF ByToken, rowVars, logVars
<1>2. ASSUME NEW e \in Email, NEW h \in Host, Login(c, h, e) PROVE IInv'
  <2> DEFINE t == [pc |-> "check", bucket |-> h, who |-> e,
                   list |-> Record(attempts[h], now), count |-> 0]
  <2>1. TaskOK(t)
    BY BucketAssumption DEF TaskOK, Bucket
  <2> QED BY <1>2, <2>1, ReadStep DEF Login, Check, rowVars, logVars
<1>3. ASSUME NEW k \in KeyId, ByKey(c, k) PROVE IInv'
  <2> DEFINE t == [pc |-> "check", bucket |-> k, who |-> keys[k].owner,
                   list |-> Record(attempts[k], now), count |-> keys[k].count]
  <2>1. keys[k] \in ApiKey
    BY <1>3 DEF ByKey, IInv, RowsOK
  <2>2. CountOK(k, keys[k].count)
    BY <1>3, <2>1, RowFacts DEF ByKey, CountOK, IInv, UsageCounted
  <2>3. TaskOK(t)
    BY <2>2 DEF TaskOK, Bucket
  <2> QED BY <1>3, <2>3, ReadStep DEF ByKey, Check, rowVars, logVars
<1> QED BY <1>1, <1>2, <1>3

LEMMA Moves ==
  ASSUME IInv, NEW c \in Caller
  PROVE  /\ LoginCounted(c) => IInv'
         /\ \A right \in BOOLEAN : Password(c, right) => IInv'
         /\ KeyCounted(c) => IInv'
         /\ Leave(c) => IInv'
<1>1. ASSUME LoginCounted(c) PROVE IInv'
  <2>1. TaskOK([pc |-> "password", who |-> task[c].who, bucket |-> task[c].bucket])
    BY DEF TaskOK
  <2> QED BY <1>1, <2>1, IdleOK, ReadStep DEF LoginCounted, rowVars, logVars
<1>2. ASSUME NEW right \in BOOLEAN, Password(c, right) PROVE IInv'
  BY <1>2, IdleOK, ReadStep DEF Password, logVars
<1>3. ASSUME KeyCounted(c) PROVE IInv'
  <2> DEFINE t == [pc |-> "stamp", on |-> task[c].bucket, count |-> task[c].count]
  <2>1. TaskOK(task[c])
    BY DEF IInv, TasksOK
  <2>2. CountOK(task[c].bucket, task[c].count)
    BY <1>3, <2>1 DEF KeyCounted, TaskOK
  <2>3. TaskOK(t)
    BY <2>2 DEF TaskOK
  <2> QED BY <1>3, <2>3, IdleOK, ReadStep DEF KeyCounted, rowVars, logVars
<1>4. ASSUME Leave(c) PROVE IInv'
  BY <1>4, IdleOK, ReadStep DEF Leave, rowVars, logVars
<1> QED BY <1>1, <1>2, <1>3, <1>4

LEMMA Loads ==
  ASSUME IInv, NEW c \in Caller
  PROVE  /\ \A e \in Email : LoadUser(c, e) => IInv'
         /\ \A k \in KeyId : LoadKey(c, k) => IInv'
<1>0. TaskOK(task[c])
  BY DEF IInv, TasksOK
<1>1. ASSUME NEW e \in Email, LoadUser(c, e) PROVE IInv'
  <2> DEFINE seen == IF e = task[c].who THEN task[c].row ELSE users[e]
             t == [pc |-> "user", who |-> task[c].who, on |-> e, seen |-> seen]
  <2>1. users[e] \in Row
    BY <1>1 DEF LoadUser, IInv, RowsOK
  <2>2. seen \in Row /\ (e \notin stale => seen = users[e])
    BY <1>0, <1>1, <2>1 DEF LoadUser, IsAdmin, TaskOK
  <2>3. task[c].who \in Email /\ users[task[c].who] # NoRow /\ users[e] # NoRow
    BY <1>0, <1>1 DEF LoadUser, IsAdmin, TaskOK
  <2> HIDE DEF seen
  <2>4. TaskOK(t)
    BY <2>2, <2>3 DEF TaskOK
  <2> QED BY <1>1, <2>4, ReadStep DEF LoadUser, rowVars, logVars, seen
<1>2. ASSUME NEW k \in KeyId, LoadKey(c, k) PROVE IInv'
  <2> DEFINE t == [pc |-> "key", who |-> task[c].who, on |-> k, seen |-> keys[k].active]
  <2>1. keys[k] \in ApiKey
    BY <1>2 DEF LoadKey, IInv, RowsOK
  <2>2. TaskOK(t)
    BY <1>0, <1>2, <2>1, RowFacts DEF LoadKey, TaskOK
  <2> QED BY <1>2, <2>2, ReadStep DEF LoadKey, rowVars, logVars
<1> QED BY <1>1, <1>2

-----------------------------------------------------------------------------
(* An account's row is written, with its entry, by somebody who lets go; who *)
(* else has read it has read something else from now on, and that is noted.  *)
LEMMA UserWritten ==
  ASSUME IInv, NEW e \in Email, NEW row \in Row, NEW entry \in Row,
         users' = [users EXCEPT ![e] = row], told' = [told EXCEPT ![e] = entry],
         UNCHANGED <<keys, keyTold, used>>,
         stale \subseteq stale', e \notin stale' => entry = row,
         task' = [d \in Caller |-> task'[d]],
         \A d \in Caller : \/ task'[d] = Idle
                           \/ task'[d] = task[d] /\ (SeesUser(d, e) => e \in stale')
  PROVE  IInv'
<1>0. row # NoRow /\ entry # NoRow
  BY RowFacts
<1>1. RowsOK'
  <2>1. \A k \in KeyId : keys[k] # NoRow => keys[k].owner \in Email
    BY RowFacts DEF IInv, RowsOK
  <2> QED BY <1>0, <2>1 DEF IInv, RowsOK
<1>2. AuditTellsTheRow' /\ UsageCounted'
  BY DEF IInv, RowsOK, AuditTellsTheRow, UsageCounted
<1>3. ASSUME NEW d \in Caller PROVE TaskOK(task[d])'
  <2>1. CASE task'[d] = Idle
    BY <2>1 DEF TaskOK, Idle
  <2>2. CASE task'[d] = task[d] /\ (SeesUser(d, e) => e \in stale')
    <3>1. TaskOK(task[d])
      BY DEF IInv, TasksOK
    <3>2. \A f \in Email : users[f] # NoRow => users'[f] # NoRow
      BY <1>0 DEF IInv, RowsOK
    <3>3. \A f \in Email \ {e} : users'[f] = users[f]
      BY DEF IInv, RowsOK
    <3>4. TaskOK(task[d])'
      BY <2>2, <3>1, <3>2, <3>3 DEF TaskOK, CountOK, SeesUser
    <3> QED BY <3>4
  <2> QED BY <2>1, <2>2
<1> QED BY <1>1, <1>2, <1>3 DEF IInv, TasksOK

LEMMA Users ==
  ASSUME IInv
  PROVE  /\ \A c \in Caller, e \in Email, r \in Role : CreateUser(c, e, r) => IInv'
         /\ \A e \in Email : CreateAdmin(e) => IInv'
         /\ \A c \in Caller, r \in Role \union {Keep}, a \in BOOLEAN \union {Keep} :
              UpdateUser(c, r, a) => IInv'
<1>0. /\ task = [c \in Caller |-> task[c]]
      /\ \A c \in Caller : TaskOK(task[c])
      /\ users \in [Email -> Row \union {NoRow}] /\ told \in [Email -> Row \union {NoRow}]
  BY DEF IInv, RowsOK, TasksOK
<1>1. ASSUME NEW d \in Caller, NEW e \in Email, users[e] = NoRow PROVE ~SeesUser(d, e)
  BY <1>0, <1>1 DEF SeesUser, TaskOK
<1>2. ASSUME NEW c \in Caller, NEW e \in Email, NEW r \in Role, CreateUser(c, e, r) PROVE IInv'
  <2> DEFINE row == [role |-> r, active |-> TRUE]
  <2>1. row \in Row
    BY RowFacts
  <2>2. users' = [users EXCEPT ![e] = row] /\ told' = [told EXCEPT ![e] = row]
    BY <1>0, <1>2 DEF CreateUser
  <2>3. \A d \in Caller : task'[d] = Idle \/ task'[d] = task[d]
    BY <1>0, <1>2 DEF CreateUser, Goto
  <2>4. task' = [d \in Caller |-> task'[d]]
    BY <1>0, <1>2 DEF CreateUser, Goto
  <2>5. stale' = stale /\ UNCHANGED <<keys, keyTold, used>>
    BY <1>2 DEF CreateUser
  <2>6. \A d \in Caller : ~SeesUser(d, e)
    BY <1>1, <1>2 DEF CreateUser
  <2> HIDE DEF row
  <2> QED BY <2>1, <2>2, <2>3, <2>4, <2>5, <2>6, UserWritten
<1>3. ASSUME NEW e \in Email, CreateAdmin(e) PROVE IInv'
  <2> DEFINE row == [role |-> "ADMIN", active |-> TRUE]
  <2>1. row \in Row
    BY RowFacts DEF Role
  <2>2. users' = [users EXCEPT ![e] = row] /\ told' = [told EXCEPT ![e] = row]
    BY <1>0, <1>3 DEF CreateAdmin
  <2>3. task' = task /\ stale' = stale /\ UNCHANGED <<keys, keyTold, used>>
    BY <1>3 DEF CreateAdmin
  <2>4. \A d \in Caller : ~SeesUser(d, e)
    BY <1>1, <1>3 DEF CreateAdmin
  <2>5. task' = [d \in Caller |-> task'[d]]
    BY <1>0, <2>3
  <2> HIDE DEF row
  <2> QED BY <2>1, <2>2, <2>3, <2>4, <2>5, UserWritten
<1>4. ASSUME NEW c \in Caller, NEW r \in Role \union {Keep}, NEW a \in BOOLEAN \union {Keep},
             UpdateUser(c, r, a)
      PROVE IInv'
  <2> DEFINE e == task[c].on
             seen == task[c].seen
             row == [role |-> Written(r, seen.role, users[e].role),
                     active |-> Written(a, seen.active, users[e].active)]
             entry == [role |-> Given(r, told[e].role), active |-> Given(a, told[e].active)]
  <2>1. e \in Email /\ users[e] \in Row /\ told[e] \in Row /\ seen \in Row
        /\ (e \notin stale => seen = users[e] /\ told[e] = users[e])
    <3>1. e \in Email /\ users[e] # NoRow /\ seen \in Row /\ (e \notin stale => seen = users[e])
      BY <1>0, <1>4 DEF UpdateUser, TaskOK
    <3>2. told[e] # NoRow
      BY <3>1 DEF IInv, RowsOK
    <3>3. e \notin stale => told[e] = users[e]
      BY <3>1 DEF IInv, AuditTellsTheRow
    <3> QED BY <1>0, <3>1, <3>2, <3>3
  <2>2. row \in Row /\ entry \in Row
    BY <2>1, RowFacts DEF Written, Given
  <2>3. e \notin stale => entry = row
    BY <2>1, RowFacts, KeepAssumption DEF Written, Given
  <2>4. users' = [users EXCEPT ![e] = row] /\ told' = [told EXCEPT ![e] = entry]
    BY <1>0, <1>4 DEF UpdateUser
  <2>5. stale \subseteq stale' /\ UNCHANGED <<keys, keyTold, used>>
    BY <1>4 DEF UpdateUser
  <2>6. \A d \in Caller : \/ task'[d] = Idle
                          \/ task'[d] = task[d] /\ (SeesUser(d, e) => e \in stale')
    BY <1>0, <1>4 DEF UpdateUser, Goto, Others
  <2>7. task' = [d \in Caller |-> task'[d]]
    BY <1>0, <1>4 DEF UpdateUser, Goto
  <2> HIDE DEF e, row, entry
  <2> QED BY <2>1, <2>2, <2>3, <2>4, <2>5, <2>6, <2>7, UserWritten
<1> QED BY <1>2, <1>3, <1>4

-----------------------------------------------------------------------------
(* A key's row is written by somebody who lets go of it.                     *)
LEMMA KeyCreated ==
  ASSUME IInv, NEW c \in Caller, NEW k \in KeyId, CreateKey(c, k)
  PROVE  IInv'
<1> DEFINE x == [owner |-> task[c].who, active |-> TRUE, count |-> 0]
<1>0. /\ task = [d \in Caller |-> task[d]]
      /\ \A d \in Caller : TaskOK(task[d])
      /\ keys \in [KeyId -> ApiKey \union {NoRow}] /\ keyTold \in [KeyId -> BOOLEAN]
      /\ keys[k] = NoRow /\ used[k] = 0
  BY DEF IInv, RowsOK, TasksOK, CreateKey
<1>1. x \in ApiKey /\ x # NoRow /\ users[x.owner] # NoRow
  <2>1. task[c].who \in Email /\ users[task[c].who] # NoRow
    BY <1>0 DEF CreateKey, TaskOK
  <2>2. 0 \in Nat /\ 0 <= MaxUse
    BY LimitAssumption
  <2> QED BY <2>1, <2>2, RowFacts
<1>2. keys' = [keys EXCEPT ![k] = x] /\ keyTold' = [keyTold EXCEPT ![k] = TRUE]
  BY DEF CreateKey
<1>3. UNCHANGED <<users, told, used, stale>>
  BY DEF CreateKey
<1>4. RowsOK'
  BY <1>1, <1>2, <1>3 DEF IInv, RowsOK
<1>5. AuditTellsTheRow'
  BY <1>0, <1>2, <1>3 DEF IInv, AuditTellsTheRow
<1>6. UsageCounted'
  BY <1>0, <1>2, <1>3 DEF IInv, UsageCounted
<1>7. ASSUME NEW d \in Caller PROVE TaskOK(task[d])'
  <2>1. \A j \in KeyId : keys[j] # NoRow => keys'[j] = keys[j]
    BY <1>0, <1>2
  <2>2. task'[d] = Idle \/ task'[d] = task[d]
    BY <1>0 DEF CreateKey, Goto
  <2>3. CASE task'[d] = Idle
    BY <2>3 DEF TaskOK, Idle
  <2>4. CASE task'[d] = task[d]
    BY <1>0, <1>3, <2>1, <2>4 DEF TaskOK, CountOK
  <2> QED BY <2>2, <2>3, <2>4
<1>8. task' = [d \in Caller |-> task'[d]]
  BY <1>0 DEF CreateKey, Goto
<1> QED BY <1>4, <1>5, <1>6, <1>7, <1>8 DEF IInv, TasksOK

LEMMA KeyUpdated ==
  ASSUME IInv, NEW c \in Caller, NEW a \in BOOLEAN \union {Keep}, UpdateKey(c, a)
  PROVE  IInv'
<1> DEFINE k == task[c].on
           b == Written(a, task[c].seen, keys[k].active)
           told2 == Given(a, keyTold[k])
<1>0. /\ task = [d \in Caller |-> task[d]]
      /\ \A d \in Caller : TaskOK(task[d])
      /\ keys \in [KeyId -> ApiKey \union {NoRow}] /\ keyTold \in [KeyId -> BOOLEAN]
  BY DEF IInv, RowsOK, TasksOK
<1>1. /\ k \in KeyId /\ keys[k] \in ApiKey /\ task[c].seen \in BOOLEAN
      /\ k \notin stale => task[c].seen = keys[k].active /\ keyTold[k] = keys[k].active
  <2>1. k \in KeyId /\ keys[k] # NoRow /\ task[c].seen \in BOOLEAN
        /\ (k \notin stale => task[c].seen = keys[k].active)
    BY <1>0 DEF UpdateKey, TaskOK
  <2> QED BY <1>0, <2>1 DEF IInv, AuditTellsTheRow
<1>2. b \in BOOLEAN /\ told2 \in BOOLEAN /\ (k \notin stale => b = told2)
  BY <1>0, <1>1, RowFacts, KeepAssumption DEF Written, Given
<1>3. /\ keys' = [keys EXCEPT ![k] = [keys[k] EXCEPT !.active = b]]
      /\ keyTold' = [keyTold EXCEPT ![k] = told2]
      /\ UNCHANGED <<users, told, used>> /\ stale \subseteq stale'
  BY <1>0, <1>1 DEF UpdateKey
<1> HIDE DEF b, told2
<1>4. /\ keys'[k] \in ApiKey /\ keys'[k] # NoRow /\ keys'[k].active = b
      /\ keys'[k].owner = keys[k].owner /\ keys'[k].count = keys[k].count
      /\ keys[k] # NoRow
      /\ \A j \in KeyId \ {k} : keys'[j] = keys[j]
  <2>1. keys'[k] = [keys[k] EXCEPT !.active = b]
    BY <1>0, <1>1, <1>3
  <2>2. keys'[k] \in ApiKey
    BY <1>1, <1>2, <2>1 DEF ApiKey
  <2> QED BY <1>0, <1>1, <1>3, <2>1, <2>2, RowFacts DEF ApiKey
<1>5. RowsOK'
  <2>1. keys' \in [KeyId -> ApiKey \union {NoRow}]
    BY <1>0, <1>1, <1>3, <1>4
  <2> QED BY <1>1, <1>2, <1>3, <1>4, <2>1 DEF IInv, RowsOK
<1>6. AuditTellsTheRow'
  BY <1>0, <1>1, <1>2, <1>3, <1>4 DEF IInv, AuditTellsTheRow
<1>7. UsageCounted'
  <2>1. \A j \in KeyId : /\ keys[j] # NoRow <=> keys'[j] # NoRow
                         /\ keys'[j].count = keys[j].count
    BY <1>4
  <2> QED BY <1>3, <2>1 DEF IInv, UsageCounted
<1>8. ASSUME NEW d \in Caller PROVE TaskOK(task[d])'
  <2>1. task'[d] = Idle \/ (task'[d] = task[d] /\ (SeesKey(d, k) => k \in stale'))
    <3>1. d = c => task'[d] = Idle
      BY <1>0 DEF UpdateKey, Goto
    <3>2. d # c => task'[d] = task[d] /\ d \in Others(c)
      BY <1>0 DEF UpdateKey, Goto, Others
    <3>3. d \in Others(c) /\ SeesKey(d, k) => k \in stale'
      BY DEF UpdateKey
    <3> QED BY <3>1, <3>2, <3>3
  <2>2. CASE task'[d] = Idle
    BY <2>2 DEF TaskOK, Idle
  <2>3. CASE task'[d] = task[d] /\ (SeesKey(d, k) => k \in stale')
    <3>1. TaskOK(task[d])
      BY <1>0
    <3>2. \A j \in KeyId, n \in Nat :
            CountOK(j, n) => /\ keys'[j] # NoRow /\ n < MaxUse /\ n <= used'[j]
                             /\ j \notin stale' => n = keys'[j].count
      BY <1>3, <1>4 DEF CountOK
    <3>3. \A j \in KeyId : keys[j] # NoRow => keys'[j] # NoRow
      BY <1>4
    <3>4. \A j, n : CountOK(j, n) => j \in KeyId /\ n \in Nat
      BY DEF CountOK
    <3>5. task[d].pc = "check" /\ task[d].bucket \in KeyId =>
            CountOK(task[d].bucket, task[d].count)'
      BY <2>3, <3>1, <3>2, <3>4 DEF TaskOK, CountOK
    <3>6. task[d].pc = "stamp" => CountOK(task[d].on, task[d].count)'
      BY <2>3, <3>1, <3>2, <3>4 DEF TaskOK, CountOK
    <3>7. task[d].pc = "key" /\ task[d].on \notin stale' => task[d].seen = keys'[task[d].on].active
      BY <1>3, <1>4, <2>3, <3>1 DEF TaskOK, SeesKey
    <3> HIDE DEF k
    <3>8. TaskOK(task'[d]) /\ task'[d] = task[d]
      BY <2>3, <3>1
    <3> QED BY <1>3, <3>1, <3>3, <3>5, <3>6, <3>7, <3>8 DEF TaskOK, CountOK
  <2> QED BY <2>1, <2>2, <2>3
<1>9. task' = [d \in Caller |-> task'[d]]
  BY <1>0 DEF UpdateKey, Goto
<1> QED BY <1>5, <1>6, <1>7, <1>8, <1>9 DEF IInv, TasksOK

LEMMA KeyStamped ==
  ASSUME IInv, NEW c \in Caller, Stamp(c)
  PROVE  IInv'
<1> DEFINE k == task[c].on
           n == task[c].count + 1
           t == [pc |-> "act", who |-> keys[k].owner, row |-> users[keys[k].owner]]
<1>0. /\ task = [d \in Caller |-> task[d]]
      /\ \A d \in Caller : TaskOK(task[d])
      /\ users \in [Email -> Row \union {NoRow}]
      /\ keys \in [KeyId -> ApiKey \union {NoRow}] /\ used \in [KeyId -> Nat]
  BY DEF IInv, RowsOK, TasksOK
<1>1. CountOK(k, task[c].count)
  BY <1>0 DEF Stamp, TaskOK
<1>2. /\ k \in KeyId /\ keys[k] \in ApiKey /\ keys[k] # NoRow
      /\ n \in Nat /\ n <= MaxUse /\ n <= used[k] + 1
      /\ k \notin stale => n = keys[k].count + 1
  BY <1>0, <1>1, LimitAssumption DEF CountOK
<1>3. /\ keys' = [keys EXCEPT ![k] = [keys[k] EXCEPT !.count = n]]
      /\ used' = [used EXCEPT ![k] = @ + 1]
      /\ UNCHANGED <<users, told, keyTold>> /\ stale \subseteq stale'
      /\ task' = [task EXCEPT ![c] = t]
  BY <1>0, <1>2 DEF Stamp, Goto
<1>4. /\ keys'[k] \in ApiKey /\ keys'[k] # NoRow /\ keys'[k].count = n
      /\ keys'[k].owner = keys[k].owner /\ keys'[k].active = keys[k].active
      /\ \A j \in KeyId \ {k} : keys'[j] = keys[j] /\ used'[j] = used[j]
      /\ used'[k] = used[k] + 1
  <2> HIDE DEF n
  <2>1. keys'[k] = [keys[k] EXCEPT !.count = n]
    BY <1>0, <1>2, <1>3
  <2>2. n \in 0..MaxUse
    BY <1>2, LimitAssumption
  <2>3. keys'[k] \in ApiKey
    BY <1>2, <2>1, <2>2 DEF ApiKey
  <2> QED BY <1>0, <1>2, <1>3, <2>1, <2>3, RowFacts DEF ApiKey
<1>5. users[keys[k].owner] \in Row /\ keys[k].owner \in Email
  BY <1>0, <1>2, RowFacts DEF IInv, RowsOK
<1> HIDE DEF n
<1>6. RowsOK'
  <2>1. keys' \in [KeyId -> ApiKey \union {NoRow}] /\ used' \in [KeyId -> Nat]
    BY <1>0, <1>2, <1>3, <1>4
  <2>2. \A j \in KeyId : /\ keys'[j] = NoRow => keys[j] = NoRow /\ used'[j] = used[j]
                         /\ keys'[j] # NoRow => keys[j] # NoRow /\ keys'[j].owner = keys[j].owner
    BY <1>2, <1>4
  <2> QED BY <1>3, <2>1, <2>2 DEF IInv, RowsOK
<1>7. AuditTellsTheRow'
  <2>1. \A j \in KeyId : /\ keys[j] # NoRow <=> keys'[j] # NoRow
                         /\ keys'[j].active = keys[j].active
    BY <1>2, <1>4
  <2> QED BY <1>3, <2>1 DEF IInv, AuditTellsTheRow
<1>8. UsageCounted'
  <2>1. keys[k].count <= used[k] /\ (k \notin stale => keys[k].count = used[k])
    BY <1>2 DEF IInv, UsageCounted
  <2>2. keys'[k].count <= used'[k] /\ (k \notin stale' => keys'[k].count = used'[k])
    BY <1>0, <1>2, <1>3, <1>4, <2>1
  <2>3. ASSUME NEW j \in KeyId, j # k, keys'[j] # NoRow
        PROVE  keys'[j].count <= used'[j] /\ (j \notin stale' => keys'[j].count = used'[j])
    BY <1>3, <1>4, <2>3 DEF IInv, UsageCounted
  <2> QED BY <2>2, <2>3 DEF UsageCounted
<1>9. ASSUME NEW d \in Caller PROVE TaskOK(task[d])'
  <2>1. CASE d = c
    <3>1. task'[d] = t
      BY <1>0, <1>3, <2>1
    <3>2. /\ task'[d].pc = "act" /\ task'[d].who = keys[k].owner
          /\ task'[d].row = users[keys[k].owner]
      BY <3>1
    <3> HIDE DEF k, t
    <3>3. users' = users /\ users[keys[k].owner] # NoRow
      BY <1>3, <1>5, RowFacts
    <3> QED BY <1>5, <3>2, <3>3 DEF TaskOK
  <2>2. CASE d # c
    <3>1. task'[d] = task[d] /\ TaskOK(task[d])
      BY <1>0, <1>3, <2>2
    <3>2. SeesCount(d, k) => k \in stale'
      BY <2>2 DEF Stamp, Others
    <3>3. \A j \in KeyId : /\ keys[j] # NoRow => keys'[j] # NoRow
                           /\ keys'[j].active = keys[j].active
                           /\ used[j] <= used'[j]
      BY <1>0, <1>4
    <3>4. \A j, m : CountOK(j, m) =>
            /\ j \in KeyId /\ m \in Nat /\ m < MaxUse
            /\ keys'[j] # NoRow /\ m <= used'[j]
            /\ j \notin stale' /\ j # k => m = keys'[j].count
      <4>1. ASSUME NEW j \in KeyId, NEW m \in Nat, m <= used[j] PROVE m <= used'[j]
        BY <1>0, <1>4, <4>1
      <4>2. \A j \in KeyId : j \notin stale' /\ j # k => j \notin stale /\ keys'[j] = keys[j]
        BY <1>3, <1>4
      <4> QED BY <3>3, <4>1, <4>2 DEF CountOK
    <3> HIDE DEF k
    <3>5. task[d].pc = "check" /\ task[d].bucket \in KeyId =>
            CountOK(task[d].bucket, task[d].count)'
      BY <3>1, <3>2, <3>4 DEF TaskOK, CountOK, SeesCount
    <3>6. task[d].pc = "stamp" => CountOK(task[d].on, task[d].count)'
      BY <3>1, <3>2, <3>4 DEF TaskOK, CountOK, SeesCount
    <3> QED BY <1>3, <3>1, <3>3, <3>5, <3>6 DEF TaskOK
  <2> QED BY <2>1, <2>2
<1>10. task' = [d \in Caller |-> task'[d]]
  BY <1>0, <1>3
<1> QED BY <1>6, <1>7, <1>8, <1>9, <1>10 DEF IInv, TasksOK

-----------------------------------------------------------------------------
LEMMA InvStep == IInv /\ [AnyStep]_vars => IInv'
<1> SUFFICES ASSUME IInv, [AnyStep]_vars PROVE IInv'
  OBVIOUS
<1>1. ASSUME UNCHANGED <<users, keys, told, keyTold, used, stale>>,
             task' = task \/ task' = [c \in Caller |-> Idle]
      PROVE  IInv'
  <2>1. RowsOK' /\ AuditTellsTheRow' /\ UsageCounted'
    BY <1>1 DEF IInv, RowsOK, AuditTellsTheRow, UsageCounted
  <2>2. CASE task' = task
    BY <1>1, <2>1, <2>2 DEF IInv, TasksOK, TaskOK, CountOK
  <2>3. CASE task' = [c \in Caller |-> Idle]
    BY <2>1, <2>3 DEF IInv, TasksOK, TaskOK, Idle
  <2> QED BY <1>1, <2>2, <2>3
<1>2. CASE Tick \/ Restart \/ UNCHANGED vars \/ \E e \in Email : TokenExpires(e)
  BY <1>1, <1>2 DEF Tick, Restart, TokenExpires, vars, rowVars, logVars
<1>3. ASSUME NEW e \in Email, CreateAdmin(e) PROVE IInv'
  BY <1>3, Users
<1>4. ASSUME NEW c \in Caller, NEW e \in Email, ByToken(c, e) \/ LoadUser(c, e) PROVE IInv'
  BY <1>4, Reads, Loads
<1>5. ASSUME NEW c \in Caller, NEW e \in Email, NEW h \in Host, Login(c, h, e) PROVE IInv'
  BY <1>5, Reads
<1>6. ASSUME NEW c \in Caller, NEW k \in KeyId, ByKey(c, k) \/ CreateKey(c, k) \/ LoadKey(c, k)
      PROVE  IInv'
  BY <1>6, Reads, Loads, KeyCreated
<1>7. ASSUME NEW c \in Caller, NEW e \in Email, NEW r \in Role, CreateUser(c, e, r) PROVE IInv'
  BY <1>7, Users
<1>8. ASSUME NEW c \in Caller, NEW r \in Role \union {Keep}, NEW a \in BOOLEAN \union {Keep},
             UpdateUser(c, r, a)
      PROVE  IInv'
  BY <1>8, Users
<1>9. ASSUME NEW c \in Caller, NEW a \in BOOLEAN \union {Keep}, UpdateKey(c, a) PROVE IInv'
  BY <1>9, KeyUpdated
<1>10. ASSUME NEW c \in Caller, NEW right \in BOOLEAN, Password(c, right) PROVE IInv'
  BY <1>10, Moves
<1>11. ASSUME NEW c \in Caller, LoginCounted(c) \/ KeyCounted(c) \/ Stamp(c) \/ Leave(c) PROVE IInv'
  BY <1>11, Moves, KeyStamped
<1> QED BY <1>2, <1>3, <1>4, <1>5, <1>6, <1>7, <1>8, <1>9, <1>10, <1>11 DEF AnyStep

LEMMA Invariant == Spec => []IInv
<1>1. IInv /\ [Next]_vars => IInv'
  BY InvStep, AnyNext
<1> QED BY InvInit, <1>1, PTL DEF Spec

(* Where no two sessions wrote an account or a key's state at the same time, *)
(* what is stored is what the audit log says, through any number of          *)
(* creations, updates and requests in between (main.py: update_user,         *)
(* update_api_key and their record_audit).                                   *)
THEOREM AuditIsComplete == Spec => []AuditTellsTheRow
<1>1. IInv => AuditTellsTheRow
  BY DEF IInv
<1> QED BY Invariant, <1>1, PTL

(* A key's counter never runs ahead of its uses, and counts each of them     *)
(* where they did not overlap (deps.py: _authenticate_via_api_key).          *)
THEOREM UsesAreCounted == Spec => []UsageCounted
<1>1. IInv => UsageCounted
  BY DEF IInv
<1> QED BY Invariant, <1>1, PTL

LEMMA KeyChange ==
  ASSUME IInv, [AnyStep]_vars, NEW k \in KeyId, keys[k] # NoRow
  PROVE  \/ keys'[k].active = keys[k].active
         \/ \E c \in Caller : SeesKey(c, k) /\ task'[c] = Idle
<1>0. /\ keys \in [KeyId -> ApiKey \union {NoRow}]
      /\ task = [c \in Caller |-> task[c]]
      /\ \A c \in Caller : TaskOK(task[c])
  BY DEF IInv, RowsOK, TasksOK
<1>1. CASE keys' = keys
  BY <1>1
<1>2. ASSUME NEW c \in Caller, NEW j \in KeyId, CreateKey(c, j) PROVE keys'[k] = keys[k]
  BY <1>0, <1>2 DEF CreateKey
<1>3. ASSUME NEW c \in Caller, Stamp(c) PROVE keys'[k].active = keys[k].active
  <2>1. task[c].on \in KeyId /\ keys[task[c].on] # NoRow
    BY <1>0, <1>3 DEF Stamp, TaskOK, CountOK
  <2>2. keys[task[c].on] \in ApiKey
    BY <1>0, <2>1
  <2> QED BY <1>0, <1>3, <2>1, <2>2 DEF Stamp, ApiKey
<1>4. ASSUME NEW c \in Caller, NEW a \in BOOLEAN \union {Keep}, UpdateKey(c, a)
      PROVE  \/ keys'[k] = keys[k]
             \/ SeesKey(c, k) /\ task'[c] = Idle
  <2>1. CASE task[c].on # k
    BY <1>0, <1>4, <2>1 DEF UpdateKey
  <2>2. CASE task[c].on = k
    BY <1>0, <1>4, <2>2 DEF UpdateKey, SeesKey, Goto
  <2> QED BY <2>1, <2>2
<1>5. \/ keys' = keys
      \/ \E c \in Caller, j \in KeyId : CreateKey(c, j)
      \/ \E c \in Caller : Stamp(c)
      \/ \E c \in Caller, a \in BOOLEAN \union {Keep} : UpdateKey(c, a)
  BY ZenonT(30) DEF AnyStep, vars, rowVars, ByToken, LoadUser, Login, ByKey, LoadKey, CreateUser,
         UpdateUser, Password, LoginCounted, KeyCounted, Leave, CreateAdmin, TokenExpires,
         Tick, Restart
<1> QED BY <1>1, <1>2, <1>3, <1>4, <1>5

(* No step but an owner's or an administrator's update makes a revoked key   *)
(* work again: a request that was under way with it does not.                *)
THEOREM RevocationsStick == Spec => RevocationSticks
<1> DEFINE Sticks == \A k \in KeyId :
       keys[k] # NoRow /\ ~keys[k].active /\ keys'[k].active =>
         \E c \in Caller : SeesKey(c, k) /\ task'[c] = Idle
<1>1. ASSUME IInv, [AnyStep]_vars PROVE Sticks
  <2>1. ASSUME NEW k \in KeyId, keys[k] # NoRow
        PROVE  \/ keys'[k].active = keys[k].active
               \/ \E c \in Caller : SeesKey(c, k) /\ task'[c] = Idle
    BY <1>1, <2>1, KeyChange
  <2> QED BY <2>1, Zenon
<1>2. IInv /\ [Next]_vars => [Sticks]_vars
  BY <1>1, AnyNext
<1> QED BY Invariant, <1>2, PTL DEF Spec, RevocationSticks
-----------------------------------------------------------------------------
(* Induction over the natural numbers for a set: what has no smallest number *)
(* outside has them all.                                                     *)
LEMMA InductiveSet ==
  ASSUME NEW S, S \subseteq Nat, 0 \in S, \A n \in S : n + 1 \in S
  PROVE  S = Nat
<1> SUFFICES ASSUME S # Nat PROVE FALSE
  OBVIOUS
<1> DEFINE T == Nat \ S
<1>1. T \subseteq Nat /\ T # {}
  OBVIOUS
<1>2. \E x \in T : \A y \in T : ~ (<<y, x>> \in OpToRel(<, Nat))
  BY <1>1, NatLessThanWellFounded, WFMin
<1>3. PICK x \in T : \A y \in T : ~ (y < x)
  BY <1>2 DEF OpToRel
<1>4. x # 0 /\ x \in Nat /\ x - 1 \in Nat /\ x = (x - 1) + 1
  OBVIOUS
<1>5. x - 1 \in S
  BY <1>3, <1>4
<1> QED BY <1>4, <1>5

(* Recent as it is computed: what is recent of the first n attempts.         *)
Later(f, list, t, n) ==
  IF n = 0 THEN <<>>
  ELSE IF list[n] + Window > t THEN Append(f[n - 1], list[n])
  ELSE f[n - 1]
Filters(f, list, t, m) == f = [n \in 0..m |-> Later(f, list, t, n)]

LEMMA FilterExists ==
  ASSUME NEW list, NEW t, NEW k \in Nat
  PROVE  \E f : Filters(f, list, t, k)
<1> DEFINE S == {m \in Nat : \E f : Filters(f, list, t, m)}
<1>1. 0 \in S
  <2> DEFINE f == [n \in 0..0 |-> <<>>]
  <2>1. \A n \in 0..0 : Later(f, list, t, n) = <<>>
    BY DEF Later
  <2>2. f = [n \in 0..0 |-> Later(f, list, t, n)]
    BY <2>1
  <2> HIDE DEF f
  <2>3. \E g : Filters(g, list, t, 0)
    BY <2>2 DEF Filters
  <2> QED BY <2>3
<1>2. ASSUME NEW m \in S PROVE m + 1 \in S
  <2>1. PICK f : Filters(f, list, t, m)
    OBVIOUS
  <2> DEFINE g == [n \in 0..(m + 1) |-> IF n <= m THEN f[n] ELSE Later(f, list, t, m + 1)]
  <2>2. \A n \in 0..m : g[n] = f[n] /\ f[n] = Later(f, list, t, n)
    BY SMTT(30), <2>1 DEF Filters
  <2>3. g[m + 1] = Later(f, list, t, m + 1)
    OBVIOUS
  <2>4. g = [n \in 0..(m + 1) |-> g[n]]
    OBVIOUS
  <2> HIDE DEF g
  <2>5. ASSUME NEW n \in 0..(m + 1) PROVE g[n] = Later(g, list, t, n)
    <3>1. n = 0 \/ n - 1 \in 0..m
      OBVIOUS
    <3>2. Later(g, list, t, n) = Later(f, list, t, n)
      BY <2>2, <3>1 DEF Later
    <3>3. n \in 0..m \/ n = m + 1
      OBVIOUS
    <3> QED BY <2>2, <2>3, <3>2, <3>3
  <2>6. Filters(g, list, t, m + 1)
    BY <2>4, <2>5 DEF Filters
  <2> QED BY <2>6
<1> HIDE DEF S
<1>3. S = Nat
  BY <1>1, <1>2, InductiveSet DEF S
<1> QED BY <1>3 DEF S

LEMMA FilterUnique ==
  ASSUME NEW a, NEW b, NEW t, NEW k \in Nat, NEW l \in Nat,
         NEW f, Filters(f, a, t, k), NEW g, Filters(g, b, t, l),
         NEW m \in Nat, m <= k, m <= l, \A n \in 1..m : a[n] = b[n]
  PROVE  f[m] = g[m]
<1> DEFINE S == {n \in Nat : n <= m => f[n] = g[n]}
<1>1. \A n \in 0..m : f[n] = Later(f, a, t, n) /\ g[n] = Later(g, b, t, n)
  <2>1. \A n \in 0..k : f[n] = Later(f, a, t, n)
    BY DEF Filters
  <2>2. \A n \in 0..l : g[n] = Later(g, b, t, n)
    BY DEF Filters
  <2>3. \A n \in 0..m : n \in 0..k /\ n \in 0..l
    OBVIOUS
  <2> QED BY <2>1, <2>2, <2>3
<1>2. 0 \in S
  <2>1. 0 \in 0..m
    OBVIOUS
  <2>2. f[0] = Later(f, a, t, 0) /\ g[0] = Later(g, b, t, 0)
    BY <1>1, <2>1
  <2>3. Later(f, a, t, 0) = <<>> /\ Later(g, b, t, 0) = <<>>
    BY DEF Later
  <2>4. f[0] = g[0]
    BY <2>2, <2>3
  <2> QED BY <2>4
<1>3. ASSUME NEW n \in S PROVE n + 1 \in S
  <2> SUFFICES ASSUME n + 1 <= m PROVE f[n + 1] = g[n + 1]
    OBVIOUS
  <2>1. n + 1 \in 0..m /\ n + 1 # 0 /\ (n + 1) - 1 = n /\ a[n + 1] = b[n + 1] /\ f[n] = g[n]
    OBVIOUS
  <2> QED BY <1>1, <2>1 DEF Later
<1> HIDE DEF S
<1>4. S = Nat
  BY <1>2, <1>3, InductiveSet DEF S
<1> QED BY <1>4 DEF S

LEMMA RecentIs ==
  ASSUME NEW list, NEW t, Len(list) \in Nat
  PROVE  \E f : Filters(f, list, t, Len(list)) /\ Recent(list, t) = f[Len(list)]
<1> DEFINE f == CHOOSE f : Filters(f, list, t, Len(list))
<1>1. Filters(f, list, t, Len(list))
  BY FilterExists
<1>2. Recent(list, t) = f[Len(list)]
  BY DEF Recent, Filters, Later
<1> QED BY <1>1, <1>2

LEMMA RecentNothing == ASSUME NEW t PROVE Recent(<<>>, t) = <<>>
<1>1. PICK f : Filters(f, <<>>, t, 0) /\ Recent(<<>>, t) = f[0]
  BY RecentIs
<1> QED BY <1>1 DEF Filters, Later

LEMMA RecentAppend ==
  ASSUME NEW S, NEW s \in Seq(S), NEW x \in S, NEW t
  PROVE  Recent(Append(s, x), t) =
           IF x + Window > t THEN Append(Recent(s, t), x) ELSE Recent(s, t)
<1> DEFINE n == Len(s)
           a == Append(s, x)
<1>1. /\ n \in Nat /\ Len(a) = n + 1 /\ a[n + 1] = x
      /\ \A i \in 1..n : a[i] = s[i]
  BY AppendProperties
<1> HIDE DEF a
<1>2. PICK f : Filters(f, s, t, n) /\ Recent(s, t) = f[n]
  BY <1>1, RecentIs
<1>3. PICK g : Filters(g, a, t, n + 1) /\ Recent(a, t) = g[n + 1]
  BY <1>1, RecentIs
<1> HIDE DEF n
<1>4. g[n] = f[n]
  <2>1. n \in Nat /\ n + 1 \in Nat /\ n <= n + 1 /\ n <= n /\ \A i \in 1..n : s[i] = a[i]
    BY <1>1
  <2>2. Filters(f, s, t, n) /\ Filters(g, a, t, n + 1)
    BY <1>2, <1>3
  <2>3. f[n] = g[n]
    BY ONLY <2>1, <2>2, FilterUnique
  <2> QED BY <2>3
<1>5. g[n + 1] = Later(g, a, t, n + 1)
  BY SMTT(30), <1>1, <1>3 DEF Filters
<1>6. n + 1 # 0 /\ (n + 1) - 1 = n
  BY <1>1
<1> QED BY <1>1, <1>2, <1>3, <1>4, <1>5, <1>6 DEF Later, a

(* Induction over sequences for a set.                                       *)
LEMMA InductiveSequences ==
  ASSUME NEW S, NEW T, T \subseteq Seq(S), <<>> \in T,
         \A s \in T, x \in S : Append(s, x) \in T
  PROVE  T = Seq(S)
<1> DEFINE N == {n \in Nat : \A s \in Seq(S) : Len(s) = n => s \in T}
<1>1. 0 \in N
  BY EmptySeq
<1>2. ASSUME NEW n \in N PROVE n + 1 \in N
  <2> SUFFICES ASSUME NEW s \in Seq(S), Len(s) = n + 1 PROVE s \in T
    OBVIOUS
  <2>1. s # <<>>
    OBVIOUS
  <2>2. PICK r \in Seq(S), x \in S : s = Append(r, x)
    BY <2>1, SequenceEmptyOrAppend
  <2>3. Len(r) = n
    BY <2>2, AppendProperties, LenProperties
  <2> QED BY <2>2, <2>3
<1> HIDE DEF N
<1>3. N = Nat
  BY <1>1, <1>2, InductiveSet DEF N
<1> QED BY <1>3, LenProperties DEF N

(* Recent keeps some of the attempts, and all that a later call will keep.   *)
LEMMA RecentFacts ==
  ASSUME NEW S, S \subseteq Nat, NEW s \in Seq(S), NEW t \in Nat
  PROVE  /\ Recent(s, t) \in Seq(S)
         /\ Len(Recent(s, t)) \in Nat /\ Len(Recent(s, t)) <= Len(s)
         /\ \A u \in Nat : u >= t => Recent(Recent(s, t), u) = Recent(s, u)
<1> DEFINE Good(r) == /\ Recent(r, t) \in Seq(S)
                      /\ Len(Recent(r, t)) <= Len(r)
                      /\ \A u \in Nat : u >= t => Recent(Recent(r, t), u) = Recent(r, u)
           T == {r \in Seq(S) : Good(r)}
<1>1. <<>> \in T
  <2>1. \A u : Recent(<<>>, u) = <<>>
    BY RecentNothing
  <2>2. <<>> \in Seq(S) /\ Len(<<>>) <= Len(<<>>)
    BY EmptySeq
  <2> QED BY <2>1, <2>2
<1>2. ASSUME NEW r \in T, NEW x \in S PROVE Append(r, x) \in T
  <2>1. /\ Append(r, x) \in Seq(S) /\ Len(Append(r, x)) = Len(r) + 1
        /\ Len(r) \in Nat /\ Recent(r, t) \in Seq(S) /\ Len(Recent(r, t)) \in Nat
        /\ Len(Recent(r, t)) <= Len(r)
        /\ \A u \in Nat : u >= t => Recent(Recent(r, t), u) = Recent(r, u)
    BY AppendProperties, LenProperties
  <2>2. Recent(Append(r, x), t) = IF x + Window > t THEN Append(Recent(r, t), x) ELSE Recent(r, t)
    BY RecentAppend
  <2>3. x + Window \in Nat
    BY LimitAssumption
  <2>4. CASE x + Window > t
    <3>1. Recent(Append(r, x), t) = Append(Recent(r, t), x)
      BY <2>2, <2>4
    <3>2. /\ Append(Recent(r, t), x) \in Seq(S)
          /\ Len(Append(Recent(r, t), x)) = Len(Recent(r, t)) + 1
      BY <2>1, AppendProperties
    <3>3. ASSUME NEW u \in Nat, u >= t
          PROVE  Recent(Append(Recent(r, t), x), u) = Recent(Append(r, x), u)
      <4>1. Recent(Recent(r, t), u) = Recent(r, u)
        BY <2>1, <3>3
      <4>2. /\ Recent(Append(Recent(r, t), x), u) =
                 IF x + Window > u THEN Append(Recent(Recent(r, t), u), x) ELSE Recent(Recent(r, t), u)
            /\ Recent(Append(r, x), u) =
                 IF x + Window > u THEN Append(Recent(r, u), x) ELSE Recent(r, u)
        BY <2>1, RecentAppend
      <4> QED BY <4>1, <4>2
    <3>4. Len(Recent(r, t)) + 1 <= Len(r) + 1
      BY <2>1
    <3>5. Good(Append(r, x))
      BY <2>1, <3>1, <3>2, <3>3, <3>4
    <3> QED BY <2>1, <3>5
  <2>5. CASE ~(x + Window > t)
    <3>1. Recent(Append(r, x), t) = Recent(r, t)
      BY <2>2, <2>5
    <3>2. ASSUME NEW u \in Nat, u >= t PROVE Recent(Recent(r, t), u) = Recent(Append(r, x), u)
      <4>1. ~(x + Window > u)
        BY <2>3, <2>5, <3>2
      <4>2. Recent(Append(r, x), u) = Recent(r, u)
        BY <4>1, RecentAppend
      <4> QED BY <2>1, <3>2, <4>2
    <3> QED BY <2>1, <3>1, <3>2
  <2> QED BY <2>4, <2>5
<1> HIDE DEF T
<1>3. T = Seq(S)
  BY <1>1, <1>2, InductiveSequences DEF T
<1>4. Good(s)
  BY <1>3 DEF T
<1> QED BY <1>4, LenProperties

-----------------------------------------------------------------------------
(* What a caller's task is made of.                                          *)
LEMMA TaskParts ==
  ASSUME NEW t \in Task
  PROVE  /\ t.pc = "check" => /\ t.bucket \in Bucket /\ t.who \in Email
                              /\ t.list \in Attempts /\ t.count \in 0..MaxUse
         /\ t.pc = "password" => t.who \in Email /\ t.bucket \in Host
         /\ t.pc = "stamp" => t.on \in KeyId /\ t.count \in 0..MaxUse
         /\ t.pc = "act" => t.who \in Email /\ t.row \in Row
         /\ t.pc = "user" => t.who \in Email /\ t.on \in Email /\ t.seen \in Row
         /\ t.pc = "key" => t.who \in Email /\ t.on \in KeyId /\ t.seen \in BOOLEAN
<1>1. CASE t = Idle
  BY <1>1 DEF Idle
<1>2. CASE t \in [pc : {"check"}, bucket : Bucket, who : Email, list : Attempts, count : 0..MaxUse]
  BY <1>2
<1>3. CASE t \in [pc : {"password"}, who : Email, bucket : Host]
  BY <1>3
<1>4. CASE t \in [pc : {"stamp"}, on : KeyId, count : 0..MaxUse]
  BY <1>4
<1>5. CASE t \in [pc : {"act"}, who : Email, row : Row]
  BY <1>5
<1>6. CASE t \in [pc : {"user"}, who : Email, on : Email, seen : Row]
  BY <1>6
<1>7. CASE t \in [pc : {"key"}, who : Email, on : KeyId, seen : BOOLEAN]
  BY <1>7
<1> QED BY <1>1, <1>2, <1>3, <1>4, <1>5, <1>6, <1>7 DEF Task

LEMMA TaskMade ==
  /\ Idle \in Task
  /\ \A b \in Bucket, e \in Email, l \in Attempts, n \in 0..MaxUse :
       [pc |-> "check", bucket |-> b, who |-> e, list |-> l, count |-> n] \in Task
  /\ \A e \in Email, h \in Host : [pc |-> "password", who |-> e, bucket |-> h] \in Task
  /\ \A k \in KeyId, n \in 0..MaxUse : [pc |-> "stamp", on |-> k, count |-> n] \in Task
  /\ \A e \in Email, r \in Row : [pc |-> "act", who |-> e, row |-> r] \in Task
  /\ \A e \in Email, f \in Email, r \in Row :
       [pc |-> "user", who |-> e, on |-> f, seen |-> r] \in Task
  /\ \A e \in Email, k \in KeyId, a \in BOOLEAN :
       [pc |-> "key", who |-> e, on |-> k, seen |-> a] \in Task
BY DEF Task

Last(l) == l[Len(l)]

LEMMA RecordFacts ==
  ASSUME NEW l \in Attempts, NEW t \in 0..MaxTime
  PROVE  /\ Recent(l, t) \in Attempts
         /\ Record(l, t) \in Attempts /\ Record(l, t) # <<>>
         /\ Last(Record(l, t)) = t
         /\ Len(Record(l, t)) = Len(Recent(l, t)) + 1
<1>1. 0..MaxTime \subseteq Nat
  BY LimitAssumption
<1>2. Recent(l, t) \in Attempts /\ Len(Recent(l, t)) \in Nat
  BY <1>1, RecentFacts DEF Attempts
<1> QED BY <1>2, AppendProperties DEF Record, Last, Attempts

(* Nobody stores an empty copy.                                              *)
TypeInv ==
  /\ TypeOK
  /\ IInv
  /\ \A c \in Caller : task[c].pc = "check" => task[c].list # <<>>

(* What the two halves of a check do to the types.                           *)
LEMMA CheckType ==
  ASSUME TypeInv, NEW c \in Caller, NEW b \in Bucket, NEW e \in Email, NEW n \in 0..MaxUse,
         Check(c, b, e, n)
  PROVE  /\ task' \in [Caller -> Task]
         /\ \A d \in Caller : task'[d].pc = "check" => task'[d].list # <<>>
<1> DEFINE l == Record(attempts[b], now)
           t == [pc |-> "check", bucket |-> b, who |-> e, list |-> l, count |-> n]
<1>1. attempts[b] \in Attempts /\ now \in 0..MaxTime
  BY DEF TypeInv, TypeOK
<1>2. l \in Attempts /\ l # <<>>
  BY <1>1, RecordFacts
<1> HIDE DEF l
<1>3. t \in Task /\ t.list # <<>>
  BY <1>2, TaskMade
<1>4. task' = [task EXCEPT ![c] = t] /\ task \in [Caller -> Task]
  BY DEF Check, Goto, l, TypeInv, TypeOK
<1> HIDE DEF t
<1> QED BY <1>3, <1>4 DEF TypeInv

LEMMA StoreType ==
  ASSUME TypeInv, NEW c \in Caller, task[c].pc = "check", Store(c)
  PROVE  /\ attempts' \in [Bucket -> Attempts] /\ admitted' \in [Bucket -> Attempts]
         /\ raced' \subseteq Bucket
<1> DEFINE l == task[c].list
           b == task[c].bucket
<1>1. task[c] \in Task
  BY DEF TypeInv, TypeOK
<1>2. l \in Attempts /\ l # <<>> /\ b \in Bucket
  BY <1>1, TaskParts DEF TypeInv
<1>3. Last(l) \in 0..MaxTime
  <2>1. Len(l) \in Nat /\ Len(l) # 0
    BY <1>2, EmptySeq, LenProperties DEF Attempts
  <2>2. Len(l) \in 1..Len(l)
    BY <2>1
  <2> QED BY <1>2, <2>2, ElementOfSeq DEF Last, Attempts
<1>4. admitted[b] \in Attempts
  BY <1>2 DEF TypeInv, TypeOK
<1>5. Record(admitted[b], Last(l)) \in Attempts
  BY <1>3, <1>4, RecordFacts
<1> QED BY <1>2, <1>5 DEF Store, TypeInv, TypeOK, Last

(* The rest of the types, for a step that leaves the limiter alone.          *)
LEMMA QuietType ==
  ASSUME TypeInv, IInv', NEW c \in Caller, NEW t \in Task, t.pc # "check",
         task' = [task EXCEPT ![c] = t],
         now' = now, token' \subseteq Email, stale' \subseteq Email \union KeyId,
         attempts' \in [Bucket -> Attempts], admitted' \in [Bucket -> Attempts],
         raced' \subseteq Bucket
  PROVE  TypeInv'
<1>1. task' \in [Caller -> Task]
      /\ \A d \in Caller : task'[d].pc = "check" => task'[d].list # <<>>
  BY DEF TypeInv, TypeOK
<1> QED BY <1>1 DEF TypeInv, TypeOK, IInv, RowsOK

LEMMA TypeInit == Init => TypeInv
<1> SUFFICES ASSUME Init PROVE TypeInv
  OBVIOUS
<1>1. IInv
  BY InvInit
<1>2. <<>> \in Attempts /\ 0 \in 0..MaxTime
  BY EmptySeq, LimitAssumption DEF Attempts
<1>3. Idle.pc # "check"
  BY DEF Idle
<1> QED BY <1>1, <1>2, <1>3, TaskMade DEF Init, TypeInv, TypeOK

LEMMA TypeStep == ASSUME TypeInv, [AnyStep]_vars PROVE TypeInv'
<1>0. IInv'
  BY InvStep DEF TypeInv
<1>1. /\ \A c \in Caller : task[c] \in Task /\ TaskOK(task[c])
      /\ task \in [Caller -> Task]
      /\ users \in [Email -> Row \union {NoRow}] /\ keys \in [KeyId -> ApiKey \union {NoRow}]
      /\ now \in 0..MaxTime /\ token \subseteq Email /\ stale \subseteq Email \union KeyId
      /\ attempts \in [Bucket -> Attempts] /\ admitted \in [Bucket -> Attempts]
      /\ raced \subseteq Bucket
  BY DEF TypeInv, TypeOK, IInv, TasksOK
<1>2. ASSUME NEW c \in Caller, NEW t \in Task, t.pc # "check", Goto(c, t),
             UNCHANGED <<now, limitVars>>, token' \subseteq Email,
             stale' \subseteq Email \union KeyId
      PROVE  TypeInv'
  BY <1>0, <1>1, <1>2, QuietType DEF Goto, limitVars
<1>3. Idle \in Task /\ Idle.pc # "check"
  BY TaskMade DEF Idle
<1>4. \A k \in KeyId : keys[k] # NoRow => /\ keys[k].owner \in Email
                                         /\ keys[k].count \in Nat /\ keys[k].count <= MaxUse
                                         /\ keys[k].active \in BOOLEAN
                                         /\ users[keys[k].owner] \in Row
  <2>1. \A k \in KeyId : keys[k] # NoRow => keys[k] \in ApiKey /\ users[keys[k].owner] # NoRow
    BY <1>1 DEF TypeInv, IInv, RowsOK
  <2> QED BY <1>1, <2>1, RowFacts
<1>5. ASSUME NEW e \in Email, CreateAdmin(e) \/ TokenExpires(e) PROVE TypeInv'
  BY <1>0, <1>1, <1>5 DEF CreateAdmin, TokenExpires, limitVars, logVars, TypeInv, TypeOK, IInv, RowsOK
<1>6. CASE Tick
  <2>1. now' \in 0..MaxTime
    BY <1>1, <1>6, LimitAssumption DEF Tick
  <2> QED BY <1>0, <1>1, <1>6, <2>1 DEF Tick, rowVars, limitVars, logVars, TypeInv, TypeOK, IInv, RowsOK
<1>7. CASE Restart
  <2>1. <<>> \in Attempts
    BY EmptySeq DEF Attempts
  <2> QED BY <1>0, <1>1, <1>3, <1>7, <2>1 DEF Restart, rowVars, logVars, TypeInv, TypeOK, IInv, RowsOK
<1>8. CASE UNCHANGED vars
  BY <1>0, <1>1, <1>8 DEF vars, TypeInv, TypeOK
<1>9. ASSUME NEW c \in Caller, NEW e \in Email, ByToken(c, e) PROVE TypeInv'
  <2>1. users[e] \in Row
    BY <1>1, <1>9 DEF ByToken, Active
  <2>2. [pc |-> "act", who |-> e, row |-> users[e]] \in Task
    BY <2>1, TaskMade
  <2> QED BY <1>1, <1>2, <1>9, <2>2 DEF ByToken, rowVars, logVars
<1>10. ASSUME NEW c \in Caller, NEW e \in Email, LoadUser(c, e) PROVE TypeInv'
  <2> DEFINE seen == IF e = task[c].who THEN task[c].row ELSE users[e]
             t == [pc |-> "user", who |-> task[c].who, on |-> e, seen |-> seen]
  <2>1. task[c].who \in Email /\ task[c].row \in Row /\ users[e] \in Row
    BY <1>1, <1>10, TaskParts DEF LoadUser, IsAdmin
  <2>2. seen \in Row
    BY <2>1
  <2> HIDE DEF seen
  <2>3. t \in Task /\ t.pc # "check"
    BY <2>1, <2>2, TaskMade
  <2>4. Goto(c, t)
    BY <1>10 DEF LoadUser, seen
  <2> HIDE DEF t
  <2> QED BY <1>1, <1>2, <1>10, <2>3, <2>4 DEF LoadUser, rowVars, logVars
<1>11. ASSUME NEW c \in Caller, NEW e \in Email, NEW h \in Host, Login(c, h, e) PROVE TypeInv'
  <2>1. h \in Bucket /\ 0 \in 0..MaxUse
    BY LimitAssumption DEF Bucket
  <2>2. /\ task' \in [Caller -> Task]
        /\ \A d \in Caller : task'[d].pc = "check" => task'[d].list # <<>>
    BY <1>11, <2>1, CheckType DEF Login
  <2> QED BY <1>0, <1>1, <1>11, <2>2 DEF Login, rowVars, limitVars, logVars, TypeInv, TypeOK
<1>12. ASSUME NEW c \in Caller, NEW k \in KeyId, ByKey(c, k) PROVE TypeInv'
  <2>1. k \in Bucket /\ keys[k].owner \in Email /\ keys[k].count \in 0..MaxUse
    BY <1>4, <1>12, LimitAssumption DEF Bucket, ByKey
  <2>2. /\ task' \in [Caller -> Task]
        /\ \A d \in Caller : task'[d].pc = "check" => task'[d].list # <<>>
    BY <1>12, <2>1, CheckType DEF ByKey
  <2> QED BY <1>0, <1>1, <1>12, <2>2 DEF ByKey, rowVars, limitVars, logVars, TypeInv, TypeOK
<1>13. ASSUME NEW c \in Caller, NEW k \in KeyId, CreateKey(c, k) PROVE TypeInv'
  BY <1>1, <1>2, <1>3, <1>13 DEF CreateKey
<1>14. ASSUME NEW c \in Caller, NEW k \in KeyId, LoadKey(c, k) PROVE TypeInv'
  <2> DEFINE t == [pc |-> "key", who |-> task[c].who, on |-> k, seen |-> keys[k].active]
  <2>1. task[c].who \in Email /\ keys[k].active \in BOOLEAN
    BY <1>1, <1>4, <1>14, TaskParts DEF LoadKey
  <2>2. t \in Task /\ t.pc # "check"
    BY <2>1, TaskMade
  <2>3. Goto(c, t)
    BY <1>14 DEF LoadKey
  <2> HIDE DEF t
  <2> QED BY <1>1, <1>2, <1>14, <2>2, <2>3 DEF LoadKey, rowVars, logVars
<1>15. ASSUME NEW c \in Caller, NEW e \in Email, NEW r \in Role, CreateUser(c, e, r) PROVE TypeInv'
  BY <1>1, <1>2, <1>3, <1>15 DEF CreateUser
<1>16. ASSUME NEW c \in Caller, NEW r, NEW a, UpdateUser(c, r, a) PROVE TypeInv'
  <2>1. task[c].on \in Email
    BY <1>1, <1>16, TaskParts DEF UpdateUser
  <2>2. stale' \subseteq Email \union KeyId
    BY <1>1, <1>16, <2>1 DEF UpdateUser
  <2> QED BY <1>1, <1>2, <1>3, <1>16, <2>2 DEF UpdateUser
<1>17. ASSUME NEW c \in Caller, NEW a, UpdateKey(c, a) PROVE TypeInv'
  <2>1. task[c].on \in KeyId
    BY <1>1, <1>17, TaskParts DEF UpdateKey
  <2>2. stale' \subseteq Email \union KeyId
    BY <1>1, <1>17, <2>1 DEF UpdateKey
  <2> QED BY <1>1, <1>2, <1>3, <1>17, <2>2 DEF UpdateKey
<1>18. ASSUME NEW c \in Caller, NEW right \in BOOLEAN, Password(c, right) PROVE TypeInv'
  <2>1. <<>> \in Attempts
    BY EmptySeq DEF Attempts
  <2>2. /\ attempts' \in [Bucket -> Attempts] /\ admitted' \in [Bucket -> Attempts]
        /\ token' \subseteq Email
    BY <1>1, <1>18, <2>1, TaskParts DEF Password
  <2> QED BY <1>0, <1>1, <1>3, <1>18, <2>2, QuietType DEF Password, logVars, Goto
<1>19. ASSUME NEW c \in Caller, LoginCounted(c) PROVE TypeInv'
  <2> DEFINE t == [pc |-> "password", who |-> task[c].who, bucket |-> task[c].bucket]
  <2>1. task[c].who \in Email /\ task[c].bucket \in Host
    BY <1>1, <1>19, TaskParts DEF LoginCounted
  <2>2. t \in Task /\ t.pc # "check"
    BY <2>1, TaskMade
  <2>3. task' = [task EXCEPT ![c] = t] \/ task' = [task EXCEPT ![c] = Idle]
    BY <1>19 DEF LoginCounted, Goto
  <2> HIDE DEF t
  <2>4. /\ attempts' \in [Bucket -> Attempts] /\ admitted' \in [Bucket -> Attempts]
        /\ raced' \subseteq Bucket
    BY <1>19, StoreType DEF LoginCounted
  <2> QED BY <1>0, <1>1, <1>3, <1>19, <2>2, <2>3, <2>4, QuietType DEF LoginCounted, rowVars, logVars
<1>20. ASSUME NEW c \in Caller, KeyCounted(c) PROVE TypeInv'
  <2> DEFINE t == [pc |-> "stamp", on |-> task[c].bucket, count |-> task[c].count]
  <2>1. task[c].count \in 0..MaxUse /\ task[c].bucket \in KeyId
    BY <1>1, <1>20, TaskParts DEF KeyCounted
  <2>2. t \in Task /\ t.pc # "check"
    BY <2>1, TaskMade
  <2>3. task' = [task EXCEPT ![c] = t] \/ task' = [task EXCEPT ![c] = Idle]
    BY <1>20 DEF KeyCounted, Goto
  <2> HIDE DEF t
  <2>4. /\ attempts' \in [Bucket -> Attempts] /\ admitted' \in [Bucket -> Attempts]
        /\ raced' \subseteq Bucket
    BY <1>20, StoreType DEF KeyCounted
  <2> QED BY <1>0, <1>1, <1>3, <1>20, <2>2, <2>3, <2>4, QuietType DEF KeyCounted, rowVars, logVars
<1>21. ASSUME NEW c \in Caller, Stamp(c) PROVE TypeInv'
  <2> DEFINE k == task[c].on
             t == [pc |-> "act", who |-> keys[k].owner, row |-> users[keys[k].owner]]
  <2>1. k \in KeyId /\ keys[k] # NoRow
    BY <1>1, <1>21 DEF Stamp, TaskOK, CountOK
  <2>2. t \in Task /\ t.pc # "check"
    BY <1>4, <2>1, TaskMade
  <2>3. Goto(c, t) /\ stale' \subseteq Email \union KeyId
    BY <1>1, <1>21, <2>1 DEF Stamp
  <2> HIDE DEF t
  <2> QED BY <1>1, <1>2, <1>21, <2>2, <2>3 DEF Stamp
<1>22. ASSUME NEW c \in Caller, Leave(c) PROVE TypeInv'
  BY <1>1, <1>2, <1>3, <1>22 DEF Leave, rowVars, logVars
<1> QED
  BY <1>5, <1>6, <1>7, <1>8, <1>9, <1>10, <1>11, <1>12, <1>13, <1>14, <1>15, <1>16, <1>17, <1>18,
     <1>19, <1>20, <1>21, <1>22 DEF AnyStep

LEMMA TypeInvariant == Spec => []TypeInv
<1>1. TypeInv /\ [Next]_vars => TypeInv'
  BY TypeStep, AnyNext
<1> QED BY TypeInit, <1>1, PTL DEF Spec

(* Every variable keeps its type, for any number of accounts, keys, hosts    *)
(* and overlapping requests.                                                 *)
THEOREM TypeCorrect == Spec => []TypeOK
<1>1. TypeInv => TypeOK
  BY DEF TypeInv
<1> QED BY <1>1, TypeInvariant, PTL
-----------------------------------------------------------------------------
(* From time t on, no more of l is recent than of k.                         *)
Outnumbered(l, k, t) ==
  \A u \in Nat : u >= t => Len(Recent(l, u)) <= Len(Recent(k, u))

(* The attempts that were let through are among those the limiter has kept.  *)
Within(b) ==
  /\ Len(Recent(admitted[b], now)) <= MaxAttempts
  /\ Outnumbered(admitted[b], attempts[b], now)

(* A copy that is about to be stored holds the attempt itself and whatever   *)
(* was let through before it.                                                *)
Checking(t) ==
  t.pc = "check" =>
    /\ Last(t.list) <= now
    /\ t.bucket \notin raced =>
         /\ Outnumbered(Append(admitted[t.bucket], Last(t.list)), t.list, Last(t.list))
         /\ Len(Recent(admitted[t.bucket], Last(t.list))) + 1 <= Len(t.list)

LimitInv ==
  /\ TypeInv
  /\ \A c \in Caller : Checking(task[c])
  /\ \A b \in Bucket \ raced : Within(b)

(* Recent over the lists of the limiter.                                     *)
LEMMA ListFacts ==
  ASSUME NEW l \in Attempts, NEW x \in 0..MaxTime, NEW t \in Nat
  PROVE  /\ Recent(l, t) \in Attempts /\ Len(Recent(l, t)) \in Nat /\ Len(l) \in Nat
         /\ Len(Recent(l, t)) <= Len(l)
         /\ \A u \in Nat : u >= t => Recent(Recent(l, t), u) = Recent(l, u)
         /\ Recent(Append(l, x), t) =
              IF x + Window > t THEN Append(Recent(l, t), x) ELSE Recent(l, t)
         /\ Len(Recent(Append(l, x), t)) =
              Len(Recent(l, t)) + (IF x + Window > t THEN 1 ELSE 0)
         /\ Append(l, x) \in Attempts /\ Len(Append(l, x)) = Len(l) + 1
<1>1. 0..MaxTime \subseteq Nat
  BY LimitAssumption
<1>2. /\ Recent(l, t) \in Attempts /\ Len(Recent(l, t)) \in Nat
      /\ Len(Recent(l, t)) <= Len(l)
      /\ \A u \in Nat : u >= t => Recent(Recent(l, t), u) = Recent(l, u)
  BY <1>1, RecentFacts DEF Attempts
<1>3. Recent(Append(l, x), t) =
        IF x + Window > t THEN Append(Recent(l, t), x) ELSE Recent(l, t)
  BY RecentAppend DEF Attempts
<1>4. Len(Append(Recent(l, t), x)) = Len(Recent(l, t)) + 1
      /\ Append(l, x) \in Attempts /\ Len(Append(l, x)) = Len(l) + 1 /\ Len(l) \in Nat
  BY <1>2, AppendProperties, LenProperties DEF Attempts
<1>5. Len(Recent(Append(l, x), t)) =
        Len(Recent(l, t)) + (IF x + Window > t THEN 1 ELSE 0)
  BY <1>2, <1>3, <1>4
<1> QED BY <1>2, <1>3, <1>4, <1>5

(* Time goes by: what was recent was more.                                   *)
LEMMA FewerLater ==
  ASSUME NEW l \in Attempts, NEW t \in Nat, NEW u \in Nat, t <= u
  PROVE  Len(Recent(l, u)) <= Len(Recent(l, t))
<1>1. 0 \in 0..MaxTime
  BY LimitAssumption
<1>2. Recent(l, t) \in Attempts /\ Recent(Recent(l, t), u) = Recent(l, u)
  BY <1>1, ListFacts
<1>3. Len(Recent(Recent(l, t), u)) <= Len(Recent(l, t))
  BY <1>1, <1>2, ListFacts
<1> QED BY <1>2, <1>3

LEMMA NoneRecent ==
  ASSUME NEW l \in Attempts, NEW t \in Nat
  PROVE  /\ Len(Recent(<<>>, t)) = 0 /\ Len(Recent(<<>>, t)) <= MaxAttempts
         /\ Outnumbered(<<>>, l, t)
<1>1. \A u \in Nat : Len(Recent(<<>>, u)) = 0
  BY RecentNothing, EmptySeq
<1>2. \A u \in Nat : Len(Recent(l, u)) \in Nat
  <2>1. 0 \in 0..MaxTime BY LimitAssumption
  <2> QED BY <2>1, ListFacts
<1> QED BY <1>1, <1>2, LimitAssumption DEF Outnumbered

(* The first half of a check makes such a copy.                              *)
LEMMA CopyMade ==
  ASSUME NEW l \in Attempts, NEW k \in Attempts, NEW t \in 0..MaxTime, Outnumbered(l, k, t)
  PROVE  /\ Last(Record(k, t)) = t
         /\ Outnumbered(Append(l, t), Record(k, t), t)
         /\ Len(Recent(l, t)) + 1 <= Len(Record(k, t))
<1>0. t \in Nat
  BY LimitAssumption
<1>1. Last(Record(k, t)) = t /\ Len(Record(k, t)) = Len(Recent(k, t)) + 1
  BY RecordFacts
<1>2. Len(Recent(l, t)) <= Len(Recent(k, t)) /\ Len(Recent(l, t)) \in Nat /\ Len(Recent(k, t)) \in Nat
  BY <1>0, ListFacts DEF Outnumbered
<1>3. ASSUME NEW u \in Nat, u >= t
      PROVE  Len(Recent(Append(l, t), u)) <= Len(Recent(Record(k, t), u))
  <2>1. Recent(k, t) \in Attempts /\ Recent(Recent(k, t), u) = Recent(k, u)
    BY <1>0, <1>3, ListFacts
  <2>2. Len(Recent(Record(k, t), u)) =
          Len(Recent(Recent(k, t), u)) + (IF t + Window > u THEN 1 ELSE 0)
    BY <2>1, ListFacts DEF Record
  <2>3. Len(Recent(Append(l, t), u)) = Len(Recent(l, u)) + (IF t + Window > u THEN 1 ELSE 0)
    BY ListFacts
  <2>4. Len(Recent(l, u)) <= Len(Recent(k, u)) /\ Len(Recent(l, u)) \in Nat /\ Len(Recent(k, u)) \in Nat
    BY <1>3, ListFacts DEF Outnumbered
  <2> QED BY <2>1, <2>2, <2>3, <2>4
<1> QED BY <1>1, <1>2, <1>3 DEF Outnumbered

(* ... and the second half may store it: at is when the copy was made, now   *)
(* when it is stored.                                                        *)
LEMMA CopyStored ==
  ASSUME NEW l \in Attempts, NEW k \in Attempts, NEW at \in 0..MaxTime, NEW t \in 0..MaxTime,
         at <= t, Outnumbered(Append(l, at), k, at), Len(Recent(l, at)) + 1 <= Len(k)
  PROVE  /\ Outnumbered(l, k, t)
         /\ Outnumbered(Record(l, at), k, t)
         /\ Admits(k) => Len(Recent(Record(l, at), t)) <= MaxAttempts
<1>0. at \in Nat /\ t \in Nat
  BY LimitAssumption
<1>1. Recent(l, at) \in Attempts /\ Len(Recent(l, at)) \in Nat
  BY <1>0, ListFacts
<1>2. ASSUME NEW u \in Nat, u >= t
      PROVE  /\ Len(Recent(l, u)) <= Len(Recent(k, u))
             /\ Len(Recent(Record(l, at), u)) <= Len(Recent(k, u))
  <2>1. u >= at
    BY <1>0, <1>2
  <2>2. Recent(Recent(l, at), u) = Recent(l, u)
    BY <1>0, <2>1, ListFacts
  <2>3. Len(Recent(Record(l, at), u)) =
          Len(Recent(Recent(l, at), u)) + (IF at + Window > u THEN 1 ELSE 0)
    <3> DEFINE r == Recent(l, at)
    <3>1. r \in Attempts
      BY <1>1
    <3> HIDE DEF r
    <3>2. Len(Recent(Append(r, at), u)) = Len(Recent(r, u)) + (IF at + Window > u THEN 1 ELSE 0)
      BY <3>1, ListFacts
    <3> QED BY <3>2 DEF r, Record
  <2>4. Len(Recent(Append(l, at), u)) = Len(Recent(l, u)) + (IF at + Window > u THEN 1 ELSE 0)
    BY ListFacts
  <2>5. Len(Recent(Append(l, at), u)) <= Len(Recent(k, u))
    BY <2>1 DEF Outnumbered
  <2>6. Len(Recent(l, u)) \in Nat /\ Len(Recent(k, u)) \in Nat
    BY ListFacts
  <2> QED BY <2>2, <2>3, <2>4, <2>5, <2>6
<1>3. ASSUME Admits(k) PROVE Len(Recent(Record(l, at), t)) <= MaxAttempts
  <2>1. Record(l, at) \in Attempts /\ Len(Record(l, at)) = Len(Recent(l, at)) + 1
    BY RecordFacts
  <2>2. Len(Recent(Record(l, at), t)) <= Len(Record(l, at)) /\ Len(Recent(Record(l, at), t)) \in Nat
    BY <1>0, <2>1, ListFacts
  <2>3. Len(k) \in Nat /\ MaxAttempts \in Nat
    BY ListFacts, LimitAssumption, <1>0
  <2> QED BY <1>1, <1>3, <2>1, <2>2, <2>3 DEF Admits
<1> QED BY <1>2, <1>3 DEF Outnumbered
LEMMA LimitInit == Init => LimitInv
<1> SUFFICES ASSUME Init PROVE LimitInv
  OBVIOUS
<1>1. TypeInv
  BY TypeInit
<1>2. <<>> \in Attempts /\ 0 \in Nat
  BY EmptySeq DEF Attempts
<1>3. ASSUME NEW b \in Bucket PROVE Within(b)
  BY <1>2, NoneRecent DEF Init, Within
<1>4. ASSUME NEW c \in Caller PROVE Checking(task[c])
  BY DEF Init, Checking, Idle
<1> QED BY <1>1, <1>3, <1>4 DEF LimitInv

(* A step that leaves the limiter alone, but for callers that stop checking. *)
LEMMA QuietLimit ==
  ASSUME LimitInv, TypeInv', UNCHANGED <<now, limitVars>>,
         \A c \in Caller : task'[c] = task[c] \/ task'[c].pc # "check"
  PROVE  LimitInv'
<1>1. ASSUME NEW c \in Caller PROVE Checking(task[c])'
  BY DEF LimitInv, Checking, limitVars
<1>2. ASSUME NEW b \in Bucket \ raced' PROVE Within(b)'
  BY DEF LimitInv, Within, limitVars
<1> QED BY <1>1, <1>2 DEF LimitInv

LEMMA CheckLimit ==
  ASSUME LimitInv, TypeInv', NEW c \in Caller, NEW b \in Bucket, NEW e, NEW n,
         Check(c, b, e, n), UNCHANGED <<now, limitVars>>
  PROVE  LimitInv'
<1> DEFINE l == Record(attempts[b], now)
<1>1. /\ attempts[b] \in Attempts /\ admitted[b] \in Attempts /\ now \in 0..MaxTime
      /\ task \in [Caller -> Task]
  BY DEF LimitInv, TypeInv, TypeOK
<1>2. task'[c] = [pc |-> "check", bucket |-> b, who |-> e, list |-> l, count |-> n]
      /\ \A d \in Caller \ {c} : task'[d] = task[d]
  BY <1>1 DEF Check, Goto
<1>3. Last(l) = now
  BY <1>1, RecordFacts
<1>4. ASSUME b \notin raced
      PROVE  Outnumbered(Append(admitted[b], now), l, now)
             /\ Len(Recent(admitted[b], now)) + 1 <= Len(l)
  BY <1>1, <1>4, CopyMade DEF LimitInv, Within
<1> HIDE DEF l
<1>5. /\ task'[c].bucket = b /\ task'[c].list = l
  BY <1>2
<1>6. now <= now
  BY <1>1
<1>7. Checking(task[c])'
  BY <1>3, <1>4, <1>5, <1>6 DEF Checking, limitVars
<1>8. ASSUME NEW d \in Caller \ {c} PROVE Checking(task[d])'
  BY <1>2 DEF LimitInv, Checking, limitVars
<1>9. ASSUME NEW x \in Bucket \ raced' PROVE Within(x)'
  BY DEF LimitInv, Within, limitVars
<1> QED BY <1>7, <1>8, <1>9 DEF LimitInv

LEMMA StoreLimit ==
  ASSUME LimitInv, TypeInv', NEW c \in Caller, task[c].pc = "check", Store(c),
         now' = now, task'[c].pc # "check", \A d \in Caller \ {c} : task'[d] = task[d]
  PROVE  LimitInv'
<1> DEFINE k == task[c].list
           b == task[c].bucket
           at == Last(k)
<1>1. /\ task[c] \in Task /\ now \in 0..MaxTime /\ raced \subseteq Bucket
      /\ attempts \in [Bucket -> Attempts] /\ admitted \in [Bucket -> Attempts]
  BY DEF LimitInv, TypeInv, TypeOK
<1>2. k \in Attempts /\ k # <<>> /\ b \in Bucket /\ admitted[b] \in Attempts
  BY <1>1, TaskParts DEF LimitInv, TypeInv
<1>3. at \in 0..MaxTime
  <2>1. Len(k) \in Nat /\ Len(k) # 0
    BY <1>2, EmptySeq, LenProperties DEF Attempts
  <2>2. Len(k) \in 1..Len(k)
    BY <2>1
  <2> QED BY <1>2, <2>2, ElementOfSeq DEF Last, Attempts
<1>4. /\ attempts' = [attempts EXCEPT ![b] = k]
      /\ admitted' = IF Admits(k) THEN [admitted EXCEPT ![b] = Record(admitted[b], at)]
                                  ELSE admitted
      /\ raced \subseteq raced'
      /\ \A d \in Caller \ {c} : task[d].pc = "check" /\ task[d].bucket = b => b \in raced'
  BY DEF Store, Last, Others
<1>5. Checking(task[c])
  BY DEF LimitInv
<1> HIDE DEF k, b, at
<1>6. ASSUME NEW x \in Bucket \ raced', x = b PROVE Within(x)'
  <2>1. /\ at <= now /\ Outnumbered(Append(admitted[b], at), k, at)
        /\ Len(Recent(admitted[b], at)) + 1 <= Len(k)
    BY <1>4, <1>5, <1>6 DEF Checking, k, b, at
  <2>2. /\ Outnumbered(admitted[b], k, now)
        /\ Outnumbered(Record(admitted[b], at), k, now)
        /\ Admits(k) => Len(Recent(Record(admitted[b], at), now)) <= MaxAttempts
    BY <1>1, <1>2, <1>3, <2>1, CopyStored
  <2>3. Len(Recent(admitted[b], now)) <= MaxAttempts
    BY <1>2, <1>4, <1>6 DEF LimitInv, Within
  <2>4. attempts'[b] = k
    BY <1>1, <1>2, <1>4
  <2>5. admitted'[b] = IF Admits(k) THEN Record(admitted[b], at) ELSE admitted[b]
    BY <1>1, <1>2, <1>4
  <2>6. /\ Len(Recent(admitted'[x], now)) <= MaxAttempts
        /\ Outnumbered(admitted'[x], attempts'[x], now)
    BY <1>6, <2>2, <2>3, <2>4, <2>5
  <2> QED BY <2>6 DEF Within, Outnumbered
<1>7. ASSUME NEW x \in Bucket \ {b}, x \notin raced' PROVE Within(x)'
  <2>1. attempts'[x] = attempts[x] /\ admitted'[x] = admitted[x]
    BY <1>1, <1>4
  <2>2. Within(x)
    BY <1>4, <1>7 DEF LimitInv
  <2> QED BY <2>1, <2>2 DEF Within, Outnumbered
<1>8. ASSUME NEW d \in Caller PROVE Checking(task[d])'
  <2>1. CASE d = c
    BY <2>1 DEF Checking
  <2>2. CASE d # c
    <3>1. task'[d] = task[d] /\ Checking(task[d])
      BY <2>2 DEF LimitInv
    <3>2. ASSUME task[d].pc = "check", task[d].bucket \notin raced'
          PROVE  admitted'[task[d].bucket] = admitted[task[d].bucket]
      <4>1. task[d].bucket # b
        BY <1>4, <2>2, <3>2
      <4> QED BY <1>1, <1>4, <4>1
    <3> QED BY <1>4, <3>1, <3>2 DEF Checking, Outnumbered
  <2> QED BY <2>1, <2>2
<1>9. ASSUME NEW x \in Bucket \ raced' PROVE Within(x)'
  <2>1. CASE x = b
    BY <1>6, <2>1
  <2>2. CASE x # b
    BY <1>7, <2>2
  <2> QED BY <2>1, <2>2
<1> QED BY <1>8, <1>9 DEF LimitInv

(* A success clears the list, and with it what was let through.              *)
LEMMA ClearedLimit ==
  ASSUME LimitInv, TypeInv', NEW h \in Bucket, now' = now, raced' = raced,
         attempts' = [attempts EXCEPT ![h] = <<>>], admitted' = [admitted EXCEPT ![h] = <<>>],
         \A c \in Caller : task'[c] = task[c] \/ task'[c].pc # "check"
  PROVE  LimitInv'
<1>1. /\ \A c \in Caller : task[c] \in Task
      /\ now \in 0..MaxTime /\ MaxTime \in Nat
      /\ attempts \in [Bucket -> Attempts] /\ admitted \in [Bucket -> Attempts]
  BY LimitAssumption DEF LimitInv, TypeInv, TypeOK
<1>2. now \in Nat
  BY <1>1
<1>3. <<>> \in Attempts
  BY EmptySeq DEF Attempts
<1>4. ASSUME NEW b \in Bucket \ raced' PROVE Within(b)'
  <2>1. CASE b = h
    <3>1. attempts'[b] = <<>> /\ admitted'[b] = <<>>
      BY <1>1, <2>1
    <3>2. Len(Recent(<<>>, now)) <= MaxAttempts /\ Outnumbered(<<>>, <<>>, now)
      BY <1>2, <1>3, NoneRecent
    <3> QED BY <3>1, <3>2 DEF Within, Outnumbered
  <2>2. CASE b # h
    <3>1. attempts'[b] = attempts[b] /\ admitted'[b] = admitted[b]
      BY <1>1, <2>2
    <3>2. Within(b)
      BY DEF LimitInv
    <3> QED BY <3>1, <3>2 DEF Within, Outnumbered
  <2> QED BY <2>1, <2>2
<1>5. ASSUME NEW c \in Caller, task'[c].pc = "check" PROVE Checking(task[c])'
  <2>1. task'[c] = task[c] /\ Checking(task[c])
    BY <1>5 DEF LimitInv
  <2> DEFINE k == task[c].list
             b == task[c].bucket
             at == Last(k)
  <2>2. k \in Attempts /\ k # <<>> /\ b \in Bucket
    BY <1>1, <1>5, <2>1, TaskParts DEF LimitInv, TypeInv
  <2>3. at \in 0..MaxTime /\ Len(k) \in Nat /\ Len(k) >= 1
    <3>1. Len(k) \in Nat /\ Len(k) # 0
      BY <2>2, EmptySeq, LenProperties DEF Attempts
    <3>2. Len(k) \in 1..Len(k) /\ Len(k) >= 1
      BY <3>1
    <3>3. at \in 0..MaxTime
      BY <2>2, <3>1, <3>2, ElementOfSeq DEF Last, Attempts
    <3> QED BY <3>1, <3>2, <3>3
  <2> HIDE DEF k, b, at
  <2>4. CASE b # h
    <3>1. admitted'[b] = admitted[b]
      BY <1>1, <2>2, <2>4
    <3> QED BY <2>1, <3>1 DEF Checking, Outnumbered, k, b, at
  <2>5. CASE b = h
    <3>1. admitted'[b] = <<>>
      BY <1>1, <2>5
    <3>2. ASSUME b \notin raced
          PROVE  /\ Outnumbered(Append(<<>>, at), k, at)
                 /\ Len(Recent(<<>>, at)) + 1 <= Len(k)
      <4>1. Outnumbered(Append(admitted[b], at), k, at)
        BY <1>5, <2>1, <3>2 DEF Checking, k, b, at
      <4>2. ASSUME NEW u \in Nat
            PROVE  /\ Len(Recent(Append(<<>>, at), u)) <= Len(Recent(Append(admitted[b], at), u))
                   /\ Len(Recent(Append(<<>>, at), u)) \in Nat
                   /\ Len(Recent(Append(admitted[b], at), u)) \in Nat
                   /\ Len(Recent(k, u)) \in Nat
        <5>1. /\ Len(Recent(Append(<<>>, at), u)) =
                   Len(Recent(<<>>, u)) + (IF at + Window > u THEN 1 ELSE 0)
              /\ Len(Recent(Append(admitted[b], at), u)) =
                   Len(Recent(admitted[b], u)) + (IF at + Window > u THEN 1 ELSE 0)
          BY ZenonT(30), <1>1, <1>3, <2>2, <2>3, ListFacts
        <5>2. Len(Recent(admitted[b], u)) \in Nat /\ Len(Recent(k, u)) \in Nat
          BY <1>1, <2>2, <2>3, ListFacts
        <5>3. Len(Recent(<<>>, u)) = 0
          BY <1>3, NoneRecent
        <5> QED BY <5>1, <5>2, <5>3
      <4>3. Outnumbered(Append(<<>>, at), k, at)
        <5>1. ASSUME NEW u \in Nat, u >= at
              PROVE  Len(Recent(Append(<<>>, at), u)) <= Len(Recent(k, u))
          <6>1. Len(Recent(Append(admitted[b], at), u)) <= Len(Recent(k, u))
            BY <4>1, <5>1 DEF Outnumbered
          <6>2. /\ Len(Recent(Append(<<>>, at), u)) <= Len(Recent(Append(admitted[b], at), u))
                /\ Len(Recent(Append(<<>>, at), u)) \in Nat
                /\ Len(Recent(Append(admitted[b], at), u)) \in Nat
                /\ Len(Recent(k, u)) \in Nat
            BY <4>2
          <6>3. \A x, y, z \in Nat : x <= y /\ y <= z => x <= z
            OBVIOUS
          <6> QED BY ONLY <6>1, <6>2, <6>3
        <5> QED BY <5>1 DEF Outnumbered
      <4>4. Len(Recent(<<>>, at)) = 0
        <5>1. at \in Nat BY <1>1, <2>3
        <5> QED BY <1>3, <5>1, NoneRecent
      <4> QED BY <2>3, <4>3, <4>4
    <3>3. Last(task[c].list) <= now
      BY <1>5, <2>1 DEF Checking
    <3> QED BY <2>1, <3>1, <3>2, <3>3 DEF Checking, Outnumbered, k, b, at
  <2> QED BY <2>4, <2>5
<1>6. ASSUME NEW c \in Caller PROVE Checking(task[c])'
  <2>1. CASE task'[c].pc = "check"
    BY <1>5, <2>1
  <2>2. CASE task'[c].pc # "check"
    BY <2>2 DEF Checking
  <2> QED BY <2>1, <2>2
<1> QED BY <1>4, <1>6 DEF LimitInv

LEMMA TickLimit == ASSUME LimitInv, TypeInv', Tick PROVE LimitInv'
<1>1. /\ now \in Nat /\ now' \in Nat /\ now <= now' /\ MaxAttempts \in Nat
      /\ 0 \in 0..MaxTime
      /\ attempts \in [Bucket -> Attempts] /\ admitted \in [Bucket -> Attempts]
      /\ task' = task /\ UNCHANGED <<attempts, admitted, raced>>
      /\ \A c \in Caller : task[c] \in Task
  BY LimitAssumption DEF LimitInv, TypeInv, TypeOK, Tick, limitVars
<1>2. ASSUME NEW b \in Bucket \ raced PROVE Within(b)'
  <2>1. Within(b)
    BY DEF LimitInv
  <2>2. Len(Recent(admitted[b], now')) <= Len(Recent(admitted[b], now))
    BY <1>1, FewerLater
  <2>3. Len(Recent(admitted[b], now)) \in Nat /\ Len(Recent(admitted[b], now')) \in Nat
    BY <1>1, ListFacts
  <2>4. Len(Recent(admitted[b], now')) <= MaxAttempts
    BY <1>1, <2>1, <2>2, <2>3 DEF Within
  <2>5. Outnumbered(admitted[b], attempts[b], now')
    BY <1>1, <2>1 DEF Within, Outnumbered
  <2> QED BY <1>1, <2>4, <2>5 DEF Within, Outnumbered
<1>3. ASSUME NEW c \in Caller PROVE Checking(task[c])'
  <2>1. Checking(task[c])
    BY DEF LimitInv
  <2>2. task[c].pc = "check" => Last(task[c].list) <= now'
    <3> SUFFICES ASSUME task[c].pc = "check" PROVE Last(task[c].list) <= now'
      OBVIOUS
    <3>1. task[c].list \in Attempts /\ task[c].list # <<>>
      BY <1>1, TaskParts DEF LimitInv, TypeInv
    <3>2. Len(task[c].list) \in 1..Len(task[c].list)
      BY <3>1, EmptySeq, LenProperties DEF Attempts
    <3>3. Last(task[c].list) \in 0..MaxTime
      BY <3>1, <3>2, ElementOfSeq DEF Last, Attempts
    <3>4. Last(task[c].list) <= now
      BY <2>1 DEF Checking
    <3> QED BY <1>1, <3>3, <3>4
  <2> QED BY <1>1, <2>1, <2>2 DEF Checking, Outnumbered
<1> QED BY <1>1, <1>2, <1>3 DEF LimitInv

LEMMA RestartLimit == ASSUME LimitInv, TypeInv', Restart PROVE LimitInv'
<1>1. now \in Nat /\ now' = now
  BY LimitAssumption DEF LimitInv, TypeInv, TypeOK, Restart
<1>2. <<>> \in Attempts
  BY EmptySeq DEF Attempts
<1>3. ASSUME NEW b \in Bucket PROVE Within(b)'
  <2>1. attempts'[b] = <<>> /\ admitted'[b] = <<>>
    BY DEF Restart
  <2>2. Len(Recent(<<>>, now)) <= MaxAttempts /\ Outnumbered(<<>>, <<>>, now)
    BY <1>1, <1>2, NoneRecent
  <2> QED BY <1>1, <2>1, <2>2 DEF Within, Outnumbered
<1>4. ASSUME NEW c \in Caller PROVE Checking(task[c])'
  <2>1. task'[c] = Idle
    BY DEF Restart
  <2> QED BY <2>1 DEF Checking, Idle
<1> QED BY <1>3, <1>4 DEF LimitInv

LEMMA LimitStep == ASSUME LimitInv, [AnyStep]_vars PROVE LimitInv'
<1>0. /\ TypeInv' /\ task \in [Caller -> Task]
      /\ \A c \in Caller : task[c].pc = "password" => task[c].bucket \in Bucket
  <2>1. TypeInv'
    BY TypeStep DEF LimitInv
  <2>2. task \in [Caller -> Task]
    BY DEF LimitInv, TypeInv, TypeOK
  <2>3. ASSUME NEW c \in Caller, task[c].pc = "password" PROVE task[c].bucket \in Bucket
    <3>1. task[c] \in Task BY <2>2
    <3> QED BY <2>3, <3>1, TaskParts DEF Bucket
  <2> QED BY <2>1, <2>2, <2>3
<1>1. ASSUME NEW c \in Caller, NEW t, t.pc # "check", Goto(c, t), UNCHANGED <<now, limitVars>>
      PROVE  LimitInv'
  <2>1. \A d \in Caller : task'[d] = task[d] \/ task'[d].pc # "check"
    BY <1>0, <1>1 DEF Goto
  <2> QED BY <1>0, <1>1, <2>1, QuietLimit
<1>2. Idle.pc # "check"
  BY DEF Idle
<1>3. CASE Tick BY <1>0, <1>3, TickLimit
<1>4. CASE Restart BY <1>0, <1>4, RestartLimit
<1>5. CASE UNCHANGED vars \/ \E e \in Email : CreateAdmin(e) \/ TokenExpires(e)
  <2>1. UNCHANGED <<now, limitVars, task>>
    BY <1>5 DEF vars, CreateAdmin, TokenExpires, limitVars
  <2> QED BY <1>0, <2>1, QuietLimit
<1>6. ASSUME NEW c \in Caller, NEW e \in Email, ByToken(c, e) \/ LoadUser(c, e) PROVE LimitInv'
  <2>1. CASE ByToken(c, e)
    BY <1>1, <2>1 DEF ByToken
  <2>2. CASE LoadUser(c, e)
    <3> DEFINE t == [pc |-> "user", who |-> task[c].who, on |-> e,
                     seen |-> IF e = task[c].who THEN task[c].row ELSE users[e]]
    <3>1. t.pc # "check" /\ Goto(c, t)
      BY <2>2 DEF LoadUser
    <3> HIDE DEF t
    <3> QED BY <1>1, <2>2, <3>1 DEF LoadUser
  <2> QED BY <1>6, <2>1, <2>2
<1>7. ASSUME NEW c \in Caller, NEW e \in Email, NEW h \in Host, Login(c, h, e) PROVE LimitInv'
  <2>1. h \in Bucket BY DEF Bucket
  <2> QED BY <1>0, <1>7, <2>1, CheckLimit DEF Login
<1>8. ASSUME NEW c \in Caller, NEW k \in KeyId, ByKey(c, k) PROVE LimitInv'
  <2>1. k \in Bucket BY DEF Bucket
  <2> QED BY <1>0, <1>8, <2>1, CheckLimit DEF ByKey
<1>9. ASSUME NEW c \in Caller, NEW k \in KeyId, CreateKey(c, k) \/ LoadKey(c, k) PROVE LimitInv'
  <2>1. CASE CreateKey(c, k)
    BY <1>1, <1>2, <2>1 DEF CreateKey
  <2>2. CASE LoadKey(c, k)
    BY <1>1, <2>2 DEF LoadKey
  <2> QED BY <1>9, <2>1, <2>2
<1>10. ASSUME NEW c \in Caller, NEW e \in Email, NEW r \in Role, CreateUser(c, e, r) PROVE LimitInv'
  BY <1>1, <1>2, <1>10 DEF CreateUser
<1>11. ASSUME NEW c \in Caller, NEW r, NEW a, UpdateUser(c, r, a) \/ UpdateKey(c, a) PROVE LimitInv'
  BY <1>1, <1>2, <1>11 DEF UpdateUser, UpdateKey
<1>12. ASSUME NEW c \in Caller, NEW right \in BOOLEAN, Password(c, right) PROVE LimitInv'
  <2>1. /\ \A d \in Caller : task'[d] = task[d] \/ task'[d].pc # "check"
        /\ task[c].bucket \in Bucket /\ now' = now /\ raced' = raced
    BY <1>0, <1>2, <1>12 DEF Password, Goto
  <2>2. \/ UNCHANGED <<attempts, admitted>>
        \/ /\ attempts' = [attempts EXCEPT ![task[c].bucket] = <<>>]
           /\ admitted' = [admitted EXCEPT ![task[c].bucket] = <<>>]
    BY <1>12 DEF Password
  <2>3. CASE UNCHANGED <<attempts, admitted>>
    BY <1>0, <2>1, <2>3, QuietLimit DEF limitVars
  <2>4. CASE /\ attempts' = [attempts EXCEPT ![task[c].bucket] = <<>>]
             /\ admitted' = [admitted EXCEPT ![task[c].bucket] = <<>>]
    BY <1>0, <2>1, <2>4, ClearedLimit
  <2> QED BY <2>2, <2>3, <2>4
<1>13. ASSUME NEW c \in Caller, LoginCounted(c) \/ KeyCounted(c) PROVE LimitInv'
  <2>1. /\ task[c].pc = "check" /\ Store(c) /\ now' = now
        /\ task'[c].pc # "check" /\ \A d \in Caller \ {c} : task'[d] = task[d]
    BY <1>0, <1>2, <1>13 DEF LoginCounted, KeyCounted, Goto
  <2> QED BY <1>0, <2>1, StoreLimit
<1>14. ASSUME NEW c \in Caller, Stamp(c) \/ Leave(c) PROVE LimitInv'
  BY <1>1, <1>2, <1>14 DEF Stamp, Leave
<1> QED
  BY <1>3, <1>4, <1>5, <1>6, <1>7, <1>8, <1>9, <1>10, <1>11, <1>12, <1>13, <1>14 DEF AnyStep

(* Where no two checks of a host or a key overlapped, never more attempts    *)
(* are let through in a window than allowed (rate_limiter.py: check), for    *)
(* any limit, window and pace: the list that is stored may be older than the *)
(* moment it is stored at, and refused attempts are counted with the rest.   *)
THEOREM WindowHolds == Spec => []AdmittedWithinLimit
<1>1. LimitInv /\ [Next]_vars => LimitInv'
  BY LimitStep, AnyNext
<1>2. LimitInv => AdmittedWithinLimit
  BY DEF LimitInv, Within, AdmittedWithinLimit
<1> QED BY LimitInit, <1>1, <1>2, PTL DEF Spec
=============================================================================
