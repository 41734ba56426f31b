------------------------------- MODULE Access -------------------------------
(***************************************************************************)
(* Who may call the API and what is remembered about it: accounts, tokens,  *)
(* API keys and their usage counter (app/services/auth.py, api_keys.py),    *)
(* the in-memory rate limiter (rate_limiter.py), the dependencies that turn *)
(* a request into an actor (app/api/deps.py), the endpoints that change     *)
(* accounts and keys (app/api/main.py) and scripts/create_admin.py.         *)
(* Handlers run in a pool of threads: a caller loads rows in one step and   *)
(* writes them in a later one.  The session writes only attributes whose    *)
(* value differs from the one it loaded.                                    *)
(***************************************************************************)
EXTENDS Naturals, Sequences

CONSTANTS
  Email,        \* accounts, by their unique email
  KeyId,        \* API keys, by their public half
  Host,         \* client addresses that log in
  Caller,       \* requests that can be under way at the same time
  MaxAttempts,  \* RateLimiter.max_attempts
  Window,       \* RateLimiter.window_seconds
  MaxListed,    \* bound on the attempts one list holds
  MaxUse,       \* bound on the uses of a key
  MaxTime,      \* bound on time
  NoRow,        \* there is no such row
  Keep          \* a field that the payload leaves out

ASSUME LimitAssumption ==
  /\ MaxAttempts \in Nat /\ Window \in Nat
  /\ MaxListed \in Nat /\ MaxUse \in Nat /\ MaxTime \in Nat
ASSUME BucketAssumption == KeyId \intersect Host = {}

Role == {"ADMIN", "VIEWER"}     \* the third, ANALYST, may do nothing more here
Row == [role : Role, active : BOOLEAN]
ApiKey == [owner : Email, active : BOOLEAN, count : 0..MaxUse]
ASSUME KeepAssumption == Keep \notin Role /\ Keep \notin BOOLEAN
ASSUME NoRowAssumption == NoRow \notin Row \union ApiKey

Bucket == KeyId \union Host
Attempts == Seq(0..MaxTime)

Idle == [pc |-> "idle"]
Task ==
  {Idle}
    \union [pc : {"check"}, bucket : Bucket, who : Email, list : Attempts, count : 0..MaxUse]
    \union [pc : {"password"}, who : Email, bucket : Host]
    \union [pc : {"stamp"}, on : KeyId, count : 0..MaxUse]
    \union [pc : {"act"}, who : Email, row : Row]
    \union [pc : {"user"}, who : Email, on : Email, seen : Row]
    \union [pc : {"key"}, who : Email, on : KeyId, seen : BOOLEAN]

VARIABLES
  now,          \* time.monotonic()
  users,        \* rows of users
  keys,         \* rows of api_keys
  token,        \* accounts with a token that is still valid
  attempts,     \* RateLimiter._attempts
  task,         \* where each caller is, and what it has read
  told,         \* what creation and the audit log say of each account
  keyTold,      \* what creation and the audit log say of each key's state
  used,         \* successful uses of each key
  admitted,     \* times of the attempts the limiter let through
  stale,        \* rows written while somebody else was about to write them
  raced         \* buckets where two checks overlapped

rowVars == <<users, keys, token>>
logVars == <<told, keyTold, used, stale>>
limitVars == <<attempts, admitted, raced>>
vars == <<now, users, keys, token, attempts, task, told, keyTold, used, admitted, stale, raced>>

Init ==
  /\ now = 0
  /\ users = [e \in Email |-> NoRow]
  /\ keys = [k \in KeyId |-> NoRow]
  /\ token = {}
  /\ attempts = [b \in Bucket |-> <<>>]
  /\ task = [c \in Caller |-> Idle]
  /\ told = [e \in Email |-> NoRow]
  /\ keyTold = [k \in KeyId |-> FALSE]
  /\ used = [k \in KeyId |-> 0]
  /\ admitted = [b \in Bucket |-> <<>>]
  /\ stale = {}
  /\ raced = {}

Active(e) == users[e] # NoRow /\ users[e].active
Goto(c, t) == task' = [task EXCEPT ![c] = t]
Others(c) == Caller \ {c}

-----------------------------------------------------------------------------
(* The limiter.                                                              *)
Recent(list, t) ==
  LET recent[n \in 0..Len(list)] ==
        IF n = 0 THEN <<>>
        ELSE IF list[n] + Window > t THEN Append(recent[n - 1], list[n])
        ELSE recent[n - 1]
  IN  recent[Len(list)]
Record(list, t) == Append(Recent(list, t), t)
(* Mutant: the attempt itself is not counted.                                *)
AdmitsBefore(list) == Len(list) - 1 <= MaxAttempts
Admits(list) == Len(list) <= MaxAttempts

(* The first half of check: the list is read and what is recent is copied.   *)
Check(c, b, e, n) ==
  /\ Len(attempts[b]) < MaxListed
  /\ Goto(c, [pc |-> "check", bucket |-> b, who |-> e,
              list |-> Record(attempts[b], now), count |-> n])

(* The second half: the copy is stored and decides.                          *)
Store(c) ==
  LET t == task[c]
      b == t.bucket
      at == t.list[Len(t.list)]
  IN  /\ attempts' = [attempts EXCEPT ![b] = t.list]
      /\ admitted' = IF Admits(t.list)
                       THEN [admitted EXCEPT ![b] = Record(@, at)]
                       ELSE admitted
      /\ raced' = IF \E d \in Others(c) : task[d].pc = "check" /\ task[d].bucket = b
                    THEN raced \union {b}
                    ELSE raced

(* POST /auth/token: the attempt is counted before the password is looked at. *)
Login(c, h, e) == task[c] = Idle /\ Check(c, h, e, 0) /\ UNCHANGED <<now, rowVars, limitVars, logVars>>

LoginCounted(c) ==
  /\ task[c].pc = "check"
  /\ task[c].bucket \in Host
  /\ Store(c)
  /\ Goto(c, IF Admits(task[c].list)
               THEN [pc |-> "password", who |-> task[c].who, bucket |-> task[c].bucket]
               ELSE Idle)
  /\ UNCHANGED <<now, rowVars, logVars>>

(* authenticate_user: the row and the password decide; a success clears the  *)
(* host's list and issues a token.                                           *)
Password(c, right) ==
  LET e == task[c].who
      h == task[c].bucket
  IN  /\ task[c].pc = "password"
      /\ IF right /\ Active(e)
           THEN /\ token' = token \union {e}
                /\ attempts' = [attempts EXCEPT ![h] = <<>>]
                /\ admitted' = [admitted EXCEPT ![h] = <<>>]
           ELSE UNCHANGED <<token, attempts, admitted>>
      /\ Goto(c, Idle)
      /\ UNCHANGED <<now, users, keys, raced, logVars>>

TokenExpires(e) ==
  /\ e \in token
  /\ token' = token \ {e}
  /\ UNCHANGED <<now, users, keys, task, limitVars, logVars>>

(* get_current_user by token: the row of today, not the role in the token.   *)
ByToken(c, e) ==
  /\ task[c] = Idle
  /\ e \in token
  /\ Active(e)
  /\ Goto(c, [pc |-> "act", who |-> e, row |-> users[e]])
  /\ UNCHANGED <<now, rowVars, limitVars, logVars>>

(* _authenticate_via_api_key: verify_api_key loads the row, counter included, *)
(* and the limiter counts the request whatever comes of it.                  *)
ByKey(c, k) ==
  /\ task[c] = Idle
  /\ keys[k] # NoRow
  /\ keys[k].active
  /\ keys[k].count < MaxUse
  /\ Check(c, k, keys[k].owner, keys[k].count)
  /\ UNCHANGED <<now, rowVars, limitVars, logVars>>

KeyCounted(c) ==
  LET t == task[c]
  IN  /\ t.pc = "check"
      /\ t.bucket \in KeyId
      /\ Store(c)
      /\ Goto(c, IF Admits(t.list) /\ Active(t.who)
                   THEN [pc |-> "stamp", on |-> t.bucket, count |-> t.count]
                   ELSE Idle)
      /\ UNCHANGED <<now, rowVars, logVars>>

(* Whoever else has loaded e's row and may still write it, or k's counter or *)
(* state: what he has read is out of date once the row is written.           *)
SeesUser(d, e) ==
  \/ task[d].pc = "act" /\ task[d].who = e
  \/ task[d].pc = "user" /\ e \in {task[d].who, task[d].on}
SeesCount(d, k) ==
  \/ task[d].pc = "check" /\ task[d].bucket = k
  \/ task[d].pc = "stamp" /\ task[d].on = k
SeesKey(d, k) == task[d].pc = "key" /\ task[d].on = k

(* Mutant: the whole row goes back as it was loaded.                         *)
StampWhole(c) ==
  LET k == task[c].on
      e == keys[k].owner
  IN  /\ task[c].pc = "stamp"
      /\ keys' = [keys EXCEPT ![k].count = task[c].count + 1, ![k].active = TRUE]
      /\ used' = [used EXCEPT ![k] = @ + 1]
      /\ stale' = IF \E d \in Others(c) : SeesCount(d, k) THEN stale \union {k} ELSE stale
      /\ Goto(c, [pc |-> "act", who |-> e, row |-> users[e]])
      /\ UNCHANGED <<now, users, token, limitVars, told, keyTold>>

(* last_used_at and request_count are committed; the commit expires what was *)
(* loaded, so that the role check reads the owner's row again.               *)
Stamp(c) ==
  LET k == task[c].on
      e == keys[k].owner
  IN  /\ task[c].pc = "stamp"
      /\ keys' = [keys EXCEPT ![k].count = task[c].count + 1]
      /\ used' = [used EXCEPT ![k] = @ + 1]
      /\ stale' = IF \E d \in Others(c) : SeesCount(d, k) THEN stale \union {k} ELSE stale
      /\ Goto(c, [pc |-> "act", who |-> e, row |-> users[e]])
      /\ UNCHANGED <<now, users, token, limitVars, told, keyTold>>

-----------------------------------------------------------------------------
(* The endpoints.                                                            *)
IsAdmin(c) == task[c].pc = "act" /\ task[c].row.role = "ADMIN"

(* POST /users: the row and its audit entry in one commit.                   *)
CreateUser(c, e, r) ==
  /\ IsAdmin(c)
  /\ users[e] = NoRow
  /\ users' = [users EXCEPT ![e] = [role |-> r, active |-> TRUE]]
  /\ told' = [told EXCEPT ![e] = users'[e]]
  /\ Goto(c, Idle)
  /\ UNCHANGED <<now, keys, token, limitVars, keyTold, used, stale>>

(* PATCH /users/{id} loads its row, unless it is the actor's own: that one   *)
(* is in the session already.                                                *)
LoadUser(c, e) ==
  /\ IsAdmin(c)
  /\ users[e] # NoRow
  /\ Goto(c, [pc |-> "user", who |-> task[c].who, on |-> e,
              seen |-> IF e = task[c].who THEN task[c].row ELSE users[e]])
  /\ UNCHANGED <<now, rowVars, limitVars, logVars>>

(* The payload's value, and whether the session writes it.                   *)
Given(x, old) == IF x = Keep THEN old ELSE x
(* Mutant: a field that is left out counts as given.                         *)
WrittenBlank(x, seen, old) == IF x = seen THEN old ELSE x
Written(x, seen, old) == IF x \in {Keep, seen} THEN old ELSE x

(* Mutant: changes does not name the state.                                  *)
UpdateUserHalfTold(c, r, a) ==
  LET e == task[c].on
      seen == task[c].seen
  IN  /\ task[c].pc = "user"
      /\ users' = [users EXCEPT ![e] = [role |-> Written(r, seen.role, @.role),
                                        active |-> Written(a, seen.active, @.active)]]
      /\ told' = [told EXCEPT ![e] = [role |-> Given(r, @.role), active |-> @.active]]
      /\ stale' = IF \E d \in Others(c) : SeesUser(d, e) THEN stale \union {e} ELSE stale
      /\ Goto(c, Idle)
      /\ UNCHANGED <<now, keys, token, limitVars, keyTold, used>>

(* The changed attributes and the audit entry, which names every field of    *)
(* the payload, in one commit.                                               *)
UpdateUser(c, r, a) ==
  LET e == task[c].on
      seen == task[c].seen
  IN  /\ task[c].pc = "user"
      /\ users' = [users EXCEPT ![e] = [role |-> Written(r, seen.role, @.role),
                                        active |-> Written(a, seen.active, @.active)]]
      /\ told' = [told EXCEPT ![e] = [role |-> Given(r, @.role), active |-> Given(a, @.active)]]
      /\ stale' = IF \E d \in Others(c) : SeesUser(d, e) THEN stale \union {e} ELSE stale
      /\ Goto(c, Idle)
      /\ UNCHANGED <<now, keys, token, limitVars, keyTold, used>>

(* POST /api-keys: for the caller's own account.                             *)
CreateKey(c, k) ==
  /\ task[c].pc = "act"
  /\ keys[k] = NoRow
  /\ keys' = [keys EXCEPT ![k] = [owner |-> task[c].who, active |-> TRUE, count |-> 0]]
  /\ keyTold' = [keyTold EXCEPT ![k] = TRUE]
  /\ Goto(c, Idle)
  /\ UNCHANGED <<now, users, token, limitVars, told, used, stale>>

(* PATCH /api-keys/{id}: the owner's or an administrator's.                  *)
LoadKey(c, k) ==
  /\ task[c].pc = "act"
  /\ keys[k] # NoRow
  /\ keys[k].owner = task[c].who \/ IsAdmin(c)
  /\ Goto(c, [pc |-> "key", who |-> task[c].who, on |-> k, seen |-> keys[k].active])
  /\ UNCHANGED <<now, rowVars, limitVars, logVars>>

(* Mutant: a key that changes its state starts over.                         *)
UpdateKeyRestarts(c, a) ==
  LET k == task[c].on
  IN  /\ task[c].pc = "key"
      /\ keys' = [keys EXCEPT ![k].active = Written(a, task[c].seen, @), ![k].count = 0]
      /\ keyTold' = [keyTold EXCEPT ![k] = Given(a, @)]
      /\ stale' = IF \E d \in Others(c) : SeesKey(d, k) THEN stale \union {k} ELSE stale
      /\ Goto(c, Idle)
      /\ UNCHANGED <<now, users, token, limitVars, told, used>>

UpdateKey(c, a) ==
  LET k == task[c].on
  IN  /\ task[c].pc = "key"
      /\ keys' = [keys EXCEPT ![k].active = Written(a, task[c].seen, @)]
      /\ keyTold' = [keyTold EXCEPT ![k] = Given(a, @)]
      /\ stale' = IF \E d \in Others(c) : SeesKey(d, k) THEN stale \union {k} ELSE stale
      /\ Goto(c, Idle)
      /\ UNCHANGED <<now, users, token, limitVars, told, used>>

(* Any other endpoint, a refusal (403, 404, 409, 422) or an exception: the   *)
(* session is closed and nothing more is written.                            *)
Leave(c) ==
  /\ task[c].pc \notin {"idle", "check"}
  /\ Goto(c, Idle)
  /\ UNCHANGED <<now, rowVars, limitVars, logVars>>

(* scripts/create_admin.py: only an email that is not there yet, and no      *)
(* audit entry.                                                              *)
CreateAdmin(e) ==
  /\ users[e] = NoRow
  /\ users' = [users EXCEPT ![e] = [role |-> "ADMIN", active |-> TRUE]]
  /\ told' = [told EXCEPT ![e] = users'[e]]
  /\ UNCHANGED <<now, keys, token, task, limitVars, keyTold, used, stale>>

-----------------------------------------------------------------------------
Tick ==
  /\ now < MaxTime
  /\ now' = now + 1
  /\ UNCHANGED <<rowVars, task, limitVars, logVars>>

(* The process dies: what was not committed and the limiter's lists are gone. *)
Restart ==
  /\ task' = [c \in Caller |-> Idle]
  /\ attempts' = [b \in Bucket |-> <<>>]
  /\ admitted' = [b \in Bucket |-> <<>>]
  /\ raced' = {}
  /\ UNCHANGED <<now, rowVars, logVars>>

Authenticate(c) ==
  \/ \E e \in Email : ByToken(c, e) \/ \E h \in Host : Login(c, h, e)
  \/ \E k \in KeyId : ByKey(c, k)
  \/ LoginCounted(c)
  \/ \E right \in BOOLEAN : Password(c, right)
  \/ KeyCounted(c)
  \/ Stamp(c)

Endpoint(c) ==
  \/ \E e \in Email : LoadUser(c, e) \/ \E r \in Role : CreateUser(c, e, r)
  \/ \E r \in Role \union {Keep}, a \in BOOLEAN \union {Keep} : UpdateUser(c, r, a)
  \/ \E k \in KeyId : CreateKey(c, k) \/ LoadKey(c, k)
  \/ \E a \in BOOLEAN \union {Keep} : UpdateKey(c, a)
  \/ Leave(c)

Next ==
  \/ \E c \in Caller : Authenticate(c) \/ Endpoint(c)
  \/ \E e \in Email : CreateAdmin(e) \/ TokenExpires(e)
  \/ Tick
  \/ Restart

Spec == Init /\ [][Next]_vars

-----------------------------------------------------------------------------
TypeOK ==
  /\ now \in 0..MaxTime
  /\ users \in [Email -> Row \union {NoRow}]
  /\ keys \in [KeyId -> ApiKey \union {NoRow}]
  /\ token \subseteq Email
  /\ attempts \in [Bucket -> Attempts]
  /\ task \in [Caller -> Task]
  /\ told \in [Email -> Row \union {NoRow}]
  /\ keyTold \in [KeyId -> BOOLEAN]
  /\ used \in [KeyId -> Nat]
  /\ admitted \in [Bucket -> Attempts]
  /\ stale \subseteq Email \union KeyId
  /\ raced \subseteq Bucket

-----------------------------------------------------------------------------
(* "Every sensitive administrative action is recorded, never performed       *)
(* silently": an account is what its creation and the audit log make of it,  *)
(* and so is a key's state.  Out of reach where a row was written while      *)
(* somebody else had already read it to write it too.                        *)
AuditTellsTheRow ==
  /\ \A e \in Email \ stale : users[e] = told[e]
  /\ \A k \in KeyId \ stale : keys[k] # NoRow => keys[k].active = keyTold[k]

(* request_count "increments" with every use: never by more, and by as many  *)
(* where uses of the key did not overlap.                                    *)
UsageCounted ==
  \A k \in KeyId : keys[k] # NoRow =>
    /\ keys[k].count <= used[k]
    /\ k \notin stale => keys[k].count = used[k]

(* "Revoke (reversible)": a revoked key works again only because its owner   *)
(* or an administrator said so, never because of a request it served.        *)
RevocationSticks ==
  [][\A k \in KeyId :
       keys[k] # NoRow /\ ~keys[k].active /\ keys'[k].active =>
         \E c \in Caller : SeesKey(c, k) /\ task'[c] = Idle]_vars

(* The window slides: where no two checks of a bucket overlapped, no more    *)
(* than max_attempts are let through in any window_seconds, whatever was     *)
(* refused, unless a success cleared the list in between.                    *)
AdmittedWithinLimit ==
  \A b \in Bucket \ raced : Len(Recent(admitted[b], now)) <= MaxAttempts

(* The same for an overlapping pair as well: not what the code does.         *)
AlwaysWithinLimit ==
  \A b \in Bucket : Len(Recent(admitted[b], now)) <= MaxAttempts

(* There is an account that can manage the others, once there was one: not   *)
(* what the code does, since the last one may demote himself.                *)
AdministratorRemains ==
  (\E e \in Email : users[e] # NoRow) =>
    \E e \in Email : Active(e) /\ users[e].role = "ADMIN"
=============================================================================
