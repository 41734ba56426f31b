------------------------------ MODULE MCAccess ------------------------------
(* An instance of Access for TLC, in three parts chosen at the start: who    *)
(* changes accounts (from an empty database, at one instant), who uses and   *)
(* changes keys (accounts given), and who runs into the limiter as time      *)
(* passes (accounts and keys given).  Each part leaves alone what the other  *)
(* two are about; accounts and callers are interchangeable.                  *)
EXTENDS Access, TLC

VARIABLE focus

mcVars == <<vars, focus>>

(* What the bootstrap script, an administrator and his two logins leave.     *)
Populated ==
  /\ now = 0
  /\ \E root \in Email :
       users = [e \in Email |-> [role |-> IF e = root THEN "ADMIN" ELSE "VIEWER",
                                 active |-> TRUE]]
  /\ \E owner \in Email :
       keys = [k \in KeyId |-> IF focus = "limits"
                                 THEN [owner |-> owner, active |-> TRUE, count |-> 0]
                                 ELSE NoRow]
  /\ token = Email
  /\ attempts = [b \in Bucket |-> <<>>]
  /\ task = [c \in Caller |-> Idle]
  /\ told = users
  /\ keyTold = [k \in KeyId |-> focus = "limits"]
  /\ used = [k \in KeyId |-> 0]
  /\ admitted = [b \in Bucket |-> <<>>]
  /\ stale = {}
  /\ raced = {}

MCInit ==
  /\ focus \in {"accounts", "keys", "limits"}
  /\ IF focus = "accounts" THEN Init ELSE Populated

MCNext ==
  /\ Next
  /\ UNCHANGED focus
  /\ focus = "accounts" => UNCHANGED <<now, keys>>
  /\ focus = "keys" => UNCHANGED <<now, users>> /\ \A h \in Host, c \in Caller :
       task'[c].pc = "check" => task'[c].bucket # h
  /\ focus = "limits" => UNCHANGED <<users, token>> /\ \A c \in Caller :
       task'[c].pc \notin {"user", "key"}

MCSpec == MCInit /\ [][MCNext]_mcVars

Symmetry == Permutations(Email) \union Permutations(Caller)
=============================================================================
