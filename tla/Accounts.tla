------------------------------ MODULE Accounts ------------------------------
(* User accounts and browser sessions: users.UserStore, SessionManager and   *)
(* UserHandler.  A session is a signed copy of the name and the role at      *)
(* login, under a key that lives as long as the process.                     *)
EXTENDS Naturals, FiniteSets

CONSTANTS User, MaxRestarts, MaxSessions   \* the last two bound the model

ASSUME AccountsAssumption == "admin" \in User /\ MaxRestarts \in Nat /\ MaxSessions \in Nat

VARIABLES
    role,       \* [User -> role, or "none" without a row]
    session,    \* sessions that were handed out
    epoch,      \* which key the process signs with
    granted     \* the roles an account had since the process started

accountVars == <<role, session, epoch, granted>>

Role == {"viewer", "operator", "admin"}

(* Sessions that verify_session accepts. *)
Current == {s \in session : s.epoch = epoch}

AccountsInit ==
    /\ role = [u \in User |-> IF u = "admin" THEN "admin" ELSE "none"]
    /\ session = {}
    /\ epoch = 0
    /\ granted = [u \in User |-> IF u = "admin" THEN {"admin"} ELSE {}]

SetRole(u, r) ==
    /\ role' = [role EXCEPT ![u] = r]
    /\ granted' = [granted EXCEPT ![u] = @ \cup {r}]

(* handle_login, with the right password. *)
Login(u) ==
    /\ role[u] # "none" /\ Cardinality(session) < MaxSessions
    /\ session' = session \cup {[user |-> u, role |-> role[u], epoch |-> epoch]}
    /\ UNCHANGED <<role, epoch, granted>>

(* A session runs out, or its cookie is cleared by a logout. *)
EndSession(s) ==
    /\ session' = session \ {s}
    /\ UNCHANGED <<role, epoch, granted>>

(* The routes under /admin/users, for a session s with the admin role. *)
Administers(s) == s \in Current /\ s.role = "admin"

CreateUser(s, u, r) ==
    /\ Administers(s) /\ role[u] = "none"
    /\ SetRole(u, r)
    /\ UNCHANGED <<session, epoch>>

UpdateUser(s, u, r) ==
    /\ Administers(s) /\ role[u] # "none"
    /\ SetRole(u, r)
    /\ UNCHANGED <<session, epoch>>

(* Neither the account named admin nor the caller's own can be deleted.      *)
DeleteUser(s, u) ==
    /\ Administers(s) /\ role[u] # "none"
    /\ u # "admin" /\ u # s.user
    /\ role' = [role EXCEPT ![u] = "none"]
    /\ UNCHANGED <<session, epoch, granted>>

(* A new key; bootstrap_admin only acts on an empty table. *)
RestartRegistry ==
    /\ epoch < MaxRestarts
    /\ epoch' = epoch + 1
    /\ role' = IF \A u \in User : role[u] = "none" THEN [role EXCEPT !["admin"] = "admin"] ELSE role
    /\ granted' = [u \in User |-> {role'[u]} \ {"none"}]
    /\ UNCHANGED session

AccountsNext ==
    \/ \E u \in User : Login(u)
    \/ \E s \in session :
        \/ EndSession(s)
        \/ \E u \in User :
            \/ DeleteUser(s, u)
            \/ \E r \in Role : CreateUser(s, u, r) \/ UpdateUser(s, u, r)
    \/ RestartRegistry

-----------------------------------------------------------------------------
AccountsTypeOK ==
    /\ role \in [User -> Role \cup {"none"}]
    /\ session \subseteq [user : User, role : Role, epoch : 0..MaxRestarts]
    /\ epoch \in 0..MaxRestarts
    /\ granted \in [User -> SUBSET Role]

(* The primary account exists whatever administrators do to each other.      *)
PrimaryAccountKept == role["admin"] # "none"

(* A session that is accepted carries a role its account had since the       *)
(* process started: it may be out of date, but never from an earlier life.   *)
SessionRoleWasGranted == \A s \in Current : s.role \in granted[s.user]
=============================================================================
