------------------------- MODULE CompositionProofs -------------------------
(* What is proved of the services of MCServices, for any clients, users,     *)
(* tokens, agents, tasks, directories and times.                             *)
EXTENDS MCServices, ServicesProofs, WellFoundedInduction

(* A step of the composition is a step of every service, or none.            *)
LEMMA ServiceStep ==
    [Next]_vars =>
        /\ [OAuthNext]_oauthVars /\ [AccountsNext]_accountVars
        /\ [TokensNext]_tokenVars /\ [HarnessNext]_harnessVars
        /\ [SpaceNext]_spaceVars /\ [WsNext]_wsVars
        /\ [BoardNext]_boardVars /\ [MemNext]_memVars
        /\ [CronNext]_cronVars /\ [CliNext]_cliVars
        /\ [WorkflowNext]_workflowVars
BY DEF Next, vars, OnOAuth, OnAccounts, OnTokens, OnHarness, OnRate, OnSpace,
       OnCron, OnWs, OnBoard, OnMem, OnWorkflow, OnCli, OnDb

-----------------------------------------------------------------------------
(* OAuth clients, codes and tokens. *)

(* A token of a code used it up.  A client keeps the scopes it was           *)
(* registered with, unknown ones only if a card asked for it, and every      *)
(* token is of a client that once had a row.                                 *)
CodesSpent ==
    /\ \A t \in signed : t.code # "none" => code[t.code] = NoCode
    /\ \A t, u \in signed : t.code = u.code /\ t.code # "none" => t = u

ClientsKnown ==
    /\ \A c \in OClient :
        /\ oclient[c].live => oclient[c].used
        /\ oclient[c].scopes \subseteq AllScopes \/ oclient[c].card
    /\ \A t \in signed : oclient[t.client].used

OAuthInv ==
    /\ OAuthTypeOK /\ CodesSpent /\ ClientsKnown
    /\ RecordsHaveClients /\ ScopesWithinGrant /\ ServiceAccountKept

LEMMA CodesOnce == OAuthInv => CodeRedeemedOnce
<1> SUFFICES ASSUME OAuthInv, NEW k \in Code
             PROVE  Cardinality({t \in signed : t.code = k}) <= 1
    BY DEF CodeRedeemedOnce
<1> DEFINE T == {t \in signed : t.code = k}
<1>1. k # "none"
    BY ServiceAssumption
<1>2. CASE T = {}
    BY <1>2, FS_EmptySet
<1>3. CASE T # {}
    <2>1. PICK t \in signed : t.code = k
        BY <1>3
    <2>2. T = {t}
        BY <1>1, <2>1 DEF OAuthInv, CodesSpent
    <2> QED
        BY <2>2, FS_Singleton
<1> QED
    BY <1>2, <1>3

LEMMA OAuthInit_Inv == OAuthInit => OAuthInv
<1> SUFFICES ASSUME OAuthInit PROVE OAuthInv
    OBVIOUS
<1>1. OAuthTypeOK
    BY DEF OAuthInit, OAuthTypeOK, NoCode, Scope
<1>2. ClientsKnown /\ ServiceAccountKept
    BY ServiceAssumption DEF OAuthInit, ClientsKnown, ServiceAccountKept, Clients
<1> QED
    BY <1>1, <1>2 DEF OAuthInit, OAuthInv, CodesSpent, RecordsHaveClients, ScopesWithinGrant

(* A token that is signed for a client that exists, over no code or over one *)
(* that the same step deletes.                                               *)
LEMMA Sign_Inv ==
    ASSUME OAuthInv, NEW c \in Clients, NEW S \in SUBSET Scope,
           NEW j \in Jti, NEW k \in Code \cup {"none"}, Sign(c, S, j, k),
           UNCHANGED oclient,
           IF k = "none" THEN code' = code /\ S \subseteq oclient[c].scopes
                         ELSE code[k] # NoCode /\ code' = [code EXCEPT ![k] = NoCode]
    PROVE  OAuthInv'
<1> DEFINE new == [jti |-> j, client |-> c, scope |-> S, code |-> k]
<1>0. /\ OAuthTypeOK /\ CodesSpent /\ ClientsKnown /\ c \in OClient /\ oclient[c].live
      /\ RecordsHaveClients /\ ScopesWithinGrant /\ ServiceAccountKept
    BY DEF OAuthInv, Clients
<1>1. /\ new \in [jti : Jti, client : OClient, scope : SUBSET Scope,
                  code : Code \cup {"none"}]
      /\ new.jti = j /\ new.client = c /\ new.scope = S /\ new.code = k
    BY <1>0
<1> HIDE DEF new
<1>2. /\ signed' = signed \cup {new} /\ tokenRow' = tokenRow \cup {j}
      /\ \A t \in signed : t.jti # j
    BY DEF Sign, new, Issued
<1>3. NoCode \in [client : OClient \cup {"none"}, scope : SUBSET Scope, old : BOOLEAN]
    BY DEF NoCode
<1>4. OAuthTypeOK'
    BY <1>0, <1>1, <1>2, <1>3 DEF OAuthTypeOK
<1>5. CodesSpent'
    BY <1>0, <1>1, <1>2 DEF CodesSpent, OAuthTypeOK
<1>6. ClientsKnown' /\ ServiceAccountKept'
    BY <1>0, <1>1, <1>2 DEF ClientsKnown, ServiceAccountKept, Clients
<1>7. RecordsHaveClients'
    BY <1>0, <1>1, <1>2 DEF RecordsHaveClients, Clients
<1>8. ScopesWithinGrant'
    <2>1. oclient[c].scopes \subseteq AllScopes \/ oclient[c].card
        BY <1>0 DEF ClientsKnown
    <2>2. new.code = "none" =>
            /\ new.scope \subseteq oclient[new.client].scopes
            /\ new.scope \subseteq AllScopes \/ oclient[new.client].card
        BY <1>1, <2>1, ServiceAssumption
    <2> QED
        BY <1>0, <1>2, <2>2 DEF ScopesWithinGrant
<1> QED
    BY <1>4, <1>5, <1>6, <1>7, <1>8 DEF OAuthInv

CodeRow == [client : OClient \cup {"none"}, scope : SUBSET Scope, old : BOOLEAN]

LEMMA AgedCode == ASSUME NEW r \in CodeRow PROVE [r EXCEPT !.old = TRUE] \in CodeRow
BY DEF CodeRow

ClientRow ==
    [live : BOOLEAN, used : BOOLEAN, card : BOOLEAN, scopes : SUBSET Scope]

LEMMA GoneClient ==
    ASSUME NEW r \in ClientRow
    PROVE  [r EXCEPT !.live = FALSE] \in ClientRow
BY DEF ClientRow

LEMMA OAuthStep_Inv == OAuthInv /\ [OAuthNext]_oauthVars => OAuthInv'
<1> SUFFICES ASSUME OAuthInv, [OAuthNext]_oauthVars PROVE OAuthInv'
    OBVIOUS
<1>0. /\ OAuthTypeOK /\ CodesSpent /\ ClientsKnown
      /\ RecordsHaveClients /\ ScopesWithinGrant /\ ServiceAccountKept
    BY DEF OAuthInv
<1> USE DEF OAuthInv, OAuthTypeOK, CodesSpent, ClientsKnown, RecordsHaveClients,
            ScopesWithinGrant, ServiceAccountKept, Clients
<1>1. CASE UNCHANGED oauthVars
    BY <1>1 DEF oauthVars
<1>2. ASSUME NEW c \in OClient, NEW S \in SUBSET Scope, NEW asked \in BOOLEAN,
             S \subseteq AllScopes \/ asked, AddClient(c, S, asked)
      PROVE  OAuthInv'
    <2>1. PICK X \in SUBSET Scope :
            /\ X \subseteq AllScopes \/ asked
            /\ oclient' = [oclient EXCEPT ![c] =
                            [live |-> TRUE, used |-> TRUE, card |-> asked, scopes |-> X]]
        BY <1>2 DEF AddClient, Scope
    <2>2. ~oclient[c].used /\ UNCHANGED <<code, signed, tokenRow>>
        BY <1>2 DEF AddClient
    <2> QED
        BY <1>0, <2>1, <2>2
<1>3. ASSUME NEW c \in OClient, NEW S \in SUBSET Scope, NEW j \in Jti,
             NEW given \in BOOLEAN, ClientCredentials(c, given, S, j)
      PROVE  OAuthInv'
    <2> DEFINE X == IF given THEN S ELSE oclient[c].scopes
    <2>1. X \in SUBSET Scope /\ X \subseteq oclient[c].scopes
        BY <1>0, <1>3 DEF ClientCredentials
    <2>2. Sign(c, X, j, "none") /\ c \in Clients /\ UNCHANGED <<oclient, code>>
        BY <1>3 DEF ClientCredentials
    <2> HIDE DEF X
    <2> QED
        BY <2>1, <2>2, Sign_Inv
<1>4. ASSUME NEW c \in OClient, NEW k \in Code, NEW S \in SUBSET Scope,
             CreateAuthCode(c, k, S)
      PROVE  OAuthInv'
    <2>1. /\ code' = [code EXCEPT ![k] = [client |-> c, scope |-> S, old |-> FALSE]]
          /\ UNCHANGED <<oclient, signed, tokenRow>>
          /\ \A t \in signed : t.code # k
        BY <1>4 DEF CreateAuthCode
    <2>2. OAuthTypeOK'
        BY <1>0, <2>1
    <2>3. CodesSpent'
        BY <1>0, <2>1
    <2> QED
        BY <1>0, <2>1, <2>2, <2>3
<1>5. ASSUME NEW c \in OClient, DeleteClient(c) PROVE OAuthInv'
    <2>1. /\ oclient' = [oclient EXCEPT ![c].live = FALSE] /\ c # Service
          /\ tokenRow' = {j \in tokenRow : ~\E t \in signed : t.jti = j /\ t.client = c}
          /\ UNCHANGED <<code, signed>>
        BY <1>5 DEF DeleteClient, RemoveClient
    <2>2. OAuthTypeOK'
        <3>0. oclient \in [OClient -> ClientRow]
            BY <1>0 DEF ClientRow
        <3>1. [oclient[c] EXCEPT !.live = FALSE] \in ClientRow
            BY <3>0, GoneClient
        <3>2. oclient' \in [OClient -> ClientRow]
            BY <2>1, <3>0, <3>1
        <3> QED
            BY <1>0, <2>1, <3>2 DEF ClientRow
    <2>3. \A d \in OClient : /\ d # c => oclient'[d] = oclient[d]
                             /\ oclient'[d].scopes = oclient[d].scopes
                             /\ oclient'[d].used = oclient[d].used
                             /\ oclient'[d].card = oclient[d].card
                             /\ ~oclient'[c].live
        BY <1>0, <2>1
    <2>4. ClientsKnown' /\ ScopesWithinGrant'
        BY <1>0, <2>1, <2>3
    <2>5. RecordsHaveClients' /\ ServiceAccountKept'
        BY <1>0, <2>1, <2>3, ServiceAssumption
    <2> QED
        BY <1>0, <2>1, <2>2, <2>4, <2>5
<1>6. ASSUME NEW c \in OClient, RevokeClientTokens(c) PROVE OAuthInv'
    BY <1>0, <1>6 DEF RevokeClientTokens
<1>7. ASSUME NEW k \in Code, CodeAges(k) PROVE OAuthInv'
    <2>1. /\ code[k] # NoCode /\ code' = [code EXCEPT ![k].old = TRUE]
          /\ UNCHANGED <<oclient, signed, tokenRow>>
        BY <1>7 DEF CodeAges
    <2>2. OAuthTypeOK'
        <3>1. code \in [Code -> CodeRow]
            BY <1>0 DEF CodeRow
        <3>2. code' \in [Code -> CodeRow]
            BY <2>1, <3>1, AgedCode
        <3> QED
            BY <1>0, <2>1, <3>2 DEF CodeRow
    <2>3. CodesSpent'
        BY <1>0, <2>1
    <2> QED
        BY <1>0, <2>1, <2>2, <2>3
<1>8. ASSUME NEW c \in OClient, NEW k \in Code, NEW v \in BOOLEAN, NEW u \in BOOLEAN,
             NEW j \in Jti, RedeemCode(c, k, v, u, j)
      PROVE  OAuthInv'
    <2>1. /\ c \in Clients /\ code[k] # NoCode /\ k # "none"
          /\ code' = [code EXCEPT ![k] = NoCode] /\ UNCHANGED oclient
          /\ code[k].scope \in SUBSET Scope
        BY <1>0, <1>8, ServiceAssumption DEF RedeemCode
    <2>2. CASE Sign(c, code[k].scope, j, k)
        BY <2>1, <2>2, Sign_Inv
    <2>3. CASE UNCHANGED <<signed, tokenRow>>
        BY <1>0, <2>1, <2>3 DEF NoCode
    <2> QED
        BY <1>8, <2>2, <2>3 DEF RedeemCode
<1>9. ASSUME NEW j \in Jti, RevokeToken(j) PROVE OAuthInv'
    BY <1>0, <1>9 DEF RevokeToken
<1> HIDE DEF OAuthInv
<1>10. ASSUME NEW c \in OClient, NEW S \in SUBSET Scope,
              CreateClient(c, S) \/ RegisterClient(c, S) \/ RegisterAgentClient(c, S)
       PROVE  OAuthInv'
    BY <1>2, <1>10 DEF CreateClient, RegisterClient, RegisterAgentClient
<1> QED
    BY <1>1, <1>3, <1>4, <1>5, <1>6, <1>7, <1>8, <1>9, <1>10 DEF OAuthNext

-----------------------------------------------------------------------------
(* User accounts and sessions. *)

(* No session is ahead of the key, and an account's role was given to it.    *)
AccountsInv ==
    /\ AccountsTypeOK /\ PrimaryAccountKept /\ SessionRoleWasGranted
    /\ \A s \in session : s.epoch <= epoch
    /\ \A u \in User : role[u] # "none" => role[u] \in granted[u]

LEMMA AccountsInit_Inv == AccountsInit => AccountsInv
BY AccountsAssumption
   DEF AccountsInit, AccountsInv, AccountsTypeOK, PrimaryAccountKept,
       SessionRoleWasGranted, Current, Role

LEMMA SetRole_Inv ==
    ASSUME AccountsInv, NEW u \in User, NEW r \in Role, SetRole(u, r),
           UNCHANGED <<session, epoch>>
    PROVE  AccountsInv'
<1>1. AccountsTypeOK'
    BY DEF AccountsInv, AccountsTypeOK, SetRole
<1>2. PrimaryAccountKept'
    BY AccountsAssumption DEF AccountsInv, AccountsTypeOK, PrimaryAccountKept, SetRole, Role
<1>3. SessionRoleWasGranted'
    BY DEF AccountsInv, AccountsTypeOK, SessionRoleWasGranted, Current, SetRole
<1>4. \A v \in User : role'[v] # "none" => role'[v] \in granted'[v]
    BY DEF AccountsInv, AccountsTypeOK, SetRole
<1> QED
    BY <1>1, <1>2, <1>3, <1>4 DEF AccountsInv

LEMMA AccountsStep_Inv == AccountsInv /\ [AccountsNext]_accountVars => AccountsInv'
<1> SUFFICES ASSUME AccountsInv, [AccountsNext]_accountVars PROVE AccountsInv'
    OBVIOUS
<1>0. /\ AccountsTypeOK /\ PrimaryAccountKept /\ SessionRoleWasGranted
      /\ \A s \in session : s.epoch <= epoch
      /\ \A u \in User : role[u] # "none" => role[u] \in granted[u]
      /\ "admin" \in User /\ MaxRestarts \in Nat
    BY AccountsAssumption DEF AccountsInv
<1>1. CASE UNCHANGED accountVars
    BY <1>0, <1>1 DEF accountVars, AccountsInv, AccountsTypeOK, PrimaryAccountKept,
                      SessionRoleWasGranted, Current
<1>2. ASSUME NEW u \in User, Login(u) PROVE AccountsInv'
    <2> DEFINE new == [user |-> u, role |-> role[u], epoch |-> epoch]
    <2>1. /\ new \in [user : User, role : Role, epoch : 0..MaxRestarts]
          /\ new.user = u /\ new.role = role[u] /\ new.epoch = epoch
        BY <1>0, <1>2 DEF Login, AccountsTypeOK
    <2> HIDE DEF new
    <2>2. session' = session \cup {new} /\ UNCHANGED <<role, epoch, granted>>
        BY <1>2 DEF Login, new
    <2>3. new.role \in granted[new.user] /\ new.epoch <= epoch
        BY <1>0, <1>2, <2>1 DEF Login, AccountsTypeOK
    <2> QED
        BY <1>0, <2>1, <2>2, <2>3 DEF AccountsInv, AccountsTypeOK,
           PrimaryAccountKept, SessionRoleWasGranted, Current
<1>3. ASSUME NEW s \in session, EndSession(s) PROVE AccountsInv'
    BY <1>0, <1>3 DEF EndSession, AccountsInv, AccountsTypeOK,
       PrimaryAccountKept, SessionRoleWasGranted, Current
<1>4. ASSUME NEW s \in session, NEW u \in User, DeleteUser(s, u) PROVE AccountsInv'
    <2>1. u # "admin" /\ role' = [role EXCEPT ![u] = "none"]
          /\ UNCHANGED <<session, epoch, granted>>
        BY <1>4 DEF DeleteUser
    <2> QED
        BY <1>0, <2>1 DEF AccountsInv, AccountsTypeOK, PrimaryAccountKept,
                          SessionRoleWasGranted, Current
<1>5. ASSUME NEW s \in session, NEW u \in User, NEW r \in Role,
             CreateUser(s, u, r) \/ UpdateUser(s, u, r)
      PROVE  AccountsInv'
    BY <1>5, SetRole_Inv DEF CreateUser, UpdateUser
<1>6. CASE RestartRegistry
    <2>1. role' = role /\ epoch' = epoch + 1 /\ epoch' \in 0..MaxRestarts /\ session' = session
        BY <1>0, <1>6 DEF RestartRegistry, AccountsTypeOK, PrimaryAccountKept
    <2>2. \A u \in User : granted'[u] = {role[u]} \ {"none"}
        BY <1>6, <2>1 DEF RestartRegistry
    <2>3. AccountsTypeOK'
        BY <1>0, <1>6, <2>1 DEF RestartRegistry, AccountsTypeOK
    <2>4. \A s \in session : s.epoch <= epoch' /\ s.epoch # epoch'
        BY <1>0, <2>1 DEF AccountsTypeOK
    <2> QED
        BY <1>0, <2>1, <2>2, <2>3, <2>4
           DEF AccountsInv, PrimaryAccountKept, SessionRoleWasGranted, Current
<1> QED
    BY <1>1, <1>2, <1>3, <1>4, <1>5, <1>6 DEF AccountsNext

(* No order of grants, redemptions, deletions, logins, role changes and       *)
(* restarts makes a credential worth more than it was given for, whatever the *)
(* clients, users and scopes (store.py, auth.py, users.py).                   *)
THEOREM CredentialsAreSound == Spec => []CredentialsHold
<1>1. Init => OAuthInv /\ AccountsInv
    BY OAuthInit_Inv, AccountsInit_Inv DEF Init
<1>2. OAuthInv /\ AccountsInv /\ [Next]_vars => OAuthInv' /\ AccountsInv'
    BY ServiceStep, OAuthStep_Inv, AccountsStep_Inv
<1>3. OAuthInv /\ AccountsInv => CredentialsHold
    BY CodesOnce DEF OAuthInv, AccountsInv, CredentialsHold
<1> QED
    BY <1>1, <1>2, <1>3, PTL DEF Spec

-----------------------------------------------------------------------------
(* Delegated tokens. *)

DtokenRow == [jti : DJti, asked : SUBSET HScope, scope : SUBSET HScope,
              task : DTask, sub : DAgent \cup {""}, fresh : BOOLEAN]

(* Tokens are told apart by their id. *)
TokensKnown ==
    /\ dtoken \subseteq DtokenRow
    /\ \A k, p \in dtoken : k.jti = p.jti => k = p

(* A stored token was consumed exactly when its row says so.                 *)
ReplayTable ==
    /\ stored \in [DJti -> {"absent", "unused", "used"}]
    /\ accepted \in [DJti -> {0, 1}]
    /\ \A j \in DJti : accepted[j] = 1 => stored[j] = "used"

TokensInv == TokensKnown /\ ReplayTable /\ ScopeOnlyNarrows

LEMMA AttenuateNarrows ==
    ASSUME NEW S \in SUBSET HScope, NEW r \in Restriction
    PROVE  AttenuateScope(S, r) \subseteq S
<1>1. r.kind \in {"none", "exclude", "reduce_to", "map"}
    BY DEF Restriction
<1>2. CASE r.kind = "none"
    BY <1>2 DEF AttenuateScope
<1>3. CASE r.kind = "exclude"
    BY <1>3 DEF AttenuateScope
<1>4. CASE r.kind = "reduce_to"
    BY <1>4 DEF AttenuateScope
<1>5. CASE r.kind = "map"
    <2>1. AttenuateScope(S, r) = {IF s \in r.of /\ r.to \in S THEN r.to ELSE s : s \in S}
        BY <1>5 DEF AttenuateScope
    <2> QED
        BY <2>1
<1> QED
    BY <1>1, <1>2, <1>3, <1>4, <1>5

LEMMA Mint_Inv ==
    ASSUME TokensInv, NEW j \in DJti, NEW S \in SUBSET HScope, NEW r \in Restriction,
           NEW t \in DTask, NEW a \in DAgent \cup {""}, Mint(j, S, r, t, a)
    PROVE  TokensInv'
<1> DEFINE X == AttenuateScope(S, r)
           new == [jti |-> j, asked |-> S, scope |-> X, task |-> t, sub |-> a, fresh |-> TRUE]
<1>0. TokensKnown /\ ReplayTable /\ ScopeOnlyNarrows
    BY DEF TokensInv
<1>1. X \in SUBSET HScope /\ X \subseteq S
    BY AttenuateNarrows
<1>2. /\ dtoken' = dtoken \cup {new} /\ UNCHANGED <<stored, accepted>>
      /\ \A k \in dtoken : k.jti # j
    BY DEF Mint, Minted
<1> HIDE DEF X
<1>3. new \in DtokenRow /\ new.jti = j /\ new.scope \subseteq new.asked
    BY <1>1 DEF DtokenRow
<1> HIDE DEF new
<1>4. TokensKnown' /\ ScopeOnlyNarrows' /\ ReplayTable'
    BY <1>0, <1>2, <1>3 DEF TokensKnown, ScopeOnlyNarrows, ReplayTable
<1> QED
    BY <1>4 DEF TokensInv

LEMMA TokensStep_Inv == TokensInv /\ [TokensNext]_tokenVars => TokensInv'
<1> SUFFICES ASSUME TokensInv, [TokensNext]_tokenVars PROVE TokensInv'
    OBVIOUS
<1>0. TokensKnown /\ ReplayTable /\ ScopeOnlyNarrows
    BY DEF TokensInv
<1>1. CASE UNCHANGED tokenVars
    BY <1>0, <1>1 DEF tokenVars, TokensInv, TokensKnown, ReplayTable, ScopeOnlyNarrows
<1>2. ASSUME NEW j \in DJti, PersistToken(j) PROVE TokensInv'
    BY <1>0, <1>2 DEF PersistToken, TokensInv, TokensKnown, ReplayTable, ScopeOnlyNarrows
<1>3. ASSUME NEW j \in DJti, TokenExpires(j) PROVE TokensInv'
    <2> DEFINE Old(k) == IF k.jti = j THEN [k EXCEPT !.fresh = FALSE] ELSE k
    <2>1. dtoken' = {Old(k) : k \in dtoken} /\ UNCHANGED <<stored, accepted>>
        BY <1>3 DEF TokenExpires
    <2>2. \A k \in DtokenRow :
            /\ Old(k) \in DtokenRow /\ Old(k).jti = k.jti
            /\ Old(k).asked = k.asked /\ Old(k).scope = k.scope
        BY DEF DtokenRow
    <2> HIDE DEF Old
    <2>3. TokensKnown'
        BY <1>0, <2>1, <2>2 DEF TokensKnown
    <2>4. ScopeOnlyNarrows'
        BY <1>0, <2>1, <2>2 DEF TokensKnown, ScopeOnlyNarrows
    <2> QED
        BY <1>0, <2>1, <2>3, <2>4 DEF TokensInv, ReplayTable
<1>4. ASSUME NEW j \in DJti, NEW byId, NEW t, NEW a, ConsumeToken(j, byId, t, a)
      PROVE  TokensInv'
    <2>1. stored[j] # "used" /\ dtoken' = dtoken
          /\ stored' = [stored EXCEPT ![j] = IF @ = "absent" THEN @ ELSE "used"]
          /\ accepted' = [accepted EXCEPT ![j] =
                            IF stored[j] = "absent" \/ @ = 2 THEN @ ELSE @ + 1]
        BY <1>4 DEF ConsumeToken, TokenHolds
    <2>2. accepted[j] = 0
        BY <1>0, <2>1 DEF ReplayTable
    <2>3. ReplayTable'
        BY <1>0, <2>1, <2>2 DEF ReplayTable
    <2> QED
        BY <1>0, <2>1, <2>3 DEF TokensInv, TokensKnown, ScopeOnlyNarrows
<1> QED
    BY <1>1, <1>2, <1>3, <1>4, Mint_Inv DEF TokensNext

-----------------------------------------------------------------------------
(* The checkpoints of the security harness. *)

HarnessRow == [phase : {"absent", "ready", "running", "over"},
               assignee : HAgent \cup {"-"}, locked : BOOLEAN,
               by : Callers \cup {"-", "dispatcher"}, of : HAgent \cup {"-"},
               token : BOOLEAN]

Hop == {"delegate", "claim"}

(* Besides the properties: a task without a row has no claim.                *)
NoRowNoClaim == \A t \in HTask : ~Exists(t) => htask[t].by = "-" /\ ~htask[t].locked

HarnessInv ==
    /\ htask \in [HTask -> HarnessRow]
    /\ chain \in [HTask -> Nat \cup {NoChain}]
    /\ hops \in [HTask -> Seq(Hop)]
    /\ NoRowNoClaim /\ DepthCountsHops /\ EnforceHolds /\ ClaimsOnRecord

LEMMA HarnessInit_Inv == HarnessInit => HarnessInv
<1> SUFFICES ASSUME HarnessInit PROVE HarnessInv
    OBVIOUS
<1>1. NoTaskRow \in HarnessRow /\ NoTaskRow.by = "-" /\ NoTaskRow.locked = FALSE
    BY DEF NoTaskRow, HarnessRow
<1>2. hops \in [HTask -> Seq(Hop)]
    BY DEF HarnessInit
<1>3. /\ htask \in [HTask -> HarnessRow]
      /\ \A t \in HTask : htask[t].by = "-" /\ ~htask[t].locked
    BY <1>1 DEF HarnessInit
<1>4. chain \in [HTask -> Nat \cup {NoChain}] /\ DepthCountsHops
    BY DEF HarnessInit, DepthCountsHops
<1>5. EnforceHolds /\ ClaimsOnRecord /\ NoRowNoClaim
    BY <1>3, HarnessAssumption DEF EnforceHolds, ClaimsOnRecord, NoRowNoClaim, Callers
<1> QED
    BY <1>2, <1>3, <1>4, <1>5 DEF HarnessInv

(* What the steps do to the trail. *)
OnTrail(t) == \E i \in DOMAIN hops[t] : hops[t][i] = "claim"

LEMMA AppendedHop ==
    ASSUME NEW h \in Seq(Hop), NEW x \in Hop
    PROVE  /\ Append(h, x) \in Seq(Hop) /\ Len(Append(h, x)) = Len(h) + 1
           /\ Append(h, x)[Len(h) + 1] = x
           /\ Len(h) + 1 \in DOMAIN Append(h, x)
           /\ \A i \in DOMAIN h : i \in DOMAIN Append(h, x) /\ Append(h, x)[i] = h[i]
OBVIOUS

LEMMA TrailKept ==
    ASSUME HarnessInv, NEW t \in HTask,
           \/ UNCHANGED trailVars
           \/ RecordHop(t, "claim")
           \/ \E a : ProvenanceOfCreate(t, a)
    PROVE  /\ chain' \in [HTask -> Nat \cup {NoChain}]
           /\ hops' \in [HTask -> Seq(Hop)]
           /\ DepthCountsHops'
           /\ \A u \in HTask : OnTrail(u) => OnTrail(u)'
           /\ RecordHop(t, "claim") => OnTrail(t)'
<1> DEFINE Kept == /\ chain' \in [HTask -> Nat \cup {NoChain}]
                   /\ hops' \in [HTask -> Seq(Hop)]
                   /\ DepthCountsHops'
                   /\ \A u \in HTask : OnTrail(u) => OnTrail(u)'
<1>0. /\ chain \in [HTask -> Nat \cup {NoChain}] /\ DepthCountsHops
      /\ hops \in [HTask -> Seq(Hop)] /\ hops[t] \in Seq(Hop)
    BY DEF HarnessInv
<1>1. ASSUME UNCHANGED trailVars PROVE Kept
    BY <1>0, <1>1 DEF trailVars, DepthCountsHops, OnTrail
<1>2. ASSUME NEW x \in Hop, hops' = [hops EXCEPT ![t] = Append(hops[t], x)],
             \/ chain' = [chain EXCEPT ![t] = Len(hops[t]) + 1]
             \/ chain[t] = NoChain /\ chain' = chain
      PROVE  Kept /\ (x = "claim" => OnTrail(t)')
    <2> DEFINE new == Append(hops[t], x)
    <2>1. /\ new \in Seq(Hop) /\ Len(new) = Len(hops[t]) + 1
          /\ new[Len(hops[t]) + 1] = x /\ Len(hops[t]) + 1 \in DOMAIN new
          /\ \A i \in DOMAIN hops[t] : i \in DOMAIN new /\ new[i] = hops[t][i]
        BY <1>0, AppendedHop
    <2>2. Len(new) \in Nat /\ Len(hops[t]) + 1 = Len(new)
        BY <2>1
    <2> HIDE DEF new
    <2>3. hops' = [hops EXCEPT ![t] = new]
        BY <1>2 DEF new
    <2>4. chain' = [chain EXCEPT ![t] = Len(new)] \/ (chain[t] = NoChain /\ chain' = chain)
        BY <1>2, <2>2
    <2>5. /\ chain' \in [HTask -> Nat \cup {NoChain}]
          /\ hops' \in [HTask -> Seq(Hop)] /\ DepthCountsHops'
        BY <1>0, <2>1, <2>2, <2>3, <2>4 DEF DepthCountsHops
    <2>6. hops'[t] = new /\ \A u \in HTask \ {t} : hops'[u] = hops[u]
        BY <1>0, <2>3
    <2>7. \A u \in HTask : OnTrail(u) => OnTrail(u)'
        <3> SUFFICES ASSUME NEW u \in HTask, OnTrail(u) PROVE OnTrail(u)'
            OBVIOUS
        <3>1. CASE u = t
            BY <2>1, <2>6, <3>1 DEF OnTrail
        <3>2. CASE u # t
            BY <2>6, <3>2 DEF OnTrail
        <3> QED
            BY <3>1, <3>2
    <2>8. x = "claim" => OnTrail(t)'
        BY <2>1, <2>6 DEF OnTrail
    <2> QED
        BY <2>5, <2>7, <2>8
<1>3. ASSUME RecordHop(t, "claim") PROVE Kept /\ OnTrail(t)'
    <2>1. hops' = [hops EXCEPT ![t] = Append(hops[t], "claim")]
        BY <1>0, <1>3 DEF RecordHop
    <2>2. chain' = [chain EXCEPT ![t] = IF chain[t] = NoChain THEN chain[t]
                                        ELSE Len(hops[t]) + 1]
        BY <1>3 DEF RecordHop
    <2>3. \/ chain' = [chain EXCEPT ![t] = Len(hops[t]) + 1]
          \/ chain[t] = NoChain /\ chain' = chain
        <3>1. CASE chain[t] = NoChain
            BY <1>0, <2>2, <3>1
        <3>2. CASE chain[t] # NoChain
            BY <2>2, <3>2
        <3> QED
            BY <3>1, <3>2
    <2>4. "claim" \in Hop
        BY DEF Hop
    <2> HIDE DEF Kept
    <2> QED
        BY <1>2, <2>1, <2>3, <2>4
<1>4. ASSUME NEW a, ProvenanceOfCreate(t, a) PROVE Kept
    <2>1. CASE a = "-"
        <3>1. hops' = [hops EXCEPT ![t] = hops[t]] /\ chain' = [chain EXCEPT ![t] = Len(hops[t])]
            BY <1>4, <2>1 DEF ProvenanceOfCreate
        <3>2. hops' = hops /\ Len(hops[t]) \in Nat
            BY <1>0, <3>1
        <3> QED
            BY <1>0, <3>1, <3>2 DEF DepthCountsHops, OnTrail
    <2>2. CASE a # "-"
        <3>1. /\ hops' = [hops EXCEPT ![t] = Append(hops[t], "delegate")]
              /\ chain' = [chain EXCEPT ![t] = Len(Append(hops[t], "delegate"))]
            BY <1>4, <2>2 DEF ProvenanceOfCreate
        <3>2. "delegate" \in Hop
            BY DEF Hop
        <3>3. Len(Append(hops[t], "delegate")) = Len(hops[t]) + 1
            BY <1>0, <3>2, AppendedHop
        <3> HIDE DEF Kept
        <3> QED
            BY <1>2, <3>1, <3>2, <3>3
    <2> QED
        BY <2>1, <2>2
<1> QED
    BY <1>1, <1>3, <1>4

(* A step that writes one row, and no claim through the route but one that   *)
(* passed the checkpoint and is on record.                                   *)
LEMMA RowWritten ==
    ASSUME HarnessInv, NEW t \in HTask,
           htask' \in [HTask -> HarnessRow],
           \A u \in HTask \ {t} : htask'[u] = htask[u],
           UNCHANGED <<mode, policy>>, events \subseteq events',
           \/ UNCHANGED trailVars
           \/ RecordHop(t, "claim")
           \/ \E a : ProvenanceOfCreate(t, a),
           \/ htask'[t].phase # "absent"
           \/ htask'[t] = htask[t],
           htask'[t].locked => htask'[t].by \in Callers \cup {"dispatcher"},
           htask'[t].by \in Callers =>
              \/ /\ htask'[t].by = htask[t].by /\ htask'[t].of = htask[t].of
                 /\ htask'[t].token = htask[t].token
              \/ /\ [actor |-> htask'[t].by, task |-> t] \in events'
                 /\ RecordHop(t, "claim")
                 /\ mode = "enforce" =>
                      /\ htask'[t].by = htask'[t].of
                      /\ policy = "restricted" => htask'[t].token
    PROVE  HarnessInv'
<1>0. NoRowNoClaim /\ EnforceHolds /\ ClaimsOnRecord
    BY DEF HarnessInv
<1>1. /\ chain' \in [HTask -> Nat \cup {NoChain}] /\ hops' \in [HTask -> Seq(Hop)]
      /\ DepthCountsHops'
      /\ \A u \in HTask : OnTrail(u) => OnTrail(u)'
      /\ RecordHop(t, "claim") => OnTrail(t)'
    BY TrailKept
<1>2. NoRowNoClaim'
    BY <1>0 DEF NoRowNoClaim, Exists
<1>3. EnforceHolds'
    BY <1>0 DEF EnforceHolds
<1>4. ClaimsOnRecord'
    <2> SUFFICES ASSUME NEW u \in HTask
                 PROVE  /\ htask'[u].locked => htask'[u].by \in Callers \cup {"dispatcher"}
                        /\ htask'[u].by \in Callers =>
                             [actor |-> htask'[u].by, task |-> u] \in events' /\ OnTrail(u)'
        BY DEF ClaimsOnRecord, OnTrail
    <2>1. htask[u].by \in Callers =>
            [actor |-> htask[u].by, task |-> u] \in events' /\ OnTrail(u)'
        BY <1>0, <1>1 DEF ClaimsOnRecord, OnTrail
    <2>2. CASE u = t
        BY <1>1, <2>1, <2>2
    <2>3. CASE u # t
        BY <1>0, <2>1, <2>3 DEF ClaimsOnRecord
    <2> QED
        BY <2>2, <2>3
<1> QED
    BY <1>1, <1>2, <1>3, <1>4 DEF HarnessInv

(* The rows that the steps write. *)
ClaimedRow(r, c, a, tok) ==
    [r EXCEPT !.phase = "running", !.locked = TRUE, !.by = c, !.of = a, !.token = tok]
ReleasedRow(r, p) == [r EXCEPT !.phase = p, !.locked = FALSE]
PatchedRow(r, p) ==
    [r EXCEPT !.phase = p, !.locked = FALSE, !.by = "-", !.of = "-", !.token = FALSE]
AssignedRow(r, a) == [r EXCEPT !.assignee = a]
CreatedRow(r, a) == [r EXCEPT !.phase = "ready", !.assignee = a]

LEMMA RowClaimed ==
    ASSUME NEW r \in HarnessRow, NEW c \in Callers,
           NEW a \in HAgent \cup {"-"}, NEW tok \in BOOLEAN
    PROVE  /\ ClaimedRow(r, c, a, tok) \in HarnessRow
           /\ ClaimedRow(r, c, a, tok).phase = "running"
           /\ ClaimedRow(r, c, a, tok).by = c
           /\ ClaimedRow(r, c, a, tok).of = a
           /\ ClaimedRow(r, c, a, tok).token = tok
BY DEF HarnessRow, ClaimedRow

LEMMA RowDispatched ==
    ASSUME NEW r \in HarnessRow, NEW a \in HAgent \cup {"-"}
    PROVE  /\ ClaimedRow(r, "dispatcher", a, FALSE) \in HarnessRow
           /\ ClaimedRow(r, "dispatcher", a, FALSE).phase = "running"
           /\ ClaimedRow(r, "dispatcher", a, FALSE).by = "dispatcher"
BY DEF HarnessRow, ClaimedRow

LEMMA RowReleased ==
    ASSUME NEW r \in HarnessRow, NEW p \in {"ready", "running", "over"}
    PROVE  /\ ReleasedRow(r, p) \in HarnessRow
           /\ ReleasedRow(r, p).phase = p /\ ReleasedRow(r, p).locked = FALSE
           /\ ReleasedRow(r, p).by = r.by /\ ReleasedRow(r, p).of = r.of
           /\ ReleasedRow(r, p).token = r.token
BY DEF HarnessRow, ReleasedRow

LEMMA RowPatched ==
    ASSUME NEW r \in HarnessRow, NEW p \in {"ready", "running", "over"}
    PROVE  /\ PatchedRow(r, p) \in HarnessRow
           /\ PatchedRow(r, p).phase = p /\ PatchedRow(r, p).locked = FALSE
           /\ PatchedRow(r, p).by = "-"
BY DEF HarnessRow, PatchedRow

LEMMA RowAssigned ==
    ASSUME NEW r \in HarnessRow, NEW a \in HAgent \cup {"-"}
    PROVE  /\ AssignedRow(r, a) \in HarnessRow
           /\ AssignedRow(r, a).phase = r.phase /\ AssignedRow(r, a).locked = r.locked
           /\ AssignedRow(r, a).by = r.by /\ AssignedRow(r, a).of = r.of
           /\ AssignedRow(r, a).token = r.token
BY DEF HarnessRow, AssignedRow

LEMMA RowCreated ==
    ASSUME NEW r \in HarnessRow, NEW a \in HAgent \cup {"-"}
    PROVE  /\ CreatedRow(r, a) \in HarnessRow /\ CreatedRow(r, a).phase = "ready"
           /\ CreatedRow(r, a).locked = r.locked /\ CreatedRow(r, a).by = r.by
BY DEF HarnessRow, CreatedRow

LEMMA HarnessStep_Inv == HarnessInv /\ [HarnessNext]_harnessVars => HarnessInv'
<1> SUFFICES ASSUME HarnessInv, [HarnessNext]_harnessVars PROVE HarnessInv'
    OBVIOUS
<1>0. /\ htask \in [HTask -> HarnessRow] /\ NoRowNoClaim /\ EnforceHolds /\ ClaimsOnRecord
      /\ "-" \notin Callers /\ "dispatcher" \notin Callers
    BY HarnessAssumption DEF HarnessInv, Callers
<1>1. CASE UNCHANGED harnessVars
    BY <1>1 DEF harnessVars, HarnessInv, Exists, DepthCountsHops, EnforceHolds,
                ClaimsOnRecord, NoRowNoClaim
<1>2. ASSUME NEW t \in HTask, NEW a \in HAgent \cup {"-"}, ~Exists(t),
             htask' = [htask EXCEPT ![t] = [@ EXCEPT !.phase = "ready", !.assignee = a]],
             UNCHANGED <<mode, policy, events>>,
             UNCHANGED trailVars \/ ProvenanceOfCreate(t, a)
      PROVE  HarnessInv'
    <2>1. /\ htask' \in [HTask -> HarnessRow]
          /\ htask'[t].phase = "ready" /\ htask'[t].by = htask[t].by
          /\ htask'[t].locked = htask[t].locked
          /\ \A u \in HTask \ {t} : htask'[u] = htask[u]
        <3>1. htask' = [htask EXCEPT ![t] = CreatedRow(htask[t], a)]
            BY <1>2 DEF CreatedRow
        <3> QED
            BY <1>0, <3>1, RowCreated
    <2>2. htask[t].by = "-" /\ ~htask[t].locked
        BY <1>0, <1>2 DEF NoRowNoClaim
    <2> QED
        BY <1>0, <1>2, <2>1, <2>2, RowWritten
<1>3. ASSUME NEW c \in Callers, NEW t \in HTask, NEW a \in HAgent \cup {"-"},
             NEW w \in BOOLEAN, CreateTask(c, a, w, t)
      PROVE  HarnessInv'
    BY <1>2, <1>3 DEF CreateTask
<1>4. ASSUME NEW a \in HAgent, NEW t \in HTask, CreateInternal(a, t)
      PROVE  HarnessInv'
    BY <1>2, <1>4 DEF CreateInternal
<1>5. ASSUME NEW c \in Callers, NEW t \in HTask, NEW given \in BOOLEAN,
             NEW holds \in BOOLEAN, ClaimTask(c, t, given, holds)
      PROVE  HarnessInv'
    <2> DEFINE failed == ClaimFails(c, t, given, holds)
    <2>1. /\ UNCHANGED <<mode, policy>> /\ events \subseteq events'
          /\ UNCHANGED trailVars \/ RecordHop(t, "claim")
        BY <1>5 DEF ClaimTask, RecordClaim
    <2>2. CASE htask' = htask
        BY <1>0, <2>1, <2>2, RowWritten DEF ClaimsOnRecord
    <2>3. CASE /\ Passes(failed) /\ RecordHop(t, "claim")
               /\ htask' = Claimed(t, c, given /\ holds)
        <3> DEFINE tok == given /\ holds
        <3>0. tok \in BOOLEAN
            OBVIOUS
        <3>1. tok = TRUE <=> given /\ holds
            OBVIOUS
        <3> HIDE DEF tok
        <3>2. htask' = [htask EXCEPT ![t] = ClaimedRow(htask[t], c, htask[t].assignee, tok)]
            BY <2>3 DEF tok, Claimed, ClaimedRow
        <3>7. htask[t].assignee \in HAgent \cup {"-"}
            BY <1>0 DEF HarnessRow
        <3>3. /\ htask' \in [HTask -> HarnessRow]
              /\ htask'[t].by = c /\ htask'[t].phase = "running"
              /\ htask'[t].of = htask[t].assignee /\ htask'[t].token = tok
              /\ \A u \in HTask \ {t} : htask'[u] = htask[u]
            BY <1>0, <3>0, <3>2, <3>7, RowClaimed
        <3>4. [actor |-> c, task |-> t] \in events'
            BY <1>5, <2>3 DEF ClaimTask, RecordClaim
        <3>5. mode = "enforce" =>
                c = htask[t].assignee /\ (policy = "restricted" => given /\ holds)
            BY <2>3 DEF Passes, ClaimFails
        <3>6. mode = "enforce" => /\ htask'[t].by = htask'[t].of
                                  /\ policy = "restricted" => htask'[t].token
            BY <3>1, <3>3, <3>5
        <3> QED
            BY <2>1, <2>3, <3>3, <3>4, <3>6, RowWritten
    <2> QED
        BY <1>5, <2>2, <2>3 DEF ClaimTask
<1>6. ASSUME NEW t \in HTask, DispatcherClaim(t) PROVE HarnessInv'
    <2>1. /\ htask' = Claimed(t, "dispatcher", FALSE) /\ htask[t].phase = "ready"
          /\ UNCHANGED <<mode, policy, trailVars, events>>
        BY <1>6 DEF DispatcherClaim
    <2>2. /\ htask' \in [HTask -> HarnessRow]
          /\ htask'[t].by = "dispatcher" /\ htask'[t].phase = "running"
          /\ \A u \in HTask \ {t} : htask'[u] = htask[u]
        <3>1. htask[t].assignee \in HAgent \cup {"-"}
            BY <1>0 DEF HarnessRow
        <3>2. htask' = [htask EXCEPT ![t] =
                            ClaimedRow(htask[t], "dispatcher", htask[t].assignee, FALSE)]
            BY <2>1 DEF Claimed, ClaimedRow
        <3> DEFINE new == ClaimedRow(htask[t], "dispatcher", htask[t].assignee, FALSE)
        <3>3. new \in HarnessRow /\ new.by = "dispatcher" /\ new.phase = "running"
            <4>1. htask[t] \in HarnessRow
                BY <1>0
            <4> QED
                BY <3>1, <4>1, RowDispatched, Zenon
        <3> HIDE DEF new
        <3>4. htask' = [htask EXCEPT ![t] = new]
            BY <3>2 DEF new
        <3> QED
            BY <1>0, <3>3, <3>4
    <2> QED
        BY <1>0, <2>1, <2>2, RowWritten
<1>7. ASSUME NEW t \in HTask, NEW p \in {"ready", "over"}, Exists(t),
             htask' = [htask EXCEPT ![t] = [@ EXCEPT !.phase = p, !.locked = FALSE]],
             UNCHANGED <<mode, policy, events, trailVars>>
      PROVE  HarnessInv'
    <2>1. /\ htask' \in [HTask -> HarnessRow]
          /\ htask'[t].phase = p /\ htask'[t].locked = FALSE
          /\ htask'[t].by = htask[t].by /\ htask'[t].of = htask[t].of
          /\ htask'[t].token = htask[t].token
          /\ \A u \in HTask \ {t} : htask'[u] = htask[u]
        <3>1. htask' = [htask EXCEPT ![t] = ReleasedRow(htask[t], p)]
            BY <1>7 DEF ReleasedRow
        <3> DEFINE new == ReleasedRow(htask[t], p)
        <3>2. /\ new \in HarnessRow /\ new.phase = p /\ new.locked = FALSE
              /\ new.by = htask[t].by /\ new.of = htask[t].of
              /\ new.token = htask[t].token
            <4>1. htask[t] \in HarnessRow /\ p \in {"ready", "running", "over"}
                BY <1>0
            <4> QED
                BY <4>1, RowReleased, Zenon
        <3> HIDE DEF new
        <3>3. htask' = [htask EXCEPT ![t] = new]
            BY <3>1 DEF new
        <3> QED
            BY <1>0, <3>2, <3>3
    <2> QED
        BY <1>7, <2>1, RowWritten
<1>8. ASSUME NEW t \in HTask, NEW h \in BOOLEAN, NEW s \in BOOLEAN, CompleteTask(t, h, s)
      PROVE  HarnessInv'
    BY <1>7, <1>8 DEF CompleteTask, Exists
<1>9. ASSUME NEW t \in HTask, NEW p \in {"ready", "over"}, ReleaseClaim(t, p)
      PROVE  HarnessInv'
    BY <1>7, <1>9 DEF ReleaseClaim, Exists
<1>10. ASSUME NEW t \in HTask, NEW p \in {"ready", "running", "over"}, PatchStatus(t, p)
       PROVE  HarnessInv'
    <2>1. /\ htask' = [htask EXCEPT ![t] = [@ EXCEPT !.phase = p, !.locked = FALSE,
                                               !.by = "-", !.of = "-", !.token = FALSE]]
          /\ UNCHANGED <<mode, policy, trailVars, events>>
        BY <1>10 DEF PatchStatus
    <2>2. /\ htask' \in [HTask -> HarnessRow]
          /\ htask'[t].phase = p /\ htask'[t].locked = FALSE /\ htask'[t].by = "-"
          /\ \A u \in HTask \ {t} : htask'[u] = htask[u]
        <3>1. htask' = [htask EXCEPT ![t] = PatchedRow(htask[t], p)]
            BY <2>1 DEF PatchedRow
        <3> QED
            BY <1>0, <3>1, RowPatched
    <2>3. /\ htask'[t].phase # "absent" /\ ~htask'[t].locked
          /\ htask'[t].by \notin Callers
        BY <1>0, <2>2
    <2>4. events \subseteq events'
        BY <2>1
    <2> QED
        BY <2>1, <2>2, <2>3, <2>4, RowWritten
<1>11. ASSUME NEW t \in HTask, NEW a \in HAgent \cup {"-"}, PatchAssignee(t, a)
       PROVE  HarnessInv'
    <2>1. /\ htask' = [htask EXCEPT ![t] = [@ EXCEPT !.assignee = a]] /\ Exists(t)
          /\ UNCHANGED <<mode, policy, trailVars, events>>
        BY <1>11 DEF PatchAssignee
    <2>2. /\ htask' \in [HTask -> HarnessRow]
          /\ htask'[t].phase = htask[t].phase /\ htask'[t].locked = htask[t].locked
          /\ htask'[t].by = htask[t].by /\ htask'[t].of = htask[t].of
          /\ htask'[t].token = htask[t].token
          /\ \A u \in HTask \ {t} : htask'[u] = htask[u]
        <3>1. htask' = [htask EXCEPT ![t] = AssignedRow(htask[t], a)]
            BY <2>1 DEF AssignedRow
        <3> QED
            BY <1>0, <3>1, RowAssigned
    <2>3. htask[t].locked => htask[t].by \in Callers \cup {"dispatcher"}
        BY <1>0 DEF ClaimsOnRecord
    <2> QED
        BY <2>1, <2>2, <2>3, RowWritten DEF Exists
<1>12. ASSUME NEW a \in HAgent, NEW on \in BOOLEAN, SetCard(a, on) PROVE HarnessInv'
    BY <1>12 DEF SetCard, trailVars, HarnessInv, Exists, DepthCountsHops,
                 EnforceHolds, ClaimsOnRecord, NoRowNoClaim
<1> QED
    BY <1>1, <1>3, <1>4, <1>5, <1>6, <1>8, <1>9, <1>10, <1>11, <1>12 DEF HarnessNext

(* A token stays within the scope its hop names, a stored token is consumed   *)
(* once, the depth of a chain is the number of its hops, a lock has a claim,  *)
(* and a claim through the route was checked and is on record                 *)
(* (security/dtm.py, ape.py, pt.py).                                          *)
THEOREM DelegationIsSound == Spec => []DelegationHolds
<1>1. TokensInit => TokensInv
    BY DEF TokensInit, TokensInv, TokensKnown, ReplayTable, ScopeOnlyNarrows
<1>2. Init => TokensInv /\ HarnessInv
    BY <1>1, HarnessInit_Inv DEF Init
<1>3. TokensInv /\ HarnessInv /\ [Next]_vars => TokensInv' /\ HarnessInv'
    BY ServiceStep, TokensStep_Inv, HarnessStep_Inv
<1>4. TokensInv => ConsumedOnce
    BY DEF TokensInv, ReplayTable, ConsumedOnce
<1>5. TokensInv /\ HarnessInv => DelegationHolds
    BY <1>4 DEF TokensInv, HarnessInv, DelegationHolds
<1> QED
    BY <1>2, <1>3, <1>5, PTL DEF Spec

-----------------------------------------------------------------------------
(* Workspaces of tasks. *)

SpacePath == {NoPath} \cup {Given(d) : d \in Dir}
                \cup {Scratch(t) : t \in WTask} \cup {Worktree(t) : t \in WTask}
SpaceRow == [phase : {"none", "ready", "running", "elsewhere", "ended", "archived", "shelved"},
             kind : {"scratch", "dir", "worktree", "other"},
             path : SpacePath, changed : BOOLEAN]

(* A directory made for a task is the one its row names, and a task of kind  *)
(* dir names no other than a given one; then what the properties say of it.  *)
InSpace(t) ==
    /\ wtask[t].phase = "none" => wtask[t].path = NoPath
    /\ Scratch(t) \in disk => wtask[t].kind = "scratch" /\ wtask[t].path = Scratch(t)
    /\ Worktree(t) \in disk => wtask[t].kind = "worktree" /\ wtask[t].path = Worktree(t)
    /\ wtask[t].path \in {NoPath, Scratch(t), Worktree(t)} \cup {Given(d) : d \in Dir}
    /\ wtask[t].kind = "dir" => wtask[t].path \in {NoPath} \cup {Given(d) : d \in Dir}
    /\ wtask[t].phase = "running" =>
        \/ wtask[t].kind = "dir" /\ wtask[t].path \in {Given(d) : d \in Dir}
        \/ wtask[t].kind = "scratch" /\ wtask[t].path = Scratch(t) /\ Scratch(t) \in disk
        \/ wtask[t].kind = "worktree" /\ wtask[t].path = Worktree(t) /\ Worktree(t) \in disk
    /\ wtask[t].phase = "archived" =>
        Scratch(t) \notin disk /\ (Worktree(t) \in disk => wtask[t].changed)

SpaceInv ==
    /\ wtask \in [WTask -> SpaceRow] /\ NoPath \notin disk
    /\ \A t \in WTask : InSpace(t)

LEMMA PathsDiffer ==
    /\ \A t : /\ Scratch(t) # NoPath /\ Worktree(t) # NoPath
              /\ \A d : Given(d) # Scratch(t) /\ Given(d) # Worktree(t) /\ Given(d) # NoPath
              /\ \A u : Scratch(t) # Worktree(u)
    /\ \A t, u : /\ Scratch(t) = Scratch(u) => t = u
                 /\ Worktree(t) = Worktree(u) => t = u
BY DEF Scratch, Worktree, Given, NoPath

LEMMA SpaceInvImplies == SpaceInv => RunsInItsSpace /\ ArchiveLeavesNothing
BY DEF SpaceInv, InSpace, RunsInItsSpace, ArchiveLeavesNothing, Scratch, Worktree

LEMMA SpaceInit_Inv == SpaceInit => SpaceInv
<1> SUFFICES ASSUME SpaceInit PROVE SpaceInv
    OBVIOUS
<1>1. NewTask \in SpaceRow /\ NewTask.phase = "none" /\ NewTask.path = NoPath
      /\ NewTask.kind = "scratch"
    BY DEF NewTask, SpaceRow, SpacePath
<1>2. wtask \in [WTask -> SpaceRow] /\ \A t \in WTask : wtask[t] = NewTask
    BY <1>1 DEF SpaceInit
<1>3. \A t : Scratch(t) \notin disk /\ Worktree(t) \notin disk
    BY PathsDiffer DEF SpaceInit
<1>4. NoPath \notin disk
    BY PathsDiffer DEF SpaceInit
<1> QED
    BY <1>1, <1>2, <1>3, <1>4 DEF SpaceInv, InSpace

(* A step about one task leaves the directories of the others alone.         *)
LEMMA OneTask ==
    ASSUME SpaceInv, NEW t \in WTask, wtask' \in [WTask -> SpaceRow],
           NoPath \notin disk',
           \A u \in WTask \ {t} :
                /\ wtask'[u] = wtask[u]
                /\ Scratch(u) \in disk' <=> Scratch(u) \in disk
                /\ Worktree(u) \in disk' <=> Worktree(u) \in disk,
           InSpace(t)'
    PROVE  SpaceInv'
<1>1. ASSUME NEW u \in WTask, u # t PROVE InSpace(u)'
    BY <1>1 DEF SpaceInv, InSpace
<1> QED
    BY <1>1 DEF SpaceInv

LEMMA Started_Row ==
    ASSUME wtask \in [WTask -> SpaceRow], NEW t \in WTask, NEW p \in SpacePath,
           Started(t, p)
    PROVE  /\ wtask' \in [WTask -> SpaceRow]
           /\ \A u \in WTask \ {t} : wtask'[u] = wtask[u]
           /\ wtask'[t].phase = "running" /\ wtask'[t].path = p
           /\ wtask'[t].kind = wtask[t].kind
BY DEF Started, SpaceRow

LEMMA Created_Row ==
    ASSUME wtask \in [WTask -> SpaceRow], NEW t \in WTask, NEW p \in SpacePath,
           NEW k \in {"scratch", "dir", "worktree", "other"},
           wtask' = [wtask EXCEPT ![t].phase = "ready", ![t].kind = k, ![t].path = p]
    PROVE  /\ wtask' \in [WTask -> SpaceRow]
           /\ \A u \in WTask \ {t} : wtask'[u] = wtask[u]
           /\ wtask'[t].phase = "ready" /\ wtask'[t].path = p /\ wtask'[t].kind = k
<1>1. [wtask[t] EXCEPT !.phase = "ready", !.kind = k, !.path = p] \in SpaceRow
    BY DEF SpaceRow
<1>2. wtask' = [wtask EXCEPT ![t] = [wtask[t] EXCEPT !.phase = "ready", !.kind = k,
                                                    !.path = p]]
    OBVIOUS
<1>3. wtask'[t] = [wtask[t] EXCEPT !.phase = "ready", !.kind = k, !.path = p]
    BY <1>2
<1>4. wtask[t] \in SpaceRow
    OBVIOUS
<1> QED
    BY <1>1, <1>2, <1>3, <1>4 DEF SpaceRow

LEMMA Moved_Row ==
    ASSUME wtask \in [WTask -> SpaceRow], NEW t \in WTask,
           NEW ph \in {"ready", "elsewhere", "ended", "archived", "shelved"},
           wtask' = [wtask EXCEPT ![t].phase = ph]
    PROVE  /\ wtask' \in [WTask -> SpaceRow]
           /\ \A u \in WTask \ {t} : wtask'[u] = wtask[u]
           /\ wtask'[t].phase = ph /\ wtask'[t].path = wtask[t].path
           /\ wtask'[t].kind = wtask[t].kind /\ wtask'[t].changed = wtask[t].changed
BY DEF SpaceRow

LEMMA Rejected_Inv ==
    ASSUME SpaceInv, NEW t \in WTask, Rejected(t), disk' = disk
    PROVE  SpaceInv'
<1>1. /\ wtask' \in [WTask -> SpaceRow]
      /\ \A u \in WTask \ {t} : wtask'[u] = wtask[u]
      /\ wtask'[t].phase = "ended" /\ wtask'[t].path = wtask[t].path
      /\ wtask'[t].kind = wtask[t].kind /\ wtask'[t].changed = wtask[t].changed
    BY Moved_Row DEF SpaceInv, Rejected
<1>2. InSpace(t)'
    BY <1>1 DEF SpaceInv, InSpace
<1> QED
    BY <1>1, <1>2, OneTask DEF SpaceInv

LEMMA SpaceStep_Inv == SpaceInv /\ [SpaceNext]_spaceVars => SpaceInv'
<1> SUFFICES ASSUME SpaceInv, [SpaceNext]_spaceVars PROVE SpaceInv'
    OBVIOUS
<1>0. wtask \in [WTask -> SpaceRow] /\ NoPath \notin disk /\ \A t \in WTask : InSpace(t)
    BY DEF SpaceInv
<1> USE PathsDiffer
<1>1. CASE UNCHANGED spaceVars
    BY <1>0, <1>1 DEF spaceVars, SpaceInv, InSpace
<1>2. ASSUME NEW t \in WTask, NEW k \in {"scratch", "dir", "worktree", "other"},
             NEW p \in {NoPath} \cup {Given(d) : d \in Dir}, CreateWithSpace(t, k, p)
      PROVE  SpaceInv'
    <2>1. /\ wtask' \in [WTask -> SpaceRow] /\ disk' = disk
          /\ \A u \in WTask \ {t} : wtask'[u] = wtask[u]
          /\ wtask'[t].phase = "ready" /\ wtask'[t].path = p /\ wtask'[t].kind = k
        BY <1>0, <1>2, Created_Row DEF CreateWithSpace, SpacePath
    <2>2. Scratch(t) \notin disk /\ Worktree(t) \notin disk
        BY <1>0, <1>2 DEF CreateWithSpace, InSpace
    <2> QED
        BY <1>0, <2>1, <2>2, OneTask DEF InSpace
<1>3. ASSUME NEW t \in WTask, AllocateScratch(t) PROVE SpaceInv'
    <2>1. Scratch(t) \in SpacePath
        BY DEF SpacePath
    <2>2. /\ wtask' \in [WTask -> SpaceRow] /\ disk' = disk \cup {Scratch(t)}
          /\ \A u \in WTask \ {t} : wtask'[u] = wtask[u]
          /\ wtask'[t].phase = "running" /\ wtask'[t].path = Scratch(t)
          /\ wtask'[t].kind = "scratch" /\ wtask[t].kind = "scratch"
        BY <1>0, <1>3, <2>1, Started_Row DEF AllocateScratch
    <2>3. InSpace(t)'
        BY <1>0, <2>2 DEF InSpace
    <2> QED
        BY <1>0, <2>2, <2>3, OneTask
<1>4. ASSUME NEW t \in WTask, AllocateDir(t) PROVE SpaceInv'
    <2>1. CASE Rejected(t) /\ disk' = disk
        BY <2>1, Rejected_Inv
    <2>2. CASE wtask[t].kind = "dir" /\ wtask[t].path \in disk /\ Started(t, wtask[t].path)
               /\ disk' = disk
        <3>1. wtask[t].path \in SpacePath /\ wtask[t].path \in {Given(d) : d \in Dir}
            BY <1>0, <2>2 DEF SpaceRow, InSpace
        <3>2. /\ wtask' \in [WTask -> SpaceRow]
              /\ \A u \in WTask \ {t} : wtask'[u] = wtask[u]
              /\ wtask'[t].phase = "running" /\ wtask'[t].path = wtask[t].path
              /\ wtask'[t].kind = "dir"
            BY <1>0, <2>2, <3>1, Started_Row
        <3>3. InSpace(t)'
            BY <1>0, <2>2, <3>1, <3>2 DEF InSpace
        <3> QED
            BY <1>0, <2>2, <3>2, <3>3, OneTask
    <2> QED
        BY <1>4, <2>1, <2>2 DEF AllocateDir
<1>5. ASSUME NEW t \in WTask, AllocateWorktree(t) PROVE SpaceInv'
    <2>1. CASE Rejected(t) /\ disk' = disk
        BY <2>1, Rejected_Inv
    <2>2. CASE disk' = disk \cup {Worktree(t)} /\ Started(t, Worktree(t))
        <3>1. Worktree(t) \in SpacePath /\ wtask[t].kind = "worktree"
            BY <1>5 DEF SpacePath, AllocateWorktree
        <3>2. /\ wtask' \in [WTask -> SpaceRow]
              /\ \A u \in WTask \ {t} : wtask'[u] = wtask[u]
              /\ wtask'[t].phase = "running" /\ wtask'[t].path = Worktree(t)
              /\ wtask'[t].kind = "worktree"
            BY <1>0, <2>2, <3>1, Started_Row
        <3>3. InSpace(t)'
            BY <1>0, <2>2, <3>1, <3>2 DEF InSpace
        <3> QED
            BY <1>0, <2>2, <3>2, <3>3, OneTask
    <2> QED
        BY <1>5, <2>1, <2>2 DEF AllocateWorktree
<1>6. ASSUME NEW t \in WTask, WriteFiles(t) PROVE SpaceInv'
    <2>1. /\ wtask' \in [WTask -> SpaceRow] /\ disk' = disk
          /\ \A u \in WTask \ {t} : wtask'[u] = wtask[u]
          /\ wtask'[t].phase = wtask[t].phase /\ wtask'[t].path = wtask[t].path
          /\ wtask'[t].kind = wtask[t].kind /\ wtask'[t].changed
        BY <1>0, <1>6 DEF WriteFiles, SpaceRow
    <2> QED
        BY <1>0, <2>1, OneTask DEF InSpace
<1>7. ASSUME NEW t \in WTask, NEW ph \in {"ready", "elsewhere", "ended", "shelved"},
             wtask[t].phase # "none",
             wtask' = [wtask EXCEPT ![t].phase = ph], disk' = disk
      PROVE  SpaceInv'
    <2>1. /\ wtask' \in [WTask -> SpaceRow]
          /\ \A u \in WTask \ {t} : wtask'[u] = wtask[u]
          /\ wtask'[t].phase = ph /\ wtask'[t].path = wtask[t].path
          /\ wtask'[t].kind = wtask[t].kind /\ wtask'[t].changed = wtask[t].changed
        BY <1>0, <1>7, Moved_Row
    <2>2. InSpace(t)'
        BY <1>0, <1>7, <2>1 DEF InSpace
    <2> QED
        BY <1>0, <1>7, <2>1, <2>2, OneTask
<1>9. ASSUME NEW t \in WTask,
             \/ EndWithSpace(t) \/ RetryWithSpace(t)
             \/ RunWithoutSpace(t) \/ ArchiveOnly(t)
      PROVE  SpaceInv'
    BY <1>7, <1>9 DEF EndWithSpace, RetryWithSpace, RunWithoutSpace, ArchiveOnly
<1>8. ASSUME NEW t \in WTask, ArchiveWithSpace(t) PROVE SpaceInv'
    <2>1. /\ wtask' \in [WTask -> SpaceRow]
          /\ \A u \in WTask \ {t} : wtask'[u] = wtask[u]
          /\ wtask'[t].phase = "archived" /\ wtask'[t].path = wtask[t].path
          /\ wtask'[t].kind = wtask[t].kind /\ wtask'[t].changed = wtask[t].changed
        BY <1>0, <1>8, Moved_Row DEF ArchiveWithSpace
    <2>2. Cleanup(t)
        BY <1>8 DEF ArchiveWithSpace
    <2>3. CASE wtask[t].path = NoPath
        BY <1>0, <2>1, <2>2, <2>3, OneTask DEF Cleanup, InSpace
    <2>4. CASE wtask[t].path # NoPath /\ wtask[t].kind = "scratch"
        <3>1. disk' = disk \ {wtask[t].path}
            BY <2>2, <2>4 DEF Cleanup
        <3>2. \A u \in WTask \ {t} : wtask[t].path # Scratch(u) /\ wtask[t].path # Worktree(u)
            BY <1>0, <2>4 DEF InSpace
        <3> QED
            BY <1>0, <2>1, <2>4, <3>1, <3>2, OneTask DEF InSpace
    <2>5. CASE wtask[t].path # NoPath /\ wtask[t].kind = "worktree" /\ ~wtask[t].changed
        <3>1. disk' = disk \ {Worktree(t)}
            BY <2>2, <2>5 DEF Cleanup
        <3> QED
            BY <1>0, <2>1, <2>5, <3>1, OneTask DEF InSpace
    <2>6. CASE wtask[t].path # NoPath /\ wtask[t].kind # "scratch"
               /\ ~(wtask[t].kind = "worktree" /\ ~wtask[t].changed)
        <3>1. disk' = disk
            BY <2>2, <2>6 DEF Cleanup
        <3> QED
            BY <1>0, <2>1, <2>6, <3>1, OneTask DEF InSpace
    <2> QED
        BY <2>3, <2>4, <2>5, <2>6
<1> QED
    BY <1>1, <1>2, <1>3, <1>4, <1>5, <1>6, <1>8, <1>9 DEF SpaceNext

-----------------------------------------------------------------------------
(* Blackboard and memory. *)

(* A reader was never ahead of the entry or of its deletions.                *)
BoardInv ==
    /\ entry \in [version : Nat, val : Val \cup {NoVal}] /\ lives \in Nat
    /\ read \in [Author -> [version : Nat, val : Val \cup {NoVal}, life : Nat]]
    /\ \A a \in Author : read[a].life <= lives
    /\ VersionNamesValue

LEMMA BoardInit_Inv == BoardInit => BoardInv
BY DEF BoardInit, BoardInv, NoEntry, VersionNamesValue

LEMMA BoardStep_Inv == BoardInv /\ [BoardNext]_boardVars => BoardInv'
<1> SUFFICES ASSUME BoardInv, [BoardNext]_boardVars PROVE BoardInv'
    OBVIOUS
<1>1. CASE UNCHANGED boardVars
    BY <1>1 DEF boardVars, BoardInv, VersionNamesValue
<1>2. ASSUME NEW a \in Author, ReadEntry(a) PROVE BoardInv'
    <2> DEFINE new == [version |-> entry.version, val |-> entry.val, life |-> lives]
    <2>1. /\ new \in [version : Nat, val : Val \cup {NoVal}, life : Nat]
          /\ new.version = entry.version /\ new.val = entry.val /\ new.life = lives
        BY DEF BoardInv
    <2> HIDE DEF new
    <2>2. read' = [read EXCEPT ![a] = new] /\ UNCHANGED <<entry, lives>>
        BY <1>2 DEF ReadEntry, new
    <2> QED
        BY <2>1, <2>2 DEF BoardInv, VersionNamesValue
<1>3. ASSUME NEW a \in Author, NEW v \in Val, NEW x, Write(a, v, x) PROVE BoardInv'
    <2>1. /\ entry' = [version |-> entry.version + 1, val |-> v]
          /\ UNCHANGED <<lives, read>>
        BY <1>3 DEF Write
    <2>2. entry' \in [version : Nat, val : Val \cup {NoVal}]
          /\ entry'.version = entry.version + 1
        BY <2>1 DEF BoardInv
    <2>3. \A b \in Author : read[b].life = lives => read[b].version < entry'.version
        BY <2>2 DEF BoardInv, VersionNamesValue
    <2> QED
        BY <2>1, <2>2, <2>3 DEF BoardInv, VersionNamesValue
<1>4. CASE DeleteEntry
    <2>1. entry' = NoEntry /\ lives' = lives + 1 /\ read' = read
        BY <1>4 DEF DeleteEntry
    <2>2. \A b \in Author : read[b].life < lives'
        BY <2>1 DEF BoardInv
    <2> QED
        BY <2>1, <2>2 DEF BoardInv, VersionNamesValue, NoEntry
<1> QED
    BY <1>1, <1>2, <1>3, <1>4 DEF BoardNext

(* A row is the last one written, or gone after its time was over.           *)
MemoryRow == [val : Content \cup {NoContent}, expires : Nat]

MemInv ==
    /\ memory \in [Caller -> [Slot -> MemoryRow]] /\ hour \in Nat /\ hour < Never
    /\ wrote \in [Caller -> [Slot -> MemoryRow]]
    /\ \A a \in Caller, s \in Slot :
        \/ memory[a][s] = wrote[a][s]
        \/ memory[a][s] = NoMemory /\ wrote[a][s].expires <= hour

LEMMA NoMemoryRow ==
    Never \in Nat /\ NoMemory \in MemoryRow
    /\ NoMemory.val = NoContent /\ NoMemory.expires = Never
BY MemoryAssumption DEF Never, NoMemory, MemoryRow

LEMMA MemInit_Inv == MemInit => MemInv
<1> SUFFICES ASSUME MemInit PROVE MemInv
    OBVIOUS
<1>1. hour \in Nat /\ hour < Never
    BY MemoryAssumption DEF MemInit, Never
<1>2. memory \in [Caller -> [Slot -> MemoryRow]] /\ wrote = memory
    BY NoMemoryRow DEF MemInit
<1> QED
    BY <1>1, <1>2 DEF MemInv

LEMMA SetRow_Inv ==
    ASSUME MemInv, NEW a \in Caller, NEW s \in Slot, NEW row \in MemoryRow,
           memory' = [memory EXCEPT ![a][s] = row],
           wrote' = [wrote EXCEPT ![a][s] = row], hour' = hour
    PROVE  MemInv'
<1>0. /\ memory \in [Caller -> [Slot -> MemoryRow]] /\ wrote \in [Caller -> [Slot -> MemoryRow]]
      /\ hour \in Nat /\ hour < Never
    BY DEF MemInv
<1>1. memory' \in [Caller -> [Slot -> MemoryRow]] /\ wrote' \in [Caller -> [Slot -> MemoryRow]]
    <2>1. \A m \in [Caller -> [Slot -> MemoryRow]] :
            [m EXCEPT ![a][s] = row] \in [Caller -> [Slot -> MemoryRow]]
        OBVIOUS
    <2> QED
        BY <1>0, <2>1
<1>2. \A b \in Caller, u \in Slot :
        IF b = a /\ u = s THEN memory'[b][u] = row /\ wrote'[b][u] = row
        ELSE memory'[b][u] = memory[b][u] /\ wrote'[b][u] = wrote[b][u]
    BY <1>0
<1>3. ASSUME NEW b \in Caller, NEW u \in Slot
      PROVE  \/ memory'[b][u] = wrote'[b][u]
             \/ memory'[b][u] = NoMemory /\ wrote'[b][u].expires <= hour'
    BY <1>2 DEF MemInv
<1>4. hour' \in Nat /\ hour' < Never
    BY <1>0
<1> QED
    BY <1>1, <1>3, <1>4 DEF MemInv

LEMMA MemStep_Inv == MemInv /\ [MemNext]_memVars => MemInv'
<1> SUFFICES ASSUME MemInv, [MemNext]_memVars PROVE MemInv'
    OBVIOUS
<1>1. CASE UNCHANGED memVars
    BY <1>1 DEF memVars, MemInv
<1>2. ASSUME NEW c, NEW a \in Caller, NEW s \in Slot, DeleteMemory(c, a, s)
      PROVE  MemInv'
    BY <1>2, NoMemoryRow, SetRow_Inv DEF DeleteMemory
<1>3. ASSUME NEW c, NEW a \in Caller, NEW s \in Slot, NEW v \in Content,
             NEW ttl \in 0..MaxLife, SetMemory(c, a, s, v, ttl)
      PROVE  MemInv'
    <2> DEFINE row == [val |-> v, expires |-> IF ttl > 0 THEN hour + ttl ELSE Never]
    <2>1. row \in MemoryRow
        BY NoMemoryRow, MemoryAssumption DEF MemInv, MemoryRow
    <2>2. /\ memory' = [memory EXCEPT ![a][s] = row]
          /\ wrote' = [wrote EXCEPT ![a][s] = row] /\ hour' = hour
        BY <1>3 DEF SetMemory
    <2> HIDE DEF row
    <2> QED
        BY <2>1, <2>2, SetRow_Inv
<1>4. CASE PurgeExpired
    <2>1. \A a \in Caller, s \in Slot :
            memory'[a][s] = IF memory[a][s].expires <= hour THEN NoMemory ELSE memory[a][s]
        BY <1>4 DEF PurgeExpired
    <2>2. memory' \in [Caller -> [Slot -> MemoryRow]]
        BY <1>4, NoMemoryRow DEF PurgeExpired, MemInv
    <2> QED
        BY <1>4, <2>1, <2>2 DEF PurgeExpired, MemInv
<1>5. CASE HourPasses
    <2>1. hour' \in Nat /\ hour' < Never /\ hour <= hour'
        BY <1>5, MemoryAssumption DEF HourPasses, MemInv, Never
    <2>2. \A a \in Caller, s \in Slot : wrote[a][s].expires \in Nat
        BY DEF MemInv, MemoryRow
    <2> QED
        BY <1>5, <2>1, <2>2 DEF HourPasses, MemInv
<1> QED
    BY <1>1, <1>2, <1>3, <1>4, <1>5 DEF MemNext

LEMMA MemInvImplies == MemInv => ReadsLastWrite
BY NoMemoryRow DEF MemInv, MemoryRow, ReadsLastWrite, Get

(* For any number of threads, tasks, authors and callers: a dispatched task   *)
(* runs in its own directory, DELETE leaves none of those the registry made   *)
(* but a changed worktree, a version of a blackboard entry names one          *)
(* value, and a read of the memory returns the last write that counts         *)
(* (workspace.py, blackboard_store.py, memory.py).                            *)
THEOREM SharedValuesAreKept ==
    Spec => [](/\ RunsInItsSpace /\ ArchiveLeavesNothing
               /\ VersionNamesValue /\ ReadsLastWrite)
<1>1. Init => SpaceInv /\ BoardInv /\ MemInv
    BY SpaceInit_Inv, BoardInit_Inv, MemInit_Inv DEF Init
<1>2. SpaceInv /\ BoardInv /\ MemInv /\ [Next]_vars => SpaceInv' /\ BoardInv' /\ MemInv'
    BY ServiceStep, SpaceStep_Inv, BoardStep_Inv, MemStep_Inv
<1>3. SpaceInv /\ BoardInv /\ MemInv
        => /\ RunsInItsSpace /\ ArchiveLeavesNothing
           /\ VersionNamesValue /\ ReadsLastWrite
    BY SpaceInvImplies, MemInvImplies DEF BoardInv
<1> QED
    BY <1>1, <1>2, <1>3, PTL DEF Spec

(* With the manager called from one thread, as the event loop does, the lock  *)
(* holders are members too (shared_workspace.py).                             *)
THEOREM SharedStateIsKept == ASSUME Threads = 1 PROVE Spec => []SharedStateKept
<1>1. Init => WsInv
    BY WsInit_Inv DEF Init
<1>2. WsInv /\ [Next]_vars => WsInv'
    BY ServiceStep, WsStep_Inv
<1>3. WsInv => HolderIsMember
    BY DEF WsInv
<1>4. RunsInItsSpace /\ ArchiveLeavesNothing /\ HolderIsMember
        /\ VersionNamesValue /\ ReadsLastWrite => SharedStateKept
    BY DEF SharedStateKept
<1> QED
    BY <1>1, <1>2, <1>3, <1>4, SharedValuesAreKept, PTL DEF Spec

-----------------------------------------------------------------------------
(* Cron jobs. *)

LEMMA LeastExists ==
    ASSUME NEW S, S \subseteq Nat, S # {}
    PROVE  \E x \in S : \A y \in S : x <= y
<1> DEFINE R == {e \in Nat \X Nat : e[1] < e[2]}
<1>1. IsWellFoundedOn(R, Nat)
    BY NatLessThanWellFounded DEF OpToRel
<1> HIDE DEF R
<1>2. PICK x \in S : \A y \in S : <<y, x>> \notin R
    BY <1>1, WFMin
<1>3. \A y \in S : ~(y < x)
    BY <1>2 DEF R
<1> QED
    BY <1>3

(* compute_next_run finds the first slot after a second. *)
LEMMA FirstSlot ==
    ASSUME NEW after \in Int, HasNext(after)
    PROVE  /\ ComputeNextRun(after) \in Slots
           /\ ComputeNextRun(after) \in Nat
           /\ ComputeNextRun(after) > after
           /\ \A s \in Slots : s > after => ComputeNextRun(after) <= s
<1> DEFINE S == {s \in Slots : s > after}
<1>1. S \subseteq Nat /\ S # {}
    BY CronAssumption DEF HasNext
<1>2. PICK x \in S : \A y \in S : x <= y
    BY <1>1, LeastExists
<1>3. x \in Slots /\ x > after /\ \A s \in Slots : s > after => x <= s
    BY <1>2
<1> QED
    BY <1>3, CronAssumption DEF ComputeNextRun

JobRow == [kind : {"none", "row", "deleted"}, enabled : BOOLEAN, next : Nat, born : Nat]
Firing == [job : Job, slot : Nat, at : Nat, done : BOOLEAN]

(* A slot is fired when its time has come.  Once it was, next_run is beyond  *)
(* it, except after the firings that SlotStays names.                        *)
CronInv ==
    /\ cronClock \in Nat /\ lastTick \in Nat /\ lastTick <= cronClock
    /\ job \in [Job -> JobRow]
    /\ made \subseteq Firing
    /\ \A m \in made : m.slot <= m.at /\ m.at <= lastTick /\ job[m.job].kind # "none"
    /\ \A m \in made : ~SlotStays(m) /\ job[m.job].kind = "row" => m.slot < job[m.job].next
    /\ SlotsFire

LEMMA CronInit_Inv == CronInit => CronInv
BY DEF CronInit, CronInv, JobRow, NoJob, SlotsFire, SlotFiredAgain, SlotsCovered, Jobs

(* The routes create no tasks, and a new job has no slot behind it. *)
LEMMA CronRoutes ==
    ASSUME CronInv, NEW j \in Job,
           \/ CreateCronTask(j) \/ DeleteCronTask(j)
           \/ \E on \in BOOLEAN : SetEnabled(j, on)
    PROVE  CronInv'
<1> USE DEF CronInv, SlotsFire, SlotsCovered, Jobs
<1>0. SlotFiredAgain'
    BY DEF CreateCronTask, DeleteCronTask, SetEnabled, SlotFiredAgain
<1>1. CASE CreateCronTask(j)
    <2>1. FirstRun \in Nat /\ \A s \in Slots : cronClock <= s => FirstRun <= s
        <3>1. CASE HasNext(cronClock - 1)
            BY <3>1, FirstSlot, CronAssumption DEF FirstRun
        <3>2. CASE ~HasNext(cronClock - 1)
            BY <3>2, CronAssumption DEF FirstRun, HasNext
        <3> QED
            BY <3>1, <3>2
    <2> DEFINE r == [kind |-> "row", enabled |-> TRUE, next |-> FirstRun, born |-> cronClock]
    <2>2. r \in JobRow /\ r.kind = "row" /\ r.next = FirstRun /\ r.born = cronClock
        BY <2>1 DEF JobRow
    <2>3. job' = [job EXCEPT ![j] = r] /\ UNCHANGED <<cronClock, lastTick, made>>
          /\ job[j].kind = "none"
        BY <1>1 DEF CreateCronTask
    <2> HIDE DEF r
    <2>4. \A k \in Job : k # j => job'[k] = job[k]
        BY <2>3
    <2>5. job'[j] = r /\ job' \in [Job -> JobRow]
        BY <2>2, <2>3
    <2>6. \A m \in made : m.job \in Job /\ m.job # j
        BY <2>3 DEF Firing
    <2>7. SlotsCovered'
        <3>1. ASSUME NEW k \in Jobs', NEW s \in Slots, job'[k].born <= s, s < job'[k].next
              PROVE  \E m \in made' : m.job = k /\ m.at >= s
            <4>1. k # j
                BY <2>1, <2>2, <2>5, <3>1, CronAssumption
            <4> QED
                BY <2>3, <2>4, <3>1, <4>1
        <3> QED
            BY <3>1
    <2> QED
        BY <1>0, <2>3, <2>4, <2>5, <2>6, <2>7
<1>2. CASE DeleteCronTask(j)
    <2> DEFINE r == [NoJob EXCEPT !.kind = "deleted"]
    <2>1. r \in JobRow /\ r.kind = "deleted"
        BY DEF JobRow, NoJob
    <2>2. job' = [job EXCEPT ![j] = r] /\ UNCHANGED <<cronClock, lastTick, made>>
        BY <1>2 DEF DeleteCronTask
    <2> HIDE DEF r
    <2>3. SlotsCovered'
        BY <2>1, <2>2
    <2> QED
        BY <1>0, <2>1, <2>2, <2>3 DEF Firing
<1>3. ASSUME NEW on \in BOOLEAN, SetEnabled(j, on) PROVE CronInv'
    <2> DEFINE r == [job[j] EXCEPT !.enabled = on]
    <2>1. r \in JobRow /\ r.kind = job[j].kind /\ r.next = job[j].next /\ r.born = job[j].born
        BY DEF JobRow
    <2>2. job' = [job EXCEPT ![j] = r] /\ UNCHANGED <<cronClock, lastTick, made>>
        BY <1>3 DEF SetEnabled
    <2> HIDE DEF r
    <2>3. SlotsCovered'
        BY <2>1, <2>2
    <2> QED
        BY <1>0, <2>1, <2>2, <2>3 DEF Firing
<1> QED
    BY <1>1, <1>2, <1>3

(* One tick fires each due job at most once. *)
LEMMA CronTick == CronInv /\ Tick => CronInv'
<1> SUFFICES ASSUME CronInv, Tick PROVE CronInv'
    OBVIOUS
<1> PICK fired \in SUBSET Due, cut \in SUBSET Due : FireCronTask(fired, cut)
    BY DEF Tick
<1> DEFINE now == cronClock
           new(j) == [job |-> j, slot |-> job[j].next, at |-> now, done |-> j \in fired]
<1>0. now \in Nat /\ lastTick < now /\ lastTick' = now /\ cronClock' = now
    BY DEF Tick, CronInv
<1>1. \A j \in Due : j \in Job /\ job[j] \in JobRow /\ job[j].kind = "row"
                     /\ job[j].next \in Nat /\ job[j].next <= now
    BY DEF Due, Jobs, CronInv, JobRow
<1>2. made' = made \cup {new(j) : j \in fired \cup cut}
    BY DEF FireCronTask
<1>3. \A j \in Due : /\ new(j) \in Firing /\ new(j).job = j /\ new(j).at = now
                     /\ new(j).slot = job[j].next /\ (new(j).done => j \in fired)
    <2>1. ASSUME NEW j \in Due
          PROVE  /\ new(j).job = j /\ new(j).slot = job[j].next
                 /\ new(j).at = now /\ new(j).done = (j \in fired)
        OBVIOUS
    <2>2. ASSUME NEW j \in Due PROVE new(j) \in Firing
        BY <1>0, <1>1 DEF Firing
    <2> QED
        BY <2>1, <2>2
<1> HIDE DEF new
<1>4. \A m \in made' : m \in made \/ \E j \in fired \cup cut : m = new(j)
    BY <1>2
<1>5. \A j \in Job : job'[j] = IF j \in fired THEN Advanced(job[j]) ELSE job[j]
    BY DEF FireCronTask
(* Advanced moves next_run to the first slot from now on, if there is one.   *)
<1>6. ASSUME NEW j \in fired
      PROVE  /\ Advanced(job[j]) \in JobRow /\ Advanced(job[j]).kind = "row"
             /\ Advanced(job[j]).born = job[j].born
             /\ HasNext(now - 1) =>
                    /\ Advanced(job[j]).next >= now
                    /\ \A s \in Slots : s >= now => Advanced(job[j]).next <= s
             /\ ~HasNext(now - 1) => Advanced(job[j]).next = job[j].next
    <2>1. CASE HasNext(now - 1)
        <3> DEFINE n == ComputeNextRun(now - 1)
        <3>1. n \in Nat /\ n >= now /\ \A s \in Slots : s >= now => n <= s
            BY <1>0, <2>1, FirstSlot, CronAssumption
        <3>2. Advanced(job[j]) = [job[j] EXCEPT !.next = n]
            BY <2>1 DEF Advanced
        <3> HIDE DEF n
        <3> QED
            BY <1>1, <2>1, <3>1, <3>2 DEF JobRow
    <2>2. CASE ~HasNext(now - 1)
        BY <1>1, <2>2 DEF Advanced, JobRow
    <2> QED
        BY <2>1, <2>2
<1>7. /\ job' \in [Job -> JobRow]
      /\ \A j \in Job : job'[j].kind = job[j].kind /\ job'[j].born = job[j].born
    <2>1. job' = [j \in Job |-> IF j \in fired THEN Advanced(job[j]) ELSE job[j]]
        BY DEF FireCronTask
    <2> QED
        BY <1>1, <1>6, <2>1 DEF CronInv
<1>8. made' \subseteq Firing
    BY <1>3, <1>4 DEF CronInv
<1>9. \A m \in made' : m.slot <= m.at /\ m.at <= now /\ job'[m.job].kind # "none"
    BY <1>0, <1>1, <1>3, <1>4, <1>7 DEF CronInv, Firing
<1>10. ASSUME NEW m \in made', ~SlotStays(m), job'[m.job].kind = "row"
       PROVE  m.slot < job'[m.job].next
    <2>1. m.job \in Job /\ m.slot \in Nat /\ m.at \in Nat
        BY <1>8 DEF Firing
    <2>2. CASE m \in made
        <3>1. m.slot < job[m.job].next /\ m.slot < now
            BY <1>0, <1>7, <1>10, <2>1, <2>2 DEF CronInv
        <3>2. CASE m.job \in fired
            <4>1. job'[m.job] = Advanced(job[m.job]) /\ Advanced(job[m.job]).next \in Nat
                BY <1>5, <1>6, <2>1, <3>2 DEF JobRow
            <4> QED
                BY <1>0, <1>6, <2>1, <3>1, <3>2, <4>1
        <3> QED
            BY <1>5, <2>1, <3>1, <3>2
    <2>3. ASSUME NEW j \in fired \cup cut, m = new(j) PROVE m.slot < job'[m.job].next
        <3>1. m.job = j /\ m.at = now /\ m.slot = job[j].next /\ j \in fired
            BY <1>3, <1>10, <2>3 DEF SlotStays
        <3>2. HasNext(now - 1) /\ m.slot < now
            BY <1>0, <1>9, <1>10, <2>1, <3>1 DEF SlotStays
        <3>3. job'[j] = Advanced(job[j]) /\ Advanced(job[j]).next \in Nat
            BY <1>5, <1>6, <2>1, <3>1 DEF JobRow
        <3> QED
            BY <1>0, <1>6, <2>1, <3>1, <3>2, <3>3
    <2> QED
        BY <1>4, <2>2, <2>3
(* The slot of an old firing that moved next_run is not the one fired now.   *)
<1>11. SlotFiredAgain'
    <2>1. ASSUME NEW m \in made', NEW n \in made', m # n, m.job = n.job, m.slot = n.slot
          PROVE  SlotStays(m) \/ SlotStays(n)
        <3>1. CASE m \in made /\ n \in made
            BY <2>1, <3>1 DEF CronInv, SlotsFire, SlotFiredAgain
        <3>2. ASSUME NEW o \in made, NEW j \in fired \cup cut,
                     o.job = new(j).job, o.slot = new(j).slot
              PROVE  SlotStays(o)
            BY <1>1, <1>3, <3>2 DEF CronInv
        <3>3. ASSUME NEW i \in fired \cup cut, NEW j \in fired \cup cut,
                     m = new(i), n = new(j)
              PROVE  FALSE
            BY <1>3, <2>1, <3>3
        <3> QED
            BY <1>4, <2>1, <3>1, <3>2, <3>3
    <2> QED
        BY <2>1 DEF SlotFiredAgain, SlotStays, HasNext
<1>12. SlotsCovered'
    <2>1. ASSUME NEW j \in Job, job'[j].kind = "row", NEW s \in Slots,
                 job'[j].born <= s, s < job'[j].next
          PROVE  \E m \in made' : m.job = j /\ m.at >= s
        <3>0. s \in Nat
            BY CronAssumption
        <3>1. CASE s < job[j].next
            BY <1>2, <1>7, <2>1, <3>1 DEF CronInv, SlotsFire, SlotsCovered, Jobs
        <3>2. CASE ~(s < job[j].next)
            <4>1. j \in fired /\ job'[j] = Advanced(job[j])
                BY <1>5, <2>1, <3>2
            <4>2. HasNext(now - 1) /\ s < now
                BY <1>0, <1>6, <2>1, <3>0, <3>2, <4>1 DEF JobRow
            <4>3. new(j) \in made' /\ new(j).job = j /\ new(j).at = now
                BY <1>2, <1>3, <4>1
            <4> QED
                BY <1>0, <3>0, <4>2, <4>3
        <3> QED
            BY <3>1, <3>2
    <2> QED
        BY <2>1 DEF SlotsCovered, Jobs
<1> QED
    BY <1>0, <1>7, <1>8, <1>9, <1>10, <1>11, <1>12 DEF CronInv, SlotsFire

LEMMA CronStep == CronInv /\ [CronNext]_cronVars => CronInv'
<1>1. CronInv /\ UNCHANGED cronVars => CronInv'
    BY DEF cronVars, CronInv, SlotsFire, SlotFiredAgain, SlotsCovered, Jobs
<1>2. CronInv /\ SecondPasses => CronInv'
    BY DEF SecondPasses, CronInv, SlotsFire, SlotFiredAgain, SlotsCovered, Jobs
<1> QED
    BY <1>1, <1>2, CronRoutes, CronTick DEF CronNext

(* No slot of a job is passed over, and one that is fired twice had a firing  *)
(* that left next_run where it was (orchestration/cron.py,                    *)
(* CronScheduler._tick), for any expression and any jobs, switched off, on or *)
(* deleted at any time.                                                       *)
THEOREM SlotsAreFired == Spec => []SlotsFire
<1>1. Init => CronInv
    BY CronInit_Inv DEF Init
<1>2. CronInv /\ [Next]_vars => CronInv'
    BY ServiceStep, CronStep
<1>3. CronInv => SlotsFire
    BY DEF CronInv
<1> QED
    BY <1>1, <1>2, <1>3, PTL DEF Spec

-----------------------------------------------------------------------------
(* Workflows. *)

Increasing(s) == \A i, j \in DOMAIN s : i < j => s[i] < s[j]
Listable(k) == \A S \in SUBSET (1..k) :
                   \E s \in [1..Cardinality(S) -> S] : Increasing(s)

(* Every set of nodes can be listed in order: there is no least number k for *)
(* which a set of numbers up to k cannot.                                    *)
LEMMA ListableUp ==
    ASSUME NEW k \in Nat, k # 0, Listable(k - 1) PROVE Listable(k)
<1> SUFFICES ASSUME NEW S \in SUBSET (1..k)
             PROVE  \E s \in [1..Cardinality(S) -> S] : Increasing(s)
    BY DEF Listable
<1> DEFINE T == S \ {k}
           n == Cardinality(T)
<1>1. IsFiniteSet(S) /\ IsFiniteSet(T) /\ n \in Nat
    <2>1. IsFiniteSet(1..k)
        BY FS_Interval
    <2> QED
        BY <2>1, FS_Subset, FS_CardinalityType
<1>2. T \in SUBSET (1..(k - 1))
    OBVIOUS
<1>3. PICK s \in [1..n -> T] : Increasing(s)
    BY <1>2 DEF Listable
<1>4. CASE k \notin S
    <2>1. T = S
        BY <1>4
    <2> QED
        BY <1>3, <2>1
<1>5. CASE k \in S
    <2>1. Cardinality(S) = n + 1
        <3>1. n = Cardinality(S) - 1
            BY <1>1, <1>5, FS_RemoveElement
        <3>2. Cardinality(S) \in Nat
            BY <1>1, FS_CardinalityType
        <3> HIDE DEF n
        <3> QED
            BY <3>1, <3>2
    <2>2. \A i \in 1..n : s[i] \in S /\ s[i] < k /\ s[i] \in Nat
        <3>1. \A x \in T : x \in S /\ x < k /\ x \in Nat
            OBVIOUS
        <3> HIDE DEF n, T
        <3> QED
            BY <1>3, <3>1
    <2> HIDE DEF n, T
    <2> DEFINE r == [i \in 1..(n + 1) |-> IF i = n + 1 THEN k ELSE s[i]]
    <2>3. r \in [1..(n + 1) -> S]
        BY <1>1, <1>5, <2>2
    <2>4. ASSUME NEW i \in 1..(n + 1), NEW j \in 1..(n + 1), i < j PROVE r[i] < r[j]
        <3>1. i \in 1..n /\ (j = n + 1 \/ j \in 1..n)
            BY <1>1, <2>4
        <3>2. r[i] = s[i]
            BY <1>1, <3>1
        <3>3. CASE j = n + 1
            BY <2>2, <3>1, <3>2, <3>3
        <3>4. CASE j \in 1..n
            BY <1>1, <1>3, <2>4, <3>1, <3>2, <3>4 DEF Increasing
        <3> QED
            BY <3>1, <3>3, <3>4
    <2>5. Increasing(r)
        BY <2>4 DEF Increasing
    <2> HIDE DEF r
    <2> QED
        BY <2>1, <2>3, <2>5
<1> QED
    BY <1>4, <1>5

LEMMA AllListable == \A k \in Nat : Listable(k)
<1> DEFINE C == {k \in Nat : ~Listable(k)}
<1>1. Listable(0)
    <2>1. SUBSET (1..0) = {{}} /\ Cardinality({}) = 0
        BY FS_EmptySet
    <2>2. <<>> \in [1..0 -> {}] /\ Increasing(<<>>)
        BY DEF Increasing
    <2> QED
        BY <2>1, <2>2 DEF Listable
<1>2. ASSUME C # {} PROVE FALSE
    <2>1. PICK k \in C : \A j \in C : k <= j
        BY <1>2, LeastExists
    <2>2. k # 0 /\ k \in Nat /\ ~Listable(k)
        BY <1>1, <2>1
    <2>3. k - 1 \in Nat /\ k - 1 \notin C
        BY <2>1, <2>2
    <2>4. Listable(k - 1)
        BY <2>3
    <2> QED
        BY <2>2, <2>4, ListableUp
<1> QED
    BY <1>2

(* What the order lists: the members of S, each of them once.                *)
LEMMA InOrderLists ==
    ASSUME NEW S \in SUBSET Node
    PROVE  /\ InOrder(S) \in Seq(S)
           /\ \A x \in S : \E i \in 1..Len(InOrder(S)) : InOrder(S)[i] = x
           /\ \A i, j \in 1..Len(InOrder(S)) : i # j => InOrder(S)[i] # InOrder(S)[j]
<1> DEFINE s == InOrder(S)
           n == Cardinality(S)
<1>1. IsFiniteSet(S) /\ n \in Nat
    <2>1. IsFiniteSet(Node)
        BY FS_Interval, WorkflowAssumption DEF Node
    <2> QED
        BY <2>1, FS_Subset, FS_CardinalityType
<1>2. s \in [1..n -> S] /\ Increasing(s)
    <2>1. \E r \in [1..n -> S] : \A i, j \in DOMAIN r : i < j => r[i] < r[j]
        BY AllListable, WorkflowAssumption DEF Listable, Increasing, Node
    <2> QED
        BY <2>1 DEF InOrder, Increasing
<1> HIDE DEF s
<1>3. DOMAIN s = 1..n /\ s \in Seq(S) /\ Len(s) = n
    BY <1>1, <1>2
<1>4. \A i, j \in 1..n : i # j => s[i] # s[j]
    <2> SUFFICES ASSUME NEW i \in 1..n, NEW j \in 1..n, i < j PROVE s[i] # s[j]
        BY <1>1
    <2>1. s[i] < s[j] /\ s[i] \in Nat /\ s[j] \in Nat
        <3>1. s[i] \in Nat /\ s[j] \in Nat
            <4>1. \A x \in S : x \in Nat
                BY WorkflowAssumption DEF Node
            <4> HIDE DEF n
            <4> QED
                BY <1>2, <4>1
        <3> QED
            BY <1>2, <1>3, <3>1 DEF Increasing
    <2> QED
        BY <2>1
<1>5. s \in Surjection(1..n, S)
    <2>1. s \in Injection(1..n, S)
        <3>1. \A i, j \in DOMAIN s : s[i] = s[j] => i = j
            BY <1>3, <1>4
        <3> QED
            BY <1>2, <3>1 DEF Injection, IsInjective
    <2>2. Cardinality(1..n) = n
        BY <1>1, FS_Interval
    <2> QED
        BY <1>1, <2>1, <2>2, FS_Injection
<1> QED
    BY <1>3, <1>4, <1>5 DEF Surjection, s

Edges == {e \in Node \X Node : e[1] \in deps[e[2]]}
Black == {n \in Node : colour[n] = "black"}
Ordered(S) == S # {} => \E m \in S : \A p \in S : p \notin deps[m]

(* The open calls of dfs are the grey nodes, each a dependency of the one    *)
(* below it.  As long as no cycle was found, what a black node depends on is *)
(* black, and the black nodes have no cycle.                                 *)
PathOK ==
    /\ path \in Seq(Node)
    /\ \A n \in Node : colour[n] = "grey" <=> \E i \in 1..Len(path) : path[i] = n
    /\ \A i, j \in 1..Len(path) : i # j => path[i] # path[j]
    /\ \A i \in 1..Len(path) : i > 1 => path[i - 1] \in deps[path[i]]

BlackOK ==
    /\ \A n \in Black : deps[n] \subseteq Black
    /\ \A S \in SUBSET Black : Ordered(S)

Cyclic == \E S \in SUBSET Node : ~Ordered(S)

SearchInv ==
    /\ phase \in {"idle", "rejected", "search", "sort", "apply", "answered"}
    /\ colour \in [Node -> {"white", "grey", "black"}]
    /\ cycleFound \in BOOLEAN
    /\ phase = "idle" => /\ path = <<>> /\ cycleFound = FALSE
                         /\ \A n \in Node : colour[n] = "white"
    /\ phase \in {"search", "sort", "apply", "answered"} =>
            /\ deps \in [Node -> SUBSET Node] /\ PathOK
            /\ cycleFound = FALSE => BlackOK
    /\ cycleFound = TRUE => Cyclic
    /\ phase \in {"sort", "apply", "answered"} =>
            cycleFound = FALSE /\ \A n \in Node : colour[n] = "black"

LEMMA CyclicIs == Cyclic <=> ~AcyclicLinks(Node, Edges)
<1>1. ASSUME NEW S \in SUBSET Node
      PROVE  Ordered(S) <=> (S # {} => \E t \in S : \A p \in S : <<p, t>> \notin Edges)
    BY DEF Ordered, Edges
<1> QED
    BY <1>1 DEF Cyclic, AcyclicLinks

LEMMA SearchSound == SearchInv => CyclesRefused
<1> SUFFICES ASSUME SearchInv,
                    phase \in {"sort", "apply", "answered"} \/ (phase = "rejected" /\ cycleFound)
             PROVE  cycleFound <=> ~AcyclicLinks(Node, Edges)
    BY DEF CyclesRefused, Edges
<1>1. cycleFound \in BOOLEAN /\ (cycleFound = TRUE => Cyclic)
    BY DEF SearchInv
<1>2. ASSUME phase \in {"sort", "apply", "answered"} PROVE cycleFound = FALSE /\ ~Cyclic
    <2>1. cycleFound = FALSE /\ BlackOK /\ Black = Node
        BY <1>2 DEF SearchInv, Black
    <2> QED
        BY <2>1 DEF BlackOK, Cyclic
<1>3. CASE phase \in {"sort", "apply", "answered"}
    BY <1>2, <1>3, CyclicIs
<1>4. CASE phase = "rejected" /\ cycleFound
    <2>1. cycleFound = TRUE
        BY <1>1, <1>4, Zenon
    <2> QED
        BY <1>1, <2>1, CyclicIs
<1> QED
    BY <1>3, <1>4

LEMMA SearchInit_Inv == WorkflowInit => SearchInv
BY DEF WorkflowInit, SearchInv

(* dfs(n) is called for a white node: at the top, or for a dependency of the *)
(* latest call.                                                              *)
LEMMA CallKeeps ==
    ASSUME SearchInv, phase = "search", NEW n \in Node, colour[n] = "white",
           colour' = [colour EXCEPT ![n] = "grey"], path' = <<n>> \o path,
           path # <<>> => n \in deps[path[1]],
           UNCHANGED <<deps, phase, cycleFound>>
    PROVE  SearchInv'
<1>0. /\ PathOK /\ colour \in [Node -> {"white", "grey", "black"}]
      /\ deps \in [Node -> SUBSET Node] /\ (cycleFound = FALSE => BlackOK)
    BY DEF SearchInv
<1>1. /\ path' \in Seq(Node) /\ Len(path') = Len(path) + 1 /\ path'[1] = n
      /\ Len(path) \in Nat
      /\ \A i \in 1..Len(path) : path'[i + 1] = path[i]
      /\ \A i \in 1..Len(path') : i = 1 \/ (i - 1 \in 1..Len(path) /\ path'[i] = path[i - 1])
    BY <1>0 DEF PathOK
<1>2. \A i \in 1..Len(path) : path[i] # n /\ path[i] \in Node
    <2>1. \A i \in 1..Len(path) : path[i] \in Node
        BY <1>0 DEF PathOK
    <2>2. ASSUME NEW i \in 1..Len(path), path[i] = n PROVE FALSE
        <3>1. colour[n] = "grey"
            BY <1>0, <2>2 DEF PathOK
        <3> QED
            BY <3>1
    <2> QED
        BY <2>1, <2>2
<1>3. \A m \in Node : colour'[m] = IF m = n THEN "grey" ELSE colour[m]
    BY <1>0
<1>4. PathOK'
    <2>1. ASSUME NEW m \in Node
          PROVE  colour'[m] = "grey" <=> \E i \in 1..Len(path') : path'[i] = m
        <3>1. CASE m = n
            <4>1. 1 \in 1..Len(path')
                BY <1>1
            <4> QED
                BY <1>1, <1>3, <3>1, <4>1
        <3>2. CASE m # n
            <4>1. (\E i \in 1..Len(path) : path[i] = m) => \E i \in 1..Len(path') : path'[i] = m
                <5> SUFFICES ASSUME NEW i \in 1..Len(path), path[i] = m
                             PROVE  \E j \in 1..Len(path') : path'[j] = m
                    OBVIOUS
                <5>1. i + 1 \in 1..Len(path') /\ path'[i + 1] = m
                    BY <1>1
                <5> QED
                    BY <5>1
            <4>2. (\E i \in 1..Len(path') : path'[i] = m) => \E i \in 1..Len(path) : path[i] = m
                BY <1>1, <3>2
            <4> QED
                BY <1>0, <1>3, <3>2, <4>1, <4>2 DEF PathOK
        <3> QED
            BY <3>1, <3>2
    <2>2. ASSUME NEW i \in 1..Len(path'), NEW j \in 1..Len(path'), i # j
          PROVE  path'[i] # path'[j]
        <3>1. CASE i = 1
            BY <1>1, <1>2, <2>2, <3>1
        <3>2. CASE j = 1
            BY <1>1, <1>2, <2>2, <3>2
        <3>3. CASE i # 1 /\ j # 1
            <4>1. /\ i - 1 \in 1..Len(path) /\ path'[i] = path[i - 1]
                  /\ j - 1 \in 1..Len(path) /\ path'[j] = path[j - 1]
                BY <1>1, <2>2, <3>3
            <4>2. i - 1 # j - 1
                BY <2>2, <3>3
            <4>3. path[i - 1] # path[j - 1]
                BY <1>0, <4>1, <4>2 DEF PathOK
            <4> QED
                BY <4>1, <4>3
        <3> QED
            BY <3>1, <3>2, <3>3
    <2>3. ASSUME NEW i \in 1..Len(path'), i > 1 PROVE path'[i - 1] \in deps'[path'[i]]
        <3>1. i - 1 \in 1..Len(path) /\ path'[i] = path[i - 1]
            BY <1>1, <2>3
        <3>2. CASE i = 2
            <4>1. path # <<>>
                BY <3>1
            <4> QED
                BY <1>1, <3>1, <3>2, <4>1
        <3>3. CASE i > 2
            <4>1. i - 2 \in 1..Len(path) /\ path'[i - 1] = path[i - 2] /\ i - 1 > 1
                <5>1. i - 1 \in 1..Len(path') /\ i - 1 # 1
                    BY <1>1, <3>1, <3>3
                <5>2. (i - 1) - 1 = i - 2
                    BY <3>1
                <5> QED
                    BY <1>1, <3>3, <5>1, <5>2
            <4>2. path[(i - 1) - 1] \in deps[path[i - 1]]
                BY <1>0, <3>1, <4>1 DEF PathOK
            <4>3. (i - 1) - 1 = i - 2
                BY <3>1
            <4> QED
                BY <3>1, <4>1, <4>2, <4>3
        <3> QED
            BY <3>1, <3>2, <3>3
    <2> QED
        BY <1>1, <2>1, <2>2, <2>3 DEF PathOK
<1>5. Black' = Black
    BY <1>3 DEF Black
<1>6. cycleFound = FALSE => BlackOK'
    BY <1>0, <1>5 DEF BlackOK, Ordered
<1>7. Cyclic' <=> Cyclic
    BY DEF Cyclic, Ordered
<1> QED
    BY <1>0, <1>3, <1>4, <1>6, <1>7 DEF SearchInv

(* A grey dependency of the latest call closes a cycle of open calls.        *)
LEMMA GreyCloses ==
    ASSUME SearchInv, phase = "search", path # <<>>,
           NEW m \in deps[path[1]], colour[m] = "grey"
    PROVE  Cyclic
<1>0. PathOK /\ deps \in [Node -> SUBSET Node] /\ Len(path) \in Nat /\ 1 \in 1..Len(path)
    BY DEF SearchInv, PathOK
<1>1. m \in Node
    BY <1>0 DEF PathOK
<1>2. PICK k \in 1..Len(path) : path[k] = m
    BY <1>0, <1>1 DEF PathOK
<1> DEFINE S == {path[i] : i \in 1..k}
<1>3. S \in SUBSET Node /\ S # {}
    BY <1>0, <1>2 DEF PathOK
<1>4. ASSUME NEW x \in S PROVE \E p \in S : p \in deps[x]
    <2>1. PICK i \in 1..k : x = path[i]
        OBVIOUS
    <2>2. CASE i = 1
        <3>1. m \in S
            BY <1>2
        <3> QED
            BY <2>1, <2>2, <3>1
    <2>3. CASE i > 1
        <3>1. path[i - 1] \in S
            BY <2>3
        <3>2. path[i - 1] \in deps[path[i]]
            BY <1>0, <1>2, <2>3 DEF PathOK
        <3> QED
            BY <2>1, <3>1, <3>2
    <2> QED
        BY <2>2, <2>3
<1> HIDE DEF S
<1>5. ~Ordered(S)
    BY <1>3, <1>4 DEF Ordered
<1> QED
    BY <1>3, <1>5 DEF Cyclic

(* dfs returns. *)
LEMMA AscendKeeps == ASSUME SearchInv, Ascend PROVE SearchInv'
<1> DEFINE n == path[1]
<1>0. /\ PathOK /\ colour \in [Node -> {"white", "grey", "black"}]
      /\ deps \in [Node -> SUBSET Node] /\ (cycleFound = FALSE => BlackOK)
      /\ cycleFound \in BOOLEAN /\ (cycleFound = TRUE => Cyclic)
      /\ phase = "search"
    BY DEF SearchInv, Ascend
<1>1. /\ path # <<>> /\ n = Head(path) /\ path' = Tail(path)
      /\ colour' = [colour EXCEPT ![n] = "black"] /\ UNCHANGED <<deps, phase>>
      /\ cycleFound' = (cycleFound \/ \E m \in deps[n] : colour[m] = "grey")
      /\ \A m \in deps[n] : colour[m] # "white"
    BY <1>0 DEF Ascend, PathOK
<1>2. /\ Len(path) \in Nat \ {0} /\ 1 \in 1..Len(path) /\ n \in Node /\ path \in Seq(Node)
    BY <1>0, <1>1 DEF PathOK
<1>3. /\ path' \in Seq(Node) /\ Len(path') = Len(path) - 1
      /\ \A i \in 1..Len(path') : i + 1 \in 1..Len(path) /\ path'[i] = path[i + 1]
      /\ \A i \in 1..Len(path) : i # 1 => i - 1 \in 1..Len(path') /\ path'[i - 1] = path[i]
    <2>1. path' \in Seq(Node) /\ Len(path') = Len(path) - 1
        BY <1>1, <1>2
    <2>2. \A i \in 1..Len(path') : i + 1 \in 1..Len(path) /\ path'[i] = path[i + 1]
        BY <1>1, <1>2, <2>1
    <2>3. \A i \in 1..Len(path) : i # 1 => i - 1 \in 1..Len(path') /\ (i - 1) + 1 = i
        BY <1>2, <2>1
    <2> QED
        BY <2>1, <2>2, <2>3
<1> HIDE DEF n
<1>4. \A m \in Node : colour'[m] = IF m = n THEN "black" ELSE colour[m]
    BY <1>0, <1>1
<1>5. PathOK'
    <2>1. ASSUME NEW m \in Node
          PROVE  colour'[m] = "grey" <=> \E i \in 1..Len(path') : path'[i] = m
        <3>1. CASE m = n
            <4>1. \A i \in 1..Len(path') : i + 1 # 1
                BY <1>2, <1>3
            <4>2. \A i \in 1..Len(path') : path'[i] # n
                BY <1>0, <1>2, <1>3, <4>1 DEF PathOK, n
            <4> QED
                BY <1>4, <3>1, <4>2
        <3>2. CASE m # n
            <4>1. (\E i \in 1..Len(path) : path[i] = m) => \E i \in 1..Len(path') : path'[i] = m
                BY <1>3, <3>2 DEF n
            <4>2. (\E i \in 1..Len(path') : path'[i] = m) => \E i \in 1..Len(path) : path[i] = m
                BY <1>3
            <4> QED
                BY <1>0, <1>4, <3>2, <4>1, <4>2 DEF PathOK
        <3> QED
            BY <3>1, <3>2
    <2>2. ASSUME NEW i \in 1..Len(path'), NEW j \in 1..Len(path'), i # j
          PROVE  path'[i] # path'[j]
        <3>1. i + 1 # j + 1
            BY <1>2, <1>3, <2>2
        <3> QED
            BY <1>0, <1>3, <3>1 DEF PathOK
    <2>3. ASSUME NEW i \in 1..Len(path'), i > 1 PROVE path'[i - 1] \in deps'[path'[i]]
        <3>1. i - 1 \in 1..Len(path') /\ i + 1 > 1 /\ (i - 1) + 1 = i /\ (i + 1) - 1 = i
            BY <1>2, <1>3, <2>3
        <3>2. path'[i] = path[i + 1] /\ path'[i - 1] = path[i] /\ i + 1 \in 1..Len(path)
            BY <1>3, <3>1
        <3>3. path[(i + 1) - 1] \in deps[path[i + 1]]
            BY <1>0, <3>1, <3>2 DEF PathOK
        <3> QED
            BY <1>1, <3>1, <3>2, <3>3
    <2> QED
        BY <1>3, <2>1, <2>2, <2>3 DEF PathOK
<1>6. colour[n] = "grey"
    BY <1>0, <1>2 DEF PathOK, n
<1>7. ASSUME cycleFound' = FALSE PROVE BlackOK'
    <2>1. cycleFound = FALSE /\ ~ \E m \in deps[n] : colour[m] = "grey"
        BY <1>0, <1>1, <1>7, Zenon
    <2>2. BlackOK /\ Black' = Black \cup {n} /\ n \notin Black
        BY <1>0, <1>2, <1>4, <1>6, <2>1 DEF Black
    <2>3. deps[n] \subseteq Black
        <3> SUFFICES ASSUME NEW m \in deps[n] PROVE m \in Black
            OBVIOUS
        <3>1. m \in Node
            BY <1>0, <1>2
        <3> QED
            BY <1>0, <1>1, <2>1, <3>1 DEF Black
    <2>4. \A x \in Black' : deps'[x] \subseteq Black'
        BY <1>1, <2>2, <2>3 DEF BlackOK
    <2>5. ASSUME NEW S \in SUBSET Black' PROVE Ordered(S)'
        <3> DEFINE T == S \cap Black
        <3>1. CASE T # {}
            <4>1. PICK m \in T : \A p \in T : p \notin deps[m]
                BY <2>2, <3>1 DEF BlackOK, Ordered
            <4>2. \A p \in S : p \notin deps[m]
                BY <2>2, <4>1 DEF BlackOK
            <4> QED
                BY <1>1, <4>1, <4>2 DEF Ordered
        <3>2. CASE T = {}
            <4>1. S \subseteq {n}
                BY <2>2, <3>2
            <4> QED
                BY <1>1, <2>2, <2>3, <4>1 DEF Ordered
        <3> QED
            BY <3>1, <3>2
    <2> QED
        BY <2>4, <2>5 DEF BlackOK
<1>8. ASSUME cycleFound' = TRUE PROVE Cyclic'
    <2>1. CASE \E m \in deps[n] : colour[m] = "grey"
        <3>1. Cyclic
            BY <1>0, <1>1, <2>1, GreyCloses DEF n
        <3> QED
            BY <1>1, <3>1 DEF Cyclic, Ordered
    <2>2. CASE ~ \E m \in deps[n] : colour[m] = "grey"
        <3>1. cycleFound = TRUE
            BY <1>0, <1>1, <1>8, <2>2, Zenon
        <3> QED
            BY <1>0, <1>1, <3>1 DEF Cyclic, Ordered
    <2> QED
        BY <2>1, <2>2
<1>9. cycleFound' \in BOOLEAN
    BY <1>0, <1>1, Zenon
<1>10. colour' \in [Node -> {"white", "grey", "black"}]
    BY <1>0, <1>1
<1> QED
    BY <1>0, <1>1, <1>5, <1>7, <1>8, <1>9, <1>10 DEF SearchInv

(* What the search calls next is white.                                      *)
LEMMA StartCalls ==
    ASSUME SearchInv, Start
    PROVE  \E n \in Node : /\ colour[n] = "white"
                           /\ colour' = [colour EXCEPT ![n] = "grey"] /\ path' = <<n>>
<1> DEFINE n == CHOOSE n \in Node : colour[n] = "white"
                                    /\ \A x \in 1..(n - 1) : colour[x] # "white"
           W == {m \in Node : colour[m] = "white"}
<1>1. W # {} /\ W \subseteq Nat
    BY DEF Start, Node
<1>2. PICK m \in W : \A x \in W : m <= x
    BY <1>1, LeastExists
<1>3. \A x \in 1..(m - 1) : x \in Node /\ ~(m <= x)
    BY <1>1, WorkflowAssumption DEF Node
<1>4. \A x \in 1..(m - 1) : colour[x] # "white"
    BY <1>2, <1>3
<1>5. n \in Node /\ colour[n] = "white"
    BY <1>4
<1>6. colour' = [colour EXCEPT ![n] = "grey"] /\ path' = <<n>>
    BY DEF Start
<1> HIDE DEF n
<1> QED
    BY <1>5, <1>6

LEMMA DescendCalls ==
    ASSUME SearchInv, Descend
    PROVE  \E n \in Node : /\ colour[n] = "white" /\ n \in deps[path[1]]
                           /\ colour' = [colour EXCEPT ![n] = "grey"]
                           /\ path' = <<n>> \o path
<1> DEFINE white == {m \in deps[Head(path)] : colour[m] = "white"}
           n == InOrder(white)[1]
<1>0. path \in Seq(Node) /\ path # <<>> /\ deps \in [Node -> SUBSET Node]
    BY DEF Descend, SearchInv, PathOK
<1>1. white # {} /\ colour' = [colour EXCEPT ![n] = "grey"] /\ path' = <<n>> \o path
    BY DEF Descend
<1>2. white \in SUBSET Node /\ Head(path) = path[1]
    BY <1>0
<1>3. n \in white
    <2> HIDE DEF white
    <2>1. InOrder(white) \in Seq(white) /\ Len(InOrder(white)) # 0
        BY <1>1, <1>2, InOrderLists
    <2> QED
        BY <2>1
<1>4. n \in Node /\ colour[n] = "white" /\ n \in deps[path[1]]
    BY <1>2, <1>3
<1> HIDE DEF n, white
<1> QED
    BY <1>1, <1>4

LEMMA SearchStep == SearchInv /\ [WorkflowNext]_workflowVars => SearchInv'
<1> SUFFICES ASSUME SearchInv, [WorkflowNext]_workflowVars PROVE SearchInv'
    OBVIOUS
<1> USE DEF searchVars, sortVars, applyVars
<1>1. ASSUME NEW d \in [Node -> SUBSET (Node \cup {Elsewhere})], Submit(d) PROVE SearchInv'
    <2>1. /\ phase = "idle" /\ deps' = d /\ UNCHANGED <<colour, path, cycleFound>>
          /\ path = <<>> /\ cycleFound = FALSE /\ \A n \in Node : colour[n] = "white"
          /\ colour \in [Node -> {"white", "grey", "black"}]
        BY <1>1 DEF Submit, SearchInv
    <2>2. CASE phase' = "rejected"
        BY <2>1, <2>2 DEF SearchInv
    <2>3. CASE phase' = "search" /\ \A n \in Node : Elsewhere \notin d[n]
        <3>1. d \in [Node -> SUBSET Node]
            BY <2>3
        <3>2. PathOK' /\ BlackOK'
            BY <2>1 DEF PathOK, BlackOK, Black, Ordered
        <3> QED
            BY <2>1, <2>3, <3>1, <3>2 DEF SearchInv
    <2> QED
        BY <1>1, <2>2, <2>3 DEF Submit
<1>2. CASE Start
    <2>1. phase = "search" /\ path = <<>> /\ UNCHANGED <<deps, phase, cycleFound>>
        BY <1>2 DEF Start
    <2>2. PICK n \in Node : /\ colour[n] = "white"
                           /\ colour' = [colour EXCEPT ![n] = "grey"] /\ path' = <<n>>
        BY <1>2, StartCalls
    <2>3. <<n>> \o path = <<n>>
        BY <2>1, <2>2
    <2> QED
        BY <2>1, <2>2, <2>3, CallKeeps
<1>3. CASE Descend
    <2>1. phase = "search" /\ UNCHANGED <<deps, phase, cycleFound>>
        BY <1>3 DEF Descend
    <2>2. PICK n \in Node : /\ colour[n] = "white" /\ n \in deps[path[1]]
                           /\ colour' = [colour EXCEPT ![n] = "grey"]
                           /\ path' = <<n>> \o path
        BY <1>3, DescendCalls
    <2> QED
        BY <2>1, <2>2, CallKeeps
<1>4. CASE Ascend
    BY <1>4, AscendKeeps
<1>5. CASE Validated
    <2>1. /\ phase = "search" /\ path = <<>> /\ \A n \in Node : colour[n] # "white"
          /\ UNCHANGED <<deps, colour, path, cycleFound>>
          /\ phase' = "rejected" \/ (phase' = "sort" /\ ~cycleFound)
        BY <1>5 DEF Validated
    <2>2. \A n \in Node : colour[n] = "black"
        BY <2>1 DEF SearchInv, PathOK
    <2>3. ~cycleFound => cycleFound = FALSE
        <3>1. cycleFound \in BOOLEAN
            BY DEF SearchInv
        <3> QED
            BY <3>1, Zenon
    <2> QED
        BY <2>1, <2>2, <2>3 DEF SearchInv, PathOK, BlackOK, Black, Ordered, Cyclic
<1>6. CASE /\ UNCHANGED <<deps, colour, path, cycleFound>>
           /\ \/ phase' = phase
              \/ phase = "sort" /\ phase' = "apply"
              \/ phase = "apply" /\ phase' = "answered"
    BY <1>6 DEF SearchInv, PathOK, BlackOK, Black, Ordered, Cyclic
<1>7. CASE SortNode \/ Sorted \/ (\E f \in BOOLEAN : CreateNode(f)) \/ Respond
           \/ UNCHANGED workflowVars
    BY <1>6, <1>7 DEF SortNode, Sorted, CreateNode, Respond, workflowVars
<1> QED
    BY <1>1, <1>2, <1>3, <1>4, <1>5, <1>7 DEF WorkflowNext

(* The nodes of a list come after their dependencies, or these are in P.     *)
Topo(s, P) ==
    \A i \in 1..Len(s) : \A d \in deps[s[i]] : d \in P \/ \E j \in 1..(i - 1) : s[j] = d

(* The sort: in_degree counts the dependencies that are not out yet, and the *)
(* queue holds, once each, the nodes without any that are not out themselves. *)
SortOK ==
    /\ sorted \in Seq(Node) /\ queue \in Seq(Node)
    /\ inDegree \in [Node -> Nat]
    /\ \A m \in Node : inDegree[m] = Cardinality(deps[m] \ ToSet(sorted))
    /\ \A m \in Node : inDegree[m] = 0 => m \in ToSet(sorted) \cup ToSet(queue)
    /\ \A i \in 1..Len(queue) : /\ queue[i] \notin ToSet(sorted)
                                /\ deps[queue[i]] \subseteq ToSet(sorted)
    /\ \A i, j \in 1..Len(queue) : i # j => queue[i] # queue[j]
    /\ Topo(sorted, {})

(* A created node has the links of its created parents; one that lacks a     *)
(* parent is named in the errors.                                            *)
LinkedRight(n) ==
    \E P \in SUBSET deps[n] :
        /\ linked[n] = Links(n, P)
        /\ deps[n] \subseteq P \cup refused
        /\ P # deps[n] => n \in complained

(* The apply loop: what is still to be created follows its parents, which    *)
(* are created or refused.                                                   *)
ApplyInv ==
    /\ phase \in {"idle", "search"} => sorted = <<>>
    /\ phase \in {"idle", "search", "sort"} => linked = <<>>
    /\ phase = "sort" => SortOK
    /\ phase = "apply" => sorted \in Seq(Node) /\ Topo(sorted, DOMAIN linked \cup refused)
    /\ \A n \in DOMAIN linked : LinkedRight(n)
    /\ refused \subseteq complained

LEMMA ApplyInit == WorkflowInit => ApplyInv
<1> SUFFICES ASSUME WorkflowInit PROVE ApplyInv
    OBVIOUS
<1>1. phase = "idle" /\ sorted = <<>> /\ linked = <<>> /\ refused = {} /\ DOMAIN linked = {}
    BY DEF WorkflowInit
<1> QED
    BY <1>1 DEF ApplyInv

LEMMA ApplySound == ApplyInv => ParentsFirst
<1> SUFFICES ASSUME ApplyInv, NEW n \in DOMAIN linked
             PROVE  deps[n] \subseteq ParentsOf(n) \cup refused
    BY DEF ParentsFirst
<1>1. PICK P \in SUBSET deps[n] : linked[n] = Links(n, P) /\ deps[n] \subseteq P \cup refused
    BY DEF ApplyInv, LinkedRight
<1>2. ASSUME NEW p \in P PROVE p \in ParentsOf(n)
    <2> DEFINE l == [parent |-> p, condition |-> <<p, n>> \in Conditional]
    <2>1. l \in Links(n, P) /\ l.parent = p
        BY Zenon DEF Links
    <2> HIDE DEF l
    <2> QED
        BY <1>1, <2>1, Zenon DEF ParentsOf
<1> QED
    BY <1>1, <1>2

LEMMA FiniteDeps ==
    ASSUME NEW S \in SUBSET Node
    PROVE  /\ IsFiniteSet(S) /\ Cardinality(S) \in Nat
           /\ Cardinality(S) = 0 <=> S = {}
<1>1. IsFiniteSet(Node)
    BY FS_Interval, WorkflowAssumption DEF Node
<1>2. IsFiniteSet(S)
    BY <1>1, FS_Subset
<1> QED
    BY <1>2, FS_CardinalityType, FS_EmptySet

(* In the list of an order each member occurs once.                          *)
LEMMA InOrderIs ==
    ASSUME NEW S \in SUBSET Node
    PROVE  /\ InOrder(S) \in Seq(Node)
           /\ ToSet(InOrder(S)) = S
           /\ \A i, j \in 1..Len(InOrder(S)) : i # j => InOrder(S)[i] # InOrder(S)[j]
<1> DEFINE s == InOrder(S)
<1>1. /\ s \in Seq(S) /\ \A x \in S : \E i \in 1..Len(s) : s[i] = x
      /\ \A i, j \in 1..Len(s) : i # j => s[i] # s[j]
    BY InOrderLists
<1> HIDE DEF s
<1>2. s \in Seq(Node) /\ ToSet(s) = S
    BY <1>1 DEF ToSet
<1> QED
    BY <1>1, <1>2 DEF s

LEMMA SortBegins ==
    ASSUME ApplyInv, Validated, phase' = "sort", deps \in [Node -> SUBSET Node]
    PROVE  SortOK'
<1>1. /\ inDegree' = [n \in Node |-> Cardinality(deps[n])]
      /\ queue' = InOrder({n \in Node : deps[n] = {}})
      /\ sorted' = <<>> /\ deps' = deps
    BY DEF Validated, ApplyInv
<1> DEFINE q == InOrder({n \in Node : deps[n] = {}})
<1>2. /\ q \in Seq(Node) /\ ToSet(q) = {n \in Node : deps[n] = {}}
      /\ \A i, j \in 1..Len(q) : i # j => q[i] # q[j]
    BY InOrderIs
<1> HIDE DEF q
<1>3. ToSet(sorted') = {} /\ sorted' \in Seq(Node) /\ Topo(sorted, {})'
    BY <1>1 DEF ToSet, Topo
<1>4. \A m \in Node : /\ inDegree'[m] \in Nat /\ inDegree'[m] = Cardinality(deps[m])
                      /\ inDegree'[m] = 0 <=> deps[m] = {}
    BY <1>1, FiniteDeps
<1>5. \A m \in Node : deps'[m] \ ToSet(sorted') = deps[m]
    BY <1>1, <1>3
<1>6. \A i \in 1..Len(q) : deps[q[i]] = {}
    BY <1>2 DEF ToSet
<1>7. queue' = q
    BY <1>1 DEF q
<1>8. inDegree' \in [Node -> Nat]
    BY <1>1, <1>4
<1> QED
    BY <1>1, <1>2, <1>3, <1>4, <1>5, <1>6, <1>7, <1>8 DEF SortOK

LEMMA SortGoesOn ==
    ASSUME ApplyInv, SortNode, deps \in [Node -> SUBSET Node]
    PROVE  SortOK'
<1> DEFINE n == queue[1]
           below == {m \in Node : n \in deps[m]}
           ready == {m \in below : inDegree[m] = 1}
           out == ToSet(sorted)
           r == InOrder(ready)
<1>0. SortOK /\ queue # <<>> /\ deps' = deps
    BY DEF SortNode, ApplyInv
<1>1. /\ Head(queue) = n /\ 1 \in 1..Len(queue) /\ n \in Node /\ n \notin out
      /\ deps[n] \subseteq out /\ Len(queue) \in Nat /\ Len(sorted) \in Nat
    BY <1>0 DEF SortOK
<1>2. /\ sorted' = Append(sorted, n)
      /\ inDegree' = [m \in Node |-> IF m \in below THEN inDegree[m] - 1 ELSE inDegree[m]]
      /\ queue' = Tail(queue) \o r
    BY <1>1 DEF SortNode
<1>3. /\ r \in Seq(Node) /\ ToSet(r) = ready
      /\ \A i, j \in 1..Len(r) : i # j => r[i] # r[j]
    BY InOrderIs
<1>3a. \A x : x \in ToSet(queue) <=> \E i \in 1..Len(queue) : queue[i] = x
    <2>1. queue \in Seq(Node)
        BY <1>0 DEF SortOK
    <2> QED
        BY <2>1 DEF ToSet
<1>3b. \A x : x \in out <=> \E i \in 1..Len(sorted) : sorted[i] = x
    <2>1. sorted \in Seq(Node)
        BY <1>0 DEF SortOK
    <2> QED
        BY <2>1 DEF ToSet
<1>4. \A m \in Node : m \in below <=> n \in deps[m]
    OBVIOUS
<1>5. \A m \in Node : m \in ready <=> n \in deps[m] /\ inDegree[m] = 1
    OBVIOUS
<1> HIDE DEF n, below, ready, r
<1>6. /\ sorted' \in Seq(Node) /\ ToSet(sorted') = out \cup {n}
      /\ Len(sorted') = Len(sorted) + 1 /\ sorted'[Len(sorted) + 1] = n
      /\ \A i \in 1..Len(sorted) : sorted'[i] = sorted[i]
    <2>1. /\ sorted \in Seq(Node) /\ sorted' \in Seq(Node)
          /\ Len(sorted') = Len(sorted) + 1 /\ sorted'[Len(sorted) + 1] = n
          /\ \A i \in 1..Len(sorted) : sorted'[i] = sorted[i]
        BY <1>0, <1>1, <1>2 DEF SortOK
    <2>2. \A i \in 1..Len(sorted') : i \in 1..Len(sorted) \/ i = Len(sorted) + 1
        BY <1>1, <2>1
    <2>3. \A i \in 1..Len(sorted) : i \in 1..Len(sorted')
        BY <1>1, <2>1
    <2>4. Len(sorted) + 1 \in 1..Len(sorted')
        BY <1>1, <2>1
    <2>5. ToSet(sorted') = {sorted'[i] : i \in 1..Len(sorted')} /\ out = {sorted[i] : i \in 1..Len(sorted)}
        BY <2>1 DEF ToSet
    <2> QED
        BY <2>1, <2>2, <2>3, <2>4, <2>5
<1>7. ASSUME NEW m \in Node
      PROVE  /\ inDegree'[m] \in Nat
             /\ inDegree'[m] = Cardinality(deps[m] \ ToSet(sorted'))
             /\ m \in below => inDegree[m] # 0
    <2> DEFINE D == deps[m] \ out
    <2>1. D \in SUBSET Node /\ IsFiniteSet(D) /\ Cardinality(D) \in Nat
          /\ inDegree[m] = Cardinality(D)
        BY <1>0, FiniteDeps DEF SortOK
    <2>2. deps[m] \ ToSet(sorted') = D \ {n}
        BY <1>6
    <2>3. IsFiniteSet(D \ {n}) /\ Cardinality(D \ {n}) \in Nat
          /\ Cardinality(D \ {n}) = IF n \in D THEN Cardinality(D) - 1 ELSE Cardinality(D)
        BY <2>1, FS_RemoveElement, FS_CardinalityType
    <2>4. n \in D <=> m \in below
        BY <1>1, <1>4
    <2>5. m \in below => Cardinality(D) # 0
        BY <2>1, <2>4, FiniteDeps
    <2> HIDE DEF D
    <2> QED
        BY <1>2, <2>1, <2>2, <2>3, <2>4, <2>5
<1>8. inDegree' \in [Node -> Nat]
    BY <1>2, <1>7
<1>9. /\ queue' \in Seq(Node) /\ Len(queue') = (Len(queue) - 1) + Len(r)
      /\ Len(r) \in Nat
      /\ \A i \in 1..(Len(queue) - 1) : queue'[i] = queue[i + 1] /\ i + 1 \in 1..Len(queue)
      /\ \A i \in 1..Len(queue') : i > Len(queue) - 1 =>
            i - (Len(queue) - 1) \in 1..Len(r) /\ queue'[i] = r[i - (Len(queue) - 1)]
    BY <1>0, <1>1, <1>2, <1>3 DEF SortOK
<1>10. \A m \in ToSet(queue) : m # n => m \in ToSet(queue')
    <2> SUFFICES ASSUME NEW i \in 1..Len(queue), queue[i] # n PROVE queue[i] \in ToSet(queue')
        BY <1>3a
    <2>1. i - 1 \in 1..(Len(queue) - 1) /\ (i - 1) + 1 = i /\ i - 1 \in 1..Len(queue')
        BY <1>1, <1>9 DEF n
    <2>2. queue'[i - 1] = queue[i]
        BY <1>9, <2>1
    <2> QED
        BY <1>9, <2>1, <2>2 DEF ToSet
<1>11. ready \subseteq ToSet(queue')
    <2> SUFFICES ASSUME NEW i \in 1..Len(r) PROVE r[i] \in ToSet(queue')
        BY <1>3 DEF ToSet
    <2> DEFINE k == i + (Len(queue) - 1)
    <2>1. k \in 1..Len(queue') /\ k > Len(queue) - 1 /\ k - (Len(queue) - 1) = i
        BY <1>1, <1>9
    <2>2. queue'[k] = r[i]
        BY <1>9, <2>1
    <2> HIDE DEF k
    <2> QED
        BY <1>9, <2>1, <2>2 DEF ToSet
<1>12. \A m \in Node : inDegree'[m] = 0 => m \in ToSet(sorted') \cup ToSet(queue')
    <2> SUFFICES ASSUME NEW m \in Node, inDegree'[m] = 0
                 PROVE  m \in ToSet(sorted') \cup ToSet(queue')
        OBVIOUS
    <2>1. CASE m \in below
        <3>1. inDegree[m] = 1
            BY <1>0, <1>2, <2>1 DEF SortOK
        <3> QED
            BY <1>4, <1>5, <1>11, <2>1, <3>1
    <2>2. CASE m \notin below
        <3>1. inDegree[m] = 0
            BY <1>2, <2>2
        <3> QED
            BY <1>0, <1>6, <1>10, <3>1 DEF SortOK
    <2> QED
        BY <2>1, <2>2
<1>13. ASSUME NEW m \in ready
       PROVE  /\ m \in Node /\ m \notin out /\ m # n /\ m \notin ToSet(queue)
              /\ deps[m] \subseteq out \cup {n}
    <2>1. m \in Node /\ n \in deps[m] /\ inDegree[m] = 1
        BY <1>3, <1>5 DEF ready, below
    <2>2. inDegree'[m] = 0
        BY <1>2, <1>4, <2>1
    <2>3. deps[m] \ (out \cup {n}) \in SUBSET Node /\ Cardinality(deps[m] \ (out \cup {n})) = 0
        BY <1>6, <1>7, <2>1, <2>2
    <2>4. deps[m] \ (out \cup {n}) = {}
        BY <2>3, FiniteDeps
    <2>5. ASSUME NEW x \in Node, deps[x] \subseteq out PROVE m # x
        BY <1>1, <2>1, <2>5
    <2>6. m \notin out
        <3> SUFFICES ASSUME NEW i \in 1..Len(sorted), sorted[i] = m PROVE FALSE
            BY <1>3b
        <3>1. deps[m] \subseteq out
            <4> SUFFICES ASSUME NEW d \in deps[sorted[i]] PROVE \E j \in 1..Len(sorted) : sorted[j] = d
                BY <1>3b
            <4>1. PICK j \in 1..(i - 1) : sorted[j] = d
                BY <1>0 DEF SortOK, Topo
            <4>2. j \in 1..Len(sorted)
                BY <1>1
            <4> QED
                BY <4>1, <4>2
        <3> QED
            BY <2>1, <2>5, <3>1
    <2>7. m \notin ToSet(queue)
        <3> SUFFICES ASSUME NEW i \in 1..Len(queue), queue[i] = m PROVE FALSE
            BY <1>3a
        <3>1. deps[m] \subseteq out
            BY <1>0 DEF SortOK
        <3> QED
            BY <2>1, <2>5, <3>1
    <2> QED
        BY <1>1, <2>1, <2>4, <2>5, <2>6, <2>7
<1>14. ASSUME NEW i \in 1..Len(queue')
       PROVE  \/ i \in 1..(Len(queue) - 1) /\ queue'[i] = queue[i + 1] /\ i + 1 \in 1..Len(queue)
              \/ queue'[i] \in ready /\ i > Len(queue) - 1
    <2>1. CASE i > Len(queue) - 1
        BY <1>3, <1>9, <2>1 DEF ToSet
    <2>2. CASE ~(i > Len(queue) - 1)
        BY <1>1, <1>9, <2>2
    <2> QED
        BY <2>1, <2>2
<1>15. ASSUME NEW i \in 1..Len(queue')
       PROVE  queue'[i] \notin ToSet(sorted') /\ deps[queue'[i]] \subseteq ToSet(sorted')
    <2>1. CASE i \in 1..(Len(queue) - 1) /\ queue'[i] = queue[i + 1] /\ i + 1 \in 1..Len(queue)
        <3>1. queue[i + 1] # queue[1]
            <4>1. i + 1 # 1
                BY <1>1, <2>1
            <4> QED
                BY <1>0, <1>1, <2>1, <4>1 DEF SortOK
        <3>2. queue[i + 1] \notin out /\ deps[queue[i + 1]] \subseteq out
            BY <1>0, <2>1 DEF SortOK
        <3> QED
            BY <1>6, <2>1, <3>1, <3>2 DEF n
    <2>2. CASE queue'[i] \in ready
        BY <1>6, <1>13, <2>2
    <2> QED
        BY <1>14, <2>1, <2>2
<1>16. ASSUME NEW i \in 1..Len(queue'), NEW j \in 1..Len(queue'), i < j
       PROVE  queue'[i] # queue'[j]
    <2>1. CASE i > Len(queue) - 1
        <3> DEFINE a == i - (Len(queue) - 1)
                   b == j - (Len(queue) - 1)
        <3>1. a \in 1..Len(r) /\ b \in 1..Len(r) /\ a # b /\ queue'[i] = r[a] /\ queue'[j] = r[b]
            BY <1>1, <1>9, <1>16, <2>1
        <3> HIDE DEF a, b
        <3> QED
            BY <1>3, <3>1
    <2>2. CASE ~(i > Len(queue) - 1) /\ j > Len(queue) - 1
        <3>1. queue'[i] = queue[i + 1] /\ i + 1 \in 1..Len(queue) /\ queue'[j] \in ready
            BY <1>1, <1>14, <2>2
        <3>2. queue'[i] \in ToSet(queue)
            BY <1>3a, <3>1
        <3> QED
            BY <1>13, <3>1, <3>2
    <2>3. CASE ~(j > Len(queue) - 1)
        <3>1. /\ queue'[i] = queue[i + 1] /\ i + 1 \in 1..Len(queue)
              /\ queue'[j] = queue[j + 1] /\ j + 1 \in 1..Len(queue)
              /\ i + 1 # j + 1
            BY <1>1, <1>9, <1>14, <1>16, <2>3
        <3> QED
            BY <1>0, <3>1 DEF SortOK
    <2> QED
        BY <2>1, <2>2, <2>3
<1>17. \A i, j \in 1..Len(queue') : i # j => queue'[i] # queue'[j]
    <2> SUFFICES ASSUME NEW i \in 1..Len(queue'), NEW j \in 1..Len(queue'), i < j
                 PROVE  queue'[i] # queue'[j]
        BY <1>9
    <2> QED
        BY <1>16
<1>18. Topo(sorted, {})'
    <2> SUFFICES ASSUME NEW i \in 1..Len(sorted'), NEW d \in deps[sorted'[i]]
                 PROVE  \E j \in 1..(i - 1) : sorted'[j] = d
        BY <1>0 DEF Topo
    <2>1. CASE i \in 1..Len(sorted)
        <3>1. PICK j \in 1..(i - 1) : sorted[j] = d
            BY <1>0, <1>6, <2>1 DEF SortOK, Topo
        <3>2. j \in 1..Len(sorted)
            BY <1>1, <2>1
        <3> QED
            BY <1>6, <3>1, <3>2
    <2>2. CASE i = Len(sorted) + 1
        <3>1. d \in out
            BY <1>1, <1>6, <2>2
        <3>2. PICK j \in 1..Len(sorted) : sorted[j] = d
            BY <1>3b, <3>1
        <3>3. j \in 1..(i - 1)
            BY <1>1, <2>2
        <3> QED
            BY <1>6, <3>2, <3>3
    <2> QED
        BY <1>1, <1>6, <2>1, <2>2
<1> QED
    BY <1>0, <1>6, <1>7, <1>8, <1>9, <1>12, <1>15, <1>17, <1>18 DEF SortOK

(* The queue runs empty only when every node is out: among those that are    *)
(* not, one has no dependency left, and it would be queued.                  *)
LEMMA SortEnds ==
    ASSUME SearchInv, ApplyInv, Sorted
    PROVE  /\ sorted' \in Seq(Node) /\ Topo(sorted, DOMAIN linked \cup refused)'
           /\ sorted' = sorted /\ ToSet(sorted) = Node
<1> DEFINE out == ToSet(sorted)
           rest == Node \ out
<1>1. /\ SortOK /\ queue = <<>> /\ deps' = deps
      /\ deps \in [Node -> SUBSET Node] /\ \A S \in SUBSET Node : Ordered(S)
    <2>1. phase = "sort" /\ queue = <<>> /\ deps' = deps
        BY DEF Sorted
    <2>2. cycleFound = FALSE /\ BlackOK /\ Black = Node /\ deps \in [Node -> SUBSET Node]
        BY <2>1 DEF SearchInv, Black
    <2>3. SortOK
        BY <2>1 DEF ApplyInv
    <2> QED
        BY <2>1, <2>2, <2>3 DEF BlackOK
<1>2. rest = {}
    <2> SUFFICES ASSUME rest # {} PROVE FALSE
        OBVIOUS
    <2>1. PICK m \in rest : \A p \in rest : p \notin deps[m]
        BY <1>1 DEF Ordered
    <2>2. deps[m] \ out = {} /\ m \in Node /\ m \notin out
        BY <1>1, <2>1
    <2>3. inDegree[m] = Cardinality(deps[m] \ out)
        BY <1>1, <2>2 DEF SortOK
    <2>4. inDegree[m] = 0
        BY <2>2, <2>3, FS_EmptySet
    <2>5. ToSet(queue) = {}
        BY <1>1 DEF ToSet
    <2> QED
        BY <1>1, <2>2, <2>4, <2>5 DEF SortOK
<1>3. InOrder(rest) = <<>>
    <2>1. InOrder({}) \in Seq({})
        BY InOrderLists
    <2> HIDE DEF rest
    <2> QED
        BY <1>2, <2>1
<1>4. sorted' = sorted /\ sorted \in Seq(Node) /\ Topo(sorted, {})
    <2>1. sorted' = sorted \o InOrder(rest)
        BY DEF Sorted
    <2>2. sorted \in Seq(Node) /\ Topo(sorted, {})
        BY <1>1 DEF SortOK
    <2> HIDE DEF rest
    <2> QED
        BY <1>3, <2>1, <2>2
<1>5. out = Node
    BY <1>1, <1>2 DEF SortOK, ToSet
<1> QED
    BY <1>1, <1>4, <1>5 DEF Topo

LEMMA CreateKeeps ==
    ASSUME SearchInv, ApplyInv, NEW fails \in BOOLEAN, CreateNode(fails)
    PROVE  ApplyInv'
<1> DEFINE n == sorted[1]
           parents == deps[n] \cap DOMAIN linked
           dealt == DOMAIN linked \cup refused
<1>1. /\ phase = "apply" /\ phase' = "apply" /\ deps' = deps
      /\ sorted # <<>> /\ sorted \in Seq(Node) /\ Topo(sorted, dealt)
      /\ deps \in [Node -> SUBSET Node]
    <2>1. phase = "apply" /\ phase' = phase /\ deps' = deps /\ sorted # <<>>
        BY DEF CreateNode
    <2> QED
        BY <2>1 DEF ApplyInv, SearchInv
<1>2. Head(sorted) = n /\ n \in Node /\ 1 \in 1..Len(sorted) /\ Len(sorted) \in Nat
    BY <1>1
<1>3. deps[n] \subseteq dealt
    BY <1>1, <1>2 DEF Topo
<1>4. /\ sorted' = Tail(sorted)
      /\ complained' = IF fails \/ parents # deps[n] THEN complained \cup {n} ELSE complained
      /\ fails => refused' = refused \cup {n} /\ linked' = linked
      /\ ~fails => /\ linked' = [m \in DOMAIN linked \cup {n} |-> IF m = n THEN Links(n, parents) ELSE linked[m]]
                   /\ refused' = refused
    BY <1>2, Zenon DEF CreateNode
<1>5. ~fails => /\ DOMAIN linked' = DOMAIN linked \cup {n}
                   /\ \A m \in DOMAIN linked' :
                         linked'[m] = IF m = n THEN Links(n, parents) ELSE linked[m]
    <2> HIDE DEF parents, n
    <2> QED
        BY <1>4
<1>6. DOMAIN linked' \cup refused' = dealt \cup {n} /\ refused \subseteq refused'
    <2> HIDE DEF parents, n
    <2>1. CASE fails = TRUE
        BY <1>4, <2>1
    <2>2. CASE fails = FALSE
        BY <1>4, <1>5, <2>2
    <2> QED
        BY <2>1, <2>2
<1>7. sorted' \in Seq(Node) /\ Topo(sorted, DOMAIN linked \cup refused)'
    <2>1. /\ sorted' \in Seq(Node) /\ Len(sorted') = Len(sorted) - 1
          /\ \A i \in 1..Len(sorted') : sorted'[i] = sorted[i + 1]
        BY <1>1, <1>4
    <2> SUFFICES ASSUME NEW i \in 1..Len(sorted'), NEW d \in deps[sorted[i + 1]]
                 PROVE  d \in dealt \cup {n} \/ \E j \in 1..(i - 1) : sorted'[j] = d
        BY <1>1, <1>6, <2>1 DEF Topo
    <2>2. i + 1 \in 1..Len(sorted)
        BY <1>2, <2>1
    <2>3. d \in dealt \/ \E j \in 1..((i + 1) - 1) : sorted[j] = d
        BY <1>1, <2>2 DEF Topo
    <2>4. ASSUME NEW j \in 1..i, sorted[j] = d PROVE d = n \/ \E k \in 1..(i - 1) : sorted'[k] = d
        <3>1. CASE j = 1
            BY <2>4, <3>1
        <3>2. CASE j # 1
            <4>1. j - 1 \in 1..(i - 1) /\ j - 1 \in 1..Len(sorted') /\ (j - 1) + 1 = j
                BY <1>2, <2>1, <3>2
            <4> QED
                BY <2>1, <2>4, <4>1
        <3> QED
            BY <3>1, <3>2
    <2>5. (i + 1) - 1 = i
        OBVIOUS
    <2> QED
        BY <2>3, <2>4, <2>5
<1>8. /\ complained \subseteq complained' /\ refused' \subseteq complained'
    BY <1>4, Zenon DEF ApplyInv
<1>9. ASSUME NEW m \in DOMAIN linked' PROVE LinkedRight(m)'
    <2> HIDE DEF n, parents
    <2> SUFFICES \E P \in SUBSET deps[m] :
                    /\ linked'[m] = Links(m, P)
                    /\ deps[m] \subseteq P \cup refused'
                    /\ P # deps[m] => m \in complained'
        BY <1>1 DEF LinkedRight, Links
    <2>1. CASE m \in DOMAIN linked /\ linked'[m] = linked[m]
        <3>1. PICK P \in SUBSET deps[m] : /\ linked[m] = Links(m, P)
                                          /\ deps[m] \subseteq P \cup refused
                                          /\ P # deps[m] => m \in complained
            BY <2>1 DEF ApplyInv, LinkedRight
        <3> QED
            BY <1>6, <1>8, <2>1, <3>1
    <2>2. CASE fails = FALSE /\ m = n
        <3>1. parents \in SUBSET deps[n] /\ deps[n] \subseteq parents \cup refused
            BY <1>3 DEF parents
        <3>2. linked'[n] = Links(n, parents) /\ refused' = refused
            BY <1>4, <1>5, <2>2
        <3>3. parents # deps[n] => n \in complained'
            BY <1>4
        <3> QED
            BY <2>2, <3>1, <3>2, <3>3
    <2>3. CASE fails = TRUE
        <3>1. linked' = linked
            BY <1>4, <2>3
        <3> QED
            BY <2>1, <3>1
    <2>4. CASE fails = FALSE /\ m # n
        BY <1>5, <2>1, <2>4
    <2> QED
        BY <2>2, <2>3, <2>4
<1> QED
    BY <1>1, <1>7, <1>8, <1>9 DEF ApplyInv

LEMMA ApplyStep == SearchInv /\ ApplyInv /\ [WorkflowNext]_workflowVars => ApplyInv'
<1> SUFFICES ASSUME SearchInv, ApplyInv, [WorkflowNext]_workflowVars PROVE ApplyInv'
    OBVIOUS
<1>1. ASSUME Start \/ Descend \/ Ascend PROVE ApplyInv'
    BY <1>1 DEF Start, Descend, Ascend, sortVars, applyVars, ApplyInv
<1>2. ASSUME NEW d \in [Node -> SUBSET (Node \cup {Elsewhere})], Submit(d) PROVE ApplyInv'
    <2>1. /\ phase = "idle" /\ phase' \in {"rejected", "search"}
          /\ UNCHANGED <<sorted, linked, complained, refused>>
        BY <1>2 DEF Submit, sortVars, applyVars
    <2>2. sorted = <<>> /\ linked = <<>>
        BY <2>1 DEF ApplyInv
    <2> QED
        BY <2>1, <2>2 DEF ApplyInv
<1>3. CASE Validated
    <2>1. /\ phase = "search" /\ phase' \in {"rejected", "sort"}
          /\ UNCHANGED <<deps, sorted, linked, complained, refused>>
        BY <1>3 DEF Validated, sortVars, applyVars
    <2>2. phase' = "sort" => SortOK'
        BY <1>3, <2>1, SortBegins DEF SearchInv
    <2> QED
        BY <2>1, <2>2 DEF ApplyInv
<1>4. CASE SortNode
    <2>1. /\ phase = "sort" /\ phase' = "sort"
          /\ UNCHANGED <<deps, linked, complained, refused>>
        BY <1>4 DEF SortNode, applyVars
    <2>2. SortOK'
        BY <1>4, <2>1, SortGoesOn DEF SearchInv
    <2> QED
        BY <2>1, <2>2 DEF ApplyInv
<1>5. CASE Sorted
    <2>1. /\ phase = "sort" /\ phase' = "apply"
          /\ UNCHANGED <<deps, linked, complained, refused>>
        BY <1>5 DEF Sorted, applyVars
    <2>2. sorted' \in Seq(Node) /\ Topo(sorted, DOMAIN linked \cup refused)'
        BY <1>5, SortEnds
    <2> QED
        BY <2>1, <2>2 DEF ApplyInv
<1>6. CASE Respond
    <2>1. /\ phase = "apply" /\ phase' = "answered"
          /\ UNCHANGED <<deps, linked, complained, refused>>
        BY <1>6 DEF Respond, applyVars
    <2> QED
        BY <2>1 DEF ApplyInv, LinkedRight
<1>7. CASE UNCHANGED workflowVars
    <2>1. UNCHANGED <<deps, phase, inDegree, queue, sorted, linked, complained, refused>>
        BY <1>7 DEF workflowVars, sortVars, applyVars
    <2>2. SortOK' <=> SortOK
        BY <2>1 DEF SortOK, Topo
    <2>3. Topo(sorted, DOMAIN linked \cup refused)' <=> Topo(sorted, DOMAIN linked \cup refused)
        BY <2>1 DEF Topo
    <2>4. (\A n \in DOMAIN linked : LinkedRight(n))' <=> \A n \in DOMAIN linked : LinkedRight(n)
        BY <2>1 DEF LinkedRight
    <2> QED
        BY <2>1, <2>2, <2>3, <2>4 DEF ApplyInv
<1> QED
    BY <1>1, <1>2, <1>3, <1>4, <1>5, <1>6, <1>7, CreateKeeps DEF WorkflowNext

(* Every node is sorted once and dealt with once: what apply still has to    *)
(* create is what it has not been through.                                   *)
Distinct(s) == \A i, j \in 1..Len(s) : i # j => s[i] # s[j]

OnceInv ==
    /\ phase \in {"idle", "search", "sort"} => linked = <<>> /\ refused = {}
    /\ phase \in {"sort", "apply"} => Distinct(sorted)
    /\ phase = "apply" => ToSet(sorted) = Node \ Dealt
    /\ phase = "answered" => Dealt = Node
    /\ Dealt \subseteq Node /\ DOMAIN linked \cap refused = {}

LEMMA OnceInit == WorkflowInit => OnceInv
BY DEF WorkflowInit, OnceInv, Dealt

(* The queue's head is not sorted yet, so appending it repeats nothing.      *)
LEMMA SortOnce ==
    ASSUME ApplyInv, OnceInv, SortNode
    PROVE  /\ Distinct(sorted)'
           /\ \E n \in Node \ ToSet(sorted) : ToSet(sorted)' = ToSet(sorted) \cup {n}
<1> DEFINE n == queue[1]
<1>1. /\ sorted \in Seq(Node) /\ queue \in Seq(Node) /\ queue # <<>>
      /\ \A i \in 1..Len(queue) : queue[i] \notin ToSet(sorted)
      /\ Distinct(sorted)
    BY DEF ApplyInv, SortOK, OnceInv, SortNode
<1>2. Head(queue) = n /\ n \in Node /\ n \notin ToSet(sorted)
    BY <1>1
<1>3. sorted' = Append(sorted, n)
    BY <1>2 DEF SortNode
<1> HIDE DEF n
<1>4. /\ Len(sorted') = Len(sorted) + 1 /\ Len(sorted) \in Nat
      /\ sorted'[Len(sorted) + 1] = n
      /\ \A i \in 1..Len(sorted) : sorted'[i] = sorted[i] /\ sorted[i] # n
    BY <1>1, <1>2, <1>3 DEF ToSet
<1>5. \A i \in 1..Len(sorted') : i = Len(sorted) + 1 \/ i \in 1..Len(sorted)
    BY <1>4
<1>6. Distinct(sorted)'
    BY <1>1, <1>4, <1>5 DEF Distinct
<1>7. ToSet(sorted)' = ToSet(sorted) \cup {n}
    BY <1>1, <1>2, <1>3, <1>4, <1>5 DEF ToSet
<1> QED
    BY <1>2, <1>6, <1>7

(* One round of the loop takes the head off the list.                        *)
LEMMA CreateOnce ==
    ASSUME ApplyInv, OnceInv, NEW fails \in BOOLEAN, CreateNode(fails)
    PROVE  /\ OnceInv'
           /\ \E n \in Node \ Dealt : Dealt' = Dealt \cup {n}
<1> DEFINE n == sorted[1]
           parents == deps[n] \cap DOMAIN linked
<1>1. /\ phase = "apply" /\ phase' = "apply" /\ sorted # <<>> /\ sorted \in Seq(Node)
      /\ Distinct(sorted) /\ ToSet(sorted) = Node \ Dealt
      /\ Dealt \subseteq Node /\ DOMAIN linked \cap refused = {}
    BY DEF CreateNode, ApplyInv, OnceInv
<1>2. /\ Head(sorted) = n /\ n \in Node /\ 1 \in 1..Len(sorted) /\ Len(sorted) \in Nat
      /\ n \in ToSet(sorted)
    BY <1>1 DEF ToSet
<1>3. /\ sorted' = Tail(sorted)
      /\ fails => refused' = refused \cup {n} /\ linked' = linked
      /\ ~fails => /\ linked' = [m \in DOMAIN linked \cup {n} |-> IF m = n THEN Links(n, parents) ELSE linked[m]]
                   /\ refused' = refused
    BY <1>2, Zenon DEF CreateNode
<1> HIDE DEF parents, n
<1>4. n \in Node \ Dealt
    BY <1>1, <1>2
<1>5. \/ DOMAIN linked' = DOMAIN linked \cup {n} /\ refused' = refused
      \/ DOMAIN linked' = DOMAIN linked /\ refused' = refused \cup {n}
    <2>1. CASE fails = TRUE
        BY <1>3, <2>1
    <2>2. CASE fails = FALSE
        BY <1>3, <2>2
    <2> QED
        BY <2>1, <2>2
<1>6. Dealt' = Dealt \cup {n} /\ (DOMAIN linked \cap refused)' = {}
    BY <1>1, <1>4, <1>5 DEF Dealt
<1>7. /\ Len(sorted') = Len(sorted) - 1 /\ sorted' \in Seq(Node)
      /\ \A i \in 1..Len(sorted') : sorted'[i] = sorted[i + 1] /\ i + 1 \in 1..Len(sorted)
      /\ \A i \in 1..Len(sorted) : i = 1 \/ (i - 1 \in 1..Len(sorted') /\ sorted'[i - 1] = sorted[i])
    <2>1. /\ Len(sorted') = Len(sorted) - 1 /\ sorted' \in Seq(Node)
          /\ \A i \in 1..Len(sorted') : sorted'[i] = sorted[i + 1]
        BY <1>1, <1>3
    <2>2. \A i \in 1..Len(sorted') : i + 1 \in 1..Len(sorted)
        BY <1>2, <2>1
    <2>3. ASSUME NEW i \in 1..Len(sorted), i # 1
          PROVE  i - 1 \in 1..Len(sorted') /\ sorted'[i - 1] = sorted[i]
        <3>1. i - 1 \in 1..Len(sorted') /\ (i - 1) + 1 = i
            BY <1>2, <2>1, <2>3
        <3> QED
            BY <2>1, <3>1
    <2> QED
        BY <2>1, <2>2, <2>3
<1>8. sorted[1] = n
    BY DEF n
<1>9. Distinct(sorted)'
    <2> SUFFICES ASSUME NEW i \in 1..Len(sorted'), NEW j \in 1..Len(sorted'), i # j
                 PROVE  sorted'[i] # sorted'[j]
        BY DEF Distinct
    <2>1. i + 1 # j + 1
        OBVIOUS
    <2> QED
        BY <1>1, <1>7, <2>1 DEF Distinct
<1>10. ToSet(sorted)' = ToSet(sorted) \ {n}
    <2>1. \A i \in 1..Len(sorted') : i + 1 # 1
        OBVIOUS
    <2>2. \A i \in 1..Len(sorted') : sorted'[i] # n
        BY <1>1, <1>2, <1>7, <1>8, <2>1 DEF Distinct
    <2>3. ASSUME NEW x \in ToSet(sorted), x # n PROVE x \in ToSet(sorted')
        <3>1. PICK i \in 1..Len(sorted) : sorted[i] = x
            BY <1>1 DEF ToSet
        <3> QED
            BY <1>7, <1>8, <2>3, <3>1 DEF ToSet
    <2>4. ASSUME NEW x \in ToSet(sorted') PROVE x \in ToSet(sorted) /\ x # n
        <3>1. PICK i \in 1..Len(sorted') : sorted'[i] = x
            BY <1>7 DEF ToSet
        <3>2. sorted[i + 1] = x /\ i + 1 \in 1..Len(sorted)
            BY <1>7, <3>1
        <3>3. x \in ToSet(sorted)
            BY <1>1, <3>2 DEF ToSet
        <3> QED
            BY <2>2, <3>1, <3>3
    <2> QED
        BY <2>3, <2>4
<1>11. ToSet(sorted)' = Node \ Dealt' /\ Dealt' \subseteq Node
    BY <1>1, <1>4, <1>6, <1>10
<1>12. OnceInv'
    BY <1>1, <1>6, <1>9, <1>11 DEF OnceInv
<1> QED
    BY <1>4, <1>6, <1>12

LEMMA OnceStep ==
    SearchInv /\ ApplyInv /\ OnceInv /\ [WorkflowNext]_workflowVars => OnceInv'
<1> SUFFICES ASSUME SearchInv, ApplyInv, OnceInv, [WorkflowNext]_workflowVars
             PROVE  OnceInv'
    OBVIOUS
<1>1. ASSUME Start \/ Descend \/ Ascend PROVE OnceInv'
    BY <1>1 DEF Start, Descend, Ascend, sortVars, applyVars, OnceInv, Dealt
<1>2. ASSUME NEW d \in [Node -> SUBSET (Node \cup {Elsewhere})], Submit(d) PROVE OnceInv'
    <2>1. /\ phase = "idle" /\ phase' \in {"rejected", "search"}
          /\ UNCHANGED <<sorted, linked, refused>>
        BY <1>2 DEF Submit, sortVars, applyVars
    <2> QED
        BY <2>1 DEF OnceInv, Dealt
<1>3. CASE Validated
    <2>1. /\ phase = "search" /\ phase' \in {"rejected", "sort"}
          /\ UNCHANGED <<sorted, linked, refused>> /\ sorted = <<>>
        BY <1>3 DEF Validated, sortVars, applyVars, ApplyInv
    <2> QED
        BY <2>1 DEF OnceInv, Distinct, Dealt
<1>4. CASE SortNode
    <2>1. phase = "sort" /\ phase' = "sort" /\ UNCHANGED <<linked, refused>>
        BY <1>4 DEF SortNode, applyVars
    <2> QED
        BY <1>4, <2>1, SortOnce DEF OnceInv, Dealt
<1>5. CASE Sorted
    <2>1. /\ phase = "sort" /\ phase' = "apply" /\ UNCHANGED <<linked, refused>>
        BY <1>5 DEF Sorted, applyVars
    <2>2. sorted' = sorted /\ ToSet(sorted) = Node
        BY <1>5, SortEnds
    <2> QED
        BY <2>1, <2>2 DEF OnceInv, Dealt, Distinct
<1>6. CASE Respond
    <2>1. /\ phase = "apply" /\ phase' = "answered" /\ sorted = <<>>
          /\ UNCHANGED <<sorted, linked, refused>>
        BY <1>6 DEF Respond, sortVars, applyVars
    <2>2. Dealt = Node
        <3>1. ToSet(sorted) = {} /\ ToSet(sorted) = Node \ Dealt
            BY <2>1 DEF OnceInv, ToSet
        <3>2. Dealt \subseteq Node
            BY DEF OnceInv
        <3> QED
            BY <3>1, <3>2
    <2> QED
        BY <2>1, <2>2 DEF OnceInv, Dealt
<1>7. CASE UNCHANGED workflowVars
    BY <1>7 DEF workflowVars, sortVars, applyVars, OnceInv, Dealt, Distinct
<1>8. ASSUME NEW f \in BOOLEAN, CreateNode(f) PROVE OnceInv'
    BY <1>8, CreateOnce
<1> QED
    BY <1>1, <1>2, <1>3, <1>4, <1>5, <1>6, <1>7, <1>8 DEF WorkflowNext

WorkflowInv == SearchInv /\ ApplyInv /\ OnceInv

LEMMA WorkflowInvHolds ==
    /\ Init => WorkflowInv
    /\ WorkflowInv /\ [Next]_vars => WorkflowInv'
BY ServiceStep, SearchInit_Inv, ApplyInit, OnceInit, SearchStep, ApplyStep, OnceStep
   DEF Init, WorkflowInv

(* An answer whose errors do not name a task has created it whole.           *)
LEMMA SilenceSound == ApplyInv /\ OnceInv => SilenceMeansWhole
<1> SUFFICES ASSUME ApplyInv, OnceInv, phase = "answered", NEW n \in Node \ complained
             PROVE  n \in DOMAIN linked /\ linked[n] = Links(n, deps[n])
    BY DEF SilenceMeansWhole
<1>1. n \in DOMAIN linked
    BY DEF ApplyInv, OnceInv, Dealt
<1>2. PICK P \in SUBSET deps[n] : linked[n] = Links(n, P) /\ (P # deps[n] => n \in complained)
    BY <1>1 DEF ApplyInv, LinkedRight
<1> QED
    BY <1>1, <1>2

(* Of workflows: whatever graph is submitted and whatever conditions its     *)
(* edges carry, it is refused for a cycle exactly when it has one, every     *)
(* other one is sorted completely, each of its tasks is created or refused   *)
(* once, a parent is missing only where its creation raised, and a task that *)
(* the errors do not name is created with every link and condition it was    *)
(* given (workflow.py).                                                      *)
THEOREM WorkflowsAreSound == Spec => []WorkflowSound
<1>1. Init => WorkflowInv
    BY WorkflowInvHolds
<1>2. WorkflowInv /\ [Next]_vars => WorkflowInv'
    BY WorkflowInvHolds
<1>3. WorkflowInv => WorkflowSound
    BY SearchSound, ApplySound, SilenceSound
       DEF WorkflowInv, WorkflowSound, OnceInv, EveryNodeOnce
<1> QED
    BY <1>1, <1>2, <1>3, PTL DEF Spec

(* Sets of nodes have at most NumNodes members, and one less without one.    *)
LEMMA NodeCount ==
    ASSUME NEW S \in SUBSET Node
    PROVE  /\ Cardinality(S) \in Nat /\ Cardinality(S) <= NumNodes
           /\ Cardinality(Node) = NumNodes /\ NumNodes \in Nat /\ NumNodes # 0
           /\ \A n \in S : Cardinality(S \ {n}) = Cardinality(S) - 1
           /\ \A n \in Node \ S : Cardinality(S \cup {n}) = Cardinality(S) + 1
<1>1. IsFiniteSet(Node) /\ NumNodes \in Nat \ {0}
    BY FS_Interval, WorkflowAssumption DEF Node
<1>2. Cardinality(Node) = NumNodes
    BY <1>1, FS_Interval DEF Node
<1>3. IsFiniteSet(S) /\ Cardinality(S) <= Cardinality(Node) /\ Cardinality(S) \in Nat
    BY <1>1, FS_Subset, FS_CardinalityType
<1> QED
    BY <1>1, <1>2, <1>3, FS_RemoveElement, FS_AddElement

(* A node that is called turns from white to grey, and from grey to black    *)
(* when its call returns: the two counts of WorkLeft fall by one together.   *)
LEMMA CallShrinks ==
    ASSUME colour \in [Node -> {"white", "grey", "black"}], NEW n \in Node,
           phase = "search", phase' = phase,
           \/ colour[n] = "white" /\ colour' = [colour EXCEPT ![n] = "grey"]
           \/ colour[n] = "grey" /\ colour' = [colour EXCEPT ![n] = "black"]
    PROVE  WorkLeft' < WorkLeft
<1> DEFINE w == Cardinality(Coloured("white"))
           g == Cardinality(Coloured("grey"))
<1>1. /\ Coloured("white") \in SUBSET Node /\ Coloured("grey") \in SUBSET Node
      /\ w \in Nat /\ g \in Nat /\ NumNodes \in Nat
    BY NodeCount DEF Coloured
<1>2. /\ WorkLeft = 2 * NumNodes + 3 + 2 * w + g
      /\ WorkLeft' = 2 * NumNodes + 3 + 2 * w' + g'
    BY DEF WorkLeft
<1>3. CASE colour[n] = "white" /\ colour' = [colour EXCEPT ![n] = "grey"]
    <2>1. /\ Coloured("white")' = Coloured("white") \ {n} /\ n \in Coloured("white")
          /\ Coloured("grey")' = Coloured("grey") \cup {n} /\ n \in Node \ Coloured("grey")
        BY <1>3 DEF Coloured
    <2>2. w' = w - 1 /\ g' = g + 1
        BY <1>1, <2>1, NodeCount
    <2> HIDE DEF w, g
    <2> QED
        BY <1>1, <1>2, <2>2
<1>4. CASE colour[n] = "grey" /\ colour' = [colour EXCEPT ![n] = "black"]
    <2>1. /\ Coloured("white")' = Coloured("white")
          /\ Coloured("grey")' = Coloured("grey") \ {n} /\ n \in Coloured("grey")
        BY <1>4 DEF Coloured
    <2>2. w' = w /\ g' = g - 1
        BY <1>1, <2>1, NodeCount
    <2> HIDE DEF w, g
    <2> QED
        BY <1>1, <1>2, <2>2
<1> QED
    BY <1>3, <1>4

LEMMA WorkShrinks ==
    WorkflowInv /\ [WorkflowNext]_workflowVars => [WorkLeft' < WorkLeft]_workflowVars
<1> SUFFICES ASSUME SearchInv, ApplyInv, OnceInv, WorkflowNext
             PROVE  WorkLeft' < WorkLeft
    BY DEF WorkflowInv
<1>0. /\ NumNodes \in Nat /\ NumNodes # 0 /\ Cardinality(Node) = NumNodes
      /\ \A S \in SUBSET Node : Cardinality(S) \in Nat /\ Cardinality(S) <= NumNodes
      /\ colour \in [Node -> {"white", "grey", "black"}]
    BY NodeCount DEF SearchInv
<1>1. ASSUME NEW d \in [Node -> SUBSET (Node \cup {Elsewhere})], Submit(d)
      PROVE  WorkLeft' < WorkLeft
    <2>1. /\ phase = "idle" /\ phase' \in {"search", "rejected"} /\ colour' = colour
          /\ \A n \in Node : colour[n] = "white"
        BY <1>1 DEF Submit, searchVars, SearchInv
    <2>2. Coloured("white")' = Node /\ Coloured("grey")' = {}
        BY <2>1 DEF Coloured
    <2>3. Cardinality({}) = 0
        BY FS_EmptySet
    <2> QED
        BY <1>0, <2>1, <2>2, <2>3 DEF WorkLeft
<1>2. CASE Start
    <2>1. PICK n \in Node : colour[n] = "white" /\ colour' = [colour EXCEPT ![n] = "grey"]
        BY <1>2, StartCalls
    <2> QED
        BY <1>0, <1>2, <2>1, CallShrinks DEF Start
<1>3. CASE Descend
    <2>1. PICK n \in Node : colour[n] = "white" /\ colour' = [colour EXCEPT ![n] = "grey"]
        BY <1>3, DescendCalls
    <2> QED
        BY <1>0, <1>3, <2>1, CallShrinks DEF Descend
<1>4. CASE Ascend
    <2> DEFINE n == path[1]
    <2>1. phase = "search" /\ phase' = phase /\ path \in Seq(Node) /\ path # <<>>
        BY <1>4 DEF Ascend, SearchInv, PathOK
    <2>2. n \in Node /\ Head(path) = n /\ 1 \in 1..Len(path)
        BY <2>1
    <2>3. colour[n] = "grey"
        BY <2>1, <2>2 DEF SearchInv, PathOK
    <2>4. colour' = [colour EXCEPT ![n] = "black"]
        BY <1>4, <2>2 DEF Ascend
    <2> HIDE DEF n
    <2> QED
        BY <1>0, <2>1, <2>2, <2>3, <2>4, CallShrinks
<1>5. CASE Validated
    <2>1. /\ phase = "search" /\ phase' \in {"rejected", "sort"} /\ sorted' = sorted
        BY <1>5 DEF Validated, sortVars
    <2>2. /\ Coloured("white") \in SUBSET Node /\ Coloured("grey") \in SUBSET Node
          /\ Node \ ToSet(sorted') \in SUBSET Node
        BY DEF Coloured
    <2> QED
        BY <1>0, <2>1, <2>2 DEF WorkLeft
<1>6. CASE SortNode
    <2>1. phase = "sort" /\ phase' = "sort"
        BY <1>6 DEF SortNode
    <2>2. PICK n \in Node \ ToSet(sorted) : ToSet(sorted') = ToSet(sorted) \cup {n}
        BY <1>6, SortOnce
    <2>3. Node \ ToSet(sorted') = (Node \ ToSet(sorted)) \ {n}
        BY <2>2
    <2>4. Cardinality(Node \ ToSet(sorted')) = Cardinality(Node \ ToSet(sorted)) - 1
        BY <2>2, <2>3, NodeCount
    <2> QED
        BY <1>0, <2>1, <2>4 DEF WorkLeft
<1>7. CASE Sorted
    <2>1. phase = "sort" /\ phase' = "apply"
        BY <1>7 DEF Sorted
    <2>2. Node \ ToSet(sorted) \in SUBSET Node /\ Node \ Dealt' \in SUBSET Node
        OBVIOUS
    <2> QED
        BY <1>0, <2>1, <2>2 DEF WorkLeft
<1>8. ASSUME NEW f \in BOOLEAN, CreateNode(f) PROVE WorkLeft' < WorkLeft
    <2>1. phase = "apply" /\ phase' = "apply"
        BY <1>8 DEF CreateNode
    <2>2. PICK n \in Node \ Dealt : Dealt' = Dealt \cup {n}
        BY <1>8, CreateOnce
    <2>3. Node \ Dealt' = (Node \ Dealt) \ {n}
        BY <2>2
    <2>4. Cardinality(Node \ Dealt') = Cardinality(Node \ Dealt) - 1
        BY <2>2, <2>3, NodeCount
    <2> QED
        BY <1>0, <2>1, <2>4 DEF WorkLeft
<1>9. CASE Respond
    <2>1. phase = "apply" /\ phase' = "answered"
        BY <1>9 DEF Respond
    <2>2. Node \ Dealt \in SUBSET Node
        OBVIOUS
    <2> QED
        BY <1>0, <2>1, <2>2 DEF WorkLeft
<1> QED
    BY <1>1, <1>2, <1>3, <1>4, <1>5, <1>6, <1>7, <1>8, <1>9 DEF WorkflowNext

LEMMA WorkIsNatural == WorkflowInv => WorkLeft \in Nat
<1> SUFFICES ASSUME WorkflowInv PROVE WorkLeft \in Nat
    OBVIOUS
<1>1. /\ NumNodes \in Nat /\ \A S \in SUBSET Node : Cardinality(S) \in Nat
      /\ phase \in {"idle", "rejected", "search", "sort", "apply", "answered"}
    BY NodeCount DEF WorkflowInv, SearchInv
<1>2. /\ Coloured("white") \in SUBSET Node /\ Coloured("grey") \in SUBSET Node
      /\ Node \ ToSet(sorted) \in SUBSET Node /\ Node \ Dealt \in SUBSET Node
    BY DEF Coloured
<1> QED
    BY <1>1, <1>2 DEF WorkLeft

(* Whatever graph is submitted, its request is done after at most            *)
(* 4 * NumNodes + 4 steps of the search, the sort and the creations: each    *)
(* leaves less to do (workflow.py).                                          *)
THEOREM WorkflowsEnd == Spec => [](WorkLeft \in Nat) /\ WorkflowShrinks
<1>1. Init => WorkflowInv
    BY WorkflowInvHolds
<1>2. WorkflowInv /\ [Next]_vars => WorkflowInv'
    BY WorkflowInvHolds
<1>3. WorkflowInv /\ [Next]_vars => [WorkLeft' < WorkLeft]_workflowVars
    BY ServiceStep, WorkShrinks
<1>4. WorkflowInv => WorkLeft \in Nat
    BY WorkIsNatural
<1> QED
    BY <1>1, <1>2, <1>3, <1>4, PTL DEF Spec, WorkflowShrinks

(* In every order of the services' steps a file lock stays with its holder   *)
(* while its lease runs, is a lease and is never handed on, and a workflow   *)
(* comes nearer its end (shared_workspace.py, workflow.py).                  *)
THEOREM ServiceStepsAreKept == ASSUME Threads = 1 PROVE Spec => ServiceStepsKept
<1>1. Init => WsInit
    BY DEF Init
<1>2. [Next]_vars => [WsNext]_wsVars
    BY ServiceStep
<1>3. Spec => WsSpec
    BY <1>1, <1>2, PTL DEF Spec, WsSpec
<1> QED
    BY <1>3, LocksAreKept, WorkflowsEnd DEF ServiceStepsKept

-----------------------------------------------------------------------------
(* The runs of the opencode agent. *)

CliTypeOK ==
    /\ pc \in [CRun -> {"free", "ack", "begin", "spawn", "cli", "settle", "report",
                        "except", "raised", "over"}]
    /\ id \in [CRun -> CTask \cup {NoTask}]
    /\ process \in [CRun -> {"none", "alive", "dead"}]
    /\ reporter \in [CRun -> {"none", "asleep", "ended"}]
    /\ cancelEvents \in [CTask -> CRun \cup {NoRun}]
    /\ running \in [CTask -> CRun \cup {NoRun}]
    /\ procs \in [CTask -> CRun \cup {NoRun}]

(* A run has an id once it has begun, and the maps lead to runs of that id.  *)
IdsOK ==
    /\ \A r \in CRun : pc[r] = "free" <=> id[r] = NoTask
    /\ \A r \in CRun : r \in http => pc[r] \in {"spawn", "cli", "over"}
    /\ \A r \in CRun : r \in cancelled => pc[r] # "free"
    /\ \A t \in CTask : running[t] # NoRun => id[running[t]] = t /\ running[t] \notin http
    /\ \A t \in CTask : cancelEvents[t] # NoRun => id[cancelEvents[t]] = t
    /\ \A t \in CTask : procs[t] # NoRun => id[procs[t]] = t

(* A living process belongs to a run that awaits it.  A run whose id was not *)
(* sent again is the one its maps lead to, and when its coroutine was        *)
(* cancelled its event was set before.                                       *)
ProcessOK == \A r \in CRun : process[r] = "alive" =>
    pc[r] = "cli" /\ (Alone(r) => procs[id[r]] = r)
ReporterOK == \A r \in CRun : reporter[r] = "asleep" =>
    /\ r \notin http
    /\ pc[r] \in {"spawn", "cli", "settle", "except", "over"}
    /\ pc[r] = "over" /\ Alone(r) => r \in set
EventOK == \A r \in CRun :
    r \notin http /\ Alone(r) /\ pc[r] \in {"begin", "spawn", "cli"} =>
        /\ cancelEvents[id[r]] = r
        /\ r \in cancelled => r \in set

CliInv == CliTypeOK /\ IdsOK /\ ProcessOK /\ ReporterOK /\ EventOK

LEMMA CliInit_Inv == CliInit => CliInv
BY CliAssumption DEF CliInit, CliInv, CliTypeOK, IdsOK, ProcessOK, ReporterOK, EventOK

(* A new run makes no other run the only one of its id. *)
LEMMA CliArrivals ==
    ASSUME CliInv, NEW r \in CRun, NEW t \in CTask,
           ReceiveTask(r, t) \/ HandleSendTask(r, t)
    PROVE  CliInv'
<1> USE CliAssumption
<1>1. /\ pc[r] = "free" /\ id' = [id EXCEPT ![r] = t]
      /\ UNCHANGED <<process, set, reporter, cancelled, cancelEvents, procs>>
    BY DEF ReceiveTask, HandleSendTask, cliMaps
<1>2. \A q \in CRun : q # r => id'[q] = id[q]
    BY <1>1 DEF CliInv, CliTypeOK
<1>3. id'[r] = t /\ id[r] = NoTask
    BY <1>1 DEF CliInv, CliTypeOK, IdsOK
<1>4. \A q \in CRun : q # r /\ id[q] # NoTask /\ Alone(q)' => Alone(q)
    BY <1>2, <1>3 DEF Alone
<1>5. \A q \in CRun : q # r => pc'[q] = pc[q] /\ (q \in http' <=> q \in http)
    BY <1>1 DEF ReceiveTask, HandleSendTask, cliMaps, CliInv, CliTypeOK
<1>6. CliTypeOK'
    BY <1>1 DEF ReceiveTask, HandleSendTask, cliMaps, CliInv, CliTypeOK
<1>7. pc'[r] \in {"ack", "spawn"} /\ (pc'[r] = "spawn" => r \in http') /\ (r \in http' => pc'[r] = "spawn")
    BY <1>1 DEF ReceiveTask, HandleSendTask, cliMaps, CliInv, CliTypeOK, IdsOK
<1>8. \A x \in CTask : running'[x] # NoRun =>
        \/ running'[x] = running[x] /\ running[x] # NoRun
        \/ x = t /\ running'[x] = r /\ r \notin http'
    BY <1>1 DEF ReceiveTask, HandleSendTask, cliMaps, CliInv, CliTypeOK, IdsOK
<1>9. \A x \in CTask : /\ running[x] # NoRun => running[x] \in CRun /\ running[x] # r
                       /\ cancelEvents[x] # NoRun => cancelEvents[x] \in CRun /\ cancelEvents[x] # r
                       /\ procs[x] # NoRun => procs[x] \in CRun /\ procs[x] # r
    BY <1>3 DEF CliInv, CliTypeOK, IdsOK
<1>10. IdsOK'
    <2>1. \A q \in CRun : pc'[q] = "free" <=> id'[q] = NoTask
        BY <1>2, <1>3, <1>5, <1>7 DEF CliInv, IdsOK
    <2>2. \A q \in CRun : /\ q \in http' => pc'[q] \in {"spawn", "cli", "over"}
                          /\ q \in cancelled' => pc'[q] # "free"
        BY <1>1, <1>5, <1>7 DEF CliInv, IdsOK
    <2>3. \A x \in CTask : running'[x] # NoRun => id'[running'[x]] = x /\ running'[x] \notin http'
        BY <1>2, <1>3, <1>5, <1>8, <1>9 DEF CliInv, IdsOK
    <2>4. \A x \in CTask : /\ cancelEvents'[x] # NoRun => id'[cancelEvents'[x]] = x
                           /\ procs'[x] # NoRun => id'[procs'[x]] = x
        BY <1>1, <1>2, <1>9 DEF CliInv, IdsOK
    <2> QED
        BY <2>1, <2>2, <2>3, <2>4 DEF IdsOK
<1>11. \A q \in CRun : id[q] = NoTask <=> pc[q] = "free"
    BY DEF CliInv, IdsOK
<1>12. ProcessOK'
    BY <1>1, <1>2, <1>4, <1>5, <1>11 DEF CliInv, ProcessOK
<1>13. ReporterOK'
    BY <1>1, <1>2, <1>4, <1>5, <1>11 DEF CliInv, ReporterOK
<1>14. EventOK'
    BY <1>1, <1>2, <1>4, <1>5, <1>7, <1>11 DEF CliInv, EventOK
<1> QED
    BY <1>6, <1>10, <1>12, <1>13, <1>14 DEF CliInv

(* A step of a run writes under its own id only, which no run that is alone  *)
(* shares.                                                                   *)
LEMMA CliSteps ==
    ASSUME CliInv, NEW r \in CRun, CliStep(r) \/ ReporterWakes(r)
    PROVE  CliInv'
<1> USE CliAssumption
<1>0. id' = id
    BY DEF CliStep, ReporterWakes, Acked, ProgressSent, Spawned, SpawnFails, CliReturns,
           Settled, SettleTimesOut, Excepted, ReportTask, CancelArrives
<1>1. \A q \in CRun : Alone(q)' <=> Alone(q)
    BY <1>0 DEF Alone
<1>2. \A q \in CRun : q # r /\ Alone(q) => id[q] # id[r]
    BY DEF Alone
<1>3. pc[r] # "free" => id[r] \in CTask
    BY DEF CliInv, CliTypeOK, IdsOK
<1> USE DEF CliInv, CliTypeOK, IdsOK, ProcessOK, ReporterOK, EventOK
<1>4. CASE Acked(r)
    BY <1>0, <1>1, <1>2, <1>3, <1>4 DEF Acked, Live
<1>5. CASE ProgressSent(r)
    BY <1>0, <1>1, <1>2, <1>3, <1>5 DEF ProgressSent, Live, cliMaps
<1>6. CASE Spawned(r)
    BY <1>0, <1>1, <1>2, <1>3, <1>6 DEF Spawned, Live
<1>7. CASE SpawnFails(r)
    BY <1>0, <1>1, <1>2, <1>3, <1>7 DEF SpawnFails, Live, cliMaps
<1>8. ASSUME NEW res, CliReturns(r, res) PROVE CliInv'
    BY <1>0, <1>1, <1>2, <1>3, <1>8 DEF CliReturns, Live, Pop
<1>9. CASE Settled(r)
    BY <1>0, <1>1, <1>2, <1>3, <1>9 DEF Settled, Live, Pop
<1>10. CASE SettleTimesOut(r)
    BY <1>0, <1>1, <1>2, <1>3, <1>10 DEF SettleTimesOut, Live, cliMaps
<1>11. CASE Excepted(r)
    BY <1>0, <1>1, <1>2, <1>3, <1>11 DEF Excepted, Live, Pop
<1>12. CASE ReportTask(r)
    BY <1>0, <1>1, <1>2, <1>3, <1>12 DEF ReportTask, Live, cliMaps
<1>13. CASE CancelArrives(r)
    BY <1>0, <1>1, <1>2, <1>3, <1>13 DEF CancelArrives, Pop
<1>14. CASE ReporterWakes(r)
    BY <1>0, <1>1, <1>2, <1>3, <1>14 DEF ReporterWakes, cliMaps
<1> QED
    BY <1>4, <1>5, <1>6, <1>7, <1>8, <1>9, <1>10, <1>11, <1>12, <1>13, <1>14 DEF CliStep

(* A task_cancel finds event, coroutine and process of a run that is alone.  *)
LEMMA CliCancels == ASSUME CliInv, NEW t \in CTask, TaskCancel(t) PROVE CliInv'
<1> USE CliAssumption DEF CliInv, CliTypeOK, IdsOK
<1>1. /\ UNCHANGED <<pc, id, http, reporter, cancelEvents>>
      /\ set \subseteq set' /\ cancelled \subseteq cancelled'
      /\ running' = [running EXCEPT ![t] = NoRun] /\ procs' = [procs EXCEPT ![t] = NoRun]
    BY DEF TaskCancel, Pop
<1>2. \A q \in CRun : Alone(q)' <=> Alone(q)
    BY <1>1 DEF Alone
<1>3. \A q \in CRun : q \in cancelled' => q \in cancelled \/ (q = running[t] /\ running[t] # NoRun)
    BY DEF TaskCancel
<1>4. cancelEvents[t] # NoRun => cancelEvents[t] \in set'
    BY DEF TaskCancel
<1>5. /\ process' \in [CRun -> {"none", "alive", "dead"}]
      /\ \A q \in CRun : process'[q] = "alive" => process[q] = "alive" /\ procs[t] # q
    BY DEF TaskCancel
<1>6. CliTypeOK' /\ IdsOK'
    BY <1>1, <1>3, <1>5
<1>7. ProcessOK'
    BY <1>1, <1>2, <1>5 DEF ProcessOK
<1>8. ReporterOK'
    BY <1>1, <1>2 DEF ReporterOK
<1>9. EventOK'
    BY <1>1, <1>2, <1>3, <1>4 DEF EventOK
<1> QED
    BY <1>6, <1>7, <1>8, <1>9

LEMMA CliNext_Inv == CliInv /\ [CliNext]_cliVars => CliInv'
<1>1. ASSUME CliInv, UNCHANGED cliVars \/ LinkTurns PROVE CliInv'
    <2>1. UNCHANGED <<pc, id, http, process, set, reporter, cancelled, cancelEvents, running, procs>>
        BY <1>1 DEF cliVars, cliMaps, LinkTurns
    <2>2. \A q \in CRun : Alone(q)' <=> Alone(q)
        BY <2>1 DEF Alone
    <2> QED
        BY <1>1, <2>1, <2>2 DEF CliInv, CliTypeOK, IdsOK, ProcessOK, ReporterOK, EventOK
<1> QED
    BY <1>1, CliArrivals, CliSteps, CliCancels DEF CliNext

(* Whatever breaks, is cancelled or times out, no run of the agent leaves a   *)
(* process that nobody can kill or a reporter that does not stop, unless its  *)
(* id was sent twice (examples/a2a_opencode_agent.py, process_ws_task), for   *)
(* any runs and ids.                                                          *)
THEOREM CliRunsAreAccounted == Spec => []CliRunsAccounted
<1>1. Init => CliInv
    BY CliInit_Inv DEF Init
<1>2. CliInv /\ [Next]_vars => CliInv'
    BY ServiceStep, CliNext_Inv
<1>3. CliInv => CliRunsAccounted
    BY DEF CliInv, CliTypeOK, ProcessOK, ReporterOK, CliRunsAccounted, ProcessInReach,
           OverHasNoProcess, ReporterTold
<1> QED
    BY <1>1, <1>2, <1>3, PTL DEF Spec
=============================================================================
