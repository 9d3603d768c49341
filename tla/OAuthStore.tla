----------------------------- MODULE OAuthStore -----------------------------
(* OAuth clients, authorization codes and token records: store.Store, the    *)
(* token endpoint of auth.AuthHandler and the client routes of               *)
(* server.AdminHandler.  Each is one transaction, or a handler without an    *)
(* await after its body was read.  Signatures are outside the model: a token *)
(* is the record of what was signed.                                         *)
EXTENDS Naturals, FiniteSets

CONSTANTS
    OClient, Code, Jti,     \* identifiers, each used once
    Service,                \* the registry's own service account
    AllScopes               \* the keys of SCOPES

(* A scope is what a client is registered with: one of SCOPES, or a name the *)
(* registry does not know, which only an agent card brings in.               *)
Scope == AllScopes \cup {"unknown"}

ASSUME ServiceAssumption ==
    /\ Service \in OClient /\ AllScopes # {} /\ "none" \notin Code
    /\ "unknown" \notin AllScopes

VARIABLES
    oclient,    \* [OClient -> its row: scopes, whether a card asked for it]
    code,       \* [Code -> the row of auth_codes, or NoCode]
    signed,     \* tokens that were ever signed
    tokenRow    \* jtis in oauth_tokens

oauthVars == <<oclient, code, signed, tokenRow>>

NoCode == [client |-> "none", scope |-> {}, old |-> FALSE]
Issued(j) == \E t \in signed : t.jti = j
Clients == {c \in OClient : oclient[c].live}

OAuthInit ==
    /\ oclient = [c \in OClient |->
                    IF c = Service
                      THEN [live |-> TRUE, used |-> TRUE, card |-> FALSE, scopes |-> AllScopes]
                      ELSE [live |-> FALSE, used |-> FALSE, card |-> FALSE, scopes |-> {}]]
    /\ code = [k \in Code |-> NoCode]
    /\ signed = {}
    /\ tokenRow = {}

(* register_client; an empty list of scopes means all of them. *)
AddClient(c, S, card) ==
    /\ ~oclient[c].used
    /\ oclient' = [oclient EXCEPT ![c] =
                    [live |-> TRUE, used |-> TRUE, card |-> card,
                     scopes |-> IF S = {} THEN AllScopes ELSE S]]
    /\ UNCHANGED <<code, signed, tokenRow>>

(* Two of the routes that add a client refuse a scope they do not know; the  *)
(* one for admins refuses an empty list too, and takes S = {} for no list.   *)
CreateClient(c, S) == S \subseteq AllScopes /\ AddClient(c, S, FALSE)
RegisterClient(c, S) == S \subseteq AllScopes /\ AddClient(c, S, FALSE)

(* The third is the registration of an agent whose card lists OAuth flows:   *)
(* the client gets the scopes of the card, which nothing compares with       *)
(* SCOPES.                                                                   *)
RegisterAgentClient(c, S) == AddClient(c, S, TRUE)

(* delete_client: the token records go first, in the same transaction.       *)
RemoveClient(c) ==
    /\ tokenRow' = {j \in tokenRow : ~\E t \in signed : t.jti = j /\ t.client = c}
    /\ oclient' = [oclient EXCEPT ![c].live = FALSE]
    /\ UNCHANGED <<code, signed>>

(* The route keeps the registry's own account.                               *)
DeleteClient(c) == c # Service /\ c \in Clients /\ RemoveClient(c)

(* create_token and record_token. *)
Sign(c, S, j, k) ==
    /\ ~Issued(j)
    /\ signed' = signed \cup {[jti |-> j, client |-> c, scope |-> S, code |-> k]}
    /\ tokenRow' = tokenRow \cup {j}

(* grant_type=client_credentials: no scope parameter means all allowed ones, *)
(* and a blank one asks for none and is granted.                             *)
ClientCredentials(c, given, S, j) ==
    /\ c \in Clients
    /\ S \subseteq oclient[c].scopes
    /\ Sign(c, IF given THEN S ELSE oclient[c].scopes, j, "none")
    /\ UNCHANGED <<oclient, code>>

(* The caller of the store chooses the scope of a code. *)
CreateAuthCode(c, k, S) ==
    /\ c \in Clients /\ code[k] = NoCode /\ ~\E t \in signed : t.code = k
    /\ code' = [code EXCEPT ![k] = [client |-> c, scope |-> S, old |-> FALSE]]
    /\ UNCHANGED <<oclient, signed, tokenRow>>

CodeAges(k) ==
    /\ code[k] # NoCode
    /\ code' = [code EXCEPT ![k].old = TRUE]
    /\ UNCHANGED <<oclient, signed, tokenRow>>

(* Mutant: the code is only deleted when it is too old. *)
RedeemCodeKept(c, k, verified, sameUri, j) ==
    /\ c \in Clients /\ code[k] # NoCode /\ ~code[k].old /\ verified /\ sameUri
    /\ Sign(c, code[k].scope, j, k)
    /\ UNCHANGED <<oclient, code>>

(* grant_type=authorization_code.  A wrong verifier leaves the code as it    *)
(* is; an old code is deleted, and a wrong redirect_uri is noticed after the *)
(* code was deleted.                                                         *)
RedeemCode(c, k, verified, sameUri, j) ==
    /\ c \in Clients /\ code[k] # NoCode
    /\ code[k].old \/ verified
    /\ code' = [code EXCEPT ![k] = NoCode]
    /\ IF ~code[k].old /\ sameUri
         THEN Sign(c, code[k].scope, j, k)
         ELSE UNCHANGED <<signed, tokenRow>>
    /\ UNCHANGED oclient

(* revoke_token, or get_token finding that the token has expired. *)
RevokeToken(j) ==
    /\ tokenRow' = tokenRow \ {j}
    /\ UNCHANGED <<oclient, code, signed>>

RevokeClientTokens(c) ==
    /\ tokenRow' = {j \in tokenRow : ~\E t \in signed : t.jti = j /\ t.client = c}
    /\ UNCHANGED <<oclient, code, signed>>

OAuthNext ==
    \/ \E c \in OClient, S \in SUBSET Scope :
        \/ CreateClient(c, S) \/ RegisterClient(c, S) \/ RegisterAgentClient(c, S)
        \/ \E given \in BOOLEAN, j \in Jti : ClientCredentials(c, given, S, j)
        \/ \E k \in Code : CreateAuthCode(c, k, S)
    \/ \E c \in OClient : DeleteClient(c) \/ RevokeClientTokens(c)
    \/ \E k \in Code : CodeAges(k)
    \/ \E c \in OClient, k \in Code, verified, sameUri \in BOOLEAN, j \in Jti :
        RedeemCode(c, k, verified, sameUri, j)
    \/ \E j \in Jti : RevokeToken(j)

-----------------------------------------------------------------------------
OAuthTypeOK ==
    /\ oclient \in [OClient -> [live : BOOLEAN, used : BOOLEAN, card : BOOLEAN,
                              scopes : SUBSET Scope]]
    /\ code \in [Code -> [client : OClient \cup {"none"}, scope : SUBSET Scope, old : BOOLEAN]]
    /\ signed \subseteq [jti : Jti, client : OClient, scope : SUBSET Scope,
                         code : Code \cup {"none"}]
    /\ tokenRow \subseteq Jti

(* The registry's own account is never deleted.                              *)
ServiceAccountKept == Service \in Clients

(* A code is good for one token, whoever presents it and however often.      *)
CodeRedeemedOnce ==
    \A k \in Code : Cardinality({t \in signed : t.code = k}) <= 1

(* Token records belong to clients that exist: none survives the deletion of *)
(* its client, and none is written for a deleted one.                        *)
RecordsHaveClients ==
    \A t \in signed : t.jti \in tokenRow => t.client \in Clients

(* A token of the client_credentials grant stays within what its client was  *)
(* registered for, and a scope the registry does not know can only be one    *)
(* that an agent card asked for.                                             *)
ScopesWithinGrant ==
    \A t \in signed : t.code = "none" =>
        /\ t.scope \subseteq oclient[t.client].scopes
        /\ t.scope \subseteq AllScopes \/ oclient[t.client].card
=============================================================================
