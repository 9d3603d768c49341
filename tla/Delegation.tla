----------------------------- MODULE Delegation -----------------------------
(* Delegated task tokens: scope attenuation, minting, the replay table and   *)
(* verification, of security.dtm.DelegatedTokenManager.  Signatures are      *)
(* outside the model: a token is the record of what was signed.              *)
EXTENDS Naturals

CONSTANTS
    DJti,           \* token ids, each minted once
    HScope,         \* scopes a token may carry
    DTask, DAgent

VARIABLES
    dtoken,         \* tokens ever minted
    stored,         \* delegation_tokens: [DJti -> "absent", "unused" or "used"]
    accepted        \* [DJti -> consuming verifications since it was stored]

tokenVars == <<dtoken, stored, accepted>>

Minted(j) == \E k \in dtoken : k.jti = j
TokenOf(j) == CHOOSE k \in dtoken : k.jti = j

TokensInit ==
    /\ dtoken = {}
    /\ stored = [j \in DJti |-> "absent"]
    /\ accepted = [j \in DJti |-> 0]

Restriction ==
    [kind : {"none"}, of : {{}}, to : {"-"}]
    \cup [kind : {"exclude", "reduce_to"}, of : SUBSET HScope, to : {"-"}]
    \cup [kind : {"map"}, of : SUBSET HScope, to : HScope]

(* attenuate_scope.  The map of the model sends every scope of r.of to r.to; *)
(* a target that the parent does not have leaves the scope as it was.        *)
AttenuateScope(S, r) ==
    CASE r.kind = "none" -> S
      [] r.kind = "exclude" -> S \ r.of
      [] r.kind = "reduce_to" -> S \cap r.of
      [] r.kind = "map" -> {IF s \in r.of /\ r.to \in S THEN r.to ELSE s : s \in S}

(* mint_delegation_token for task t and agent a (any agent when a is "").    *)
(* The effective scope S is an argument, which nothing compares with a       *)
(* parent token; it stays in the token, as the scope of its last hop.  A     *)
(* restriction that leaves nothing is an error.                              *)
Mint(j, S, r, t, a) ==
    /\ ~Minted(j)
    /\ r.kind = "none" \/ AttenuateScope(S, r) # {}
    /\ dtoken' = dtoken \cup {[jti |-> j, asked |-> S, scope |-> AttenuateScope(S, r),
                               task |-> t, sub |-> a, fresh |-> TRUE]}
    /\ UNCHANGED <<stored, accepted>>

(* persist_token_hash is INSERT OR IGNORE: a used token stays used.          *)
PersistToken(j) ==
    /\ Minted(j) /\ stored[j] = "absent"
    /\ stored' = [stored EXCEPT ![j] = "unused"]
    /\ UNCHANGED <<dtoken, accepted>>

TokenExpires(j) ==
    /\ Minted(j) /\ TokenOf(j).fresh
    /\ dtoken' = {IF k.jti = j THEN [k EXCEPT !.fresh = FALSE] ELSE k : k \in dtoken}
    /\ UNCHANGED <<stored, accepted>>

(* Mutant: only the lookup by id asks whether the token was used. *)
TokenHoldsUnlessById(j, byId, t, a) ==
    /\ Minted(j) /\ TokenOf(j).fresh
    /\ TokenOf(j).task = t /\ TokenOf(j).sub \in {"", a}
    /\ byId => stored[j] = "unused"

(* The checks of verify_delegation_token: presented by its id a token must   *)
(* be stored, presented as a JWT it need not be.                             *)
TokenHolds(j, byId, t, a) ==
    /\ Minted(j) /\ TokenOf(j).fresh
    /\ TokenOf(j).task = t /\ TokenOf(j).sub \in {"", a}
    /\ stored[j] # "used"
    /\ byId => stored[j] = "unused"

(* verify_delegation_token with consume=True.  For a token that was never    *)
(* stored the update finds no row.                                           *)
ConsumeToken(j, byId, t, a) ==
    /\ TokenHolds(j, byId, t, a)
    /\ stored' = [stored EXCEPT ![j] = IF @ = "absent" THEN @ ELSE "used"]
    /\ accepted' = [accepted EXCEPT ![j] =
                        IF stored[j] = "absent" \/ @ = 2 THEN @ ELSE @ + 1]
    /\ UNCHANGED dtoken

TokensNext ==
    \/ \E j \in DJti, S \in SUBSET HScope, r \in Restriction,
          t \in DTask, a \in DAgent \cup {""} : Mint(j, S, r, t, a)
    \/ \E j \in DJti : PersistToken(j) \/ TokenExpires(j)
    \/ \E j \in DJti, byId \in BOOLEAN, t \in DTask, a \in DAgent : ConsumeToken(j, byId, t, a)

-----------------------------------------------------------------------------
(* A token carries no scope beyond the one its own hop in the chain names,  *)
(* whatever the restriction; that the hop's scope is within the one before   *)
(* it is left to the caller.                                                 *)
ScopeOnlyNarrows == \A k \in dtoken : k.scope \subseteq k.asked

(* Once stored, a token is consumed at most once, by id and as JWT together. *)
ConsumedOnce == \A j \in DJti : accepted[j] <= 1
=============================================================================
