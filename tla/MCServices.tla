----------------------------- MODULE MCServices -----------------------------
(* Services of the registry that share no state, side by side: in each       *)
(* behaviour one of them runs, the one that subject names.                   *)
EXTENDS OAuthStore, Accounts, Delegation, SecurityHarness, RateLimiter,
        TaskWorkspaces, CronScheduler, SharedWorkspace, Blackboard,
        AgentMemory, Workflow, CliAgent, SharedConnection

(* Clients behind one address. *)
SharedAddress == [c \in Client |-> CHOOSE i \in Ip : TRUE]

(* Edges of a workflow that carry a condition. *)
FailureEdges == {<<1, 2>>, <<3, 2>>, <<1, 3>>}

VARIABLE subject

vars == <<oauthVars, accountVars, tokenVars, harnessVars, rateVars,
          spaceVars, cronVars, wsVars, boardVars, memVars, workflowVars,
          cliVars, dbVars, subject>>

Init ==
    /\ subject \in {"oauth", "accounts", "tokens", "harness", "rate",
        "space", "cron", "workspace", "board", "memory", "workflow", "cli",
        "database"}
    /\ OAuthInit
    /\ AccountsInit
    /\ TokensInit
    /\ HarnessInit
    /\ RateInit
    /\ SpaceInit
    /\ CronInit
    /\ WsInit
    /\ BoardInit
    /\ MemInit
    /\ WorkflowInit
    /\ CliInit
    /\ DbInit
    /\ subject # "harness" => mode = "audit" /\ policy = "open"
    /\ subject # "database" => driver = "sqlite"

OnOAuth(A) ==
    /\ subject = "oauth" /\ A
    /\ UNCHANGED <<accountVars, tokenVars, harnessVars, rateVars, spaceVars,
        cronVars, wsVars, boardVars, memVars, workflowVars, cliVars, dbVars,
        subject>>
OnAccounts(A) ==
    /\ subject = "accounts" /\ A
    /\ UNCHANGED <<oauthVars, tokenVars, harnessVars, rateVars, spaceVars,
        cronVars, wsVars, boardVars, memVars, workflowVars, cliVars, dbVars,
        subject>>
OnTokens(A) ==
    /\ subject = "tokens" /\ A
    /\ UNCHANGED <<oauthVars, accountVars, harnessVars, rateVars, spaceVars,
        cronVars, wsVars, boardVars, memVars, workflowVars, cliVars, dbVars,
        subject>>
OnHarness(A) ==
    /\ subject = "harness" /\ A
    /\ UNCHANGED <<oauthVars, accountVars, tokenVars, rateVars, spaceVars,
        cronVars, wsVars, boardVars, memVars, workflowVars, cliVars, dbVars,
        subject>>
OnRate(A) ==
    /\ subject = "rate" /\ A
    /\ UNCHANGED <<oauthVars, accountVars, tokenVars, harnessVars,
        spaceVars, cronVars, wsVars, boardVars, memVars, workflowVars,
        cliVars, dbVars, subject>>
OnSpace(A) ==
    /\ subject = "space" /\ A
    /\ UNCHANGED <<oauthVars, accountVars, tokenVars, harnessVars, rateVars,
        cronVars, wsVars, boardVars, memVars, workflowVars, cliVars, dbVars,
        subject>>
OnCron(A) ==
    /\ subject = "cron" /\ A
    /\ UNCHANGED <<oauthVars, accountVars, tokenVars, harnessVars, rateVars,
        spaceVars, wsVars, boardVars, memVars, workflowVars, cliVars,
        dbVars, subject>>
OnWs(A) ==
    /\ subject = "workspace" /\ A
    /\ UNCHANGED <<oauthVars, accountVars, tokenVars, harnessVars, rateVars,
        spaceVars, cronVars, boardVars, memVars, workflowVars, cliVars,
        dbVars, subject>>
OnBoard(A) ==
    /\ subject = "board" /\ A
    /\ UNCHANGED <<oauthVars, accountVars, tokenVars, harnessVars, rateVars,
        spaceVars, cronVars, wsVars, memVars, workflowVars, cliVars, dbVars,
        subject>>
OnMem(A) ==
    /\ subject = "memory" /\ A
    /\ UNCHANGED <<oauthVars, accountVars, tokenVars, harnessVars, rateVars,
        spaceVars, cronVars, wsVars, boardVars, workflowVars, cliVars,
        dbVars, subject>>
OnWorkflow(A) ==
    /\ subject = "workflow" /\ A
    /\ UNCHANGED <<oauthVars, accountVars, tokenVars, harnessVars, rateVars,
        spaceVars, cronVars, wsVars, boardVars, memVars, cliVars, dbVars,
        subject>>
OnCli(A) ==
    /\ subject = "cli" /\ A
    /\ UNCHANGED <<oauthVars, accountVars, tokenVars, harnessVars, rateVars,
        spaceVars, cronVars, wsVars, boardVars, memVars, workflowVars,
        dbVars, subject>>
OnDb(A) ==
    /\ subject = "database" /\ A
    /\ UNCHANGED <<oauthVars, accountVars, tokenVars, harnessVars, rateVars,
        spaceVars, cronVars, wsVars, boardVars, memVars, workflowVars,
        cliVars, subject>>

Next ==
    \/ OnOAuth(OAuthNext)
    \/ OnAccounts(AccountsNext)
    \/ OnTokens(TokensNext)
    \/ OnHarness(HarnessNext)
    \/ OnRate(RateNext)
    \/ OnSpace(SpaceNext)
    \/ OnCron(CronNext)
    \/ OnWs(WsNext)
    \/ OnBoard(BoardNext)
    \/ OnMem(MemNext)
    \/ OnWorkflow(WorkflowNext)
    \/ OnCli(CliNext)
    \/ OnDb(DbNext)

Spec == Init /\ [][Next]_vars
-----------------------------------------------------------------------------
(* No order of grants, deletions and restarts makes a credential worth more  *)
(* than what it was given for: codes are redeemed once, records have their   *)
(* client, scopes stay within the grant, a session has a role its user was   *)
(* given, and the two accounts the registry needs are never deleted.         *)
CredentialsHold ==
    /\ OAuthTypeOK /\ AccountsTypeOK
    /\ CodeRedeemedOnce /\ RecordsHaveClients /\ ScopesWithinGrant
    /\ ServiceAccountKept /\ PrimaryAccountKept /\ SessionRoleWasGranted

(* Delegation: a token stays within the scope its own hop names and is       *)
(* consumed once, the chain counts its hops, and a lock is one a claim took: *)
(* the dispatcher's, or through the route, checked and on record.            *)
DelegationHolds ==
    /\ ScopeOnlyNarrows /\ ConsumedOnce
    /\ DepthCountsHops /\ EnforceHolds /\ ClaimsOnRecord

(* What agents share is what they left there: a dispatched task runs in its  *)
(* own directory and a deleted one leaves none, locks belong to members, a   *)
(* version of a blackboard entry names one value, a read of the memory       *)
(* returns the last write that has not expired.                              *)
SharedStateKept ==
    /\ RunsInItsSpace /\ ArchiveLeavesNothing
    /\ HolderIsMember /\ VersionNamesValue /\ ReadsLastWrite

(* What a step may never do: take a file lock from its holder, hand it on or *)
(* open a lease twice, or leave a workflow with as much to do as before.     *)
ServiceStepsKept == LocksKept /\ WorkflowShrinks
=============================================================================
