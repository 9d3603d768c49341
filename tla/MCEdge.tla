------------------------------- MODULE MCEdge -------------------------------
(* The parts at the edge of the registry, side by side: in each behaviour    *)
(* one of them runs, the one that subject names.                             *)
EXTENDS AgentClient, SyncCall, AgentRegistry, Webhooks, EventStream,
        AdminHub

VARIABLE subject

vars == <<clientVars, callVars, registryVars, hookVars, streamVars, hubVars,
          subject>>

Init ==
    /\ subject \in {"client", "call", "registry", "hooks", "stream", "hub"}
    /\ ClientInit
    /\ CallInit
    /\ RegistryInit
    /\ HooksInit
    /\ StreamsInit
    /\ HubInit

OnClient(A) ==
    /\ subject = "client" /\ A
    /\ UNCHANGED <<callVars, registryVars, hookVars, streamVars, hubVars,
        subject>>
OnCall(A) ==
    /\ subject = "call" /\ A
    /\ UNCHANGED <<clientVars, registryVars, hookVars, streamVars, hubVars,
        subject>>
OnRegistry(A) ==
    /\ subject = "registry" /\ A
    /\ UNCHANGED <<clientVars, callVars, hookVars, streamVars, hubVars,
        subject>>
OnHooks(A) ==
    /\ subject = "hooks" /\ A
    /\ UNCHANGED <<clientVars, callVars, registryVars, streamVars, hubVars,
        subject>>
OnStreams(A) ==
    /\ subject = "stream" /\ A
    /\ UNCHANGED <<clientVars, callVars, registryVars, hookVars, hubVars,
        subject>>
OnHub(A) ==
    /\ subject = "hub" /\ A
    /\ UNCHANGED <<clientVars, callVars, registryVars, hookVars, streamVars,
        subject>>

Next ==
    \/ OnClient(ClientNext)
    \/ OnCall(CallNext)
    \/ OnRegistry(RegistryNext)
    \/ OnHooks(HooksNext)
    \/ OnStreams(StreamsNext)
    \/ OnHub(HubNext)

(* The client: its awaits end, and what may succeed does so sooner or later; *)
(* a cached token ages by the clock.  The registry: time passes and the      *)
(* cleanup task runs.                                                        *)
Fairness ==
    /\ WF_vars(OnClient(LoopStep))
    /\ SF_vars(OnClient(TokenGranted))
    /\ SF_vars(OnClient(Opened)) /\ SF_vars(OnClient(NotFound))
    /\ SF_vars(OnClient(Registered))
    /\ WF_vars(OnClient(TokenAges))
    /\ WF_vars(OnClient(SocketClosed \/ CloseReturns))
    /\ WF_vars(OnRegistry(RegistryTick)) /\ WF_vars(OnRegistry(PurgeStale))
    /\ \A r \in Run : WF_vars(OnHooks(HookStep(r)))
    /\ \A s \in Stream : WF_vars(OnStreams(NoticeClosed(s))) /\ WF_vars(OnStreams(EndStream(s)))
    /\ \A s \in Sock : WF_vars(OnHub(LoopEnds(s))) /\ WF_vars(OnHub(HandlerDone(s)))

Spec == Init /\ [][Next]_vars /\ Fairness
-----------------------------------------------------------------------------
(* The registry and a peer agree on who is there: an agent is found under    *)
(* one name per tenant, a client believes itself attached only while its     *)
(* socket is up, and a session of the admin hub has a handler that will      *)
(* take it out again.                                                        *)
PeersKnown ==
    /\ ClientTypeOK /\ RegistryTypeOK
    /\ NamesUnambiguous /\ AttachedWhileConnected /\ NoGhostSession

(* Subscribers are served as the code says, whatever comes between: a slow   *)
(* SSE stream loses its oldest events and keeps the order of the rest, a     *)
(* stream that is over leaves no queue; a webhook that failed too often is   *)
(* disabled, and an answer is recorded once.                                 *)
SubscribersServed ==
    /\ LatestKept /\ WrittenInOrder /\ NoQueueLeft
    /\ LimitDisables /\ AnsweredOnce

(* Nothing at the edge hangs: a client that lost its connection gets back, a *)
(* silent agent leaves, each delivery and each stream of a closed bus comes  *)
(* to an end, and a closed admin connection leaves the map.                  *)
EdgeRecovers ==
    /\ Reconnects /\ SilentLeaves
    /\ DeliveryEnds /\ CloseEndsStreams /\ ClosedLeaves
=============================================================================
