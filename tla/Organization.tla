---------------------------- MODULE Organization ----------------------------
(***************************************************************************)
(* One organization: what its members ask for, who its members are, the    *)
(* end of it, and how agents and connectors are let in.                    *)
(***************************************************************************)
EXTENDS Requests, Workspace, Claims, Connector

CONSTANT Scenes     \* a deployment of each part
ASSUME OrganizationAssumption ==
    Scenes \subseteq [topUps : TopUpScenes, asks : AskScenes, people : MemberScenes,
                      close : CloseSceneType, mirror : MirrorScenes,
                      claims : ClaimScenes, connector : ConnectorScenes]

vars == <<queueVars, workspaceVars, claimVars, connectorVars>>

Init ==
    /\ \E s \in Scenes :
          /\ topUpScene = s.topUps /\ askScene = s.asks
          /\ memberScene = s.people /\ closeScene = s.close /\ mirrorScene = s.mirror
          /\ claimScene = s.claims /\ connectorScene = s.connector
    /\ QueuesInit /\ WorkspaceInit /\ ClaimInit /\ ConnectorInit

Next ==
    \/ QueuesNext /\ UNCHANGED <<workspaceVars, claimVars, connectorVars>>
    \/ WorkspaceNext /\ UNCHANGED <<queueVars, claimVars, connectorVars>>
    \/ ClaimNext /\ UNCHANGED <<queueVars, workspaceVars, connectorVars>>
    \/ ConnectorNext /\ UNCHANGED <<queueVars, workspaceVars, claimVars>>

Spec == Init /\ [][Next]_vars

\* Whoever asks first, and however many times: a row of the application has one
\* organization of WorkOS, and a user who signs in has one of their own.
OneOrganization == MirrorAnswers /\ OneOrgPerUser

\* Access that was given is not lost on the way: a key that was minted is handed out
\* once, to the agent whose claim it answers ("a one-shot ready delivery",
\* claim-store.ts:13-14), and a connector in use keeps its registration and its
\* session ("never loses its client_id", oauth-proxy/index.ts:74-79).
AccessIsKept == KeyReachesItsAgent /\ ConnectorStays
=============================================================================
