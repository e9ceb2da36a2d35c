--------------------------- MODULE HostConnections ---------------------------
(***************************************************************************)
(* The connections of one runtime beside its control plane: its clients    *)
(* with their workspaces (InstanceAccess), Codex Desktop (DesktopLink) and *)
(* the bytes it sends (FrameParser), an app-server (AppServerClient) and   *)
(* the browser worker (BrowserWorker).                                     *)
(* They share no state but the event loop, so that a behaviour uses one of *)
(* them and the others stay as they are at the start.                      *)
(***************************************************************************)
EXTENDS InstanceAccess, DesktopLink, FrameParser, AppServerClient, BrowserWorker

VARIABLE used        \* the connection of this behaviour

hostVars == <<accessVars, desktopVars, framesVars, clientVars, workerVars, used>>

-----------------------------------------------------------------------------
\* one of the initial states of a connection that is not used
UnusedScene == CHOOSE s \in Scenes : TRUE
UnusedLink == CHOOSE l \in Links : TRUE
UnusedStream == CHOOSE s \in Streams : TRUE
UnusedWorker == CHOOSE s \in WorkerScenes : TRUE

HostInit ==
    /\ used \in {"access", "desktop", "frames", "app_server", "browser"}
    /\ AccessInit /\ (used = "access" \/ scene = UnusedScene)
    /\ DesktopInit /\ (used = "desktop" \/ \A f \in DOMAIN UnusedLink : desktop[f] = UnusedLink[f])
    /\ FramesInit /\ (used = "frames" \/ stream = UnusedStream)
    /\ ClientInit
    /\ WorkerInit /\ (used = "browser" \/ WorkerScene(UnusedWorker))

Uses(connection) == used = connection /\ UNCHANGED used

HostNext ==
    \/ Uses("access") /\ AccessNext /\ UNCHANGED <<desktopVars, framesVars, clientVars, workerVars>>
    \/ Uses("desktop") /\ DesktopNext /\ UNCHANGED <<accessVars, framesVars, clientVars, workerVars>>
    \/ Uses("frames") /\ ChunkArrives /\ UNCHANGED <<accessVars, desktopVars, clientVars, workerVars>>
    \/ Uses("app_server") /\ ClientNext /\ UNCHANGED <<accessVars, desktopVars, framesVars, workerVars>>
    \/ Uses("browser") /\ WorkerNext /\ UNCHANGED <<accessVars, desktopVars, framesVars, clientVars>>

HostSpec ==
    /\ HostInit /\ [][HostNext]_hostVars
    /\ DesktopFairness /\ ClientFairness /\ WorkerFairness
=============================================================================
