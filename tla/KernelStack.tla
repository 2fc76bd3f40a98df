----------------------------- MODULE KernelStack -----------------------------
(***************************************************************************)
(* The kdrv stack: KernelMountBackend over KernelBackendController, its    *)
(* KernelIpcChannel and KernelMountManager, over KernelTransport, over the *)
(* loopback bridge or a driver.  A client holds one object of one layer,   *)
(* user, and calls only its methods; each runs to its end before the next, *)
(* while other programs may overwrite the image files.                     *)
(***************************************************************************)
EXTENDS KernelFilesystem, KernelTransport

CONSTANTS
    Points,     \* drive letters, "Z:"
    BadPoint,   \* a mount point that is not a letter and a colon
    NoPoint     \* the empty mount point

ASSUME StackAssumption == Points \cap {BadPoint, NoPoint} = {} /\ BadPoint # NoPoint

VARIABLES
    user,    \* the layer the client talks to
    svc      \* the flags of channel, controller, mount manager and backend

vars == <<filesystemVars, transportVars, user, svc>>

TypeOK ==
    /\ TransportTypeOK
    /\ CachesWellFormed(fs.ses)
    /\ bridge \in BOOLEAN
    /\ DOMAIN fs.handles \subseteq 1..(fs.next - 1) /\ fs.next =< MaxHandles + 1
    /\ user \in {"transport", "controller", "backend"}
    /\ svc \in [channel : BOOLEAN, installed : BOOLEAN, running : BOOLEAN,
                assigned : Points \cup {NoPoint}, mounted : BOOLEAN]

Init ==
    /\ FilesystemInit
    /\ TransportInit
    /\ user \in {"transport", "controller", "backend"}
    /\ svc = [channel |-> FALSE, installed |-> FALSE, running |-> FALSE,
              assigned |-> NoPoint, mounted |-> FALSE]

-----------------------------------------------------------------------------
(* The transport's own client.                                             *)

Connect(p) ==
    \/ Initialize(p) /\ ConnectLoopback(Opens(p))
    \/ ConnectDevice /\ UNCHANGED filesystemVars
    \/ ConnectRefused /\ UNCHANGED filesystemVars

\* Dispatch knows no opcode of a driver alone.
SendLoopback ==
    /\ mode = "loopback" /\ link.connected
    /\ TransportRefuses
    /\ Dispatch

Send ==
    \/ SendLoopback
    \/ \E opcode \in Opcodes :
          (SendDevice(opcode) \/ SendRefused(opcode)) /\ UNCHANGED filesystemVars

TransportCall ==
    /\ user = "transport"
    /\ UNCHANGED <<user, svc>>
    /\ \/ \E m \in {"loopback", "device"} : SetMode(m) /\ UNCHANGED filesystemVars
       \/ \E p \in {"strict", "bestEffort"} :
             SetFeaturePolicy(p) /\ UNCHANGED filesystemVars
       \/ \E p \in Paths : Connect(p)
       \/ (Disconnect \/ DisconnectRefused) /\ UNCHANGED filesystemVars
       \/ Send

-----------------------------------------------------------------------------
(* The controller's client.                                                *)

NothingBelow == UNCHANGED filesystemVars /\ TransportRefuses

SetTransportMode(m) ==
    SetMode(m) /\ UNCHANGED <<svc, filesystemVars>>

InstallService ==
    svc' = [svc EXCEPT !.installed = TRUE] /\ NothingBelow

\* Removing a running service, or one that is not installed, is refused.
RemoveService ==
    /\ svc' = [svc EXCEPT !.installed = @ /\ svc.running]
    /\ NothingBelow

\* The channel is connected, and the service running, if the transport is.
Started(s, up) == [s EXCEPT !.running = up, !.channel = up]

StartService(p) ==
    \/ /\ ~ svc.installed \/ svc.running \/ svc.channel
       /\ NothingBelow /\ UNCHANGED svc
    \/ /\ svc.installed /\ ~ svc.running /\ ~ svc.channel
       /\ Connect(p)
       /\ svc' = Started(svc, link'.connected)

StopService ==
    /\ UNCHANGED filesystemVars
    /\ \/ (~ svc.running \/ ~ svc.channel) /\ TransportRefuses /\ UNCHANGED svc
       \/ /\ svc.running /\ svc.channel
          /\ \/ Disconnect /\ svc' = Started(svc, FALSE)
             \/ DisconnectRefused /\ UNCHANGED svc

\* The one request the controller and the backend send.
ListDirectory ==
    /\ UNCHANGED svc
    /\ \/ ~ svc.running /\ NothingBelow
       \/ /\ svc.running /\ mode = "loopback" /\ link.connected
          /\ TransportRefuses /\ ReadDirectory /\ UNCHANGED <<disk, bridge>>
       \/ /\ svc.running /\ UNCHANGED filesystemVars
          /\ SendDevice("readDirectory") \/ SendRefused("readDirectory")

ControllerCall ==
    /\ user = "controller"
    /\ UNCHANGED user
    /\ \/ \E m \in {"loopback", "device"} : SetTransportMode(m)
       \/ InstallService \/ RemoveService \/ StopService
       \/ \E p \in Paths : StartService(p)
       \/ ListDirectory

-----------------------------------------------------------------------------
(* The backend's client: MountReadOnly and Unmount of KernelMountBackend.  *)

\* AssignDriveLetter's conditions.
MayAssign(pt) == pt \in Points /\ svc.assigned = NoPoint

\* What a refused letter leaves: the service stopped and removed.
\* Mutant: the service is removed, but not stopped.
RolledBackRunning(s) == [s EXCEPT !.installed = FALSE]

RolledBack(s) == [Started(s, FALSE) EXCEPT !.installed = FALSE]

\* The mode is set, the service installed and started, the letter assigned;
\* a service that does not start stays installed.
MountReadOnly(p, pt) ==
    \/ link.connected /\ NothingBelow /\ UNCHANGED svc
    \/ /\ ~ link.connected /\ pt = NoPoint
       /\ svc' = [svc EXCEPT !.installed = TRUE]
       /\ SetMode("loopback") /\ UNCHANGED filesystemVars
    \/ /\ ~ link.connected /\ pt # NoPoint
       /\ Initialize(p)
       /\ mode' = "loopback"
       /\ reached' = "none"
       /\ UNCHANGED <<policy, opened, stuck, granted>>
       /\ LET on == [Started(svc, Opens(p)) EXCEPT !.installed = TRUE]
              done == Opens(p) /\ MayAssign(pt)
          IN  /\ link' = IF done THEN Up(Capabilities, Features, NoHandle) ELSE Down
              /\ svc' = IF ~ Opens(p) THEN on
                        ELSE IF ~ done THEN RolledBack(on)
                        ELSE [on EXCEPT !.assigned = pt, !.mounted = TRUE]

\* The letter is released, the service stopped, then removed.
Unmount(pt) ==
    /\ UNCHANGED filesystemVars
    /\ \/ /\ ~ svc.mounted \/ svc.assigned # pt
          /\ TransportRefuses /\ UNCHANGED svc
       \/ /\ svc.mounted /\ svc.assigned = pt
          /\ Disconnect
          /\ svc' = [RolledBack(svc) EXCEPT !.assigned = NoPoint, !.mounted = FALSE]

BackendCall ==
    /\ user = "backend"
    /\ UNCHANGED user
    /\ \/ \E p \in Paths, pt \in Points \cup {BadPoint, NoPoint} : MountReadOnly(p, pt)
       \/ \E pt \in Points \cup {BadPoint} : Unmount(pt)
       \/ ListDirectory

-----------------------------------------------------------------------------
Elsewhere ==
    /\ \E p \in Paths, img \in Images : Replace(p, img)
    /\ UNCHANGED <<transportVars, user, svc>>

Next == TransportCall \/ ControllerCall \/ BackendCall \/ Elsewhere

Spec == Init /\ [][Next]_vars

-----------------------------------------------------------------------------
\* The flags of the layers agree after every call, those that failed half
\* way included: a running service is a connected channel over a connected
\* transport, and a mounted backend a running service with its letter.
LayersAgree ==
    /\ user # "transport" =>
          /\ svc.running = svc.channel /\ svc.channel = link.connected
          /\ svc.running => svc.installed
    /\ user = "backend" =>
          /\ svc.mounted = svc.running
          /\ svc.mounted = (svc.assigned # NoPoint)
          /\ mode = "loopback"

\* Over the bridge, an open handle names a file of the image the connection
\* was made for: a reconnection leaves none of the image before.
OpenHandlesResolve ==
    link.connected /\ mode = "loopback" =>
        \A h \in DOMAIN fs.handles :
            FindByWindowsName(fs.ses.catalog, fs.handles[h]) # {}

\* A mount serves the directory the image file has when it is mounted.
NoStaleState ==
    [][\A p \in Paths :
          ~ svc.mounted /\ svc'.mounted /\ fs'.ses.open = p =>
              fs'.ses.catalog = disk[p]["dir"]]_vars
=============================================================================
