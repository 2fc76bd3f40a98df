--------------------------- MODULE WinFspLifecycle ---------------------------
(***************************************************************************)
(* Starting and stopping a volume through WinFsp: WinFspRuntime over       *)
(* WinFspAdapter, which drives a WinFspFilesystem, its WinFspCallbacks and *)
(* a WinFspNativeBridge over DefaultWinFspNativeApi, in a Windows build    *)
(* with WinFsp support.  A client holds either one runtime or several      *)
(* adapters and the filesystems it passes to them, which it may also mount *)
(* and unmount itself.  Every method runs to its end before the next.      *)
(***************************************************************************)
EXTENDS FiniteSets

CONSTANTS
    Adapters, Filesystems,    \* the objects of the client
    Own, OwnFilesystem,       \* those that a runtime has as members
    Points, Upper,            \* mount points as callers spell them; toupper
    BadPoint, NoPoint,        \* one that is not a letter and a colon; empty
    Handles,                  \* WinFsp's file system objects, FSP_FILE_SYSTEM
    None,                     \* a null pointer
    Faults                    \* which of these calls may fail

ASSUME LifecycleAssumption ==
    /\ Own \in Adapters /\ OwnFilesystem \in Filesystems
    /\ Upper \in [Points -> Points]
    /\ \A p \in Points : Upper[Upper[p]] = Upper[p]
    /\ Points \cap {BadPoint, NoPoint} = {} /\ BadPoint # NoPoint
    /\ None \notin Handles \cup Filesystems
    /\ Faults \subseteq {"image", "load", "symbol", "create", "mount", "dispatch"}

VARIABLES
    user,      \* what the client holds: "runtime" or "adapters"
    mounted,   \* where each filesystem is mounted, NoPoint when it is not
    adapter,   \* each adapter with its callbacks, bridge and native API
    volumes,   \* external: the file system objects that exist in WinFsp
    runtime,   \* running_ and mount_point_ of the runtime
    last       \* history: the last call and whether it returned true

vars == <<user, mounted, adapter, volumes, runtime, last>>

\* callbacks: filesystem_ of the callback table, None when not initialized_.
\* registered: mount_point_ of the bridge, NoPoint when not registered_.
\* loaded, active, handle: module_handle_ is set, registration_active_ and
\* file_system_handle_ of the native API; a handle is set while it dispatches.
IdleAdapter(loaded) == [callbacks |-> None, registered |-> NoPoint,
                        loaded |-> loaded, active |-> FALSE, handle |-> None]

TypeOK ==
    /\ user \in {"runtime", "adapters"}
    /\ mounted \in [Filesystems -> {Upper[p] : p \in Points} \cup {NoPoint}]
    /\ adapter \in [Adapters -> [callbacks : Filesystems \cup {None},
                                 registered : Points \cup {NoPoint},
                                 loaded : BOOLEAN, active : BOOLEAN,
                                 handle : Handles \cup {None}]]
    /\ volumes \subseteq Handles
    /\ runtime \in [running : BOOLEAN, point : Points \cup {NoPoint}]
    /\ last \in [call : {"none", "start", "stop", "mount", "unmount", "destroy"},
                 ok : BOOLEAN]

Init ==
    /\ user \in {"runtime", "adapters"}
    /\ mounted = [f \in Filesystems |-> NoPoint]
    /\ adapter = [a \in Adapters |-> IdleAdapter(FALSE)]
    /\ volumes = {}
    /\ runtime = [running |-> FALSE, point |-> NoPoint]
    /\ last = [call |-> "none", ok |-> TRUE]

Returns(call, ok) == last' = [call |-> call, ok |-> ok]

-----------------------------------------------------------------------------
(* The filesystem's part, on the mount points ms as they are at the call.  *)
(* A mount that fails may leave mount_point_ set, which nothing reads      *)
(* while mounted_ is false.  What the session has loaded is not held here. *)

MountAllowed(f, p) == mounted[f] = NoPoint /\ p \in Points

Mounted(f, p) == [mounted EXCEPT ![f] = Upper[p]]

\* Mutant: the mount point is compared as the caller wrote it.
UnmountAllowedAsWritten(ms, f, p) == ms[f] # NoPoint /\ ms[f] = p

UnmountAllowed(ms, f, p) ==
    ms[f] # NoPoint /\ p \in Points /\ ms[f] = Upper[p]

Unmounted(ms, f, p) ==
    IF UnmountAllowed(ms, f, p) THEN [ms EXCEPT ![f] = NoPoint] ELSE ms

Mount(f, p) ==
    /\ \/ MountAllowed(f, p) /\ mounted' = Mounted(f, p) /\ Returns("mount", TRUE)
       \/ /\ ~ MountAllowed(f, p) \/ "image" \in Faults
          /\ UNCHANGED mounted /\ Returns("mount", FALSE)
    /\ UNCHANGED <<adapter, volumes>>

Unmount(f, p) ==
    /\ mounted' = Unmounted(mounted, f, p)
    /\ Returns("unmount", UnmountAllowed(mounted, f, p))
    /\ UNCHANGED <<adapter, volumes>>

-----------------------------------------------------------------------------
(* The callback table, and the objects that exist in WinFsp.               *)

Initialized(api, f) == [api EXCEPT !.callbacks = f]

ShutDown(api) == [api EXCEPT !.callbacks = None]

Created(h) == volumes \cup {h}

\* Mutant: the handle is dropped and the object stays.
Abandoned(objects, h) == objects

Deleted(objects, h) == objects \ {h}

-----------------------------------------------------------------------------
(* The adapter.                                                            *)

\* Whether callbacks, bridge and native API are all free; the bridge's own
\* tests of the callback table pass once Initialize has filled it.
Idle(a) ==
    /\ adapter[a].callbacks = None
    /\ adapter[a].registered = NoPoint
    /\ ~ adapter[a].active

\* Mutant: every failure after the mount shuts the callback table down.
TableShutDown(a) ==
    /\ adapter[a].callbacks # None
    /\ adapter' = [adapter EXCEPT ![a] = ShutDown(@)]
    /\ UNCHANGED volumes

\* Initialize refuses a table in use, which is then left to its user.
TableInUse(a) ==
    /\ adapter[a].callbacks # None
    /\ UNCHANGED <<adapter, volumes>>

\* With the table filled, the bridge refuses, there is no module, or, with
\* the module, which stays loaded, a symbol or the object is not to be had,
\* or the object that has been created is deleted again.
RegistrationFails(a, api) ==
    \/ /\ \/ api.registered # NoPoint \/ api.active
          \/ "load" \in Faults /\ ~ api.loaded
       /\ adapter' = [adapter EXCEPT ![a] = ShutDown(api)]
       /\ UNCHANGED volumes
    \/ /\ api.registered = NoPoint /\ ~ api.active
       /\ adapter' = [adapter EXCEPT ![a] = ShutDown([api EXCEPT !.loaded = TRUE])]
       /\ \/ {"symbol", "create"} \cap Faults # {} /\ UNCHANGED volumes
          \/ /\ {"mount", "dispatch"} \cap Faults # {}
             /\ \E h \in Handles \ volumes : volumes' = Deleted(Created(h), h)

\* Whatever fails after the mount, the filesystem is unmounted again, by the
\* same comparison as any other.
StartFails(a, f, p) ==
    \/ /\ ~ MountAllowed(f, p) \/ "image" \in Faults
       /\ UNCHANGED <<mounted, adapter, volumes>>
    \/ /\ MountAllowed(f, p)
       /\ mounted' = Unmounted(Mounted(f, p), f, p)
       /\ \/ TableInUse(a)
          \/ /\ adapter[a].callbacks = None
             /\ RegistrationFails(a, Initialized(adapter[a], f))

StartReadOnly(a, f, p) ==
    \/ StartFails(a, f, p) /\ Returns("start", FALSE)
    \/ /\ MountAllowed(f, p) /\ Idle(a)
       /\ mounted' = Mounted(f, p)
       /\ \E h \in Handles \ volumes :
             /\ volumes' = Created(h)
             /\ adapter' = [adapter EXCEPT ![a] =
                   [callbacks |-> f, registered |-> p,
                    loaded |-> TRUE, active |-> TRUE, handle |-> h]]
       /\ Returns("start", TRUE)

\* Mutant: the callback table is not shut down.
StoppedHalf(api) == [IdleAdapter(api.loaded) EXCEPT !.callbacks = api.callbacks]

Stopped(api) == IdleAdapter(api.loaded)

\* Unregister, Shutdown, Unmount.  The last may be refused, for the client
\* names the filesystem and the mount point again: nothing is then undone.
Stop(a, f, p) ==
    \/ /\ adapter[a].registered = NoPoint \/ ~ adapter[a].active
       /\ UNCHANGED <<mounted, adapter, volumes>>
       /\ Returns("stop", FALSE)
    \/ /\ adapter[a].registered # NoPoint /\ adapter[a].active
       /\ adapter' = [adapter EXCEPT ![a] = Stopped(@)]
       /\ volumes' = Deleted(volumes, adapter[a].handle)
       /\ mounted' = Unmounted(mounted, f, p)
       /\ Returns("stop", UnmountAllowed(mounted, f, p))

\* ~DefaultWinFspNativeApi deletes what it still has; a new object follows.
Destroy(a) ==
    /\ adapter' = [adapter EXCEPT ![a] = IdleAdapter(FALSE)]
    /\ volumes' = Deleted(volumes, adapter[a].handle)
    /\ Returns("destroy", TRUE)

AdapterCall ==
    /\ user = "adapters"
    /\ \E a \in Adapters, f \in Filesystems, p \in Points \cup {BadPoint} :
          \/ StartReadOnly(a, f, p) \/ Stop(a, f, p)
          \/ Mount(f, p) \/ Unmount(f, p)
          \/ Destroy(a) /\ UNCHANGED mounted
    /\ UNCHANGED <<user, runtime>>

-----------------------------------------------------------------------------
(* The runtime.                                                            *)

Refused(call) ==
    /\ Returns(call, FALSE)
    /\ UNCHANGED <<mounted, adapter, volumes, runtime>>

RuntimeStart(p) ==
    \/ runtime.running /\ Refused("start")
    \/ /\ ~ runtime.running
       /\ StartReadOnly(Own, OwnFilesystem, p)
       /\ runtime' = IF last'.ok THEN [running |-> TRUE, point |-> p] ELSE runtime

RuntimeStop ==
    \/ ~ runtime.running /\ Refused("stop")
    \/ /\ runtime.running
       /\ Stop(Own, OwnFilesystem, runtime.point)
       /\ runtime' = IF last'.ok THEN [running |-> FALSE, point |-> NoPoint] ELSE runtime

\* The members go with it: the filesystem, which may still be served, first.
RuntimeDestroyed ==
    /\ Destroy(Own)
    /\ mounted' = [mounted EXCEPT ![OwnFilesystem] = NoPoint]
    /\ runtime' = [running |-> FALSE, point |-> NoPoint]

RuntimeCall ==
    /\ user = "runtime"
    /\ \/ \E p \in Points \cup {BadPoint} : RuntimeStart(p)
       \/ RuntimeStop
       \/ RuntimeDestroyed
    /\ UNCHANGED user

Next == AdapterCall \/ RuntimeCall

Spec == Init /\ [][Next]_vars

-----------------------------------------------------------------------------
(* Properties.                                                             *)

\* Whichever call fails and wherever it gives up, callback table, bridge and
\* native API are set up together or not at all: none of them is ever left
\* refusing the next start while another refuses the stop.
StagesAgree ==
    \A a \in Adapters :
        LET api == adapter[a] IN
        /\ api.active <=> api.callbacks # None
        /\ api.active <=> api.registered # NoPoint
        /\ api.active <=> api.handle # None

\* Every object that exists in WinFsp is the one of exactly one registered
\* adapter: no failed registration, stop or destruction leaves a volume
\* behind, and none deletes a volume of another adapter.
VolumesAccountedFor ==
    /\ volumes = {adapter[a].handle : a \in Adapters} \ {None}
    /\ \A a \in Adapters, b \in Adapters :
          a # b /\ adapter[a].handle # None => adapter[a].handle # adapter[b].handle

\* A start that fails undoes all the stages it went through and none it did
\* not: no filesystem stays mounted, no callback table filled and no volume
\* in WinFsp, and an adapter that runs already, or the one that serves the
\* filesystem, goes on as before.  Only the module may now be loaded, and
\* the session, which this module does not hold, is on the new image.
FailedStartUndone ==
    [][last'.call = "start" /\ ~ last'.ok =>
        /\ UNCHANGED <<mounted, volumes, runtime>>
        /\ \A a \in Adapters :
              adapter'[a] = [adapter[a] EXCEPT !.loaded = adapter'[a].loaded]]_vars

\* A runtime that runs can be stopped, and one that does not can be started,
\* however the mount point was spelled: its flag agrees with all it owns.
RuntimeAgrees ==
    user = "runtime" =>
        IF runtime.running
        THEN /\ adapter[Own].active
             /\ adapter[Own].callbacks = OwnFilesystem
             /\ mounted[OwnFilesystem] = Upper[runtime.point]
             /\ runtime.point = adapter[Own].registered
        ELSE Idle(Own) /\ mounted[OwnFilesystem] = NoPoint
=============================================================================
