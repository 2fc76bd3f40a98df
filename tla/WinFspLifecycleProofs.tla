------------------------ MODULE WinFspLifecycleProofs ------------------------
(***************************************************************************)
(* For any number of adapters, filesystems and WinFsp objects, whatever    *)
(* WinFsp refuses: callbacks, bridge and native API stay in step, and no   *)
(* file system object is left behind.                                      *)
(***************************************************************************)
EXTENDS WinFspLifecycle, TLAPS

ApiType == [callbacks : Filesystems \cup {None},
            registered : Points \cup {NoPoint},
            loaded : BOOLEAN, active : BOOLEAN, handle : Handles \cup {None}]

AdaptersType == adapter \in [Adapters -> ApiType]

\* StagesAgree, of one adapter.
InStep(api) ==
    /\ api.active <=> api.callbacks # None
    /\ api.active <=> api.registered # NoPoint
    /\ api.active <=> api.handle # None

\* No two adapters have one handle.
HandlesDistinct ==
    \A a \in Adapters, b \in Adapters :
        a # b /\ adapter[a].handle # None => adapter[a].handle # adapter[b].handle

Invariant ==
    /\ AdaptersType
    /\ \A a \in Adapters : InStep(adapter[a])
    /\ volumes = {adapter[a].handle : a \in Adapters} \ {None}
    /\ HandlesDistinct

USE DEF Invariant

\* An idle adapter is in step.
LEMMA IdleInStep ==
    ASSUME NEW up \in BOOLEAN
    PROVE  /\ IdleAdapter(up) \in ApiType
           /\ InStep(IdleAdapter(up))
           /\ IdleAdapter(up).handle = None
    BY DEF IdleAdapter, ApiType, InStep

LEMMA InitInvariant == Init => Invariant
<1> SUFFICES ASSUME Init PROVE Invariant
    OBVIOUS
<1>1. \A a \in Adapters : adapter[a] = IdleAdapter(FALSE)
    BY DEF Init
<1> QED
    BY <1>1, IdleInStep DEF Init, AdaptersType, HandlesDistinct

\* What no call changes keeps the invariant, and so does loading the module.
LEMMA LoadingKeeps ==
    ASSUME Invariant, NEW a \in Adapters, UNCHANGED volumes,
           adapter' = [adapter EXCEPT ![a].loaded = TRUE]
    PROVE  Invariant'
<1>1. AdaptersType'
    BY DEF AdaptersType, ApiType
<1>2. \A b \in Adapters : /\ adapter'[b].handle = adapter[b].handle
                          /\ adapter'[b].active = adapter[b].active
                          /\ adapter'[b].callbacks = adapter[b].callbacks
                          /\ adapter'[b].registered = adapter[b].registered
    BY DEF AdaptersType, ApiType
<1>3. \A b \in Adapters : InStep(adapter'[b])
    BY <1>2 DEF InStep
<1>4. {adapter'[b].handle : b \in Adapters} = {adapter[b].handle : b \in Adapters}
    BY <1>2
<1>5. volumes' = {adapter'[b].handle : b \in Adapters} \ {None}
    BY <1>4
<1>6. HandlesDistinct'
    BY <1>2 DEF HandlesDistinct
<1> QED
    BY <1>1, <1>3, <1>5, <1>6

\* A registration that succeeds takes an object no adapter has.
LEMMA RegistrationKeeps ==
    ASSUME Invariant, NEW a \in Adapters, NEW f \in Filesystems, NEW p \in Points,
           NEW h \in Handles \ volumes, Idle(a),
           volumes' = volumes \cup {h},
           adapter' = [adapter EXCEPT ![a] =
               [callbacks |-> f, registered |-> p,
                loaded |-> TRUE, active |-> TRUE, handle |-> h]]
    PROVE  Invariant'
<1>1. h # None /\ f # None /\ p # NoPoint
    BY LifecycleAssumption
<1>2. adapter'[a].handle = h /\ InStep(adapter'[a]) /\ adapter'[a] \in ApiType
    BY <1>1 DEF AdaptersType, ApiType, InStep
<1>3. \A b \in Adapters \ {a} : adapter'[b] = adapter[b]
    BY DEF AdaptersType
<1>4. \A b \in Adapters : adapter[b].handle # h
    BY <1>1
<1>5. adapter[a].handle = None
    BY DEF Idle, InStep
<1>6. AdaptersType'
    BY <1>2, <1>3 DEF AdaptersType
<1>7. volumes' = {adapter'[b].handle : b \in Adapters} \ {None}
    BY <1>1, <1>2, <1>3, <1>5
<1>8. HandlesDistinct'
    BY <1>2, <1>3, <1>4 DEF HandlesDistinct
<1> QED
    BY <1>2, <1>3, <1>6, <1>7, <1>8

\* Stopping or destroying an adapter deletes its object and no other's.
LEMMA ClearingKeeps ==
    ASSUME Invariant, NEW a \in Adapters, NEW up \in BOOLEAN,
           volumes' = Deleted(volumes, adapter[a].handle),
           adapter' = [adapter EXCEPT ![a] = IdleAdapter(up)]
    PROVE  Invariant'
<1>1. adapter'[a] \in ApiType /\ InStep(adapter'[a]) /\ adapter'[a].handle = None
    BY IdleInStep DEF AdaptersType
<1>2. \A b \in Adapters \ {a} : adapter'[b] = adapter[b]
    BY DEF AdaptersType
<1>3. AdaptersType'
    BY <1>1, <1>2 DEF AdaptersType
<1>4. \A b \in Adapters \ {a} : adapter[b].handle # None => adapter[b].handle # adapter[a].handle
    BY DEF HandlesDistinct
<1>5. volumes' = {adapter'[b].handle : b \in Adapters} \ {None}
    BY <1>1, <1>2, <1>4 DEF Deleted
<1>6. HandlesDistinct'
    BY <1>1, <1>2 DEF HandlesDistinct
<1> QED
    BY <1>1, <1>2, <1>3, <1>5, <1>6

\* A call that touches neither adapters nor volumes keeps the invariant.
LEMMA NothingKeeps ==
    ASSUME Invariant, UNCHANGED <<adapter, volumes>>
    PROVE  Invariant'
    BY DEF AdaptersType, HandlesDistinct, InStep

\* A table that was empty and has been filled is empty again once shut down.
LEMMA TableEmptiedAgain ==
    ASSUME AdaptersType, NEW a \in Adapters, NEW f, adapter[a].callbacks = None
    PROVE  /\ ShutDown(Initialized(adapter[a], f)) = adapter[a]
           /\ ShutDown([Initialized(adapter[a], f) EXCEPT !.loaded = TRUE])
                  = [adapter[a] EXCEPT !.loaded = TRUE]
<1>1. adapter[a] \in ApiType
    BY DEF AdaptersType
<1> QED
    BY <1>1 DEF ApiType, ShutDown, Initialized

\* All that a failed registration leaves behind is a loaded module.
LEMMA FailedRegistration ==
    ASSUME AdaptersType, NEW a \in Adapters, NEW f, adapter[a].callbacks = None,
           RegistrationFails(a, Initialized(adapter[a], f))
    PROVE  /\ UNCHANGED volumes
           /\ UNCHANGED adapter \/ adapter' = [adapter EXCEPT ![a].loaded = TRUE]
<1>1. UNCHANGED volumes
    <2>1. \A h \in Handles \ volumes : Deleted(Created(h), h) = volumes
        BY DEF Deleted, Created
    <2> QED
        BY <2>1 DEF RegistrationFails
<1>2. CASE adapter' = [adapter EXCEPT ![a] = ShutDown(Initialized(adapter[a], f))]
    <2>1. adapter' = [adapter EXCEPT ![a] = adapter[a]]
        BY <1>2, TableEmptiedAgain
    <2> QED
        BY <1>1, <2>1 DEF AdaptersType
<1>3. CASE adapter' = [adapter EXCEPT ![a] =
                ShutDown([Initialized(adapter[a], f) EXCEPT !.loaded = TRUE])]
    <2>1. adapter' = [adapter EXCEPT ![a] = [adapter[a] EXCEPT !.loaded = TRUE]]
        BY <1>3, TableEmptiedAgain
    <2> QED
        BY <1>1, <2>1
<1> QED
    BY <1>2, <1>3 DEF RegistrationFails

LEMMA StartKeeps ==
    ASSUME Invariant, NEW a \in Adapters, NEW f \in Filesystems, NEW p,
           StartReadOnly(a, f, p)
    PROVE  Invariant'
<1>1. CASE UNCHANGED <<adapter, volumes>>
    BY <1>1, NothingKeeps
<1>2. CASE /\ adapter[a].callbacks = None
           /\ RegistrationFails(a, Initialized(adapter[a], f))
    BY <1>1, <1>2, FailedRegistration, LoadingKeeps
<1>3. CASE StartFails(a, f, p)
    BY <1>1, <1>2, <1>3 DEF StartFails, TableInUse
<1>4. CASE ~ StartFails(a, f, p)
    <2>1. p \in Points /\ Idle(a)
        BY <1>4 DEF StartReadOnly, MountAllowed
    <2>2. PICK h \in Handles \ volumes :
              /\ volumes' = volumes \cup {h}
              /\ adapter' = [adapter EXCEPT ![a] =
                    [callbacks |-> f, registered |-> p,
                     loaded |-> TRUE, active |-> TRUE, handle |-> h]]
        BY <1>4 DEF StartReadOnly, Created
    <2> QED
        BY <2>1, <2>2, RegistrationKeeps
<1> QED
    BY <1>3, <1>4

LEMMA StopKeeps ==
    ASSUME Invariant, NEW a \in Adapters, NEW f, NEW p, Stop(a, f, p)
    PROVE  Invariant'
<1>1. CASE UNCHANGED <<adapter, volumes>>
    BY <1>1, NothingKeeps
<1>2. CASE /\ adapter' = [adapter EXCEPT ![a] = Stopped(@)]
           /\ volumes' = Deleted(volumes, adapter[a].handle)
    <2>1. adapter[a].loaded \in BOOLEAN
        BY DEF AdaptersType, ApiType
    <2>2. adapter' = [adapter EXCEPT ![a] = IdleAdapter(adapter[a].loaded)]
        BY <1>2 DEF Stopped
    <2> QED
        BY <1>2, <2>1, <2>2, ClearingKeeps
<1> QED
    BY <1>1, <1>2 DEF Stop

LEMMA DestroyKeeps ==
    ASSUME Invariant, NEW a \in Adapters, Destroy(a)
    PROVE  Invariant'
    BY ClearingKeeps DEF Destroy

LEMMA NextKeeps == Invariant /\ [Next]_vars => Invariant'
<1> SUFFICES ASSUME Invariant, [Next]_vars PROVE Invariant'
    OBVIOUS
<1>1. CASE AdapterCall
    <2>1. PICK a \in Adapters, f \in Filesystems, p \in Points \cup {BadPoint} :
              \/ StartReadOnly(a, f, p) \/ Stop(a, f, p)
              \/ Mount(f, p) \/ Unmount(f, p)
              \/ Destroy(a)
        BY <1>1 DEF AdapterCall
    <2>2. CASE Mount(f, p) \/ Unmount(f, p)
        BY <2>2, NothingKeeps DEF Mount, Unmount
    <2> QED
        BY <2>1, <2>2, StartKeeps, StopKeeps, DestroyKeeps
<1>2. CASE RuntimeCall
    <2> Own \in Adapters /\ OwnFilesystem \in Filesystems
        BY LifecycleAssumption
    <2>1. CASE \E p \in Points \cup {BadPoint} : RuntimeStart(p)
        BY <2>1, StartKeeps, NothingKeeps DEF RuntimeStart, Refused
    <2>2. CASE RuntimeStop
        BY <2>2, StopKeeps, NothingKeeps DEF RuntimeStop, Refused
    <2>3. CASE RuntimeDestroyed
        BY <2>3, DestroyKeeps DEF RuntimeDestroyed
    <2> QED
        BY <1>2, <2>1, <2>2, <2>3 DEF RuntimeCall
<1>3. CASE UNCHANGED vars
    BY <1>3, NothingKeeps DEF vars
<1> QED
    BY <1>1, <1>2, <1>3 DEF Next

\* The adapters always keep the invariant: a step sets up, clears or leaves
\* alone one adapter and the one object that is its own.
THEOREM Kept == Spec => []Invariant
    BY InitInvariant, NextKeeps, PTL DEF Spec

\* Callback table, bridge and native API are set up together or not at all.
THEOREM StagesStayTogether == Spec => []StagesAgree
<1>1. Invariant => StagesAgree
    BY DEF StagesAgree, InStep
<1> QED
    BY <1>1, Kept, PTL

\* Every object that exists in WinFsp belongs to exactly one adapter.
THEOREM NoVolumeLeaks == Spec => []VolumesAccountedFor
<1>1. Invariant => VolumesAccountedFor
    BY DEF VolumesAccountedFor, HandlesDistinct
<1> QED
    BY <1>1, Kept, PTL

-----------------------------------------------------------------------------
(* Types, and the runtime's own flag.                                      *)

MountedType == mounted \in [Filesystems -> {Upper[p] : p \in Points} \cup {NoPoint}]

RuntimeType == runtime \in [running : BOOLEAN, point : Points \cup {NoPoint}]

LastType == last \in [call : {"none", "start", "stop", "mount", "unmount", "destroy"},
                      ok : BOOLEAN]

LEMMA Recorded ==
    ASSUME NEW call \in {"none", "start", "stop", "mount", "unmount", "destroy"},
           NEW ok \in BOOLEAN, Returns(call, ok)
    PROVE  LastType'
    BY DEF Returns, LastType

\* The comparison that undoes a mount finds the point just mounted.
LEMMA MountTakenBack ==
    ASSUME MountedType, NEW f \in Filesystems, NEW p, MountAllowed(f, p)
    PROVE  Unmounted(Mounted(f, p), f, p) = mounted
<1>1. p \in Points /\ Upper[p] # NoPoint
    BY LifecycleAssumption DEF MountAllowed
<1>2. UnmountAllowed(Mounted(f, p), f, p)
    BY <1>1 DEF UnmountAllowed, Mounted, MountedType
<1> QED
    BY <1>2 DEF Unmounted, Mounted, MountedType, MountAllowed

\* What StartReadOnly does to the filesystems, and when it returns true.
LEMMA StartMounts ==
    ASSUME MountedType, NEW a, NEW f \in Filesystems, NEW p, StartReadOnly(a, f, p)
    PROVE  \/ last'.ok = FALSE /\ UNCHANGED mounted /\ LastType'
           \/ last'.ok = TRUE /\ MountAllowed(f, p) /\ mounted' = Mounted(f, p) /\ LastType'
<1>1. CASE StartFails(a, f, p) /\ Returns("start", FALSE)
    BY <1>1, MountTakenBack DEF StartFails, Returns, LastType
<1>2. CASE MountAllowed(f, p) /\ mounted' = Mounted(f, p) /\ Returns("start", TRUE)
    BY <1>2 DEF Returns, LastType
<1> QED
    BY <1>1, <1>2 DEF StartReadOnly

LEMMA UnmountAllowedIsBoolean ==
    ASSUME NEW ms, NEW f, NEW p
    PROVE  UnmountAllowed(ms, f, p) \in BOOLEAN
    BY DEF UnmountAllowed

\* What Stop does to them.
LEMMA StopUnmounts ==
    ASSUME NEW a, NEW f, NEW p, Stop(a, f, p)
    PROVE  /\ mounted' = mounted \/ mounted' = [mounted EXCEPT ![f] = NoPoint]
           /\ LastType'
<1>1. CASE UNCHANGED mounted /\ Returns("stop", FALSE)
    BY <1>1 DEF Returns, LastType
<1>2. CASE /\ mounted' = Unmounted(mounted, f, p)
           /\ Returns("stop", UnmountAllowed(mounted, f, p))
    BY <1>2, UnmountAllowedIsBoolean DEF Unmounted, Returns, LastType
<1> QED
    BY <1>1, <1>2 DEF Stop

LEMMA MountingKeepsType ==
    ASSUME MountedType, NEW f \in Filesystems, NEW p,
           MountAllowed(f, p), mounted' = Mounted(f, p)
    PROVE  MountedType'
    BY DEF MountedType, Mounted, MountAllowed

LEMMA UnmountingKeepsType ==
    ASSUME MountedType, NEW f \in Filesystems,
           mounted' = mounted \/ mounted' = [mounted EXCEPT ![f] = NoPoint]
    PROVE  MountedType'
    BY DEF MountedType

LEMMA NextKeepsTypes ==
    MountedType /\ RuntimeType /\ LastType /\ user \in {"runtime", "adapters"} /\ [Next]_vars
        => (MountedType /\ RuntimeType /\ LastType /\ user \in {"runtime", "adapters"})'
<1> SUFFICES ASSUME MountedType, RuntimeType, LastType, user \in {"runtime", "adapters"},
                    [Next]_vars
             PROVE  (MountedType /\ RuntimeType /\ LastType /\ user \in {"runtime", "adapters"})'
    OBVIOUS
<1>1. CASE AdapterCall
    <2>1. PICK a \in Adapters, f \in Filesystems, p \in Points \cup {BadPoint} :
              \/ StartReadOnly(a, f, p) \/ Stop(a, f, p)
              \/ Mount(f, p) \/ Unmount(f, p)
              \/ Destroy(a) /\ UNCHANGED mounted
        BY <1>1 DEF AdapterCall
    <2>2. ASSUME Mount(f, p)
          PROVE  MountedType' /\ LastType'
        BY <2>2, MountingKeepsType, UnmountingKeepsType, Recorded DEF Mount
    <2>3. ASSUME Unmount(f, p)
          PROVE  MountedType' /\ LastType'
        BY <2>3, UnmountingKeepsType, UnmountAllowedIsBoolean
           DEF Unmount, Unmounted, Returns, LastType
    <2>4. ASSUME Destroy(a) /\ UNCHANGED mounted
          PROVE  MountedType' /\ LastType'
        BY <2>4, UnmountingKeepsType DEF Destroy, Returns, LastType
    <2>5. MountedType' /\ LastType'
        BY <2>1, <2>2, <2>3, <2>4, StartMounts, StopUnmounts,
           MountingKeepsType, UnmountingKeepsType
    <2> QED
        BY <1>1, <2>5 DEF AdapterCall, RuntimeType
<1>2. CASE RuntimeCall
    <2> Own \in Adapters /\ OwnFilesystem \in Filesystems
        BY LifecycleAssumption
    <2>1. ASSUME NEW call \in {"start", "stop"}, Refused(call)
          PROVE  MountedType' /\ RuntimeType' /\ LastType'
        BY <2>1 DEF Refused, Returns, MountedType, RuntimeType, LastType
    <2>2. ASSUME NEW p, RuntimeStart(p)
          PROVE  MountedType' /\ RuntimeType' /\ LastType'
        <3>1. CASE Refused("start")
            BY <2>1, <3>1
        <3>2. CASE /\ StartReadOnly(Own, OwnFilesystem, p)
                   /\ runtime' = IF last'.ok THEN [running |-> TRUE, point |-> p]
                                 ELSE runtime
            <4>1. CASE last'.ok = FALSE /\ UNCHANGED mounted /\ LastType'
                <5>1. RuntimeType'
                    BY <3>2, <4>1 DEF RuntimeType
                <5> QED
                    BY <4>1, <5>1, UnmountingKeepsType
            <4>2. CASE /\ last'.ok = TRUE /\ MountAllowed(OwnFilesystem, p)
                       /\ mounted' = Mounted(OwnFilesystem, p) /\ LastType'
                <5>1. RuntimeType'
                    BY <3>2, <4>2 DEF RuntimeType, MountAllowed
                <5> QED
                    BY <4>2, <5>1, MountingKeepsType
            <4> QED
                BY <3>2, <4>1, <4>2, StartMounts
        <3> QED
            BY <2>2, <3>1, <3>2 DEF RuntimeStart
    <2>3. ASSUME RuntimeStop
          PROVE  MountedType' /\ RuntimeType' /\ LastType'
        <3>1. CASE Refused("stop")
            BY <2>1, <3>1
        <3>2. CASE /\ Stop(Own, OwnFilesystem, runtime.point)
                   /\ runtime' = IF last'.ok THEN [running |-> FALSE, point |-> NoPoint]
                                 ELSE runtime
            <4>1. RuntimeType'
                BY <3>2 DEF RuntimeType
            <4>2. (mounted' = mounted \/ mounted' = [mounted EXCEPT ![OwnFilesystem] = NoPoint]) /\ LastType'
                BY <3>2, StopUnmounts
            <4> QED
                BY <4>1, <4>2, UnmountingKeepsType
        <3> QED
            BY <2>3, <3>1, <3>2 DEF RuntimeStop
    <2>4. ASSUME RuntimeDestroyed
          PROVE  MountedType' /\ RuntimeType' /\ LastType'
        <3>1. runtime' = [running |-> FALSE, point |-> NoPoint]
              /\ mounted' = [mounted EXCEPT ![OwnFilesystem] = NoPoint] /\ Returns("destroy", TRUE)
            BY <2>4 DEF RuntimeDestroyed, Destroy
        <3>2. RuntimeType'
            BY <3>1 DEF RuntimeType
        <3> QED
            BY <3>1, <3>2, UnmountingKeepsType, Recorded
    <2> QED
        BY <1>2, <2>2, <2>3, <2>4 DEF RuntimeCall
<1>3. CASE UNCHANGED vars
    BY <1>3 DEF vars, MountedType, RuntimeType, LastType
<1> QED
    BY <1>1, <1>2, <1>3 DEF Next

\* Every variable keeps its type; what is volume and what adapter follows
\* from the invariant.
THEOREM TypesAreKept == Spec => []TypeOK
<1> DEFINE Rest == MountedType /\ RuntimeType /\ LastType /\ user \in {"runtime", "adapters"}
<1>1. Init => Rest
    BY DEF Init, MountedType, RuntimeType, LastType
<1>2. Rest /\ [Next]_vars => Rest'
    BY NextKeepsTypes
<1>3. Invariant => volumes \subseteq Handles
    BY DEF AdaptersType, ApiType
<1>4. Invariant /\ Rest => TypeOK
    BY <1>3 DEF AdaptersType, ApiType, MountedType, RuntimeType, LastType, TypeOK
<1> HIDE DEF Rest
<1> QED
    BY <1>1, <1>2, <1>4, Kept, PTL DEF Spec

-----------------------------------------------------------------------------
\* FailedStartUndone, of one step and without the runtime.
Undone ==
    /\ UNCHANGED <<mounted, volumes>>
    /\ \A b \in Adapters :
          adapter'[b] = [adapter[b] EXCEPT !.loaded = adapter'[b].loaded]

LEMMA UnchangedIsUndone ==
    ASSUME AdaptersType, UNCHANGED <<mounted, adapter, volumes>>
    PROVE  Undone
    BY DEF Undone, AdaptersType, ApiType

LEMMA FailedStartIsUndone ==
    ASSUME AdaptersType, MountedType, NEW a \in Adapters, NEW f \in Filesystems, NEW p,
           StartReadOnly(a, f, p), ~ last'.ok
    PROVE  Undone
<1>1. StartFails(a, f, p) /\ UNCHANGED mounted
    <2>1. ~ Returns("start", TRUE)
        BY DEF Returns
    <2>2. StartFails(a, f, p)
        BY <2>1 DEF StartReadOnly
    <2>3. UNCHANGED mounted
        BY StartMounts
    <2> QED
        BY <2>2, <2>3
<1>2. CASE UNCHANGED <<adapter, volumes>>
    BY <1>1, <1>2, UnchangedIsUndone
<1>3. CASE /\ adapter[a].callbacks = None
           /\ RegistrationFails(a, Initialized(adapter[a], f))
    <2>1. UNCHANGED volumes
        BY <1>3, FailedRegistration
    <2>2. CASE UNCHANGED adapter
        BY <1>2, <2>1, <2>2
    <2>3. CASE adapter' = [adapter EXCEPT ![a].loaded = TRUE]
        BY <1>1, <2>1, <2>3 DEF Undone, AdaptersType, ApiType
    <2> QED
        BY <1>3, <2>2, <2>3, FailedRegistration
<1> QED
    BY <1>1, <1>2, <1>3 DEF StartFails, TableInUse

\* Which call was made is on record, whatever it returned.
LEMMA CallOnRecord ==
    ASSUME NEW call, NEW ok, Returns(call, ok)
    PROVE  last'.call = call
    BY DEF Returns

LEMMA StepUndoesFailedStart ==
    ASSUME AdaptersType, MountedType, Next, last'.call = "start", ~ last'.ok
    PROVE  Undone /\ UNCHANGED runtime
<1>1. CASE AdapterCall
    <2>1. PICK a \in Adapters, f \in Filesystems, p \in Points \cup {BadPoint} :
              \/ StartReadOnly(a, f, p) \/ Stop(a, f, p)
              \/ Mount(f, p) \/ Unmount(f, p)
              \/ Destroy(a)
        BY <1>1 DEF AdapterCall
    <2>2. StartReadOnly(a, f, p)
        <3>1. Stop(a, f, p) => last'.call = "stop"
            BY CallOnRecord DEF Stop
        <3>2. Mount(f, p) => last'.call = "mount"
            BY CallOnRecord DEF Mount
        <3>3. Unmount(f, p) => last'.call = "unmount"
            BY CallOnRecord DEF Unmount
        <3>4. Destroy(a) => last'.call = "destroy"
            BY CallOnRecord DEF Destroy
        <3> QED
            BY <2>1, <3>1, <3>2, <3>3, <3>4
    <2> QED
        BY <1>1, <2>2, FailedStartIsUndone DEF AdapterCall
<1>2. CASE RuntimeCall
    <2>1. PICK p \in Points \cup {BadPoint} : RuntimeStart(p)
        <3>1. RuntimeStop => last'.call = "stop"
            BY CallOnRecord DEF RuntimeStop, Refused, Stop
        <3>2. RuntimeDestroyed => last'.call = "destroy"
            BY CallOnRecord DEF RuntimeDestroyed, Destroy
        <3> QED
            BY <1>2, <3>1, <3>2 DEF RuntimeCall
    <2>2. CASE Refused("start")
        BY <2>2, UnchangedIsUndone DEF Refused
    <2>3. CASE StartReadOnly(Own, OwnFilesystem, p) /\ UNCHANGED runtime
        BY <2>3, FailedStartIsUndone, LifecycleAssumption
    <2> QED
        BY <2>1, <2>2, <2>3 DEF RuntimeStart
<1> QED
    BY <1>1, <1>2 DEF Next

\* A start that fails takes back whichever stages it went through, by the
\* filesystem's own comparison of mount points, and touches no other volume.
THEOREM FailedStartsUndone == Spec => FailedStartUndone
<1>1. Invariant /\ TypeOK /\ [Next]_vars =>
          [last'.call = "start" /\ ~ last'.ok =>
              /\ UNCHANGED <<mounted, volumes, runtime>>
              /\ \A a \in Adapters :
                    adapter'[a] = [adapter[a] EXCEPT !.loaded = adapter'[a].loaded]]_vars
    BY StepUndoesFailedStart DEF Undone, TypeOK, MountedType
<1> QED
    BY <1>1, Kept, TypesAreKept, PTL DEF Spec, FailedStartUndone

-----------------------------------------------------------------------------
\* What a successful start leaves, and a stop or a destruction.
LEMMA RuntimeStarts ==
    ASSUME AdaptersType, MountedType, RuntimeType, NEW p, ~ runtime.running, RuntimeStart(p),
           Idle(Own) /\ mounted[OwnFilesystem] = NoPoint, user' = "runtime"
    PROVE  RuntimeAgrees'
<1> Own \in Adapters /\ OwnFilesystem \in Filesystems
    BY LifecycleAssumption
<1>1. StartReadOnly(Own, OwnFilesystem, p)
      /\ runtime' = IF last'.ok THEN [running |-> TRUE, point |-> p] ELSE runtime
    BY DEF RuntimeStart
<1>2. CASE StartFails(Own, OwnFilesystem, p) /\ Returns("start", FALSE)
    <2>1. UNCHANGED mounted /\ runtime' = runtime
        BY <1>1, <1>2, MountTakenBack DEF StartFails, Returns
    <2>2. \/ UNCHANGED adapter
          \/ adapter' = [adapter EXCEPT ![Own].loaded = TRUE]
        BY <1>2, FailedRegistration DEF StartFails, TableInUse
    <2>3. Idle(Own)'
        BY <2>2 DEF Idle, AdaptersType, ApiType
    <2> QED
        BY <2>1, <2>3 DEF RuntimeAgrees
<1>3. CASE Returns("start", TRUE)
    <2>1. /\ MountAllowed(OwnFilesystem, p) /\ mounted' = Mounted(OwnFilesystem, p)
          /\ runtime' = [running |-> TRUE, point |-> p]
        BY <1>1, <1>3 DEF StartReadOnly, Returns
    <2>2. PICK h \in Handles :
              adapter' = [adapter EXCEPT ![Own] =
                  [callbacks |-> OwnFilesystem, registered |-> p,
                   loaded |-> TRUE, active |-> TRUE, handle |-> h]]
        BY <1>1, <1>3 DEF StartReadOnly, Returns
    <2>3. /\ adapter'[Own].active /\ adapter'[Own].callbacks = OwnFilesystem
          /\ adapter'[Own].registered = p
        BY <2>2 DEF AdaptersType
    <2>4. mounted'[OwnFilesystem] = Upper[p]
        BY <2>1 DEF Mounted, MountedType
    <2> QED
        BY <2>1, <2>3, <2>4 DEF RuntimeAgrees
<1> QED
    BY <1>1, <1>2, <1>3 DEF StartReadOnly

LEMMA RuntimeStops ==
    ASSUME Invariant, MountedType, RuntimeType, RuntimeAgrees, user = "runtime",
           runtime.running, RuntimeStop, user' = "runtime"
    PROVE  RuntimeAgrees'
<1> Own \in Adapters /\ OwnFilesystem \in Filesystems
    BY LifecycleAssumption
<1>1. /\ Stop(Own, OwnFilesystem, runtime.point)
      /\ runtime' = IF last'.ok THEN [running |-> FALSE, point |-> NoPoint] ELSE runtime
    BY DEF RuntimeStop
<1>2. /\ adapter[Own].active /\ adapter[Own].callbacks = OwnFilesystem
      /\ mounted[OwnFilesystem] = Upper[runtime.point]
      /\ runtime.point = adapter[Own].registered
    BY DEF RuntimeAgrees
<1>3. runtime.point # NoPoint /\ runtime.point \in Points
    BY <1>2 DEF InStep, RuntimeType
<1>4. UnmountAllowed(mounted, OwnFilesystem, runtime.point)
    <2>1. Upper[runtime.point] \in Points
        BY <1>3, LifecycleAssumption
    <2>2. Upper[runtime.point] # NoPoint
        BY <2>1, LifecycleAssumption
    <2> QED
        BY <1>2, <1>3, <2>2 DEF UnmountAllowed
<1>5. /\ adapter' = [adapter EXCEPT ![Own] = Stopped(@)]
      /\ mounted' = [mounted EXCEPT ![OwnFilesystem] = NoPoint]
      /\ Returns("stop", UnmountAllowed(mounted, OwnFilesystem, runtime.point))
    BY <1>1, <1>2, <1>3, <1>4 DEF Stop, Unmounted
<1>6. Idle(Own)'
    BY <1>5 DEF Idle, Stopped, IdleAdapter, AdaptersType
<1>7. mounted'[OwnFilesystem] = NoPoint
    BY <1>5 DEF MountedType
<1>8. last'.ok
    BY <1>4, <1>5 DEF Returns
<1> QED
    BY <1>1, <1>6, <1>7, <1>8 DEF RuntimeAgrees

LEMMA NextKeepsRuntime ==
    Invariant /\ MountedType /\ RuntimeType /\ RuntimeAgrees /\ [Next]_vars => RuntimeAgrees'
<1> SUFFICES ASSUME Invariant, MountedType, RuntimeType, RuntimeAgrees, [Next]_vars
             PROVE  RuntimeAgrees'
    OBVIOUS
<1> Own \in Adapters /\ OwnFilesystem \in Filesystems
    BY LifecycleAssumption
<1>1. CASE AdapterCall
    BY <1>1 DEF AdapterCall, RuntimeAgrees
<1>2. CASE UNCHANGED <<user, mounted, adapter, runtime>>
    BY <1>2 DEF RuntimeAgrees, Idle
<1>3. CASE RuntimeCall
    <2>1. user = "runtime" /\ user' = "runtime"
        BY <1>3 DEF RuntimeCall
    <2>2. ASSUME NEW p, RuntimeStart(p)
          PROVE  RuntimeAgrees'
        <3>1. CASE runtime.running
            BY <1>2, <2>1, <2>2, <3>1 DEF RuntimeStart, Refused
        <3>2. CASE ~ runtime.running
            BY <2>1, <2>2, <3>2, RuntimeStarts DEF RuntimeAgrees
        <3> QED
            BY <3>1, <3>2
    <2>3. CASE RuntimeStop
        <3>1. CASE ~ runtime.running
            BY <1>2, <2>1, <2>3, <3>1 DEF RuntimeStop, Refused
        <3>2. CASE runtime.running
            BY <2>1, <2>3, <3>2, RuntimeStops
        <3> QED
            BY <3>1, <3>2
    <2>4. CASE RuntimeDestroyed
        <3>1. Idle(Own)'
            BY <2>4 DEF RuntimeDestroyed, Destroy, Idle, IdleAdapter, AdaptersType
        <3>2. mounted'[OwnFilesystem] = NoPoint /\ ~ runtime'.running
            BY <2>4 DEF RuntimeDestroyed, MountedType
        <3> QED
            BY <3>1, <3>2 DEF RuntimeAgrees
    <2> QED
        BY <1>3, <2>2, <2>3, <2>4 DEF RuntimeCall
<1> QED
    BY <1>1, <1>2, <1>3 DEF Next, vars

\* Whatever fails, the runtime's flag agrees with all that it owns: one that
\* runs can be stopped, one that does not can be started.
THEOREM RuntimeStaysTrue == Spec => []RuntimeAgrees
<1>1. Init => RuntimeAgrees
    BY LifecycleAssumption DEF Init, RuntimeAgrees, Idle, IdleAdapter
<1>2. TypeOK => MountedType /\ RuntimeType
    BY DEF TypeOK, MountedType, RuntimeType
<1> QED
    BY <1>1, <1>2, NextKeepsRuntime, Kept, TypesAreKept, PTL DEF Spec
=============================================================================
