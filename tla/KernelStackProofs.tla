-------------------------- MODULE KernelStackProofs --------------------------
(***************************************************************************)
(* Proofs about KernelStack, for any drive letters, images, handles and    *)
(* driver faults: what the transport holds and forwards, that the layers   *)
(* above it agree, and what session and handle table hold.                 *)
(***************************************************************************)
EXTENDS KernelStack, ImageSessionProofs

\* A device connection that is up has the features its driver granted.
LinkAsGranted ==
    link.connected /\ mode = "device" =>
        /\ granted.kind = "ok" /\ granted.version = 1
        /\ granted.caps = Capabilities
        /\ "strictReadonly" \in FeaturesOf(granted)
        /\ policy = "strict" => FeaturesOf(granted) = Features
        /\ link.feats = FeaturesOf(granted)

TransportInvariant ==
    /\ link.connected \in BOOLEAN
    /\ NoHandleLeak
    /\ LinkAsGranted
    /\ OnlyGranted

SvcType ==
    svc \in [channel : BOOLEAN, installed : BOOLEAN, running : BOOLEAN,
             assigned : Points \cup {NoPoint}, mounted : BOOLEAN]

Invariant == TransportInvariant /\ SvcType /\ LayersAgree

-----------------------------------------------------------------------------
(* The transport's own actions.                                            *)

LEMMA RefusesKeeps ==
    TransportInvariant /\ TransportRefuses => TransportInvariant'
BY DEF TransportInvariant, TransportRefuses, NoHandleLeak, LinkAsGranted, OnlyGranted

LEMMA SettingKeeps ==
    ASSUME TransportInvariant,
           (\E m \in {"loopback", "device"} : SetMode(m))
              \/ (\E p \in {"strict", "bestEffort"} : SetFeaturePolicy(p))
    PROVE  TransportInvariant'
<1>1. CASE TransportRefuses
    BY <1>1, RefusesKeeps
<1>2. CASE ~ link.connected /\ reached' = "none"
           /\ UNCHANGED <<link, opened, stuck, granted>>
    BY <1>2 DEF TransportInvariant, NoHandleLeak, LinkAsGranted, OnlyGranted
<1> QED
    BY <1>1, <1>2 DEF SetMode, SetFeaturePolicy

LEMMA ConnectLoopbackKeeps ==
    ASSUME TransportInvariant, NEW ok \in BOOLEAN, ConnectLoopback(ok)
    PROVE  TransportInvariant'
<1>1. /\ mode = "loopback" /\ mode' = mode /\ ~ link.connected /\ reached' = "none"
      /\ UNCHANGED <<policy, opened, stuck, granted>>
      /\ link'.connected \in BOOLEAN
    BY DEF ConnectLoopback, Up, Down
<1> QED
    BY <1>1 DEF TransportInvariant, NoHandleLeak, LinkAsGranted, OnlyGranted

LEMMA ConnectDeviceKeeps ==
    TransportInvariant /\ ConnectDevice => TransportInvariant'
<1> SUFFICES ASSUME TransportInvariant, ConnectDevice
             PROVE  TransportInvariant'
    OBVIOUS
<1>1. /\ mode = "device" /\ mode' = mode /\ policy' = policy
      /\ ~ link.connected /\ reached' = "handshake"
    BY DEF ConnectDevice
<1>2. PICK h \in Handles \ opened, reply \in Answers :
          \/ /\ Accepted(reply)
             /\ link' = Up(reply.caps, FeaturesOf(reply), h)
             /\ opened' = opened \cup {h}
             /\ granted' = reply
             /\ UNCHANGED stuck
          \/ /\ ~ Accepted(reply)
             /\ link' = Down
             /\ CloseRefused(h)
             /\ UNCHANGED granted
    BY DEF ConnectDevice
<1>3. opened \subseteq stuck
    BY <1>1 DEF TransportInvariant, NoHandleLeak
<1>4. CASE link' = Up(reply.caps, FeaturesOf(reply), h)
           /\ opened' = opened \cup {h} /\ granted' = reply
           /\ Accepted(reply) /\ UNCHANGED stuck
    <2>1. link'.connected = TRUE /\ link'.handle = h /\ link'.feats = FeaturesOf(reply)
        BY <1>4 DEF Up
    <2> QED
        BY <1>1, <1>3, <1>4, <2>1
        DEF TransportInvariant, NoHandleLeak, LinkAsGranted, OnlyGranted, Accepted, FeaturesOf
<1>5. CASE link' = Down /\ CloseRefused(h)
    <2>1. link'.connected = FALSE
        BY <1>5 DEF Down
    <2> QED
        BY <1>1, <1>3, <1>5, <2>1
        DEF TransportInvariant, NoHandleLeak, LinkAsGranted, OnlyGranted, CloseRefused
<1> QED
    BY <1>2, <1>4, <1>5

LEMMA DisconnectKeeps ==
    TransportInvariant /\ (Disconnect \/ DisconnectRefused) => TransportInvariant'
<1> SUFFICES ASSUME TransportInvariant, Disconnect \/ DisconnectRefused
             PROVE  TransportInvariant'
    OBVIOUS
<1>1. CASE Disconnect
    <2>1. link'.connected = FALSE
        BY <1>1 DEF Disconnect, Down
    <2> QED
        BY <1>1, <2>1
        DEF Disconnect, TransportInvariant, NoHandleLeak, LinkAsGranted, OnlyGranted
<1>2. CASE TransportRefuses
    BY <1>2, RefusesKeeps
<1>3. CASE /\ stuck' = stuck \cup {link.handle} /\ reached' = "none"
           /\ UNCHANGED <<mode, policy, link, opened, granted>>
    BY <1>3 DEF TransportInvariant, NoHandleLeak, LinkAsGranted, OnlyGranted
<1> QED
    BY <1>1, <1>2, <1>3 DEF DisconnectRefused

LEMMA SendKeeps ==
    ASSUME TransportInvariant, NEW opcode \in Opcodes,
           SendDevice(opcode) \/ SendRefused(opcode)
    PROVE  TransportInvariant'
<1>1. CASE SendDevice(opcode)
    <2>1. /\ mode = "device" /\ link.connected /\ RequestAllowed(opcode)
          /\ reached' = opcode
          /\ UNCHANGED <<mode, policy, link, opened, stuck, granted>>
        BY <1>1 DEF SendDevice
    <2>2. NoHandleLeak' /\ LinkAsGranted' /\ link'.connected \in BOOLEAN
        BY <2>1 DEF TransportInvariant, NoHandleLeak, LinkAsGranted
    <2>3. OnlyGranted'
        BY <2>1 DEF TransportInvariant, LinkAsGranted, OnlyGranted, RequestAllowed, FeaturesOf
    <2> QED
        BY <2>2, <2>3 DEF TransportInvariant
<1>2. CASE SendRefused(opcode)
    BY <1>2, RefusesKeeps DEF SendRefused
<1> QED
    BY <1>1, <1>2

LEMMA ConnectKeeps ==
    ASSUME TransportInvariant, NEW p \in Paths, Connect(p)
    PROVE  TransportInvariant'
<1>1. CASE ConnectLoopback(Opens(p))
    <2>1. Opens(p) \in BOOLEAN
        BY DEF Opens, Open
    <2> QED
        BY <1>1, <2>1, ConnectLoopbackKeeps
<1> QED
    BY <1>1, ConnectDeviceKeeps, RefusesKeeps DEF Connect, ConnectRefused

-----------------------------------------------------------------------------
(* The calls of each layer's client.                                       *)

LEMMA TransportCallKeeps ==
    Invariant /\ TransportCall => Invariant'
<1> SUFFICES ASSUME Invariant, TransportCall
             PROVE  Invariant'
    OBVIOUS
<1>1. TransportInvariant'
    BY SettingKeeps, ConnectKeeps, DisconnectKeeps, SendKeeps, RefusesKeeps
    DEF TransportCall, Send, SendLoopback, Invariant
<1>2. user = "transport" /\ UNCHANGED <<user, svc>>
    BY DEF TransportCall
<1> QED
    BY <1>1, <1>2 DEF Invariant, SvcType, LayersAgree

\* What a started or stopped service's flags are.
LEMMA StartedFlags ==
    ASSUME SvcType, NEW up \in BOOLEAN
    PROVE  /\ Started(svc, up) \in [channel : BOOLEAN, installed : BOOLEAN,
                running : BOOLEAN, assigned : Points \cup {NoPoint}, mounted : BOOLEAN]
           /\ Started(svc, up).running = up /\ Started(svc, up).channel = up
           /\ Started(svc, up).installed = svc.installed
           /\ Started(svc, up).mounted = svc.mounted
           /\ Started(svc, up).assigned = svc.assigned
BY DEF SvcType, Started

LEMMA StartServiceKeeps ==
    ASSUME Invariant, user = "controller", UNCHANGED user, NEW p \in Paths, StartService(p)
    PROVE  Invariant'
<1>1. CASE NothingBelow /\ UNCHANGED svc
    BY <1>1, RefusesKeeps
    DEF NothingBelow, TransportRefuses, Invariant, SvcType, LayersAgree
<1>2. CASE svc.installed /\ Connect(p) /\ svc' = Started(svc, link'.connected)
    <2>1. TransportInvariant'
        BY <1>2, ConnectKeeps DEF Invariant
    <2>2. link'.connected \in BOOLEAN
        BY <2>1 DEF TransportInvariant
    <2> QED
        BY <1>2, <2>1, <2>2, StartedFlags DEF Invariant, SvcType, LayersAgree
<1> QED
    BY <1>1, <1>2 DEF StartService

LEMMA StopServiceKeeps ==
    ASSUME Invariant, user = "controller", UNCHANGED user, StopService
    PROVE  Invariant'
<1>1. TransportInvariant'
    BY DisconnectKeeps, RefusesKeeps DEF StopService, Invariant
<1>2. CASE UNCHANGED svc /\ (TransportRefuses \/ DisconnectRefused)
    BY <1>1, <1>2
    DEF TransportRefuses, DisconnectRefused, Invariant, SvcType, LayersAgree
<1>3. CASE Disconnect /\ svc' = Started(svc, FALSE)
    <2>1. link'.connected = FALSE
        BY <1>3 DEF Disconnect, Down
    <2> QED
        BY <1>1, <1>3, <2>1, StartedFlags DEF Invariant, SvcType, LayersAgree
<1> QED
    BY <1>2, <1>3 DEF StopService

LEMMA ListDirectoryKeeps ==
    Invariant /\ ListDirectory /\ UNCHANGED user => Invariant'
<1> SUFFICES ASSUME Invariant, ListDirectory, UNCHANGED user
             PROVE  Invariant'
    OBVIOUS
<1>1. "readDirectory" \in Opcodes
    BY DEF Opcodes
<1>2. TransportInvariant'
    BY <1>1, SendKeeps, RefusesKeeps DEF ListDirectory, NothingBelow, Invariant
<1>3. UNCHANGED <<svc, mode>> /\ link' = link
    BY DEF ListDirectory, NothingBelow, TransportRefuses, SendDevice, SendRefused
<1> QED
    BY <1>2, <1>3 DEF Invariant, SvcType, LayersAgree

LEMMA ControllerCallKeeps ==
    Invariant /\ ControllerCall => Invariant'
<1> SUFFICES ASSUME Invariant, ControllerCall
             PROVE  Invariant'
    OBVIOUS
<1>1. user = "controller" /\ user' = user
    BY DEF ControllerCall
<1>2. ASSUME NEW m \in {"loopback", "device"}, SetTransportMode(m)
      PROVE  Invariant'
    <2>1. TransportInvariant' /\ link' = link /\ svc' = svc
        BY <1>2, SettingKeeps DEF SetTransportMode, SetMode, TransportRefuses, Invariant
    <2> QED
        BY <1>1, <2>1 DEF Invariant, SvcType, LayersAgree
<1>3. CASE InstallService \/ RemoveService
    <2>1. TransportInvariant' /\ link' = link
        BY <1>3, RefusesKeeps
        DEF InstallService, RemoveService, NothingBelow, TransportRefuses, Invariant
    <2>2. /\ SvcType' /\ svc'.running = svc.running /\ svc'.channel = svc.channel
          /\ svc.running => svc'.installed
        BY <1>1, <1>3 DEF InstallService, RemoveService, Invariant, SvcType, LayersAgree
    <2> QED
        BY <1>1, <2>1, <2>2 DEF Invariant, LayersAgree
<1> QED
    BY <1>1, <1>2, <1>3, StartServiceKeeps, StopServiceKeeps, ListDirectoryKeeps
    DEF ControllerCall

LEMMA MountKeeps ==
    ASSUME Invariant, user = "backend", UNCHANGED user,
           NEW p \in Paths, NEW pt \in Points \cup {BadPoint, NoPoint},
           MountReadOnly(p, pt)
    PROVE  Invariant'
<1>1. CASE link.connected /\ NothingBelow /\ UNCHANGED svc
    BY <1>1, RefusesKeeps
    DEF NothingBelow, TransportRefuses, Invariant, SvcType, LayersAgree
<1>2. CASE /\ ~ link.connected /\ svc' = [svc EXCEPT !.installed = TRUE]
           /\ SetMode("loopback")
    <2>1. TransportInvariant' /\ link' = link /\ mode' = "loopback"
        BY <1>2, SettingKeeps DEF SetMode, TransportRefuses, Invariant
    <2> QED
        BY <1>2, <2>1 DEF Invariant, SvcType, LayersAgree
<1>3. CASE ~ link.connected /\ pt # NoPoint /\ mode' = "loopback"
    <2> DEFINE done == Opens(p) /\ MayAssign(pt)
               on   == [Started(svc, Opens(p)) EXCEPT !.installed = TRUE]
    <2>1. /\ reached' = "none"
          /\ UNCHANGED <<policy, opened, stuck, granted>>
          /\ link' = IF done THEN Up(Capabilities, Features, NoHandle) ELSE Down
          /\ svc' = IF ~ Opens(p) THEN on
                    ELSE IF ~ done THEN RolledBack(on)
                    ELSE [on EXCEPT !.assigned = pt, !.mounted = TRUE]
        BY <1>3 DEF MountReadOnly
    <2>2. link'.connected = done /\ done \in BOOLEAN
        BY <2>1 DEF Up, Down, Opens, Open, MayAssign
    <2>3. TransportInvariant'
        BY <1>3, <2>1, <2>2
        DEF Invariant, TransportInvariant, NoHandleLeak, LinkAsGranted, OnlyGranted
    <2>4. ~ svc.running /\ ~ svc.mounted /\ svc.assigned = NoPoint
        BY <1>3 DEF Invariant, LayersAgree, SvcType, TransportInvariant
    <2>5. CASE ~ Opens(p)
        <3>1. svc' = [Started(svc, FALSE) EXCEPT !.installed = TRUE]
            BY <2>1, <2>5 DEF Opens, Open
        <3> QED
            BY <3>1, <1>3, <2>2, <2>3, <2>4, <2>5 DEF Started, Invariant, SvcType, LayersAgree
    <2>6. CASE Opens(p) /\ ~ done
        <3>1. svc' = RolledBack(on)
            BY <2>1, <2>6
        <3> QED
            BY <3>1, <1>3, <2>2, <2>3, <2>4, <2>6
            DEF RolledBack, Started, Invariant, SvcType, LayersAgree
    <2>7. CASE done
        <3>1. /\ svc' = [[Started(svc, TRUE) EXCEPT !.installed = TRUE]
                             EXCEPT !.assigned = pt, !.mounted = TRUE]
              /\ pt \in Points /\ pt # NoPoint
            BY <2>1, <2>7, StackAssumption DEF Opens, Open, MayAssign
        <3> QED
            BY <3>1, <1>3, <2>2, <2>3, <2>7 DEF Started, Invariant, SvcType, LayersAgree
    <2> QED
        BY <2>5, <2>6, <2>7
<1> QED
    BY <1>1, <1>2, <1>3 DEF MountReadOnly

LEMMA UnmountKeeps ==
    ASSUME Invariant, user = "backend", UNCHANGED user, NEW pt, Unmount(pt)
    PROVE  Invariant'
<1>1. TransportInvariant'
    BY DisconnectKeeps, RefusesKeeps DEF Unmount, Invariant
<1>2. CASE TransportRefuses /\ UNCHANGED svc
    BY <1>1, <1>2 DEF TransportRefuses, Invariant, SvcType, LayersAgree
<1>3. CASE Disconnect /\ svc' = [RolledBack(svc) EXCEPT !.assigned = NoPoint, !.mounted = FALSE]
    <2>1. link'.connected = FALSE /\ mode' = mode
        BY <1>3 DEF Disconnect, Down
    <2> QED
        BY <1>1, <1>3, <2>1 DEF RolledBack, Started, Invariant, SvcType, LayersAgree
<1> QED
    BY <1>2, <1>3 DEF Unmount

LEMMA BackendCallKeeps ==
    Invariant /\ BackendCall => Invariant'
BY MountKeeps, UnmountKeeps, ListDirectoryKeeps DEF BackendCall

-----------------------------------------------------------------------------
LEMMA Start ==
    Init => Invariant
<1> SUFFICES ASSUME Init
             PROVE  Invariant
    OBVIOUS
<1>1. /\ mode = "loopback" /\ link.connected = FALSE /\ opened = {} /\ stuck = {}
      /\ reached = "none"
    BY DEF Init, TransportInit, Down
<1>2. TransportInvariant
    BY <1>1 DEF TransportInvariant, NoHandleLeak, LinkAsGranted, OnlyGranted
<1>3. /\ svc.channel = FALSE /\ svc.running = FALSE /\ svc.mounted = FALSE
      /\ svc.assigned = NoPoint /\ SvcType
    BY DEF Init, SvcType
<1> QED
    BY <1>1, <1>2, <1>3 DEF Invariant, LayersAgree

LEMMA Step ==
    Invariant /\ [Next]_vars => Invariant'
<1> SUFFICES ASSUME Invariant, [Next]_vars
             PROVE  Invariant'
    OBVIOUS
<1>1. CASE UNCHANGED <<transportVars, user, svc>>
    BY <1>1 DEF transportVars, Invariant, TransportInvariant, NoHandleLeak,
                LinkAsGranted, OnlyGranted, SvcType, LayersAgree
<1> QED
    BY <1>1, TransportCallKeeps, ControllerCallKeeps, BackendCallKeeps
    DEF Next, Elsewhere, vars

LEMMA Always ==
    Spec => []Invariant
BY Start, Step, PTL DEF Spec

\* Every handle open at the driver is the connection's, or one the driver
\* itself refused to close, whatever the driver answers and the client calls.
THEOREM HandlesAccountedFor ==
    Spec => []NoHandleLeak
<1>1. Invariant => NoHandleLeak
    BY DEF Invariant, TransportInvariant
<1> QED
    BY Always, <1>1, PTL

\* No file request reaches a driver that did not grant what it needs.
THEOREM RequestsAreGranted ==
    Spec => []OnlyGranted
<1>1. Invariant => OnlyGranted
    BY DEF Invariant, TransportInvariant
<1> QED
    BY Always, <1>1, PTL

\* Transport, channel, controller, mount manager and backend agree after every
\* call, however far it got.
THEOREM LayersStayTogether ==
    Spec => []LayersAgree
<1>1. Invariant => LayersAgree
    BY DEF Invariant
<1> QED
    BY Always, <1>1, PTL

-----------------------------------------------------------------------------
(* Handles and the catalog.                                                *)

SessionFields == {"open", "free", "catalog", "sectors", "files",
                  "sectorCap", "fileCap", "maxItem"}

\* The records have their fields, and what is open is listed.
HandleInvariant ==
    /\ DOMAIN fs = {"ses", "handles", "next"} /\ DOMAIN fs.ses = SessionFields
    /\ OpenHandlesResolve

SameCatalog(ses, t) == DOMAIN t = DOMAIN ses /\ t.catalog = ses.catalog

\* Reading a file, from cache or image, leaves the catalog.
LEMMA ReadingKeepsCatalog ==
    ASSUME NEW ses, DOMAIN ses = SessionFields, NEW img, NEW file
    PROVE  SameCatalog(ses, ReadFileByCatalogFile(ses, img, file).ses)
<1> DEFINE read == ReadChain(ses, img, file.start)
<1>1. SameCatalog(ses, read.ses)
    BY DEF ReadChain, SameCatalog, SessionFields
<1>2. SameCatalog(ses, CacheHit(ses, file.name).ses)
    BY DEF CacheHit, SameCatalog, SessionFields
<1> HIDE DEF read
<1>3. SameCatalog(ses, CacheFile(read.ses, file, read.data))
    BY <1>1 DEF CacheFile, SameCatalog, SessionFields
<1>4. ReadFileByCatalogFile(ses, img, file).ses \in
          {CacheHit(ses, file.name).ses, read.ses, CacheFile(read.ses, file, read.data)}
    BY DEF ReadFileByCatalogFile, read
<1> QED
    BY <1>1, <1>2, <1>3, <1>4

LEMMA ReadingByNameKeepsCatalog ==
    ASSUME NEW ses, DOMAIN ses = SessionFields, NEW img, NEW name,
           NEW r \in ReadFileByWindowsName(ses, img, name)
    PROVE  SameCatalog(ses, r.ses)
<1>1. SameCatalog(ses, CacheHit(ses, name).ses)
    BY DEF CacheHit, SameCatalog, SessionFields
<1>2. \/ r = CacheHit(ses, name)
      \/ r.ses = ses
      \/ \E f : r = ReadFileByCatalogFile(ses, img, f)
    BY DEF ReadFileByWindowsName
<1> QED
    BY <1>1, <1>2, ReadingKeepsCatalog DEF SameCatalog

\* A listed file is found under the name it is listed by.
LEMMA ListedIsFound ==
    ASSUME NEW catalog, NEW name, NEW f \in FindByWindowsName(catalog, name)
    PROVE  FindByWindowsName(catalog, f.name) # {}
<1>1. Upper[f.name] = Upper[name]
    BY DEF FindByWindowsName
<1>2. FindByWindowsName(catalog, f.name) = FindByWindowsName(catalog, name)
    BY <1>1 DEF FindByWindowsName
<1> QED
    BY <1>2

\* Opening an image on the session, done or not.
LEMMA OpenKeepsFields ==
    ASSUME NEW ses, DOMAIN ses = SessionFields, NEW path, NEW img
    PROVE  DOMAIN Open(ses, path, img).ses = SessionFields
<1>1. ASSUME NEW s, DOMAIN s = SessionFields, NEW b
      PROVE  DOMAIN ReadSector(s, img, b).ses = SessionFields
    BY <1>1 DEF ReadSector
<1> DEFINE bam == ReadSector([ses EXCEPT !.open = path], img, "bam")
           dir == ReadSector([bam.ses EXCEPT !.free = bam.data], img, "dir")
<1>2. DOMAIN bam.ses = SessionFields
    BY <1>1
<1> HIDE DEF bam
<1>3. DOMAIN dir.ses = SessionFields
    BY <1>1, <1>2
<1> HIDE DEF dir
<1> QED
    BY <1>2, <1>3 DEF Open, CatalogBuilt, bam, dir

LEMMA InitializeKeeps ==
    ASSUME HandleInvariant, NEW p \in Paths, Initialize(p)
    PROVE  /\ DOMAIN fs' = {"ses", "handles", "next"} /\ DOMAIN fs'.ses = SessionFields
           /\ Opens(p) => DOMAIN fs'.handles = {}
<1>1. DOMAIN Open(fs.ses, p, disk[p]).ses = SessionFields
    BY OpenKeepsFields DEF HandleInvariant
<1> QED
    BY <1>1 DEF HandleInvariant, Initialize, ImageOpened, NoHandles

LEMMA DispatchKeeps ==
    ASSUME HandleInvariant, Dispatch \/ ReadDirectory, link' = link, mode' = mode
    PROVE  HandleInvariant'
<1>1. CASE UNCHANGED fs
    BY <1>1 DEF HandleInvariant, OpenHandlesResolve
<1>2. ASSUME NEW ses, fs' = [fs EXCEPT !.ses = ses], SameCatalog(fs.ses, ses)
      PROVE  HandleInvariant'
    BY <1>2 DEF HandleInvariant, OpenHandlesResolve, SameCatalog
<1>3. ASSUME NEW name \in Spellings, QueryFile(name)
      PROVE  HandleInvariant'
    BY <1>1, <1>2, <1>3, ReadingKeepsCatalog DEF QueryFile, Fail, HandleInvariant
<1>4. ASSUME NEW name \in Spellings, OpenFile(name)
      PROVE  HandleInvariant'
    <2>1. CASE UNCHANGED fs
        BY <1>1, <2>1
    <2>2. CASE ~ UNCHANGED fs
        <3>1. PICK f \in FindByWindowsName(fs.ses.catalog, name) :
                  fs' = [fs EXCEPT !.next = @ + 1,
                            !.handles = [h \in DOMAIN @ \cup {fs.next} |->
                                            IF h = fs.next THEN f.name ELSE @[h]]]
            BY <1>4, <2>2 DEF OpenFile, Fail
        <3>2. FindByWindowsName(fs.ses.catalog, f.name) # {}
            BY <3>1, ListedIsFound
        <3>3. /\ DOMAIN fs' = DOMAIN fs /\ fs'.ses = fs.ses
              /\ fs'.handles = [h \in DOMAIN fs.handles \cup {fs.next} |->
                                    IF h = fs.next THEN f.name ELSE fs.handles[h]]
            BY <3>1 DEF HandleInvariant
        <3> QED
            BY <3>2, <3>3 DEF HandleInvariant, OpenHandlesResolve
    <2> QED
        BY <2>1, <2>2
<1>5. ASSUME NEW h, ReadFile(h)
      PROVE  HandleInvariant'
    BY <1>1, <1>2, <1>5, ReadingByNameKeepsCatalog DEF ReadFile, Fail, HandleInvariant
<1>6. ASSUME NEW h, CloseFile(h)
      PROVE  HandleInvariant'
    <2>1. CASE fs' = [fs EXCEPT !.handles = [k \in DOMAIN @ \ {h} |-> @[k]]]
        BY <2>1 DEF HandleInvariant, OpenHandlesResolve
    <2> QED
        BY <1>1, <1>6, <2>1 DEF CloseFile, Fail
<1> QED
    BY <1>1, <1>3, <1>4, <1>5, <1>6 DEF Dispatch, ReadDirectory, Fail

LEMMA HandleStep ==
    Invariant /\ HandleInvariant /\ [Next]_vars => HandleInvariant'
<1> SUFFICES ASSUME Invariant, HandleInvariant, [Next]_vars
             PROVE  HandleInvariant'
    OBVIOUS
<1>1. ASSUME fs' = fs, link'.connected /\ mode' = "loopback" =>
                           link.connected /\ mode = "loopback"
      PROVE  HandleInvariant'
    BY <1>1 DEF HandleInvariant, OpenHandlesResolve
<1>2. ASSUME TransportRefuses, fs' = fs
      PROVE  HandleInvariant'
    BY <1>1, <1>2 DEF TransportRefuses
<1>3. ASSUME NEW p \in Paths, Initialize(p), link'.connected => Opens(p)
      PROVE  HandleInvariant'
    BY <1>3, InitializeKeeps DEF HandleInvariant, OpenHandlesResolve
<1>4. ASSUME NEW p \in Paths, Connect(p)
      PROVE  HandleInvariant'
    <2>1. CASE Initialize(p) /\ ConnectLoopback(Opens(p))
        BY <1>3, <2>1 DEF ConnectLoopback, Up, Down
    <2>2. CASE (ConnectDevice \/ ConnectRefused) /\ UNCHANGED filesystemVars
        BY <1>1, <1>2, <2>2 DEF ConnectDevice, ConnectRefused, filesystemVars
    <2> QED
        BY <1>4, <2>1, <2>2 DEF Connect
<1>5. ASSUME NEW m, SetMode(m), fs' = fs
      PROVE  HandleInvariant'
    BY <1>1, <1>2, <1>5 DEF SetMode
<1>6. ASSUME Disconnect \/ DisconnectRefused, fs' = fs
      PROVE  HandleInvariant'
    BY <1>1, <1>2, <1>6 DEF Disconnect, DisconnectRefused, Down
<1>7. ASSUME NEW opcode, SendDevice(opcode) \/ SendRefused(opcode), fs' = fs
      PROVE  HandleInvariant'
    BY <1>1, <1>2, <1>7 DEF SendDevice, SendRefused
<1>8. CASE ListDirectory
    BY <1>2, <1>7, <1>8, DispatchKeeps
    DEF ListDirectory, NothingBelow, TransportRefuses, filesystemVars
<1>9. CASE TransportCall
    <2>1. CASE Send
        BY <1>7, <2>1, DispatchKeeps DEF Send, SendLoopback, TransportRefuses, filesystemVars
    <2>2. ASSUME NEW p, SetFeaturePolicy(p), fs' = fs
          PROVE  HandleInvariant'
        BY <1>1, <1>2, <2>2 DEF SetFeaturePolicy
    <2> QED
        BY <1>4, <1>5, <1>6, <1>9, <2>1, <2>2 DEF TransportCall, filesystemVars
<1>10. CASE ControllerCall
    BY <1>2, <1>4, <1>5, <1>6, <1>8, <1>10
    DEF ControllerCall, SetTransportMode, InstallService, RemoveService, StopService,
        StartService, NothingBelow, filesystemVars
<1>11. CASE BackendCall
    <2>1. ASSUME NEW p \in Paths, NEW pt \in Points \cup {BadPoint, NoPoint},
                 MountReadOnly(p, pt)
          PROVE  HandleInvariant'
        <3>1. CASE Initialize(p) /\ (link'.connected => Opens(p))
            BY <1>3, <3>1
        <3>2. CASE ~ Initialize(p)
            BY <1>2, <1>5, <2>1, <3>2 DEF MountReadOnly, NothingBelow, filesystemVars
        <3>3. CASE Initialize(p) /\ ~ (link'.connected => Opens(p))
            BY <1>2, <1>5, <2>1, <3>3
            DEF MountReadOnly, NothingBelow, filesystemVars, Up, Down
        <3> QED
            BY <3>1, <3>2, <3>3
    <2>2. ASSUME NEW pt, Unmount(pt)
          PROVE  HandleInvariant'
        BY <1>2, <1>6, <2>2 DEF Unmount, filesystemVars
    <2> QED
        BY <1>8, <1>11, <2>1, <2>2 DEF BackendCall
<1>12. CASE Elsewhere \/ UNCHANGED vars
    BY <1>1, <1>12 DEF Elsewhere, Replace, vars, filesystemVars, transportVars
<1> QED
    BY <1>9, <1>10, <1>11, <1>12 DEF Next

\* Over the bridge every open handle names a file of the image connected to,
\* whatever is read, reconnected, refused or overwritten meanwhile.
THEOREM HandlesResolve == Spec => []OpenHandlesResolve
<1>1. Init => HandleInvariant
    BY DEF Init, FilesystemInit, TransportInit, HandleInvariant, OpenHandlesResolve,
           NewSession, SessionFields, NoHandles, Down
<1>2. HandleInvariant => OpenHandlesResolve
    BY DEF HandleInvariant
<1> QED
    BY Always, <1>1, <1>2, HandleStep, PTL DEF Spec

-----------------------------------------------------------------------------
(* Types, and the bounds of session and handle table.                      *)

TransportTypes == TransportTypeOK /\ user \in {"transport", "controller", "backend"}

LEMMA UpIsTyped ==
    ASSUME NEW feats \in SUBSET Features, NEW h \in Handles \cup {NoHandle}
    PROVE  LET l == Up(Capabilities, feats, h)
           IN  /\ l \in [connected : BOOLEAN, handshake : BOOLEAN,
                         caps : SUBSET Capabilities, feats : SUBSET Features,
                         handle : Handles \cup {NoHandle}]
               /\ l.connected = TRUE /\ l.handshake = TRUE
  BY DEF Up

LEMMA DownIsTyped ==
    /\ Down \in [connected : BOOLEAN, handshake : BOOLEAN,
                 caps : SUBSET Capabilities, feats : SUBSET Features,
                 handle : Handles \cup {NoHandle}]
    /\ Down.connected = FALSE /\ Down.handshake = FALSE
  BY DEF Down

\* A connection that is made, or not.
LEMMA LinkIsTyped ==
    ASSUME TransportTypes, user' = user, UNCHANGED policy,
           mode' \in {"loopback", "device"},
           opened' \subseteq Handles, stuck' \subseteq Handles,
           reached' \in Opcodes \cup {"none"},
           \/ link' = link
           \/ link' = Down
           \/ \E feats \in SUBSET Features, h \in Handles \cup {NoHandle} :
                 link' = Up(Capabilities, feats, h)
    PROVE  TransportTypes'
<1>1. CASE link' = link
    BY <1>1 DEF TransportTypes, TransportTypeOK, Down
<1>2. CASE link' = Down
    <2>1. Down' = Down
        BY DEF Down
    <2> QED
        BY <1>2, <2>1, DownIsTyped DEF TransportTypes, TransportTypeOK
<1>3. ASSUME NEW feats \in SUBSET Features, NEW h \in Handles \cup {NoHandle},
             link' = Up(Capabilities, feats, h)
      PROVE  TransportTypes'
    BY <1>3, UpIsTyped DEF TransportTypes, TransportTypeOK
<1> QED
    BY <1>1, <1>2, <1>3

\* What a driver's answer grants.
LEMMA AcceptedIsTyped ==
    ASSUME NEW a \in Answers, Accepted(a)
    PROVE  a.caps = Capabilities /\ FeaturesOf(a) \in SUBSET Features
<1>1. a.kind = "ok"
    BY DEF Accepted
<1>2. a.feats \in (SUBSET Features) \cup {NoFeatures}
    BY <1>1 DEF Answers
<1>3. "strictReadonly" \in Features
    BY DEF Features
<1>4. CASE a.feats = NoFeatures
    <2>1. FeaturesOf(a) = {"strictReadonly"}
        BY <1>4 DEF FeaturesOf
    <2> QED
        BY <1>3, <2>1 DEF Accepted
<1>5. CASE a.feats # NoFeatures
    <2>1. FeaturesOf(a) = a.feats
        BY <1>5 DEF FeaturesOf
    <2> QED
        BY <1>2, <1>5, <2>1 DEF Accepted
<1> QED
    BY <1>4, <1>5

LEMMA TransportTypesStep ==
    Invariant /\ TransportTypes /\ [Next]_vars => TransportTypes'
<1> SUFFICES ASSUME Invariant, TransportTypes, [Next]_vars
             PROVE  TransportTypes'
    OBVIOUS
<1>1. /\ mode \in {"loopback", "device"} /\ policy \in {"strict", "bestEffort"}
      /\ opened \subseteq Handles /\ stuck \subseteq Handles
      /\ reached \in Opcodes \cup {"none"}
    BY DEF TransportTypes, TransportTypeOK
<1>2. Features \in SUBSET Features /\ NoHandle \in Handles \cup {NoHandle}
    OBVIOUS
<1>3. link.connected /\ mode = "device" => link.handle \in Handles
    BY <1>1 DEF Invariant, TransportInvariant, NoHandleLeak
<1>4. user' = user
    BY DEF Next, TransportCall, ControllerCall, BackendCall, Elsewhere, vars
<1>5. ASSUME TransportRefuses PROVE TransportTypes'
    BY <1>1, <1>4, <1>5, LinkIsTyped DEF TransportRefuses
<1>6. ASSUME NEW m \in {"loopback", "device"}, SetMode(m) PROVE TransportTypes'
    BY <1>1, <1>4, <1>5, <1>6, LinkIsTyped DEF SetMode
<1>7. ASSUME NEW p \in {"strict", "bestEffort"}, SetFeaturePolicy(p) PROVE TransportTypes'
    <2>1. CASE TransportRefuses
        BY <1>5, <2>1
    <2>2. CASE ~ TransportRefuses
        BY <1>4, <1>7, <2>2 DEF SetFeaturePolicy, TransportTypes, TransportTypeOK, Down
    <2> QED
        BY <2>1, <2>2
<1>8. ASSUME NEW ok, ConnectLoopback(ok) PROVE TransportTypes'
    BY <1>1, <1>2, <1>4, <1>8, LinkIsTyped DEF ConnectLoopback
<1>9. ASSUME ConnectDevice PROVE TransportTypes'
    <2>1. PICK h \in Handles \ opened, a \in Answers :
              \/ /\ Accepted(a)
                 /\ link' = Up(a.caps, FeaturesOf(a), h)
                 /\ opened' = opened \cup {h}
                 /\ UNCHANGED stuck
              \/ link' = Down /\ CloseRefused(h)
        BY <1>9 DEF ConnectDevice
    <2>2. /\ opened' \subseteq Handles /\ stuck' \subseteq Handles
          /\ reached' \in Opcodes \cup {"none"} /\ mode' = mode /\ policy' = policy
        BY <1>1, <1>9, <2>1 DEF ConnectDevice, CloseRefused, Opcodes
    <2>3. CASE link' = Down
        BY <1>1, <1>4, <2>2, <2>3, LinkIsTyped
    <2>4. CASE Accepted(a) /\ link' = Up(a.caps, FeaturesOf(a), h)
        <3>1. a.caps = Capabilities /\ FeaturesOf(a) \in SUBSET Features
            BY <2>4, AcceptedIsTyped
        <3>2. h \in Handles \cup {NoHandle}
            OBVIOUS
        <3> QED
            BY <1>1, <1>4, <2>2, <2>4, <3>1, <3>2, LinkIsTyped
    <2> QED
        BY <2>1, <2>3, <2>4
<1>10. ASSUME Disconnect \/ DisconnectRefused PROVE TransportTypes'
    BY <1>1, <1>3, <1>4, <1>5, <1>10, LinkIsTyped DEF Disconnect, DisconnectRefused
<1>11. ASSUME NEW op \in Opcodes, SendDevice(op) \/ SendRefused(op) PROVE TransportTypes'
    BY <1>1, <1>4, <1>5, <1>11, LinkIsTyped DEF SendDevice, SendRefused
<1>12. ASSUME NEW p, Connect(p) PROVE TransportTypes'
    BY <1>5, <1>8, <1>9, <1>12 DEF Connect, ConnectRefused
<1>13. ASSUME ListDirectory PROVE TransportTypes'
    <2>1. "readDirectory" \in Opcodes
        BY DEF Opcodes
    <2> QED
        BY <1>5, <1>11, <1>13, <2>1 DEF ListDirectory, NothingBelow
<1>14. CASE TransportCall
    BY <1>5, <1>6, <1>7, <1>10, <1>11, <1>12, <1>14 DEF TransportCall, Send, SendLoopback
<1>15. CASE ControllerCall
    BY <1>5, <1>6, <1>10, <1>12, <1>13, <1>15
    DEF ControllerCall, SetTransportMode, InstallService, RemoveService, StopService,
        StartService, NothingBelow
<1>16. CASE BackendCall
    <2>1. ASSUME NEW p \in Paths, NEW pt \in Points \cup {BadPoint, NoPoint},
                 MountReadOnly(p, pt)
          PROVE  TransportTypes'
        <3>1. CASE TransportRefuses \/ SetMode("loopback")
            BY <1>5, <1>6, <3>1
        <3>2. CASE ~ (TransportRefuses \/ SetMode("loopback"))
            <4>1. /\ mode' = "loopback" /\ reached' = "none"
                  /\ UNCHANGED <<policy, opened, stuck>>
                  /\ link' = Up(Capabilities, Features, NoHandle) \/ link' = Down
                BY <2>1, <3>2 DEF MountReadOnly, NothingBelow
            <4> QED
                BY <1>1, <1>2, <1>4, <4>1, LinkIsTyped
        <3> QED
            BY <3>1, <3>2
    <2>2. ASSUME NEW pt, Unmount(pt) PROVE TransportTypes'
        BY <1>5, <1>10, <2>2 DEF Unmount
    <2> QED
        BY <1>13, <1>16, <2>1, <2>2 DEF BackendCall
<1>17. CASE Elsewhere \/ UNCHANGED vars
    BY <1>1, <1>4, <1>17, LinkIsTyped DEF Elsewhere, vars, transportVars
<1> QED
    BY <1>14, <1>15, <1>16, <1>17 DEF Next

\* Any file may be cached under any name: whose it is does not matter here.
AnyFile == [key : Spellings, data : Seq(AllBodies(Images))]

WellKept(s) == Well(s, Images, AnyFile)

\* Over the bridge a connection is one to an image.
FilesystemInvariant ==
    /\ disk \in [Paths -> Images \cup {Unusable}]
    /\ bridge \in BOOLEAN
    /\ DOMAIN fs = {"ses", "handles", "next"}
    /\ WellKept(fs.ses)
    /\ DOMAIN fs.handles \subseteq 1..(fs.next - 1) /\ fs.next \in 1..(MaxHandles + 1)
    /\ link.connected /\ mode = "loopback" => fs.ses.open \in Paths /\ Current \in Images

LEMMA FoundIsListed ==
    ASSUME NEW s, WellKept(s), NEW name, NEW f \in FindByWindowsName(s.catalog, name)
    PROVE  f \in CatalogFile
  BY DEF WellKept, Well, Session, FindByWindowsName

LEMMA ReadingKeepsWell ==
    ASSUME NEW s, WellKept(s), NEW img \in Images, NEW f \in CatalogFile
    PROVE  LET t == ReadFileByCatalogFile(s, img, f).ses
           IN  WellKept(t) /\ SameVolume(t, s)
<1>1. Cacheable(f, Images, AnyFile, img)
    BY DEF Cacheable, ReadAs, AnyFile, CatalogFile
<1>2. \A g \in Images : IsImage(g)
    BY KernelFilesystemAssumption
<1> QED
    BY <1>1, <1>2, ReadFileIsRight DEF WellKept

LEMMA ReadingByNameKeepsWell ==
    ASSUME NEW s, WellKept(s), NEW img \in Images, NEW name,
           NEW r \in ReadFileByWindowsName(s, img, name)
    PROVE  WellKept(r.ses) /\ SameVolume(r.ses, s)
<1>1. CASE name \in Keys(s.files)
    <2>1. r = CacheHit(s, name)
        BY <1>1 DEF ReadFileByWindowsName
    <2> QED
        BY <1>1, <2>1, HitIsRight DEF WellKept
<1>2. CASE name \notin Keys(s.files) /\ FindByWindowsName(s.catalog, name) = {}
    <2>1. r.ses = s
        BY <1>2 DEF ReadFileByWindowsName
    <2> QED
        BY <2>1 DEF SameVolume
<1>3. CASE name \notin Keys(s.files) /\ FindByWindowsName(s.catalog, name) # {}
    <2>1. PICK f \in FindByWindowsName(s.catalog, name) : r = ReadFileByCatalogFile(s, img, f)
        BY <1>3 DEF ReadFileByWindowsName
    <2> QED
        BY <2>1, FoundIsListed, ReadingKeepsWell
<1> QED
    BY <1>1, <1>2, <1>3

\* Whether or not the image opens, the session is in order.
LEMMA InitializeKeepsWell ==
    ASSUME FilesystemInvariant, NEW p \in Paths, Initialize(p),
           link'.connected => Opens(p)
    PROVE  FilesystemInvariant'
<1> DEFINE r == Open(fs.ses, p, disk[p])
<1>1. /\ disk[p] \in Images \cup {Unusable} /\ disk' = disk /\ bridge' \in BOOLEAN
      /\ DOMAIN fs = {"ses", "handles", "next"} /\ WellKept(fs.ses)
      /\ MaxHandles \in Nat
    BY KernelFilesystemAssumption DEF FilesystemInvariant, Initialize
<1>2. /\ WellKept(r.ses)
      /\ Opens(p) => r.ses.open = p /\ disk[p] \in Images
    <2>1. CASE disk[p] = Unusable
        <3>1. r = [ses |-> [fs.ses EXCEPT !.open = NoPath], ok |-> FALSE] /\ ~ Opens(p)
            BY <2>1 DEF Open, Opens
        <3> HIDE DEF r
        <3>2. r.ses = [fs.ses EXCEPT !.open = NoPath]
            BY <3>1
        <3>3. WellKept(r.ses)
            BY <1>1, <3>2 DEF WellKept, Well, Session, CachesWellFormed
        <3> QED
            BY <3>1, <3>3 DEF r
    <2>2. CASE disk[p] # Unusable
        <3>1. \A g \in Images : IsImage(g)
            BY KernelFilesystemAssumption
        <3> QED
            BY <1>1, <2>2, <3>1, OpenIsRight DEF WellKept
    <2> QED
        BY <2>1, <2>2
<1>3. fs' = IF Opens(p)
            THEN [fs EXCEPT !.ses = r.ses, !.handles = NoHandles, !.next = 1]
            ELSE [fs EXCEPT !.ses = r.ses]
    BY DEF Initialize, ImageOpened
<1> HIDE DEF r
<1>4. DOMAIN NoHandles = {}
    BY DEF NoHandles
<1>5. /\ DOMAIN fs' = {"ses", "handles", "next"} /\ fs'.ses = r.ses
      /\ Opens(p) => fs'.handles = NoHandles /\ fs'.next = 1
      /\ ~ Opens(p) => fs'.handles = fs.handles /\ fs'.next = fs.next
    BY <1>1, <1>3
<1>6. DOMAIN fs'.handles \subseteq 1..(fs'.next - 1) /\ fs'.next \in 1..(MaxHandles + 1)
    BY <1>1, <1>4, <1>5 DEF FilesystemInvariant
<1>7. link'.connected => fs'.ses.open = p /\ Current' \in Images
    BY <1>1, <1>2, <1>5 DEF Current
<1>8. disk' \in [Paths -> Images \cup {Unusable}] /\ WellKept(fs'.ses)
    BY <1>1, <1>2, <1>5 DEF FilesystemInvariant
<1> QED
    BY <1>1, <1>5, <1>6, <1>7, <1>8 DEF FilesystemInvariant, WellKept

\* A request over the bridge.
LEMMA DispatchKeepsWell ==
    ASSUME FilesystemInvariant, link.connected, mode = "loopback",
           Dispatch \/ ReadDirectory, UNCHANGED <<disk, bridge>>,
           link' = link, mode' = mode
    PROVE  FilesystemInvariant'
<1>1. /\ fs.ses.open \in Paths /\ Current \in Images /\ WellKept(fs.ses)
      /\ DOMAIN fs = {"ses", "handles", "next"}
      /\ DOMAIN fs.handles \subseteq 1..(fs.next - 1)
      /\ fs.next \in 1..(MaxHandles + 1) /\ MaxHandles \in Nat
    BY KernelFilesystemAssumption DEF FilesystemInvariant
<1>2. CASE UNCHANGED fs
    BY <1>2 DEF FilesystemInvariant, Current
<1>3. ASSUME NEW ses, fs' = [fs EXCEPT !.ses = ses], WellKept(ses), SameVolume(ses, fs.ses)
      PROVE  FilesystemInvariant'
    <2>1. /\ DOMAIN fs' = {"ses", "handles", "next"} /\ fs'.ses = ses
          /\ fs'.handles = fs.handles /\ fs'.next = fs.next
        BY <1>1, <1>3
    <2>2. Current' = Current
        BY <1>3, <2>1 DEF Current, SameVolume
    <2> QED
        BY <1>1, <1>3, <2>1, <2>2 DEF FilesystemInvariant, SameVolume
<1>4. ASSUME NEW name \in Spellings, QueryFile(name)
      PROVE  FilesystemInvariant'
    <2>1. ASSUME NEW f \in FindByWindowsName(fs.ses.catalog, name),
                 fs' = [fs EXCEPT !.ses = ReadFileByCatalogFile(fs.ses, Current, f).ses]
          PROVE  FilesystemInvariant'
        BY <1>1, <1>3, <2>1, FoundIsListed, ReadingKeepsWell
    <2> QED
        BY <1>2, <1>4, <2>1 DEF QueryFile, Fail
<1>5. ASSUME NEW name \in Spellings, OpenFile(name)
      PROVE  FilesystemInvariant'
    <2>1. ASSUME NEW f, fs.next =< MaxHandles,
                 fs' = [fs EXCEPT !.next = @ + 1,
                            !.handles = [h \in DOMAIN @ \cup {fs.next} |->
                                            IF h = fs.next THEN f.name ELSE @[h]]]
          PROVE  FilesystemInvariant'
        <3>1. /\ DOMAIN fs' = {"ses", "handles", "next"} /\ fs'.ses = fs.ses
              /\ fs'.next = fs.next + 1
              /\ DOMAIN fs'.handles = DOMAIN fs.handles \cup {fs.next}
            BY <1>1, <2>1
        <3> QED
            BY <1>1, <2>1, <3>1 DEF FilesystemInvariant, Current
    <2> QED
        BY <1>2, <1>5, <2>1 DEF OpenFile, Fail
<1>6. ASSUME NEW h, ReadFile(h)
      PROVE  FilesystemInvariant'
    <2>1. ASSUME NEW r \in ReadFileByWindowsName(fs.ses, Current, fs.handles[h]),
                 fs' = [fs EXCEPT !.ses = r.ses]
          PROVE  FilesystemInvariant'
        BY <1>1, <1>3, <2>1, ReadingByNameKeepsWell
    <2> QED
        BY <1>2, <1>6, <2>1 DEF ReadFile, Fail
<1>7. ASSUME NEW h, CloseFile(h)
      PROVE  FilesystemInvariant'
    <2>1. CASE fs' = [fs EXCEPT !.handles = [k \in DOMAIN @ \ {h} |-> @[k]]]
        <3>1. /\ DOMAIN fs' = {"ses", "handles", "next"} /\ fs'.ses = fs.ses
              /\ fs'.next = fs.next /\ DOMAIN fs'.handles = DOMAIN fs.handles \ {h}
            BY <1>1, <2>1
        <3> QED
            BY <1>1, <3>1 DEF FilesystemInvariant, Current
    <2> QED
        BY <1>2, <1>7, <2>1 DEF CloseFile, Fail
<1> QED
    BY <1>2, <1>4, <1>5, <1>6, <1>7 DEF Dispatch, ReadDirectory, Fail

LEMMA FilesystemStep ==
    Invariant /\ FilesystemInvariant /\ [Next]_vars => FilesystemInvariant'
<1> SUFFICES ASSUME Invariant, FilesystemInvariant, [Next]_vars
             PROVE  FilesystemInvariant'
    OBVIOUS
<1>1. ASSUME UNCHANGED filesystemVars, link'.connected /\ mode' = "loopback" =>
                           link.connected /\ mode = "loopback"
      PROVE  FilesystemInvariant'
    BY <1>1 DEF FilesystemInvariant, Current, filesystemVars
<1>2. ASSUME TransportRefuses, UNCHANGED filesystemVars
      PROVE  FilesystemInvariant'
    BY <1>1, <1>2 DEF TransportRefuses
<1>3. ASSUME NEW p \in Paths, Connect(p)
      PROVE  FilesystemInvariant'
    <2>1. CASE Initialize(p) /\ ConnectLoopback(Opens(p))
        BY <2>1, InitializeKeepsWell DEF ConnectLoopback, Up, Down
    <2>2. CASE (ConnectDevice \/ ConnectRefused) /\ UNCHANGED filesystemVars
        BY <1>1, <1>2, <2>2 DEF ConnectDevice, ConnectRefused
    <2> QED
        BY <1>3, <2>1, <2>2 DEF Connect
<1>4. ASSUME NEW m, SetMode(m), UNCHANGED filesystemVars
      PROVE  FilesystemInvariant'
    BY <1>1, <1>2, <1>4 DEF SetMode
<1>5. ASSUME Disconnect \/ DisconnectRefused, UNCHANGED filesystemVars
      PROVE  FilesystemInvariant'
    BY <1>1, <1>2, <1>5 DEF Disconnect, DisconnectRefused, Down
<1>6. ASSUME NEW opcode, SendDevice(opcode) \/ SendRefused(opcode), UNCHANGED filesystemVars
      PROVE  FilesystemInvariant'
    BY <1>1, <1>2, <1>6 DEF SendDevice, SendRefused
<1>7. CASE ListDirectory
    BY <1>2, <1>6, <1>7, DispatchKeepsWell
    DEF ListDirectory, NothingBelow, TransportRefuses
<1>8. CASE TransportCall
    <2>1. CASE SendLoopback
        BY <2>1, DispatchKeepsWell DEF SendLoopback, TransportRefuses, Dispatch
    <2>2. CASE Send
        BY <1>6, <2>1, <2>2 DEF Send
    <2>3. ASSUME NEW p, SetFeaturePolicy(p), UNCHANGED filesystemVars
          PROVE  FilesystemInvariant'
        BY <1>1, <1>2, <2>3 DEF SetFeaturePolicy
    <2> QED
        BY <1>3, <1>4, <1>5, <1>8, <2>2, <2>3 DEF TransportCall
<1>9. CASE ControllerCall
    BY <1>2, <1>3, <1>4, <1>5, <1>7, <1>9
    DEF ControllerCall, SetTransportMode, InstallService, RemoveService, StopService,
        StartService, NothingBelow
<1>10. CASE BackendCall
    <2>1. ASSUME NEW p \in Paths, NEW pt \in Points \cup {BadPoint, NoPoint},
                 MountReadOnly(p, pt)
          PROVE  FilesystemInvariant'
        <3>1. CASE UNCHANGED filesystemVars /\ (TransportRefuses \/ SetMode("loopback"))
            BY <1>2, <1>4, <3>1
        <3>2. CASE Initialize(p) /\ (link'.connected => Opens(p))
            BY <3>2, InitializeKeepsWell
        <3> QED
            BY <2>1, <3>1, <3>2 DEF MountReadOnly, NothingBelow, Up, Down
    <2>2. ASSUME NEW pt, Unmount(pt)
          PROVE  FilesystemInvariant'
        BY <1>2, <1>5, <2>2 DEF Unmount
    <2> QED
        BY <1>7, <1>10, <2>1, <2>2 DEF BackendCall
<1>11. CASE Elsewhere
    <2>1. PICK p \in Paths, img \in Images :
              /\ disk' = [disk EXCEPT ![p] = img]
              /\ UNCHANGED <<bridge, fs, link, mode>>
        BY <1>11 DEF Elsewhere, Replace, transportVars
    <2> QED
        BY <2>1 DEF FilesystemInvariant, Current
<1>12. CASE UNCHANGED vars
    BY <1>1, <1>12 DEF vars, filesystemVars, transportVars
<1> QED
    BY <1>8, <1>9, <1>10, <1>11, <1>12 DEF Next

\* Types of all layers, and that no cache grows over its capacity nor holds a
\* key twice, whatever is mounted, read and overwritten.
THEOREM TypeCorrect == Spec => []TypeOK
<1>1. Init => TransportTypes /\ FilesystemInvariant
    <2> SUFFICES ASSUME Init PROVE TransportTypes /\ FilesystemInvariant
        OBVIOUS
    <2>1. Defaults \in Nat \X Nat \X Nat /\ MaxHandles \in Nat
        BY KernelFilesystemAssumption
    <2>2. /\ fs = [ses |-> NewSession(Defaults[1], Defaults[2], Defaults[3]),
                   handles |-> NoHandles, next |-> 1]
          /\ bridge = FALSE /\ disk \in [Paths -> Images \cup {Unusable}]
          /\ link = Down
        BY DEF Init, FilesystemInit, TransportInit
    <2>3. WellKept(fs.ses)
        BY <2>1, <2>2, NewSessionIsRight DEF WellKept
    <2>4. DOMAIN NoHandles = {}
        BY DEF NoHandles
    <2>5. FilesystemInvariant
        <3>1. /\ DOMAIN fs = {"ses", "handles", "next"}
              /\ fs.handles = NoHandles /\ fs.next = 1
            BY <2>2
        <3>2. /\ DOMAIN fs.handles \subseteq 1..(fs.next - 1)
              /\ fs.next \in 1..(MaxHandles + 1)
            BY <2>1, <2>4, <3>1
        <3>3. link.connected = FALSE /\ bridge \in BOOLEAN
            BY <2>2, DownIsTyped
        <3> QED
            BY <2>2, <2>3, <3>1, <3>2, <3>3 DEF FilesystemInvariant
    <2>6. TransportTypes
        BY <2>2, DownIsTyped DEF Init, TransportInit, TransportTypes, TransportTypeOK
    <2> QED
        BY <2>5, <2>6
<1>2. Invariant /\ TransportTypes /\ FilesystemInvariant => TypeOK
    <2> SUFFICES ASSUME Invariant, TransportTypes, FilesystemInvariant PROVE TypeOK
        OBVIOUS
    <2>1. fs.next =< MaxHandles + 1
        BY KernelFilesystemAssumption DEF FilesystemInvariant
    <2> QED
        BY <2>1 DEF Invariant, SvcType, TransportTypes, FilesystemInvariant, WellKept, Well, TypeOK
<1> QED
    BY Always, <1>1, <1>2, TransportTypesStep, FilesystemStep, PTL DEF Spec
=============================================================================
