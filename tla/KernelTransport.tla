--------------------------- MODULE KernelTransport ---------------------------
(***************************************************************************)
(* KernelTransport: the link between the service and either the in-process *)
(* bridge (loopback) or a kernel driver (device).  A device connection     *)
(* opens the driver and shakes hands; every later request is checked       *)
(* against what the driver granted.  Each method runs to its end before    *)
(* the next; the driver may fail any call.                                 *)
(***************************************************************************)
EXTENDS Integers, FiniteSets

CONSTANTS
    Handles,       \* bound: device handles the driver can give out
    NoHandle,      \* device_handle_ is null
    DeviceFaults   \* which of "open", "ioctl", "close" the driver may fail

ASSUME TransportAssumption ==
    /\ NoHandle \notin Handles
    /\ DeviceFaults \subseteq {"open", "ioctl", "close"}

VARIABLES
    mode,     \* mode_
    policy,   \* feature_policy_
    link,     \* connected_, handshake_complete_, negotiated_*, device_handle_
    opened,   \* the device handles open at the driver
    stuck,    \* history: handles the driver refused to close
    granted,  \* history: the driver's answer to the accepted handshake
    reached   \* history: the request the last call passed on to the driver

transportVars == <<mode, policy, link, opened, stuck, granted, reached>>

Capabilities == {"readDirectory", "queryFile", "readFile"}
Features == {"strictReadonly", "directorySnapshot", "stableHandleIo"}
Opcodes == {"readDirectory", "queryFile", "openFile", "readFile",
            "closeFile", "handshake", "invalid"}

Down == [connected |-> FALSE, handshake |-> FALSE,
         caps |-> {}, feats |-> {}, handle |-> NoHandle]
Up(caps, feats, handle) ==
    [connected |-> TRUE, handshake |-> TRUE,
     caps |-> caps, feats |-> feats, handle |-> handle]

\* What a driver may answer to a handshake: nothing that parses, a refusal,
\* fewer than eight bytes, or a version, capabilities and perhaps features.
NoFeatures == {"absent"}
Answers ==
    [kind : {"refused", "short"}]
        \cup (IF "ioctl" \in DeviceFaults THEN [kind : {"fails"}] ELSE {})
        \cup [kind : {"ok"}, version : 0..2, caps : SUBSET Capabilities,
              feats : (SUBSET Features) \cup {NoFeatures}]

TransportTypeOK ==
    /\ mode \in {"loopback", "device"}
    /\ policy \in {"strict", "bestEffort"}
    /\ link \in [connected : BOOLEAN, handshake : BOOLEAN,
                 caps : SUBSET Capabilities, feats : SUBSET Features,
                 handle : Handles \cup {NoHandle}]
    /\ opened \subseteq Handles /\ stuck \subseteq Handles
    /\ reached \in Opcodes \cup {"none"}
    /\ link.connected = link.handshake
    /\ ~ link.connected => link = Down

TransportInit ==
    /\ mode = "loopback"
    /\ policy = "strict"
    /\ link = Down
    /\ opened = {} /\ stuck = {}
    /\ granted = [kind |-> "refused"]
    /\ reached = "none"

-----------------------------------------------------------------------------
\* A call that changes nothing and passes nothing on.
TransportRefuses ==
    /\ reached' = "none"
    /\ UNCHANGED <<mode, policy, link, opened, stuck, granted>>

SetMode(m) ==
    \/ link.connected /\ TransportRefuses
    \/ /\ ~ link.connected
       /\ mode' = m
       /\ reached' = "none"
       /\ UNCHANGED <<policy, link, opened, stuck, granted>>

SetFeaturePolicy(p) ==
    \/ link.connected /\ TransportRefuses
    \/ /\ ~ link.connected
       /\ policy' = p
       /\ reached' = "none"
       /\ UNCHANGED <<mode, link, opened, stuck, granted>>

\* An answer of eight bytes stands for the read-only feature alone.
FeaturesOf(answer) ==
    IF answer.feats = NoFeatures THEN {"strictReadonly"} ELSE answer.feats

\* Connect's tests of the driver's answer.
Accepted(answer) ==
    /\ answer.kind = "ok"
    /\ answer.version = 1
    /\ answer.caps = Capabilities
    /\ "strictReadonly" \in FeaturesOf(answer)
    /\ policy = "strict" => FeaturesOf(answer) = Features

\* Connect through the bridge: ok says whether it could open the image.
ConnectLoopback(ok) ==
    /\ mode = "loopback" /\ ~ link.connected
    /\ link' = IF ok THEN Up(Capabilities, Features, NoHandle) ELSE Down
    /\ reached' = "none"
    /\ UNCHANGED <<mode, policy, opened, stuck, granted>>

\* Mutant: a refused handshake keeps the driver's handle.
KeepsHandle(h) == opened' = opened \cup {h} /\ UNCHANGED stuck

\* Close after a refused handshake; whether it worked is not looked at.
CloseRefused(h) ==
    \/ UNCHANGED <<opened, stuck>>
    \/ /\ "close" \in DeviceFaults
       /\ opened' = opened \cup {h}
       /\ stuck' = stuck \cup {h}

\* Connect to the driver, once it could be opened: its answer is accepted,
\* or it is not and the handle is closed again.
ConnectDevice ==
    /\ mode = "device" /\ ~ link.connected
    /\ reached' = "handshake"
    /\ UNCHANGED <<mode, policy>>
    /\ \E h \in Handles \ opened, answer \in Answers :
          \/ /\ Accepted(answer)
             /\ link' = Up(answer.caps, FeaturesOf(answer), h)
             /\ opened' = opened \cup {h}
             /\ granted' = answer
             /\ UNCHANGED stuck
          \/ /\ ~ Accepted(answer)
             /\ link' = Down
             /\ CloseRefused(h)
             /\ UNCHANGED granted

ConnectRefused ==
    /\ link.connected \/ (mode = "device" /\ "open" \in DeviceFaults)
    /\ TransportRefuses

Disconnect ==
    /\ link.connected
    /\ link' = Down
    /\ IF mode = "device"
       THEN opened' = opened \ {link.handle} /\ stuck' = stuck \ {link.handle}
       ELSE UNCHANGED <<opened, stuck>>
    /\ reached' = "none"
    /\ UNCHANGED <<mode, policy, granted>>

\* A handle the driver will not close stays, and with it the connection.
DisconnectRefused ==
    \/ ~ link.connected /\ TransportRefuses
    \/ /\ link.connected /\ mode = "device" /\ "close" \in DeviceFaults
       /\ stuck' = stuck \cup {link.handle}
       /\ reached' = "none"
       /\ UNCHANGED <<mode, policy, link, opened, granted>>

\* Mutant: handle operations need no feature of their own.
AllowedWithoutHandles(opcode) ==
    \/ opcode = "handshake"
    \/ /\ link.handshake
       /\ opcode \in {"readDirectory", "queryFile", "readFile"} => opcode \in link.caps
       /\ opcode \in {"openFile", "closeFile"} => "readFile" \in link.caps
       /\ opcode # "invalid"
       /\ "strictReadonly" \in link.feats

\* IsRequestAllowedByPolicy.
RequestAllowed(opcode) ==
    \/ opcode = "handshake"
    \/ /\ link.handshake
       /\ opcode \in {"readDirectory", "queryFile", "readFile"} => opcode \in link.caps
       /\ opcode \in {"openFile", "closeFile"} =>
             "stableHandleIo" \in link.feats /\ "readFile" \in link.caps
       /\ opcode # "invalid"
       /\ "strictReadonly" \in link.feats

\* Send to the driver; what it answers changes nothing here.
SendDevice(opcode) ==
    /\ mode = "device" /\ link.connected /\ RequestAllowed(opcode)
    /\ reached' = opcode
    /\ UNCHANGED <<mode, policy, link, opened, stuck, granted>>

\* Send refused: by policy, or because nothing is connected.
SendRefused(opcode) ==
    /\ ~ link.connected \/ (mode = "device" /\ ~ RequestAllowed(opcode))
    /\ TransportRefuses

-----------------------------------------------------------------------------
\* A handle open at the driver is the one of the device connection that is
\* up, or one the driver itself refused to close: mode and connection cannot
\* drift apart, and each of the ways a handshake is refused closes what the
\* connection attempt opened.
NoHandleLeak ==
    LET held == IF link.connected /\ mode = "device" THEN {link.handle} ELSE {}
    IN  held \subseteq opened /\ opened \subseteq held \cup stuck

\* A file request reaches the driver only if the driver, asked on this very
\* connection, granted everything the request needs, the features asked for
\* by a strict policy included.
OnlyGranted ==
    reached \notin {"none", "handshake"} =>
        /\ granted.kind = "ok" /\ granted.version = 1
        /\ granted.caps = Capabilities
        /\ "strictReadonly" \in FeaturesOf(granted)
        /\ reached \in {"openFile", "closeFile"} =>
              "stableHandleIo" \in FeaturesOf(granted)
        /\ policy = "strict" => FeaturesOf(granted) = Features
=============================================================================
