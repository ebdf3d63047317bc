----------------------------- MODULE UsbControl -----------------------------
(***************************************************************************)
(* USBD_IRQHandler of inc/usb.h: control transfers on endpoint 0, the      *)
(* events of the bus and the cable, and the keyboard's interrupt IN        *)
(* endpoint as far as control requests touch it.  Three parties take       *)
(* steps:                                                                  *)
(*                                                                         *)
(*   - the host, which starts control transfers, polls, retries, resets,   *)
(*     suspends and resumes the bus, and the user who pulls the cable;     *)
(*   - the USB controller, which answers tokens from what the firmware has *)
(*     armed and raises event flags (in the same step as the host's token);*)
(*   - the handler.  It has the highest priority, so software never sees   *)
(*     it half done, but the controller does: what it reads and writes of  *)
(*     the controller is the program `prog', executed one register access  *)
(*     per step, while its assignments to variables happen on entry.       *)
(*                                                                         *)
(* Endpoint 0 is control IN, 1 control OUT, 2 the keyboard's interrupt IN, *)
(* 3 its unused OUT; 4 and 5, configured for a mouse that no descriptor    *)
(* offers, are left out.  Every reply is shorter than a packet (the        *)
(* longest is the report descriptor or the configuration, both below 64    *)
(* bytes), so a reply is one packet and USB_process_rx_tx meets bytes left *)
(* only before the first reset.  An OUT endpoint's data toggle has no      *)
(* effect in this controller and is left out, and so is                    *)
(* wakeupHostEnabeled, which nothing reads.                                *)
(***************************************************************************)
EXTENDS Integers, Sequences

CONSTANTS
    Requests,       \* bound: the requests the host makes, [kind, arg]
    Addresses,      \* bound: the addresses it assigns, without 0
    SetupBlocks,    \* the controller NAKs the control pipe while SETUP is flagged
    AbandonsAddress,\* the host may give up a SET_ADDRESS half way
    BusSleeps       \* bound: the bus is suspended and the cable pulled

ASSUME AddressAssumption == Addresses \subseteq 1 .. 127
ASSUME RequestAssumption ==
    \A r \in Requests :
        /\ r \in [kind : STRING, arg : 0 .. 255] /\ r.kind # "none"
        /\ r.kind = "SetAddress" => r.arg \in Addresses \union {0}

CtrlIn == 0
CtrlOut == 1
KbdIn == 2
Endpoints == 0 .. 3

no_bytes_left == -1
dontChangeAddress == -1
NoHost == -1        \* hAddr before the host's first reset

VARIABLES
    deviceState,        \* "Default", "Address" or "Configured"
    changeAddressTo,    \* address to take after the next completed IN
    bytes,              \* MultiStage_Bytes of each endpoint
    hidProtocol,        \* USB_HID_PROTOCOL[0]
    idleRate,           \* USB_HID_IDLE_RATE[0]
    timer1,             \* timer 1 runs and sends keyboard reports
    prog,               \* register accesses the handler has left
    FADDR,              \* device address the controller answers to
    armed, buf,         \* MAXPLD written, and the packet it covers, else Zlp
    toggle,             \* DATA0/DATA1 of the next IN packet
    stall,              \* stall bits
    evt,                \* endpoint event flags of INTSTS
    sup,                \* setup buffer while INTSTS flags SETUP, else NoRequest
    busFlag, bus,       \* BUS flag of INTSTS, the last bus event in ATTR
    fldetFlag, plugged, \* FLDET flag of INTSTS, USB_is_attached
    phy, ctl,           \* enable bits of the transceiver and the controller
    hstage, hreq,       \* host: stage of the control transfer, its request
    hAddr, hCfg,        \* host: address and configuration it has set
    hToggle,            \* host: data toggle expected from the keyboard
    hProtocol,          \* host: protocol it has set since the reset, or -1
    hgot                \* host: data packet of the current transfer

software == <<deviceState, changeAddressTo, bytes, hidProtocol, idleRate, timer1>>
power == <<busFlag, bus, fldetFlag, plugged, phy, ctl>>
controller == <<FADDR, armed, buf, toggle, stall, evt, sup, power>>
host == <<hstage, hreq, hAddr, hCfg, hToggle, hProtocol, hgot>>
vars == <<software, prog, controller, host>>

-----------------------------------------------------------------------------
(***************************************************************************)
(* Requests and replies.                                                   *)
(***************************************************************************)
ReadKinds ==
    { "GetStatusDevice", "GetDescriptor", "GetConfiguration",
      "GetStatusInterface", "GetReportDescriptor", "GetStatusEndpoint",
      "GetReport", "GetIdle", "GetProtocol", "ClassGetDescriptor", "OtherRead" }

Request(kind, arg) == [kind |-> kind, arg |-> arg]

NoRequest == Request("none", 0)

IsRead(r) == r.kind \in ReadKinds

\* The SETUP flag of INTSTS.
setupFlag == sup # NoRequest

\* A bus reset has not been handled.
resetFlag == busFlag /\ bus = "reset"

Packet(kind, val) == [kind |-> kind, val |-> val]

Zlp == Packet("zlp", 0)

\* The byte of the reply that depends on state; 0 for constant data.
ReplyValue(r) ==
    CASE r.kind = "GetConfiguration" /\ deviceState = "Configured" -> 1
      [] r.kind = "GetStatusDevice" -> 3
      [] r.kind = "GetStatusEndpoint" /\ r.arg \in {2, 3} /\ stall[r.arg] -> 1
      [] r.kind = "GetIdle" -> idleRate
      [] r.kind = "GetProtocol" -> hidProtocol
      [] OTHER -> 0

(***************************************************************************)
(* Register accesses of the handler.                                       *)
(***************************************************************************)
Op(name) == [op |-> name]

\* Mutant: the status stage of a read is not prepared.
ReceiveZero_NoOut == << Op("dataIn1") >>

\* USB_initiate_recieve_ctrl_zerobyte: DATA1 next, then a zero byte OUT.
ReceiveZero == << Op("dataIn1"), Op("armOut") >>

Send(packet) == << [op |-> "send", packet |-> packet] >>

\* USB_initiate_send_ctrl_zerobyte.
SendZero == << Op("dataIn1") >> \o Send(Zlp)

SetStall == << Op("stall") >>

ReadReply(r) == ReceiveZero \o Send(Packet(r.kind, ReplyValue(r)))

\* Mutant: the flag is cleared before the request is handled.
Handler_FlagFirst(body) == << Op("clearSetup"), Op("unstall") >> \o body

\* Mutant: the stalls of the last request are not taken back.
Handler_KeepsStall(body) == body \o << Op("clearSetup") >>

Handler(body) == << Op("unstall") >> \o body \o << Op("clearSetup") >>

-----------------------------------------------------------------------------
(***************************************************************************)
(* The SETUP branch of the handler: one action per group of requests.      *)
(***************************************************************************)
EnterSetup(r) == prog = <<>> /\ setupFlag /\ r = sup

Answer(body) == prog' = Handler(body) /\ UNCHANGED <<controller, host>>

\* Requests answered with data in every state.
ReadRequest(r) ==
    /\ EnterSetup(r)
    /\ \/ r.kind \in {"GetStatusDevice", "GetReportDescriptor", "GetIdle", "GetProtocol"}
       \/ r.kind = "GetDescriptor" /\ r.arg \in 1 .. 3
       \/ r.kind = "GetConfiguration" /\ deviceState # "Default"
       \/ r.kind = "GetStatusInterface" /\ (deviceState = "Address" => r.arg = 0)
       \/ r.kind = "ClassGetDescriptor" /\ r.arg = 1
    /\ Answer(ReadReply(r))
    /\ UNCHANGED software

\* GET_REPORT arms the reply before it sets the data toggle.
GetReport(r) ==
    /\ EnterSetup(r)
    /\ r.kind = "GetReport"
    /\ Answer(IF r.arg = 1 THEN Send(Packet(r.kind, 0)) \o ReceiveZero ELSE SetStall)
    /\ UNCHANGED software

\* GET_DESCRIPTOR of another type prepares the status stage, then stalls.
UnknownDescriptor(r) ==
    /\ EnterSetup(r)
    /\ r.kind = "GetDescriptor" /\ r.arg \notin 1 .. 3
    /\ Answer(ReceiveZero \o SetStall)
    /\ UNCHANGED software

\* GET_STATUS of an endpoint the state does not allow, or of none: the
\* control pipe is stalled and the reply is armed all the same.
GetStatusEndpoint(r) ==
    /\ EnterSetup(r)
    /\ r.kind = "GetStatusEndpoint"
    /\ Answer((IF \/ deviceState = "Default"
                  \/ deviceState = "Address" /\ r.arg \notin {CtrlIn, CtrlOut}
                  \/ r.arg \notin Endpoints
                 THEN SetStall ELSE <<>>) \o ReadReply(r))
    /\ UNCHANGED software

SetAddress(r) ==
    /\ EnterSetup(r)
    /\ r.kind = "SetAddress"
    /\ UNCHANGED <<bytes, hidProtocol, idleRate, timer1>>
    /\ \/ /\ deviceState = "Configured"
          /\ Answer(SetStall)
          /\ UNCHANGED <<deviceState, changeAddressTo>>
       \/ /\ deviceState # "Configured" /\ r.arg # 0
          /\ deviceState' = "Address"
          /\ changeAddressTo' = r.arg
          /\ Answer(SendZero)
       \/ /\ deviceState = "Address" /\ r.arg = 0
          /\ deviceState' = "Default"
          /\ changeAddressTo' = 0
          /\ Answer(SendZero)
       \/ /\ deviceState = "Default" /\ r.arg = 0
          /\ Answer(<<>>)
          /\ UNCHANGED <<deviceState, changeAddressTo>>

\* Mutant: the keyboard's data toggle is not reset on configuration.
ConfigureEndpoints_KeepToggle == << Op("stopKbd") >>

\* Mutant: a report armed before configuration is not cancelled.
ConfigureEndpoints_KeepArmed == << Op("allData0") >>

\* USB_configured_setup_ep.
ConfigureEndpoints == << Op("allData0"), Op("stopKbd") >>

SetConfiguration(r) ==
    /\ EnterSetup(r)
    /\ r.kind = "SetConfiguration"
    /\ UNCHANGED <<changeAddressTo, bytes, hidProtocol, idleRate>>
    /\ \/ /\ deviceState = "Default" \/ r.arg > 1
          /\ Answer(SetStall)
          /\ UNCHANGED <<deviceState, timer1>>
       \/ /\ deviceState # "Default" /\ r.arg = 1
          /\ deviceState' = "Configured"
          /\ timer1' = TRUE
          /\ Answer(ConfigureEndpoints \o SendZero)
       \/ /\ deviceState # "Default" /\ r.arg = 0
          /\ deviceState' = "Address"
          /\ Answer(SendZero)
          /\ UNCHANGED timer1

\* SET_FEATURE and CLEAR_FEATURE(ENDPOINT_HALT); an unknown endpoint is
\* stalled and acknowledged at the same time.
EndpointHalt(r) ==
    /\ EnterSetup(r)
    /\ r.kind \in {"SetHalt", "ClearHalt"}
    /\ Answer(IF deviceState # "Configured" THEN SetStall
              ELSE (IF r.arg \in {2, 3} THEN << [op |-> r.kind, ep |-> r.arg] >>
                                        ELSE SetStall) \o SendZero)
    /\ UNCHANGED software

\* USB_HID_PROTOCOL has one element and is indexed with the protocol: element
\* 1 is the variable the linker put behind it, USB_HID_IDLE_RATE.
SetProtocol(r) ==
    /\ EnterSetup(r)
    /\ r.kind = "SetProtocol"
    /\ IF r.arg = 0 THEN hidProtocol' = 0 /\ UNCHANGED idleRate
                    ELSE idleRate' = 0 /\ UNCHANGED hidProtocol
    /\ Answer(SendZero)
    /\ UNCHANGED <<deviceState, changeAddressTo, bytes, timer1>>

SetIdle(r) ==
    /\ EnterSetup(r)
    /\ r.kind = "SetIdle"
    /\ idleRate' = r.arg
    /\ Answer(SendZero)
    /\ UNCHANGED <<deviceState, changeAddressTo, bytes, hidProtocol, timer1>>

\* SET_FEATURE(DEVICE_REMOTE_WAKEUP) is acknowledged; to clear it the device
\* would have to be configured and not configured, so it is stalled.
RemoteWakeup(r) ==
    /\ EnterSetup(r)
    /\ r.kind \in {"SetWakeup", "ClearWakeup"}
    /\ Answer(IF \/ r.kind = "SetWakeup"
                 \/ deviceState = "Configured" /\ deviceState = "Address"
              THEN SendZero ELSE SetStall)
    /\ UNCHANGED software

\* Everything the handler refuses: unknown and unsupported requests, and
\* those the device state does not allow.
RefusedRequest(r) ==
    /\ EnterSetup(r)
    /\ \/ r.kind \in {"OtherRead", "OtherWrite", "SetReport", "Vendor"}
       \/ r.kind = "GetConfiguration" /\ deviceState = "Default"
       \/ r.kind = "GetStatusInterface" /\ deviceState = "Address" /\ r.arg # 0
    /\ Answer(SetStall)
    /\ UNCHANGED software

\* A class GET_DESCRIPTOR that is not an input report and a request of the
\* reserved type fall through: neither reply nor stall.
UnansweredRequest(r) ==
    /\ EnterSetup(r)
    /\ \/ r.kind = "ClassGetDescriptor" /\ r.arg # 1
       \/ r.kind = "Reserved"
    /\ Answer(<<>>)
    /\ UNCHANGED software

HandleSetup ==
    \E r \in Requests :
        \/ ReadRequest(r) \/ GetReport(r) \/ UnknownDescriptor(r)
        \/ GetStatusEndpoint(r) \/ SetAddress(r) \/ SetConfiguration(r)
        \/ EndpointHalt(r) \/ SetProtocol(r) \/ SetIdle(r) \/ RemoteWakeup(r)
        \/ RefusedRequest(r) \/ UnansweredRequest(r)

-----------------------------------------------------------------------------
(***************************************************************************)
(* The register accesses of a program, one per step.                       *)
(***************************************************************************)
Access(name) == prog # <<>> /\ Head(prog).op = name /\ prog' = Tail(prog)

Unstall ==
    /\ Access("unstall")
    /\ stall' = [stall EXCEPT ![CtrlIn] = FALSE, ![CtrlOut] = FALSE]
    /\ UNCHANGED <<software, host, FADDR, armed, buf, toggle, evt, sup, power>>

StallControl ==
    /\ Access("stall")
    /\ stall' = [stall EXCEPT ![CtrlIn] = TRUE, ![CtrlOut] = TRUE]
    /\ UNCHANGED <<software, host, FADDR, armed, buf, toggle, evt, sup, power>>

Data1 ==
    /\ Access("dataIn1")
    /\ toggle' = [toggle EXCEPT ![CtrlIn] = 1]
    /\ UNCHANGED <<software, host, FADDR, armed, buf, stall, evt, sup, power>>

ArmOut ==
    /\ Access("armOut")
    /\ armed' = [armed EXCEPT ![CtrlOut] = TRUE]
    /\ bytes' = [bytes EXCEPT ![CtrlOut] = 0]
    /\ UNCHANGED <<deviceState, changeAddressTo, hidProtocol, idleRate, timer1>>
    /\ UNCHANGED <<host, FADDR, buf, toggle, stall, evt, sup, power>>

(***************************************************************************)
(* USB_initiate_send: copy and arm the packet unless the endpoint is busy. *)
(* After the copy MultiStage_Bytes is no_bytes_left again.                 *)
(***************************************************************************)
InitiateSend(ep, packet) ==
    IF bytes[ep] = no_bytes_left
      THEN /\ armed' = [armed EXCEPT ![ep] = TRUE]
           /\ buf' = [buf EXCEPT ![ep] = packet]
      ELSE UNCHANGED <<armed, buf>>

\* The packet is gone, or withdrawn.
Disarm(ep) ==
    /\ armed' = [armed EXCEPT ![ep] = FALSE]
    /\ buf' = [buf EXCEPT ![ep] = Zlp]

SendControl ==
    /\ Access("send")
    /\ InitiateSend(CtrlIn, Head(prog).packet)
    /\ UNCHANGED <<software, host, FADDR, toggle, stall, evt, sup, power>>

ResetToggles ==
    /\ Access("allData0")
    /\ toggle' = [ep \in Endpoints |-> 0]
    /\ UNCHANGED <<software, host, FADDR, armed, buf, stall, evt, sup, power>>

StopKeyboard ==
    /\ Access("stopKbd")
    /\ Disarm(KbdIn)
    /\ UNCHANGED <<software, host, FADDR, toggle, stall, evt, sup, power>>

SetHalt ==
    /\ Access("SetHalt")
    /\ stall' = [stall EXCEPT ![Head(prog).ep] = TRUE]
    /\ UNCHANGED <<software, host, FADDR, armed, buf, toggle, evt, sup, power>>

\* Mutant: clearing a halt forgets the data toggle.
ClearHalt_KeepToggle ==
    /\ Access("ClearHalt")
    /\ stall' = [stall EXCEPT ![Head(prog).ep] = FALSE]
    /\ UNCHANGED <<software, host, FADDR, armed, buf, toggle, evt, sup, power>>

ClearHalt ==
    /\ Access("ClearHalt")
    /\ stall' = [stall EXCEPT ![Head(prog).ep] = FALSE]
    /\ toggle' = [toggle EXCEPT ![Head(prog).ep] = 0]
    /\ UNCHANGED <<software, host, FADDR, armed, buf, evt, sup, power>>

ClearSetup ==
    /\ Access("clearSetup")
    /\ sup' = NoRequest
    /\ UNCHANGED <<software, host, FADDR, armed, buf, toggle, stall, evt, power>>

-----------------------------------------------------------------------------
(***************************************************************************)
(* The endpoint branch: a loop over the endpoints that rereads INTSTS.     *)
(***************************************************************************)
EnterEvents ==
    /\ prog = <<>>
    /\ ~setupFlag
    /\ \E ep \in Endpoints : evt[ep]
    /\ prog' = [i \in 1 .. 4 |-> [op |-> "event", ep |-> i - 1]]
    /\ UNCHANGED <<software, controller, host>>

\* Mutant: the new address is dropped instead of applied.
TakeAddress_Never ==
    /\ changeAddressTo' = dontChangeAddress
    /\ UNCHANGED FADDR

\* Mutant: the new address is not compared with dontChangeAddress.
TakeAddress_Unchecked ==
    /\ changeAddressTo' = dontChangeAddress
    /\ FADDR' = changeAddressTo

\* Mutant: the pending address is never cleared.
TakeAddress_Again ==
    /\ UNCHANGED changeAddressTo
    /\ FADDR' = IF changeAddressTo # dontChangeAddress THEN changeAddressTo ELSE FADDR

\* A completed IN transfer: take the pending address.
TakeAddress ==
    /\ changeAddressTo' = dontChangeAddress
    /\ FADDR' = IF changeAddressTo # dontChangeAddress THEN changeAddressTo ELSE FADDR

Event ==
    /\ Access("event")
    /\ LET ep == Head(prog).ep IN
        /\ evt' = [evt EXCEPT ![ep] = FALSE]
        /\ \/ ~evt[ep] /\ UNCHANGED <<FADDR, changeAddressTo, bytes>>
           \/ evt[ep] /\ ep # CtrlOut /\ TakeAddress /\ UNCHANGED bytes
           \/ /\ evt[ep] /\ ep = CtrlOut
              /\ bytes' = [bytes EXCEPT ![ep] = no_bytes_left]
              /\ UNCHANGED <<FADDR, changeAddressTo>>
    /\ UNCHANGED <<deviceState, hidProtocol, idleRate, timer1>>
    /\ UNCHANGED <<host, armed, buf, toggle, stall, sup, power>>

(***************************************************************************)
(* The BUS and FLDET branches, reached when no USB event is pending.  ATTR *)
(* tells what happened to the bus last, the flag only that something did.  *)
(***************************************************************************)
EnterBus ==
    /\ prog = <<>> /\ ~setupFlag /\ \A ep \in Endpoints : ~evt[ep]
    /\ busFlag

\* Mutant: a resume switches only the controller on.
HandleResume_KeepsPhy ==
    /\ EnterBus /\ bus = "resume"
    /\ ctl' = TRUE
    /\ busFlag' = FALSE
    /\ UNCHANGED <<software, prog, host, FADDR, armed, buf, toggle, stall, evt, sup>>
    /\ UNCHANGED <<bus, fldetFlag, plugged, phy>>

HandleResume ==
    /\ EnterBus /\ bus = "resume"
    /\ ctl' = TRUE /\ phy' = TRUE
    /\ busFlag' = FALSE
    /\ UNCHANGED <<software, prog, host, FADDR, armed, buf, toggle, stall, evt, sup>>
    /\ UNCHANGED <<bus, fldetFlag, plugged>>

HandleSuspend ==
    /\ EnterBus /\ bus = "suspend"
    /\ phy' = FALSE
    /\ busFlag' = FALSE
    /\ UNCHANGED <<software, prog, host, FADDR, armed, buf, toggle, stall, evt, sup>>
    /\ UNCHANGED <<bus, fldetFlag, plugged, ctl>>

\* A reset clears every flag, that of the cable too.
HandleReset ==
    /\ EnterBus /\ bus = "reset"
    /\ ctl' = TRUE /\ phy' = TRUE
    /\ bytes' = [ep \in Endpoints |-> no_bytes_left]
    /\ armed' = [ep \in Endpoints |-> FALSE]
    /\ buf' = [ep \in Endpoints |-> Zlp]
    /\ toggle' = [ep \in Endpoints |-> 0]
    /\ evt' = [ep \in Endpoints |-> FALSE]
    /\ deviceState' = "Default"
    /\ FADDR' = 0
    /\ busFlag' = FALSE /\ fldetFlag' = FALSE
    /\ UNCHANGED <<prog, changeAddressTo, hidProtocol, idleRate, timer1>>
    /\ UNCHANGED <<host, stall, sup, bus, plugged>>

\* Attach and detach.
HandleCable ==
    /\ prog = <<>> /\ ~setupFlag /\ \A ep \in Endpoints : ~evt[ep]
    /\ ~busFlag /\ fldetFlag
    /\ ctl' = plugged
    /\ fldetFlag' = FALSE
    /\ UNCHANGED <<software, prog, host, FADDR, armed, buf, toggle, stall, evt, sup>>
    /\ UNCHANGED <<busFlag, bus, plugged, phy>>

(***************************************************************************)
(* Timer 1 sends a report on the keyboard endpoint; val says whether the   *)
(* device was configured then.                                             *)
(***************************************************************************)
KeyboardReport ==
    /\ prog = <<>> /\ timer1
    /\ InitiateSend(KbdIn, Packet("kbd", IF deviceState = "Configured" THEN 1 ELSE 0))
    /\ UNCHANGED <<software, prog, host, FADDR, toggle, stall, evt, sup, power>>

Handle ==
    \/ HandleSetup \/ EnterEvents
    \/ HandleResume \/ HandleSuspend \/ HandleReset \/ HandleCable
    \/ Unstall \/ StallControl \/ Data1 \/ ArmOut \/ SendControl \/ ResetToggles
    \/ StopKeyboard \/ SetHalt \/ ClearHalt \/ ClearSetup \/ Event

-----------------------------------------------------------------------------
(***************************************************************************)
(* The host.  Its tokens reach the device only when the addresses agree.   *)
(***************************************************************************)
Quiet ==
    /\ prog = <<>> /\ ~setupFlag /\ ~busFlag /\ ~fldetFlag
    /\ \A ep \in Endpoints : ~evt[ep]

Reaches == ~resetFlag /\ bus # "suspend" /\ phy /\ ctl /\ FADDR = hAddr

ControlOpen == Reaches /\ (SetupBlocks => ~setupFlag)

DeviceUnchanged == UNCHANGED <<software, prog>>

\* The host starts a transfer.  Before SET_ADDRESS it lets the device come
\* to rest.
HostSetup(r) ==
    /\ hstage = "idle" /\ Reaches /\ ~setupFlag
    /\ r.kind = "SetAddress" => Quiet
    /\ hstage' = IF IsRead(r) THEN "dataIn" ELSE "statusIn"
    /\ hreq' = r
    /\ sup' = r
    /\ DeviceUnchanged
    /\ UNCHANGED <<hgot, hAddr, hCfg, hToggle, hProtocol>>
    /\ UNCHANGED <<FADDR, armed, buf, toggle, stall, evt, power>>

\* The acknowledgement of the SETUP was lost: the host repeats it, once the
\* handler has run or while it does.
HostSetupAgain ==
    /\ hstage \in {"dataIn", "statusIn"} /\ Reaches
    /\ ~setupFlag
    /\ ~evt[CtrlIn]
    /\ sup' = hreq
    /\ DeviceUnchanged
    /\ UNCHANGED <<host, FADDR, armed, buf, toggle, stall, evt, power>>

\* What the host takes from a request it has seen acknowledged.
Acknowledged(r) ==
    /\ hAddr' = IF r.kind = "SetAddress" THEN r.arg ELSE hAddr
    /\ hCfg' = CASE r.kind = "SetConfiguration" -> r.arg
                 [] r.kind = "SetAddress" -> 0
                 [] OTHER -> hCfg
    /\ hToggle' = IF \/ r.kind = "SetConfiguration"
                     \/ r = Request("ClearHalt", KbdIn)
                  THEN 0 ELSE hToggle
    /\ hProtocol' = IF r.kind = "SetProtocol" THEN r.arg ELSE hProtocol

EndTransfer == hstage' = "idle" /\ hreq' = NoRequest /\ hgot' = Zlp

\* The controller answers an IN token on the control pipe with STALL.
HostInStalled ==
    /\ hstage \in {"dataIn", "statusIn"} /\ ControlOpen /\ stall[CtrlIn]
    /\ EndTransfer
    /\ DeviceUnchanged
    /\ UNCHANGED <<controller, hAddr, hCfg, hToggle, hProtocol>>

\* ... or with the armed packet, which the host drops unless it is DATA1.
HostIn ==
    /\ hstage \in {"dataIn", "statusIn"} /\ ControlOpen
    /\ ~stall[CtrlIn] /\ armed[CtrlIn]
    /\ Disarm(CtrlIn)
    /\ evt' = [evt EXCEPT ![CtrlIn] = TRUE]
    /\ toggle' = [toggle EXCEPT ![CtrlIn] = 1 - @]
    /\ IF toggle[CtrlIn] = 0
         THEN UNCHANGED host
         ELSE IF hstage = "dataIn"
                THEN /\ hstage' = "statusOut"
                     /\ hgot' = buf[CtrlIn]
                     /\ UNCHANGED <<hreq, hAddr, hCfg, hToggle, hProtocol>>
                ELSE EndTransfer /\ Acknowledged(hreq)
    /\ DeviceUnchanged
    /\ UNCHANGED <<FADDR, stall, sup, power>>

\* The status stage of a read: a zero byte OUT.  It never meets a stall (see
\* PipeReady): both stall bits change together, and not after the data stage.
HostOut ==
    /\ hstage = "statusOut" /\ ControlOpen
    /\ ~stall[CtrlOut] /\ armed[CtrlOut]
    /\ armed' = [armed EXCEPT ![CtrlOut] = FALSE]
    /\ evt' = [evt EXCEPT ![CtrlOut] = TRUE]
    /\ EndTransfer
    /\ DeviceUnchanged
    /\ UNCHANGED <<hAddr, hCfg, hToggle, hProtocol>>
    /\ UNCHANGED <<FADDR, buf, toggle, stall, sup, power>>

\* The keyboard driver polls once the device is configured, and not while
\* it reconfigures it or clears the halt.
Reconfiguring ==
    hstage # "idle" /\ hreq.kind \in {"SetConfiguration", "SetAddress", "ClearHalt"}

HostPollsKeyboard ==
    /\ hCfg = 1 /\ ~Reconfiguring /\ Reaches
    /\ ~stall[KbdIn] /\ armed[KbdIn]
    /\ Disarm(KbdIn)
    /\ evt' = [evt EXCEPT ![KbdIn] = TRUE]
    /\ toggle' = [toggle EXCEPT ![KbdIn] = 1 - @]
    /\ hToggle' = IF toggle[KbdIn] = hToggle THEN 1 - hToggle ELSE hToggle
    /\ DeviceUnchanged
    /\ UNCHANGED <<hstage, hreq, hgot, hAddr, hCfg, hProtocol>>
    /\ UNCHANGED <<FADDR, stall, sup, power>>

MayAbandon == hstage # "idle" /\ (hreq.kind = "SetAddress" => AbandonsAddress)

\* A read that never ends is given up, once the device is at rest.
HostGivesUp ==
    /\ MayAbandon /\ Quiet
    /\ IsRead(hreq) \/ hreq.kind \in {"SetAddress", "Reserved"}
    /\ EndTransfer
    /\ DeviceUnchanged
    /\ UNCHANGED <<controller, hAddr, hCfg, hToggle, hProtocol>>

\* The host forgets the device, for a reset or because it is gone.
ForgetDevice ==
    /\ EndTransfer
    /\ hCfg' = 0 /\ hToggle' = 0 /\ hProtocol' = -1

\* What happens on the bus reaches the controller, suspended or not.
HostReset ==
    /\ plugged /\ ~resetFlag
    /\ hstage = "idle" \/ MayAbandon
    /\ busFlag' = TRUE /\ bus' = "reset"
    /\ ForgetDevice /\ hAddr' = 0
    /\ DeviceUnchanged
    /\ UNCHANGED <<FADDR, armed, buf, toggle, stall, evt, sup, fldetFlag, plugged, phy, ctl>>

\* The bus is idle: the host is sleeping, or the cable is unplugged.
BusIdle ==
    /\ BusSleeps
    /\ hstage = "idle" /\ ~resetFlag /\ bus # "suspend"
    /\ busFlag' = TRUE /\ bus' = "suspend"
    /\ DeviceUnchanged
    /\ UNCHANGED <<host, FADDR, armed, buf, toggle, stall, evt, sup, fldetFlag, plugged, phy, ctl>>

HostResume ==
    /\ plugged /\ hAddr # NoHost /\ bus = "suspend"
    /\ busFlag' = TRUE /\ bus' = "resume"
    /\ DeviceUnchanged
    /\ UNCHANGED <<host, FADDR, armed, buf, toggle, stall, evt, sup, fldetFlag, plugged, phy, ctl>>

\* The user pulls the cable, and plugs it in again.
PullCable ==
    /\ BusSleeps
    /\ plugged /\ (hstage = "idle" \/ MayAbandon)
    /\ plugged' = FALSE /\ fldetFlag' = TRUE
    /\ ForgetDevice /\ hAddr' = NoHost
    /\ DeviceUnchanged
    /\ UNCHANGED <<FADDR, armed, buf, toggle, stall, evt, sup, busFlag, bus, phy, ctl>>

PlugCable ==
    /\ ~plugged
    /\ plugged' = TRUE /\ fldetFlag' = TRUE
    /\ DeviceUnchanged
    /\ UNCHANGED <<host, FADDR, armed, buf, toggle, stall, evt, sup, busFlag, bus, phy, ctl>>

Host ==
    \/ \E r \in Requests : HostSetup(r)
    \/ HostSetupAgain \/ HostInStalled \/ HostIn \/ HostOut
    \/ HostPollsKeyboard \/ HostGivesUp \/ HostReset
    \/ BusIdle \/ HostResume \/ PullCable \/ PlugCable

-----------------------------------------------------------------------------
(***************************************************************************)
(* USB_init leaves MultiStage_Bytes at 0: it sets a copy.  ATTR = 0x7d0    *)
(* enables the transceiver, the controller is enabled after it.  The       *)
(* host's first act is a bus reset.                                        *)
(***************************************************************************)
Init ==
    /\ deviceState = "Default"
    /\ changeAddressTo = dontChangeAddress
    /\ bytes = [ep \in Endpoints |-> 0]
    /\ hidProtocol = 1 /\ idleRate = 125 /\ timer1 = FALSE
    /\ prog = <<>>
    /\ FADDR = 0
    /\ armed = [ep \in Endpoints |-> FALSE]
    /\ buf = [ep \in Endpoints |-> Zlp]
    /\ toggle = [ep \in Endpoints |-> 0]
    /\ stall = [ep \in Endpoints |-> FALSE]
    /\ evt = [ep \in Endpoints |-> FALSE]
    /\ sup = NoRequest
    /\ busFlag = FALSE /\ bus = "none"
    /\ fldetFlag = FALSE /\ plugged = TRUE
    /\ phy = TRUE /\ ctl = TRUE
    /\ hstage = "idle" /\ hreq = NoRequest /\ hgot = Zlp
    /\ hAddr = NoHost /\ hCfg = 0 /\ hToggle = 0 /\ hProtocol = -1

Next == Handle \/ KeyboardReport \/ Host

Spec == Init /\ [][Next]_vars

\* The handler runs when an event is pending: it has the highest priority.
\* The host keeps sending tokens, and not every acknowledgement of a SETUP is
\* lost, so a transfer that is answered again and again goes on.
FairSpec ==
    Spec /\ WF_vars(Handle)
         /\ SF_vars(HostIn \/ HostInStalled \/ HostOut)

-----------------------------------------------------------------------------
Packets == [kind : ReadKinds \union {"zlp", "kbd"}, val : 0 .. 255]

TypeOK ==
    /\ deviceState \in {"Default", "Address", "Configured"}
    /\ changeAddressTo \in Addresses \union {0, dontChangeAddress}
    /\ bytes \in [Endpoints -> {no_bytes_left, 0}]
    /\ hidProtocol \in {0, 1} /\ idleRate \in 0 .. 255 /\ timer1 \in BOOLEAN
    /\ Len(prog) \in 0 .. 6
    /\ FADDR \in Addresses \union {0}
    /\ armed \in [Endpoints -> BOOLEAN]
    /\ buf \in [Endpoints -> Packets]
    /\ toggle \in [Endpoints -> {0, 1}]
    /\ stall \in [Endpoints -> BOOLEAN]
    /\ evt \in [Endpoints -> BOOLEAN]
    /\ busFlag \in BOOLEAN /\ bus \in {"none", "reset", "suspend", "resume"}
    /\ fldetFlag \in BOOLEAN /\ plugged \in BOOLEAN
    /\ phy \in BOOLEAN /\ ctl \in BOOLEAN
    /\ sup \in Requests \union {NoRequest} /\ hreq \in Requests \union {NoRequest}
    /\ hstage \in {"idle", "dataIn", "statusIn", "statusOut"}
    /\ hAddr \in Addresses \union {0, NoHost} /\ hCfg \in 0 .. 255
    /\ hToggle \in {0, 1} /\ hProtocol \in -1 .. 255
    /\ hgot \in Packets

\* The address the controller answers to is the one the host has set, except
\* for the moment between the status stage of SET_ADDRESS and its event, and
\* until a reset is handled.
AddressAgreement ==
    \/ FADDR = hAddr
    \/ resetFlag \/ hAddr = NoHost
    \/ evt[CtrlIn] /\ changeAddressTo = hAddr

\* Whenever both sides are at rest the handler's device state is the one the
\* host's accepted requests imply.
StateAgreement ==
    (Quiet /\ hstage = "idle" /\ hAddr # NoHost) =>
        /\ deviceState = "Configured" <=> hCfg = 1
        /\ deviceState = "Default" <=> hAddr = 0
        /\ changeAddressTo = dontChangeAddress

\* However suspend, resume, reset, detach and attach follow each other, also
\* when the handler sees one of them for two: when it has come to rest the
\* device listens to a host that uses the bus, and its transceiver is off
\* while the bus sleeps.
ListensToHost ==
    Quiet => IF bus = "suspend" THEN ~phy
                                ELSE hAddr # NoHost => phy /\ ctl

\* Requests the handler neither answers nor stalls.
Unanswered(r) ==
    \/ r.kind = "Reserved"
    \/ r.kind = "ClassGetDescriptor" /\ r.arg # 1
    \/ r = Request("SetAddress", 0) /\ hAddr = 0

\* When the device has come to rest and the host still waits, the response it
\* waits for is armed with the right toggle and is that of its own request,
\* or the pipe is stalled: nothing an earlier or aborted transfer left behind
\* is ever what the host picks up, and what it picked up it can acknowledge.
PipeReady ==
    (Quiet /\ ~Unanswered(hreq)) =>
        /\ hstage \in {"dataIn", "statusIn"} =>
             \/ stall[CtrlIn]
             \/ /\ armed[CtrlIn] /\ toggle[CtrlIn] = 1
                /\ buf[CtrlIn].kind = IF hstage = "dataIn" THEN hreq.kind ELSE "zlp"
        /\ hstage = "statusOut" => armed[CtrlOut] /\ ~stall[CtrlOut]

\* Data the host accepts answers the request it made, and a reported
\* configuration is the one it set.
RightAnswer ==
    (hstage = "statusOut" /\ ~Unanswered(hreq)) =>
        /\ hgot.kind = hreq.kind
        /\ hreq.kind = "GetConfiguration" => hgot.val = hCfg

\* The keyboard endpoint's toggle is the one the host expects, through
\* (re)configuration and clearing of a halt, so no report is taken for a
\* repetition and dropped.
KeyboardInSync == (hCfg = 1 /\ ~Reconfiguring /\ ~resetFlag) => toggle[KbdIn] = hToggle

\* A report built while the device was not configured is never delivered.
NoStaleReport ==
    (hCfg = 1 /\ ~Reconfiguring /\ ~resetFlag /\ armed[KbdIn]) => buf[KbdIn].val = 1

Transfer == INSTANCE ControlTransfer WITH
    address <- hAddr, configuration <- hCfg, request <- hreq,
    answered <- hstage = "statusOut", answer <- hgot

\* Whatever was repeated, given up or refused before, the device carries out,
\* answers or refuses each request as its address and configuration demand:
\* the control pipe is that of ControlTransfer.
IsControlTransfer == Transfer!Spec

\* Every control transfer the handler has an answer for ends.
TransferEnds ==
    (hstage # "idle" /\ ~Unanswered(hreq)) ~> (hstage = "idle" \/ Unanswered(hreq))

\* usb.h:322: the address change "must happen after status stage has
\* finished": the host, if it has not reset the bus since, has had the status
\* stage of a SET_ADDRESS with this address.
AddressAfterStatus ==
    [][FADDR' \notin {FADDR, 0} => FADDR' = hAddr \/ resetFlag \/ hAddr = NoHost]_vars

\* usb_ephandler.h:6: the stored protocol is "0 for boot protocol,1 for report
\* protocol"; the one reported is the one the host has set.
ProtocolReadBack ==
    (hstage = "statusOut" /\ hreq.kind = "GetProtocol" /\ hProtocol # -1) =>
        hgot.val = hProtocol
=============================================================================
