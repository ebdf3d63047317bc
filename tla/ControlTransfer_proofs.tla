----------------------- MODULE ControlTransfer_proofs -----------------------
(***************************************************************************)
(* UsbControl implements ControlTransfer, for any set of requests and      *)
(* addresses.  The handler decides on a request from deviceState; the      *)
(* host's view of the decision is ControlTransfer's, from the address and  *)
(* the configuration.  UsbTransfer_proofs says that the two agree; here    *)
(* each branch of the handler is seen to stall exactly what it refuses,    *)
(* but for the request ControlTransfer leaves open, and the stall to be    *)
(* there exactly while that request is at hand.                            *)
(***************************************************************************)
EXTENDS UsbTransfer_proofs

\* The same rules, with the handler's view of the device.
Own == INSTANCE ControlTransfer WITH
    address <- IF deviceState = "Default" THEN 0 ELSE 1,
    configuration <- IF deviceState = "Configured" THEN 1 ELSE 0,
    request <- hreq, answered <- hstage = "statusOut", answer <- hgot

\* A host in a transfer has asked for something, and keeps an answer only
\* until it has acknowledged it.
Asking ==
    /\ hstage # "idle" => hreq # NoRequest
    /\ hstage # "statusOut" => hgot = Zlp

\* Once its handler has run, a request is stalled if it is to be refused, and
\* only if it may be.
Judged ==
    (hstage \in {"dataIn", "statusIn"} /\ ~Unhandled) =>
        /\ Transfer!Refuses(hreq) => WillStall
        /\ WillStall => Transfer!MayRefuse(hreq)

JudgeInv == Asking /\ Judged

-----------------------------------------------------------------------------
(***************************************************************************)
(* Which branches of the SETUP handler stall.                              *)
(***************************************************************************)
Stalls(s) == s \in Seq(Ops) /\ Has(Accesses(s), "stall")

Goes(s) == s \in Seq(Ops) /\ ~Has(Accesses(s), "stall")

LEMMA StallsConcat ==
    ASSUME NEW s \in Seq(Ops), NEW t \in Seq(Ops)
    PROVE  /\ Stalls(s) \/ Stalls(t) => Stalls(s \o t)
           /\ Goes(s) /\ Goes(t) => Goes(s \o t)
<1>1. s \o t \in Seq(Ops) /\ Accesses(s \o t) = Accesses(s) \union Accesses(t)
  BY AccessesConcat
<1> QED
  BY <1>1 DEF Stalls, Goes, Has

\* The parts that programs are made of.
LEMMA PartsStall ==
    /\ Stalls(SetStall)
    /\ Goes(<< >>) /\ Goes(ReceiveZero) /\ Goes(SendZero) /\ Goes(ConfigureEndpoints)
    /\ \A p \in Packets : Goes(Send(p))
    /\ \A kind \in {"SetHalt", "ClearHalt"}, ep \in {2, 3} :
         Goes(<< [op |-> kind, ep |-> ep] >>)
<1>1. \A name : Op(name).op = name
  BY DEF Op
<1>2. \A p : SendOp(p).op = "send"
  BY DEF SendOp
<1>3. Stalls(SetStall)
  BY <1>1, PartAccesses DEF Stalls, Has
<1>4. Goes(<< >>) /\ Goes(ReceiveZero) /\ Goes(ConfigureEndpoints)
  BY <1>1, PartAccesses DEF Goes, Has
<1>5. Goes(SendZero)
  BY <1>1, <1>2, PartAccesses DEF Goes, Has
<1>6. ASSUME NEW p \in Packets PROVE Goes(Send(p))
  BY <1>2, SendAccesses DEF Goes, Has
<1>7. ASSUME NEW kind \in {"SetHalt", "ClearHalt"}, NEW ep \in {2, 3}
      PROVE  Goes(<< [op |-> kind, ep |-> ep] >>)
  <2> DEFINE halt == [op |-> kind, ep |-> ep]
  <2>1. halt \in Ops
    <3>1. halt \in {[op |-> k, ep |-> e] : k \in {"SetHalt", "ClearHalt"}, e \in {2, 3}}
      OBVIOUS
    <3> QED
      BY <3>1 DEF Ops, BodyOps
  <2>2. halt.op # "stall"
    OBVIOUS
  <2> HIDE DEF halt
  <2>3. << halt >> \in Seq(Ops) /\ Accesses(<< halt >>) = {halt}
    BY <2>1, AccessesTuples
  <2> QED
    BY <2>2, <2>3 DEF Goes, Has, halt
<1> QED
  BY <1>3, <1>4, <1>5, <1>6, <1>7

LEMMA RepliesGo ==
    ASSUME TypeInv, NEW r, r.kind \in ReadKinds
    PROVE  /\ Goes(ReadReply(r)) /\ Stalls(SetStall \o ReadReply(r))
           /\ Goes(<< >> \o ReadReply(r))
           /\ Goes(Send(Packet(r.kind, 0)) \o ReceiveZero)
           /\ Stalls(ReceiveZero \o SetStall)
<1>1. TypeOK
  BY DEF TypeInv
<1>2. Packet(r.kind, 0) \in Packets /\ Packet(r.kind, ReplyValue(r)) \in Packets
  <2>1. Packet(r.kind, 0) \in Packets
    BY DEF Packet, Packets
  <2> QED
    BY <1>1, <2>1, ReplyAccesses
<1>3. ReadReply(r) = ReceiveZero \o Send(Packet(r.kind, ReplyValue(r)))
  BY DEF ReadReply
<1>4. Goes(Send(Packet(r.kind, ReplyValue(r)))) /\ Goes(Send(Packet(r.kind, 0)))
  BY <1>2, PartsStall
<1>5. /\ Send(Packet(r.kind, ReplyValue(r))) \in Seq(Ops)
      /\ Send(Packet(r.kind, 0)) \in Seq(Ops)
      /\ ReceiveZero \in Seq(Ops) /\ SetStall \in Seq(Ops) /\ << >> \in Seq(Ops)
  BY <1>4, PartAccesses DEF Goes
<1>6. Goes(ReadReply(r))
  BY <1>3, <1>4, <1>5, PartsStall, StallsConcat, Zenon
<1>7. ReadReply(r) \in Seq(Ops)
  BY <1>6 DEF Goes
<1>8. Stalls(SetStall \o ReadReply(r)) /\ Goes(<< >> \o ReadReply(r))
  BY <1>5, <1>6, <1>7, PartsStall, StallsConcat, Zenon
<1>9. /\ Goes(Send(Packet(r.kind, 0)) \o ReceiveZero)
      /\ Stalls(ReceiveZero \o SetStall)
  BY <1>4, <1>5, PartsStall, StallsConcat, Zenon
<1> QED
  BY <1>6, <1>8, <1>9

LEMMA HandlerStalls ==
    ASSUME NEW body, Answer(body)
    PROVE  /\ Stalls(body) => Stalls(prog')
           /\ Goes(body) => Goes(prog')
<1>1. \A x \in {Op("unstall"), Op("clearSetup")} : x.op # "stall"
  BY DEF Op
<1>2. ASSUME body \in Seq(Ops)
      PROVE  /\ prog' \in Seq(Ops)
             /\ Accesses(prog') = Accesses(body) \union {Op("unstall"), Op("clearSetup")}
  BY <1>2, HandlerAccesses DEF Answer
<1> QED
  BY <1>1, <1>2 DEF Stalls, Goes, Has

\* A branch stalls what it refuses.
LEMMA ReadsJudged ==
    ASSUME TypeInv, NEW r \in Requests, SetupStep(r), r.kind \in ReadKinds
    PROVE  IF Own!Refuses(r) THEN Stalls(prog') ELSE Goes(prog')
<1>0. deviceState \in {"Default", "Address", "Configured"}
  BY TypeParts DEF SoftwareType
<1>1. CASE ReadRequest(r)
  <2>1. Answer(ReadReply(r)) /\ ~Own!Refuses(r)
    BY <1>0, <1>1
       DEF ReadRequest, Own!Refuses, Own!Default, Own!Configured, Own!Addressed
  <2> QED
    BY <2>1, RepliesGo, HandlerStalls
<1>2. CASE GetReport(r)
  <2>1. /\ r.arg = 1 => Answer(Send(Packet(r.kind, 0)) \o ReceiveZero)
        /\ r.arg # 1 => Answer(SetStall)
        /\ Own!Refuses(r) <=> r.arg # 1
    BY <1>2 DEF GetReport, Own!Refuses
  <2>2. CASE r.arg = 1
    BY <2>1, <2>2, RepliesGo, HandlerStalls
  <2>3. CASE r.arg # 1
    BY <2>1, <2>3, PartsStall, HandlerStalls
  <2> QED
    BY <2>2, <2>3
<1>3. CASE UnknownDescriptor(r)
  <2>1. Answer(ReceiveZero \o SetStall) /\ Own!Refuses(r)
    BY <1>3 DEF UnknownDescriptor, Own!Refuses
  <2> QED
    BY <2>1, RepliesGo, HandlerStalls
<1>4. CASE GetStatusEndpoint(r)
  <2> DEFINE refused == \/ deviceState = "Default"
                        \/ deviceState = "Address" /\ r.arg \notin {CtrlIn, CtrlOut}
                        \/ r.arg \notin Endpoints
  <2>1. /\ r.kind = "GetStatusEndpoint"
        /\ refused => Answer(SetStall \o ReadReply(r))
        /\ ~refused => Answer(<< >> \o ReadReply(r))
    BY <1>4 DEF GetStatusEndpoint
  <2>2. Own!Refuses(r) <=> refused
    BY <1>0, <2>1
       DEF Own!Refuses, Own!Default, Own!Configured, Own!Addressed, CtrlIn, CtrlOut, Endpoints
  <2> HIDE DEF refused
  <2> QED
    BY <2>1, <2>2, RepliesGo, HandlerStalls
<1>5. CASE RefusedRequest(r)
  <2>1. Answer(SetStall) /\ Own!Refuses(r)
    BY <1>0, <1>5
       DEF RefusedRequest, Own!Refuses, Own!Default, Own!Configured, Own!Addressed
  <2> QED
    BY <2>1, PartsStall, HandlerStalls
<1>6. CASE UnansweredRequest(r)
  <2>1. Answer(<< >>) /\ ~Own!Refuses(r)
    BY <1>6 DEF UnansweredRequest, Own!Refuses
  <2> QED
    BY <2>1, PartsStall, HandlerStalls
<1>7. r.kind \notin {"SetAddress", "SetConfiguration", "SetHalt", "ClearHalt", "SetProtocol",
                     "SetIdle", "SetWakeup", "ClearWakeup"}
  BY DEF ReadKinds
<1>8. ~(\/ SetAddress(r) \/ SetConfiguration(r) \/ EndpointHalt(r)
        \/ SetProtocol(r) \/ SetIdle(r) \/ RemoteWakeup(r))
  BY <1>7 DEF SetAddress, SetConfiguration, EndpointHalt, SetProtocol, SetIdle, RemoteWakeup
<1> QED
  BY <1>1, <1>2, <1>3, <1>4, <1>5, <1>6, <1>8 DEF SetupStep

\* One stalls what it need not.
LEMMA WritesJudged ==
    ASSUME TypeInv, NEW r \in Requests, SetupStep(r), r.kind \notin ReadKinds
    PROVE  /\ Own!Refuses(r) => Stalls(prog')
           /\ ~Own!MayRefuse(r) => Goes(prog')
           /\ Stalls(prog') \/ Goes(prog')
<1> SUFFICES ASSUME ~Own!Unsettled(r)
             PROVE  IF Own!Refuses(r) THEN Stalls(prog') ELSE Goes(prog')
  <2>1. CASE Own!Unsettled(r)
    <3>1. r.kind = "ClearWakeup" /\ RemoteWakeup(r)
      BY <2>1
         DEF Own!Unsettled, SetupStep, RemoteWakeup, ReadRequest, GetReport, UnknownDescriptor,
             GetStatusEndpoint, SetAddress, SetConfiguration, EndpointHalt, SetProtocol,
             SetIdle, RefusedRequest, UnansweredRequest, ReadKinds
    <3>2. Answer(SetStall)
      BY <3>1 DEF RemoteWakeup
    <3>3. Stalls(prog')
      BY <3>2, PartsStall, HandlerStalls
    <3> QED
      BY <2>1, <3>3 DEF Own!MayRefuse
  <2>2. CASE ~Own!Unsettled(r)
    BY <2>2 DEF Own!MayRefuse
  <2> QED
    BY <2>1, <2>2
<1>0. /\ deviceState \in {"Default", "Address", "Configured"} /\ r.arg \in 0 .. 255
      /\ SetStall \in Seq(Ops) /\ SendZero \in Seq(Ops) /\ ConfigureEndpoints \in Seq(Ops)
  BY TypeParts, RequestAssumption, PartAccesses DEF SoftwareType
<1>1. CASE SetAddress(r)
  <2>1. /\ Own!Refuses(r) => Answer(SetStall)
        /\ ~Own!Refuses(r) => Answer(SendZero) \/ Answer(<< >>)
    BY <1>0, <1>1 DEF SetAddress, Own!Refuses, Own!Default, Own!Configured, Own!Addressed
  <2> QED
    BY <2>1, PartsStall, HandlerStalls
<1>2. CASE SetConfiguration(r)
  <2>1. /\ Own!Refuses(r) => Answer(SetStall)
        /\ ~Own!Refuses(r) => Answer(ConfigureEndpoints \o SendZero) \/ Answer(SendZero)
    BY <1>0, <1>2
       DEF SetConfiguration, Own!Refuses, Own!Default, Own!Configured, Own!Addressed
  <2>2. Goes(ConfigureEndpoints \o SendZero)
    BY <1>0, PartsStall, StallsConcat, Zenon
  <2> QED
    BY <2>1, <2>2, PartsStall, HandlerStalls
<1>3. CASE EndpointHalt(r)
  <2> DEFINE halt == << [op |-> r.kind, ep |-> r.arg] >>
  <2>1. r.kind \in {"SetHalt", "ClearHalt"}
    BY <1>3 DEF EndpointHalt
  <2>2. /\ deviceState # "Configured" => Answer(SetStall)
        /\ deviceState = "Configured" /\ r.arg \in {2, 3} => Answer(halt \o SendZero)
        /\ deviceState = "Configured" /\ r.arg \notin {2, 3} => Answer(SetStall \o SendZero)
    BY <1>3 DEF EndpointHalt
  <2>3. Own!Refuses(r) <=> deviceState # "Configured" \/ r.arg \notin {2, 3}
    BY <1>0, <2>1 DEF Own!Refuses, Own!Default, Own!Configured, Own!Addressed
  <2>4. r.arg \in {2, 3} => Goes(halt)
    BY <2>1, PartsStall
  <2> HIDE DEF halt
  <2>5. r.arg \in {2, 3} => Goes(halt \o SendZero)
    <3> SUFFICES ASSUME r.arg \in {2, 3} PROVE Goes(halt \o SendZero)
      OBVIOUS
    <3>1. halt \in Seq(Ops)
      BY <2>4 DEF Goes
    <3> QED
      BY <1>0, <2>4, <3>1, PartsStall, StallsConcat, Zenon
  <2>6. Stalls(SetStall \o SendZero)
    BY <1>0, PartsStall, StallsConcat, Zenon
  <2> QED
    BY <2>2, <2>3, <2>5, <2>6, PartsStall, HandlerStalls
<1>4. CASE SetProtocol(r) \/ SetIdle(r)
  <2>1. Answer(SendZero) /\ ~Own!Refuses(r)
    BY <1>4 DEF SetProtocol, SetIdle, Own!Refuses
  <2> QED
    BY <2>1, PartsStall, HandlerStalls
<1>5. CASE RemoteWakeup(r)
  <2>1. /\ Own!Refuses(r) => Answer(SetStall)
        /\ ~Own!Refuses(r) => Answer(SendZero)
    BY <1>5 DEF RemoteWakeup, Own!Refuses, Own!Unsettled
  <2> QED
    BY <2>1, PartsStall, HandlerStalls
<1>6. CASE RefusedRequest(r)
  <2>1. Answer(SetStall) /\ Own!Refuses(r)
    BY <1>6 DEF RefusedRequest, Own!Refuses, ReadKinds
  <2> QED
    BY <2>1, PartsStall, HandlerStalls
<1>7. CASE UnansweredRequest(r)
  <2>1. Answer(<< >>) /\ ~Own!Refuses(r)
    BY <1>7 DEF UnansweredRequest, Own!Refuses
  <2> QED
    BY <2>1, PartsStall, HandlerStalls
<1>8. ~(ReadRequest(r) \/ GetReport(r) \/ UnknownDescriptor(r) \/ GetStatusEndpoint(r))
  BY DEF ReadRequest, GetReport, UnknownDescriptor, GetStatusEndpoint, ReadKinds
<1> QED
  BY <1>1, <1>2, <1>3, <1>4, <1>5, <1>6, <1>7, <1>8 DEF SetupStep

-----------------------------------------------------------------------------
(***************************************************************************)
(* The stall is there exactly while the request it refuses is at hand.     *)
(***************************************************************************)
\* The handler's view of a request is the host's.
LEMMA ViewsAgree ==
    ASSUME TypeInv, TransferInv, InContact
    PROVE  /\ Own!Refuses(hreq) <=> Transfer!Refuses(hreq)
           /\ Own!MayRefuse(hreq) <=> Transfer!MayRefuse(hreq)
<1>1. /\ Own!Default <=> deviceState = "Default"
      /\ Own!Configured <=> deviceState = "Configured"
      /\ Transfer!Default <=> hAddr = 0
      /\ Transfer!Configured <=> hCfg = 1
      /\ Own!Addressed <=> ~Own!Default /\ ~Own!Configured
      /\ Transfer!Addressed <=> ~Transfer!Default /\ ~Transfer!Configured
  BY DEF Own!Default, Own!Configured, Own!Addressed,
         Transfer!Default, Transfer!Configured, Transfer!Addressed
<1>2. CASE hreq.kind = "SetAddress"
  <2>1. deviceState = "Configured" <=> hCfg = 1
    BY <1>2 DEF TransferInv, SameState, Accepts
  <2> QED
    BY <1>1, <1>2, <2>1 DEF Own!Refuses, Transfer!Refuses, Own!MayRefuse, Transfer!MayRefuse,
             Own!Unsettled, Transfer!Unsettled
<1>3. CASE hreq.kind = "SetConfiguration"
  <2>1. deviceState = "Default" <=> hAddr = 0
    BY <1>3 DEF TransferInv, SameState, Changing, Assigning
  <2> QED
    BY <1>1, <1>3, <2>1 DEF Own!Refuses, Transfer!Refuses, Own!MayRefuse, Transfer!MayRefuse,
             Own!Unsettled, Transfer!Unsettled
<1>4. CASE hreq.kind \notin {"SetAddress", "SetConfiguration"}
  <2>1. /\ deviceState = "Default" <=> hAddr = 0
        /\ deviceState = "Configured" <=> hCfg = 1
    BY <1>4 DEF TransferInv, SameState, Changing, Assigning, Accepts
  <2> QED
    BY <1>1, <2>1 DEF Own!Refuses, Transfer!Refuses, Own!MayRefuse, Transfer!MayRefuse,
             Own!Unsettled, Transfer!Unsettled
<1> QED
  BY <1>2, <1>3, <1>4

LEMMA JudgeInit == Init => JudgeInv
BY DEF Init, JudgeInv, Asking, Judged

\* A step that touches neither the request nor the stall.
LEMMA JudgeKept ==
    ASSUME JudgeInv, UNCHANGED <<hstage, hreq, hAddr, hCfg, hgot>>,
           WillStall' <=> WillStall, Unhandled => Unhandled'
    PROVE  JudgeInv'
<1>1. /\ Transfer!Refuses(hreq)' <=> Transfer!Refuses(hreq)
      /\ Transfer!MayRefuse(hreq)' <=> Transfer!MayRefuse(hreq)
  BY DEF Transfer!Refuses, Transfer!MayRefuse, Transfer!Unsettled, Transfer!Default,
         Transfer!Configured, Transfer!Addressed
<1> QED
  BY <1>1 DEF JudgeInv, Asking, Judged

LEMMA JudgeFrame ==
    ASSUME JudgeInv, UNCHANGED <<hstage, hreq, hAddr, hCfg, hgot, prog, stall, sup>>
    PROVE  JudgeInv'
<1>1. (WillStall' <=> WillStall) /\ (Unhandled => Unhandled')
  BY DEF WillStall, Pending, Unhandled, setupFlag
<1> QED
  BY <1>1, JudgeKept

LEMMA JudgeSetup ==
    ASSUME TypeInv, AddrInv, TransferInv, JudgeInv, HandleSetup PROVE JudgeInv'
<1>1. PICK r \in Requests : SetupStep(r)
  BY DEF HandleSetup, SetupStep
<1>2. /\ Has(Accesses(prog'), "unstall") /\ prog = << >> /\ setupFlag /\ r = sup
      /\ UNCHANGED <<controller, host>>
  BY <1>1, SetupState DEF Started
<1>3. UNCHANGED <<hstage, hreq, hAddr, hCfg, hgot, sup, stall>>
  BY <1>2 DEF host, controller
<1>4. /\ Own!Refuses(r) => Stalls(prog')
      /\ ~Own!MayRefuse(r) => Goes(prog')
      /\ Stalls(prog') \/ Goes(prog')
  BY <1>1, ReadsJudged, WritesJudged DEF Own!MayRefuse
<1>5. (Own!Refuses(r) => WillStall') /\ (WillStall' => Own!MayRefuse(r))
  <2>1. prog' \in Seq(Ops)
    BY <1>4 DEF Stalls, Goes
  <2>2. \A op : Pending(op)' <=> Has(Accesses(prog'), op)
    BY <2>1, PendingAccesses
  <2> QED
    BY <1>2, <1>4, <2>2 DEF WillStall, Stalls, Goes
<1>6. ASSUME hstage \in {"dataIn", "statusIn"}
      PROVE  /\ Transfer!Refuses(hreq) => WillStall'
             /\ WillStall' => Transfer!MayRefuse(hreq)
  <2>1. InContact /\ r = hreq
    BY <1>2, <1>6 DEF TransferInv, Contact
  <2> QED
    BY <1>5, <2>1, ViewsAgree
<1>7. /\ Transfer!Refuses(hreq)' <=> Transfer!Refuses(hreq)
      /\ Transfer!MayRefuse(hreq)' <=> Transfer!MayRefuse(hreq)
  BY <1>3 DEF Transfer!Refuses, Transfer!MayRefuse, Transfer!Unsettled, Transfer!Default,
              Transfer!Configured, Transfer!Addressed
<1> QED
  BY <1>3, <1>6, <1>7 DEF JudgeInv, Asking, Judged

LEMMA JudgeHandle ==
    ASSUME TypeInv, AddrInv, TransferInv, JudgeInv, Handle PROVE JudgeInv'
<1>1. CASE EnterEvents
  <2>1. /\ prog = << >> /\ ~setupFlag /\ UNCHANGED <<software, controller, host>>
        /\ \A i \in DOMAIN prog' : prog'[i].op = "event"
    BY <1>1, EventsProg DEF EnterEvents
  <2>2. UNCHANGED <<hstage, hreq, hAddr, hCfg, hgot, stall>>
    BY <2>1 DEF host, controller
  <2>3. WillStall' <=> WillStall
    BY <2>1, <2>2 DEF WillStall, Pending
  <2>4. ~Unhandled
    BY <2>1 DEF Unhandled
  <2> QED
    BY <2>2, <2>3, <2>4, JudgeKept
<1>2. CASE BusStep
  <2>1. UNCHANGED <<host, prog, stall, sup>>
    BY <1>2 DEF BusStep, HandleResume, HandleSuspend, HandleReset, HandleCable
  <2> QED
    BY <2>1, JudgeFrame DEF host
<1>3. CASE AccessStep
  <2>1. PICK name :
          /\ Access(name) /\ (sup' = sup \/ (name = "clearSetup" /\ sup' = NoRequest))
          /\ ControlEffect(name) /\ UNCHANGED host
    BY <1>3, AccessEffect
  <2>2. (WillStall' <=> WillStall) /\ (Unhandled => Unhandled')
    BY <2>1, WillKept
  <2>3. UNCHANGED <<hstage, hreq, hAddr, hCfg, hgot>>
    BY <2>1 DEF host
  <2> QED
    BY <2>2, <2>3, JudgeKept
<1> QED
  BY <1>1, <1>2, <1>3, JudgeSetup DEF Handle, BusStep, AccessStep

\* The host asks for something new, or for the same again.
LEMMA JudgeAsked ==
    ASSUME TypeInv, AddrInv, TransferInv, JudgeInv,
           (\E r \in Requests : HostSetup(r)) \/ HostSetupAgain
    PROVE  JudgeInv'
<1>1. /\ ~setupFlag /\ UNCHANGED <<prog, hgot>> /\ sup' = hreq' /\ sup' # NoRequest
      /\ hstage # "statusOut" /\ hstage' # "statusOut"
  <2>1. ASSUME NEW r \in Requests, HostSetup(r)
        PROVE  /\ ~setupFlag /\ UNCHANGED <<prog, hgot>> /\ sup' = r /\ hreq' = r
               /\ hstage # "statusOut" /\ hstage' # "statusOut"
    BY <2>1 DEF HostSetup, DeviceUnchanged
  <2>2. \A r \in Requests : r # NoRequest
    BY RequestAssumption, ZlpPacket
  <2>3. ASSUME HostSetupAgain
        PROVE  /\ ~setupFlag /\ UNCHANGED <<prog, hgot, hreq>>
               /\ sup' = hreq /\ hreq # NoRequest
               /\ hstage # "statusOut" /\ hstage' # "statusOut"
    <3>1. /\ ~setupFlag /\ UNCHANGED <<prog, host>> /\ sup' = hreq
          /\ hstage \in {"dataIn", "statusIn"}
      BY <2>3 DEF HostSetupAgain, DeviceUnchanged
    <3> QED
      BY <3>1 DEF host, JudgeInv, Asking
  <2> QED
    BY <2>1, <2>2, <2>3
<1>2. \A i \in DOMAIN prog' : prog'[i].op = "event"
  BY <1>1 DEF AddrInv, ProgShape
<1>3. Unhandled'
  BY <1>1, <1>2 DEF Unhandled, setupFlag
<1> QED
  BY <1>1, <1>3 DEF JudgeInv, Asking, Judged

LEMMA JudgeHost ==
    ASSUME TypeInv, AddrInv, TransferInv, JudgeInv, Host PROVE JudgeInv'
<1>1. CASE HostInStalled \/ HostOut \/ HostGivesUp \/ HostReset \/ PullCable
  <2>1. hstage' = "idle" /\ hgot' = Zlp
    BY <1>1 DEF HostInStalled, HostOut, HostGivesUp, HostReset, PullCable, ForgetDevice,
                EndTransfer
  <2> QED
    BY <2>1 DEF JudgeInv, Asking, Judged
<1>2. CASE HostPollsKeyboard \/ BusIdle \/ HostResume \/ PlugCable
  <2>1. UNCHANGED <<hstage, hreq, hAddr, hCfg, hgot, prog, stall, sup>>
    BY <1>2 DEF HostPollsKeyboard, BusIdle, HostResume, PlugCable, DeviceUnchanged, host
  <2> QED
    BY <2>1, JudgeFrame
<1>3. CASE HostIn
  <2>1. CASE toggle[CtrlIn] = 0
    <3>1. UNCHANGED <<hstage, hreq, hAddr, hCfg, hgot, prog, stall, sup>>
      BY <1>3, <2>1 DEF HostIn, DeviceUnchanged, host
    <3> QED
      BY <3>1, JudgeFrame
  <2>2. CASE toggle[CtrlIn] # 0
    <3>1. /\ hstage # "idle"
          /\ \/ hstage' = "statusOut" /\ hreq' = hreq
             \/ hstage' = "idle" /\ hgot' = Zlp
      BY <1>3, <2>2 DEF HostIn, EndTransfer
    <3> QED
      BY <3>1 DEF JudgeInv, Asking, Judged
  <2> QED
    BY <2>1, <2>2
<1> QED
  BY <1>1, <1>2, <1>3, JudgeAsked DEF Host

LEMMA JudgeStep ==
    ASSUME TypeInv, AddrInv, TransferInv, JudgeInv, [Next]_vars PROVE JudgeInv'
<1>1. CASE UNCHANGED vars
  <2>1. UNCHANGED <<hstage, hreq, hAddr, hCfg, hgot, prog, stall, sup>>
    BY <1>1 DEF vars, host, controller
  <2> QED
    BY <2>1, JudgeFrame
<1>2. CASE KeyboardReport
  <2>1. UNCHANGED <<hstage, hreq, hAddr, hCfg, hgot, prog, stall, sup>>
    BY <1>2 DEF KeyboardReport, host
  <2> QED
    BY <2>1, JudgeFrame
<1> QED
  BY <1>1, <1>2, JudgeHandle, JudgeHost DEF Next

-----------------------------------------------------------------------------
(***************************************************************************)
(* Each step of the host is one of ControlTransfer; the device's are none. *)
(***************************************************************************)
LEMMA SameNames == NoRequest = Transfer!NoRequest /\ Zlp = Transfer!NoAnswer /\ NoHost = -1
BY DEF NoRequest, Request, Transfer!NoRequest, Zlp, Packet, Transfer!NoAnswer, NoHost

LEMMA InitTransfer == Init => Transfer!Init
BY SameNames DEF Init, Transfer!Init

\* A step that changes nothing the host can tell apart.
LEMMA Unseen ==
    ASSUME UNCHANGED <<hstage, hreq, hAddr, hCfg, hgot>> PROVE UNCHANGED Transfer!vars
BY DEF Transfer!vars

LEMMA Ends == EndTransfer => Transfer!End
BY SameNames DEF EndTransfer, Transfer!End

LEMMA LinkSetup ==
    ASSUME AddrInv, NEW r \in Requests, HostSetup(r) PROVE Transfer!Ask
<1>1. /\ hstage = "idle" /\ hstage' # "statusOut" /\ hreq' = r
      /\ UNCHANGED <<hAddr, hCfg, hgot>>
  BY DEF HostSetup
<1>2. hreq = NoRequest
  BY <1>1 DEF AddrInv, HostShape
<1> QED
  BY <1>1, <1>2, SameNames DEF Transfer!Ask

LEMMA LinkStalled ==
    ASSUME TypeInv, AddrInv, TransferInv, JudgeInv, SetupBlocks, HostInStalled
    PROVE  Transfer!Refuse
<1>1. /\ hstage \in {"dataIn", "statusIn"} /\ stall[CtrlIn] /\ EndTransfer
      /\ ControlOpen /\ UNCHANGED <<hAddr, hCfg>>
  BY DEF HostInStalled
<1>2. ~Unhandled /\ WillStall
  BY <1>1, TokenTime
<1>3. Transfer!MayRefuse(hreq)
  BY <1>1, <1>2 DEF JudgeInv, Judged
<1> QED
  BY <1>1, <1>3, Ends DEF Transfer!Refuse

LEMMA LinkIn ==
    ASSUME TypeInv, AddrInv, TransferInv, JudgeInv, SetupBlocks, HostIn
    PROVE  Transfer!Deliver \/ Transfer!Perform \/ UNCHANGED Transfer!vars
<1>1. /\ hstage \in {"dataIn", "statusIn"} /\ ControlOpen /\ ~stall[CtrlIn]
  BY DEF HostIn
<1>2. ~Unhandled /\ ~WillStall /\ (WillSend => Fits(buf[CtrlIn]))
  BY <1>1, TokenTime
<1>3. ~Transfer!Refuses(hreq)
  BY <1>1, <1>2 DEF JudgeInv, Judged
<1>4. CASE toggle[CtrlIn] = 0
  <2>1. UNCHANGED <<hstage, hreq, hAddr, hCfg, hgot>>
    BY <1>4 DEF HostIn, host
  <2> QED
    BY <2>1, Unseen
<1>5. CASE toggle[CtrlIn] # 0 /\ hstage = "dataIn"
  <2>1. /\ hstage' = "statusOut" /\ hgot' = buf[CtrlIn]
        /\ UNCHANGED <<hreq, hAddr, hCfg>>
    BY <1>5 DEF HostIn
  <2>2. hreq.kind \in ReadKinds
    BY <1>5 DEF TransferInv, Stages, IsRead
  <2>3. ASSUME ~Transfer!Ignores(hreq)
        PROVE  /\ hgot'.kind = hreq.kind
               /\ hreq.kind = "GetConfiguration" => hgot'.val = hCfg
    <3>1. ~Unanswered(hreq)
      BY <2>2, <2>3 DEF Unanswered, Transfer!Ignores, ReadKinds, Request
    <3>2. Fits(buf[CtrlIn])
      BY <1>1, <1>2, <3>1 DEF TransferInv, Answered
    <3> QED
      BY <1>5, <2>1, <3>2 DEF Fits
  <2> QED
    BY <1>3, <1>5, <2>1, <2>2, <2>3 DEF Transfer!Deliver
<1>6. CASE toggle[CtrlIn] # 0 /\ hstage = "statusIn"
  <2>1. EndTransfer /\ Acknowledged(hreq)
    BY <1>6 DEF HostIn
  <2>2. hreq.kind \notin ReadKinds /\ hreq # NoRequest
    BY <1>6 DEF TransferInv, Stages, IsRead, JudgeInv, Asking
  <2>3. /\ hAddr' = IF hreq.kind = "SetAddress" THEN hreq.arg ELSE hAddr
        /\ hCfg' = CASE hreq.kind = "SetConfiguration" -> hreq.arg
                     [] hreq.kind = "SetAddress" -> 0
                     [] OTHER -> hCfg
    BY <2>1 DEF Acknowledged
  <2> QED
    BY <1>3, <2>1, <2>2, <2>3, Ends, SameNames DEF Transfer!Perform
<1> QED
  BY <1>1, <1>4, <1>5, <1>6

LEMMA LinkEnds ==
    ASSUME AddrInv, JudgeInv, ~AbandonsAddress,
           HostOut \/ HostGivesUp \/ HostReset \/ PullCable
    PROVE  Transfer!Finish \/ Transfer!GiveUp \/ Transfer!Forget
<1>1. CASE HostOut
  <2>1. hstage = "statusOut" /\ EndTransfer /\ UNCHANGED <<hAddr, hCfg>>
    BY <1>1 DEF HostOut
  <2> QED
    BY <2>1, Ends DEF Transfer!Finish
<1>2. CASE HostGivesUp
  <2>1. /\ hstage # "idle" /\ hreq.kind # "SetAddress"
        /\ EndTransfer /\ UNCHANGED <<hAddr, hCfg>>
    BY <1>2 DEF HostGivesUp, MayAbandon
  <2>2. hreq # NoRequest
    BY <2>1 DEF JudgeInv, Asking
  <2> QED
    BY <2>1, <2>2, Ends, SameNames DEF Transfer!GiveUp
<1>3. CASE HostReset \/ PullCable
  <2>1. /\ EndTransfer /\ hCfg' = 0 /\ hAddr' \in {0, NoHost}
        /\ hstage = "idle" \/ hreq.kind # "SetAddress"
    BY <1>3 DEF HostReset, PullCable, ForgetDevice, MayAbandon
  <2>2. hreq.kind # "SetAddress"
    BY <2>1, ZlpPacket DEF AddrInv, HostShape
  <2> QED
    BY <2>1, <2>2, Ends, SameNames DEF Transfer!Forget
<1> QED
  BY <1>1, <1>2, <1>3

LEMMA LinkStep ==
    ASSUME TypeInv, AddrInv, TransferInv, JudgeInv, SetupBlocks, ~AbandonsAddress,
           [Next]_vars
    PROVE  [Transfer!Next]_(Transfer!vars)
<1>1. CASE UNCHANGED vars \/ KeyboardReport
  <2>1. UNCHANGED host
    BY <1>1 DEF vars, KeyboardReport
  <2> QED
    BY <2>1, Unseen DEF host
<1>2. CASE Handle
  <2>1. UNCHANGED host
    <3>1. CASE HandleSetup
      BY <3>1, SetupState DEF HandleSetup, SetupStep
    <3>2. CASE EnterEvents
      BY <3>2 DEF EnterEvents
    <3>3. CASE BusStep
      BY <3>3 DEF BusStep, HandleResume, HandleSuspend, HandleReset, HandleCable
    <3>4. CASE AccessStep
      BY <3>4, AccessEffect
    <3> QED
      BY <1>2, <3>1, <3>2, <3>3, <3>4 DEF Handle, BusStep, AccessStep
  <2> QED
    BY <2>1, Unseen DEF host
<1>3. CASE HostSetupAgain \/ HostPollsKeyboard \/ BusIdle \/ HostResume \/ PlugCable
  <2>1. UNCHANGED <<hstage, hreq, hAddr, hCfg, hgot>>
    BY <1>3 DEF HostSetupAgain, HostPollsKeyboard, BusIdle, HostResume, PlugCable, host
  <2> QED
    BY <2>1, Unseen
<1> QED
  BY <1>1, <1>2, <1>3, LinkSetup, LinkStalled, LinkIn, LinkEnds
     DEF Next, Host, Transfer!Next

\* USBD_IRQHandler as a whole, usb.h:387-789: for any requests and addresses,
\* whatever is repeated, refused, given up or reset in between, each request is
\* carried out, answered or refused as the address and the configuration the
\* host has set demand.
THEOREM ImplementsTransfer ==
    ASSUME SetupBlocks, ~AbandonsAddress
    PROVE  Spec => IsControlTransfer
<1>1. TypeInv /\ AddrInv /\ TransferInv /\ JudgeInv /\ [Next]_vars => JudgeInv'
  BY JudgeStep
<1>2. TypeInv /\ AddrInv /\ TransferInv /\ JudgeInv /\ [Next]_vars
        => [Transfer!Next]_(Transfer!vars)
  BY LinkStep
<1>3. Spec => []JudgeInv
  BY JudgeInit, TransfersKept, <1>1, PTL DEF Spec
<1> QED
  BY InitTransfer, TransfersKept, <1>2, <1>3, PTL DEF Spec, IsControlTransfer, Transfer!Spec
=============================================================================
