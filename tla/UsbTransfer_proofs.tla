--------------------------- MODULE UsbTransfer_proofs --------------------------
(***************************************************************************)
(* Proofs about UsbControl, for any set of requests and addresses: what    *)
(* the host takes from the device is the answer to what it asked, its      *)
(* view of address and configuration is the device's, and the keyboard     *)
(* endpoint stays in step with it.                                         *)
(*                                                                         *)
(* The invariant speaks of what the device will do once the handler has    *)
(* run to its end.  A register access then changes nothing: what leaves    *)
(* the program is in the controller.  Only the entry of a handler, an      *)
(* event or a token of the host does.                                      *)
(***************************************************************************)
EXTENDS UsbReply_proofs

\* The host talks to a device that has handled its last reset.
InContact == hAddr # NoHost /\ ~resetFlag

\* A SETUP packet is in the buffer that no handler has looked at.
Unhandled == setupFlag /\ \A i \in DOMAIN prog : prog[i].op = "event"

WillStall == Pending("stall") \/ (stall[CtrlIn] /\ ~Pending("unstall"))

WillBeData1 == Pending("dataIn1") \/ (toggle[CtrlIn] = 1 /\ ~Pending("allData0"))

\* The packet is the one the host waits for.
Fits(p) ==
    /\ p.kind = IF hstage = "dataIn" THEN hreq.kind ELSE "zlp"
    /\ hreq.kind = "GetConfiguration" => p.val = hCfg

WillSend == Pending("send") \/ (armed[CtrlIn] /\ Fits(buf[CtrlIn]))

WillAcceptStatus == Pending("armOut") \/ armed[CtrlOut]

PendingClear == \E i \in DOMAIN prog : prog[i].op = "ClearHalt" /\ prog[i].ep = KbdIn

\* An address the handler has accepted waits for the status stage.
Changing == Assigning /\ changeAddressTo # dontChangeAddress

-----------------------------------------------------------------------------
(***************************************************************************)
(* The inductive invariant, in conjuncts.                                  *)
(***************************************************************************)
\* Transfers, SETUP packets and configurations exist while the host is in
\* contact, and then the control pipe is free to send.
Contact ==
    /\ hstage # "idle" => InContact
    /\ InContact /\ setupFlag => sup = hreq /\ hstage \in {"dataIn", "statusIn"}
    /\ hCfg \in {0, 1} /\ (~InContact => hCfg = 0)
    /\ InContact => bytes[CtrlIn] = no_bytes_left

Stages ==
    /\ hstage \in {"dataIn", "statusOut"} => IsRead(hreq)
    /\ hstage = "statusIn" => ~IsRead(hreq)

\* The device's state is the one the host has set, or is about to be.
SameState ==
    InContact =>
        /\ IF Changing THEN deviceState = "Default" <=> hreq.arg = 0
                       ELSE deviceState = "Default" <=> hAddr = 0
        /\ IF Accepts(hreq)
             THEN Unhandled \/ (deviceState = "Configured" <=> hreq.arg = 1)
             ELSE deviceState = "Configured" <=> hCfg = 1

SameStall == stall[CtrlIn] = stall[CtrlOut]

\* A refused request is stalled, and an accepted one is not.
Verdict ==
    (hstage = "statusIn" /\ ~Unhandled) =>
        /\ hreq.kind = "SetConfiguration" => (WillStall <=> ~Accepts(hreq))
        /\ hreq.kind = "ClearHalt" =>
             (WillStall <=> deviceState # "Configured" \/ hreq.arg \notin {2, 3})

\* A request that was handled is answered.
Answered ==
    (/\ hstage \in {"dataIn", "statusIn"} /\ ~Unanswered(hreq)
     /\ ~Unhandled \/ Changing) =>
        \/ WillStall
        \/ WillBeData1 /\ WillSend /\ (hstage = "dataIn" => WillAcceptStatus)

Fitting ==
    InContact => \A i \in DOMAIN prog : prog[i].op = "send" => Fits(prog[i].packet)

Order ==
    \A i, j \in DOMAIN prog : prog[i].op = "dataIn1" /\ prog[j].op = "allData0" => j < i

\* What the host has taken, it can acknowledge.
Taken ==
    (hstage = "statusOut" /\ ~Unanswered(hreq)) =>
        /\ armed[CtrlOut] /\ ~stall[CtrlOut] /\ hgot.kind = hreq.kind
        /\ hreq.kind = "GetConfiguration" => hgot.val = hCfg

KbdToggle ==
    /\ hCfg = 1 /\ ~Accepts(hreq) /\ ~Unhalts(hreq) => toggle[KbdIn] = hToggle
    /\ ~Unhandled /\ ((Accepts(hreq) /\ hreq.arg = 1) \/ Unhalts(hreq)) =>
         Pending("allData0") \/ PendingClear \/ toggle[KbdIn] = 0
    /\ InContact /\ Pending("allData0") => Accepts(hreq) /\ hreq.arg = 1
    /\ InContact /\ PendingClear => Unhalts(hreq)

KbdReport ==
    /\ hCfg = 1 /\ ~Accepts(hreq) /\ armed[KbdIn] => buf[KbdIn].val = 1
    /\ Accepts(hreq) /\ hreq.arg = 1 /\ ~Unhandled =>
         Pending("stopKbd") \/ (armed[KbdIn] => buf[KbdIn].val = 1)

TransferInv ==
    /\ Contact /\ Stages /\ SameState /\ SameStall /\ Verdict /\ Answered
    /\ Fitting /\ Order /\ Taken /\ KbdToggle /\ KbdReport

-----------------------------------------------------------------------------
\* Nothing is asked.
LEMMA NoneAsked ==
    /\ ~Accepts(NoRequest) /\ ~Unhalts(NoRequest) /\ ~IsRead(NoRequest)
    /\ NoRequest.kind = "none"
BY ZlpPacket DEF Accepts, Unhalts, IsRead, ReadKinds

\* A request names its kind and an argument of a byte.
LEMMA RequestShape ==
    ASSUME TypeInv
    PROVE  /\ hreq.arg \in 0 .. 255
           /\ hreq = Request("ClearHalt", KbdIn) <=>
                (hreq.kind = "ClearHalt" /\ hreq.arg = KbdIn)
           /\ hreq = Request("SetAddress", 0) <=>
                (hreq.kind = "SetAddress" /\ hreq.arg = 0)
<1>1. hreq \in Requests \/ hreq = NoRequest
  BY TypeParts DEF DriverType
<1>2. CASE hreq \in Requests
  <2>1. hreq \in [kind : STRING, arg : 0 .. 255]
    BY <1>2, RequestAssumption, Zenon
  <2>2. hreq.arg \in 0 .. 255
    BY <2>1
  <2>3. hreq = Request("ClearHalt", KbdIn)
          <=> (hreq.kind = "ClearHalt" /\ hreq.arg = KbdIn)
    BY <2>1 DEF Request, KbdIn
  <2>4. hreq = Request("SetAddress", 0) <=> (hreq.kind = "SetAddress" /\ hreq.arg = 0)
    BY <2>1 DEF Request
  <2> QED
    BY <2>2, <2>3, <2>4
<1>3. CASE hreq = NoRequest
  <2>1. \A k, a : Request(k, a).kind = k
    BY DEF Request
  <2>2. hreq.kind = "none" /\ hreq.arg = 0
    BY <1>3, ZlpPacket
  <2> QED
    BY <2>1, <2>2
<1> QED
  BY <1>1, <1>2, <1>3

LEMMA TransferInit == Init => TransferInv
<1> SUFFICES ASSUME Init PROVE TransferInv
  OBVIOUS
<1>1. /\ hstage = "idle" /\ hreq = NoRequest /\ hAddr = NoHost /\ hCfg = 0
      /\ prog = << >> /\ sup = NoRequest /\ deviceState = "Default"
      /\ stall[CtrlIn] = stall[CtrlOut]
  BY DEF Init, CtrlIn, CtrlOut, Endpoints
<1>2. ~InContact /\ ~setupFlag
  BY <1>1 DEF InContact, setupFlag
<1>3. Contact /\ Stages /\ SameState /\ SameStall /\ Verdict /\ Answered
  BY <1>1, <1>2 DEF Contact, Stages, SameState, SameStall, Verdict, Answered
<1>4. Fitting /\ Order /\ Taken /\ KbdToggle /\ KbdReport
  BY <1>1, <1>2, NoneAsked DEF Fitting, Order, Taken, KbdToggle, KbdReport
<1> QED
  BY <1>3, <1>4 DEF TransferInv

\* A step that touches none of what TransferInv is about.
LEMMA TransferFrame ==
    ASSUME TransferInv,
           UNCHANGED <<prog, sup, host, deviceState, changeAddressTo, bytes>>,
           UNCHANGED <<armed, buf, toggle, stall>>, resetFlag' = resetFlag
    PROVE  TransferInv'
<1>1. UNCHANGED <<hstage, hreq, hAddr, hCfg, hToggle, hgot>>
  BY DEF host
<1>2. /\ InContact' = InContact /\ setupFlag' = setupFlag /\ Unhandled' = Unhandled
      /\ Changing' = Changing /\ PendingClear' = PendingClear
      /\ \A op : Pending(op)' = Pending(op)
  BY <1>1 DEF InContact, setupFlag, Unhandled, Changing, Assigning, Pending, PendingClear
<1>3. /\ WillStall' = WillStall /\ WillBeData1' = WillBeData1 /\ WillSend' = WillSend
      /\ WillAcceptStatus' = WillAcceptStatus /\ (\A p : Fits(p)' = Fits(p))
  BY <1>1, <1>2 DEF WillStall, WillBeData1, WillSend, WillAcceptStatus, Fits
<1>4. /\ Accepts(hreq)' = Accepts(hreq) /\ Unhalts(hreq)' = Unhalts(hreq)
      /\ Unanswered(hreq)' = Unanswered(hreq) /\ IsRead(hreq)' = IsRead(hreq)
  BY <1>1 DEF Accepts, Unhalts, Unanswered, IsRead
<1>5. Contact' /\ Stages' /\ SameState' /\ SameStall'
  BY <1>1, <1>2, <1>4 DEF TransferInv, Contact, Stages, SameState, SameStall
<1>6. Verdict' /\ Answered'
  BY <1>1, <1>2, <1>3, <1>4 DEF TransferInv, Verdict, Answered
<1>7. Fitting' /\ Order' /\ Taken'
  BY <1>1, <1>2, <1>3, <1>4 DEF TransferInv, Fitting, Order, Taken
<1>8. KbdToggle' /\ KbdReport'
  BY <1>1, <1>2, <1>4 DEF TransferInv, KbdToggle, KbdReport
<1> QED
  BY <1>5, <1>6, <1>7, <1>8 DEF TransferInv

\* A program and the set of its accesses.
LEMMA PendingAccesses ==
    ASSUME prog' \in Seq(Ops)
    PROVE  /\ \A op : Pending(op)' <=> Has(Accesses(prog'), op)
           /\ PendingClear' <=> Clears(Accesses(prog'))
           /\ \A i \in DOMAIN prog' : prog'[i] \in Accesses(prog')
           /\ Ordered(prog') => Order'
<1>1. DOMAIN prog' = 1 .. Len(prog')
  BY LenProperties
<1>2. \A op : Pending(op)' <=> Has(Accesses(prog'), op)
  BY <1>1 DEF Pending, Has, Accesses
<1>3. PendingClear' <=> Clears(Accesses(prog'))
  BY <1>1 DEF PendingClear, Clears, Accesses
<1>4. \A i \in DOMAIN prog' : prog'[i] \in Accesses(prog')
  BY <1>1 DEF Accesses
<1>5. Ordered(prog') => Order'
  BY <1>1 DEF Ordered, Order
<1> QED
  BY <1>2, <1>3, <1>4, <1>5

-----------------------------------------------------------------------------
\* The SETUP branch, when the host waits for what it will do.
LEMMA SetupSameState ==
    ASSUME TypeInv, AddrInv, TransferInv, InContact, NEW r \in Requests, SetupStep(r),
           r = hreq
    PROVE  /\ Accepts(hreq)' = Accepts(hreq) /\ Unhalts(hreq)' = Unhalts(hreq)
           /\ SameState'
<1>1. /\ hreq' = hreq /\ hAddr' = hAddr /\ hCfg' = hCfg /\ InContact' = InContact
      /\ Assigning' = Assigning
  BY SetupState DEF host, controller, power, InContact, resetFlag, Assigning
<1>2. /\ r.kind \notin {"SetConfiguration", "SetAddress"} => deviceState' = deviceState
      /\ r.kind = "SetConfiguration" =>
           /\ Accepts(r) => deviceState' = IF r.arg = 1 THEN "Configured" ELSE "Address"
           /\ ~Accepts(r) => deviceState' = deviceState
      /\ r.kind # "SetAddress" => changeAddressTo' = changeAddressTo
      /\ r.kind = "SetAddress" => SetAddress(r)
  BY SetupState
<1>3. Accepts(hreq)' = Accepts(hreq) /\ Unhalts(hreq)' = Unhalts(hreq)
  BY <1>1, <1>2 DEF Accepts, Unhalts
<1>4. CASE r.kind = "SetAddress"
  <2>1. Assigning /\ ~Accepts(hreq) /\ SetAddress(r)
    BY <1>2, <1>4 DEF Assigning, Accepts
  <2>2. changeAddressTo # dontChangeAddress => deviceState # "Configured"
    BY <2>1 DEF AddrInv, Accepted
  <2>3. /\ IF Changing THEN deviceState = "Default" <=> hreq.arg = 0
                       ELSE deviceState = "Default" <=> hAddr = 0
        /\ deviceState = "Configured" <=> hCfg = 1
    BY <2>1 DEF TransferInv, SameState
  <2>4. r.arg \in Addresses \union {0} /\ r.arg # dontChangeAddress /\ 0 # dontChangeAddress
    BY <1>4, RequestAssumption, AddressRange
  <2>5. Changing' <=> changeAddressTo' # dontChangeAddress
    BY <1>1, <2>1 DEF Changing
  <2>6. CASE deviceState = "Configured"
    <3>1. UNCHANGED <<deviceState, changeAddressTo>>
      BY <2>1, <2>6 DEF SetAddress
    <3> QED
      BY <1>1, <1>3, <2>1, <2>3, <3>1 DEF SameState, Changing
  <2>7. CASE deviceState # "Configured" /\ r.arg # 0
    <3>1. deviceState' = "Address" /\ changeAddressTo' = r.arg
      BY <2>1, <2>7 DEF SetAddress
    <3> QED
      BY <1>1, <1>3, <2>1, <2>3, <2>4, <2>5, <2>7, <3>1 DEF SameState
  <2>8. CASE deviceState = "Address" /\ r.arg = 0
    <3>1. deviceState' = "Default" /\ changeAddressTo' = 0
      BY <2>1, <2>8 DEF SetAddress
    <3> QED
      BY <1>1, <1>3, <2>1, <2>3, <2>4, <2>5, <2>8, <3>1 DEF SameState
  <2>9. CASE deviceState = "Default" /\ r.arg = 0
    <3>1. UNCHANGED <<deviceState, changeAddressTo>>
      BY <2>1, <2>9 DEF SetAddress
    <3> QED
      BY <1>1, <1>3, <2>1, <2>3, <3>1 DEF SameState, Changing
  <2>10. deviceState \in {"Default", "Address", "Configured"}
    BY TypeParts DEF SoftwareType
  <2> QED
    BY <1>3, <2>6, <2>7, <2>8, <2>9, <2>10
<1>5. CASE r.kind # "SetAddress"
  <2>1. ~Assigning /\ ~Changing /\ ~Changing'
    BY <1>1, <1>5 DEF Assigning, Changing
  <2>2. CASE Accepts(r)
    <3>1. /\ deviceState # "Default" /\ deviceState' # "Default"
          /\ deviceState' = "Configured" <=> r.arg = 1
      BY <1>2, <2>2 DEF Accepts
    <3> QED
      BY <1>1, <1>3, <2>1, <2>2, <3>1 DEF TransferInv, SameState
  <2>3. CASE ~Accepts(r)
    <3>1. deviceState' = deviceState
      BY <1>2, <1>5, <2>3
    <3> QED
      BY <1>1, <1>3, <2>1, <2>3, <3>1 DEF TransferInv, SameState
  <2> QED
    BY <1>3, <2>2, <2>3
<1> QED
  BY <1>4, <1>5

\* It keeps what it owes: the reply, the toggles and the keyboard's packet.
LEMMA TransferSetup == ASSUME TypeInv, AddrInv, TransferInv, HandleSetup PROVE TransferInv'
<1>1. PICK r \in Requests : SetupStep(r)
  BY DEF HandleSetup, SetupStep
<1> DEFINE A == Accesses(prog')
<1>2. /\ Right(r, A) /\ Ordered(prog') /\ Has(A, "unstall")
      /\ prog = << >> /\ setupFlag /\ r = sup
      /\ UNCHANGED <<controller, host, bytes>>
      /\ r.kind = "SetAddress" => SetAddress(r)
  BY <1>1, SetupState DEF Started
<1>3. /\ UNCHANGED <<hstage, hreq, hAddr, hCfg, hToggle, hgot, bytes>>
      /\ UNCHANGED <<armed, buf, toggle, stall, sup>>
      /\ InContact' = InContact /\ setupFlag' = setupFlag
      /\ IsRead(hreq)' = IsRead(hreq) /\ Unanswered(hreq)' = Unanswered(hreq)
      /\ \A p : Fits(p)' = Fits(p)
  BY <1>2 DEF host, controller, power, InContact, resetFlag, setupFlag, IsRead, Unanswered,
              Fits
<1>4. prog' \in Seq(Ops)
  BY SetupType DEF TypeInv
<1>5. /\ \A op : Pending(op)' <=> Has(A, op)
      /\ PendingClear' <=> Clears(A)
      /\ \A i \in DOMAIN prog' : prog'[i] \in A
      /\ Order'
  BY <1>2, <1>4, PendingAccesses
<1> HIDE DEF A
<1>6. ~Unhandled'
  BY <1>2, <1>5 DEF Unhandled, Pending
<1>7. InContact => r = hreq /\ hstage \in {"dataIn", "statusIn"}
  BY <1>2 DEF TransferInv, Contact
<1>8. Contact' /\ Stages' /\ SameStall'
  BY <1>3 DEF TransferInv, Contact, Stages, SameStall
<1>9. CASE ~InContact
  <2>1. hstage = "idle" /\ hreq = NoRequest /\ hCfg = 0
    BY <1>9 DEF TransferInv, Contact, AddrInv, HostShape
  <2>2. ~Accepts(hreq)' /\ ~Unhalts(hreq)'
    BY <1>3, <2>1, ZlpPacket DEF Accepts, Unhalts
  <2>3. SameState' /\ Verdict' /\ Answered' /\ Fitting' /\ Taken'
    BY <1>3, <1>9, <2>1 DEF SameState, Verdict, Answered, Fitting, Taken
  <2>4. KbdToggle' /\ KbdReport'
    BY <1>3, <1>9, <2>1, <2>2 DEF KbdToggle, KbdReport
  <2> QED
    BY <1>5, <1>8, <2>3, <2>4 DEF TransferInv
<1>10. CASE InContact
  <2>1. /\ r = hreq /\ hstage \in {"dataIn", "statusIn"}
        /\ hstage = "dataIn" <=> IsRead(hreq)
    BY <1>7, <1>10 DEF TransferInv, Stages
  <2>2. /\ Accepts(hreq)' = Accepts(hreq) /\ Unhalts(hreq)' = Unhalts(hreq)
        /\ SameState'
    BY <1>1, <1>10, <2>1, SetupSameState
  <2>3. WillStall' <=> Has(A, "stall")
    BY <1>2, <1>5 DEF WillStall
  <2>4. hreq.kind # "SetAddress" => deviceState' = deviceState \/ Accepts(hreq)
    BY <1>1, <2>1, SetupState DEF Accepts
  <2>5. Verdict'
    <3>1. hreq.kind = "SetConfiguration" => (WillStall' <=> ~Accepts(hreq))
      BY <1>2, <2>1, <2>3 DEF Right, RightConfiguration
    <3>2. hreq.kind = "ClearHalt" =>
            (WillStall' <=> deviceState' # "Configured" \/ hreq.arg \notin {2, 3})
      <4>1. hreq.kind = "ClearHalt" => deviceState' = deviceState
        BY <2>4 DEF Accepts
      <4> QED
        BY <1>2, <2>1, <2>3, <4>1 DEF Right, RightHalt
    <3> QED
      BY <1>3, <2>2, <3>1, <3>2 DEF Verdict
  <2>6. Answered'
    <3> SUFFICES ASSUME ~Unanswered(hreq), ~WillStall'
                 PROVE  WillBeData1' /\ WillSend' /\ (hstage = "dataIn" => WillAcceptStatus')
      BY <1>3 DEF Answered
    <3>1. CASE ~Silent(r)
      <4>1. Has(A, "dataIn1") /\ Has(A, "send") /\ (hstage = "dataIn" => Has(A, "armOut"))
        BY <1>2, <2>1, <2>3, <3>1 DEF Right, RightReply
      <4> QED
        BY <1>5, <4>1 DEF WillBeData1, WillSend, WillAcceptStatus
    <3>2. CASE Silent(r)
      <4>1. r.kind = "SetAddress" /\ r.arg = 0 /\ deviceState = "Default" /\ hAddr # 0
        BY <2>1, <3>2, RequestShape DEF Silent, Unanswered
      <4>2. Changing
        BY <1>10, <2>1, <4>1 DEF TransferInv, SameState
      <4>3. /\ hstage = "statusIn" /\ toggle[CtrlIn] = 1 /\ ~stall[CtrlIn]
        <5>1. ~Pending("dataIn1") /\ ~Pending("unstall")
          BY <1>2 DEF Pending
        <5> QED
          BY <4>2, <5>1 DEF Changing, AddrInv, Accepted, HostShape
      <4>4. ~WillStall /\ WillSend
        <5>1. ~Pending("stall")
          BY <1>2 DEF Pending
        <5>2. ~WillStall
          BY <4>3, <5>1 DEF WillStall
        <5> QED
          BY <4>2, <4>3, <5>2 DEF TransferInv, Answered
      <4>5. armed[CtrlIn] /\ Fits(buf[CtrlIn])
        BY <1>2, <4>4 DEF WillSend, Pending
      <4>6. ~Has(A, "allData0")
        BY <1>2, <4>1 DEF Right, RightConfiguration, Accepts
      <4>7. WillSend'
        BY <1>3, <4>5 DEF WillSend
      <4>8. WillBeData1'
        BY <1>3, <1>5, <4>3, <4>6 DEF WillBeData1
      <4> QED
        BY <4>3, <4>7, <4>8
    <3> QED
      BY <3>1, <3>2
  <2>7. Fitting'
    <3> SUFFICES ASSUME NEW i \in DOMAIN prog', prog'[i].op = "send"
                 PROVE  Fits(prog'[i].packet)
      BY <1>3 DEF Fitting
    <3>1. /\ prog'[i].packet.kind = IF IsRead(r) THEN r.kind ELSE "zlp"
          /\ r.kind = "GetConfiguration" =>
               prog'[i].packet.val = IF deviceState = "Configured" THEN 1 ELSE 0
      BY <1>2, <1>5 DEF Right, RightPacket
    <3>2. r.kind = "GetConfiguration" =>
             hCfg = IF deviceState = "Configured" THEN 1 ELSE 0
      BY <1>10, <2>1 DEF TransferInv, SameState, Contact, Accepts
    <3> QED
      BY <2>1, <3>1, <3>2 DEF Fits
  <2>8. Taken'
    BY <1>3, <2>1 DEF Taken
  <2>9. KbdToggle'
    <3>1. hCfg = 1 /\ ~Accepts(hreq)' /\ ~Unhalts(hreq)' => toggle'[KbdIn] = hToggle'
      BY <1>3, <2>2 DEF TransferInv, KbdToggle
    <3>2. /\ Accepts(hreq)' /\ hreq.arg = 1 => Pending("allData0")'
          /\ Unhalts(hreq)' => PendingClear'
          /\ Pending("allData0")' => Accepts(hreq)' /\ hreq.arg = 1
          /\ PendingClear' => Unhalts(hreq)'
      BY <1>2, <1>5, <2>1, <2>2 DEF Right, RightConfiguration, RightHalt
    <3> QED
      BY <1>3, <3>1, <3>2 DEF KbdToggle
  <2>10. KbdReport'
    <3>1. Accepts(hreq)' /\ hreq.arg = 1 => Pending("stopKbd")'
      BY <1>2, <1>5, <2>1, <2>2 DEF Right, RightConfiguration
    <3> QED
      BY <1>3, <2>2, <3>1 DEF TransferInv, KbdReport
  <2> QED
    BY <1>5, <1>8, <2>2, <2>5, <2>6, <2>7, <2>8, <2>9, <2>10 DEF TransferInv
<1> QED
  BY <1>9, <1>10

-----------------------------------------------------------------------------
(***************************************************************************)
(* The register accesses: what each does to the control pipe and to the    *)
(* keyboard endpoint.                                                      *)
(***************************************************************************)
ControlEffect(name) ==
    /\ toggle'[CtrlIn] = CASE name = "dataIn1" -> 1
                            [] name = "allData0" -> 0
                            [] OTHER -> toggle[CtrlIn]
    /\ \A ep \in {CtrlIn, CtrlOut} :
         stall'[ep] = CASE name = "stall" -> TRUE
                        [] name = "unstall" -> FALSE
                        [] OTHER -> stall[ep]
    /\ IF name = "send"
         THEN bytes[CtrlIn] = no_bytes_left =>
                armed'[CtrlIn] /\ buf'[CtrlIn] = Head(prog).packet
         ELSE armed'[CtrlIn] = armed[CtrlIn] /\ buf'[CtrlIn] = buf[CtrlIn]
    /\ armed'[CtrlOut] = IF name = "armOut" THEN TRUE ELSE armed[CtrlOut]
    /\ bytes'[CtrlIn] = bytes[CtrlIn]

KbdEffect(name) ==
    /\ toggle'[KbdIn] = IF name = "allData0" \/ (name = "ClearHalt" /\ Head(prog).ep = KbdIn)
                           THEN 0 ELSE toggle[KbdIn]
    /\ IF name = "stopKbd" THEN ~armed'[KbdIn]
         ELSE armed'[KbdIn] = armed[KbdIn] /\ buf'[KbdIn] = buf[KbdIn]

LEMMA AccessEffect ==
    ASSUME TypeInv, AddrInv, AccessStep
    PROVE  \E name :
             /\ Access(name) /\ (sup' = sup \/ (name = "clearSetup" /\ sup' = NoRequest))
             /\ ControlEffect(name) /\ KbdEffect(name)
             /\ UNCHANGED <<host, deviceState>> /\ resetFlag' = resetFlag
             /\ Assigning => changeAddressTo' = changeAddressTo
<1>0. /\ EndpointType /\ SoftwareType /\ CtrlIn \in Endpoints /\ CtrlOut \in Endpoints
      /\ KbdIn \in Endpoints /\ CtrlIn # CtrlOut /\ CtrlIn # KbdIn /\ CtrlOut # KbdIn
      /\ CtrlIn \notin {2, 3} /\ CtrlOut \notin {2, 3}
  BY TypeParts DEF CtrlIn, CtrlOut, KbdIn, Endpoints
<1>1. \A name : Access(name) => ProgType' /\ Head(prog) \in Ops /\ Head(prog).op = name
  BY AccessProg
<1>2. CASE Unstall
  <2>1. Access("unstall") /\ UNCHANGED <<software, host, power, sup, armed, buf, toggle>>
    BY <1>2 DEF Unstall
  <2>2. ControlEffect("unstall") /\ KbdEffect("unstall")
    BY <1>0, <1>2, <2>1 DEF Unstall, ControlEffect, KbdEffect, EndpointType, software
  <2> QED
    BY <2>1, <2>2 DEF software, power, resetFlag
<1>3. CASE StallControl
  <2>1. Access("stall") /\ UNCHANGED <<software, host, power, sup, armed, buf, toggle>>
    BY <1>3 DEF StallControl
  <2>2. ControlEffect("stall") /\ KbdEffect("stall")
    BY <1>0, <1>3, <2>1 DEF StallControl, ControlEffect, KbdEffect, EndpointType, software
  <2> QED
    BY <2>1, <2>2 DEF software, power, resetFlag
<1>4. CASE Data1
  <2>1. Access("dataIn1") /\ UNCHANGED <<software, host, power, sup, armed, buf, stall>>
    BY <1>4 DEF Data1
  <2>2. ControlEffect("dataIn1") /\ KbdEffect("dataIn1")
    BY <1>0, <1>4, <2>1 DEF Data1, ControlEffect, KbdEffect, EndpointType, software
  <2> QED
    BY <2>1, <2>2 DEF software, power, resetFlag
<1>5. CASE ArmOut
  <2>1. /\ Access("armOut") /\ UNCHANGED <<host, power, sup, buf, stall, toggle>>
        /\ UNCHANGED <<deviceState, changeAddressTo>>
    BY <1>5 DEF ArmOut
  <2>2. bytes'[CtrlIn] = bytes[CtrlIn]
    BY <1>0, <1>5 DEF ArmOut, SoftwareType
  <2>3. /\ armed'[CtrlOut] = TRUE
        /\ armed'[CtrlIn] = armed[CtrlIn] /\ armed'[KbdIn] = armed[KbdIn]
    BY <1>0, <1>5 DEF ArmOut, EndpointType
  <2>4. ControlEffect("armOut") /\ KbdEffect("armOut")
    BY <2>1, <2>2, <2>3 DEF ControlEffect, KbdEffect
  <2> QED
    BY <2>1, <2>4 DEF power, resetFlag
<1>6. CASE SendControl
  <2>1. Access("send") /\ UNCHANGED <<software, host, power, sup, stall, toggle>>
    BY <1>6 DEF SendControl
  <2>2. bytes[CtrlIn] = no_bytes_left =>
          /\ armed' = [armed EXCEPT ![CtrlIn] = TRUE]
          /\ buf' = [buf EXCEPT ![CtrlIn] = Head(prog).packet]
    BY <1>6 DEF SendControl, InitiateSend
  <2>3. bytes[CtrlIn] # no_bytes_left => UNCHANGED <<armed, buf>>
    BY <1>6 DEF SendControl, InitiateSend
  <2>4. /\ bytes[CtrlIn] = no_bytes_left =>
             armed'[CtrlIn] /\ buf'[CtrlIn] = Head(prog).packet
        /\ armed'[CtrlOut] = armed[CtrlOut]
        /\ armed'[KbdIn] = armed[KbdIn] /\ buf'[KbdIn] = buf[KbdIn]
    BY <1>0, <2>2, <2>3 DEF EndpointType
  <2>5. ControlEffect("send") /\ KbdEffect("send")
    BY <2>1, <2>4 DEF ControlEffect, KbdEffect, software
  <2> QED
    BY <2>1, <2>5 DEF software, power, resetFlag
<1>7. CASE ResetToggles
  <2>1. Access("allData0") /\ UNCHANGED <<software, host, power, sup, armed, buf, stall>>
    BY <1>7 DEF ResetToggles
  <2>2. ControlEffect("allData0") /\ KbdEffect("allData0")
    BY <1>0, <1>7, <2>1 DEF ResetToggles, ControlEffect, KbdEffect, software
  <2> QED
    BY <2>1, <2>2 DEF software, power, resetFlag
<1>8. CASE StopKeyboard
  <2>1. Access("stopKbd") /\ UNCHANGED <<software, host, power, sup, toggle, stall>>
    BY <1>8 DEF StopKeyboard
  <2>2. /\ ~armed'[KbdIn] /\ armed'[CtrlIn] = armed[CtrlIn] /\ buf'[CtrlIn] = buf[CtrlIn]
        /\ armed'[CtrlOut] = armed[CtrlOut]
    BY <1>0, <1>8 DEF StopKeyboard, Disarm, EndpointType
  <2>3. ControlEffect("stopKbd") /\ KbdEffect("stopKbd")
    BY <2>1, <2>2 DEF ControlEffect, KbdEffect, software
  <2> QED
    BY <2>1, <2>3 DEF software, power, resetFlag
<1>9. CASE SetHalt
  <2>1. Access("SetHalt") /\ UNCHANGED <<software, host, power, sup, armed, buf, toggle>>
    BY <1>9 DEF SetHalt
  <2>2. Head(prog).ep \in {2, 3}
    BY <1>1, <2>1, OpFields
  <2>3. stall'[CtrlIn] = stall[CtrlIn] /\ stall'[CtrlOut] = stall[CtrlOut]
    BY <1>0, <1>9, <2>2 DEF SetHalt, EndpointType
  <2>4. ControlEffect("SetHalt") /\ KbdEffect("SetHalt")
    BY <2>1, <2>3 DEF ControlEffect, KbdEffect, software
  <2> QED
    BY <2>1, <2>4 DEF software, power, resetFlag
<1>10. CASE ClearHalt
  <2>1. Access("ClearHalt") /\ UNCHANGED <<software, host, power, sup, armed, buf>>
    BY <1>10 DEF ClearHalt
  <2>2. Head(prog).ep \in {2, 3}
    BY <1>1, <2>1, OpFields
  <2>3. /\ stall'[CtrlIn] = stall[CtrlIn] /\ stall'[CtrlOut] = stall[CtrlOut]
        /\ toggle'[CtrlIn] = toggle[CtrlIn]
        /\ toggle'[KbdIn] = IF Head(prog).ep = KbdIn THEN 0 ELSE toggle[KbdIn]
    BY <1>0, <1>10, <2>2 DEF ClearHalt, EndpointType
  <2>4. ControlEffect("ClearHalt") /\ KbdEffect("ClearHalt")
    BY <2>1, <2>3 DEF ControlEffect, KbdEffect, software
  <2> QED
    BY <2>1, <2>4 DEF software, power, resetFlag
<1>11. CASE ClearSetup
  <2>1. /\ Access("clearSetup") /\ UNCHANGED <<software, host, power, armed, buf>>
        /\ UNCHANGED <<toggle, stall>> /\ sup' = NoRequest
    BY <1>11 DEF ClearSetup
  <2>2. ControlEffect("clearSetup") /\ KbdEffect("clearSetup")
    BY <2>1 DEF ControlEffect, KbdEffect, software
  <2> QED
    BY <2>1, <2>2 DEF software, power, resetFlag
<1>12. CASE Event
  <2>1. /\ Access("event") /\ UNCHANGED <<host, power, sup, armed, buf, toggle, stall>>
        /\ deviceState' = deviceState
    BY <1>12 DEF Event
  <2>2. Head(prog).ep \in Endpoints
    BY <1>1, <2>1, OpFields
  <2>3. bytes'[CtrlIn] = bytes[CtrlIn]
    <3>1. bytes' = bytes \/ bytes' = [bytes EXCEPT ![CtrlOut] = no_bytes_left]
      BY <1>12 DEF Event
    <3> QED
      BY <1>0, <3>1 DEF SoftwareType
  <2>4. ControlEffect("event") /\ KbdEffect("event")
    BY <2>1, <2>3 DEF ControlEffect, KbdEffect
  <2>5. Assigning => changeAddressTo' = changeAddressTo
    <3>1. CASE Events
      BY <1>12, <3>1 DEF Event, TakeAddress, AddrInv, Undisturbed, Vacuous
    <3>2. CASE ~Events
      BY <1>12, <2>2, <3>2 DEF Event, Events
    <3> QED
      BY <3>1, <3>2
  <2> QED
    BY <2>1, <2>4, <2>5 DEF power, resetFlag
<1> QED
  BY <1>2, <1>3, <1>4, <1>5, <1>6, <1>7, <1>8, <1>9, <1>10, <1>11, <1>12 DEF AccessStep

\* An access only moves what is in the program into the controller.
LEMMA WillKept ==
    ASSUME TypeInv, AddrInv, TransferInv, NEW name, Access(name), ControlEffect(name),
           sup' = sup \/ (name = "clearSetup" /\ sup' = NoRequest), UNCHANGED host
    PROVE  /\ WillStall' <=> WillStall
           /\ WillBeData1 => WillBeData1'
           /\ InContact /\ WillSend => WillSend'
           /\ WillAcceptStatus => WillAcceptStatus'
           /\ Unhandled => Unhandled'
<1>1. /\ \A op : Pending(op)' => Pending(op)
      /\ \A op : Pending(op) /\ op # name => Pending(op)'
      /\ Pending(name) /\ (name # "event" => setupFlag /\ ~Pending("unstall")')
  BY AccessShape DEF AddrInv
<1>2. /\ Head(prog) = prog[1] /\ Head(prog).op = name /\ 1 \in DOMAIN prog
      /\ DOMAIN prog = 1 .. Len(prog) /\ Len(prog) \in Nat
      /\ \A i \in DOMAIN prog' : i + 1 \in DOMAIN prog /\ prog'[i] = prog[i + 1] /\ i \in Nat
  <2>1. prog \in Seq(Ops) /\ prog # << >> /\ prog' = Tail(prog)
    BY DEF TypeInv, Access
  <2>2. /\ Head(prog) = prog[1] /\ DOMAIN prog = 1 .. Len(prog)
        /\ DOMAIN prog' = 1 .. Len(prog) - 1
        /\ \A i \in DOMAIN prog' : i + 1 \in DOMAIN prog /\ prog'[i] = prog[i + 1]
    BY <2>1, TailShape
  <2>3. Len(prog) \in Nat /\ Len(prog) # 0
    BY <2>1, EmptySeq, LenProperties
  <2> QED
    BY <2>2, <2>3 DEF Access
<1>3. WillStall' <=> WillStall
  <2>1. stall'[CtrlIn] = IF name = "stall" THEN TRUE
                         ELSE IF name = "unstall" THEN FALSE ELSE stall[CtrlIn]
    BY DEF ControlEffect
  <2>2. CASE name = "stall"
    BY <1>1, <2>1, <2>2 DEF WillStall
  <2>3. CASE name = "unstall"
    BY <1>1, <2>1, <2>3 DEF WillStall
  <2>4. CASE name \notin {"stall", "unstall"}
    BY <1>1, <2>1, <2>4 DEF WillStall
  <2> QED
    BY <2>2, <2>3, <2>4
<1>4. WillBeData1 => WillBeData1'
  <2>1. CASE name = "dataIn1"
    <3>1. toggle'[CtrlIn] = 1
      BY <2>1 DEF ControlEffect
    <3>2. ~Pending("allData0")'
      <4> SUFFICES ASSUME NEW j \in DOMAIN prog', prog'[j].op = "allData0" PROVE FALSE
        BY DEF Pending
      <4>1. j + 1 \in DOMAIN prog /\ prog[j + 1].op = "allData0" /\ j \in Nat
        BY <1>2
      <4>2. j + 1 < 1
        BY <1>2, <2>1, <4>1 DEF TransferInv, Order
      <4> QED
        BY <4>1, <4>2
    <3> QED
      BY <3>1, <3>2 DEF WillBeData1
  <2>2. CASE name = "allData0"
    BY <1>1, <2>2 DEF WillBeData1
  <2>3. CASE name \notin {"dataIn1", "allData0"}
    <3>1. toggle'[CtrlIn] = toggle[CtrlIn]
      BY <2>3 DEF ControlEffect
    <3> QED
      BY <1>1, <2>3, <3>1 DEF WillBeData1
  <2> QED
    BY <2>1, <2>2, <2>3
<1>5. InContact /\ WillSend => WillSend'
  <2> SUFFICES ASSUME InContact, WillSend PROVE WillSend'
    OBVIOUS
  <2>1. \A p : Fits(p)' = Fits(p)
    BY DEF host, Fits
  <2>2. CASE name = "send"
    <3>1. armed'[CtrlIn] /\ buf'[CtrlIn] = Head(prog).packet
      BY <2>2 DEF ControlEffect, TransferInv, Contact
    <3>2. Fits(Head(prog).packet)
      BY <1>2, <2>2 DEF TransferInv, Fitting
    <3> QED
      BY <2>1, <3>1, <3>2 DEF WillSend
  <2>3. CASE name # "send"
    BY <1>1, <2>1, <2>3 DEF WillSend, ControlEffect
  <2> QED
    BY <2>2, <2>3
<1>6. WillAcceptStatus => WillAcceptStatus'
  BY <1>1 DEF WillAcceptStatus, ControlEffect
<1>7. Unhandled => Unhandled'
  <2> SUFFICES ASSUME Unhandled PROVE Unhandled'
    OBVIOUS
  <2>1. name = "event"
    BY <1>2 DEF Unhandled
  <2>2. setupFlag'
    BY <2>1 DEF Unhandled, setupFlag
  <2>3. \A i \in DOMAIN prog' : prog'[i].op = "event"
    BY <1>2 DEF Unhandled
  <2> QED
    BY <2>2, <2>3 DEF Unhandled
<1> QED
  BY <1>3, <1>4, <1>5, <1>6, <1>7

\* What is left of the parts of the program the invariant looks into.
LEMMA RestKept ==
    ASSUME TypeInv, AddrInv, TransferInv, NEW name, Access(name),
           sup' = sup \/ (name = "clearSetup" /\ sup' = NoRequest), UNCHANGED host,
           InContact' = InContact
    PROVE  /\ Fitting' /\ Order' /\ (PendingClear' => PendingClear)
           /\ PendingClear => PendingClear' \/ (name = "ClearHalt" /\ Head(prog).ep = KbdIn)
           /\ name = "ClearHalt" /\ Head(prog).ep = KbdIn => PendingClear
<1>1. prog \in Seq(Ops) /\ prog # << >> /\ prog' = Tail(prog) /\ Head(prog).op = name
  BY DEF TypeInv, Access
<1>2. /\ Head(prog) = prog[1] /\ DOMAIN prog = 1 .. Len(prog)
      /\ DOMAIN prog' = 1 .. Len(prog) - 1
      /\ \A i \in DOMAIN prog' : i + 1 \in DOMAIN prog /\ prog'[i] = prog[i + 1]
  BY <1>1, TailShape
<1>3. Len(prog) \in Nat /\ Len(prog) # 0
  BY <1>1, EmptySeq, LenProperties
<1>4. \A p : Fits(p)' = Fits(p)
  BY DEF host, Fits
<1>5. Fitting'
  BY <1>2, <1>4 DEF TransferInv, Fitting
<1>6. Order'
  <2> SUFFICES ASSUME NEW i \in DOMAIN prog', NEW j \in DOMAIN prog',
                      prog'[i].op = "dataIn1", prog'[j].op = "allData0"
               PROVE  j < i
    BY DEF Order
  <2>1. /\ i + 1 \in DOMAIN prog /\ prog[i + 1].op = "dataIn1" /\ i \in Nat
        /\ j + 1 \in DOMAIN prog /\ prog[j + 1].op = "allData0" /\ j \in Nat
    BY <1>2
  <2>2. j + 1 < i + 1
    BY <2>1 DEF TransferInv, Order
  <2> QED
    BY <2>1, <2>2
<1>7. PendingClear' => PendingClear
  BY <1>2 DEF PendingClear
<1>8. name = "ClearHalt" /\ Head(prog).ep = KbdIn => PendingClear
  BY <1>1, <1>2, <1>3 DEF PendingClear
<1>9. ASSUME PendingClear
      PROVE  PendingClear' \/ (name = "ClearHalt" /\ Head(prog).ep = KbdIn)
  <2>1. PICK i \in DOMAIN prog : prog[i].op = "ClearHalt" /\ prog[i].ep = KbdIn
    BY <1>9 DEF PendingClear
  <2>2. CASE i = 1
    BY <1>1, <1>2, <2>1, <2>2
  <2>3. CASE i # 1
    <3>1. i - 1 \in DOMAIN prog' /\ (i - 1) + 1 = i
      BY <1>2, <1>3, <2>3
    <3>2. prog'[i - 1] = prog[i]
      <4>1. prog'[i - 1] = prog[(i - 1) + 1]
        BY <1>2, <3>1
      <4> QED
        BY <3>1, <4>1
    <3> QED
      BY <2>1, <3>1, <3>2 DEF PendingClear
  <2> QED
    BY <2>2, <2>3
<1> QED
  BY <1>5, <1>6, <1>7, <1>8, <1>9

LEMMA TransferAccess == ASSUME TypeInv, AddrInv, TransferInv, AccessStep PROVE TransferInv'
<1>1. PICK name :
        /\ Access(name) /\ (sup' = sup \/ (name = "clearSetup" /\ sup' = NoRequest))
        /\ ControlEffect(name) /\ KbdEffect(name)
        /\ UNCHANGED <<host, deviceState>> /\ resetFlag' = resetFlag
        /\ Assigning => changeAddressTo' = changeAddressTo
  BY AccessEffect
<1>2. /\ UNCHANGED <<hstage, hreq, hAddr, hCfg, hToggle, hgot, deviceState>>
      /\ InContact' = InContact /\ Changing' = Changing
      /\ IsRead(hreq)' = IsRead(hreq) /\ Unanswered(hreq)' = Unanswered(hreq)
      /\ Accepts(hreq)' = Accepts(hreq) /\ Unhalts(hreq)' = Unhalts(hreq)
  BY <1>1 DEF host, InContact, Changing, Assigning, IsRead, Unanswered, Accepts, Unhalts
<1>3. setupFlag' => setupFlag /\ sup' = sup
  BY <1>1 DEF setupFlag
<1>4. /\ WillStall' <=> WillStall
      /\ WillBeData1 => WillBeData1'
      /\ InContact /\ WillSend => WillSend'
      /\ WillAcceptStatus => WillAcceptStatus'
      /\ Unhandled => Unhandled'
  BY <1>1, WillKept
<1>5. /\ \A op : Pending(op)' => Pending(op)
      /\ \A op : Pending(op) /\ op # name => Pending(op)'
      /\ Pending(name) /\ (name # "event" => setupFlag)
  BY <1>1, AccessShape DEF AddrInv
<1>6. /\ Fitting' /\ Order' /\ (PendingClear' => PendingClear)
      /\ PendingClear => PendingClear' \/ (name = "ClearHalt" /\ Head(prog).ep = KbdIn)
      /\ name = "ClearHalt" /\ Head(prog).ep = KbdIn => PendingClear
  BY <1>1, <1>2, RestKept
<1>7. Contact' /\ Stages'
  <2>1. bytes'[CtrlIn] = bytes[CtrlIn]
    BY <1>1 DEF ControlEffect
  <2> QED
    BY <1>2, <1>3, <2>1 DEF TransferInv, Contact, Stages
<1>8. SameState'
  BY <1>2, <1>4 DEF TransferInv, SameState
<1>9. SameStall'
  BY <1>1 DEF TransferInv, SameStall, ControlEffect
<1>10. Verdict'
  BY <1>2, <1>4 DEF TransferInv, Verdict
<1>11. Answered'
  <2>1. hstage \in {"dataIn", "statusIn"} => InContact
    BY DEF TransferInv, Contact
  <2> QED
    BY <1>2, <1>4, <2>1 DEF TransferInv, Answered
<1>12. Taken'
  <2>1. hstage = "statusOut" => ~setupFlag
    BY DEF TransferInv, Contact
  <2>2. hstage = "statusOut" => name \notin {"stall", "unstall", "armOut"}
    BY <1>5, <2>1
  <2>3. hstage = "statusOut" =>
          armed'[CtrlOut] = armed[CtrlOut] /\ stall'[CtrlOut] = stall[CtrlOut]
    BY <1>1, <2>2 DEF ControlEffect
  <2> QED
    BY <1>2, <2>3 DEF TransferInv, Taken
<1>13. KbdToggle'
  <2>1. /\ hCfg = 1 => InContact
        /\ hCfg = 1 /\ ~Accepts(hreq) /\ ~Unhalts(hreq) => toggle[KbdIn] = hToggle
        /\ ~Unhandled /\ ((Accepts(hreq) /\ hreq.arg = 1) \/ Unhalts(hreq)) =>
             Pending("allData0") \/ PendingClear \/ toggle[KbdIn] = 0
        /\ InContact /\ Pending("allData0") => Accepts(hreq) /\ hreq.arg = 1
        /\ InContact /\ PendingClear => Unhalts(hreq)
    BY DEF TransferInv, Contact, KbdToggle
  <2>2. toggle'[KbdIn] = IF name = "allData0" \/ (name = "ClearHalt" /\ Head(prog).ep = KbdIn)
                           THEN 0 ELSE toggle[KbdIn]
    BY <1>1 DEF KbdEffect
  <2>3. hCfg = 1 /\ ~Accepts(hreq) /\ ~Unhalts(hreq) => toggle'[KbdIn] = hToggle
    BY <1>5, <1>6, <2>1, <2>2
  <2>4. ~Unhandled /\ ((Accepts(hreq) /\ hreq.arg = 1) \/ Unhalts(hreq)) =>
             Pending("allData0")' \/ PendingClear' \/ toggle'[KbdIn] = 0
    BY <1>5, <1>6, <2>1, <2>2
  <2> QED
    BY <1>2, <1>4, <1>5, <1>6, <2>1, <2>3, <2>4 DEF KbdToggle
<1>14. KbdReport'
  BY <1>1, <1>2, <1>4, <1>5 DEF TransferInv, KbdReport, KbdEffect
<1> QED
  BY <1>6, <1>7, <1>8, <1>9, <1>10, <1>11, <1>12, <1>13, <1>14 DEF TransferInv

-----------------------------------------------------------------------------
\* The rest of the handler.  Between programs nothing is pending.
LEMMA NonePending ==
    ASSUME \A i \in DOMAIN prog : prog[i].op = "event"
    PROVE  /\ \A op : op # "event" => ~Pending(op)
           /\ ~PendingClear
           /\ WillStall <=> stall[CtrlIn]
           /\ WillBeData1 <=> toggle[CtrlIn] = 1
           /\ WillSend <=> (armed[CtrlIn] /\ Fits(buf[CtrlIn]))
           /\ WillAcceptStatus <=> armed[CtrlOut]
           /\ Fitting /\ Order
<1>1. (\A op : op # "event" => ~Pending(op)) /\ ~PendingClear
  BY DEF Pending, PendingClear
<1>2. Fitting /\ Order
  BY DEF Fitting, Order
<1>3. WillStall <=> stall[CtrlIn]
  BY <1>1 DEF WillStall
<1>4. WillBeData1 <=> toggle[CtrlIn] = 1
  BY <1>1 DEF WillBeData1
<1>5. WillSend <=> (armed[CtrlIn] /\ Fits(buf[CtrlIn]))
  BY <1>1 DEF WillSend
<1>6. WillAcceptStatus <=> armed[CtrlOut]
  BY <1>1 DEF WillAcceptStatus
<1> QED
  BY <1>1, <1>2, <1>3, <1>4, <1>5, <1>6

LEMMA TransferEnterEvents ==
    ASSUME TypeInv, AddrInv, TransferInv, EnterEvents PROVE TransferInv'
<1>1. /\ prog = << >> /\ ~setupFlag /\ UNCHANGED <<software, controller, host>>
      /\ \A i \in DOMAIN prog' : prog'[i].op = "event"
  BY EventsProg DEF EnterEvents
<1>2. /\ UNCHANGED <<hstage, hreq, hAddr, hCfg, hToggle, hgot, deviceState, bytes>>
      /\ UNCHANGED <<armed, buf, toggle, stall, sup>>
      /\ InContact' = InContact /\ Changing' = Changing /\ setupFlag' = setupFlag
      /\ IsRead(hreq)' = IsRead(hreq) /\ Unanswered(hreq)' = Unanswered(hreq)
      /\ Accepts(hreq)' = Accepts(hreq) /\ Unhalts(hreq)' = Unhalts(hreq)
      /\ \A p : Fits(p)' = Fits(p)
  BY <1>1
     DEF software, controller, host, power, InContact, resetFlag, Changing, Assigning,
         setupFlag, IsRead, Unanswered, Accepts, Unhalts, Fits
<1>3. \A i \in DOMAIN prog : prog[i].op = "event"
  BY <1>1
<1>4. /\ \A op : op # "event" => ~Pending(op) /\ ~Pending(op)'
      /\ ~PendingClear /\ ~PendingClear'
  BY <1>1, <1>3 DEF Pending, PendingClear
<1>5. Fitting' /\ Order'
  BY <1>1 DEF Fitting, Order
<1>6. Unhandled' = Unhandled
  BY <1>1, <1>2 DEF Unhandled
<1>7. /\ WillStall' = WillStall /\ WillBeData1' = WillBeData1 /\ WillSend' = WillSend
      /\ WillAcceptStatus' = WillAcceptStatus
  BY <1>2, <1>4 DEF WillStall, WillBeData1, WillSend, WillAcceptStatus
<1>8. Contact' /\ Stages' /\ SameState' /\ SameStall'
  BY <1>2, <1>6 DEF TransferInv, Contact, Stages, SameState, SameStall
<1>9. Verdict' /\ Answered' /\ Taken'
  BY <1>2, <1>6, <1>7 DEF TransferInv, Verdict, Answered, Taken
<1>10. KbdToggle' /\ KbdReport'
  BY <1>2, <1>4, <1>6 DEF TransferInv, KbdToggle, KbdReport
<1> QED
  BY <1>5, <1>8, <1>9, <1>10 DEF TransferInv

\* The host asks for nothing: what is left to show.
LEMMA TransferAtRest ==
    ASSUME hstage' = "idle", hreq' = NoRequest, SameStall', Order', Fitting', Contact',
           InContact' => (deviceState' = "Default" <=> hAddr' = 0),
           InContact' => (deviceState' = "Configured" <=> hCfg' = 1),
           hCfg' = 1 => toggle'[KbdIn] = hToggle',
           hCfg' = 1 /\ armed'[KbdIn] => buf'[KbdIn].val = 1,
           InContact' => ~Pending("allData0")' /\ ~PendingClear'
    PROVE  TransferInv'
<1>1. ~Accepts(hreq)' /\ ~Unhalts(hreq)' /\ ~Changing'
  BY ZlpPacket DEF Accepts, Unhalts, Changing, Assigning
<1>2. Stages' /\ SameState' /\ Verdict' /\ Answered' /\ Taken'
  BY <1>1, ZlpPacket DEF Stages, SameState, Verdict, Answered, Taken
<1>3. KbdToggle' /\ KbdReport'
  BY <1>1 DEF KbdToggle, KbdReport
<1> QED
  BY <1>2, <1>3 DEF TransferInv

LEMMA TransferBus == ASSUME TypeInv, AddrInv, TransferInv, BusStep PROVE TransferInv'
<1>1. CASE HandleResume \/ HandleSuspend \/ HandleCable
  <2>1. resetFlag' = resetFlag
    BY <1>1 DEF HandleResume, HandleSuspend, HandleCable, EnterBus, resetFlag
  <2>2. /\ UNCHANGED <<prog, sup, host, deviceState, changeAddressTo, bytes>>
        /\ UNCHANGED <<armed, buf, toggle, stall>>
    BY <1>1 DEF HandleResume, HandleSuspend, HandleCable, software
  <2> QED
    BY <2>1, <2>2, TransferFrame
<1>2. CASE HandleReset
  <2>1. /\ prog = << >> /\ UNCHANGED <<prog, host, stall, sup>> /\ ~setupFlag /\ resetFlag
        /\ deviceState' = "Default"
        /\ bytes' = [ep \in Endpoints |-> no_bytes_left]
    BY <1>2 DEF HandleReset, EnterBus, resetFlag
  <2>2. ~InContact
    BY <2>1 DEF InContact
  <2>3. /\ hstage = "idle" /\ hreq = NoRequest /\ hCfg = 0 /\ hAddr \in {0, NoHost}
    BY <2>1, <2>2 DEF TransferInv, Contact, AddrInv, HostShape
  <2>4. UNCHANGED <<hstage, hreq, hCfg, hAddr>> /\ setupFlag' = setupFlag
    BY <2>1 DEF host, setupFlag
  <2>5. bytes'[CtrlIn] = no_bytes_left
    BY <2>1 DEF CtrlIn, Endpoints
  <2>6. Contact'
    BY <2>1, <2>3, <2>4, <2>5 DEF Contact
  <2>7. SameStall' /\ Order' /\ Fitting' /\ ~Pending("allData0")' /\ ~PendingClear'
    BY <2>1 DEF TransferInv, SameStall, Order, Fitting, Pending, PendingClear
  <2>8. InContact' => hAddr' = 0
    BY <2>3, <2>4 DEF InContact
  <2> QED
    BY <2>1, <2>3, <2>4, <2>6, <2>7, <2>8, TransferAtRest
<1> QED
  BY <1>1, <1>2 DEF BusStep

LEMMA TransferHandle == ASSUME TypeInv, AddrInv, TransferInv, Handle PROVE TransferInv'
BY TransferSetup, TransferEnterEvents, TransferBus, TransferAccess
   DEF Handle, BusStep, AccessStep

\* Timer 1: a report says whether the device was configured when it was built.
LEMMA TransferKeyboard ==
    ASSUME TypeInv, AddrInv, TransferInv, KeyboardReport PROVE TransferInv'
<1>0. EndpointType /\ KbdIn \in Endpoints /\ CtrlIn # KbdIn /\ CtrlOut # KbdIn
      /\ CtrlIn \in Endpoints /\ CtrlOut \in Endpoints
  BY TypeParts DEF CtrlIn, CtrlOut, KbdIn, Endpoints
<1> DEFINE p == Packet("kbd", IF deviceState = "Configured" THEN 1 ELSE 0)
<1>1. /\ prog = << >> /\ UNCHANGED <<software, prog, host, toggle, stall, sup, power>>
      /\ \/ armed' = [armed EXCEPT ![KbdIn] = TRUE] /\ buf' = [buf EXCEPT ![KbdIn] = p]
         \/ UNCHANGED <<armed, buf>>
  BY DEF KeyboardReport, InitiateSend
<1>2. p.val = IF deviceState = "Configured" THEN 1 ELSE 0
  BY DEF Packet
<1> HIDE DEF p
<1>3. /\ UNCHANGED <<hstage, hreq, hAddr, hCfg, hToggle, hgot, deviceState, bytes>>
      /\ InContact' = InContact /\ Changing' = Changing /\ setupFlag' = setupFlag
      /\ IsRead(hreq)' = IsRead(hreq) /\ Unanswered(hreq)' = Unanswered(hreq)
      /\ Accepts(hreq)' = Accepts(hreq) /\ Unhalts(hreq)' = Unhalts(hreq)
      /\ \A q : Fits(q)' = Fits(q)
  BY <1>1
     DEF software, host, power, InContact, resetFlag, Changing, Assigning, setupFlag,
         IsRead, Unanswered, Accepts, Unhalts, Fits
<1>4. /\ armed'[CtrlIn] = armed[CtrlIn] /\ buf'[CtrlIn] = buf[CtrlIn]
      /\ armed'[CtrlOut] = armed[CtrlOut]
      /\ buf'[KbdIn] = p \/ UNCHANGED <<armed, buf>>
  BY <1>0, <1>1 DEF EndpointType
<1>5. /\ Unhandled' = Unhandled /\ PendingClear' = PendingClear
      /\ \A op : Pending(op)' = Pending(op)
  BY <1>1, <1>3 DEF Unhandled, PendingClear, Pending
<1>6. /\ WillStall' = WillStall /\ WillBeData1' = WillBeData1 /\ WillSend' = WillSend
      /\ WillAcceptStatus' = WillAcceptStatus
  BY <1>1, <1>3, <1>4, <1>5 DEF WillStall, WillBeData1, WillSend, WillAcceptStatus
<1>7. Contact' /\ Stages' /\ SameState' /\ SameStall'
  BY <1>1, <1>3, <1>5 DEF TransferInv, Contact, Stages, SameState, SameStall
<1>8. Verdict' /\ Answered' /\ Taken'
  BY <1>1, <1>3, <1>4, <1>5, <1>6 DEF TransferInv, Verdict, Answered, Taken
<1>9. Fitting' /\ Order' /\ KbdToggle'
  BY <1>1, <1>3, <1>5 DEF TransferInv, Fitting, Order, KbdToggle
<1>10. KbdReport'
  <2>1. hCfg = 1 => InContact
    BY DEF TransferInv, Contact
  <2>2. hCfg = 1 /\ ~Accepts(hreq) => p.val = 1
    BY <1>2, <2>1 DEF TransferInv, SameState
  <2>3. Accepts(hreq) => InContact
    BY NoneAsked DEF TransferInv, Contact, AddrInv, HostShape
  <2>4. Accepts(hreq) /\ hreq.arg = 1 /\ ~Unhandled => p.val = 1
    BY <1>2, <2>3 DEF TransferInv, SameState
  <2> QED
    BY <1>3, <1>4, <1>5, <2>2, <2>4 DEF TransferInv, KbdReport
<1> QED
  BY <1>7, <1>8, <1>9, <1>10 DEF TransferInv

-----------------------------------------------------------------------------
\* The host.  A SETUP packet asks for what nothing has been done for.
LEMMA TransferHostSetup ==
    ASSUME TypeInv, AddrInv, TransferInv, NEW r \in Requests, HostSetup(r)
    PROVE  TransferInv'
<1>1. /\ hstage = "idle" /\ ~resetFlag /\ FADDR = hAddr /\ ~setupFlag
      /\ r.kind = "SetAddress" => Quiet
      /\ hstage' = IF IsRead(r) THEN "dataIn" ELSE "statusIn"
      /\ hreq' = r /\ sup' = r
      /\ UNCHANGED <<software, prog, hgot, hAddr, hCfg, hToggle>>
      /\ UNCHANGED <<armed, buf, toggle, stall, evt>> /\ resetFlag' = resetFlag
  BY DEF HostSetup, Reaches, DeviceUnchanged, power, resetFlag
<1>2. UNCHANGED <<deviceState, changeAddressTo, bytes>>
  BY <1>1 DEF software
<1>3. hreq = NoRequest /\ ~Accepts(hreq) /\ ~Unhalts(hreq) /\ ~Assigning
  BY <1>1, NoneAsked DEF AddrInv, HostShape, Assigning
<1>4. InContact /\ InContact'
  <2>1. hAddr # NoHost
    BY <1>1, TypeParts, AddressAssumption DEF EndpointType, NoHost
  <2> QED
    BY <1>1, <2>1 DEF InContact
<1>5. \A i \in DOMAIN prog' : prog'[i].op = "event"
  BY <1>1 DEF AddrInv, ProgShape
<1>6. /\ Unhandled' /\ ~PendingClear' /\ Fitting' /\ Order'
      /\ \A op : op # "event" => ~Pending(op)'
  <2>1. setupFlag'
    BY <1>1, RequestAssumption, ZlpPacket DEF setupFlag
  <2> QED
    BY <1>5, <2>1 DEF Unhandled, PendingClear, Pending, Fitting, Order
<1>7. ~Changing'
  <2>1. CASE r.kind = "SetAddress"
    <3>1. ~evt[CtrlIn]
      BY <1>1, <2>1 DEF Quiet, CtrlIn, Endpoints
    <3>2. changeAddressTo = dontChangeAddress
      BY <1>3, <3>1 DEF AddrInv, Remembered
    <3> QED
      BY <1>2, <3>2 DEF Changing
  <2>2. CASE r.kind # "SetAddress"
    BY <1>1, <2>2 DEF Changing, Assigning
  <2> QED
    BY <2>1, <2>2
<1>8. Contact' /\ Stages' /\ SameStall'
  <2>1. IsRead(hreq)' <=> IsRead(r)
    BY <1>1 DEF IsRead
  <2> QED
    BY <1>1, <1>2, <1>4, <2>1 DEF TransferInv, Contact, Stages, SameStall
<1>9. SameState'
  <2>1. /\ deviceState = "Default" <=> hAddr = 0
        /\ deviceState = "Configured" <=> hCfg = 1
    BY <1>3, <1>4 DEF TransferInv, SameState, Changing
  <2> QED
    BY <1>1, <1>2, <1>6, <1>7, <2>1 DEF SameState
<1>10. Verdict' /\ Answered' /\ Taken'
  BY <1>1, <1>6, <1>7 DEF Verdict, Answered, Taken
<1>11. KbdToggle' /\ KbdReport'
  BY <1>1, <1>3, <1>6 DEF TransferInv, KbdToggle, KbdReport
<1> QED
  BY <1>6, <1>8, <1>9, <1>10, <1>11 DEF TransferInv

\* A repeated one asks for it again; an answer that is ready stays so.
LEMMA TransferHostSetupAgain ==
    ASSUME TypeInv, AddrInv, TransferInv, HostSetupAgain PROVE TransferInv'
<1>1. /\ hstage \in {"dataIn", "statusIn"} /\ ~setupFlag /\ sup' = hreq
      /\ UNCHANGED <<software, prog, host, armed, buf, toggle, stall>>
      /\ resetFlag' = resetFlag
  BY DEF HostSetupAgain, DeviceUnchanged, power, resetFlag
<1>2. /\ UNCHANGED <<hstage, hreq, hAddr, hCfg, hToggle, hgot, deviceState, bytes>>
      /\ InContact' = InContact /\ Changing' = Changing
      /\ IsRead(hreq)' = IsRead(hreq) /\ Unanswered(hreq)' = Unanswered(hreq)
      /\ Accepts(hreq)' = Accepts(hreq) /\ Unhalts(hreq)' = Unhalts(hreq)
      /\ PendingClear' = PendingClear /\ (\A op : Pending(op)' = Pending(op))
      /\ \A p : Fits(p)' = Fits(p)
  BY <1>1
     DEF software, host, InContact, Changing, Assigning, IsRead, Unanswered, Accepts,
         Unhalts, PendingClear, Pending, Fits
<1>3. /\ WillStall' = WillStall /\ WillBeData1' = WillBeData1 /\ WillSend' = WillSend
      /\ WillAcceptStatus' = WillAcceptStatus
  BY <1>1, <1>2 DEF WillStall, WillBeData1, WillSend, WillAcceptStatus
<1>4. ~Unhandled
  BY <1>1 DEF Unhandled
<1>5. Unhandled' \/ ~setupFlag'
  <2>1. \A i \in DOMAIN prog' : prog'[i].op = "event"
    BY <1>1 DEF AddrInv, ProgShape
  <2> QED
    BY <2>1 DEF Unhandled
<1>6. Contact' /\ Stages' /\ SameState' /\ SameStall'
  BY <1>1, <1>2, <1>4 DEF TransferInv, Contact, Stages, SameState, SameStall
<1>7. Verdict' /\ Answered' /\ Taken'
  BY <1>1, <1>2, <1>3, <1>4 DEF TransferInv, Verdict, Answered, Taken
<1>8. Fitting' /\ Order'
  BY <1>1, <1>2 DEF TransferInv, Fitting, Order
<1>9. KbdToggle' /\ KbdReport'
  BY <1>1, <1>2, <1>4 DEF TransferInv, KbdToggle, KbdReport
<1> QED
  BY <1>6, <1>7, <1>8, <1>9 DEF TransferInv

\* What holds when a token of the control pipe gets through.
LEMMA TokenTime ==
    ASSUME TypeInv, AddrInv, TransferInv, SetupBlocks, ControlOpen
    PROVE  /\ ~setupFlag /\ ~Unhandled /\ InContact
           /\ \A op : op # "event" => ~Pending(op)
           /\ ~PendingClear
           /\ WillStall <=> stall[CtrlIn]
           /\ WillBeData1 <=> toggle[CtrlIn] = 1
           /\ WillSend <=> (armed[CtrlIn] /\ Fits(buf[CtrlIn]))
           /\ WillAcceptStatus <=> armed[CtrlOut]
           /\ \A i \in DOMAIN prog : prog[i].op = "event"
<1>1. ~setupFlag /\ ~resetFlag /\ FADDR = hAddr
  BY NoSetupRuns
<1>2. \A i \in DOMAIN prog : prog[i].op = "event"
  BY <1>1 DEF AddrInv, ProgShape
<1>3. hAddr # NoHost
  BY <1>1, TypeParts, AddressAssumption DEF EndpointType, NoHost
<1> QED
  BY <1>1, <1>2, <1>3, NonePending DEF Unhandled, InContact

\* A refusal leaves both sides where they were.
LEMMA TransferHostInStalled ==
    ASSUME TypeInv, AddrInv, TransferInv, SetupBlocks, HostInStalled
    PROVE  TransferInv'
<1>1. /\ hstage \in {"dataIn", "statusIn"} /\ stall[CtrlIn]
      /\ hstage' = "idle" /\ hreq' = NoRequest
      /\ UNCHANGED <<software, prog, hAddr, hCfg, hToggle>>
      /\ UNCHANGED <<armed, buf, toggle, stall, sup>> /\ resetFlag' = resetFlag
  BY DEF HostInStalled, EndTransfer, DeviceUnchanged, controller, power, resetFlag
<1>2. /\ ~setupFlag /\ ~Unhandled /\ InContact /\ WillStall /\ ~PendingClear
      /\ ~Pending("allData0") /\ ~Pending("unstall")
      /\ \A i \in DOMAIN prog : prog[i].op = "event"
  BY <1>1, TokenTime DEF HostInStalled
<1>3. /\ UNCHANGED <<deviceState, changeAddressTo, bytes>> /\ InContact' = InContact
      /\ setupFlag' = setupFlag
  BY <1>1 DEF software, InContact, setupFlag
<1>4. ~Accepts(hreq) /\ ~Unhalts(hreq)
  <2>1. hreq.kind \in {"SetConfiguration", "ClearHalt"} => hstage = "statusIn"
    BY <1>1 DEF TransferInv, Stages, IsRead, ReadKinds
  <2>2. hreq.kind = "SetConfiguration" => ~Accepts(hreq)
    BY <1>2, <2>1 DEF TransferInv, Verdict
  <2>3. hreq.kind = "ClearHalt" => deviceState # "Configured" \/ hreq.arg \notin {2, 3}
    BY <1>2, <2>1 DEF TransferInv, Verdict
  <2> QED
    BY <2>2, <2>3 DEF Accepts, Unhalts, KbdIn
<1>5. ~Changing
  BY <1>1, <1>2 DEF Changing, AddrInv, Accepted
<1>6. /\ deviceState = "Default" <=> hAddr = 0
      /\ deviceState = "Configured" <=> hCfg = 1
  BY <1>2, <1>4, <1>5 DEF TransferInv, SameState
<1>7. /\ hCfg = 1 => toggle[KbdIn] = hToggle
      /\ hCfg = 1 /\ armed[KbdIn] => buf[KbdIn].val = 1
  BY <1>4 DEF TransferInv, KbdToggle, KbdReport
<1>8. Contact' /\ SameStall'
  BY <1>1, <1>2, <1>3 DEF TransferInv, Contact, SameStall
<1>9. Order' /\ Fitting' /\ ~Pending("allData0")' /\ ~PendingClear'
  BY <1>1, <1>2 DEF Order, Fitting, Pending, PendingClear
<1> QED
  BY <1>1, <1>3, <1>6, <1>7, <1>8, <1>9, TransferAtRest

\* What the status stage of a write tells the host is what the device did.
LEMMA AcknowledgedState ==
    ASSUME TypeInv, AddrInv, TransferInv, SetupBlocks, ControlOpen,
           hstage = "statusIn", ~stall[CtrlIn], Acknowledged(hreq)
    PROVE  /\ deviceState = "Default" <=> hAddr' = 0
           /\ deviceState = "Configured" <=> hCfg' = 1
           /\ hCfg' \in {0, 1} /\ hAddr' # NoHost
           /\ hCfg' = 1 => toggle[KbdIn] = hToggle'
           /\ hCfg' = 1 /\ armed[KbdIn] => buf[KbdIn].val = 1
<1>1. /\ ~Unhandled /\ InContact /\ ~WillStall /\ ~PendingClear /\ ~setupFlag
      /\ \A op : op # "event" => ~Pending(op)
  BY TokenTime
<1>2. /\ hreq.kind = "SetConfiguration" => Accepts(hreq)
      /\ hreq.kind = "ClearHalt" => deviceState = "Configured"
  BY <1>1 DEF TransferInv, Verdict
<1>3. /\ hAddr' = IF hreq.kind = "SetAddress" THEN hreq.arg ELSE hAddr
      /\ hCfg' = IF hreq.kind = "SetConfiguration" THEN hreq.arg
                  ELSE IF hreq.kind = "SetAddress" THEN 0 ELSE hCfg
      /\ hToggle' = IF \/ hreq.kind = "SetConfiguration"
                       \/ hreq.kind = "ClearHalt" /\ hreq.arg = KbdIn
                    THEN 0 ELSE hToggle
  BY RequestShape DEF Acknowledged
<1>4. hAddr # NoHost /\ hCfg \in {0, 1} /\ hreq.arg \in 0 .. 255
  BY <1>1, RequestShape DEF InContact, TransferInv, Contact
<1>5. hreq.arg # NoHost
  BY <1>4 DEF NoHost
<1>6. CASE hreq.kind = "SetAddress"
  <2>1. Assigning /\ ~Accepts(hreq)
    BY <1>6 DEF Assigning, Accepts
  <2>2. CASE Changing
    <3>1. deviceState # "Configured" /\ (deviceState = "Default" <=> hreq.arg = 0)
      BY <1>1, <2>1, <2>2 DEF AddrInv, Accepted, Changing, TransferInv, SameState
    <3> QED
      BY <1>3, <1>5, <1>6, <3>1
  <2>3. CASE ~Changing
    <3>1. Vacuous
      BY <1>1, <2>1, <2>3 DEF AddrInv, Accepted, Changing, WillStall
    <3> QED
      BY <1>3, <1>5, <1>6, <3>1 DEF Vacuous
  <2> QED
    BY <2>2, <2>3
<1>7. CASE hreq.kind = "SetConfiguration"
  <2>1. ~Changing /\ Accepts(hreq) /\ ~Unhalts(hreq)
    BY <1>2, <1>7 DEF Changing, Assigning, Unhalts
  <2>2. /\ deviceState = "Default" <=> hAddr = 0
        /\ deviceState = "Configured" <=> hreq.arg = 1
    BY <1>1, <2>1 DEF TransferInv, SameState
  <2>3. hreq.arg \in {0, 1}
    BY <1>4, <2>1 DEF Accepts
  <2>4. hreq.arg = 1 => toggle[KbdIn] = 0 /\ (armed[KbdIn] => buf[KbdIn].val = 1)
    BY <1>1, <2>1 DEF TransferInv, KbdToggle, KbdReport
  <2> QED
    BY <1>3, <1>4, <1>7, <2>2, <2>3, <2>4
<1>8. CASE hreq.kind \notin {"SetAddress", "SetConfiguration"}
  <2>1. ~Changing /\ ~Accepts(hreq)
    BY <1>8 DEF Changing, Assigning, Accepts
  <2>2. /\ deviceState = "Default" <=> hAddr = 0
        /\ deviceState = "Configured" <=> hCfg = 1
    BY <1>1, <2>1 DEF TransferInv, SameState
  <2>3. hCfg = 1 /\ armed[KbdIn] => buf[KbdIn].val = 1
    BY <2>1 DEF TransferInv, KbdReport
  <2>4. hCfg = 1 => toggle[KbdIn] = hToggle'
    <3>1. CASE Unhalts(hreq)
      <4>1. toggle[KbdIn] = 0
        BY <1>1, <3>1 DEF TransferInv, KbdToggle
      <4> QED
        BY <1>3, <3>1, <4>1 DEF Unhalts
    <3>2. CASE ~Unhalts(hreq)
      <4>1. hToggle' = hToggle
        BY <1>2, <1>3, <1>8, <3>2 DEF Unhalts
      <4> QED
        BY <2>1, <3>2, <4>1 DEF TransferInv, KbdToggle
    <3> QED
      BY <3>1, <3>2
  <2> QED
    BY <1>3, <1>4, <1>8, <2>2, <2>3, <2>4
<1> QED
  BY <1>6, <1>7, <1>8

LEMMA TransferHostIn ==
    ASSUME TypeInv, AddrInv, TransferInv, SetupBlocks, HostIn
    PROVE  TransferInv'
<1>0. EndpointType /\ CtrlIn \in Endpoints /\ CtrlOut \in Endpoints /\ KbdIn \in Endpoints
      /\ CtrlIn # CtrlOut /\ CtrlIn # KbdIn
  BY TypeParts DEF CtrlIn, CtrlOut, KbdIn, Endpoints
<1>1. /\ hstage \in {"dataIn", "statusIn"} /\ ControlOpen
      /\ ~stall[CtrlIn] /\ armed[CtrlIn]
      /\ UNCHANGED <<software, prog, stall, sup>> /\ resetFlag' = resetFlag
  BY DEF HostIn, DeviceUnchanged, power, resetFlag
<1>2. /\ armed'[CtrlOut] = armed[CtrlOut] /\ armed'[KbdIn] = armed[KbdIn]
      /\ buf'[KbdIn] = buf[KbdIn] /\ toggle'[KbdIn] = toggle[KbdIn]
  BY <1>0 DEF HostIn, Disarm, EndpointType
<1>3. /\ ~setupFlag /\ ~Unhandled /\ InContact /\ ~WillStall /\ ~PendingClear
      /\ \A op : op # "event" => ~Pending(op)
      /\ WillBeData1 <=> toggle[CtrlIn] = 1
      /\ WillSend <=> (armed[CtrlIn] /\ Fits(buf[CtrlIn]))
      /\ WillAcceptStatus <=> armed[CtrlOut]
      /\ \A i \in DOMAIN prog : prog[i].op = "event"
  BY <1>1, TokenTime
<1>4. /\ UNCHANGED <<deviceState, changeAddressTo, bytes>> /\ setupFlag' = setupFlag
      /\ Unhandled' = Unhandled /\ PendingClear' = PendingClear
      /\ \A op : Pending(op)' = Pending(op)
  BY <1>1 DEF software, setupFlag, Unhandled, PendingClear, Pending
<1>5. SameStall' /\ WillStall' = WillStall
  BY <1>1, <1>4 DEF TransferInv, SameStall, WillStall
<1>6. Fitting' /\ Order'
  BY <1>1, <1>3 DEF Fitting, Order
<1>7. toggle[CtrlIn] \in {0, 1}
  BY <1>0 DEF EndpointType
<1>8. ~Unanswered(hreq) =>
        /\ toggle[CtrlIn] = 1 /\ Fits(buf[CtrlIn])
        /\ hstage = "dataIn" => armed[CtrlOut]
  BY <1>1, <1>3 DEF TransferInv, Answered
<1>9. CASE toggle[CtrlIn] = 0
  <2>1. UNCHANGED host
    BY <1>9 DEF HostIn
  <2>2. /\ UNCHANGED <<hstage, hreq, hAddr, hCfg, hToggle, hgot>>
        /\ InContact' = InContact /\ Changing' = Changing
        /\ IsRead(hreq)' = IsRead(hreq) /\ Unanswered(hreq)' = Unanswered(hreq)
        /\ Accepts(hreq)' = Accepts(hreq) /\ Unhalts(hreq)' = Unhalts(hreq)
    BY <1>1, <1>4, <2>1
       DEF host, InContact, Changing, Assigning, IsRead, Unanswered, Accepts, Unhalts
  <2>3. Contact' /\ Stages' /\ SameState'
    BY <1>3, <1>4, <2>2 DEF TransferInv, Contact, Stages, SameState
  <2>4. Verdict' /\ Taken'
    BY <1>1, <1>4, <1>5, <2>2 DEF TransferInv, Verdict, Taken
  <2>5. Answered'
    BY <1>8, <1>9, <2>2 DEF Answered
  <2>6. KbdToggle' /\ KbdReport'
    BY <1>2, <1>4, <2>2 DEF TransferInv, KbdToggle, KbdReport
  <2> QED
    BY <1>5, <1>6, <2>3, <2>4, <2>5, <2>6 DEF TransferInv
<1>10. CASE toggle[CtrlIn] = 1 /\ hstage = "dataIn"
  <2>1. /\ hstage' = "statusOut" /\ hgot' = buf[CtrlIn]
        /\ UNCHANGED <<hreq, hAddr, hCfg, hToggle>>
    BY <1>10 DEF HostIn
  <2>2. /\ InContact' = InContact /\ Changing' = Changing
        /\ IsRead(hreq)' = IsRead(hreq) /\ Unanswered(hreq)' = Unanswered(hreq)
        /\ Accepts(hreq)' = Accepts(hreq) /\ Unhalts(hreq)' = Unhalts(hreq)
    BY <1>1, <1>4, <2>1
       DEF InContact, Changing, Assigning, IsRead, Unanswered, Accepts, Unhalts
  <2>3. Contact' /\ Stages' /\ SameState'
    BY <1>3, <1>4, <1>10, <2>1, <2>2 DEF TransferInv, Contact, Stages, SameState
  <2>4. Verdict' /\ Answered'
    BY <2>1 DEF Verdict, Answered
  <2>5. Taken'
    <3>1. ~Unanswered(hreq) =>
            /\ armed[CtrlOut] /\ buf[CtrlIn].kind = hreq.kind
            /\ hreq.kind = "GetConfiguration" => buf[CtrlIn].val = hCfg
      BY <1>8, <1>10 DEF Fits
    <3>2. ~stall[CtrlOut]
      BY <1>1 DEF TransferInv, SameStall
    <3> QED
      BY <1>1, <1>2, <2>1, <2>2, <3>1, <3>2 DEF Taken
  <2>6. KbdToggle' /\ KbdReport'
    BY <1>2, <1>4, <2>1, <2>2 DEF TransferInv, KbdToggle, KbdReport
  <2> QED
    BY <1>5, <1>6, <2>3, <2>4, <2>5, <2>6 DEF TransferInv
<1>11. CASE toggle[CtrlIn] = 1 /\ hstage = "statusIn"
  <2>1. hstage' = "idle" /\ hreq' = NoRequest /\ Acknowledged(hreq)
    BY <1>11 DEF HostIn, EndTransfer
  <2>2. /\ deviceState = "Default" <=> hAddr' = 0
        /\ deviceState = "Configured" <=> hCfg' = 1
        /\ hCfg' \in {0, 1} /\ hAddr' # NoHost
        /\ hCfg' = 1 => toggle[KbdIn] = hToggle'
        /\ hCfg' = 1 /\ armed[KbdIn] => buf[KbdIn].val = 1
    BY <1>1, <1>11, <2>1, AcknowledgedState
  <2>3. InContact'
    BY <1>1, <1>3, <2>2 DEF InContact
  <2>4. Contact'
    BY <1>3, <1>4, <2>1, <2>2, <2>3 DEF TransferInv, Contact
  <2> QED
    BY <1>2, <1>3, <1>4, <1>5, <1>6, <2>1, <2>2, <2>4, TransferAtRest
<1> QED
  BY <1>1, <1>7, <1>9, <1>10, <1>11

\* The end of a transfer that set nothing.
LEMMA TransferReadEnds ==
    ASSUME TypeInv, AddrInv, TransferInv, hstage # "idle",
           hreq.kind \notin {"SetAddress", "SetConfiguration", "ClearHalt"},
           hstage' = "idle", hreq' = NoRequest, ~setupFlag,
           \A i \in DOMAIN prog : prog[i].op = "event",
           UNCHANGED <<prog, sup, stall, deviceState, bytes, hAddr, hCfg, hToggle>>,
           toggle'[KbdIn] = toggle[KbdIn],
           armed'[KbdIn] = armed[KbdIn], buf'[KbdIn] = buf[KbdIn], resetFlag' = resetFlag
    PROVE  TransferInv'
<1>1. InContact /\ InContact' = InContact /\ setupFlag' = setupFlag
  BY DEF TransferInv, Contact, InContact, setupFlag
<1>2. ~Changing /\ ~Accepts(hreq) /\ ~Unhalts(hreq)
  BY DEF Changing, Assigning, Accepts, Unhalts
<1>3. /\ deviceState = "Default" <=> hAddr = 0
      /\ deviceState = "Configured" <=> hCfg = 1
  BY <1>1, <1>2 DEF TransferInv, SameState
<1>4. Contact' /\ SameStall'
  BY <1>1 DEF TransferInv, Contact, SameStall
<1>5. /\ hCfg = 1 => toggle[KbdIn] = hToggle
      /\ hCfg = 1 /\ armed[KbdIn] => buf[KbdIn].val = 1
  BY <1>2 DEF TransferInv, KbdToggle, KbdReport
<1>6. Order' /\ Fitting' /\ ~Pending("allData0")' /\ ~PendingClear'
  BY DEF Order, Fitting, Pending, PendingClear
<1> QED
  BY <1>3, <1>4, <1>5, <1>6, TransferAtRest

LEMMA TransferHostOut ==
    ASSUME TypeInv, AddrInv, TransferInv, SetupBlocks, HostOut
    PROVE  TransferInv'
<1>0. EndpointType /\ KbdIn \in Endpoints /\ CtrlOut \in Endpoints /\ CtrlOut # KbdIn
  BY TypeParts DEF CtrlOut, KbdIn, Endpoints
<1>1. /\ hstage = "statusOut" /\ ControlOpen /\ hstage' = "idle" /\ hreq' = NoRequest
      /\ UNCHANGED <<software, prog, hAddr, hCfg, hToggle>>
      /\ UNCHANGED <<buf, toggle, stall, sup>> /\ resetFlag' = resetFlag
  BY DEF HostOut, EndTransfer, DeviceUnchanged, power, resetFlag
<1>2. ~setupFlag /\ (\A i \in DOMAIN prog : prog[i].op = "event")
  BY <1>1, TokenTime
<1>3. hreq.kind \notin {"SetAddress", "SetConfiguration", "ClearHalt"}
  BY <1>1 DEF TransferInv, Stages, IsRead, ReadKinds
<1>4. armed'[KbdIn] = armed[KbdIn]
  BY <1>0 DEF HostOut, EndpointType
<1>5. UNCHANGED <<deviceState, bytes>>
  BY <1>1 DEF software
<1> QED
  BY <1>1, <1>2, <1>3, <1>4, <1>5, TransferReadEnds

LEMMA TransferHostGivesUp ==
    ASSUME TypeInv, AddrInv, TransferInv, ~AbandonsAddress, HostGivesUp
    PROVE  TransferInv'
<1>1. /\ hstage # "idle" /\ ~setupFlag /\ prog = << >>
      /\ hstage' = "idle" /\ hreq' = NoRequest
      /\ UNCHANGED <<software, prog, hAddr, hCfg, hToggle>>
      /\ UNCHANGED <<armed, buf, toggle, stall, sup>> /\ resetFlag' = resetFlag
      /\ hreq.kind # "SetAddress"
  BY DEF HostGivesUp, MayAbandon, Quiet, EndTransfer, DeviceUnchanged, controller, power,
         resetFlag
<1>2. hreq.kind \notin {"SetAddress", "SetConfiguration", "ClearHalt"}
  BY <1>1 DEF HostGivesUp, IsRead, ReadKinds
<1>3. UNCHANGED <<deviceState, bytes>>
  BY <1>1 DEF software
<1>4. \A i \in DOMAIN prog : prog[i].op = "event"
  BY <1>1
<1> QED
  BY <1>1, <1>2, <1>3, <1>4, TransferReadEnds

\* A reset, or the end of contact: the host has set nothing yet.
LEMMA TransferHostForgets ==
    ASSUME TypeInv, AddrInv, TransferInv, HostReset \/ PullCable
    PROVE  TransferInv'
<1>1. /\ hstage' = "idle" /\ hreq' = NoRequest /\ hCfg' = 0
      /\ UNCHANGED <<software, prog, armed, buf, toggle, stall, sup>>
  BY DEF HostReset, PullCable, ForgetDevice, EndTransfer, DeviceUnchanged
<1>2. ~InContact'
  BY DEF HostReset, PullCable, InContact, resetFlag
<1>3. Contact'
  BY <1>1, <1>2 DEF Contact
<1>4. SameStall' /\ Order' /\ Fitting'
  BY <1>1, <1>2 DEF TransferInv, SameStall, Order, Fitting
<1> QED
  BY <1>1, <1>2, <1>3, <1>4, TransferAtRest

\* A report is taken: both sides go on to the other toggle.
LEMMA TransferHostPolls ==
    ASSUME TypeInv, AddrInv, TransferInv, HostPollsKeyboard
    PROVE  TransferInv'
<1>0. EndpointType /\ CtrlIn \in Endpoints /\ CtrlOut \in Endpoints /\ KbdIn \in Endpoints
      /\ CtrlIn # KbdIn /\ CtrlOut # KbdIn
  BY TypeParts DEF CtrlIn, CtrlOut, KbdIn, Endpoints
<1>1. /\ hCfg = 1 /\ ~Reconfiguring
      /\ UNCHANGED <<software, prog, hstage, hreq, hgot, hAddr, hCfg, stall, sup>>
      /\ toggle' = [toggle EXCEPT ![KbdIn] = 1 - @]
      /\ armed' = [armed EXCEPT ![KbdIn] = FALSE] /\ buf' = [buf EXCEPT ![KbdIn] = Zlp]
      /\ hToggle' = IF toggle[KbdIn] = hToggle THEN 1 - hToggle ELSE hToggle
      /\ resetFlag' = resetFlag
  BY DEF HostPollsKeyboard, DeviceUnchanged, Disarm, power, resetFlag
<1>2. /\ toggle'[CtrlIn] = toggle[CtrlIn] /\ toggle'[KbdIn] = 1 - toggle[KbdIn]
      /\ armed'[CtrlIn] = armed[CtrlIn] /\ armed'[CtrlOut] = armed[CtrlOut]
      /\ buf'[CtrlIn] = buf[CtrlIn] /\ ~armed'[KbdIn]
  BY <1>0, <1>1 DEF EndpointType
<1>3. /\ UNCHANGED <<deviceState, changeAddressTo, bytes>>
      /\ InContact' = InContact /\ Changing' = Changing /\ setupFlag' = setupFlag
      /\ IsRead(hreq)' = IsRead(hreq) /\ Unanswered(hreq)' = Unanswered(hreq)
      /\ Accepts(hreq)' = Accepts(hreq) /\ Unhalts(hreq)' = Unhalts(hreq)
      /\ Unhandled' = Unhandled /\ PendingClear' = PendingClear
      /\ (\A op : Pending(op)' = Pending(op)) /\ (\A p : Fits(p)' = Fits(p))
  BY <1>1
     DEF software, InContact, Changing, Assigning, setupFlag, IsRead, Unanswered, Accepts,
         Unhalts, Unhandled, PendingClear, Pending, Fits
<1>4. /\ WillStall' = WillStall /\ WillBeData1' = WillBeData1 /\ WillSend' = WillSend
      /\ WillAcceptStatus' = WillAcceptStatus
  BY <1>1, <1>2, <1>3 DEF WillStall, WillBeData1, WillSend, WillAcceptStatus
<1>5. Contact' /\ Stages' /\ SameState' /\ SameStall'
  BY <1>1, <1>3 DEF TransferInv, Contact, Stages, SameState, SameStall
<1>6. Verdict' /\ Answered' /\ Taken'
  BY <1>1, <1>2, <1>3, <1>4 DEF TransferInv, Verdict, Answered, Taken
<1>7. Fitting' /\ Order'
  BY <1>1, <1>3 DEF TransferInv, Fitting, Order
<1>8. ~Accepts(hreq) /\ ~Unhalts(hreq)
  <2>1. hstage = "idle" => hreq = NoRequest
    BY DEF AddrInv, HostShape
  <2> QED
    BY <1>1, <2>1, ZlpPacket DEF Reconfiguring, Accepts, Unhalts
<1>9. KbdToggle'
  <2>1. toggle[KbdIn] = hToggle /\ toggle'[KbdIn] = hToggle'
    BY <1>1, <1>2, <1>8 DEF TransferInv, KbdToggle
  <2> QED
    BY <1>1, <1>3, <1>8, <2>1 DEF TransferInv, KbdToggle
<1>10. KbdReport'
  BY <1>2 DEF KbdReport
<1> QED
  BY <1>5, <1>6, <1>7, <1>9, <1>10 DEF TransferInv

LEMMA TransferHost ==
    ASSUME TypeInv, AddrInv, TransferInv, SetupBlocks, ~AbandonsAddress, Host
    PROVE  TransferInv'
<1>1. CASE BusIdle \/ HostResume \/ PlugCable
  <2>1. resetFlag' = resetFlag
    BY <1>1 DEF BusIdle, HostResume, PlugCable, resetFlag
  <2>2. /\ UNCHANGED <<prog, sup, host, deviceState, changeAddressTo, bytes>>
        /\ UNCHANGED <<armed, buf, toggle, stall>>
    BY <1>1 DEF BusIdle, HostResume, PlugCable, DeviceUnchanged, software
  <2> QED
    BY <2>1, <2>2, TransferFrame
<1> QED
  BY <1>1, TransferHostSetup, TransferHostSetupAgain, TransferHostInStalled, TransferHostIn,
     TransferHostOut, TransferHostPolls, TransferHostGivesUp, TransferHostForgets DEF Host

LEMMA TransferStep ==
    ASSUME TypeInv, AddrInv, TransferInv, SetupBlocks, ~AbandonsAddress, [Next]_vars
    PROVE  TransferInv'
<1>1. CASE UNCHANGED vars
  <2>1. /\ UNCHANGED <<prog, sup, host, deviceState, changeAddressTo, bytes>>
        /\ UNCHANGED <<armed, buf, toggle, stall>> /\ resetFlag' = resetFlag
    BY <1>1 DEF vars, software, controller, power, resetFlag
  <2> QED
    BY <2>1, TransferFrame
<1> QED
  BY <1>1, TransferHandle, TransferKeyboard, TransferHost DEF Next

\* All three invariants together.
THEOREM TransfersKept ==
    ASSUME SetupBlocks, ~AbandonsAddress
    PROVE  Spec => [](TypeInv /\ AddrInv /\ TransferInv)
<1>1. TypeInv /\ AddrInv /\ [Next]_vars => AddrInv'
  BY AddrStep
<1>2. TypeInv /\ AddrInv /\ TransferInv /\ [Next]_vars => TransferInv'
  BY TransferStep
<1> QED
  BY InitType, TypeStep, AddrInit, TransferInit, <1>1, <1>2, PTL DEF Spec
-----------------------------------------------------------------------------
(***************************************************************************)
(* What the handler promises, when there is nothing left for it to do.     *)
(***************************************************************************)
LEMMA AtRest ==
    ASSUME AddrInv, TransferInv, Quiet
    PROVE  /\ ~resetFlag /\ ~Unhandled /\ ~evt[CtrlIn]
           /\ hAddr # NoHost => InContact
           /\ WillStall <=> stall[CtrlIn]
           /\ WillBeData1 <=> toggle[CtrlIn] = 1
           /\ WillSend <=> (armed[CtrlIn] /\ Fits(buf[CtrlIn]))
<1>1. prog = << >> /\ ~setupFlag /\ ~busFlag /\ ~evt[CtrlIn]
  BY DEF Quiet, CtrlIn, Endpoints
<1>2. \A i \in DOMAIN prog : prog[i].op = "event"
  BY <1>1
<1>3. /\ WillStall <=> stall[CtrlIn]
      /\ WillBeData1 <=> toggle[CtrlIn] = 1
      /\ WillSend <=> (armed[CtrlIn] /\ Fits(buf[CtrlIn]))
  BY <1>2, NonePending
<1> QED
  BY <1>1, <1>3 DEF resetFlag, Unhandled, InContact

\* A host without a transfer asks for nothing.
LEMMA IdleAsksNothing ==
    ASSUME AddrInv, hstage = "idle"
    PROVE  ~Accepts(hreq) /\ ~Unhalts(hreq) /\ ~Assigning
<1>1. hreq = NoRequest
  BY DEF AddrInv, HostShape
<1> QED
  BY <1>1, NoneAsked DEF Assigning

\* A host that does not reconfigure the device may read the endpoint.
LEMMA PollsInPeace ==
    ASSUME AddrInv, ~Reconfiguring PROVE ~Accepts(hreq) /\ ~Unhalts(hreq)
<1>1. CASE hstage = "idle"
  BY <1>1, IdleAsksNothing
<1>2. CASE hstage # "idle"
  BY <1>2 DEF Reconfiguring, Accepts, Unhalts, Request
<1> QED
  BY <1>1, <1>2

\* usb.h:434-451 and 505-525, SET_ADDRESS and SET_CONFIGURATION, and the reset
\* at usb.h:762: for any requests and addresses, whatever was repeated, refused
\* or abandoned, deviceState is the one the requests the host saw acknowledged
\* lead to, and no address waits for a status stage to come.
THEOREM StatesAgree ==
    ASSUME SetupBlocks, ~AbandonsAddress
    PROVE  Spec => []StateAgreement
<1>1. ASSUME AddrInv, TransferInv PROVE StateAgreement
  <2> SUFFICES ASSUME Quiet, hstage = "idle", hAddr # NoHost
               PROVE  /\ deviceState = "Configured" <=> hCfg = 1
                      /\ deviceState = "Default" <=> hAddr = 0
                      /\ changeAddressTo = dontChangeAddress
    BY DEF StateAgreement
  <2>1. InContact /\ ~resetFlag /\ ~evt[CtrlIn]
    BY <1>1, AtRest
  <2>2. ~Accepts(hreq) /\ ~Assigning /\ ~Changing
    BY <1>1, IdleAsksNothing DEF Changing
  <2>3. /\ deviceState = "Configured" <=> hCfg = 1
        /\ deviceState = "Default" <=> hAddr = 0
    BY <1>1, <2>1, <2>2 DEF TransferInv, SameState
  <2>4. changeAddressTo = dontChangeAddress
    BY <1>1, <2>1, <2>2 DEF AddrInv, Remembered
  <2> QED
    BY <2>3, <2>4
<1> QED
  BY <1>1, TransfersKept, PTL

\* usb.h:389-736, the SETUP branch from the unstalling at its start to the
\* clearing of the flag at its end: a request that was handled leaves the pipe stalled, or
\* its own reply armed as DATA1 and the status stage prepared, and nothing that
\* was armed before for another transfer is what the host gets.
THEOREM PipeIsReady ==
    ASSUME SetupBlocks, ~AbandonsAddress
    PROVE  Spec => []PipeReady
<1>1. ASSUME AddrInv, TransferInv PROVE PipeReady
  <2> SUFFICES ASSUME Quiet, ~Unanswered(hreq)
               PROVE  /\ hstage \in {"dataIn", "statusIn"} =>
                           \/ stall[CtrlIn]
                           \/ /\ armed[CtrlIn] /\ toggle[CtrlIn] = 1
                              /\ buf[CtrlIn].kind =
                                   IF hstage = "dataIn" THEN hreq.kind ELSE "zlp"
                      /\ hstage = "statusOut" => armed[CtrlOut] /\ ~stall[CtrlOut]
    BY DEF PipeReady
  <2>1. hstage = "statusOut" => armed[CtrlOut] /\ ~stall[CtrlOut]
    BY <1>1 DEF TransferInv, Taken
  <2>2. CASE hstage \in {"dataIn", "statusIn"}
    <3>1. WillStall \/ (WillBeData1 /\ WillSend)
      <4>1. ~Unhandled
        BY <1>1, AtRest
      <4>2. Answered
        BY <1>1 DEF TransferInv
      <4> QED
        BY <2>2, <4>1, <4>2 DEF Answered
    <3>2. stall[CtrlIn] \/ (toggle[CtrlIn] = 1 /\ armed[CtrlIn] /\ Fits(buf[CtrlIn]))
      BY <1>1, <3>1, AtRest
    <3> QED
      BY <2>1, <3>2 DEF Fits
  <2> QED
    BY <2>1, <2>2
<1> QED
  BY <1>1, TransfersKept, PTL

\* The data the host takes is the reply to the request it made, and
\* GET_CONFIGURATION (usb.h:487-505) reports the configuration the host has set,
\* with any requests before and between.
THEOREM AnswersAreRight ==
    ASSUME SetupBlocks, ~AbandonsAddress
    PROVE  Spec => []RightAnswer
<1>1. TransferInv => RightAnswer
  BY DEF TransferInv, Taken, RightAnswer
<1> QED
  BY <1>1, TransfersKept, PTL

\* USB_configured_setup_ep and CLEAR_FEATURE(ENDPOINT_HALT): the device sends
\* each report with the toggle the host expects, whatever order SETUP packets,
\* lost acknowledgements, polls and resets come in.
THEOREM KeyboardStaysInSync ==
    ASSUME SetupBlocks, ~AbandonsAddress
    PROVE  Spec => []KeyboardInSync
<1>1. AddrInv /\ TransferInv => KeyboardInSync
  BY PollsInPeace DEF TransferInv, KbdToggle, KeyboardInSync
<1> QED
  BY <1>1, TransfersKept, PTL

\* USB_configured_setup_ep: timer 1 is not stopped by a reset and goes on
\* arming reports; none it armed before SET_CONFIGURATION outlives it.
THEOREM ReportsAreFresh ==
    ASSUME SetupBlocks, ~AbandonsAddress
    PROVE  Spec => []NoStaleReport
<1>1. AddrInv /\ TransferInv => NoStaleReport
  BY PollsInPeace DEF TransferInv, KbdReport, NoStaleReport
<1> QED
  BY <1>1, TransfersKept, PTL
=============================================================================
