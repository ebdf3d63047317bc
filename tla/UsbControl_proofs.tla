--------------------------- MODULE UsbControl_proofs ---------------------------
(***************************************************************************)
(* Proofs about UsbControl, for any set of requests and addresses: types,  *)
(* that the device comes back listening from whatever happens on the bus,  *)
(* and that it answers to the address the host has set.                    *)
(***************************************************************************)
EXTENDS UsbControl, SequenceTheorems, TLAPS

\* The accesses between that which clears the stalls and that which clears the
\* flag.
BodyOps ==
    {Op(name) : name \in {"dataIn1", "armOut", "stall", "allData0", "stopKbd"}}
    \union {[op |-> "send", packet |-> p] : p \in Packets}
    \union {[op |-> kind, ep |-> ep] : kind \in {"SetHalt", "ClearHalt"}, ep \in {2, 3}}

Ops ==
    BodyOps \union {Op("unstall"), Op("clearSetup")}
            \union {[op |-> "event", ep |-> ep] : ep \in Endpoints}

TypeInv == TypeOK /\ prog \in Seq(Ops)

-----------------------------------------------------------------------------
\* What the accesses are made of.
LEMMA OpFields ==
    ASSUME NEW x \in Ops
    PROVE  /\ x.op = "send" => x.packet \in Packets
           /\ x.op = "event" => x.ep \in Endpoints
           /\ x.op \in {"SetHalt", "ClearHalt"} => x.ep \in {2, 3}
BY DEF Ops, BodyOps, Op

LEMMA BodyFields ==
    ASSUME NEW x \in BodyOps
    PROVE  x \in Ops /\ x.op \notin {"unstall", "clearSetup", "event"}
BY DEF Ops, BodyOps, Op

\* The program of a handler.
LEMMA HandlerShape ==
    ASSUME NEW body \in Seq(BodyOps)
    PROVE  /\ Handler(body) \in Seq(Ops)
           /\ Len(Handler(body)) = Len(body) + 2
           /\ Handler(body)[1].op = "unstall"
           /\ Handler(body)[Len(body) + 2].op = "clearSetup"
           /\ \A i \in 1 .. Len(body) : Handler(body)[i + 1] = body[i]
<1> DEFINE first == << Op("unstall") >>
           last == << Op("clearSetup") >>
<1>1. body \in Seq(Ops)
  BY BodyFields, SeqMonotonic DEF Ops
<1>2. /\ first \in Seq(Ops) /\ Len(first) = 1 /\ first[1] = Op("unstall")
      /\ last \in Seq(Ops) /\ Len(last) = 1 /\ last[1] = Op("clearSetup")
  BY DEF Ops
<1> HIDE DEF first, last
<1>3. Len(body) \in Nat
  BY <1>1, LenProperties
<1>4. /\ first \o body \in Seq(Ops) /\ Len(first \o body) = Len(body) + 1
      /\ (first \o body)[1] = Op("unstall")
      /\ \A i \in 1 .. Len(body) : (first \o body)[i + 1] = body[i]
  <2>1. first \o body \in Seq(Ops) /\ Len(first \o body) = Len(first) + Len(body)
    BY <1>1, <1>2, ConcatProperties
  <2>2. \A i \in 1 .. Len(first) + Len(body) :
          (first \o body)[i] = IF i <= Len(first) THEN first[i] ELSE body[i - Len(first)]
    BY <1>1, <1>2, ConcatProperties
  <2> QED
    BY <1>2, <1>3, <2>1, <2>2
<1>5. /\ Handler(body) = (first \o body) \o last
      /\ Handler(body) \in Seq(Ops) /\ Len(Handler(body)) = Len(body) + 2
      /\ \A i \in 1 .. Len(body) + 1 : Handler(body)[i] = (first \o body)[i]
      /\ Handler(body)[Len(body) + 2] = Op("clearSetup")
  <2>1. Handler(body) = (first \o body) \o last
    BY DEF Handler, first, last
  <2>2. /\ (first \o body) \o last \in Seq(Ops)
        /\ Len((first \o body) \o last) = Len(first \o body) + Len(last)
    BY <1>2, <1>4, ConcatProperties
  <2>3. \A i \in 1 .. Len(first \o body) + Len(last) :
          ((first \o body) \o last)[i] =
             IF i <= Len(first \o body) THEN (first \o body)[i]
                                        ELSE last[i - Len(first \o body)]
    BY <1>2, <1>4, ConcatProperties
  <2> QED
    BY <1>2, <1>3, <1>4, <2>1, <2>2, <2>3
<1> QED
  BY <1>3, <1>4, <1>5 DEF Op

\* The parts handlers are put together from.
LEMMA Parts ==
    /\ << >> \in Seq(BodyOps) /\ Len(<< >>) = 0
    /\ SetStall \in Seq(BodyOps) /\ Len(SetStall) = 1 /\ SetStall[1].op = "stall"
    /\ ReceiveZero \in Seq(BodyOps) /\ Len(ReceiveZero) = 2
    /\ SendZero \in Seq(BodyOps) /\ Len(SendZero) = 2
    /\ SendZero[1].op = "dataIn1" /\ SendZero[2].op = "send"
    /\ ConfigureEndpoints \in Seq(BodyOps) /\ Len(ConfigureEndpoints) = 2
<1>1. /\ Op("stall") \in BodyOps /\ Op("dataIn1") \in BodyOps /\ Op("armOut") \in BodyOps
      /\ Op("allData0") \in BodyOps /\ Op("stopKbd") \in BodyOps
  BY DEF BodyOps
<1>2. Zlp \in Packets
  BY DEF Zlp, Packet, Packets
<1>3. [op |-> "send", packet |-> Zlp] \in BodyOps
  BY <1>2 DEF BodyOps
<1>4. << >> \in Seq(BodyOps) /\ Len(<< >>) = 0
  BY EmptySeq
<1>5. SetStall \in Seq(BodyOps) /\ Len(SetStall) = 1 /\ SetStall[1].op = "stall"
  BY <1>1 DEF SetStall, Op
<1>6. ReceiveZero \in Seq(BodyOps) /\ Len(ReceiveZero) = 2
  BY <1>1 DEF ReceiveZero
<1>7. ConfigureEndpoints \in Seq(BodyOps) /\ Len(ConfigureEndpoints) = 2
  BY <1>1 DEF ConfigureEndpoints
<1>9. /\ SendZero \in Seq(BodyOps) /\ Len(SendZero) = 2
      /\ SendZero[1].op = "dataIn1" /\ SendZero[2].op = "send"
  <2> DEFINE s == << Op("dataIn1") >>
             t == << [op |-> "send", packet |-> Zlp] >>
  <2>1. /\ s \in Seq(BodyOps) /\ Len(s) = 1 /\ s[1] = Op("dataIn1")
        /\ t \in Seq(BodyOps) /\ Len(t) = 1 /\ t[1] = [op |-> "send", packet |-> Zlp]
    BY <1>1, <1>3
  <2>2. SendZero = s \o t
    BY DEF SendZero, Send
  <2> HIDE DEF s, t
  <2>3. s \o t \in Seq(BodyOps) /\ Len(s \o t) = Len(s) + Len(t)
    BY <2>1, ConcatProperties
  <2>4. \A i \in 1 .. Len(s) + Len(t) :
          SendZero[i] = IF i <= Len(s) THEN s[i] ELSE t[i - Len(s)]
    BY <2>1, <2>2, ConcatProperties, Zenon
  <2>5. SendZero[1] = Op("dataIn1") /\ SendZero[2] = [op |-> "send", packet |-> Zlp]
    <3>1. Len(s) = 1 /\ Len(t) = 1 /\ 1 \in 1 .. Len(s) + Len(t) /\ 2 \in 1 .. Len(s) + Len(t)
      BY <2>1
    <3> QED
      BY <2>1, <2>4, <3>1
  <2> QED
    BY <2>1, <2>2, <2>3, <2>5 DEF Op
<1> QED
  BY <1>4, <1>5, <1>6, <1>7, <1>9

LEMMA SendPart ==
    ASSUME NEW p \in Packets
    PROVE  Send(p) \in Seq(BodyOps) /\ Len(Send(p)) = 1
<1>1. [op |-> "send", packet |-> p] \in BodyOps
  BY DEF BodyOps
<1> QED
  BY <1>1 DEF Send

LEMMA ConcatBody ==
    ASSUME NEW s \in Seq(BodyOps), NEW t \in Seq(BodyOps)
    PROVE  s \o t \in Seq(BodyOps) /\ Len(s \o t) = Len(s) + Len(t)
BY ConcatProperties

\* The same for parts short enough.
LEMMA JoinBody ==
    ASSUME NEW s \in Seq(BodyOps), NEW t \in Seq(BodyOps), Len(s) + Len(t) <= 4
    PROVE  s \o t \in Seq(BodyOps) /\ Len(s \o t) <= 4
<1>1. s \o t \in Seq(BodyOps) /\ Len(s \o t) = Len(s) + Len(t)
  BY ConcatBody
<1> QED
  BY <1>1

\* A reply.
LEMMA ReplyPart ==
    ASSUME TypeOK, NEW r, r.kind \in ReadKinds
    PROVE  ReadReply(r) \in Seq(BodyOps) /\ Len(ReadReply(r)) = 3
<1>1. ReplyValue(r) \in 0 .. 255
  BY DEF ReplyValue, TypeOK
<1>2. Packet(r.kind, ReplyValue(r)) \in Packets
  BY <1>1 DEF Packet, Packets
<1>3. /\ Send(Packet(r.kind, ReplyValue(r))) \in Seq(BodyOps)
      /\ Len(Send(Packet(r.kind, ReplyValue(r)))) = 1
  BY <1>2, SendPart
<1>4. ReceiveZero \in Seq(BodyOps) /\ Len(ReceiveZero) = 2
  BY Parts
<1>5. /\ ReadReply(r) \in Seq(BodyOps)
      /\ Len(ReadReply(r)) = Len(ReceiveZero) + Len(Send(Packet(r.kind, ReplyValue(r))))
  BY <1>3, <1>4, ConcatBody, Zenon DEF ReadReply
<1> QED
  BY <1>3, <1>4, <1>5

\* One access is done.
LEMMA TailShape ==
    ASSUME prog \in Seq(Ops), prog # << >>, prog' = Tail(prog)
    PROVE  /\ Head(prog) \in Ops /\ Head(prog) = prog[1]
           /\ prog' \in Seq(Ops) /\ Len(prog') = Len(prog) - 1
           /\ DOMAIN prog = 1 .. Len(prog) /\ DOMAIN prog' = 1 .. Len(prog) - 1
           /\ \A i \in DOMAIN prog' : i + 1 \in DOMAIN prog /\ prog'[i] = prog[i + 1]
<1>1. Head(prog) \in Ops /\ prog' \in Seq(Ops) /\ Len(prog') = Len(prog) - 1
  BY HeadTailProperties
<1>2. \A i \in 1 .. Len(prog') : prog'[i] = prog[i + 1]
  BY HeadTailProperties
<1>3. Len(prog) \in Nat /\ DOMAIN prog = 1 .. Len(prog) /\ DOMAIN prog' = 1 .. Len(prog')
  BY <1>1, LenProperties
<1>4. Head(prog) = prog[1]
  OBVIOUS
<1>5. Len(prog') = Len(prog) - 1 /\ Len(prog') \in Nat
  BY <1>1, LenProperties
<1> QED
  BY <1>1, <1>2, <1>3, <1>4, <1>5

-----------------------------------------------------------------------------
LEMMA InitType == Init => TypeInv
<1> SUFFICES ASSUME Init PROVE TypeInv
  OBVIOUS
<1>1. prog \in Seq(Ops) /\ Len(prog) = 0
  BY EmptySeq DEF Init
<1>2. Zlp \in Packets
  BY DEF Zlp, Packet, Packets
<1>3. /\ deviceState \in {"Default", "Address", "Configured"}
      /\ changeAddressTo \in Addresses \union {0, dontChangeAddress}
      /\ bytes \in [Endpoints -> {no_bytes_left, 0}]
      /\ hidProtocol \in {0, 1} /\ timer1 \in BOOLEAN
  BY DEF Init
<1>7. idleRate \in 0 .. 255
  BY DEF Init
<1>4. /\ FADDR \in Addresses \union {0}
      /\ armed \in [Endpoints -> BOOLEAN]
      /\ buf \in [Endpoints -> Packets]
      /\ toggle \in [Endpoints -> {0, 1}]
      /\ stall \in [Endpoints -> BOOLEAN]
      /\ evt \in [Endpoints -> BOOLEAN]
  BY <1>2 DEF Init
<1>5. /\ busFlag \in BOOLEAN /\ bus \in {"none", "reset", "suspend", "resume"}
      /\ fldetFlag \in BOOLEAN /\ plugged \in BOOLEAN
      /\ phy \in BOOLEAN /\ ctl \in BOOLEAN
  BY DEF Init
<1>6. /\ sup \in Requests \union {NoRequest} /\ hreq \in Requests \union {NoRequest}
      /\ hstage \in {"idle", "dataIn", "statusIn", "statusOut"}
      /\ hAddr \in Addresses \union {0, NoHost} /\ hCfg \in 0 .. 255
      /\ hToggle \in {0, 1} /\ hProtocol \in -1 .. 255
      /\ hgot \in Packets
  BY <1>2 DEF Init
<1> QED
  BY <1>1, <1>3, <1>4, <1>5, <1>6, <1>7 DEF TypeInv, TypeOK

\* The SETUP branch.
LEMMA AnswerType ==
    ASSUME TypeInv, NEW body \in Seq(BodyOps), Len(body) <= 4, Answer(body),
           deviceState' \in {"Default", "Address", "Configured"},
           changeAddressTo' \in Addresses \union {0, dontChangeAddress},
           bytes' = bytes,
           hidProtocol' \in {0, 1}, idleRate' \in 0 .. 255, timer1' \in BOOLEAN
    PROVE  TypeInv'
<1>1. prog' \in Seq(Ops) /\ Len(prog') \in 0 .. 6
  <2>1. prog' \in Seq(Ops) /\ Len(prog') = Len(body) + 2 /\ Len(body) \in Nat
    BY HandlerShape, LenProperties DEF Answer
  <2> QED
    BY <2>1
<1>2. UNCHANGED <<controller, host>>
  BY DEF Answer
<1> QED
  BY <1>1, <1>2 DEF TypeInv, TypeOK, controller, host, power

SetupStep(r) ==
    \/ ReadRequest(r) \/ GetReport(r) \/ UnknownDescriptor(r)
    \/ GetStatusEndpoint(r) \/ SetAddress(r) \/ SetConfiguration(r)
    \/ EndpointHalt(r) \/ SetProtocol(r) \/ SetIdle(r) \/ RemoteWakeup(r)
    \/ RefusedRequest(r) \/ UnansweredRequest(r)

\* What each handler leaves for the controller.
LEMMA SetupBody ==
    ASSUME TypeInv, NEW r \in Requests, SetupStep(r)
    PROVE  \E body \in Seq(BodyOps) : Len(body) <= 4 /\ Answer(body)
<1>p. /\ << >> \in Seq(BodyOps) /\ Len(<< >>) <= 4
      /\ SetStall \in Seq(BodyOps) /\ Len(SetStall) <= 4
      /\ SendZero \in Seq(BodyOps) /\ Len(SendZero) <= 4
  BY Parts
<1>3. CASE ReadRequest(r)
  <2>1. r.kind \in ReadKinds
    BY <1>3 DEF ReadRequest, ReadKinds
  <2>2. ReadReply(r) \in Seq(BodyOps) /\ Len(ReadReply(r)) = 3
    BY <2>1, ReplyPart, Zenon DEF TypeInv
  <2>3. ReadReply(r) \in Seq(BodyOps) /\ Len(ReadReply(r)) <= 4
    BY <2>2
  <2>4. Answer(ReadReply(r))
    BY <1>3 DEF ReadRequest
  <2> QED
    BY <2>3, <2>4
<1>4. CASE GetReport(r)
  <2> DEFINE reply == Send(Packet(r.kind, 0))
             body == reply \o ReceiveZero
  <2>1. Packet(r.kind, 0) \in Packets
    BY <1>4 DEF GetReport, Packet, Packets, ReadKinds
  <2>2. reply \in Seq(BodyOps) /\ Len(reply) = 1 /\ ReceiveZero \in Seq(BodyOps)
    BY <2>1, Parts, SendPart, Zenon
  <2>3. Answer(body) \/ Answer(SetStall)
    BY <1>4 DEF GetReport
  <2> HIDE DEF reply
  <2>4. Len(ReceiveZero) = 2
    BY Parts, Zenon
  <2>5. Len(reply) + Len(ReceiveZero) <= 4
    BY <2>2, <2>4
  <2>6. body \in Seq(BodyOps) /\ Len(body) <= 4
    BY <2>2, <2>5, JoinBody, Zenon
  <2> HIDE DEF body
  <2> QED
    BY <1>p, <2>3, <2>6
<1>5. CASE UnknownDescriptor(r)
  <2> DEFINE body == ReceiveZero \o SetStall
  <2>1. /\ ReceiveZero \in Seq(BodyOps) /\ SetStall \in Seq(BodyOps)
        /\ Len(ReceiveZero) + Len(SetStall) <= 4
    BY Parts
  <2>2. body \in Seq(BodyOps) /\ Len(body) <= 4
    BY <2>1, JoinBody, Zenon
  <2>3. Answer(body)
    BY <1>5 DEF UnknownDescriptor
  <2> HIDE DEF body
  <2> QED
    BY <2>2, <2>3
<1>6. CASE GetStatusEndpoint(r)
  <2> DEFINE stalled == SetStall \o ReadReply(r)
             plain == << >> \o ReadReply(r)
  <2>1. r.kind \in ReadKinds
    BY <1>6 DEF GetStatusEndpoint, ReadKinds
  <2>2. ReadReply(r) \in Seq(BodyOps) /\ Len(ReadReply(r)) = 3
    BY <2>1, ReplyPart, Zenon DEF TypeInv
  <2>3. /\ stalled \in Seq(BodyOps) /\ Len(stalled) <= 4
        /\ plain \in Seq(BodyOps) /\ Len(plain) <= 4
    <3>1. /\ SetStall \in Seq(BodyOps) /\ Len(SetStall) + Len(ReadReply(r)) <= 4
          /\ << >> \in Seq(BodyOps) /\ Len(<< >>) + Len(ReadReply(r)) <= 4
      BY <2>2, Parts
    <3> QED
      BY <2>2, <3>1, JoinBody, Zenon
  <2>4. Answer(stalled) \/ Answer(plain)
    BY <1>6 DEF GetStatusEndpoint
  <2> HIDE DEF stalled, plain
  <2> QED
    BY <2>3, <2>4
<1>7. CASE SetAddress(r)
  <2>1. Answer(SetStall) \/ Answer(SendZero) \/ Answer(<< >>)
    BY <1>7 DEF SetAddress
  <2> QED
    BY <1>p, <2>1
<1>8. CASE SetConfiguration(r)
  <2> DEFINE body == ConfigureEndpoints \o SendZero
  <2>1. /\ ConfigureEndpoints \in Seq(BodyOps) /\ SendZero \in Seq(BodyOps)
        /\ Len(ConfigureEndpoints) + Len(SendZero) <= 4
    BY Parts
  <2>2. body \in Seq(BodyOps) /\ Len(body) <= 4
    BY <2>1, JoinBody, Zenon
  <2>3. Answer(SetStall) \/ Answer(SendZero) \/ Answer(body)
    BY <1>8 DEF SetConfiguration
  <2> HIDE DEF body
  <2> QED
    BY <1>p, <2>2, <2>3
<1>9. CASE EndpointHalt(r)
  <2> DEFINE halt == << [op |-> r.kind, ep |-> r.arg] >>
             done == halt \o SendZero
             both == SetStall \o SendZero
  <2>1. r.arg \in {2, 3} => halt \in Seq(BodyOps) /\ Len(halt) = 1
    <3>1. r.arg \in {2, 3} => [op |-> r.kind, ep |-> r.arg] \in BodyOps
      BY <1>9 DEF EndpointHalt, BodyOps
    <3> QED
      BY <3>1
  <2>2. Answer(SetStall) \/ Answer(both) \/ (r.arg \in {2, 3} /\ Answer(done))
    <3>1. CASE deviceState # "Configured"
      BY <1>9, <3>1 DEF EndpointHalt
    <3>2. CASE deviceState = "Configured" /\ r.arg \in {2, 3}
      BY <1>9, <3>2 DEF EndpointHalt
    <3>3. CASE deviceState = "Configured" /\ r.arg \notin {2, 3}
      BY <1>9, <3>3 DEF EndpointHalt
    <3> QED
      BY <3>1, <3>2, <3>3
  <2> HIDE DEF halt
  <2>3. /\ SetStall \in Seq(BodyOps) /\ Len(SetStall) = 1
        /\ SendZero \in Seq(BodyOps) /\ Len(SendZero) = 2
    BY Parts, Zenon
  <2>4. /\ r.arg \in {2, 3} => Len(halt) + Len(SendZero) <= 4
        /\ Len(SetStall) + Len(SendZero) <= 4
    <3>1. CASE r.arg \in {2, 3}
      <4>1. Len(halt) = 1
        BY <2>1, <3>1
      <4> QED
        BY <2>3, <4>1
    <3>2. CASE r.arg \notin {2, 3}
      BY <2>3, <3>2
    <3> QED
      BY <3>1, <3>2
  <2>5. /\ r.arg \in {2, 3} => done \in Seq(BodyOps) /\ Len(done) <= 4
        /\ both \in Seq(BodyOps) /\ Len(both) <= 4
    BY <2>1, <2>3, <2>4, JoinBody, Zenon
  <2> HIDE DEF done, both
  <2> QED
    BY <1>p, <2>2, <2>5
<1>10. CASE SetProtocol(r) \/ SetIdle(r) \/ RemoteWakeup(r) \/ RefusedRequest(r)
            \/ UnansweredRequest(r)
  <2>1. Answer(SendZero) \/ Answer(SetStall) \/ Answer(<< >>)
    BY <1>10
       DEF SetProtocol, SetIdle, RemoteWakeup, RefusedRequest, UnansweredRequest
  <2> QED
    BY <1>p, <2>1
<1> QED
  BY <1>3, <1>4, <1>5, <1>6, <1>7, <1>8, <1>9, <1>10 DEF SetupStep

\* What it does to the variables, whichever it is.
LEMMA SetupSoftware ==
    ASSUME TypeInv, NEW r \in Requests, SetupStep(r)
    PROVE  /\ EnterSetup(r)
           /\ deviceState' \in {"Default", "Address", "Configured"}
           /\ changeAddressTo' \in Addresses \union {0, dontChangeAddress}
           /\ bytes' = bytes
           /\ hidProtocol' \in {0, 1} /\ idleRate' \in 0 .. 255 /\ timer1' \in BOOLEAN
           /\ r.kind # "SetAddress" =>
                /\ changeAddressTo' = changeAddressTo
                /\ deviceState' = deviceState \/ deviceState' # "Default"
           /\ r.kind = "SetAddress" => SetAddress(r)
<1>1. r.arg \in 0 .. 255 /\ (r.kind = "SetAddress" => r.arg \in Addresses \union {0})
  BY RequestAssumption
<1>2. /\ deviceState \in {"Default", "Address", "Configured"}
      /\ changeAddressTo \in Addresses \union {0, dontChangeAddress}
      /\ hidProtocol \in {0, 1} /\ idleRate \in 0 .. 255 /\ timer1 \in BOOLEAN
  BY DEF TypeInv, TypeOK
<1>3. CASE SetAddress(r)
  <2>1. r.kind = "SetAddress" /\ r.arg \in Addresses \union {0}
    BY <1>1, <1>3 DEF SetAddress
  <2> QED
    BY <1>2, <1>3, <2>1 DEF SetAddress
<1>4. CASE SetConfiguration(r)
  BY <1>2, <1>4 DEF SetConfiguration
<1>6. CASE SetProtocol(r)
  BY <1>2, <1>6 DEF SetProtocol
<1>7. CASE SetIdle(r)
  BY <1>1, <1>2, <1>7 DEF SetIdle
<1>5. CASE \/ ReadRequest(r) \/ GetReport(r) \/ UnknownDescriptor(r)
           \/ GetStatusEndpoint(r) \/ EndpointHalt(r) \/ RemoteWakeup(r)
           \/ RefusedRequest(r) \/ UnansweredRequest(r)
  <2>1. EnterSetup(r) /\ UNCHANGED software /\ r.kind # "SetAddress"
    BY <1>5
       DEF ReadRequest, GetReport, UnknownDescriptor, GetStatusEndpoint, EndpointHalt,
           RemoteWakeup, RefusedRequest, UnansweredRequest
  <2> QED
    BY <1>2, <2>1 DEF software
<1> QED
  BY <1>3, <1>4, <1>5, <1>6, <1>7 DEF SetupStep

LEMMA SetupType == ASSUME TypeInv, HandleSetup PROVE TypeInv'
<1>1. PICK r \in Requests : SetupStep(r)
  BY DEF HandleSetup, SetupStep
<1>2. PICK body \in Seq(BodyOps) : Len(body) <= 4 /\ Answer(body)
  BY <1>1, SetupBody
<1> QED
  BY <1>1, <1>2, SetupSoftware, AnswerType

\* The types of the other steps, in four parts.
SoftwareType ==
    /\ deviceState \in {"Default", "Address", "Configured"}
    /\ changeAddressTo \in Addresses \union {0, dontChangeAddress}
    /\ bytes \in [Endpoints -> {no_bytes_left, 0}]
    /\ hidProtocol \in {0, 1} /\ idleRate \in 0 .. 255 /\ timer1 \in BOOLEAN

EndpointType ==
    /\ FADDR \in Addresses \union {0}
    /\ armed \in [Endpoints -> BOOLEAN] /\ buf \in [Endpoints -> Packets]
    /\ toggle \in [Endpoints -> {0, 1}]
    /\ stall \in [Endpoints -> BOOLEAN] /\ evt \in [Endpoints -> BOOLEAN]
    /\ sup \in Requests \union {NoRequest}

PowerType ==
    /\ busFlag \in BOOLEAN /\ bus \in {"none", "reset", "suspend", "resume"}
    /\ fldetFlag \in BOOLEAN /\ plugged \in BOOLEAN
    /\ phy \in BOOLEAN /\ ctl \in BOOLEAN

DriverType ==
    /\ hstage \in {"idle", "dataIn", "statusIn", "statusOut"}
    /\ hreq \in Requests \union {NoRequest}
    /\ hAddr \in Addresses \union {0, NoHost} /\ hCfg \in 0 .. 255
    /\ hToggle \in {0, 1} /\ hProtocol \in -1 .. 255
    /\ hgot \in Packets

ProgType == prog \in Seq(Ops) /\ Len(prog) \in 0 .. 6

LEMMA TypeParts ==
    TypeInv <=> SoftwareType /\ EndpointType /\ PowerType /\ DriverType /\ ProgType
BY DEF TypeInv, TypeOK, SoftwareType, EndpointType, PowerType, DriverType, ProgType

LEMMA TypePartsNext ==
    TypeInv' <=>
        SoftwareType' /\ EndpointType' /\ PowerType' /\ DriverType' /\ ProgType'
BY DEF TypeInv, TypeOK, SoftwareType, EndpointType, PowerType, DriverType, ProgType

LEMMA Unchanged ==
    ASSUME TypeInv
    PROVE  /\ UNCHANGED software => SoftwareType'
           /\ UNCHANGED <<FADDR, armed, buf, toggle, stall, evt, sup>> => EndpointType'
           /\ UNCHANGED power => PowerType'
           /\ UNCHANGED host => DriverType'
           /\ UNCHANGED prog => ProgType'
<1>1. SoftwareType /\ EndpointType /\ PowerType /\ DriverType /\ ProgType
  BY TypeParts
<1>2. UNCHANGED software => SoftwareType'
  BY <1>1 DEF SoftwareType, software
<1>3. UNCHANGED <<FADDR, armed, buf, toggle, stall, evt, sup>> => EndpointType'
  BY <1>1 DEF EndpointType
<1>4. UNCHANGED power => PowerType'
  BY <1>1 DEF PowerType, power
<1>5. UNCHANGED host => DriverType'
  BY <1>1 DEF DriverType, host
<1>6. UNCHANGED prog => ProgType'
  BY <1>1 DEF ProgType
<1> QED
  BY <1>2, <1>3, <1>4, <1>5, <1>6

\* The register accesses.
LEMMA AccessProg ==
    ASSUME TypeInv, NEW name, Access(name)
    PROVE  ProgType' /\ Head(prog) \in Ops /\ Head(prog).op = name
<1>1. prog \in Seq(Ops) /\ prog # << >> /\ prog' = Tail(prog) /\ Head(prog).op = name
  BY DEF TypeInv, Access
<1>2. /\ Head(prog) \in Ops /\ prog' \in Seq(Ops)
      /\ Len(prog') = Len(prog) - 1 /\ Len(prog') \in Nat
  BY <1>1, TailShape, LenProperties
<1>3. Len(prog) \in 0 .. 6
  BY DEF TypeInv, TypeOK
<1>4. ProgType'
  <2>1. Len(prog') \in 0 .. 6
    BY <1>2, <1>3
  <2> QED
    BY <1>2, <2>1 DEF ProgType
<1> QED
  BY <1>1, <1>2, <1>4

AccessStep ==
    \/ Unstall \/ StallControl \/ Data1 \/ ArmOut \/ SendControl \/ ResetToggles
    \/ StopKeyboard \/ SetHalt \/ ClearHalt \/ ClearSetup \/ Event

LEMMA ZlpPacket == Zlp \in Packets /\ NoRequest.kind = "none" /\ NoRequest.arg = 0
BY DEF Zlp, Packet, Packets, NoRequest, Request

LEMMA AccessType == ASSUME TypeInv, AccessStep PROVE TypeInv'
<1>0. SoftwareType /\ EndpointType
  BY TypeParts
<1>1. ProgType' /\ Head(prog) \in Ops
  BY AccessProg
     DEF AccessStep, Unstall, StallControl, Data1, ArmOut, SendControl, ResetToggles,
         StopKeyboard, SetHalt, ClearHalt, ClearSetup, Event
<1>2. UNCHANGED host /\ UNCHANGED power
  BY DEF AccessStep, Unstall, StallControl, Data1, ArmOut, SendControl, ResetToggles,
         StopKeyboard, SetHalt, ClearHalt, ClearSetup, Event
<1>3. SoftwareType'
  <2>1. CASE UNCHANGED software
    BY <2>1, Unchanged
  <2>2. CASE ArmOut
    BY <1>0, <2>2 DEF ArmOut, SoftwareType
  <2>3. CASE Event
    <3>1. changeAddressTo' \in Addresses \union {0, dontChangeAddress}
      BY <1>0, <2>3 DEF Event, TakeAddress, SoftwareType
    <3>2. bytes' \in [Endpoints -> {no_bytes_left, 0}]
      BY <1>0, <2>3 DEF Event, SoftwareType
    <3> QED
      BY <1>0, <2>3, <3>1, <3>2 DEF Event, SoftwareType
  <2> QED
    BY <2>1, <2>2, <2>3
       DEF AccessStep, Unstall, StallControl, Data1, SendControl, ResetToggles,
           StopKeyboard, SetHalt, ClearHalt, ClearSetup
<1>4. EndpointType'
  <2>1. CASE Unstall \/ StallControl \/ SetHalt
    BY <1>0, <2>1 DEF Unstall, StallControl, SetHalt, EndpointType
  <2>2. CASE Data1 \/ ResetToggles
    BY <1>0, <2>2 DEF Data1, ResetToggles, EndpointType
  <2>3. CASE ArmOut
    BY <1>0, <2>3 DEF ArmOut, EndpointType
  <2>4. CASE SendControl
    <3>1. Head(prog).packet \in Packets
      BY <1>1, <2>4, OpFields DEF SendControl, Access
    <3>2. armed' \in [Endpoints -> BOOLEAN] /\ buf' \in [Endpoints -> Packets]
      BY <1>0, <2>4, <3>1 DEF SendControl, InitiateSend, EndpointType
    <3> QED
      BY <1>0, <2>4, <3>2 DEF SendControl, EndpointType
  <2>5. CASE StopKeyboard
    BY <1>0, <2>5, ZlpPacket DEF StopKeyboard, Disarm, EndpointType
  <2>6. CASE ClearHalt
    BY <1>0, <2>6 DEF ClearHalt, EndpointType
  <2>7. CASE ClearSetup
    BY <1>0, <2>7 DEF ClearSetup, EndpointType
  <2>8. CASE Event
    <3>1. FADDR' \in Addresses \union {0}
      BY <1>0, <2>8 DEF Event, TakeAddress, SoftwareType, EndpointType
    <3> QED
      BY <1>0, <2>8, <3>1 DEF Event, EndpointType
  <2> QED
    BY <2>1, <2>2, <2>3, <2>4, <2>5, <2>6, <2>7, <2>8 DEF AccessStep
<1> QED
  BY <1>1, <1>2, <1>3, <1>4, Unchanged, TypePartsNext

\* The rest of the handler, and timer 1.
LEMMA EventsProg ==
    ASSUME EnterEvents
    PROVE  /\ prog' \in Seq(Ops) /\ Len(prog') = 4
           /\ \A i \in DOMAIN prog' : prog'[i].op = "event"
<1> DEFINE loop == [i \in 1 .. 4 |-> [op |-> "event", ep |-> i - 1]]
<1>1. \A i \in 1 .. 4 : [op |-> "event", ep |-> i - 1] \in Ops
  BY DEF Ops, Endpoints
<1>2. loop \in [1 .. 4 -> Ops]
  BY <1>1
<1>3. loop \in Seq(Ops) /\ Len(loop) = 4 /\ DOMAIN loop = 1 .. 4
  BY <1>2
<1>4. prog' = loop
  BY DEF EnterEvents
<1> QED
  BY <1>3, <1>4

BusStep == HandleResume \/ HandleSuspend \/ HandleReset \/ HandleCable

LEMMA BusType == ASSUME TypeInv, BusStep PROVE TypeInv'
<1>0. SoftwareType /\ PowerType
  BY TypeParts
<1>1. UNCHANGED prog /\ UNCHANGED host
  BY DEF BusStep, HandleResume, HandleSuspend, HandleReset, HandleCable
<1>2. PowerType'
  BY <1>0 DEF BusStep, HandleResume, HandleSuspend, HandleReset, HandleCable, PowerType
<1>3. CASE HandleResume \/ HandleSuspend \/ HandleCable
  BY <1>1, <1>2, <1>3, Unchanged, TypePartsNext
     DEF HandleResume, HandleSuspend, HandleCable
<1>4. CASE HandleReset
  <2>1. SoftwareType'
    BY <1>0, <1>4 DEF HandleReset, SoftwareType
  <2>2. EndpointType'
    <3>1. sup \in Requests \union {NoRequest} /\ stall \in [Endpoints -> BOOLEAN]
      BY TypeParts DEF EndpointType
    <3> QED
      BY <1>4, <3>1, ZlpPacket DEF HandleReset, EndpointType
  <2> QED
    BY <1>1, <1>2, <2>1, <2>2, Unchanged, TypePartsNext
<1> QED
  BY <1>3, <1>4 DEF BusStep

LEMMA HandleType == ASSUME TypeInv, Handle PROVE TypeInv'
<1>1. CASE HandleSetup
  BY <1>1, SetupType
<1>2. CASE EnterEvents
  <2>1. ProgType'
    BY <1>2, EventsProg DEF ProgType
  <2>2. /\ UNCHANGED software /\ UNCHANGED host /\ UNCHANGED power
        /\ UNCHANGED <<FADDR, armed, buf, toggle, stall, evt, sup>>
    BY <1>2 DEF EnterEvents, controller
  <2> QED
    BY <2>1, <2>2, Unchanged, TypePartsNext
<1>3. CASE BusStep
  BY <1>3, BusType
<1>4. CASE AccessStep
  BY <1>4, AccessType
<1> QED
  BY <1>1, <1>2, <1>3, <1>4 DEF Handle, BusStep, AccessStep

LEMMA KeyboardType == ASSUME TypeInv, KeyboardReport PROVE TypeInv'
<1>1. \A v \in {0, 1} : Packet("kbd", v) \in Packets
  BY DEF Packet, Packets
<1>2. EndpointType
  BY TypeParts
<1>3. armed' \in [Endpoints -> BOOLEAN] /\ buf' \in [Endpoints -> Packets]
  <2>1. CASE deviceState = "Configured"
    BY <1>1, <1>2, <2>1 DEF KeyboardReport, InitiateSend, EndpointType
  <2>2. CASE deviceState # "Configured"
    BY <1>1, <1>2, <2>2 DEF KeyboardReport, InitiateSend, EndpointType
  <2> QED
    BY <2>1, <2>2
<1>4. EndpointType'
  BY <1>2, <1>3 DEF KeyboardReport, EndpointType
<1>5. UNCHANGED software /\ UNCHANGED prog /\ UNCHANGED host /\ UNCHANGED power
  BY DEF KeyboardReport
<1> QED
  BY <1>4, <1>5, Unchanged, TypePartsNext

\* The host.
LEMMA AcknowledgedType ==
    ASSUME TypeInv, Acknowledged(hreq)
    PROVE  /\ hAddr' \in Addresses \union {0, NoHost} /\ hCfg' \in 0 .. 255
           /\ hToggle' \in {0, 1} /\ hProtocol' \in -1 .. 255
<1>1. DriverType
  BY TypeParts
<1>2. hreq.arg \in 0 .. 255
  BY <1>1, RequestAssumption, ZlpPacket DEF DriverType
<1>3. hreq.kind = "SetAddress" => hreq.arg \in Addresses \union {0}
  <2>1. CASE hreq \in Requests
    BY <2>1, RequestAssumption
  <2>2. CASE hreq = NoRequest
    BY <2>2, ZlpPacket
  <2> QED
    BY <1>1, <2>1, <2>2 DEF DriverType
<1>4. hAddr' \in Addresses \union {0, NoHost}
  BY <1>1, <1>3 DEF Acknowledged, DriverType
<1>5. hCfg' \in 0 .. 255
  BY <1>1, <1>2 DEF Acknowledged, DriverType
<1>6. hToggle' \in {0, 1} /\ hProtocol' \in -1 .. 255
  BY <1>1, <1>2 DEF Acknowledged, DriverType
<1> QED
  BY <1>4, <1>5, <1>6

LEMMA HostType == ASSUME TypeInv, Host PROVE TypeInv'
<1>0. EndpointType /\ PowerType /\ DriverType
  BY TypeParts
<1>1. UNCHANGED software /\ UNCHANGED prog
  BY DEF Host, HostSetup, HostSetupAgain, HostInStalled, HostIn, HostOut,
         HostPollsKeyboard, HostGivesUp, HostReset, BusIdle, HostResume, PullCable,
         PlugCable, DeviceUnchanged
<1>2. PowerType'
  <2>1. CASE UNCHANGED power
    BY <2>1, Unchanged
  <2>2. CASE HostReset \/ BusIdle \/ HostResume \/ PullCable \/ PlugCable
    BY <1>0, <2>2 DEF HostReset, BusIdle, HostResume, PullCable, PlugCable, PowerType
  <2> QED
    BY <2>1, <2>2
       DEF Host, HostSetup, HostSetupAgain, HostInStalled, HostIn, HostOut,
           HostPollsKeyboard, HostGivesUp, controller
<1>3. EndpointType'
  <2>1. CASE UNCHANGED <<FADDR, armed, buf, toggle, stall, evt, sup>>
    BY <2>1, Unchanged
  <2>2. CASE UNCHANGED <<FADDR, armed, buf, toggle, stall, evt>>
             /\ sup' \in Requests \union {NoRequest}
    BY <1>0, <2>2 DEF EndpointType
  <2>3. CASE HostIn \/ HostPollsKeyboard
    <3>1. PICK ep \in {CtrlIn, KbdIn} :
            /\ Disarm(ep)
            /\ evt' = [evt EXCEPT ![ep] = TRUE]
            /\ toggle' = [toggle EXCEPT ![ep] = 1 - @]
      BY <2>3 DEF HostIn, HostPollsKeyboard
    <3>2. armed' \in [Endpoints -> BOOLEAN] /\ buf' \in [Endpoints -> Packets]
      BY <1>0, <3>1, ZlpPacket DEF Disarm, EndpointType
    <3>3. evt' \in [Endpoints -> BOOLEAN]
      BY <1>0, <3>1 DEF EndpointType
    <3>4. toggle' \in [Endpoints -> {0, 1}]
      <4>1. ep \in Endpoints /\ 1 - toggle[ep] \in {0, 1}
        BY <1>0 DEF EndpointType, Endpoints, CtrlIn, KbdIn
      <4> QED
        BY <1>0, <3>1, <4>1 DEF EndpointType
    <3> QED
      BY <1>0, <2>3, <3>2, <3>3, <3>4 DEF HostIn, HostPollsKeyboard, EndpointType
  <2>4. CASE HostOut
    BY <1>0, <2>4 DEF HostOut, EndpointType
  <2>5. HostSetupAgain => sup' \in Requests \union {NoRequest}
    BY <1>0 DEF HostSetupAgain, DriverType
  <2> QED
    BY <2>1, <2>2, <2>3, <2>4, <2>5
       DEF Host, HostSetup, HostSetupAgain, HostInStalled, HostGivesUp, HostReset,
           BusIdle, HostResume, PullCable, PlugCable, controller
<1>4. DriverType'
  <2>1. CASE UNCHANGED host
    BY <2>1, Unchanged
  <2>2. \A r \in Requests : HostSetup(r) => DriverType'
    BY <1>0 DEF HostSetup, DriverType
  <2>3. CASE EndTransfer /\ UNCHANGED <<hAddr, hCfg, hToggle, hProtocol>>
    BY <1>0, <2>3, ZlpPacket DEF EndTransfer, DriverType
  <2>4. CASE HostIn
    <3>1. CASE hstage' = "statusOut" /\ hgot' = buf[CtrlIn]
               /\ UNCHANGED <<hreq, hAddr, hCfg, hToggle, hProtocol>>
      BY <1>0, <3>1 DEF EndpointType, DriverType, Endpoints, CtrlIn
    <3>2. CASE EndTransfer /\ Acknowledged(hreq)
      BY <3>2, AcknowledgedType, ZlpPacket DEF EndTransfer, DriverType
    <3> QED
      BY <2>1, <2>4, <3>1, <3>2 DEF HostIn
  <2>5. CASE HostPollsKeyboard
    <3>1. hToggle' \in {0, 1}
      BY <1>0, <2>5 DEF HostPollsKeyboard, DriverType
    <3> QED
      BY <1>0, <2>5, <3>1 DEF HostPollsKeyboard, DriverType
  <2>6. CASE HostReset \/ PullCable
    BY <1>0, <2>6, ZlpPacket DEF HostReset, PullCable, ForgetDevice, EndTransfer, DriverType
  <2> QED
    BY <2>1, <2>2, <2>3, <2>4, <2>5, <2>6
       DEF Host, HostSetupAgain, HostInStalled, HostOut, HostGivesUp, BusIdle,
           HostResume, PlugCable
<1> QED
  BY <1>1, <1>2, <1>3, <1>4, Unchanged, TypePartsNext

LEMMA StutterType == ASSUME TypeInv, UNCHANGED vars PROVE TypeInv'
<1>1. /\ UNCHANGED software /\ UNCHANGED host /\ UNCHANGED power /\ UNCHANGED prog
      /\ UNCHANGED <<FADDR, armed, buf, toggle, stall, evt, sup>>
  BY DEF vars, controller
<1> QED
  BY <1>1, Unchanged, TypePartsNext

LEMMA TypeStep == ASSUME TypeInv, [Next]_vars PROVE TypeInv'
BY HandleType, KeyboardType, HostType, StutterType DEF Next

\* Every variable keeps its type, and a program is never longer than the
\* longest reply, for any requests and addresses.
THEOREM TypeCorrect == Spec => []TypeOK
<1>1. Spec => []TypeInv
  BY InitType, TypeStep, PTL DEF Spec
<1>2. TypeInv => TypeOK
  BY DEF TypeInv
<1> QED
  BY <1>1, <1>2, PTL

-----------------------------------------------------------------------------
(***************************************************************************)
(* ListensToHost.  With no bus event waiting the transceiver follows the    *)
(* last one, with none of the cable's waiting the controller is on while    *)
(* it is plugged, and a host has an address for the device only then.       *)
(***************************************************************************)
PowerInv ==
    /\ ~busFlag => (phy <=> bus # "suspend")
    /\ plugged /\ ~fldetFlag => ctl
    /\ hAddr # NoHost => plugged

LEMMA PowerHandle == ASSUME TypeInv, PowerInv, Handle PROVE PowerInv'
<1>1. UNCHANGED host
  BY DEF Handle, HandleSetup, ReadRequest, GetReport, UnknownDescriptor,
         GetStatusEndpoint, SetAddress, SetConfiguration, EndpointHalt, SetProtocol,
         SetIdle, RemoteWakeup, RefusedRequest, UnansweredRequest, Answer, EnterEvents,
         HandleResume, HandleSuspend, HandleReset, HandleCable, Unstall, StallControl,
         Data1, ArmOut, SendControl, ResetToggles, StopKeyboard, SetHalt, ClearHalt,
         ClearSetup, Event
<1>2. CASE UNCHANGED power
  BY <1>1, <1>2 DEF PowerInv, power, host
<1>3. CASE BusStep
  <2>1. PowerType
    BY TypeParts
  <2> QED
    BY <1>1, <1>3, <2>1
       DEF BusStep, HandleResume, HandleSuspend, HandleReset, HandleCable, EnterBus,
           PowerInv, PowerType, host
<1> QED
  BY <1>2, <1>3
     DEF Handle, BusStep, HandleSetup, ReadRequest, GetReport, UnknownDescriptor,
         GetStatusEndpoint, SetAddress, SetConfiguration, EndpointHalt, SetProtocol,
         SetIdle, RemoteWakeup, RefusedRequest, UnansweredRequest, Answer, EnterEvents,
         controller, Unstall, StallControl, Data1, ArmOut, SendControl, ResetToggles,
         StopKeyboard, SetHalt, ClearHalt, ClearSetup, Event

LEMMA PowerHost == ASSUME TypeInv, PowerInv, Host PROVE PowerInv'
<1>1. EndpointType /\ PowerType /\ DriverType
  BY TypeParts
<1>2. CASE HostReset \/ BusIdle \/ HostResume \/ PullCable \/ PlugCable
  BY <1>1, <1>2
     DEF HostReset, BusIdle, HostResume, PullCable, PlugCable, PowerInv, PowerType,
         host, NoHost
<1>3. CASE HostIn
  <2>1. hAddr # NoHost
    BY <1>1, <1>3, AddressAssumption DEF HostIn, ControlOpen, Reaches, EndpointType, NoHost
  <2> QED
    BY <1>3, <2>1 DEF HostIn, PowerInv, power
<1>4. CASE UNCHANGED power /\ hAddr' = hAddr
  BY <1>4 DEF PowerInv, power
<1> QED
  BY <1>2, <1>3, <1>4
     DEF Host, HostSetup, HostSetupAgain, HostInStalled, HostOut, HostPollsKeyboard,
         HostGivesUp, host, controller

LEMMA PowerStep == ASSUME TypeInv, PowerInv, [Next]_vars PROVE PowerInv'
<1>1. KeyboardReport \/ UNCHANGED vars => PowerInv'
  BY DEF KeyboardReport, vars, controller, PowerInv, power, host
<1> QED
  BY <1>1, PowerHandle, PowerHost DEF Next

\* usb.h:755-788, the BUS and FLDET branches: whatever the bus and the cable do,
\* and however many events one flag stands for, a device at rest listens to a
\* host that uses the bus and is asleep when the bus is.
THEOREM BackOnTheBus == Spec => []ListensToHost
<1>1. Init => PowerInv
  BY DEF Init, PowerInv
<1>2. PowerInv => ListensToHost
  BY DEF PowerInv, ListensToHost, Quiet
<1>3. Spec => [](TypeInv /\ PowerInv)
  BY InitType, TypeStep, <1>1, PowerStep, PTL DEF Spec
<1> QED
  BY <1>2, <1>3, PTL

-----------------------------------------------------------------------------
(***************************************************************************)
(* AddressAgreement.  The host is assigning an address from the SETUP until *)
(* it has seen the status stage.  The device remembers the new one          *)
(* only in that time and until the event of the status stage, and meanwhile *)
(* no other transfer completes.                                             *)
(***************************************************************************)
Assigning == hreq.kind = "SetAddress"

Pending(op) == \E i \in DOMAIN prog : prog[i].op = op

\* Either the event loop is running, or the SETUP branch, from the access
\* that clears the stalls to the one that clears the flag.
ProgShape ==
    \/ \A i \in DOMAIN prog : prog[i].op = "event"
    \/ /\ setupFlag
       /\ \A i \in DOMAIN prog :
            /\ prog[i].op # "event"
            /\ prog[i].op = "unstall" => i = 1
            /\ prog[i].op = "clearSetup" => i = Len(prog)

HostShape ==
    /\ hstage = "idle" => hreq = NoRequest
    /\ Assigning => hstage = "statusIn" /\ sup \in {NoRequest, hreq}
    /\ sup.kind = "SetAddress" => Assigning
    /\ resetFlag => hAddr \in {0, NoHost}

\* SET_ADDRESS(0) in the default state changes nothing.
Vacuous ==
    /\ Assigning /\ hreq.arg = 0
    /\ deviceState = "Default" /\ changeAddressTo = dontChangeAddress

Events == \E ep \in Endpoints : evt[ep]

\* When the address is remembered.
Remembered ==
    changeAddressTo # dontChangeAddress =>
        \/ Assigning /\ changeAddressTo = hreq.arg
        \/ /\ ~Assigning /\ evt[CtrlIn]
           /\ changeAddressTo = hAddr \/ resetFlag \/ hAddr = NoHost

Undisturbed ==
    Assigning => /\ ~resetFlag /\ FADDR = hAddr
                 /\ Events => Vacuous
                 /\ ~Pending("allData0")

\* The status stage of an accepted SET_ADDRESS is sent as DATA1 and not
\* stalled; one that is not accepted is stalled, or still to be handled.
Accepted ==
    Assigning => IF changeAddressTo # dontChangeAddress
                   THEN /\ toggle[CtrlIn] = 1 \/ Pending("dataIn1")
                        /\ ~stall[CtrlIn] \/ Pending("unstall")
                        /\ ~Pending("stall")
                        /\ deviceState # "Configured"
                   ELSE \/ Vacuous
                        \/ setupFlag /\ prog = << >>
                        \/ Pending("stall")
                        \/ stall[CtrlIn] /\ ~Pending("unstall")

DefaultAddress ==
    deviceState = "Default" =>
        /\ changeAddressTo \in {0, dontChangeAddress}
        /\ FADDR = 0 \/ changeAddressTo = 0

AddrInv ==
    /\ ProgShape /\ HostShape /\ Remembered /\ Undisturbed
    /\ Accepted /\ DefaultAddress /\ AddressAgreement

LEMMA AddrInit == Init => AddrInv
BY ZlpPacket
   DEF Init, AddrInv, ProgShape, HostShape, Remembered, Undisturbed, Accepted,
       DefaultAddress, AddressAgreement, Assigning, Events, resetFlag

\* A step that touches none of what AddrInv is about.
LEMMA AddrFrame ==
    ASSUME AddrInv,
           UNCHANGED <<prog, sup, hstage, hreq, hAddr, changeAddressTo, FADDR, evt>>,
           UNCHANGED <<toggle, stall, deviceState>>, resetFlag' = resetFlag
    PROVE  AddrInv'
<1>1. /\ setupFlag' = setupFlag /\ Assigning' = Assigning /\ Events' = Events
      /\ Vacuous' = Vacuous
  BY DEF setupFlag, Assigning, Events, Vacuous
<1>2. \A op : Pending(op)' = Pending(op)
  BY DEF Pending
<1>3. ProgShape' /\ HostShape'
  BY <1>1 DEF AddrInv, ProgShape, HostShape
<1>4. Remembered' /\ Undisturbed' /\ DefaultAddress' /\ AddressAgreement'
  BY <1>1, <1>2 DEF AddrInv, Remembered, Undisturbed, DefaultAddress, AddressAgreement
<1>5. Accepted'
  BY <1>1, <1>2 DEF AddrInv, Accepted
<1> QED
  BY <1>3, <1>4, <1>5 DEF AddrInv

\* One access is done: what is left of the program.
LEMMA AccessShape ==
    ASSUME TypeInv, ProgShape, NEW name, Access(name),
           sup' = sup \/ (name = "clearSetup" /\ sup' = NoRequest)
    PROVE  /\ ProgShape'
           /\ \A op : Pending(op)' => Pending(op)
           /\ \A op : Pending(op) /\ op # name => Pending(op)'
           /\ Pending(name)
           /\ name # "event" => setupFlag /\ ~Pending("unstall")'
<1>1. prog \in Seq(Ops) /\ prog # << >> /\ prog' = Tail(prog) /\ Head(prog).op = name
  BY DEF TypeInv, Access
<1>2. /\ prog[1].op = name /\ Len(prog) \in Nat /\ Len(prog') = Len(prog) - 1
      /\ DOMAIN prog = 1 .. Len(prog) /\ DOMAIN prog' = 1 .. Len(prog) - 1
      /\ \A i \in DOMAIN prog' : i + 1 \in DOMAIN prog /\ prog'[i] = prog[i + 1]
  BY <1>1, TailShape, LenProperties
<1>3. 1 \in DOMAIN prog
  BY <1>1, <1>2, EmptySeq
<1>4. Pending(name)
  BY <1>2, <1>3 DEF Pending
<1>5. \A op : Pending(op)' => Pending(op)
  BY <1>2 DEF Pending
<1>6. \A op : Pending(op) /\ op # name => Pending(op)'
  <2> SUFFICES ASSUME NEW op, NEW i \in DOMAIN prog, prog[i].op = op, op # name
               PROVE  \E j \in DOMAIN prog' : prog'[j].op = op
    BY DEF Pending
  <2>1. i # 1 /\ i \in Nat
    BY <1>2
  <2>2. i - 1 \in DOMAIN prog' /\ prog'[i - 1] = prog[i]
    <3>1. i - 1 \in DOMAIN prog'
      BY <1>2, <2>1
    <3>2. prog'[i - 1] = prog[(i - 1) + 1]
      BY <1>2, <3>1
    <3> QED
      BY <2>1, <3>1, <3>2
  <2> QED
    BY <2>2
<1>7. CASE \A i \in DOMAIN prog : prog[i].op = "event"
  <2>1. name = "event"
    BY <1>2, <1>3, <1>7
  <2>2. \A i \in DOMAIN prog' : prog'[i].op = "event"
    BY <1>2, <1>7
  <2> QED
    BY <1>4, <1>5, <1>6, <2>1, <2>2 DEF ProgShape
<1>8. CASE /\ setupFlag
           /\ \A i \in DOMAIN prog :
                /\ prog[i].op # "event"
                /\ prog[i].op = "unstall" => i = 1
                /\ prog[i].op = "clearSetup" => i = Len(prog)
  <2>1. \A i \in DOMAIN prog' :
          /\ prog'[i].op # "event" /\ prog'[i].op # "unstall"
          /\ prog'[i].op = "clearSetup" => i = Len(prog')
    <3> SUFFICES ASSUME NEW i \in DOMAIN prog'
                 PROVE  /\ prog'[i].op # "event" /\ prog'[i].op # "unstall"
                        /\ prog'[i].op = "clearSetup" => i = Len(prog')
      OBVIOUS
    <3>1. i \in Nat /\ i >= 1 /\ i + 1 \in DOMAIN prog /\ prog'[i] = prog[i + 1]
      BY <1>2
    <3> QED
      BY <1>2, <1>8, <3>1
  <2>2. ~Pending("unstall")'
    BY <2>1 DEF Pending
  <2>3. ProgShape'
    <3>1. CASE sup' = sup
      BY <1>8, <2>1, <3>1 DEF ProgShape, setupFlag
    <3>2. CASE name = "clearSetup"
      <4>1. 1 = Len(prog)
        BY <1>2, <1>3, <1>8, <3>2
      <4>2. DOMAIN prog' = {}
        <5>1. Len(prog) - 1 = 0
          BY <4>1
        <5>2. DOMAIN prog' = 1 .. 0
          BY <1>2, <5>1
        <5> QED
          BY <5>2
      <4> QED
        BY <4>2 DEF ProgShape
    <3> QED
      BY <3>1, <3>2
  <2> QED
    BY <1>4, <1>5, <1>6, <1>8, <2>2, <2>3
<1> QED
  BY <1>7, <1>8 DEF ProgShape

\* The program of the SETUP branch on entry.
LEMMA EntryShape ==
    ASSUME setupFlag, NEW body \in Seq(BodyOps), prog' = Handler(body), sup' = sup
    PROVE  /\ ProgShape' /\ Pending("unstall")'
           /\ \A i \in 1 .. Len(body) : Pending(body[i].op)'
           /\ \A op : Pending(op)' =>
                \/ op \in {"unstall", "clearSetup"}
                \/ \E i \in 1 .. Len(body) : op = body[i].op
<1>1. /\ prog' \in Seq(Ops) /\ Len(prog') = Len(body) + 2
      /\ prog'[1].op = "unstall" /\ prog'[Len(body) + 2].op = "clearSetup"
      /\ \A i \in 1 .. Len(body) : prog'[i + 1] = body[i]
  BY HandlerShape
<1>2. Len(body) \in Nat /\ \A i \in 1 .. Len(body) : body[i] \in BodyOps
  BY ElementOfSeq, LenProperties
<1>3. DOMAIN prog' = 1 .. Len(body) + 2
  BY <1>1, LenProperties
<1>4. ASSUME NEW i \in DOMAIN prog'
      PROVE  \/ i = 1 /\ prog'[i].op = "unstall"
             \/ i = Len(body) + 2 /\ prog'[i].op = "clearSetup"
             \/ /\ \E j \in 1 .. Len(body) : prog'[i] = body[j]
                /\ prog'[i].op \notin {"unstall", "clearSetup", "event"}
  <2>1. CASE i = 1
    BY <1>1, <2>1
  <2>2. CASE i = Len(body) + 2
    BY <1>1, <2>2
  <2>3. CASE i # 1 /\ i # Len(body) + 2
    <3>1. i \in Nat /\ i - 1 \in 1 .. Len(body) /\ (i - 1) + 1 = i
      BY <1>2, <1>3, <2>3
    <3>2. prog'[(i - 1) + 1] = body[i - 1] /\ body[i - 1] \in BodyOps
      BY <1>1, <1>2, <3>1
    <3>3. prog'[i] = body[i - 1]
      BY <3>1, <3>2
    <3> QED
      BY <3>1, <3>2, <3>3, BodyFields
  <2> QED
    BY <2>1, <2>2, <2>3
<1>5. ProgShape'
  BY <1>1, <1>4 DEF ProgShape, setupFlag
<1>6. Pending("unstall")'
  <2>1. 1 \in DOMAIN prog'
    BY <1>2, <1>3
  <2> QED
    BY <1>1, <2>1 DEF Pending
<1>7. \A i \in 1 .. Len(body) : Pending(body[i].op)'
  <2> SUFFICES ASSUME NEW i \in 1 .. Len(body)
               PROVE  \E j \in DOMAIN prog' : prog'[j].op = body[i].op
    BY DEF Pending
  <2>1. i + 1 \in DOMAIN prog'
    BY <1>2, <1>3
  <2> QED
    BY <1>1, <2>1
<1>8. \A op : Pending(op)' =>
        \/ op \in {"unstall", "clearSetup"}
        \/ \E i \in 1 .. Len(body) : op = body[i].op
  <2> SUFFICES ASSUME NEW op, NEW j \in DOMAIN prog', prog'[j].op = op
               PROVE  \/ op \in {"unstall", "clearSetup"}
                      \/ \E i \in 1 .. Len(body) : op = body[i].op
    BY DEF Pending
  <2> QED
    BY <1>4
<1> QED
  BY <1>5, <1>6, <1>7, <1>8

\* An address to take is not taken for none.
LEMMA AddressRange == \A a \in Addresses \union {0} : a # dontChangeAddress
BY AddressAssumption DEF dontChangeAddress

\* The SETUP branch.
LEMMA AddrSetup == ASSUME TypeInv, AddrInv, HandleSetup PROVE AddrInv'
<1>1. PICK r \in Requests : SetupStep(r)
  BY DEF HandleSetup, SetupStep
<1>2. PICK body \in Seq(BodyOps) : Answer(body)
  BY <1>1, SetupBody
<1>3. /\ prog = << >> /\ setupFlag /\ r = sup
      /\ r.kind # "SetAddress" =>
           /\ changeAddressTo' = changeAddressTo
           /\ deviceState' = deviceState \/ deviceState' # "Default"
      /\ r.kind = "SetAddress" => SetAddress(r)
  BY <1>1, SetupSoftware DEF EnterSetup
<1>4. UNCHANGED <<controller, host>>
  BY <1>2 DEF Answer
<1>5. /\ UNCHANGED <<FADDR, toggle, stall, evt, sup, hstage, hreq, hAddr>>
      /\ resetFlag' = resetFlag /\ Assigning' = Assigning /\ Events' = Events
      /\ setupFlag' = setupFlag
  BY <1>4 DEF controller, host, power, resetFlag, Assigning, Events, setupFlag
<1>6. ProgShape'
  BY <1>2, <1>3, <1>5, EntryShape DEF Answer
<1>7. HostShape'
  BY <1>5 DEF AddrInv, HostShape
<1>8. ~Pending("dataIn1") /\ ~Pending("unstall") /\ ~Pending("stall")
  BY <1>3 DEF Pending
<1>9. CASE r.kind # "SetAddress"
  <2>1. ~Assigning
    BY <1>3, <1>9 DEF AddrInv, HostShape, Assigning, setupFlag
  <2>2. Undisturbed' /\ Accepted'
    BY <1>5, <2>1 DEF Undisturbed, Accepted
  <2>3. Remembered' /\ AddressAgreement'
    BY <1>3, <1>5, <1>9 DEF AddrInv, Remembered, AddressAgreement
  <2>4. DefaultAddress'
    BY <1>3, <1>5, <1>9 DEF AddrInv, DefaultAddress
  <2> QED
    BY <1>6, <1>7, <2>2, <2>3, <2>4 DEF AddrInv
<1>10. CASE r.kind = "SetAddress"
  <2>1. /\ Assigning /\ hreq = r /\ ~resetFlag /\ FADDR = hAddr /\ (Events => Vacuous)
    BY <1>3, <1>10 DEF AddrInv, HostShape, Assigning, setupFlag, Undisturbed
  <2>2. SetAddress(r) /\ r.arg \in Addresses \union {0}
    BY <1>3, <1>10, RequestAssumption
  <2>3. r.arg # dontChangeAddress
    BY <2>2, AddressRange
  <2>4. AddressAgreement'
    BY <1>5, <2>1 DEF AddressAgreement
  <2>5. changeAddressTo # dontChangeAddress =>
          /\ toggle[CtrlIn] = 1 /\ ~stall[CtrlIn] /\ deviceState # "Configured"
          /\ changeAddressTo = r.arg
    BY <1>8, <2>1 DEF AddrInv, Accepted, Remembered
  <2>6. CASE deviceState = "Configured" /\ Answer(SetStall)
             /\ UNCHANGED <<deviceState, changeAddressTo>>
    <3>1. /\ Pending("stall")'
          /\ \A op : Pending(op)' => op \in {"unstall", "clearSetup", "stall"}
      <4>1. prog' = Handler(SetStall) /\ SetStall \in Seq(BodyOps) /\ Len(SetStall) = 1
            /\ SetStall[1].op = "stall"
        BY <2>6, Parts DEF Answer
      <4>2. 1 .. Len(SetStall) = {1}
        BY <4>1
      <4>3. /\ \A i \in 1 .. Len(SetStall) : Pending(SetStall[i].op)'
            /\ \A op : Pending(op)' =>
                 \/ op \in {"unstall", "clearSetup"}
                 \/ \E i \in 1 .. Len(SetStall) : op = SetStall[i].op
            /\ Pending("unstall")'
        BY <1>3, <1>5, <4>1, EntryShape, Zenon
      <4> QED
        BY <4>1, <4>2, <4>3
    <3>2. changeAddressTo' = dontChangeAddress
      BY <2>5, <2>6
    <3>3. Vacuous' = Vacuous /\ ~Pending("allData0")'
      BY <1>5, <2>6, <3>1 DEF Vacuous
    <3> QED
      BY <1>5, <1>6, <1>7, <2>1, <2>4, <2>6, <3>1, <3>2, <3>3
         DEF AddrInv, Remembered, Undisturbed, Accepted, DefaultAddress
  <2>7. CASE /\ deviceState # "Configured" /\ Answer(SendZero)
             /\ changeAddressTo' = r.arg
             /\ \/ r.arg # 0 /\ deviceState' = "Address"
                \/ r.arg = 0 /\ deviceState = "Address" /\ deviceState' = "Default"
    <3>1. /\ Pending("dataIn1")' /\ Pending("unstall")'
          /\ \A op : Pending(op)' => op \in {"unstall", "clearSetup", "dataIn1", "send"}
      <4>1. prog' = Handler(SendZero) /\ SendZero \in Seq(BodyOps) /\ Len(SendZero) = 2
            /\ SendZero[1].op = "dataIn1" /\ SendZero[2].op = "send"
        BY <2>7, Parts DEF Answer
      <4>2. 1 .. Len(SendZero) = {1, 2}
        BY <4>1
      <4>3. /\ \A i \in 1 .. Len(SendZero) : Pending(SendZero[i].op)'
            /\ \A op : Pending(op)' =>
                 \/ op \in {"unstall", "clearSetup"}
                 \/ \E i \in 1 .. Len(SendZero) : op = SendZero[i].op
            /\ Pending("unstall")'
        BY <1>3, <1>5, <4>1, EntryShape, Zenon
      <4> QED
        BY <4>1, <4>2, <4>3
    <3>2. ~Pending("stall")' /\ ~Pending("allData0")'
      BY <3>1
    <3>3. ~Events
      BY <2>1, <2>7 DEF Vacuous
    <3>4. Remembered' /\ Undisturbed'
      BY <1>5, <2>1, <2>7, <3>2, <3>3 DEF Remembered, Undisturbed
    <3>5. Accepted'
      BY <2>3, <2>7, <3>1, <3>2 DEF Accepted
    <3>6. DefaultAddress'
      BY <2>7 DEF DefaultAddress
    <3> QED
      BY <1>6, <1>7, <2>4, <3>4, <3>5, <3>6 DEF AddrInv
  <2>8. CASE /\ deviceState = "Default" /\ r.arg = 0 /\ Answer(<< >>)
             /\ UNCHANGED <<deviceState, changeAddressTo>>
    <3>1. /\ Pending("unstall")'
          /\ \A op : Pending(op)' => op \in {"unstall", "clearSetup"}
      <4>1. prog' = Handler(<< >>) /\ << >> \in Seq(BodyOps) /\ Len(<< >>) = 0
        BY <2>8, Parts DEF Answer
      <4>2. 1 .. Len(<< >>) = {}
        BY <4>1
      <4>3. \A op : Pending(op)' =>
                \/ op \in {"unstall", "clearSetup"}
                \/ \E i \in 1 .. Len(<< >>) : op = << >>[i].op
        BY <1>3, <1>5, <4>1, EntryShape, Zenon
      <4>4. Pending("unstall")'
        BY <1>3, <1>5, <4>1, EntryShape, Zenon
      <4> QED
        BY <4>2, <4>3, <4>4
    <3>2. ~Pending("stall")' /\ ~Pending("allData0")' /\ Vacuous' = Vacuous
      BY <1>5, <2>8, <3>1 DEF Vacuous
    <3>3. Remembered' /\ Undisturbed' /\ DefaultAddress'
      BY <1>5, <2>1, <2>8, <3>2
         DEF AddrInv, Remembered, Undisturbed, DefaultAddress
    <3>4. Accepted'
      <4>1. CASE changeAddressTo # dontChangeAddress
        BY <1>5, <2>5, <2>8, <3>1, <3>2, <4>1 DEF Accepted
      <4>2. CASE changeAddressTo = dontChangeAddress
        BY <1>5, <2>1, <2>8, <3>2, <4>2 DEF Accepted, Vacuous
      <4> QED
        BY <4>1, <4>2
    <3> QED
      BY <1>6, <1>7, <2>4, <3>3, <3>4 DEF AddrInv
  <2> QED
    BY <2>2, <2>6, <2>7, <2>8 DEF SetAddress
<1> QED
  BY <1>9, <1>10

\* The register accesses of the SETUP branch: none disturbs an address that is
\* being assigned, and what the status stage still needs stays in the program.
LEMMA AddrControl ==
    ASSUME TypeInv, AddrInv, NEW name, Access(name), name # "event",
           sup' = sup \/ (name = "clearSetup" /\ sup' = NoRequest),
           UNCHANGED <<hstage, hreq, hAddr, changeAddressTo, FADDR, evt, deviceState>>,
           resetFlag' = resetFlag,
           \/ toggle'[CtrlIn] = toggle[CtrlIn]
           \/ name = "dataIn1" /\ toggle'[CtrlIn] = 1
           \/ name = "allData0",
           \/ stall'[CtrlIn] = stall[CtrlIn] /\ name \notin {"unstall", "stall"}
           \/ stall'[CtrlIn] = FALSE /\ name = "unstall"
           \/ stall'[CtrlIn] = TRUE /\ name = "stall",
           name = "dataIn1" => toggle'[CtrlIn] = 1
    PROVE  AddrInv'
<1>1. /\ ProgShape' /\ setupFlag /\ Pending(name) /\ ~Pending("unstall")'
      /\ \A op : Pending(op)' => Pending(op)
      /\ \A op : Pending(op) /\ op # name => Pending(op)'
  BY AccessShape DEF AddrInv
<1>2. Assigning' = Assigning /\ Events' = Events /\ Vacuous' = Vacuous
  BY DEF Assigning, Events, Vacuous
<1>3. prog # << >>
  BY DEF Access
<1>4. HostShape'
  BY <1>2, ZlpPacket DEF AddrInv, HostShape
<1>5. Remembered' /\ DefaultAddress' /\ AddressAgreement'
  BY <1>2 DEF AddrInv, Remembered, DefaultAddress, AddressAgreement
<1>6. Undisturbed'
  BY <1>1, <1>2 DEF AddrInv, Undisturbed
<1>7. Accepted'
  <2> SUFFICES ASSUME Assigning PROVE Accepted'
    BY <1>2 DEF Accepted
  <2>1. name # "allData0"
    BY <1>1 DEF AddrInv, Undisturbed
  <2>2. CASE changeAddressTo # dontChangeAddress
    <3>1. /\ toggle[CtrlIn] = 1 \/ Pending("dataIn1")
          /\ ~stall[CtrlIn] \/ Pending("unstall")
          /\ ~Pending("stall") /\ deviceState # "Configured"
      BY <2>2 DEF AddrInv, Accepted
    <3>2. name # "stall" /\ ~Pending("stall")'
      BY <1>1, <3>1
    <3>3. toggle'[CtrlIn] = 1 \/ Pending("dataIn1")'
      BY <1>1, <2>1, <3>1
    <3>4. ~stall'[CtrlIn] \/ Pending("unstall")'
      BY <1>1, <3>1, <3>2
    <3> QED
      BY <2>2, <3>1, <3>2, <3>3, <3>4 DEF Accepted
  <2>3. CASE changeAddressTo = dontChangeAddress
    <3>1. Vacuous \/ Pending("stall") \/ (stall[CtrlIn] /\ ~Pending("unstall"))
      BY <1>3, <2>3 DEF AddrInv, Accepted
    <3>2. Vacuous' \/ Pending("stall")' \/ (stall'[CtrlIn] /\ ~Pending("unstall")')
      BY <1>1, <1>2, <3>1
    <3> QED
      BY <2>3, <3>2 DEF Accepted
  <2> QED
    BY <2>2, <2>3
<1> QED
  BY <1>1, <1>4, <1>5, <1>6, <1>7 DEF AddrInv

\* The loop over the endpoints: an IN event applies what is remembered.
LEMMA AddrEvent == ASSUME TypeInv, AddrInv, Event PROVE AddrInv'
<1>1. /\ UNCHANGED <<sup, hstage, hreq, hAddr, deviceState, toggle, stall>>
      /\ resetFlag' = resetFlag /\ Assigning' = Assigning /\ prog # << >>
  BY DEF Event, Access, host, power, resetFlag, Assigning
<1>2. /\ ProgShape'
      /\ \A op : Pending(op)' => Pending(op)
      /\ \A op : Pending(op) /\ op # "event" => Pending(op)'
  BY <1>1, AccessShape DEF Event, AddrInv
<1>3. Head(prog) \in Ops /\ Head(prog).op = "event" /\ EndpointType /\ SoftwareType
  BY AccessProg, TypeParts DEF Event
<1>4. Head(prog).ep \in Endpoints
  BY <1>3, OpFields
<1>5. HostShape'
  BY <1>1 DEF AddrInv, HostShape
<1>6. Events' => Events
  BY <1>3, <1>4 DEF Event, Events, EndpointType
<1>7. CASE UNCHANGED <<FADDR, changeAddressTo>> /\ evt'[CtrlIn] = evt[CtrlIn]
  <2>1. Vacuous' = Vacuous
    BY <1>1, <1>7 DEF Vacuous
  <2>2. Remembered' /\ DefaultAddress' /\ AddressAgreement'
    BY <1>1, <1>7 DEF AddrInv, Remembered, DefaultAddress, AddressAgreement
  <2>3. Undisturbed'
    BY <1>1, <1>2, <1>6, <1>7, <2>1 DEF AddrInv, Undisturbed
  <2>4. Accepted'
    BY <1>1, <1>2, <1>7, <2>1 DEF AddrInv, Accepted
  <2> QED
    BY <1>2, <1>5, <2>2, <2>3, <2>4 DEF AddrInv
<1>8. CASE evt[Head(prog).ep] /\ TakeAddress
  <2>1. changeAddressTo' = dontChangeAddress
    BY <1>8 DEF TakeAddress
  <2>2. Assigning => Vacuous
    BY <1>4, <1>8 DEF AddrInv, Undisturbed, Events
  <2>3. Assigning => Vacuous' /\ FADDR' = FADDR
    BY <1>1, <1>8, <2>1, <2>2 DEF Vacuous, TakeAddress
  <2>4. Undisturbed'
    BY <1>1, <1>2, <2>3 DEF AddrInv, Undisturbed
  <2>5. Accepted' /\ Remembered'
    BY <1>1, <2>1, <2>3 DEF Accepted, Remembered
  <2>6. DefaultAddress'
    BY <1>1, <1>8, <2>1 DEF AddrInv, DefaultAddress, TakeAddress
  <2>7. AddressAgreement'
    <3>1. CASE changeAddressTo # dontChangeAddress
      BY <1>1, <1>8, <2>2, <3>1
         DEF AddrInv, Remembered, Vacuous, AddressAgreement, TakeAddress
    <3>2. CASE changeAddressTo = dontChangeAddress
      BY <1>1, <1>8, <3>2
         DEF AddrInv, AddressAgreement, TakeAddress, dontChangeAddress, NoHost
    <3> QED
      BY <3>1, <3>2
  <2> QED
    BY <1>2, <1>5, <2>4, <2>5, <2>6, <2>7 DEF AddrInv
<1>9. ~evt[Head(prog).ep] => evt' = evt
  BY <1>3, <1>4 DEF Event, EndpointType
<1>10. Head(prog).ep = CtrlOut => evt'[CtrlIn] = evt[CtrlIn]
  <2>1. evt' = [evt EXCEPT ![Head(prog).ep] = FALSE] /\ evt \in [Endpoints -> BOOLEAN]
    BY <1>3 DEF Event, EndpointType
  <2>2. CtrlIn # CtrlOut /\ CtrlIn \in Endpoints
    BY DEF CtrlIn, CtrlOut, Endpoints
  <2> QED
    BY <2>1, <2>2
<1> QED
  BY <1>7, <1>8, <1>9, <1>10 DEF Event

LEMMA AddrAccess == ASSUME TypeInv, AddrInv, AccessStep PROVE AddrInv'
<1>0. EndpointType /\ CtrlIn \in Endpoints /\ CtrlIn \notin {CtrlOut, 2, 3}
  BY TypeParts DEF CtrlIn, CtrlOut, Endpoints
<1>1. ASSUME NEW name, Access(name), name # "event", UNCHANGED software,
             UNCHANGED <<host, FADDR, evt, power>>
      PROVE  /\ UNCHANGED <<hstage, hreq, hAddr, changeAddressTo, FADDR, evt, deviceState>>
             /\ resetFlag' = resetFlag
  BY <1>1 DEF software, host, power, resetFlag
<1>2. CASE Unstall
  BY <1>0, <1>1, <1>2, AddrControl DEF Unstall, EndpointType
<1>3. CASE StallControl
  BY <1>0, <1>1, <1>3, AddrControl DEF StallControl, EndpointType
<1>4. CASE Data1
  BY <1>0, <1>1, <1>4, AddrControl DEF Data1, EndpointType
<1>5. CASE ArmOut
  BY <1>5, AddrControl DEF ArmOut, host, power, resetFlag
<1>6. CASE SendControl \/ StopKeyboard
  BY <1>1, <1>6, AddrControl DEF SendControl, StopKeyboard
<1>7. CASE ResetToggles
  BY <1>1, <1>7, AddrControl DEF ResetToggles
<1>8. CASE SetHalt \/ ClearHalt
  <2>1. Head(prog).ep \in {2, 3}
    BY <1>8, AccessProg, OpFields DEF SetHalt, ClearHalt
  <2>2. toggle'[CtrlIn] = toggle[CtrlIn] /\ stall'[CtrlIn] = stall[CtrlIn]
    BY <1>0, <1>8, <2>1 DEF SetHalt, ClearHalt, EndpointType
  <2> QED
    BY <1>1, <1>8, <2>2, AddrControl DEF SetHalt, ClearHalt
<1>9. CASE ClearSetup
  BY <1>1, <1>9, AddrControl DEF ClearSetup
<1>10. CASE Event
  BY <1>10, AddrEvent
<1> QED
  BY <1>2, <1>3, <1>4, <1>5, <1>6, <1>7, <1>8, <1>9, <1>10 DEF AccessStep

\* The BUS and FLDET branches.
LEMMA AddrBus == ASSUME TypeInv, AddrInv, BusStep PROVE AddrInv'
<1>1. CASE HandleResume \/ HandleSuspend \/ HandleCable
  <2>1. resetFlag' = resetFlag
    BY <1>1 DEF HandleResume, HandleSuspend, HandleCable, EnterBus, resetFlag
  <2>2. /\ UNCHANGED <<prog, sup, hstage, hreq, hAddr, changeAddressTo, FADDR, evt>>
        /\ UNCHANGED <<toggle, stall, deviceState>>
    BY <1>1 DEF HandleResume, HandleSuspend, HandleCable, software, host
  <2> QED
    BY <2>1, <2>2, AddrFrame
<1>2. CASE HandleReset
  <2>1. /\ prog = << >> /\ prog' = prog /\ sup' = sup /\ hreq' = hreq /\ hstage' = hstage
        /\ hAddr' = hAddr /\ FADDR' = 0 /\ deviceState' = "Default" /\ resetFlag
        /\ changeAddressTo' = changeAddressTo /\ ~resetFlag' /\ ~evt[CtrlIn]
    BY <1>2 DEF HandleReset, EnterBus, resetFlag, host, CtrlIn, Endpoints
  <2>2. ~Assigning /\ ~Assigning' /\ setupFlag' = setupFlag
    BY <2>1 DEF AddrInv, Undisturbed, Assigning, setupFlag
  <2>3. changeAddressTo = dontChangeAddress
    BY <2>1, <2>2 DEF AddrInv, Remembered
  <2>4. hAddr \in {0, NoHost}
    BY <2>1 DEF AddrInv, HostShape
  <2>5. ProgShape' /\ HostShape'
    BY <2>1, <2>2 DEF AddrInv, ProgShape, HostShape
  <2>6. Remembered' /\ Undisturbed' /\ Accepted' /\ DefaultAddress' /\ AddressAgreement'
    BY <2>1, <2>2, <2>3, <2>4
       DEF Remembered, Undisturbed, Accepted, DefaultAddress, AddressAgreement
  <2> QED
    BY <2>5, <2>6 DEF AddrInv
<1> QED
  BY <1>1, <1>2 DEF BusStep

LEMMA AddrHandle == ASSUME TypeInv, AddrInv, Handle PROVE AddrInv'
<1>1. CASE EnterEvents
  <2>1. /\ \A i \in DOMAIN prog' : prog'[i].op = "event"
        /\ UNCHANGED <<software, controller, host>> /\ prog = << >>
        /\ ~setupFlag /\ Events
    BY <1>1, EventsProg DEF EnterEvents, Events
  <2>2. /\ UNCHANGED <<sup, hstage, hreq, hAddr, changeAddressTo, FADDR, evt>>
        /\ UNCHANGED <<toggle, stall, deviceState>> /\ resetFlag' = resetFlag
        /\ Assigning' = Assigning /\ Events' = Events /\ Vacuous' = Vacuous
    BY <2>1 DEF software, controller, host, power, resetFlag, Assigning, Events, Vacuous
  <2>3. Assigning => Vacuous
    BY <2>1 DEF AddrInv, Undisturbed
  <2>4. ~Pending("allData0")'
    BY <2>1 DEF Pending
  <2>5. ProgShape' /\ HostShape'
    BY <2>1, <2>2 DEF AddrInv, ProgShape, HostShape
  <2>6. Remembered' /\ DefaultAddress' /\ AddressAgreement'
    BY <2>2 DEF AddrInv, Remembered, DefaultAddress, AddressAgreement
  <2>7. Undisturbed'
    BY <2>2, <2>4 DEF AddrInv, Undisturbed
  <2>8. Accepted'
    BY <2>2, <2>3 DEF Accepted, Vacuous
  <2> QED
    BY <2>5, <2>6, <2>7, <2>8 DEF AddrInv
<1> QED
  BY <1>1, AddrSetup, AddrBus, AddrAccess DEF Handle, BusStep, AccessStep

-----------------------------------------------------------------------------
\* The host.  A step outside of an assignment that leaves the device alone.
LEMMA AddrOther ==
    ASSUME AddrInv, ~Assigning, ~Assigning',
           UNCHANGED <<prog, changeAddressTo, FADDR, deviceState, sup>>,
           hstage' = "idle" => hreq' = NoRequest,
           evt[CtrlIn] => evt'[CtrlIn],
           \/ hAddr' = hAddr /\ resetFlag' = resetFlag
           \/ hAddr' = 0 /\ resetFlag'
           \/ hAddr' = NoHost
    PROVE  AddrInv'
<1>1. setupFlag' = setupFlag /\ sup.kind # "SetAddress"
  BY DEF AddrInv, HostShape, setupFlag
<1>2. ProgShape' /\ HostShape'
  BY <1>1 DEF AddrInv, ProgShape, HostShape
<1>3. Undisturbed' /\ Accepted'
  BY DEF Undisturbed, Accepted
<1>4. Remembered' /\ DefaultAddress' /\ AddressAgreement'
  BY DEF AddrInv, Remembered, DefaultAddress, AddressAgreement
<1> QED
  BY <1>2, <1>3, <1>4 DEF AddrInv

\* The SETUP packet.
LEMMA AddrHostSetup ==
    ASSUME TypeInv, AddrInv, NEW r \in Requests, HostSetup(r)
    PROVE  AddrInv'
<1>1. /\ hstage = "idle" /\ ~resetFlag /\ FADDR = hAddr /\ ~setupFlag
      /\ r.kind = "SetAddress" => Quiet
      /\ hstage' \in {"dataIn", "statusIn"} /\ hreq' = r /\ sup' = r
      /\ r.kind = "SetAddress" => hstage' = "statusIn"
      /\ UNCHANGED <<prog, changeAddressTo, deviceState, hAddr, FADDR, evt, toggle, stall>>
      /\ resetFlag' = resetFlag
  BY DEF HostSetup, Reaches, IsRead, ReadKinds, DeviceUnchanged, software, power, resetFlag
<1>2. ~Assigning
  BY <1>1, ZlpPacket DEF AddrInv, HostShape, Assigning
<1>3. r.kind # "none" /\ setupFlag'
  BY <1>1, RequestAssumption, ZlpPacket DEF setupFlag
<1>4. ProgShape'
  BY <1>1 DEF AddrInv, ProgShape
<1>5. HostShape'
  BY <1>1 DEF HostShape, Assigning
<1>6. DefaultAddress' /\ AddressAgreement'
  BY <1>1 DEF AddrInv, DefaultAddress, AddressAgreement
<1>7. CASE r.kind # "SetAddress"
  <2>1. ~Assigning'
    BY <1>1, <1>7 DEF Assigning
  <2>2. Remembered' /\ Undisturbed' /\ Accepted'
    BY <1>1, <1>2, <2>1 DEF AddrInv, Remembered, Undisturbed, Accepted
  <2> QED
    BY <1>4, <1>5, <1>6, <2>2 DEF AddrInv
<1>8. CASE r.kind = "SetAddress"
  <2>1. prog = << >> /\ ~Events /\ ~evt[CtrlIn]
    BY <1>1, <1>8 DEF Quiet, Events, CtrlIn, Endpoints
  <2>2. changeAddressTo = dontChangeAddress
    BY <1>2, <2>1 DEF AddrInv, Remembered
  <2>3. ~Events' /\ ~Pending("allData0")'
    BY <1>1, <2>1 DEF Events, Pending
  <2>4. Remembered' /\ Undisturbed' /\ Accepted'
    BY <1>1, <1>3, <2>1, <2>2, <2>3 DEF Remembered, Undisturbed, Accepted
  <2> QED
    BY <1>4, <1>5, <1>6, <2>4 DEF AddrInv
<1> QED
  BY <1>7, <1>8

LEMMA AddrHostSetupAgain == ASSUME TypeInv, AddrInv, HostSetupAgain PROVE AddrInv'
<1>1. /\ ~setupFlag /\ sup' = hreq /\ hstage # "idle"
      /\ UNCHANGED <<prog, hstage, hreq, hAddr, changeAddressTo, FADDR, evt>>
      /\ UNCHANGED <<toggle, stall, deviceState>> /\ resetFlag' = resetFlag
  BY DEF HostSetupAgain, DeviceUnchanged, software, host, power, resetFlag
<1>2. Assigning' = Assigning /\ Events' = Events /\ Vacuous' = Vacuous
  BY <1>1 DEF Assigning, Events, Vacuous
<1>3. \A op : Pending(op)' = Pending(op)
  BY <1>1 DEF Pending
<1>4. ProgShape' /\ HostShape'
  BY <1>1, <1>2 DEF AddrInv, ProgShape, HostShape, Assigning
<1>5. Remembered' /\ Undisturbed' /\ DefaultAddress' /\ AddressAgreement'
  BY <1>1, <1>2, <1>3
     DEF AddrInv, Remembered, Undisturbed, DefaultAddress, AddressAgreement
<1>6. Accepted'
  BY <1>1, <1>2, <1>3 DEF AddrInv, Accepted
<1> QED
  BY <1>4, <1>5, <1>6 DEF AddrInv

\* While the controller holds tokens off for a SETUP, no program of the SETUP
\* branch is running when the host sees an answer.
LEMMA NoSetupRuns ==
    ASSUME AddrInv, SetupBlocks, ControlOpen
    PROVE  /\ ~setupFlag /\ ~resetFlag /\ FADDR = hAddr
           /\ \A op : op # "event" => ~Pending(op)
BY DEF AddrInv, ProgShape, Pending, ControlOpen, Reaches

\* A stalled assignment was not accepted.
LEMMA AddrHostInStalled ==
    ASSUME TypeInv, AddrInv, SetupBlocks, HostInStalled PROVE AddrInv'
<1>1. /\ ~setupFlag /\ stall[CtrlIn] /\ ~Pending("unstall") /\ FADDR = hAddr /\ ~resetFlag
  BY NoSetupRuns DEF HostInStalled
<1>2. /\ hstage' = "idle" /\ hreq' = NoRequest
      /\ UNCHANGED <<prog, changeAddressTo, deviceState, hAddr, FADDR, evt, sup>>
      /\ resetFlag' = resetFlag /\ setupFlag' = setupFlag
  BY DEF HostInStalled, EndTransfer, DeviceUnchanged, software, controller, power,
         resetFlag, setupFlag
<1>3. ~Assigning' /\ sup.kind # "SetAddress"
  BY <1>1, <1>2, ZlpPacket DEF Assigning, setupFlag
<1>4. ProgShape' /\ HostShape'
  BY <1>2, <1>3 DEF AddrInv, ProgShape, HostShape
<1>5. Undisturbed' /\ Accepted' /\ DefaultAddress' /\ AddressAgreement'
  BY <1>2, <1>3 DEF AddrInv, Undisturbed, Accepted, DefaultAddress, AddressAgreement
<1>6. Assigning => changeAddressTo = dontChangeAddress
  BY <1>1 DEF AddrInv, Accepted
<1>7. Remembered'
  BY <1>2, <1>3, <1>6 DEF AddrInv, Remembered
<1> QED
  BY <1>4, <1>5, <1>7 DEF AddrInv

\* The status stage of an assignment: host and device take the same address.
LEMMA AddrHostIn == ASSUME TypeInv, AddrInv, SetupBlocks, HostIn PROVE AddrInv'
<1>0. EndpointType
  BY TypeParts
<1>1. /\ ~setupFlag /\ ~resetFlag /\ FADDR = hAddr /\ ~stall[CtrlIn]
      /\ ~Pending("unstall") /\ ~Pending("stall") /\ ~Pending("dataIn1")
      /\ ~Pending("allData0")
  BY NoSetupRuns DEF HostIn
<1>2. /\ UNCHANGED <<prog, changeAddressTo, deviceState, FADDR, sup, stall>>
      /\ resetFlag' = resetFlag
  BY DEF HostIn, DeviceUnchanged, software, power, resetFlag
<1>3. evt'[CtrlIn] /\ Events'
  BY <1>0 DEF HostIn, EndpointType, Events, CtrlIn, Endpoints
<1>4. setupFlag' = setupFlag /\ (\A op : Pending(op)' = Pending(op))
  BY <1>2 DEF setupFlag, Pending
<1>5. CASE ~Assigning
  <2>1. hAddr' = hAddr /\ ~Assigning' /\ (hstage' = "idle" => hreq' = NoRequest)
    BY <1>5, ZlpPacket DEF HostIn, EndTransfer, Acknowledged, Assigning, host
  <2> QED
    BY <1>2, <1>3, <1>5, <2>1, AddrOther
<1>6. CASE Assigning
  <2>1. hstage = "statusIn" /\ sup = NoRequest
    BY <1>1, <1>6 DEF AddrInv, HostShape, setupFlag
  <2>2. /\ changeAddressTo # dontChangeAddress => toggle[CtrlIn] = 1
        /\ changeAddressTo = dontChangeAddress => Vacuous
    BY <1>1, <1>6 DEF AddrInv, Accepted
  <2>3. ProgShape'
    BY <1>2, <1>4 DEF AddrInv, ProgShape
  <2>4. DefaultAddress'
    BY <1>2 DEF AddrInv, DefaultAddress
  <2>5. CASE toggle[CtrlIn] = 0
    <3>1. UNCHANGED <<hstage, hreq, hAddr>>
      BY <2>5 DEF HostIn, host
    <3>2. Vacuous /\ Vacuous' /\ Assigning' /\ changeAddressTo = dontChangeAddress
      BY <1>2, <1>6, <2>2, <2>5, <3>1 DEF Vacuous, Assigning
    <3>3. HostShape'
      BY <1>2, <3>1 DEF AddrInv, HostShape, Assigning
    <3>4. Remembered' /\ Undisturbed' /\ Accepted' /\ AddressAgreement'
      BY <1>1, <1>2, <1>4, <3>1, <3>2
         DEF Remembered, Undisturbed, Accepted, AddressAgreement
    <3> QED
      BY <2>3, <2>4, <3>3, <3>4 DEF AddrInv
  <2>6. CASE toggle[CtrlIn] # 0
    <3>1. hstage' = "idle" /\ hreq' = NoRequest /\ hAddr' = hreq.arg
      BY <1>6, <2>1, <2>6 DEF HostIn, EndTransfer, Acknowledged, Assigning
    <3>2. ~Assigning'
      BY <3>1, ZlpPacket DEF Assigning
    <3>3. HostShape'
      BY <1>1, <1>2, <2>1, <3>1, <3>2, ZlpPacket DEF HostShape
    <3>4. Undisturbed' /\ Accepted'
      BY <3>2 DEF Undisturbed, Accepted
    <3>5. CASE changeAddressTo # dontChangeAddress
      <4>1. changeAddressTo = hAddr'
        BY <1>6, <3>1, <3>5 DEF AddrInv, Remembered
      <4>2. Remembered' /\ AddressAgreement'
        BY <1>2, <1>3, <3>2, <4>1 DEF Remembered, AddressAgreement
      <4> QED
        BY <2>3, <2>4, <3>3, <3>4, <4>2 DEF AddrInv
    <3>6. CASE changeAddressTo = dontChangeAddress
      <4>1. deviceState = "Default" /\ hreq.arg = 0
        BY <2>2, <3>6 DEF Vacuous
      <4>2. FADDR = 0
        BY <3>6, <4>1 DEF AddrInv, DefaultAddress, dontChangeAddress
      <4>3. Remembered' /\ AddressAgreement'
        BY <1>2, <3>1, <3>6, <4>1, <4>2 DEF Remembered, AddressAgreement
      <4> QED
        BY <2>3, <2>4, <3>3, <3>4, <4>3 DEF AddrInv
    <3> QED
      BY <3>5, <3>6
  <2> QED
    BY <2>5, <2>6
<1> QED
  BY <1>5, <1>6

LEMMA AddrHost ==
    ASSUME TypeInv, AddrInv, SetupBlocks, ~AbandonsAddress, Host PROVE AddrInv'
<1>0. EndpointType
  BY TypeParts
<1>i. hstage = "idle" => ~Assigning
  BY ZlpPacket DEF AddrInv, HostShape, Assigning
<1>a. MayAbandon => ~Assigning
  BY DEF MayAbandon, Assigning
<1>1. CASE HostOut
  <2>1. ~Assigning
    BY <1>1 DEF HostOut, AddrInv, HostShape
  <2>2. /\ hreq' = NoRequest /\ hAddr' = hAddr /\ resetFlag' = resetFlag
        /\ UNCHANGED <<prog, changeAddressTo, FADDR, deviceState, sup>>
        /\ evt' = [evt EXCEPT ![CtrlOut] = TRUE]
    BY <1>1 DEF HostOut, EndTransfer, DeviceUnchanged, software, power, resetFlag
  <2>3. evt[CtrlIn] => evt'[CtrlIn]
    BY <1>0, <2>2 DEF EndpointType, CtrlIn, CtrlOut, Endpoints
  <2>4. ~Assigning'
    BY <2>2, ZlpPacket DEF Assigning
  <2> QED
    BY <2>1, <2>2, <2>3, <2>4, AddrOther
<1>2. CASE HostPollsKeyboard
  <2>1. ~Assigning
    BY <1>2, <1>i DEF HostPollsKeyboard, Reconfiguring, Assigning
  <2>2. /\ hreq' = hreq /\ hstage' = hstage /\ hAddr' = hAddr /\ resetFlag' = resetFlag
        /\ UNCHANGED <<prog, changeAddressTo, FADDR, deviceState, sup>>
        /\ evt' = [evt EXCEPT ![KbdIn] = TRUE]
    BY <1>2 DEF HostPollsKeyboard, DeviceUnchanged, software, power, resetFlag
  <2>3. evt[CtrlIn] => evt'[CtrlIn]
    BY <1>0, <2>2 DEF EndpointType, CtrlIn, KbdIn, Endpoints
  <2>4. ~Assigning' /\ (hstage' = "idle" => hreq' = NoRequest)
    BY <2>1, <2>2 DEF Assigning, AddrInv, HostShape
  <2> QED
    BY <2>1, <2>2, <2>3, <2>4, AddrOther
<1>3. CASE HostGivesUp \/ HostReset \/ PullCable
  <2>1. ~Assigning
    BY <1>3, <1>i, <1>a DEF HostGivesUp, HostReset, PullCable
  <2>2. /\ hreq' = NoRequest /\ UNCHANGED <<prog, changeAddressTo, FADDR, deviceState>>
        /\ evt' = evt /\ sup' = sup
    BY <1>3
       DEF HostGivesUp, HostReset, PullCable, ForgetDevice, EndTransfer, DeviceUnchanged,
           software, controller
  <2>3. \/ hAddr' = hAddr /\ resetFlag' = resetFlag
        \/ hAddr' = 0 /\ resetFlag'
        \/ hAddr' = NoHost
    BY <1>3 DEF HostGivesUp, HostReset, PullCable, controller, power, resetFlag
  <2>4. ~Assigning'
    BY <2>2, ZlpPacket DEF Assigning
  <2> QED
    BY <2>1, <2>2, <2>3, <2>4, AddrOther
<1>4. CASE BusIdle \/ HostResume \/ PlugCable
  <2>1. resetFlag' = resetFlag
    BY <1>4 DEF BusIdle, HostResume, PlugCable, resetFlag
  <2>2. /\ UNCHANGED <<prog, sup, hstage, hreq, hAddr, changeAddressTo, FADDR, evt>>
        /\ UNCHANGED <<toggle, stall, deviceState>>
    BY <1>4 DEF BusIdle, HostResume, PlugCable, DeviceUnchanged, software, host
  <2> QED
    BY <2>1, <2>2, AddrFrame
<1> QED
  BY <1>1, <1>2, <1>3, <1>4, AddrHostSetup, AddrHostSetupAgain, AddrHostInStalled,
     AddrHostIn DEF Host

LEMMA AddrStep ==
    ASSUME TypeInv, AddrInv, SetupBlocks, ~AbandonsAddress, [Next]_vars
    PROVE  AddrInv'
<1>1. CASE KeyboardReport \/ UNCHANGED vars
  <2>1. /\ UNCHANGED <<prog, sup, hstage, hreq, hAddr, changeAddressTo, FADDR, evt>>
        /\ UNCHANGED <<toggle, stall, deviceState>> /\ resetFlag' = resetFlag
    BY <1>1 DEF KeyboardReport, vars, software, controller, host, power, resetFlag
  <2> QED
    BY <2>1, AddrFrame
<1> QED
  BY <1>1, AddrHandle, AddrHost DEF Next

\* usb.h:314-330 and SET_ADDRESS: for any addresses and requests, and whatever
\* SETUP packets, lost acknowledgements and resets lie between them, the device
\* answers to the address the host has set, provided the controller holds off
\* the tokens of a transfer while its SETUP is flagged, and the host does not
\* give up a SET_ADDRESS half way.
THEOREM AddressesAgree ==
    ASSUME SetupBlocks, ~AbandonsAddress
    PROVE  Spec => []AddressAgreement
<1>1. TypeInv /\ AddrInv /\ [Next]_vars => AddrInv'
  BY AddrStep
<1>2. AddrInv => AddressAgreement
  BY DEF AddrInv
<1>3. Spec => [](TypeInv /\ AddrInv)
  BY InitType, TypeStep, AddrInit, <1>1, PTL DEF Spec
<1> QED
  BY <1>2, <1>3, PTL
=============================================================================
