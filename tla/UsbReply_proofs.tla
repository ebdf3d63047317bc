---------------------------- MODULE UsbReply_proofs ----------------------------
(***************************************************************************)
(* What each branch of the SETUP handler leaves to the controller, for any *)
(* request: every branch stalls the pipe or prepares the reply and the     *)
(* status stage of its own request, or belongs to a request that gets      *)
(* none.  Programs are looked at as sets of register accesses, which makes *)
(* them easy to join; where the order matters it is said apart.            *)
(***************************************************************************)
EXTENDS UsbControl_proofs

\* The accesses of a program.
Accesses(s) == {s[i] : i \in 1 .. Len(s)}

LEMMA AccessesConcat ==
    ASSUME NEW s \in Seq(Ops), NEW t \in Seq(Ops)
    PROVE  /\ s \o t \in Seq(Ops) /\ Len(s \o t) = Len(s) + Len(t)
           /\ Accesses(s \o t) = Accesses(s) \union Accesses(t)
<1>1. /\ s \o t \in Seq(Ops) /\ Len(s \o t) = Len(s) + Len(t)
      /\ \A i \in 1 .. Len(s) + Len(t) :
           (s \o t)[i] = IF i <= Len(s) THEN s[i] ELSE t[i - Len(s)]
  BY ConcatProperties
<1>2. Len(s) \in Nat /\ Len(t) \in Nat
  BY LenProperties
<1>3. ASSUME NEW i \in 1 .. Len(s) + Len(t)
      PROVE  (s \o t)[i] \in Accesses(s) \union Accesses(t)
  <2>1. CASE i <= Len(s)
    <3>1. i \in 1 .. Len(s)
      BY <1>2, <2>1
    <3> QED
      BY <1>1, <2>1, <3>1 DEF Accesses
  <2>2. CASE ~(i <= Len(s))
    <3>1. i - Len(s) \in 1 .. Len(t)
      BY <1>2, <2>2
    <3> QED
      BY <1>1, <2>2, <3>1 DEF Accesses
  <2> QED
    BY <2>1, <2>2
<1>4. ASSUME NEW i \in 1 .. Len(s)
      PROVE  s[i] \in Accesses(s \o t)
  <2>1. i \in 1 .. Len(s) + Len(t) /\ i <= Len(s)
    BY <1>2
  <2>2. (s \o t)[i] = s[i]
    BY <1>1, <2>1
  <2> QED
    BY <1>1, <2>1, <2>2 DEF Accesses
<1>5. ASSUME NEW i \in 1 .. Len(t)
      PROVE  t[i] \in Accesses(s \o t)
  <2>1. i + Len(s) \in 1 .. Len(s) + Len(t) /\ ~(i + Len(s) <= Len(s))
        /\ (i + Len(s)) - Len(s) = i
    BY <1>2
  <2>2. (s \o t)[i + Len(s)] = t[i]
    BY <1>1, <2>1
  <2> QED
    BY <1>1, <2>1, <2>2 DEF Accesses
<1>6. Accesses(s \o t) \subseteq Accesses(s) \union Accesses(t)
  BY <1>1, <1>3 DEF Accesses
<1>7. Accesses(s) \union Accesses(t) \subseteq Accesses(s \o t)
  BY <1>4, <1>5 DEF Accesses
<1> QED
  BY <1>1, <1>6, <1>7

LEMMA AccessesTuples ==
    ASSUME NEW a \in Ops, NEW b \in Ops
    PROVE  /\ << >> \in Seq(Ops) /\ Accesses(<< >>) = {}
           /\ << a >> \in Seq(Ops) /\ Accesses(<< a >>) = {a}
           /\ << a, b >> \in Seq(Ops) /\ Accesses(<< a, b >>) = {a, b}
<1>1. << >> \in Seq(Ops) /\ Accesses(<< >>) = {}
  BY EmptySeq DEF Accesses
<1>2. << a >> \in Seq(Ops) /\ Accesses(<< a >>) = {a}
  BY DEF Accesses
<1>3. << a, b >> \in Seq(Ops)
  OBVIOUS
<1>4. Accesses(<< a, b >>) = {a, b}
  BY DEF Accesses
<1> QED
  BY <1>1, <1>2, <1>3, <1>4

\* What the parts of a handler's program access.
SendOp(p) == [op |-> "send", packet |-> p]

LEMMA OpTypes ==
    /\ \A name \in {"dataIn1", "armOut", "stall", "allData0", "stopKbd", "unstall",
                    "clearSetup"} : Op(name) \in Ops /\ Op(name).op = name
    /\ \A p \in Packets : SendOp(p) \in Ops /\ SendOp(p).op = "send" /\ SendOp(p).packet = p
<1>1. ASSUME NEW name \in {"dataIn1", "armOut", "stall", "allData0", "stopKbd"}
      PROVE  Op(name) \in Ops
  <2>1. Op(name) \in {Op(n) : n \in {"dataIn1", "armOut", "stall", "allData0", "stopKbd"}}
    OBVIOUS
  <2> QED
    BY <2>1 DEF Ops, BodyOps
<1>2. Op("unstall") \in Ops /\ Op("clearSetup") \in Ops
  BY DEF Ops
<1>3. \A name : Op(name).op = name
  BY DEF Op
<1>4. ASSUME NEW p \in Packets PROVE SendOp(p) \in Ops
  <2>1. SendOp(p) \in {[op |-> "send", packet |-> q] : q \in Packets}
    BY DEF SendOp
  <2> QED
    BY <2>1 DEF Ops, BodyOps
<1>5. \A p : SendOp(p).op = "send" /\ SendOp(p).packet = p
  BY DEF SendOp
<1> QED
  BY <1>1, <1>2, <1>3, <1>4, <1>5

LEMMA PartAccesses ==
    /\ << >> \in Seq(Ops) /\ Accesses(<< >>) = {}
    /\ SetStall \in Seq(Ops) /\ Accesses(SetStall) = {Op("stall")}
    /\ ReceiveZero \in Seq(Ops) /\ Accesses(ReceiveZero) = {Op("dataIn1"), Op("armOut")}
    /\ ConfigureEndpoints \in Seq(Ops)
    /\ Accesses(ConfigureEndpoints) = {Op("allData0"), Op("stopKbd")}
    /\ SendZero \in Seq(Ops) /\ Accesses(SendZero) = {Op("dataIn1"), SendOp(Zlp)}
<1>1. /\ << >> \in Seq(Ops) /\ Accesses(<< >>) = {}
      /\ SetStall \in Seq(Ops) /\ Accesses(SetStall) = {Op("stall")}
  BY OpTypes, AccessesTuples DEF SetStall
<1>2. /\ ReceiveZero \in Seq(Ops) /\ Accesses(ReceiveZero) = {Op("dataIn1"), Op("armOut")}
      /\ ConfigureEndpoints \in Seq(Ops)
      /\ Accesses(ConfigureEndpoints) = {Op("allData0"), Op("stopKbd")}
  BY OpTypes, AccessesTuples DEF ReceiveZero, ConfigureEndpoints
<1>3. /\ << Op("dataIn1") >> \in Seq(Ops) /\ Accesses(<< Op("dataIn1") >>) = {Op("dataIn1")}
      /\ << SendOp(Zlp) >> \in Seq(Ops) /\ Accesses(<< SendOp(Zlp) >>) = {SendOp(Zlp)}
  BY OpTypes, AccessesTuples, ZlpPacket
<1>4. SendZero = << Op("dataIn1") >> \o << SendOp(Zlp) >>
  BY DEF SendZero, Send, SendOp
<1>5. SendZero \in Seq(Ops) /\ Accesses(SendZero) = {Op("dataIn1")} \union {SendOp(Zlp)}
  <2>1. /\ SendZero \in Seq(Ops)
        /\ Accesses(SendZero)
             = Accesses(<< Op("dataIn1") >>) \union Accesses(<< SendOp(Zlp) >>)
    BY <1>3, <1>4, AccessesConcat, Zenon
  <2> QED
    BY <1>3, <2>1
<1> QED
  BY <1>1, <1>2, <1>5

LEMMA SendAccesses ==
    ASSUME NEW p \in Packets
    PROVE  Send(p) \in Seq(Ops) /\ Accesses(Send(p)) = {SendOp(p)}
<1>1. Send(p) = << SendOp(p) >>
  BY DEF Send, SendOp
<1> QED
  BY <1>1, OpTypes, AccessesTuples

LEMMA ReplyAccesses ==
    ASSUME TypeOK, NEW r, r.kind \in ReadKinds
    PROVE  /\ ReplyValue(r) \in 0 .. 255 /\ Packet(r.kind, ReplyValue(r)) \in Packets
           /\ ReadReply(r) \in Seq(Ops)
           /\ Accesses(ReadReply(r)) =
                {Op("dataIn1"), Op("armOut"), SendOp(Packet(r.kind, ReplyValue(r)))}
<1> DEFINE p == Packet(r.kind, ReplyValue(r))
<1>1. ReplyValue(r) \in 0 .. 255
  BY DEF ReplyValue, TypeOK
<1>2. p \in Packets
  BY <1>1 DEF Packet, Packets
<1>3. ReadReply(r) = ReceiveZero \o Send(p)
  BY DEF ReadReply
<1> HIDE DEF p
<1>5. Send(p) \in Seq(Ops) /\ Accesses(Send(p)) = {SendOp(p)}
  BY <1>2, SendAccesses
<1>6. ReceiveZero \in Seq(Ops) /\ Accesses(ReceiveZero) = {Op("dataIn1"), Op("armOut")}
  BY PartAccesses
<1>4. /\ ReadReply(r) \in Seq(Ops)
      /\ Accesses(ReadReply(r)) = {Op("dataIn1"), Op("armOut")} \union {SendOp(p)}
  <2>1. /\ ReadReply(r) \in Seq(Ops)
        /\ Accesses(ReadReply(r)) = Accesses(ReceiveZero) \union Accesses(Send(p))
    BY <1>3, <1>5, <1>6, AccessesConcat, Zenon
  <2> QED
    BY <1>5, <1>6, <2>1
<1> QED
  BY <1>1, <1>2, <1>4 DEF p

\* The program on entry to the SETUP branch.
LEMMA HandlerAccesses ==
    ASSUME NEW body \in Seq(Ops)
    PROVE  /\ Handler(body) \in Seq(Ops)
           /\ Accesses(Handler(body)) =
                Accesses(body) \union {Op("unstall"), Op("clearSetup")}
<1>1. /\ << Op("unstall") >> \in Seq(Ops) /\ Accesses(<< Op("unstall") >>) = {Op("unstall")}
      /\ << Op("clearSetup") >> \in Seq(Ops)
      /\ Accesses(<< Op("clearSetup") >>) = {Op("clearSetup")}
  BY OpTypes, AccessesTuples
<1> DEFINE start == << Op("unstall") >> \o body
<1>2. /\ start \in Seq(Ops)
      /\ Accesses(start) = Accesses(<< Op("unstall") >>) \union Accesses(body)
  BY <1>1, AccessesConcat, Zenon
<1>3. Handler(body) = start \o << Op("clearSetup") >>
  BY DEF Handler
<1> HIDE DEF start
<1>4. /\ Handler(body) \in Seq(Ops)
      /\ Accesses(Handler(body)) = Accesses(start) \union Accesses(<< Op("clearSetup") >>)
  BY <1>1, <1>2, <1>3, AccessesConcat, Zenon
<1> QED
  BY <1>1, <1>2, <1>4
-----------------------------------------------------------------------------
(***************************************************************************)
(* What every branch of the SETUP handler owes its request, as a fact      *)
(* about the set of accesses it leaves to the controller.                  *)
(***************************************************************************)
Has(A, name) == \E x \in A : x.op = name

Clears(A) == \E x \in A : x.op = "ClearHalt" /\ x.ep = KbdIn

\* The toggle of the control pipe is not reset after it was set.
Ordered(s) ==
    \A i, j \in 1 .. Len(s) : s[i].op = "dataIn1" /\ s[j].op = "allData0" => j < i

\* Requests of which nothing comes: see Unanswered.
Silent(r) ==
    \/ r.kind = "Reserved"
    \/ r.kind = "ClassGetDescriptor" /\ r.arg # 1
    \/ r.kind = "SetAddress" /\ r.arg = 0 /\ deviceState = "Default"

Accepts(r) == r.kind = "SetConfiguration" /\ deviceState # "Default" /\ r.arg <= 1

Unhalts(r) == r.kind = "ClearHalt" /\ r.arg = KbdIn /\ deviceState = "Configured"

\* The packet it sends is the reply to this request.
RightPacket(r, A) ==
    \A x \in A : x.op = "send" =>
        /\ x.packet.kind = IF IsRead(r) THEN r.kind ELSE "zlp"
        /\ r.kind = "GetConfiguration" =>
             x.packet.val = IF deviceState = "Configured" THEN 1 ELSE 0

\* The pipe is stalled, or the reply and the status stage are prepared.
RightReply(r, A) ==
    \/ Silent(r) \/ Has(A, "stall")
    \/ Has(A, "dataIn1") /\ Has(A, "send") /\ (IsRead(r) => Has(A, "armOut"))

RightConfiguration(r, A) ==
    /\ r.kind = "SetConfiguration" => (Has(A, "stall") <=> ~Accepts(r))
    /\ Accepts(r) /\ r.arg = 1 => Has(A, "allData0") /\ Has(A, "stopKbd")
    /\ Has(A, "allData0") => Accepts(r) /\ r.arg = 1

RightHalt(r, A) ==
    /\ r.kind = "ClearHalt" =>
         (Has(A, "stall") <=> deviceState # "Configured" \/ r.arg \notin {2, 3})
    /\ Unhalts(r) => Clears(A)
    /\ Clears(A) => Unhalts(r)

Right(r, A) ==
    RightPacket(r, A) /\ RightReply(r, A) /\ RightConfiguration(r, A) /\ RightHalt(r, A)

\* A program without allData0 is in order.
LEMMA OrderedWithout ==
    ASSUME NEW s \in Seq(Ops), ~Has(Accesses(s), "allData0")
    PROVE  Ordered(s)
BY DEF Ordered, Has, Accesses

\* Handlers that stall and do nothing else.
LEMMA RightStall ==
    ASSUME NEW r, ~Accepts(r),
           r.kind = "ClearHalt" => deviceState # "Configured"
    PROVE  Right(r, {Op("stall")}) /\ ~Has({Op("stall")}, "allData0")
<1> DEFINE A == {Op("stall")}
<1>1. \A x \in A : x.op = "stall"
  BY DEF Op
<1>2. Has(A, "stall") /\ ~Has(A, "allData0") /\ ~Clears(A)
  BY <1>1 DEF Has, Clears
<1>3. RightPacket(r, A) /\ RightReply(r, A)
  BY <1>1, <1>2 DEF RightPacket, RightReply
<1>4. RightConfiguration(r, A) /\ RightHalt(r, A)
  BY <1>2 DEF RightConfiguration, RightHalt, Accepts, Unhalts
<1> QED
  BY <1>2, <1>3, <1>4 DEF Right

\* Handlers that acknowledge and do nothing else.
LEMMA RightZero ==
    ASSUME NEW r, ~IsRead(r), r.kind \notin {"ClearHalt"},
           r.kind = "SetConfiguration" => deviceState # "Default" /\ r.arg = 0
    PROVE  /\ Right(r, {Op("dataIn1"), SendOp(Zlp)})
           /\ ~Has({Op("dataIn1"), SendOp(Zlp)}, "allData0")
<1> DEFINE A == {Op("dataIn1"), SendOp(Zlp)}
<1>1. /\ \A x \in A : x.op = "dataIn1" \/ (x.op = "send" /\ x.packet.kind = "zlp")
      /\ Op("dataIn1") \in A /\ SendOp(Zlp) \in A
      /\ Op("dataIn1").op = "dataIn1" /\ SendOp(Zlp).op = "send"
  BY DEF Op, SendOp, Zlp, Packet
<1> HIDE DEF A
<1>2. /\ Has(A, "dataIn1") /\ Has(A, "send")
      /\ ~Has(A, "stall") /\ ~Has(A, "allData0") /\ ~Clears(A)
  BY <1>1 DEF Has, Clears
<1>3. RightPacket(r, A) /\ RightReply(r, A)
  BY <1>1, <1>2 DEF RightPacket, RightReply, IsRead, ReadKinds
<1>4. RightConfiguration(r, A) /\ RightHalt(r, A)
  BY <1>2 DEF RightConfiguration, RightHalt, Accepts, Unhalts
<1> QED
  BY <1>2, <1>3, <1>4 DEF Right, A

\* Handlers of reads: with the reply, or with the reply and a stall.
LEMMA RightRead ==
    ASSUME NEW r, r.kind \in ReadKinds, NEW v,
           r.kind = "GetConfiguration" => v = IF deviceState = "Configured" THEN 1 ELSE 0,
           NEW A,
           \/ A = {Op("dataIn1"), Op("armOut"), SendOp(Packet(r.kind, v))}
           \/ A = {Op("stall"), Op("dataIn1"), Op("armOut"), SendOp(Packet(r.kind, v))}
           \/ A = {Op("dataIn1"), Op("armOut"), Op("stall")}
    PROVE  Right(r, A) /\ ~Has(A, "allData0")
<1>1. \A x \in A : /\ x.op \in {"dataIn1", "armOut", "stall", "send"}
                   /\ x.op = "send" => x.packet.kind = r.kind /\ x.packet.val = v
  BY DEF Op, SendOp, Packet
<1>2. ~Has(A, "allData0") /\ ~Clears(A)
  BY <1>1 DEF Has, Clears
<1>3. Has(A, "stall") \/ (Has(A, "dataIn1") /\ Has(A, "send") /\ Has(A, "armOut"))
  <2>1. /\ Op("dataIn1").op = "dataIn1" /\ Op("armOut").op = "armOut"
        /\ Op("stall").op = "stall" /\ SendOp(Packet(r.kind, v)).op = "send"
    BY DEF Op, SendOp
  <2> QED
    BY <2>1 DEF Has
<1>4. RightPacket(r, A) /\ RightReply(r, A)
  BY <1>1, <1>3 DEF RightPacket, RightReply, IsRead
<1>5. RightConfiguration(r, A) /\ RightHalt(r, A)
  BY <1>2 DEF RightConfiguration, RightHalt, Accepts, Unhalts, ReadKinds
<1> QED
  BY <1>2, <1>4, <1>5 DEF Right

\* Handlers of a halt, for an endpoint the device has and for another.
LEMMA RightHaltAccesses ==
    ASSUME NEW r, r.kind \in {"SetHalt", "ClearHalt"}, deviceState = "Configured",
           NEW A,
           \/ /\ r.arg \in {2, 3}
              /\ A = {[op |-> r.kind, ep |-> r.arg], Op("dataIn1"), SendOp(Zlp)}
           \/ /\ r.arg \notin {2, 3}
              /\ A = {Op("stall"), Op("dataIn1"), SendOp(Zlp)}
    PROVE  Right(r, A) /\ ~Has(A, "allData0")
<1>1. /\ Op("dataIn1").op = "dataIn1" /\ Op("stall").op = "stall"
      /\ SendOp(Zlp).op = "send" /\ SendOp(Zlp).packet.kind = "zlp"
      /\ Op("dataIn1") \in A /\ SendOp(Zlp) \in A
  BY DEF Op, SendOp, Zlp, Packet
<1>2. ~IsRead(r) /\ r.kind \notin {"SetConfiguration", "GetConfiguration"}
  BY DEF IsRead, ReadKinds
<1>3. Has(A, "dataIn1") /\ Has(A, "send")
  BY <1>1 DEF Has
<1>4. ~Has(A, "allData0")
  BY <1>1 DEF Has
<1>5. RightPacket(r, A)
  <2> SUFFICES ASSUME NEW x \in A, x.op = "send"
               PROVE  x.packet.kind = "zlp"
    BY <1>2 DEF RightPacket
  <2>1. x = SendOp(Zlp)
    BY <1>1
  <2> QED
    BY <1>1, <2>1
<1>6. RightReply(r, A) /\ RightConfiguration(r, A)
  BY <1>2, <1>3, <1>4 DEF RightReply, RightConfiguration, Accepts
<1>7. CASE r.arg \in {2, 3}
  <2> DEFINE halt == [op |-> r.kind, ep |-> r.arg]
  <2>1. halt \in A /\ halt.op = r.kind /\ halt.ep = r.arg
        /\ \A x \in A : x = halt \/ x.op \in {"dataIn1", "send"}
    BY <1>1, <1>7
  <2> HIDE DEF halt
  <2>2. ~Has(A, "stall")
    BY <2>1 DEF Has
  <2>3. Clears(A) <=> Unhalts(r)
    BY <2>1 DEF Clears, Unhalts
  <2>4. RightHalt(r, A)
    BY <1>7, <2>2, <2>3 DEF RightHalt
  <2> QED
    BY <1>4, <1>5, <1>6, <2>4 DEF Right
<1>8. CASE r.arg \notin {2, 3}
  <2>1. Has(A, "stall") /\ ~Clears(A)
    BY <1>1, <1>8 DEF Has, Clears
  <2>2. ~Unhalts(r)
    BY <1>8 DEF Unhalts, KbdIn
  <2>3. RightHalt(r, A)
    BY <1>8, <2>1, <2>2 DEF RightHalt
  <2> QED
    BY <1>4, <1>5, <1>6, <2>3 DEF Right
<1> QED
  BY <1>7, <1>8

\* The handler of an accepted SET_CONFIGURATION(1).
LEMMA RightConfigure ==
    ASSUME NEW r, r.kind = "SetConfiguration", r.arg = 1, deviceState # "Default",
           NEW A,
           A = {Op("allData0"), Op("stopKbd"), Op("dataIn1"), SendOp(Zlp)}
    PROVE  Right(r, A)
<1>a. \A name : Op(name).op = name
  BY DEF Op
<1>b. SendOp(Zlp).op = "send" /\ SendOp(Zlp).packet.kind = "zlp"
  BY DEF SendOp, Zlp, Packet
<1>1. /\ \A x \in A : \/ x.op \in {"allData0", "stopKbd", "dataIn1"}
                      \/ x.op = "send" /\ x.packet.kind = "zlp"
      /\ Op("allData0") \in A /\ Op("stopKbd") \in A /\ Op("dataIn1") \in A
      /\ SendOp(Zlp) \in A
  BY <1>a, <1>b
<1>2. /\ Has(A, "allData0") /\ Has(A, "stopKbd") /\ Has(A, "dataIn1") /\ Has(A, "send")
      /\ ~Has(A, "stall") /\ ~Clears(A)
  BY <1>a, <1>b, <1>1 DEF Has, Clears
<1>3. ~IsRead(r) /\ Accepts(r) /\ ~Unhalts(r)
  BY DEF IsRead, ReadKinds, Accepts, Unhalts
<1>4. RightPacket(r, A) /\ RightReply(r, A)
  BY <1>1, <1>2, <1>3 DEF RightPacket, RightReply
<1>5. RightConfiguration(r, A) /\ RightHalt(r, A)
  BY <1>2, <1>3 DEF RightConfiguration, RightHalt
<1> QED
  BY <1>4, <1>5 DEF Right

\* Handlers that do nothing.
LEMMA RightNothing ==
    ASSUME NEW r, Silent(r)
    PROVE  Right(r, {}) /\ ~Has({}, "allData0")
<1>1. \A name : ~Has({}, name)
  BY DEF Has
<1>2. ~Clears({}) /\ ~Accepts(r) /\ ~Unhalts(r)
      /\ r.kind \notin {"SetConfiguration", "ClearHalt"}
  BY DEF Clears, Accepts, Unhalts, Silent
<1>3. RightPacket(r, {}) /\ RightReply(r, {})
  BY DEF RightPacket, RightReply
<1> QED
  BY <1>1, <1>2, <1>3 DEF Right, RightConfiguration, RightHalt

\* The accesses around the body make no difference.
LEMMA RightHandler ==
    ASSUME NEW r, NEW A, Right(r, A)
    PROVE  Right(r, A \union {Op("unstall"), Op("clearSetup")})
<1> DEFINE B == A \union {Op("unstall"), Op("clearSetup")}
<1>1. /\ A \subseteq B
      /\ \A x \in B : x \in A \/ x.op \in {"unstall", "clearSetup"}
  BY DEF Op
<1> HIDE DEF B
<1>2. \A name : name \notin {"unstall", "clearSetup"} => (Has(B, name) <=> Has(A, name))
  BY <1>1 DEF Has
<1>3. Clears(B) <=> Clears(A)
  BY <1>1 DEF Clears
<1>4. RightPacket(r, B)
  BY <1>1 DEF Right, RightPacket
<1>5. RightReply(r, B)
  BY <1>2 DEF Right, RightReply
<1>6. RightConfiguration(r, B)
  BY <1>2 DEF Right, RightConfiguration
<1>7. RightHalt(r, B)
  BY <1>2, <1>3 DEF Right, RightHalt
<1> QED
  BY <1>4, <1>5, <1>6, <1>7 DEF Right, B

\* What the handler's program owes its request, when it starts.
Started(r) ==
    Right(r, Accesses(prog')) /\ Ordered(prog') /\ Has(Accesses(prog'), "unstall")

LEMMA Starts ==
    ASSUME NEW r, NEW body \in Seq(Ops), Right(r, Accesses(body)), Answer(body),
           ~Has(Accesses(body), "allData0")
    PROVE  Started(r)
<1>1. /\ prog' \in Seq(Ops)
      /\ Accesses(prog') = Accesses(body) \union {Op("unstall"), Op("clearSetup")}
  BY HandlerAccesses DEF Answer
<1>2. Right(r, Accesses(prog'))
  BY <1>1, RightHandler
<1>3. \A x \in {Op("unstall"), Op("clearSetup")} : x.op \in {"unstall", "clearSetup"}
  BY DEF Op
<1>4. ~Has(Accesses(prog'), "allData0")
  BY <1>1, <1>3 DEF Has
<1>5. Ordered(prog')
  BY <1>1, <1>4, OrderedWithout
<1>6. Has(Accesses(prog'), "unstall")
  <2>1. Op("unstall") \in Accesses(prog') /\ Op("unstall").op = "unstall"
    BY <1>1 DEF Op
  <2> QED
    BY <2>1 DEF Has
<1> QED
  BY <1>2, <1>5, <1>6 DEF Started

\* USB_configured_setup_ep resets the toggles before the status stage sets one.
LEMMA ConfigureOrdered == Ordered(Handler(ConfigureEndpoints \o SendZero))
<1> DEFINE s == ConfigureEndpoints
           t == SendZero
           body == s \o t
<1>1. /\ s \in Seq(BodyOps) /\ Len(s) = 2 /\ t \in Seq(BodyOps) /\ Len(t) = 2
      /\ s[1].op = "allData0" /\ s[2].op = "stopKbd"
      /\ t[1].op = "dataIn1" /\ t[2].op = "send"
  <2>1. s[1] = Op("allData0") /\ s[2] = Op("stopKbd")
    BY DEF ConfigureEndpoints
  <2> QED
    BY <2>1, Parts DEF Op
<1> HIDE DEF s, t
<1>2. /\ body \in Seq(BodyOps) /\ Len(body) = Len(s) + Len(t)
      /\ \A i \in 1 .. Len(s) + Len(t) :
           body[i] = IF i <= Len(s) THEN s[i] ELSE t[i - Len(s)]
  BY <1>1, ConcatProperties, Zenon
<1> HIDE DEF body
<1>3. /\ Len(body) = 4 /\ body[1] = s[1] /\ body[2] = s[2]
      /\ body[3] = t[1] /\ body[4] = t[2]
  <2>1. Len(s) = 2 /\ Len(t) = 2
    BY <1>1
  <2> QED
    BY <1>2, <2>1
<1>4. /\ Handler(body) \in Seq(Ops) /\ Len(Handler(body)) = Len(body) + 2
      /\ Handler(body)[1].op = "unstall" /\ Handler(body)[Len(body) + 2].op = "clearSetup"
      /\ \A i \in 1 .. Len(body) : Handler(body)[i + 1] = body[i]
  BY <1>2, HandlerShape
<1> DEFINE h == Handler(body)
<1>5. /\ Len(h) = 6 /\ h[1].op = "unstall" /\ h[6].op = "clearSetup"
      /\ h[2] = body[1] /\ h[3] = body[2] /\ h[4] = body[3] /\ h[5] = body[4]
  BY <1>3, <1>4
<1>6. Handler(ConfigureEndpoints \o SendZero) = h
  BY DEF h, body, s, t
<1> HIDE DEF h
<1>7. h[2].op = "allData0" /\ h[3].op = "stopKbd" /\ h[4].op = "dataIn1" /\ h[5].op = "send"
  BY <1>1, <1>3, <1>5
<1>8. Ordered(h)
  <2> SUFFICES ASSUME NEW i \in 1 .. 6, NEW j \in 1 .. 6,
                      h[i].op = "dataIn1", h[j].op = "allData0"
               PROVE  j < i
    BY <1>5 DEF Ordered
  <2>1. i = 4
    BY <1>5, <1>7
  <2>2. j = 2
    BY <1>5, <1>7
  <2> QED
    BY <2>1, <2>2
<1> QED
  BY <1>6, <1>8

LEMMA StartsRead ==
    ASSUME TypeInv, NEW r \in Requests, SetupStep(r), r.kind \in ReadKinds
    PROVE  Started(r)
<1> DEFINE reply == SendOp(Packet(r.kind, ReplyValue(r)))
<1>1. /\ ReadReply(r) \in Seq(Ops)
      /\ Accesses(ReadReply(r)) = {Op("dataIn1"), Op("armOut"), reply}
      /\ Packet(r.kind, 0) \in Packets
  <2>1. TypeOK
    BY DEF TypeInv
  <2>2. Packet(r.kind, 0) \in Packets
    BY DEF Packet, Packets
  <2> QED
    BY <2>1, <2>2, ReplyAccesses, Zenon
<1>2. r.kind = "GetConfiguration" =>
          ReplyValue(r) = IF deviceState = "Configured" THEN 1 ELSE 0
  BY DEF ReplyValue
<1>s. /\ SetStall \in Seq(Ops) /\ Accesses(SetStall) = {Op("stall")}
      /\ ReceiveZero \in Seq(Ops) /\ Accesses(ReceiveZero) = {Op("dataIn1"), Op("armOut")}
  BY PartAccesses, Zenon
<1>3. CASE Answer(SetStall)
  <2>1. Right(r, {Op("stall")}) /\ ~Has({Op("stall")}, "allData0")
    BY RightStall DEF Accepts, ReadKinds
  <2> QED
    BY <1>s, <1>3, <2>1, Starts, Zenon
<1>4. CASE Answer(ReadReply(r))
  <2>1. /\ Right(r, {Op("dataIn1"), Op("armOut"), reply})
        /\ ~Has({Op("dataIn1"), Op("armOut"), reply}, "allData0")
    BY <1>2, RightRead
  <2> HIDE DEF reply
  <2> QED
    BY <1>1, <1>4, <2>1, Starts, Zenon
<1>5. CASE GetReport(r) /\ ~Answer(SetStall)
  <2> DEFINE p == Packet(r.kind, 0)
             body == Send(p) \o ReceiveZero
  <2>1. Answer(body) /\ r.kind = "GetReport"
    BY <1>5 DEF GetReport
  <2>2. Send(p) \in Seq(Ops) /\ Accesses(Send(p)) = {SendOp(p)}
    BY <1>1, SendAccesses
  <2>3. /\ body \in Seq(Ops)
        /\ Accesses(body) = {SendOp(p)} \union {Op("dataIn1"), Op("armOut")}
    <3>1. /\ body \in Seq(Ops)
          /\ Accesses(body) = Accesses(Send(p)) \union Accesses(ReceiveZero)
      BY <1>s, <2>2, AccessesConcat, Zenon
    <3> QED
      BY <1>s, <2>2, <3>1
  <2>4. /\ Right(r, {SendOp(p)} \union {Op("dataIn1"), Op("armOut")})
        /\ ~Has({SendOp(p)} \union {Op("dataIn1"), Op("armOut")}, "allData0")
    <3>1. {SendOp(p)} \union {Op("dataIn1"), Op("armOut")}
            = {Op("dataIn1"), Op("armOut"), SendOp(p)}
      OBVIOUS
    <3> QED
      BY <2>1, <3>1, RightRead
  <2> HIDE DEF body, p
  <2> QED
    BY <2>1, <2>3, <2>4, Starts, Zenon
<1>6. CASE UnknownDescriptor(r)
  <2> DEFINE body == ReceiveZero \o SetStall
             A == {Op("dataIn1"), Op("armOut")} \union {Op("stall")}
  <2>1. Answer(body) /\ r.kind = "GetDescriptor"
    BY <1>6 DEF UnknownDescriptor
  <2>2. body \in Seq(Ops) /\ Accesses(body) = A
    <3>1. /\ body \in Seq(Ops)
          /\ Accesses(body) = Accesses(ReceiveZero) \union Accesses(SetStall)
      BY <1>s, AccessesConcat, Zenon
    <3> QED
      BY <1>s, <3>1
  <2>3. Right(r, A) /\ ~Has(A, "allData0")
    <3>1. A = {Op("dataIn1"), Op("armOut"), Op("stall")}
      OBVIOUS
    <3> HIDE DEF A
    <3> QED
      BY <2>1, <3>1, RightRead
  <2> HIDE DEF body, A
  <2> QED
    BY <2>1, <2>2, <2>3, Starts, Zenon
<1>7. CASE GetStatusEndpoint(r)
  <2> DEFINE stalled == SetStall \o ReadReply(r)
             plain == << >> \o ReadReply(r)
             R == {Op("dataIn1"), Op("armOut"), reply}
  <2>1. /\ stalled \in Seq(Ops) /\ Accesses(stalled) = {Op("stall")} \union R
        /\ plain \in Seq(Ops) /\ Accesses(plain) = {} \union R
    <3>1. << >> \in Seq(Ops) /\ Accesses(<< >>) = {}
      BY PartAccesses, Zenon
    <3>2. /\ stalled \in Seq(Ops)
          /\ Accesses(stalled) = Accesses(SetStall) \union Accesses(ReadReply(r))
      BY <1>1, <1>s, AccessesConcat, Zenon
    <3>3. /\ plain \in Seq(Ops)
          /\ Accesses(plain) = Accesses(<< >>) \union Accesses(ReadReply(r))
      BY <1>1, <3>1, AccessesConcat, Zenon
    <3> HIDE DEF stalled, plain, reply
    <3> QED
      BY <1>1, <1>s, <3>1, <3>2, <3>3, Zenon
  <2>2. Answer(stalled) \/ Answer(plain)
    BY <1>7 DEF GetStatusEndpoint
  <2>3. /\ Right(r, {Op("stall")} \union R) /\ ~Has({Op("stall")} \union R, "allData0")
        /\ Right(r, {} \union R) /\ ~Has({} \union R, "allData0")
    <3>1. /\ {Op("stall")} \union R = {Op("stall"), Op("dataIn1"), Op("armOut"), reply}
          /\ {} \union R = {Op("dataIn1"), Op("armOut"), reply}
      OBVIOUS
    <3> HIDE DEF R
    <3> QED
      BY <1>2, <3>1, RightRead
  <2> HIDE DEF stalled, plain, R
  <2> QED
    BY <2>1, <2>2, <2>3, Starts, Zenon
<1>8. CASE UnansweredRequest(r)
  <2>1. Answer(<< >>) /\ Silent(r)
    BY <1>8 DEF UnansweredRequest, Silent
  <2>2. Right(r, {}) /\ ~Has({}, "allData0")
    BY <2>1, RightNothing
  <2>3. << >> \in Seq(Ops) /\ Accesses(<< >>) = {}
    BY PartAccesses, Zenon
  <2> QED
    BY <2>1, <2>2, <2>3, Starts, Zenon
<1> QED
  <2>1. ~SetAddress(r) /\ ~SetConfiguration(r) /\ ~EndpointHalt(r) /\ ~SetProtocol(r)
        /\ ~SetIdle(r) /\ ~RemoteWakeup(r)
    BY DEF SetAddress, SetConfiguration, EndpointHalt, SetProtocol, SetIdle, RemoteWakeup,
           ReadKinds
  <2>2. /\ ReadRequest(r) => Answer(ReadReply(r))
        /\ RefusedRequest(r) => Answer(SetStall)
    BY DEF ReadRequest, RefusedRequest
  <2> QED
    BY <1>3, <1>4, <1>5, <1>6, <1>7, <1>8, <2>1, <2>2 DEF SetupStep

LEMMA StartsWrite ==
    ASSUME TypeInv, NEW r \in Requests, SetupStep(r), r.kind \notin ReadKinds
    PROVE  Started(r)
<1>s. /\ SetStall \in Seq(Ops) /\ Accesses(SetStall) = {Op("stall")}
      /\ SendZero \in Seq(Ops) /\ Accesses(SendZero) = {Op("dataIn1"), SendOp(Zlp)}
      /\ << >> \in Seq(Ops) /\ Accesses(<< >>) = {}
      /\ ConfigureEndpoints \in Seq(Ops)
      /\ Accesses(ConfigureEndpoints) = {Op("allData0"), Op("stopKbd")}
  BY PartAccesses, Zenon
<1>1. CASE Answer(SetStall) /\ ~Accepts(r)
           /\ (r.kind = "ClearHalt" => deviceState # "Configured")
  <2>1. Right(r, {Op("stall")}) /\ ~Has({Op("stall")}, "allData0")
    BY <1>1, RightStall
  <2> QED
    BY <1>s, <1>1, <2>1, Starts, Zenon
<1>2. CASE Answer(SendZero) /\ r.kind # "ClearHalt"
           /\ (r.kind = "SetConfiguration" => deviceState # "Default" /\ r.arg = 0)
  <2>1. /\ Right(r, {Op("dataIn1"), SendOp(Zlp)})
        /\ ~Has({Op("dataIn1"), SendOp(Zlp)}, "allData0")
    BY <1>2, RightZero DEF IsRead
  <2> QED
    BY <1>s, <1>2, <2>1, Starts, Zenon
<1>3. CASE Answer(<< >>) /\ Silent(r)
  <2>1. Right(r, {}) /\ ~Has({}, "allData0")
    BY <1>3, RightNothing
  <2> QED
    BY <1>s, <1>3, <2>1, Starts, Zenon
<1>4. CASE EndpointHalt(r) /\ deviceState = "Configured"
  <2> DEFINE halt == [op |-> r.kind, ep |-> r.arg]
             done == << halt >> \o SendZero
             both == SetStall \o SendZero
             Z == {Op("dataIn1"), SendOp(Zlp)}
  <2>k. r.kind \in {"SetHalt", "ClearHalt"}
    BY <1>4 DEF EndpointHalt
  <2>1. CASE r.arg \in {2, 3}
    <3>1. Answer(done)
      BY <1>4, <2>1 DEF EndpointHalt
    <3>2. halt \in Ops
      <4>1. halt \in {[op |-> kind, ep |-> ep] : kind \in {"SetHalt", "ClearHalt"}, ep \in {2, 3}}
        BY <2>k, <2>1
      <4> QED
        BY <4>1 DEF Ops, BodyOps
    <3>3. Right(r, {halt} \union Z) /\ ~Has({halt} \union Z, "allData0")
      <4>1. {halt} \union Z = {halt, Op("dataIn1"), SendOp(Zlp)}
        OBVIOUS
      <4> QED
        BY <1>4, <2>k, <2>1, <4>1, RightHaltAccesses
    <3> HIDE DEF halt
    <3>4. << halt >> \in Seq(Ops) /\ Accesses(<< halt >>) = {halt}
      BY <3>2, AccessesTuples
    <3>5. done \in Seq(Ops) /\ Accesses(done) = {halt} \union Z
      <4>1. /\ done \in Seq(Ops)
            /\ Accesses(done) = Accesses(<< halt >>) \union Accesses(SendZero)
        BY <1>s, <3>4, AccessesConcat, Zenon
      <4> QED
        BY <1>s, <3>4, <4>1
    <3> HIDE DEF done, Z
    <3> QED
      BY <3>1, <3>3, <3>5, Starts, Zenon
  <2>2. CASE r.arg \notin {2, 3}
    <3>1. Answer(both)
      BY <1>4, <2>2 DEF EndpointHalt
    <3>2. both \in Seq(Ops) /\ Accesses(both) = {Op("stall")} \union Z
      <4>1. /\ SetStall \o SendZero \in Seq(Ops)
            /\ Accesses(SetStall \o SendZero) = Accesses(SetStall) \union Accesses(SendZero)
        BY <1>s, AccessesConcat, Zenon
      <4> QED
        BY <1>s, <4>1
    <3>3. Right(r, {Op("stall")} \union Z) /\ ~Has({Op("stall")} \union Z, "allData0")
      <4>1. {Op("stall")} \union Z = {Op("stall"), Op("dataIn1"), SendOp(Zlp)}
        OBVIOUS
      <4> QED
        BY <1>4, <2>k, <2>2, <4>1, RightHaltAccesses
    <3> HIDE DEF both, Z
    <3> QED
      BY <3>1, <3>2, <3>3, Starts, Zenon
  <2> QED
    BY <2>1, <2>2
<1>5. CASE SetConfiguration(r) /\ r.arg = 1 /\ deviceState # "Default"
  <2> DEFINE body == ConfigureEndpoints \o SendZero
             A == {Op("allData0"), Op("stopKbd")} \union {Op("dataIn1"), SendOp(Zlp)}
  <2>1. Answer(body) /\ r.kind = "SetConfiguration"
    BY <1>5 DEF SetConfiguration
  <2>2. body \in Seq(Ops) /\ Accesses(body) = A
    <3>1. /\ body \in Seq(Ops)
          /\ Accesses(body) = Accesses(ConfigureEndpoints) \union Accesses(SendZero)
      BY <1>s, AccessesConcat, Zenon
    <3> QED
      BY <1>s, <3>1
  <2>3. Right(r, A)
    <3>1. A = {Op("allData0"), Op("stopKbd"), Op("dataIn1"), SendOp(Zlp)}
      OBVIOUS
    <3> HIDE DEF A
    <3> QED
      BY <1>5, <2>1, <3>1, RightConfigure
  <2>o. Ordered(prog')
    BY <2>1, ConfigureOrdered DEF Answer
  <2> HIDE DEF body, A
  <2>4. Right(r, Accesses(prog')) /\ Has(Accesses(prog'), "unstall")
    <3>1. Accesses(prog') = A \union {Op("unstall"), Op("clearSetup")}
      BY <2>1, <2>2, HandlerAccesses, Zenon DEF Answer
    <3>2. Op("unstall") \in Accesses(prog') /\ Op("unstall").op = "unstall"
      BY <3>1 DEF Op
    <3> QED
      BY <2>3, <3>1, <3>2, RightHandler DEF Has
  <2> QED
    BY <2>o, <2>4 DEF Started
<1> QED
  <2>1. ~ReadRequest(r) /\ ~GetReport(r) /\ ~UnknownDescriptor(r) /\ ~GetStatusEndpoint(r)
    BY DEF ReadRequest, GetReport, UnknownDescriptor, GetStatusEndpoint, ReadKinds
  <2>2. r.arg \in 0 .. 255
    BY RequestAssumption
  <2>3. CASE SetAddress(r)
    BY <1>1, <1>2, <1>3, <2>3 DEF SetAddress, Accepts, Silent
  <2>4. CASE SetConfiguration(r)
    <3>1. CASE deviceState = "Default" \/ r.arg > 1
      <4>1. Answer(SetStall)
        BY <2>2, <2>4, <3>1 DEF SetConfiguration
      <4>2. ~Accepts(r) /\ r.kind # "ClearHalt"
        BY <2>2, <2>4, <3>1 DEF SetConfiguration, Accepts
      <4> QED
        BY <1>1, <4>1, <4>2
    <3>2. CASE deviceState # "Default" /\ r.arg = 0
      BY <1>2, <2>4, <3>2 DEF SetConfiguration
    <3>3. CASE deviceState # "Default" /\ r.arg = 1
      BY <1>5, <2>4, <3>3
    <3> QED
      BY <2>2, <3>1, <3>2, <3>3
  <2>5. CASE EndpointHalt(r)
    BY <1>1, <1>4, <2>5 DEF EndpointHalt, Accepts
  <2>6. CASE SetProtocol(r) \/ SetIdle(r) \/ RemoteWakeup(r)
    BY <1>1, <1>2, <2>6 DEF SetProtocol, SetIdle, RemoteWakeup, Accepts
  <2>7. CASE RefusedRequest(r) \/ UnansweredRequest(r)
    BY <1>1, <1>3, <2>7 DEF RefusedRequest, UnansweredRequest, Accepts, Silent, ReadKinds
  <2> QED
    BY <2>1, <2>3, <2>4, <2>5, <2>6, <2>7 DEF SetupStep

\* What a handler does to the device's state.
LEMMA SetupState ==
    ASSUME TypeInv, NEW r \in Requests, SetupStep(r)
    PROVE  /\ Started(r) /\ prog = << >> /\ setupFlag /\ r = sup
           /\ UNCHANGED <<controller, host, bytes>>
           /\ r.kind \notin {"SetConfiguration", "SetAddress"} => deviceState' = deviceState
           /\ r.kind = "SetConfiguration" =>
                /\ Accepts(r) => deviceState' = IF r.arg = 1 THEN "Configured" ELSE "Address"
                /\ ~Accepts(r) => deviceState' = deviceState
           /\ r.kind # "SetAddress" => changeAddressTo' = changeAddressTo
           /\ r.kind = "SetAddress" => SetAddress(r)
<1>1. Started(r)
  BY StartsRead, StartsWrite
<1>2. EnterSetup(r) /\ bytes' = bytes /\ (r.kind = "SetAddress" => SetAddress(r))
      /\ (r.kind # "SetAddress" => changeAddressTo' = changeAddressTo)
  BY SetupSoftware
<1>3. UNCHANGED <<controller, host>>
  BY SetupBody DEF Answer
<1>4. r.kind \notin {"SetConfiguration", "SetAddress"} => deviceState' = deviceState
  <2>1. CASE \/ ReadRequest(r) \/ GetReport(r) \/ UnknownDescriptor(r)
             \/ GetStatusEndpoint(r) \/ EndpointHalt(r) \/ RemoteWakeup(r)
             \/ RefusedRequest(r) \/ UnansweredRequest(r)
    BY <2>1
       DEF ReadRequest, GetReport, UnknownDescriptor, GetStatusEndpoint, EndpointHalt,
           RemoteWakeup, RefusedRequest, UnansweredRequest, software
  <2>2. CASE SetAddress(r) \/ SetConfiguration(r) \/ SetProtocol(r) \/ SetIdle(r)
    BY <2>2 DEF SetAddress, SetConfiguration, SetProtocol, SetIdle
  <2> QED
    BY <2>1, <2>2 DEF SetupStep
<1>5. ASSUME r.kind = "SetConfiguration"
      PROVE  /\ Accepts(r) => deviceState' = IF r.arg = 1 THEN "Configured" ELSE "Address"
             /\ ~Accepts(r) => deviceState' = deviceState
  <2>1. SetConfiguration(r)
    BY <1>5
       DEF SetupStep, ReadRequest, GetReport, UnknownDescriptor, GetStatusEndpoint,
           SetAddress, EndpointHalt, SetProtocol, SetIdle, RemoteWakeup, RefusedRequest,
           UnansweredRequest
  <2>2. r.arg \in 0 .. 255
    BY RequestAssumption
  <2>3. /\ deviceState = "Default" \/ r.arg > 1 => deviceState' = deviceState
        /\ deviceState # "Default" /\ r.arg = 1 => deviceState' = "Configured"
        /\ deviceState # "Default" /\ r.arg = 0 => deviceState' = "Address"
    BY <2>1, <2>2 DEF SetConfiguration
  <2>4. CASE r.arg > 1
    <3>1. ~Accepts(r)
      BY <2>2, <2>4 DEF Accepts
    <3> QED
      BY <1>5, <2>3, <2>4, <3>1
  <2>5. CASE r.arg = 1
    BY <1>5, <2>3, <2>5 DEF Accepts
  <2>6. CASE r.arg = 0
    BY <1>5, <2>3, <2>6 DEF Accepts
  <2> QED
    BY <2>2, <2>4, <2>5, <2>6
<1> QED
  BY <1>1, <1>2, <1>3, <1>4, <1>5 DEF EnterSetup
================================================================================
