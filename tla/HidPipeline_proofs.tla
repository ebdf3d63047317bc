-------------------------- MODULE HidPipeline_proofs --------------------------
(***************************************************************************)
(* The host is never left with an old report by the overwriting and        *)
(* repeating that USB_initiate_send and USB_process_rx_tx do.  The proof   *)
(* is about any number of keys and slots, and wherever the linker puts     *)
(* report_hid_out.                                                         *)
(***************************************************************************)
EXTENDS HidPipeline, SequenceTheorems, TLAPS

\* A function on the slots, whatever its values.
IsReport(f) == f = [i \in Slots |-> f[i]]

Shapes ==
    /\ IsReport(report) /\ IsReport(buf) /\ IsReport(built)
    /\ t1 \in {"idle", "check", "length", "process", "copy", "clear"}
    /\ slot \in 1 .. NumSlots + 1
    /\ t1 # "copy" => slot = 1
    /\ evt \in BOOLEAN /\ raced \in BOOLEAN /\ cancelled \in BOOLEAN
    /\ overlooked \in BOOLEAN
    /\ bytes \in {no_bytes_left, ReportSize}

\* The report being sent is the one TMR1 built; column 8 changes it only when
\* TMR1 is done.
ReportIsBuilt == t1 # "idle" => report = built

\* The endpoint is marked in use only within USB_process_rx_tx.
BusyInProcess == bytes # no_bytes_left => t1 \in {"process", "copy", "clear"}

\* The host has the last report or can fetch it.
Settled ==
    /\ ready = NothingReady => hview = built
    /\ ready # NothingReady => ready = ReportSize /\ buf = built

\* The transfer of the last report is described to USB_process_rx_tx.
Described == bytes = ReportSize /\ pointer = "report"

\* How far a send has come that no event has fallen into.
SendProgress ==
    ~raced =>
        /\ t1 = "length" => pointer = "report"
        /\ t1 \in {"process", "clear"} => Described \/ bytes = no_bytes_left
        /\ t1 = "copy" => Described /\ \A i \in 1 .. slot - 1 : buf[i] = report[i]

\* What it has brought the host, unless it was withdrawn or never begun.
HostProgress ==
    ~raced /\ ~cancelled /\ ~overlooked =>
        /\ t1 \in {"idle", "clear"} => Settled
        /\ t1 = "process" /\ bytes = no_bytes_left => Settled

SendInv == Shapes /\ ReportIsBuilt /\ BusyInProcess /\ SendProgress

LEMMA SlotNumbers == NumSlots \in Nat /\ Slots = 1 .. NumSlots
BY ScanAssumption DEF Slots

\* Reports that agree on every slot are equal.
LEMMA SameReport ==
    ASSUME NEW f, NEW g, IsReport(f), IsReport(g), \A i \in Slots : f[i] = g[i]
    PROVE  f = g
BY DEF IsReport

LEMMA ReportOfShape == ASSUME NEW S PROVE IsReport(ReportOf(S))
BY DEF IsReport, ReportOf

LEMMA InitInvariant == Init => SendInv /\ HostProgress
<1> SUFFICES ASSUME Init PROVE SendInv /\ HostProgress
  OBVIOUS
<1>1. IsReport(EmptyReport)
  BY DEF IsReport, EmptyReport
<1>2. 1 \in 1 .. NumSlots + 1
  BY SlotNumbers
<1>3. Shapes
  BY <1>1, <1>2 DEF Init, Shapes
<1> QED
  BY <1>3 DEF Init, SendInv, ReportIsBuilt, BusyInProcess, SendProgress,
              HostProgress, Settled

-----------------------------------------------------------------------------
(***************************************************************************)
(* The steps preserve SendInv.                                             *)
(***************************************************************************)
LEMMA ElsewhereSend ==
    ASSUME SendInv, UNCHANGED <<tmr1, report, endpoint, controller, hview, session, history>>
    PROVE  SendInv'
BY DEF SendInv, Shapes, IsReport, ReportIsBuilt, BusyInProcess, SendProgress,
       Described, tmr1, endpoint, controller, history

LEMMA Column8Send == ASSUME SendInv, RefreshColumn8 PROVE SendInv'
<1>1. Shapes'
  BY DEF SendInv, Shapes, IsReport, RefreshColumn8, LoadSum, StoreSum,
         tmr1, endpoint, controller, history
<1>2. ReportIsBuilt' /\ BusyInProcess' /\ SendProgress'
  BY DEF SendInv, ReportIsBuilt, BusyInProcess, SendProgress, Described,
         RefreshColumn8, LoadSum, StoreSum, Tmr0Runs, tmr1, endpoint, controller, history
<1> QED
  BY <1>1, <1>2 DEF SendInv

LEMMA BuildSend == ASSUME SendInv, BuildReport PROVE SendInv'
<1>1. Shapes'
  BY ReportOfShape DEF SendInv, Shapes, IsReport, BuildReport, endpoint, controller, history
<1>2. ReportIsBuilt' /\ BusyInProcess' /\ SendProgress'
  BY DEF SendInv, ReportIsBuilt, BusyInProcess, SendProgress, BuildReport, endpoint
<1> QED
  BY <1>1, <1>2 DEF SendInv

LEMMA CheckSend == ASSUME SendInv, CheckBusy PROVE SendInv'
<1>1. bytes = no_bytes_left
  BY DEF SendInv, BusyInProcess, CheckBusy
<1>2. Shapes'
  BY <1>1 DEF SendInv, Shapes, IsReport, CheckBusy, controller
<1>3. ReportIsBuilt' /\ BusyInProcess' /\ SendProgress'
  BY <1>1 DEF SendInv, ReportIsBuilt, BusyInProcess, SendProgress, CheckBusy
<1> QED
  BY <1>2, <1>3 DEF SendInv

LEMMA LengthSend == ASSUME SendInv, StoreLength PROVE SendInv'
<1>1. Shapes'
  BY DEF SendInv, Shapes, IsReport, StoreLength, controller, history
<1>2. ReportIsBuilt' /\ BusyInProcess' /\ SendProgress'
  BY DEF SendInv, ReportIsBuilt, BusyInProcess, SendProgress, Described,
         StoreLength, history
<1> QED
  BY <1>1, <1>2 DEF SendInv

LEMMA EnterSend == ASSUME SendInv, EnterProcess PROVE SendInv'
<1>1. Shapes'
  BY SlotNumbers DEF SendInv, Shapes, IsReport, EnterProcess, controller, history
<1>2. ReportIsBuilt' /\ BusyInProcess'
  BY DEF SendInv, ReportIsBuilt, BusyInProcess, EnterProcess
<1>3. slot' = 1 /\ \A i \in 1 .. slot' - 1 : FALSE
  BY DEF SendInv, Shapes, EnterProcess
<1>4. SendProgress'
  BY <1>3 DEF SendInv, SendProgress, Described, EnterProcess, controller, history
<1> QED
  BY <1>1, <1>2, <1>4 DEF SendInv

LEMMA CopySend == ASSUME SendInv, CopySlot PROVE SendInv'
<1>1. slot \in 1 .. NumSlots /\ slot' = slot + 1
  BY SlotNumbers DEF CopySlot
<1>2. buf' = [buf EXCEPT ![slot] = Source[slot]]
  BY DEF CopySlot
<1>3. Shapes'
  <2>1. slot' \in 1 .. NumSlots + 1
    BY <1>1, SlotNumbers
  <2>2. IsReport(buf')
    BY <1>2 DEF SendInv, Shapes, IsReport
  <2> QED
    BY <2>1, <2>2 DEF SendInv, Shapes, IsReport, CopySlot, endpoint, history
<1>4. ReportIsBuilt' /\ BusyInProcess'
  BY DEF SendInv, ReportIsBuilt, BusyInProcess, CopySlot, endpoint
<1>5. ASSUME ~raced
      PROVE  \A i \in 1 .. slot' - 1 : buf'[i] = report[i]
  <2>1. Described /\ \A i \in 1 .. slot - 1 : buf[i] = report[i]
    BY <1>5 DEF SendInv, SendProgress, CopySlot
  <2>2. Source = report
    BY <2>1 DEF Source, Described
  <2>3. IsReport(buf)
    BY DEF SendInv, Shapes
  <2> SUFFICES ASSUME NEW i \in 1 .. slot
               PROVE  buf'[i] = report[i]
    BY <1>1
  <2>4. i \in Slots
    BY <1>1, SlotNumbers
  <2>5. buf'[i] = IF i = slot THEN report[slot] ELSE buf[i]
    BY <1>2, <2>2, <2>3, <2>4 DEF IsReport
  <2> QED
    BY <1>1, <2>1, <2>5
<1>6. SendProgress'
  BY <1>5 DEF SendInv, SendProgress, Described, CopySlot, endpoint, history
<1> QED
  BY <1>3, <1>4, <1>6 DEF SendInv

\* The packet that is armed is the report.
LEMMA ArmedPacket ==
    ASSUME SendInv, ArmPacket, ~raced
    PROVE  Described /\ buf = built
<1>1. Described /\ \A i \in 1 .. slot - 1 : buf[i] = report[i]
  BY DEF SendInv, SendProgress, ArmPacket
<1>2. slot = NumSlots + 1
  BY <1>1, SlotNumbers
     DEF SendInv, Shapes, ArmPacket, Described, no_bytes_left, ReportSize
<1>3. buf = report
  BY <1>1, <1>2, SlotNumbers, SameReport DEF SendInv, Shapes
<1> QED
  BY <1>1, <1>3 DEF SendInv, ReportIsBuilt, ArmPacket

LEMMA ArmSend == ASSUME SendInv, ArmPacket PROVE SendInv'
<1>1. Shapes'
  BY SlotNumbers DEF SendInv, Shapes, IsReport, ArmPacket, endpoint, history
<1>2. ReportIsBuilt' /\ BusyInProcess'
  BY DEF SendInv, ReportIsBuilt, BusyInProcess, ArmPacket, endpoint
<1>3. SendProgress'
  BY ArmedPacket DEF SendProgress, Described, ArmPacket, endpoint, history
<1> QED
  BY <1>1, <1>2, <1>3 DEF SendInv

LEMMA ClearSend == ASSUME SendInv, ClearBytes PROVE SendInv'
<1>1. Shapes'
  BY DEF SendInv, Shapes, IsReport, ClearBytes, controller, history
<1>2. ReportIsBuilt' /\ BusyInProcess' /\ SendProgress'
  BY DEF SendInv, ReportIsBuilt, BusyInProcess, SendProgress, ClearBytes
<1> QED
  BY <1>1, <1>2 DEF SendInv

\* The event of an earlier packet, the step that a send may race with.
LEMMA EventSend == ASSUME SendInv, EndpointEvent PROVE SendInv'
<1>1. IsReport(Source)
  BY DEF Source, SendInv, Shapes, IsReport, VectorTable
<1>2. Shapes'
  BY <1>1 DEF SendInv, Shapes, IsReport, EndpointEvent, tmr1
<1>3. ReportIsBuilt' /\ BusyInProcess'
  BY DEF SendInv, ReportIsBuilt, BusyInProcess, EndpointEvent, tmr1
<1>4. SendProgress'
  BY DEF SendInv, SendProgress, EndpointEvent, MidSend, tmr1
<1> QED
  BY <1>2, <1>3, <1>4 DEF SendInv

LEMMA ConfigureSend == ASSUME SendInv, SetConfiguration PROVE SendInv'
<1>1. Shapes'
  BY DEF SendInv, Shapes, IsReport, SetConfiguration, Withdraw, tmr1, endpoint
<1>2. ReportIsBuilt' /\ BusyInProcess' /\ SendProgress'
  BY DEF SendInv, ReportIsBuilt, BusyInProcess, SendProgress, Described,
         SetConfiguration, tmr1, endpoint
<1> QED
  BY <1>1, <1>2 DEF SendInv

LEMMA ResetSend == ASSUME SendInv, BusReset PROVE SendInv'
<1>1. Shapes'
  BY DEF SendInv, Shapes, IsReport, BusReset, Withdraw, tmr1
<1>2. ReportIsBuilt' /\ BusyInProcess' /\ SendProgress'
  BY DEF SendInv, ReportIsBuilt, BusyInProcess, SendProgress, BusReset, MidSend, tmr1
<1> QED
  BY <1>1, <1>2 DEF SendInv

LEMMA PollSend == ASSUME SendInv, HostPolls PROVE SendInv'
<1>1. Shapes'
  BY DEF SendInv, Shapes, IsReport, HostPolls, tmr1, endpoint, history
<1>2. ReportIsBuilt' /\ BusyInProcess' /\ SendProgress'
  BY DEF SendInv, ReportIsBuilt, BusyInProcess, SendProgress, Described,
         HostPolls, tmr1, endpoint, history
<1> QED
  BY <1>1, <1>2 DEF SendInv

LEMMA StepSend == SendInv /\ [Next]_vars => SendInv'
<1> SUFFICES ASSUME SendInv, [Next]_vars
             PROVE  SendInv'
  OBVIOUS
<1>1. ASSUME NEW key \in Keys, Touch(key) PROVE SendInv'
  BY <1>1, ElsewhereSend DEF Touch
<1>2. CASE SampleCell \/ RefreshColumn
  BY <1>2, ElsewhereSend DEF SampleCell, RefreshColumn
<1>3. CASE RefreshColumn8
  BY <1>3, Column8Send
<1>4. CASE BuildReport
  BY <1>4, BuildSend
<1>5. CASE SendReport
  BY <1>5, CheckSend, LengthSend, EnterSend, CopySend, ArmSend, ClearSend
     DEF SendReport
<1>6. CASE EndpointEvent \/ HostPolls
  BY <1>6, EventSend, PollSend
<1>7. CASE SetConfiguration \/ BusReset
  BY <1>7, ConfigureSend, ResetSend
<1>8. CASE UNCHANGED vars
  BY <1>8, ElsewhereSend DEF vars
<1> QED
  BY <1>1, <1>2, <1>3, <1>4, <1>5, <1>6, <1>7, <1>8 DEF Next, Pipeline, Tmr0, Tmr1

-----------------------------------------------------------------------------
(***************************************************************************)
(* ... and HostProgress.                                                   *)
(***************************************************************************)
LEMMA ElsewhereHost ==
    ASSUME HostProgress, UNCHANGED <<tmr1, endpoint, controller, hview, session, history>>
    PROVE  HostProgress'
BY DEF HostProgress, Settled, tmr1, endpoint, controller, history

LEMMA BuildHost ==
    ASSUME SendInv, HostProgress, BuildReport
    PROVE  HostProgress'
<1>1. CASE Differs
  BY <1>1 DEF HostProgress, BuildReport
<1>2. CASE ~Differs
  <2>1. overlooked' \/ (~overlooked /\ built' = built)
    BY <1>2 DEF BuildReport, Differs
  <2> QED
    BY <1>2, <2>1 DEF HostProgress, Settled, BuildReport, controller, endpoint, history
<1> QED
  BY <1>1, <1>2

LEMMA SendHost ==
    ASSUME SendInv, HostProgress, SendReport
    PROVE  HostProgress'
<1>1. CASE CheckBusy
  BY <1>1 DEF SendInv, BusyInProcess, HostProgress, CheckBusy
<1>2. CASE StoreLength
  BY <1>2 DEF HostProgress, StoreLength, no_bytes_left, ReportSize
<1>3. CASE EnterProcess
  BY <1>3 DEF HostProgress, Settled, EnterProcess, controller, history
<1>4. CASE CopySlot
  BY <1>4 DEF HostProgress, CopySlot
<1>5. CASE ArmPacket
  <2>1. ~raced => Settled'
    BY <1>5, ArmedPacket DEF ArmPacket, Settled, Described, NothingReady, ReportSize
  <2> QED
    BY <1>5, <2>1 DEF HostProgress, ArmPacket, history
<1>6. CASE ClearBytes
  BY <1>6 DEF HostProgress, Settled, ClearBytes, controller, history
<1> QED
  BY <1>1, <1>2, <1>3, <1>4, <1>5, <1>6 DEF SendReport

LEMMA EventHost ==
    ASSUME SendInv, HostProgress, EndpointEvent
    PROVE  HostProgress'
<1> SUFFICES ASSUME ~raced', ~cancelled', ~overlooked'
             PROVE  HostProgress'
  BY DEF HostProgress
<1>1. ~raced /\ ~cancelled /\ ~overlooked /\ t1 \notin {"length", "copy"} /\ t1' = t1
  BY DEF EndpointEvent, MidSend, tmr1
<1>2. CASE bytes # no_bytes_left
  <2>1. Described /\ t1 \in {"process", "clear"}
    BY <1>1, <1>2 DEF SendInv, BusyInProcess, SendProgress
  <2>2. Source = built
    BY <2>1 DEF Source, Described, SendInv, ReportIsBuilt
  <2>3. Settled'
    BY <1>2, <2>1, <2>2
       DEF EndpointEvent, Settled, Described, tmr1, NothingReady, ReportSize
  <2> QED
    BY <2>3 DEF HostProgress
<1>3. CASE bytes = no_bytes_left
  BY <1>1, <1>3 DEF HostProgress, Settled, EndpointEvent, tmr1
<1> QED
  BY <1>2, <1>3

\* After a withdrawal only a keyboard without a key held is in step.
LEMMA WithdrawHost ==
    ASSUME SetConfiguration \/ BusReset
    PROVE  HostProgress'
<1>1. ~cancelled' => built' = EmptyReport
  BY DEF SetConfiguration, BusReset, Withdraw, tmr1
<1>2. ready' = NothingReady /\ hview' = EmptyReport
  BY DEF SetConfiguration, BusReset
<1> QED
  BY <1>1, <1>2 DEF HostProgress, Settled

LEMMA PollHost ==
    ASSUME SendInv, HostProgress, HostPolls
    PROVE  HostProgress'
<1>1. Settled => Settled'
  BY DEF Settled, HostPolls, tmr1, NothingReady
<1> QED
  BY <1>1 DEF HostProgress, HostPolls, tmr1, endpoint, history

LEMMA StepHost == SendInv /\ HostProgress /\ [Next]_vars => HostProgress'
<1> SUFFICES ASSUME SendInv, HostProgress, [Next]_vars
             PROVE  HostProgress'
  OBVIOUS
<1>1. ASSUME NEW key \in Keys, Touch(key) PROVE HostProgress'
  BY <1>1, ElsewhereHost DEF Touch
<1>2. CASE Tmr0
  BY <1>2, ElsewhereHost DEF Tmr0, SampleCell, RefreshColumn, RefreshColumn8, LoadSum, StoreSum
<1>3. CASE BuildReport
  BY <1>3, BuildHost
<1>4. CASE SendReport
  BY <1>4, SendHost
<1>5. CASE EndpointEvent \/ HostPolls
  BY <1>5, EventHost, PollHost
<1>6. CASE SetConfiguration \/ BusReset
  BY <1>6, WithdrawHost
<1>7. CASE UNCHANGED vars
  BY <1>7, ElsewhereHost DEF vars
<1> QED
  BY <1>1, <1>2, <1>3, <1>4, <1>5, <1>6, <1>7 DEF Next, Pipeline, Tmr1

\* For any keys and slots, wherever the linker puts report_hid_out and however
\* often column 8 changes it: when nothing is in flight the host has the last
\* report, unless an event fell into the send, the host has withdrawn the
\* report or column 8 made it look sent.
THEOREM HostKeepsUp == Spec => []HostUpToDate
<1>1. HostProgress => HostUpToDate
  BY DEF HostProgress, Settled, HostUpToDate, AtRest
<1> QED
  BY InitInvariant, StepSend, StepHost, <1>1, PTL DEF Spec

-----------------------------------------------------------------------------
(***************************************************************************)
(* Types.                                                                  *)
(***************************************************************************)
LEMMA ScanCodes == \A i \in 1 .. Len(ScanOrder) : ScanOrder[i] \in 1 .. 255
BY ScanAssumption, ElementOfSeq

LEMMA ReportOfType ==
    ASSUME NEW S
    PROVE  ReportOf(S) \in [Slots -> 0 .. 255]
<1> DEFINE InSlot(n) == {i \in 1 .. NumKeys :
            /\ ScanOrder[i] \in S
            /\ Cardinality({j \in 1 .. i : ScanOrder[j] \in S}) = n}
<1>1. ASSUME NEW n \in Slots, InSlot(n) # {}
      PROVE  ScanOrder[CHOOSE i \in InSlot(n) : TRUE] \in 0 .. 255
  <2>1. PICK i \in 1 .. Len(ScanOrder) : i = CHOOSE k \in InSlot(n) : TRUE
    BY <1>1 DEF NumKeys
  <2>2. ScanOrder[i] \in 1 .. 255
    BY ScanCodes
  <2> HIDE DEF InSlot
  <2> QED
    BY <2>1, <2>2
<1> HIDE DEF InSlot
<1>2. [n \in Slots |-> IF InSlot(n) = {} THEN 0
                       ELSE ScanOrder[CHOOSE i \in InSlot(n) : TRUE]]
        \in [Slots -> 0 .. 255]
  BY <1>1
<1> QED
  BY <1>2 DEF InSlot, ReportOf

LEMMA SumType ==
    /\ Sums \subseteq Slots /\ FirstSum \in Sums
    /\ \A i \in Sums : NextSum(i) \in Sums
BY SlotNumbers, ScanAssumption DEF Sums, FirstSum, NextSum

\* A refresh of column 8 that has begun is one of those allowed.
PassBegun == row # FirstSum \/ sum # NoSum => passes < MaxPasses

LEMMA InitType == Init => TypeOK /\ PassBegun
<1> SUFFICES ASSUME Init PROVE TypeOK /\ PassBegun
  OBVIOUS
<1>1. EmptyReport \in [Slots -> 0 .. 255] /\ EmptyReport \in [Slots -> 0 .. 256]
  BY DEF EmptyReport
<1>2. EmptyReport \in Reports
  <2>1. ReportOf({}) = EmptyReport
    BY DEF ReportOf, EmptyReport
  <2> QED
    BY <2>1 DEF Reports
<1>3. FirstSum \in Sums /\ 1 \in 1 .. NumKeys + 1 /\ 0 \in 0 .. MaxPasses /\ 1 \in 1 .. NumSlots + 1
  BY SlotNumbers, SumType, ScanAssumption, PassAssumption DEF NumKeys
<1>4. phys \subseteq Keys /\ keys \subseteq Keys
  BY DEF Init
<1> QED
  BY <1>1, <1>2, <1>3, <1>4 DEF Init, TypeOK, PassBegun

LEMMA SourceType == ASSUME TypeOK PROVE Source \in [Slots -> 0 .. 256]
BY DEF TypeOK, Source, VectorTable

\* Column 8 reads and writes within the report.
LEMMA Column8Type ==
    ASSUME TypeOK, RefreshColumn8
    PROVE  /\ report' \in [Slots -> 0 .. 255]
           /\ row' \in Sums /\ sum' \in 0 .. 255 \union {NoSum}
<1>1. row \in Slots
  BY SumType DEF TypeOK
<1>2. CASE LoadSum
  <2>1. report[row] \in 0 .. 255
    BY <1>1 DEF TypeOK
  <2>2. Brightness(row) \in 0 .. 255
    <3>1. row # 1 => row - 1 \in Slots
      BY <1>1, SlotNumbers
    <3> QED
      BY <3>1 DEF TypeOK, Brightness
  <2>3. \A a, b \in 0 .. 255 : (a + b) % 256 \in 0 .. 255
    OBVIOUS
  <2>4. sum' \in 0 .. 255
    BY <1>2, <2>1, <2>2, <2>3 DEF LoadSum
  <2> QED
    BY <1>2, <2>4 DEF TypeOK, LoadSum
<1>3. CASE StoreSum
  <2>1. sum \in 0 .. 255
    BY <1>3 DEF TypeOK, StoreSum
  <2>2. report' \in [Slots -> 0 .. 255]
    BY <1>3, <2>1 DEF TypeOK, StoreSum
  <2>3. row' \in Sums
    BY <1>3, SumType DEF TypeOK, StoreSum
  <2> QED
    BY <1>3, <2>2, <2>3 DEF StoreSum
<1> QED
  BY <1>2, <1>3 DEF RefreshColumn8

LEMMA Column8Passes ==
    ASSUME TypeOK, PassBegun, RefreshColumn8
    PROVE  cell' \in 1 .. NumKeys + 1 /\ passes' \in 0 .. MaxPasses
<1>1. NumKeys \in Nat /\ MaxPasses \in Nat
  BY ScanAssumption, PassAssumption DEF NumKeys
<1> QED
  BY <1>1 DEF TypeOK, PassBegun, RefreshColumn8, LoadSum, StoreSum

LEMMA Tmr0Type ==
    ASSUME TypeOK, PassBegun, Tmr0 \/ \E key \in Keys : Touch(key)
    PROVE  TypeOK'
<1>1. NumKeys \in Nat /\ MaxPasses \in Nat
  BY ScanAssumption, PassAssumption DEF NumKeys
<1>2. ASSUME NEW key \in Keys, Touch(key) PROVE TypeOK'
  BY <1>2 DEF TypeOK, Touch, tmr0, tmr1, endpoint, controller, session, history
<1>3. CASE SampleCell
  <2>1. ScanOrder[cell] \in Keys
    BY <1>3 DEF SampleCell, Keys
  <2> QED
    BY <1>1, <1>3, <2>1
       DEF TypeOK, SampleCell, tmr1, endpoint, controller, session, history
<1>4. CASE RefreshColumn
  BY <1>1, <1>4 DEF TypeOK, RefreshColumn, tmr1, endpoint, controller, session, history
<1>5. CASE RefreshColumn8
  <2>1. /\ report' \in [Slots -> 0 .. 255]
        /\ row' \in Sums /\ sum' \in 0 .. 255 \union {NoSum}
    BY <1>5, Column8Type
  <2>2. cell' \in 1 .. NumKeys + 1 /\ passes' \in 0 .. MaxPasses
    BY <1>1, <1>5, Column8Passes
  <2>3. UNCHANGED <<phys, keys, t1, slot, built, pointer, bytes, ready, buf, evt,
                    hview, timer1, configured, raced, cancelled, overlooked>>
    BY <1>5 DEF RefreshColumn8, LoadSum, StoreSum, tmr1, endpoint, controller, session, history
  <2> QED
    BY <2>1, <2>2, <2>3 DEF TypeOK
<1> QED
  BY <1>2, <1>3, <1>4, <1>5 DEF Tmr0

LEMMA BuildType == ASSUME TypeOK, BuildReport PROVE TypeOK'
<1>1. ReportOf(keys) \in Reports /\ ReportOf(keys) \in [Slots -> 0 .. 255]
  BY ReportOfType DEF Reports, TypeOK
<1>2. 0 \in 0 .. MaxPasses
  BY PassAssumption
<1> QED
  BY <1>1, <1>2 DEF TypeOK, BuildReport, endpoint, controller, session, history

LEMMA SendType == ASSUME TypeOK, SendReport PROVE TypeOK'
<1>1. CASE CheckBusy
  <2>1. t1' \in {"length", "idle"} /\ pointer' \in {"report", "NULL"}
    BY <1>1 DEF TypeOK, CheckBusy
  <2>2. raced' \in BOOLEAN /\ cancelled' \in BOOLEAN /\ overlooked' \in BOOLEAN
    BY <1>1 DEF CheckBusy
  <2>3. UNCHANGED <<phys, keys, cell, passes, row, sum, slot, built, report, bytes, ready, buf,
                    evt, hview, timer1, configured>>
    BY <1>1 DEF CheckBusy, tmr0, controller, session
  <2> QED
    BY <2>1, <2>2, <2>3 DEF TypeOK
<1>2. CASE StoreLength
  BY <1>2 DEF TypeOK, StoreLength, tmr0, controller, session, history
<1>3. CASE EnterProcess
  BY <1>3, SlotNumbers DEF TypeOK, EnterProcess, tmr0, controller, session, history
<1>4. CASE CopySlot
  <2>1. buf' \in [Slots -> 0 .. 256]
    BY <1>4, SourceType DEF TypeOK, CopySlot
  <2>2. slot' \in 1 .. NumSlots + 1
    BY <1>4, SlotNumbers DEF CopySlot
  <2> QED
    BY <1>4, <2>1, <2>2 DEF TypeOK, CopySlot, tmr0, endpoint, session, history
<1>5. CASE ArmPacket
  BY <1>5, SlotNumbers DEF TypeOK, ArmPacket, tmr0, endpoint, session, history
<1>6. CASE ClearBytes
  BY <1>6 DEF TypeOK, ClearBytes, tmr0, controller, session, history
<1> QED
  BY <1>1, <1>2, <1>3, <1>4, <1>5, <1>6 DEF SendReport

LEMMA UsbType ==
    ASSUME TypeOK, EndpointEvent \/ SetConfiguration \/ BusReset \/ HostPolls
    PROVE  TypeOK'
<1>1. EmptyReport \in [Slots -> 0 .. 256]
  BY DEF EmptyReport
<1>2. CASE EndpointEvent
  <2>1. buf' \in [Slots -> 0 .. 256] /\ pointer' \in {"report", "NULL"}
    BY <1>2, SourceType DEF TypeOK, EndpointEvent
  <2>2. /\ bytes' \in {no_bytes_left, ReportSize}
        /\ ready' \in {NothingReady, ReportSize, no_bytes_left}
    BY <1>2 DEF TypeOK, EndpointEvent
  <2>3. evt' = FALSE /\ raced' \in BOOLEAN
    BY <1>2 DEF TypeOK, EndpointEvent, MidSend
  <2>4. UNCHANGED <<phys, keys, cell, passes, row, sum, t1, slot, built, report, hview,
                    timer1, configured, cancelled, overlooked>>
    BY <1>2 DEF EndpointEvent, tmr0, tmr1, session
  <2> QED
    BY <2>1, <2>2, <2>3, <2>4 DEF TypeOK
<1>3. CASE SetConfiguration
  BY <1>1, <1>3 DEF TypeOK, SetConfiguration, Withdraw, tmr0, tmr1, endpoint
<1>4. CASE BusReset
  BY <1>1, <1>4 DEF TypeOK, BusReset, Withdraw, tmr0, tmr1
<1>5. CASE HostPolls
  BY <1>5 DEF TypeOK, HostPolls, tmr0, tmr1, endpoint, session, history
<1> QED
  BY <1>2, <1>3, <1>4, <1>5

LEMMA StepPass == TypeOK /\ PassBegun /\ [Next]_vars => PassBegun'
<1> SUFFICES ASSUME TypeOK, PassBegun, [Next]_vars
             PROVE  PassBegun'
  OBVIOUS
<1>1. passes \in Nat /\ MaxPasses \in Nat
  BY PassAssumption DEF TypeOK
<1>2. CASE Tmr0
  BY <1>1, <1>2 DEF Tmr0, SampleCell, RefreshColumn, RefreshColumn8, LoadSum, StoreSum,
                    PassBegun
<1>3. CASE BuildReport
  BY <1>1, <1>3 DEF BuildReport, PassBegun
<1>4. ASSUME UNCHANGED tmr0 PROVE PassBegun'
  BY <1>4 DEF tmr0, PassBegun
<1>5. ASSUME SendReport \/ EndpointEvent \/ HostPolls \/ SetConfiguration \/ BusReset
             \/ (\E key \in Keys : Touch(key)) \/ UNCHANGED vars
      PROVE  UNCHANGED tmr0
  BY <1>5 DEF SendReport, CheckBusy, StoreLength, EnterProcess, CopySlot, ArmPacket,
              ClearBytes, EndpointEvent, HostPolls, SetConfiguration, BusReset, Touch, vars
<1> QED
  BY <1>2, <1>3, <1>4, <1>5 DEF Next, Pipeline, Tmr1

LEMMA StepType == TypeOK /\ PassBegun /\ [Next]_vars => TypeOK'
<1> SUFFICES ASSUME TypeOK, PassBegun, [Next]_vars
             PROVE  TypeOK'
  OBVIOUS
<1>1. CASE UNCHANGED vars
  BY <1>1 DEF TypeOK, vars, tmr0, tmr1, endpoint, controller, session, history
<1>2. CASE Next
  BY <1>2, Tmr0Type, BuildType, SendType, UsbType DEF Next, Pipeline, Tmr1
<1> QED
  BY <1>1, <1>2

\* The pipeline keeps its types: no slot beyond the report is written, and no
\* length but that of a report or the mark of a finished transfer is armed.
THEOREM TypeCorrect == Spec => []TypeOK
BY InitType, StepType, StepPass, PTL DEF Spec

-----------------------------------------------------------------------------
(***************************************************************************)
(* Refinement: the pipeline is the mailbox of ReportLink.                  *)
(***************************************************************************)
Anything == [Slots -> 0 .. 256] \union {Babble}

\* A whole packet is neither an empty box nor a torn packet.
LEMMA PacketsDiffer ==
    /\ \A packet \in Anything : packet # NoMail /\ packet # Torn
    /\ NoMail # Torn
<1>1. 1 \in Slots
  BY ScanAssumption, SlotNumbers
<1>2. NoMail[1] = -1 /\ Torn[1] = -2 /\ Babble[1] = 512
  BY <1>1 DEF NoMail, Torn, Babble
<1>3. \A packet \in [Slots -> 0 .. 256] : packet[1] # -1 /\ packet[1] # -2
  BY <1>1
<1> QED
  BY <1>2, <1>3 DEF Anything

\* A send that finds its report sent has been overtaken by the event of an
\* earlier packet, which sent it.
SentAlready ==
    ~raced /\ ~cancelled /\ t1 = "process" /\ bytes = no_bytes_left => Settled

LEMMA StepSent == SendInv /\ SentAlready /\ [Next]_vars => SentAlready'
<1> SUFFICES ASSUME SendInv, SentAlready, [Next]_vars,
                    ~raced', ~cancelled', t1' = "process", bytes' = no_bytes_left
             PROVE  Settled'
  BY DEF SentAlready
<1>1. CASE EndpointEvent
  <2>1. t1 = "process" /\ ~raced /\ ~cancelled /\ UNCHANGED <<built, hview>>
    BY <1>1 DEF EndpointEvent, tmr1
  <2>2. CASE bytes = no_bytes_left
    BY <1>1, <2>1, <2>2 DEF EndpointEvent, SentAlready, Settled
  <2>3. CASE bytes # no_bytes_left
    <3>1. Source = built /\ bytes = ReportSize
      BY <2>1, <2>3 DEF SendInv, SendProgress, Described, ReportIsBuilt, Source
    <3> QED
      BY <1>1, <2>1, <2>3, <3>1 DEF EndpointEvent, Settled, NothingReady, ReportSize
  <2> QED
    BY <2>2, <2>3
<1>2. CASE HostPolls
  <2>1. Settled
    BY <1>2 DEF HostPolls, SentAlready, tmr1, endpoint, history
  <2> QED
    BY <1>2, <2>1 DEF HostPolls, Settled, tmr1, NothingReady
<1>3. CASE SetConfiguration \/ BusReset
  BY <1>3 DEF SetConfiguration, BusReset, Withdraw, tmr1
<1>4. CASE BuildReport \/ SendReport
  BY <1>4 DEF BuildReport, SendReport, CheckBusy, StoreLength, EnterProcess, CopySlot,
              ArmPacket, ClearBytes, no_bytes_left, ReportSize
<1>5. ASSUME UNCHANGED <<tmr1, endpoint, controller, hview, history>>
      PROVE  Settled'
  BY <1>5 DEF SentAlready, Settled, tmr1, endpoint, controller, history
<1>6. CASE Tmr0 \/ (\E key \in Keys : Touch(key)) \/ UNCHANGED vars
  BY <1>5, <1>6 DEF Tmr0, SampleCell, RefreshColumn, RefreshColumn8, LoadSum, StoreSum,
              Touch, vars
<1> QED
  BY <1>1, <1>2, <1>3, <1>4, <1>6 DEF Next, Pipeline, Tmr1

-----------------------------------------------------------------------------
\* What a step that does not reach for the mailbox leaves unchanged.
LEMMA ElsewhereLink ==
    ASSUME UNCHANGED <<tmr1, controller, hview, history>>
    PROVE  UNCHANGED Link!vars
BY DEF Link!vars, Mail, tmr1, controller, history

LEMMA BuildLink ==
    ASSUME SendInv, TypeOK, BuildReport
    PROVE  [Link!Next]_(Link!vars)
<1>1. built' \in Reports
  BY DEF BuildReport, TypeOK, Reports
<1>2. Link!Build(built')
  BY DEF Link!Build, BuildReport, Mail, endpoint, controller, history
<1> QED
  BY <1>1, <1>2 DEF Link!Next

LEMMA SendLink ==
    ASSUME SendInv, TypeOK, SentAlready, SendReport
    PROVE  [Link!Next]_(Link!vars)
<1>1. CASE CheckBusy
  <2>1. t1 = "check" /\ t1' = "length" /\ raced' = FALSE /\ cancelled' = FALSE
    BY <1>1 DEF SendInv, BusyInProcess, CheckBusy
  <2>2. UNCHANGED <<built, ready, buf, hview>>
    BY <1>1 DEF CheckBusy, controller
  <2>3. Link!Begin
    BY <2>1, <2>2 DEF Link!Begin, Mail
  <2> QED
    BY <2>3 DEF Link!Next
<1>2. CASE StoreLength
  BY <1>2 DEF StoreLength, Link!vars, Mail, controller, history
<1>3. CASE EnterProcess /\ bytes # no_bytes_left
  <2>1. CASE ready = NothingReady
    BY <1>3, <2>1 DEF EnterProcess, Link!vars, Mail, controller, history
  <2>2. CASE ready # NothingReady
    <3>1. Mail # NoMail /\ Mail' = Torn
      BY <1>3, <2>2, PacketsDiffer
         DEF EnterProcess, Mail, TypeOK, Anything, controller
    <3>2. Link!Tear
      BY <1>3, <3>1 DEF Link!Tear, EnterProcess, controller, history
    <3> QED
      BY <3>2 DEF Link!Next
  <2> QED
    BY <2>1, <2>2
<1>4. CASE EnterProcess /\ bytes = no_bytes_left
  <2>1. raced \/ cancelled \/ Mail = built \/ (Mail = NoMail /\ hview = built)
    BY <1>4 DEF EnterProcess, SentAlready, Settled, Mail
  <2>2. Link!End
    BY <1>4, <2>1 DEF Link!End, EnterProcess, Mail, controller, history
  <2> QED
    BY <2>2 DEF Link!Next
<1>5. CASE CopySlot
  BY <1>5 DEF CopySlot, Link!vars, Mail, history
<1>6. CASE ArmPacket
  <2>1. Mail' = IF bytes = ReportSize THEN buf ELSE Babble
    BY <1>6 DEF ArmPacket, Mail, TypeOK, NothingReady, ReportSize, no_bytes_left
  <2>2. raced \/ Mail' = built
    <3>1. ASSUME ~raced PROVE bytes = ReportSize /\ report = built /\ buf = report
      <4>1. Described /\ slot \notin Slots /\ report = built
        BY <1>6, <3>1 DEF ArmPacket, SendInv, SendProgress, Described, ReportIsBuilt,
                          no_bytes_left, ReportSize
      <4>2. \A i \in Slots : buf[i] = report[i]
        BY <1>6, <3>1, <4>1, SlotNumbers
           DEF ArmPacket, SendInv, Shapes, SendProgress
      <4> QED
        BY <4>1, <4>2, SameReport DEF SendInv, Shapes, Described
    <3> QED
      BY <2>1, <3>1
  <2>3. Mail' \in Anything
    BY <2>1 DEF TypeOK, Anything
  <2>4. t1' = "clear" /\ UNCHANGED <<built, hview, raced, cancelled>>
    BY <1>6 DEF ArmPacket, history
  <2>5. (t1 \in {"length", "process", "copy"})' = FALSE
    BY <2>4
  <2>6. Mail' = built \/ (raced /\ Mail' \in Anything \union {Torn})
    BY <2>2, <2>3
  <2>7. Link!Post
    BY <2>4, <2>5, <2>6 DEF Link!Post, Anything
  <2> QED
    BY <2>7 DEF Link!Next
<1>7. CASE ClearBytes
  BY <1>7 DEF ClearBytes, Link!vars, Mail, controller, history
<1> QED
  BY <1>1, <1>2, <1>3, <1>4, <1>5, <1>6, <1>7 DEF SendReport

\* The event of an earlier packet: it sends what is described to
\* USB_process_rx_tx, which is the last report unless it fell into a send.
LEMMA EventLink ==
    ASSUME SendInv, TypeOK, EndpointEvent
    PROVE  [Link!Next]_(Link!vars)
<1>1. UNCHANGED <<built, hview, t1, cancelled>>
  BY DEF EndpointEvent, tmr1
<1>2. raced \in BOOLEAN /\ raced' = (raced \/ MidSend)
  BY DEF EndpointEvent, TypeOK
<1>3. Mail \in Anything \union {NoMail, Torn}
  BY DEF TypeOK, Mail, Anything
<1>4. CASE bytes = no_bytes_left
  <2>1. Mail' = Mail
    BY <1>1, <1>4 DEF EndpointEvent, Mail
  <2>2. CASE MidSend
    <3>1. Link!Disturb
      BY <1>1, <1>2, <1>3, <2>1, <2>2 DEF Link!Disturb, MidSend, Anything
    <3> QED
      BY <3>1 DEF Link!Next
  <2>3. CASE ~MidSend
    BY <1>1, <1>2, <2>1, <2>3 DEF Link!vars
  <2> QED
    BY <2>2, <2>3
<1>5. CASE bytes # no_bytes_left
  <2>1. ready' = ReportSize /\ buf' = Source /\ t1 \in {"process", "copy", "clear"}
    BY <1>5 DEF EndpointEvent, TypeOK, SendInv, BusyInProcess
  <2>2. CASE t1 = "copy"
    <3>1. raced' = TRUE
      BY <1>2, <2>2 DEF MidSend
    <3>2. Mail' = Torn
      BY <1>1, <2>1, <2>2 DEF Mail, NothingReady, ReportSize
    <3>3. Link!Disturb
      BY <1>1, <2>2, <3>1, <3>2 DEF Link!Disturb
    <3> QED
      BY <3>3 DEF Link!Next
  <2>3. CASE t1 # "copy"
    <3>1. raced' = raced /\ Mail' = Source
      BY <1>1, <1>2, <2>1, <2>3 DEF Mail, MidSend, NothingReady, ReportSize
    <3>2. raced \/ Source = built
      BY <1>5, <2>1, <2>3
         DEF SendInv, SendProgress, Described, ReportIsBuilt, Source
    <3>3. Source \in Anything
      BY SourceType DEF Anything
    <3>4. Link!Post
      BY <1>1, <3>1, <3>2, <3>3 DEF Link!Post, Anything
    <3> QED
      BY <3>4 DEF Link!Next
  <2> QED
    BY <2>2, <2>3
<1> QED
  BY <1>4, <1>5

LEMMA WithdrawLink ==
    ASSUME TypeOK, SetConfiguration \/ BusReset
    PROVE  [Link!Next]_(Link!vars)
<1>1. Mail' = NoMail /\ hview' = EmptyReport
  BY DEF SetConfiguration, BusReset, Mail
<1>2. UNCHANGED <<built, t1>>
  BY DEF SetConfiguration, BusReset, tmr1
<1>3. cancelled' \in {cancelled, TRUE} /\ (cancelled' \/ built = EmptyReport)
  BY DEF SetConfiguration, BusReset, Withdraw, TypeOK
<1>4. raced' \in {raced, raced \/ t1 \in {"length", "process", "copy"}}
  BY DEF SetConfiguration, BusReset, MidSend, TypeOK
<1>5. Link!Withdraw
  BY <1>1, <1>2, <1>3, <1>4 DEF Link!Withdraw
<1> QED
  BY <1>5 DEF Link!Next

LEMMA PollLink ==
    ASSUME TypeOK, HostPolls
    PROVE  [Link!Next]_(Link!vars)
<1>1. UNCHANGED <<built, t1, raced, cancelled>> /\ Mail' = NoMail
  BY DEF HostPolls, tmr1, history, Mail
<1>2. hview' \in Anything
  BY DEF HostPolls, TypeOK, Anything
<1>3. CASE t1 = "copy"
  <2>1. Mail = Torn
    BY <1>3 DEF HostPolls, Mail
  <2>2. Link!Take
    BY <1>1, <1>2, <2>1, PacketsDiffer DEF Link!Take, Anything
  <2> QED
    BY <2>2 DEF Link!Next
<1>4. CASE t1 # "copy"
  <2>1. Mail \in Anything /\ hview' = Mail
    BY <1>4 DEF HostPolls, Mail, TypeOK, Anything
  <2>2. Link!Take
    BY <1>1, <2>1, PacketsDiffer DEF Link!Take
  <2> QED
    BY <2>2 DEF Link!Next
<1> QED
  BY <1>3, <1>4

LEMMA StepLink ==
    SendInv /\ TypeOK /\ SentAlready /\ [Next]_vars => [Link!Next]_(Link!vars)
<1> SUFFICES ASSUME SendInv, TypeOK, SentAlready, [Next]_vars
             PROVE  [Link!Next]_(Link!vars)
  OBVIOUS
<1>1. CASE Tmr0 \/ (\E key \in Keys : Touch(key)) \/ UNCHANGED vars
  BY <1>1, ElsewhereLink
     DEF Tmr0, SampleCell, RefreshColumn, RefreshColumn8, LoadSum, StoreSum,
              Touch, vars
<1>2. CASE BuildReport \/ SendReport
  BY <1>2, BuildLink, SendLink
<1>3. CASE EndpointEvent
  BY <1>3, EventLink
<1>4. CASE SetConfiguration \/ BusReset \/ HostPolls
  BY <1>4, WithdrawLink, PollLink
<1> QED
  BY <1>1, <1>2, <1>3, <1>4 DEF Next, Pipeline, Tmr1

LEMMA InitLink == Init => Link!Init /\ SentAlready
BY DEF Init, Link!Init, SentAlready, Mail

\* The pipeline implements the mailbox, for any keys and slots and wherever
\* the linker puts report_hid_out.
THEOREM ImplementsLink == Spec => IsReportLink
<1>1. Init => SendInv
  BY InitInvariant
<1> QED
  BY <1>1, InitType, InitLink, StepSend, StepType, StepPass, StepSent, StepLink, PTL
     DEF Spec, IsReportLink, Link!Spec
=============================================================================
