----------------------------- MODULE HidPipeline -----------------------------
(***************************************************************************)
(* The way of a key press to the host: TMR0 samples the matrix and         *)
(* refreshes the backlight, TMR1 builds a report and hands a changed one   *)
(* to USB_initiate_send, the controller delivers it when the host polls,   *)
(* USBD_IRQHandler runs USB_process_rx_tx for the completed transfer.      *)
(*                                                                         *)
(* The handlers preempt each other by priority: USBD (0) runs between any  *)
(* two steps of TMR1 (2), which runs between any two steps of TMR0 (3).    *)
(* The controller and the host are hardware and take steps at any time.    *)
(*                                                                         *)
(* ScanOrder holds the codes of normal keys in the order of the scan, no   *)
(* more than there are slots, so that a report is never full (KeyReport is *)
(* about that).  Slot i is byte 1 + i of report_hid_out.  setRGB counts    *)
(* the columns 0 to 8 and refreshes a column 8 that does not exist.  Its   *)
(* cells lie behind `keys', where memory.map puts report_hid_out: what it  *)
(* takes for brightness sums in row 0 are slots 3, 5 and 1, and it adds    *)
(* the byte before to each, of which the one before slot 1 is always 0.    *)
(* The sum is stored after it was read, and what preempts TMR0 between the *)
(* two may have sent a report: then an old byte comes back.  Rows 1 and 2  *)
(* are previous_report_out, which TMR1 writes before it reads it, debugr   *)
(* and debugb; Uart0 has the variables of the rows behind.                 *)
(***************************************************************************)
EXTENDS Integers, Sequences, FiniteSets

CONSTANTS
    ScanOrder,          \* codes of the keys, in scan order
    NumSlots,           \* key codes a report has room for, 6
    ReportBehindKeys,   \* the linker puts report_hid_out behind keys
    MaxPasses           \* column 8 refreshes between two runs of TMR1, 2

ASSUME ScanAssumption ==
    /\ ScanOrder \in Seq(1 .. 255)
    /\ \A i, j \in DOMAIN ScanOrder : ScanOrder[i] = ScanOrder[j] => i = j
    /\ NumSlots \in Nat \ {0} /\ NumSlots >= Len(ScanOrder)
ASSUME PassAssumption == ReportBehindKeys \in BOOLEAN /\ MaxPasses \in Nat

NumKeys == Len(ScanOrder)
Slots == 1 .. NumSlots
Keys == {ScanOrder[i] : i \in 1 .. NumKeys}

no_bytes_left == -1
ReportSize == 8

VARIABLES
    phys,       \* keys held down
    keys,       \* keys whose cell has state = 1
    cell,       \* next cell TMR0 samples; behind the last, it refreshes LEDs
    passes,     \* column 8 refreshes since TMR1 last ran
    row,        \* slot that is the next sum of column 8
    sum,        \* what TMR0 has read for it and not stored yet
    t1,         \* what TMR1 does next
    report,     \* report_hid_out
    slot,       \* next slot the copy loop writes
    pointer,    \* MultiStage_Storage_ptr of endpoint 2: "report" or "NULL"
    bytes,      \* its MultiStage_Bytes
    ready,      \* what MAXPLD was written with since it was last delivered
    buf,        \* the endpoint's buffer
    evt,        \* its event flag
    hview,      \* the last packet the host took
    timer1,     \* timer 1 runs
    configured, \* the host has configured the device and polls it
    built,      \* history: the report TMR1 built last
    raced,      \* history: a USB event came in the middle of a send
    cancelled,  \* history: a report was withdrawn and no send followed
    overlooked  \* history: TMR1 took a new report for the one it built last

tmr0 == <<keys, cell, passes, row, sum>>
tmr1 == <<t1, slot, built>>
endpoint == <<pointer, bytes>>
controller == <<ready, buf, evt>>
session == <<timer1, configured>>
history == <<raced, cancelled, overlooked>>
vars == <<phys, tmr0, tmr1, report, endpoint, controller, hview, session, history>>

NothingReady == 0
NoSum == -1

EmptyReport == [i \in Slots |-> 0]

\* What a read through a NULL pointer returns: the vector table.
VectorTable == [i \in Slots |-> 256]

\* What the host makes of a packet longer than the endpoint allows.
Babble == [i \in Slots |-> 512]

\* The n-th held key of the scan is in slot n.
ReportOf(S) ==
    LET InSlot(n) == {i \in 1 .. NumKeys :
            /\ ScanOrder[i] \in S
            /\ Cardinality({j \in 1 .. i : ScanOrder[j] \in S}) = n}
    IN  [n \in Slots |-> IF InSlot(n) = {} THEN 0
                         ELSE ScanOrder[CHOOSE i \in InSlot(n) : TRUE]]

Source == IF pointer = "report" THEN report ELSE VectorTable

\* The slots that setRGB of column 8 takes for sums, in the order of its loops.
Sums == {1, 3, 5} \intersect Slots
FirstSum == IF 3 \in Slots THEN 3 ELSE 1
NextSum(i) == IF i = 3 /\ 5 \in Slots THEN 5 ELSE 1

\* The state after the first bus reset, which comes before any packet.
Init ==
    /\ phys = {} /\ keys = {}
    /\ cell = 1 /\ passes = 0 /\ row = FirstSum /\ sum = NoSum
    /\ t1 = "idle"
    /\ report = EmptyReport /\ built = EmptyReport
    /\ slot = 1
    /\ pointer = "NULL" /\ bytes = no_bytes_left
    /\ ready = NothingReady /\ buf = EmptyReport /\ evt = FALSE
    /\ hview = EmptyReport
    /\ timer1 = FALSE /\ configured = FALSE
    /\ raced = FALSE /\ cancelled = FALSE /\ overlooked = FALSE

-----------------------------------------------------------------------------
\* The user presses or releases a key.
Touch(key) ==
    /\ \/ phys' = phys \union {key}
       \/ phys' = phys \ {key}
    /\ UNCHANGED <<tmr0, tmr1, report, endpoint, controller, hview, session, history>>

\* A pending USB event preempts TMR1, and either preempts TMR0.
Tmr1Runs == ~evt
Tmr0Runs == ~evt /\ t1 = "idle"

\* TMR0: getPressedKeys.
SampleCell ==
    /\ Tmr0Runs /\ cell \in 1 .. NumKeys
    /\ LET key == ScanOrder[cell]
       IN  keys' = IF key \in phys THEN keys \union {key} ELSE keys \ {key}
    /\ cell' = cell + 1
    /\ UNCHANGED <<phys, passes, row, sum, tmr1, report, endpoint, controller, hview, session, history>>

Brightness(i) == IF i = 1 THEN 0 ELSE report[i - 1]

\* TMR0: setRGB of one of the columns 0 to 7.
RefreshColumn ==
    /\ Tmr0Runs /\ cell > NumKeys /\ row = FirstSum /\ sum = NoSum
    /\ cell' = 1
    /\ UNCHANGED <<phys, keys, passes, row, sum, tmr1, report, endpoint, controller, hview,
                   session, history>>

LoadSum ==
    /\ ReportBehindKeys
    /\ Tmr0Runs /\ cell > NumKeys /\ sum = NoSum
    /\ row = FirstSum => passes < MaxPasses
    /\ sum' = (report[row] + Brightness(row)) % 256
    /\ UNCHANGED <<phys, keys, cell, passes, row, tmr1, report, endpoint, controller, hview,
                   session, history>>

StoreSum ==
    /\ Tmr0Runs /\ sum # NoSum
    /\ report' = [report EXCEPT ![row] = sum]
    /\ sum' = NoSum
    /\ IF row # 1
         THEN row' = NextSum(row) /\ UNCHANGED <<cell, passes>>
         ELSE row' = FirstSum /\ cell' = 1 /\ passes' = passes + 1
    /\ UNCHANGED <<phys, keys, tmr1, endpoint, controller, hview, session, history>>

RefreshColumn8 == LoadSum \/ StoreSum

-----------------------------------------------------------------------------
\* Mutant: the report is compared with itself.
Differs_Never == FALSE

Differs == report # ReportOf(keys)

\* TMR1: keep the old report, build the new one and compare them.  Nothing
\* that preempts TMR1 here writes them; of what reads them, GET_REPORT, a part
\* of a report is all that can be seen (ScanPrefix).
BuildReport ==
    /\ Tmr1Runs /\ t1 = "idle" /\ timer1
    /\ report' = ReportOf(keys)
    /\ built' = ReportOf(keys)
    /\ t1' = IF Differs THEN "check" ELSE "idle"
    /\ passes' = 0
    /\ overlooked' = (overlooked \/ (report = ReportOf(keys) /\ built # report))
    /\ UNCHANGED <<phys, keys, cell, row, sum, slot, endpoint, controller, hview, session,
                   raced, cancelled>>

\* Mutant: an endpoint with a packet the host has not taken counts as busy.
CheckBusy_WaitsForHost ==
    /\ Tmr1Runs /\ t1 = "check"
    /\ IF bytes = no_bytes_left /\ ready = NothingReady
         THEN pointer' = "report" /\ t1' = "length"
         ELSE UNCHANGED pointer /\ t1' = "idle"
    /\ raced' = FALSE /\ cancelled' = FALSE /\ overlooked' = FALSE
    /\ UNCHANGED <<phys, tmr0, slot, built, report, bytes, controller, hview, session>>

\* USB_initiate_send: the busy test and the pointer.
CheckBusy ==
    /\ Tmr1Runs /\ t1 = "check"
    /\ IF bytes = no_bytes_left
         THEN pointer' = "report" /\ t1' = "length"
         ELSE UNCHANGED pointer /\ t1' = "idle"
    /\ raced' = FALSE /\ cancelled' = FALSE /\ overlooked' = FALSE
    /\ UNCHANGED <<phys, tmr0, slot, built, report, bytes, controller, hview, session>>

\* Mutant: the length is added instead of stored.
StoreLength_Adds ==
    /\ Tmr1Runs /\ t1 = "length"
    /\ bytes' = bytes + ReportSize
    /\ t1' = "process"
    /\ UNCHANGED <<phys, tmr0, slot, built, report, pointer, controller, hview, session, history>>

StoreLength ==
    /\ Tmr1Runs /\ t1 = "length"
    /\ bytes' = ReportSize
    /\ t1' = "process"
    /\ UNCHANGED <<phys, tmr0, slot, built, report, pointer, controller, hview, session, history>>

\* Mutant: the packet is armed before it is copied.
EnterProcess_ArmsFirst ==
    /\ Tmr1Runs /\ t1 = "process"
    /\ IF bytes # no_bytes_left
         THEN t1' = "copy" /\ ready' = bytes /\ UNCHANGED pointer
         ELSE t1' = "idle" /\ pointer' = "NULL" /\ UNCHANGED ready
    /\ UNCHANGED <<phys, tmr0, slot, built, report, bytes, buf, evt, hview, session, history>>

\* USB_process_rx_tx called by TMR1.
EnterProcess ==
    /\ Tmr1Runs /\ t1 = "process"
    /\ IF bytes # no_bytes_left
         THEN t1' = "copy" /\ UNCHANGED pointer
         ELSE t1' = "idle" /\ pointer' = "NULL"
    /\ UNCHANGED <<phys, tmr0, slot, built, report, bytes, controller, hview, session, history>>

\* The loop rereads MultiStage_Bytes and MultiStage_Storage_ptr.
CopySlot ==
    /\ Tmr1Runs /\ t1 = "copy" /\ slot \in Slots /\ bytes # no_bytes_left
    /\ buf' = [buf EXCEPT ![slot] = Source[slot]]
    /\ slot' = slot + 1
    /\ UNCHANGED <<phys, tmr0, t1, built, report, endpoint, ready, evt, hview, session, history>>

ArmPacket ==
    /\ Tmr1Runs /\ t1 = "copy" /\ (slot \notin Slots \/ bytes = no_bytes_left)
    /\ ready' = bytes
    /\ slot' = 1
    /\ t1' = "clear"
    /\ UNCHANGED <<phys, tmr0, built, report, endpoint, buf, evt, hview, session, history>>

ClearBytes ==
    /\ Tmr1Runs /\ t1 = "clear"
    /\ bytes' = no_bytes_left
    /\ t1' = "idle"
    /\ UNCHANGED <<phys, tmr0, slot, built, report, pointer, controller, hview, session, history>>

-----------------------------------------------------------------------------
\* TMR1 has stored the pointer and not the length, or is copying.
MidSend == t1 \in {"length", "copy"}

\* USBD_IRQHandler: the event of endpoint 2.
EndpointEvent ==
    /\ evt
    /\ evt' = FALSE
    /\ IF bytes # no_bytes_left
         THEN /\ buf' = Source /\ ready' = bytes /\ bytes' = no_bytes_left
              /\ UNCHANGED pointer
         ELSE /\ pointer' = "NULL"
              /\ UNCHANGED <<buf, ready, bytes>>
    /\ raced' = (raced \/ MidSend)
    /\ UNCHANGED <<phys, tmr0, tmr1, report, hview, session, cancelled, overlooked>>

\* A report that was sent, or is being sent, does not reach the host.
Withdraw == cancelled' = (cancelled \/ t1 # "idle" \/ built # EmptyReport)

\* USBD_IRQHandler: SET_CONFIGURATION withdraws what is ready and starts
\* timer 1.  The host starts with no key held.
SetConfiguration ==
    /\ ready' = NothingReady
    /\ timer1' = TRUE
    /\ configured' = TRUE /\ hview' = EmptyReport
    /\ Withdraw
    /\ UNCHANGED <<phys, tmr0, tmr1, report, endpoint, buf, evt, raced, overlooked>>

\* USBD_IRQHandler: a bus reset, once the endpoint events are handled.
\* Timer 1 goes on.
BusReset ==
    /\ ~evt
    /\ bytes' = no_bytes_left /\ pointer' = "NULL" /\ ready' = NothingReady
    /\ configured' = FALSE /\ hview' = EmptyReport
    /\ Withdraw
    /\ raced' = (raced \/ MidSend)
    /\ UNCHANGED <<phys, tmr0, tmr1, report, timer1, buf, evt, overlooked>>

\* The host polls and gets what is ready.
HostPolls ==
    /\ configured /\ ready # NothingReady
    /\ hview' = IF ready = ReportSize THEN buf ELSE Babble
    /\ ready' = NothingReady
    /\ evt' = TRUE
    /\ UNCHANGED <<phys, tmr0, tmr1, report, endpoint, buf, session, history>>

Tmr0 == SampleCell \/ RefreshColumn \/ RefreshColumn8
SendReport ==
    \/ CheckBusy \/ StoreLength \/ EnterProcess
    \/ CopySlot \/ ArmPacket \/ ClearBytes
Tmr1 == BuildReport \/ SendReport

Pipeline ==
    \/ \E key \in Keys : Touch(key)
    \/ Tmr0 \/ Tmr1 \/ EndpointEvent \/ HostPolls

Next == Pipeline \/ SetConfiguration \/ BusReset

Spec == Init /\ [][Next]_vars

\* Both timers are periodic, and a run of TMR1 is shorter than TMR0's period,
\* so TMR0 gets its turn between two of them.  The host polls.
FairSpec ==
    Spec /\ SF_vars(Tmr0) /\ WF_vars(Tmr1) /\ WF_vars(EndpointEvent) /\ WF_vars(HostPolls)

\* Column 8 is one of nine that TMR0 refreshes in turn.
RefreshingSpec == FairSpec /\ SF_vars(RefreshColumn8)

\* One configuration, and no reset after it.
ConfiguredOnce == Init /\ [][Pipeline \/ (~configured /\ SetConfiguration)]_vars

-----------------------------------------------------------------------------
Reports == {ReportOf(S) : S \in SUBSET Keys}

TypeOK ==
    /\ phys \subseteq Keys /\ keys \subseteq Keys
    /\ cell \in 1 .. NumKeys + 1 /\ passes \in 0 .. MaxPasses
    /\ row \in Sums /\ sum \in 0 .. 255 \union {NoSum}
    /\ t1 \in {"idle", "check", "length", "process", "copy", "clear"}
    /\ report \in [Slots -> 0 .. 255]
    /\ built \in Reports
    /\ slot \in 1 .. NumSlots + 1
    /\ pointer \in {"report", "NULL"} /\ bytes \in {no_bytes_left, ReportSize}
    /\ ready \in {NothingReady, ReportSize, no_bytes_left}
    /\ buf \in [Slots -> 0 .. 256] /\ evt \in BOOLEAN
    /\ hview \in [Slots -> 0 .. 256] \union {Babble}
    /\ timer1 \in BOOLEAN /\ configured \in BOOLEAN
    /\ raced \in BOOLEAN /\ cancelled \in BOOLEAN /\ overlooked \in BOOLEAN

AtRest == t1 = "idle" /\ ~evt /\ ready = NothingReady

\* When nothing is in flight the host has the last report: overwriting a
\* packet it has not polled, sending twice and comparing with a report that
\* was never fetched do not leave it with an old one, unless the event of an
\* earlier packet fell into the send, or column 8 made the report look sent.
HostUpToDate == (AtRest /\ ~raced /\ ~cancelled /\ ~overlooked) => hview = built

\* Keys held long enough reach the host: if they stay as they are, no event
\* falls into a send and column 8 does not make their report look sent, the
\* host ends up with exactly their report.
KeysReachHost ==
    (<>[][phys' = phys]_phys /\ <>[](configured /\ ~raced /\ ~cancelled /\ ~overlooked))
        => <>[](hview = ReportOf(phys))

\* timer.h:72, of TMR1: "new data must be pushed for usb hid report".  The
\* same, whatever column 8 does.
NewDataPushed ==
    (<>[][phys' = phys]_phys /\ <>[](configured /\ ~raced /\ ~cancelled))
        => <>[](hview = ReportOf(phys))

NoMail == [i \in Slots |-> -1]
Torn == [i \in Slots |-> -2]

\* What the host gets if it polls now; torn while TMR1 copies over it.
Mail ==
    IF ready = NothingReady THEN NoMail
    ELSE IF t1 = "copy" THEN Torn
    ELSE IF ready = ReportSize THEN buf ELSE Babble

Link == INSTANCE ReportLink WITH
    Anything <- [Slots -> 0 .. 256] \union {Babble},
    current <- built, mail <- Mail, seen <- hview,
    posting <- t1 \in {"length", "process", "copy"},
    disturbed <- raced, withdrawn <- cancelled

\* Statement by statement, preempted and with the host polling at any moment,
\* the pipeline is the mailbox of ReportLink.
IsReportLink == Link!Spec

\* usb.h:354, returned to TMR1: "everything ok, message transmitted".  What
\* the host gets is always a whole report.
MessageIntact == hview \in Reports
=============================================================================
