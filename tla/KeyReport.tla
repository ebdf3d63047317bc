------------------------------ MODULE KeyReport ------------------------------
(***************************************************************************)
(* reportPressedKeys of inc/keymatrix.h: the loop that turns the key       *)
(* matrix into the 8 byte boot-protocol keyboard report.  One step is one  *)
(* iteration of one of its loops, so that the report is visible half       *)
(* cleared or half built, as it is in report_hid_out.                      *)
(*                                                                         *)
(* Byte 0 of the report is the set `mod' of its modifier bits, byte 1 is   *)
(* always zero and left out, and bytes 2.. are the function `key'.  A cell *)
(* <<col, row>> is keys[col][row]; `pressed' holds the cells whose state   *)
(* field is 1.  The matrix is written cell by cell between two calls;      *)
(* Pressable bounds the cells that are ever pressed.  What setRGB does to  *)
(* report_hid_out between two calls is left to HidPipeline: a call starts  *)
(* by clearing it.                                                         *)
(***************************************************************************)
EXTENDS Naturals, FiniteSets

CONSTANTS
    NumCols, NumRows,   \* dimensions of the matrix, 8 and 9
    Rollover,           \* normal keys a report has room for, 6
    KeyCodes,           \* key codes of the layout
    KEY_NONE,           \* the code of an empty slot
    Modifiers,          \* codes that become bits of byte 0
    Layout,             \* keymatrix_bootmode_normal
    Pressable           \* bound: cells a user may press

Cells == (0 .. NumCols - 1) \X (0 .. NumRows - 1)

Slots == 2 .. Rollover + 1

ASSUME MatrixAssumption ==
    /\ NumCols \in Nat \ {0}
    /\ NumRows \in Nat \ {0}
    /\ Rollover \in Nat
ASSUME LayoutAssumption ==
    /\ KEY_NONE \notin KeyCodes
    /\ Modifiers \subseteq KeyCodes
    /\ Layout \in [Cells -> KeyCodes]
    /\ Pressable \subseteq Cells

VARIABLES
    pc,             \* "idle" between two calls, "clear" and "scan" in the loops
    pressed,        \* cells with state = 1
    report_out,     \* the report under construction
    cleared,        \* its bytes the first loop has cleared, 0 outside it
    keycodebyte,    \* next free slot of the report
    currentrow, currentcol

vars == <<pc, pressed, report_out, cleared, keycodebyte, currentrow, currentcol>>

EmptyReport == [mod |-> {}, key |-> [i \in Slots |-> KEY_NONE]]

Cursor == <<currentcol, currentrow>>

Init ==
    /\ pc = "idle"
    /\ pressed = {}
    /\ report_out = EmptyReport
    /\ cleared = 0
    /\ keycodebyte = 2
    /\ currentrow = 0
    /\ currentcol = 0

(***************************************************************************)
(* getPressedKeys samples one cell after the other from the lowest         *)
(* priority interrupt, so a call may find the matrix half updated.         *)
(***************************************************************************)
SampleCell(cell) ==
    /\ pc = "idle"
    /\ \/ pressed' = pressed \union {cell}
       \/ pressed' = pressed \ {cell}
    /\ UNCHANGED <<pc, report_out, cleared, keycodebyte, currentrow, currentcol>>

(***************************************************************************)
(* Entry of reportPressedKeys: start at the first cell.                    *)
(***************************************************************************)
Enter ==
    /\ pc = "idle"
    /\ pc' = "clear"
    /\ keycodebyte' = 2
    /\ currentrow' = 0
    /\ currentcol' = 0
    /\ UNCHANGED <<pressed, report_out, cleared>>

ClearByte ==
    /\ pc = "clear" /\ cleared < Rollover + 2
    /\ report_out' = IF cleared = 0 THEN [report_out EXCEPT !.mod = {}]
                     ELSE IF cleared \in Slots
                       THEN [report_out EXCEPT !.key[cleared] = KEY_NONE]
                     ELSE report_out
    /\ cleared' = cleared + 1
    /\ UNCHANGED <<pc, pressed, keycodebyte, currentrow, currentcol>>

\* Mutant: the last byte is not cleared.
BeginScan_OneEarly ==
    /\ pc = "clear" /\ cleared >= Rollover + 1
    /\ pc' = "scan"
    /\ cleared' = 0
    /\ UNCHANGED <<pressed, report_out, keycodebyte, currentrow, currentcol>>

BeginScan ==
    /\ pc = "clear" /\ cleared >= Rollover + 2
    /\ pc' = "scan"
    /\ cleared' = 0
    /\ UNCHANGED <<pressed, report_out, keycodebyte, currentrow, currentcol>>

\* Mutant: one slot too few before the loop gives up.
LoopGuard_OneShort == currentrow < NumRows /\ keycodebyte < Rollover + 1

LoopGuard == currentrow < NumRows /\ keycodebyte < Rollover + 2

\* Mutant: the wrap compares with the wrong bound and skips the last column.
Advance_SkipsLastColumn ==
    IF currentcol + 1 > NumCols - 2
      THEN currentcol' = 0 /\ currentrow' = currentrow + 1
      ELSE currentcol' = currentcol + 1 /\ UNCHANGED currentrow

\* Mutant: the wrap comes one column late.
Advance_WrapLate ==
    IF currentcol + 1 > NumCols
      THEN currentcol' = 0 /\ currentrow' = currentrow + 1
      ELSE currentcol' = currentcol + 1 /\ UNCHANGED currentrow

\* Mutant: the row counter is not incremented at the wrap.
Advance_SameRow ==
    IF currentcol + 1 > NumCols - 1
      THEN currentcol' = 0 /\ UNCHANGED currentrow
      ELSE currentcol' = currentcol + 1 /\ UNCHANGED currentrow

(***************************************************************************)
(* Columns are the inner loop: the matrix is read row by row.              *)
(***************************************************************************)
Advance ==
    IF currentcol + 1 > NumCols - 1
      THEN currentcol' = 0 /\ currentrow' = currentrow + 1
      ELSE currentcol' = currentcol + 1 /\ UNCHANGED currentrow

Iterate == pc = "scan" /\ LoopGuard /\ Advance /\ UNCHANGED <<pc, pressed, cleared>>

VisitReleased ==
    /\ Iterate
    /\ Cursor \notin pressed
    /\ UNCHANGED <<report_out, keycodebyte>>

VisitModifier ==
    /\ Iterate
    /\ Cursor \in pressed
    /\ Layout[Cursor] \in Modifiers
    /\ report_out' = [report_out EXCEPT !.mod = @ \union {Layout[Cursor]}]
    /\ UNCHANGED keycodebyte

\* Mutant: the slot index is not advanced, so the next key overwrites it.
VisitNormal_SameSlot ==
    /\ Iterate
    /\ Cursor \in pressed
    /\ Layout[Cursor] \notin Modifiers
    /\ report_out' = [report_out EXCEPT !.key[keycodebyte] = Layout[Cursor]]
    /\ UNCHANGED keycodebyte

VisitNormal ==
    /\ Iterate
    /\ Cursor \in pressed
    /\ Layout[Cursor] \notin Modifiers
    /\ report_out' = [report_out EXCEPT !.key[keycodebyte] = Layout[Cursor]]
    /\ keycodebyte' = keycodebyte + 1

Return ==
    /\ pc = "scan"
    /\ ~LoopGuard
    /\ pc' = "idle"
    /\ UNCHANGED <<pressed, report_out, cleared, keycodebyte, currentrow, currentcol>>

Loops == ClearByte \/ BeginScan \/ VisitReleased \/ VisitModifier \/ VisitNormal \/ Return

Step == Enter \/ Loops

Next == (\E cell \in Pressable : SampleCell(cell)) \/ Step

Spec == Init /\ [][Next]_vars

\* The interrupt handler that runs the loops is never starved: only the USB
\* and UART handlers preempt it, and both return.
FairSpec == Spec /\ WF_vars(Loops)

-----------------------------------------------------------------------------

(***************************************************************************)
(* What the loop should compute.                                           *)
(***************************************************************************)
Before(p, q) == p[2] < q[2] \/ (p[2] = q[2] /\ p[1] < q[1])

Normal(S) == {p \in S : Layout[p] \notin Modifiers}

ModifierCodes(S) == {Layout[p] : p \in S} \intersect Modifiers

Visited == {p \in pressed : Before(p, Cursor)}

\* How many pressed normal keys the scan meets before p.
Rank(p) == Cardinality({q \in Normal(pressed) : Before(q, p)})

Returning == pc = "scan" /\ ~LoopGuard

Reported == {report_out.key[i] : i \in Slots} \ {KEY_NONE}

\* No code is entered twice in the layout.
LayoutInjective == \A p, q \in Cells : Layout[p] = Layout[q] => p = q

TypeOK ==
    /\ pc \in {"idle", "clear", "scan"}
    /\ pressed \subseteq Pressable
    /\ report_out \in [mod : SUBSET Modifiers,
                       key : [Slots -> KeyCodes \union {KEY_NONE}]]
    /\ cleared \in 0 .. Rollover + 2
    /\ keycodebyte \in 2 .. Rollover + 2
    /\ currentrow \in 0 .. NumRows
    /\ currentcol \in 0 .. NumCols - 1

\* At every moment of the scan the half-built report (the one a GET_REPORT
\* request can read) holds exactly the cells already visited: their
\* modifiers in byte 0, their normal keys each in the slot of its rank in
\* scan order, and nothing behind keycodebyte.
ScanPrefix ==
    pc = "scan" =>
        /\ report_out.mod = ModifierCodes(Visited)
        /\ keycodebyte = 2 + Cardinality(Normal(Visited))
        /\ \A p \in Normal(Visited) : report_out.key[2 + Rank(p)] = Layout[p]
        /\ \A i \in Slots : i < keycodebyte =>
             \E p \in Normal(Visited) : i = 2 + Rank(p)
        /\ \A i \in Slots : i >= keycodebyte => report_out.key[i] = KEY_NONE

\* A finished report with a slot to spare is complete: it holds every pressed
\* normal key and every pressed modifier, wherever in the matrix it sits.
CompleteBelowRollover ==
    (Returning /\ Cardinality(Normal(pressed)) < Rollover) =>
        /\ report_out.mod = ModifierCodes(pressed)
        /\ Reported = {Layout[p] : p \in Normal(pressed)}

\* When more keys are held than fit, every slot is used and each key left
\* out comes later in the scan than each key reported: which keys survive is
\* decided by their place in the matrix, never by a stale slot.
FirstKeysWin ==
    (Returning /\ Cardinality(Normal(pressed)) >= Rollover) =>
        /\ \A i \in Slots : report_out.key[i] # KEY_NONE
        /\ \A p, q \in Normal(pressed) :
             Layout[p] \in Reported /\ Layout[q] \notin Reported => Before(p, q)

\* No key code stands in two slots, not even of a half-cleared or half-built
\* report: the TODO in the loop asks for this check, and the code leaves it to
\* the clearing and to the layout.
NoDuplicateCodes ==
    \A i, j \in Slots : i # j /\ report_out.key[i] # KEY_NONE
                        => report_out.key[i] # report_out.key[j]

\* A call of reportPressedKeys returns.
CallReturns == (pc # "idle") ~> (pc = "idle")

\* README.md:6 promises "only 6 keys (excluding modifiers) at the same
\* time": with at most Rollover normal keys, a finished report has every
\* pressed modifier.
ModifiersAlwaysReported ==
    (Returning /\ Cardinality(Normal(pressed)) <= Rollover) =>
        report_out.mod = ModifierCodes(pressed)

=============================================================================
