-------------------------- MODULE KeyReport_proofs --------------------------
(***************************************************************************)
(* Proofs about the report loop, for every matrix size, every layout and   *)
(* every number of slots.  The argument: Advance moves the cursor to the   *)
(* next cell in scan order (CursorMoves), so each iteration adds exactly   *)
(* the cell under the cursor to Visited, and the slot it writes is the     *)
(* number of normal keys visited before it, which no earlier key has.      *)
(***************************************************************************)
EXTENDS KeyReport, FiniteSetTheorems, TLAPS

\* The matrix is finite, and so is every set of pressed cells.
LEMMA CellsFinite == IsFiniteSet(Cells)
<1>1. IsFiniteSet(0 .. NumCols - 1) /\ IsFiniteSet(0 .. NumRows - 1)
  BY FS_Interval, MatrixAssumption
<1> QED
  BY <1>1, FS_Product DEF Cells

LEMMA PressedFinite ==
  ASSUME NEW S, S \subseteq Cells
  PROVE  /\ IsFiniteSet(S)
         /\ IsFiniteSet(Normal(S))
         /\ Cardinality(Normal(S)) \in Nat
<1>1. IsFiniteSet(S)
  BY CellsFinite, FS_Subset
<1>2. Normal(S) \subseteq S
  BY DEF Normal
<1>3. IsFiniteSet(Normal(S))
  BY <1>1, <1>2, FS_Subset
<1> QED
  BY <1>1, <1>3, FS_CardinalityType

\* One iteration moves the cursor to the immediate successor in scan order.
LEMMA CursorMoves ==
  ASSUME TypeOK, Advance, LoopGuard, NEW p \in Cells
  PROVE  Before(p, Cursor') <=> Before(p, Cursor) \/ p = Cursor
<1>1. /\ p = <<p[1], p[2]>>
      /\ p[1] \in 0 .. NumCols - 1
      /\ p[2] \in 0 .. NumRows - 1
  BY DEF Cells
<1>2. currentcol \in 0 .. NumCols - 1 /\ currentrow \in Nat
  BY MatrixAssumption DEF TypeOK
<1>3. p = Cursor <=> p[1] = currentcol /\ p[2] = currentrow
  BY <1>1 DEF Cursor
<1>4. CASE currentcol + 1 > NumCols - 1
  <2>1. currentcol' = 0 /\ currentrow' = currentrow + 1 /\ currentcol = NumCols - 1
    BY <1>2, <1>4, MatrixAssumption DEF Advance
  <2> QED
    BY <1>1, <1>2, <1>3, <2>1, MatrixAssumption DEF Before, Cursor
<1>5. CASE ~(currentcol + 1 > NumCols - 1)
  <2>1. currentcol' = currentcol + 1 /\ currentrow' = currentrow
    BY <1>5 DEF Advance
  <2> QED
    BY <1>1, <1>2, <1>3, <2>1, MatrixAssumption DEF Before, Cursor
<1> QED
  BY <1>4, <1>5

LEMMA CursorInCells ==
  ASSUME TypeOK, LoopGuard
  PROVE  Cursor \in Cells
BY MatrixAssumption DEF TypeOK, LoopGuard, Cursor, Cells

LEMMA VisitedGrows ==
  ASSUME TypeOK, Iterate
  PROVE  Visited' = Visited \union ({Cursor} \intersect pressed)
<1>1. pressed' = pressed /\ pressed \subseteq Cells
  BY LayoutAssumption DEF Iterate, TypeOK
<1>2. \A p \in Cells : Before(p, Cursor') <=> Before(p, Cursor) \/ p = Cursor
  BY CursorMoves DEF Iterate
<1> QED
  BY <1>1, <1>2 DEF Visited

-----------------------------------------------------------------------------

\* Every reachable state has the types declared in TypeOK.
THEOREM TypeCorrect == Spec => []TypeOK
<1>1. Init => TypeOK
  BY MatrixAssumption DEF Init, TypeOK, EmptyReport, Slots
<1>2. TypeOK /\ [Next]_vars => TypeOK'
  <2> SUFFICES ASSUME TypeOK, [Next]_vars
               PROVE  TypeOK'
    OBVIOUS
  <2>1. ASSUME NEW cell \in Pressable, SampleCell(cell)
        PROVE  TypeOK'
    BY <2>1 DEF SampleCell, TypeOK
  <2>2. CASE Enter
    BY <2>2, MatrixAssumption DEF Enter, TypeOK
  <2>9. CASE ClearByte
    BY <2>9, MatrixAssumption DEF ClearByte, TypeOK
  <2>10. CASE BeginScan
    BY <2>10, MatrixAssumption DEF BeginScan, TypeOK
  <2>3. ASSUME Iterate
        PROVE  /\ currentrow' \in 0 .. NumRows
               /\ currentcol' \in 0 .. NumCols - 1
    BY <2>3, MatrixAssumption DEF Iterate, LoopGuard, Advance, TypeOK
  <2>4. CASE VisitReleased
    BY <2>3, <2>4 DEF VisitReleased, Iterate, TypeOK
  <2>5. CASE VisitModifier
    BY <2>3, <2>5 DEF VisitModifier, Iterate, TypeOK
  <2>6. CASE VisitNormal
    <3>1. Cursor \in Cells
      BY <2>6, CursorInCells DEF VisitNormal, Iterate
    <3>2. Layout[Cursor] \in KeyCodes
      BY <3>1, LayoutAssumption
    <3>3. keycodebyte' \in 2 .. Rollover + 2
      BY <2>6, MatrixAssumption DEF VisitNormal, Iterate, LoopGuard, TypeOK
    <3> QED
      BY <2>3, <2>6, <3>2, <3>3 DEF VisitNormal, Iterate, TypeOK
  <2>7. CASE Return
    BY <2>7 DEF Return, TypeOK
  <2>8. CASE UNCHANGED vars
    BY <2>8 DEF vars, TypeOK
  <2> QED
    BY <2>1, <2>2, <2>4, <2>5, <2>6, <2>7, <2>8, <2>9, <2>10 DEF Next, Step, Loops
<1> QED
  BY <1>1, <1>2, PTL DEF Spec

-----------------------------------------------------------------------------

\* A visited key has a smaller rank than the next key to be visited.
LEMMA RankOfVisited ==
  ASSUME TypeOK, NEW p \in Normal(Visited)
  PROVE  /\ Rank(p) \in Nat
         /\ Rank(p) < Cardinality(Normal(Visited))
<1> DEFINE P == {q \in Normal(pressed) : Before(q, p)}
<1>1. pressed \subseteq Cells /\ Visited \subseteq Cells
  BY LayoutAssumption DEF TypeOK, Visited
<1>2. IsFiniteSet(Normal(Visited))
  BY <1>1, PressedFinite
<1>3. p \in pressed /\ p \in Cells /\ Before(p, Cursor) /\ Layout[p] \notin Modifiers
  BY <1>1 DEF Normal, Visited
<1>4. P \subseteq Normal(Visited)
  <2> SUFFICES ASSUME NEW q \in P
               PROVE  q \in Normal(Visited)
    OBVIOUS
  <2>1. q \in pressed /\ q \in Cells /\ Before(q, p) /\ Layout[q] \notin Modifiers
    BY <1>1 DEF Normal
  <2>2. Before(q, Cursor)
    BY <1>3, <2>1, MatrixAssumption DEF Before, Cursor, Cells, TypeOK
  <2> QED
    BY <2>1, <2>2 DEF Normal, Visited
<1>5. p \notin P
  BY <1>3, MatrixAssumption DEF Before, Cells
<1>6. P # Normal(Visited)
  BY <1>5
<1> QED
  BY <1>2, <1>4, <1>6, FS_Subset, FS_CardinalityType DEF Rank

\* The rank of the cell under the cursor is the number of keys in the report.
LEMMA RankOfCursor ==
  ASSUME TypeOK
  PROVE  Rank(Cursor) = Cardinality(Normal(Visited))
<1>1. {q \in Normal(pressed) : Before(q, Cursor)} = Normal(Visited)
  BY DEF Normal, Visited
<1> QED
  BY <1>1 DEF Rank

\* How far the first loop has come.
ClearedBytes ==
    IF pc = "clear"
      THEN /\ cleared > 0 => report_out.mod = {}
           /\ \A i \in Slots : i < cleared => report_out.key[i] = KEY_NONE
           /\ keycodebyte = 2 /\ currentrow = 0 /\ currentcol = 0
      ELSE cleared = 0

LEMMA InitCleared == Init => ClearedBytes
BY DEF Init, ClearedBytes

LEMMA StepCleared == TypeOK /\ ClearedBytes /\ [Next]_vars => ClearedBytes'
<1> SUFFICES ASSUME TypeOK, ClearedBytes, [Next]_vars
             PROVE  ClearedBytes'
  OBVIOUS
<1>1. Slots = 2 .. Rollover + 1 /\ Rollover \in Nat
  BY MatrixAssumption DEF Slots
<1>2. CASE Enter
  BY <1>2, <1>1 DEF Enter, ClearedBytes
<1>3. CASE ClearByte
  <2>1. /\ pc' = "clear" /\ cleared' = cleared + 1 /\ cleared \in Nat
        /\ keycodebyte' = 2 /\ currentrow' = 0 /\ currentcol' = 0
    BY <1>1, <1>3 DEF ClearByte, ClearedBytes, TypeOK
  <2>2. report_out'.mod = {}
    BY <1>1, <1>3 DEF ClearByte, ClearedBytes, TypeOK
  <2>3. ASSUME NEW i \in Slots, i < cleared'
        PROVE  report_out'.key[i] = KEY_NONE
    <3>1. CASE i = cleared
      BY <1>1, <1>3, <3>1 DEF ClearByte, TypeOK
    <3>2. CASE i # cleared
      <4>1. report_out.key[i] = KEY_NONE
        BY <1>1, <1>3, <2>1, <2>3, <3>2 DEF ClearByte, ClearedBytes
      <4> QED
        BY <1>1, <1>3, <4>1 DEF ClearByte, TypeOK
    <3> QED
      BY <3>1, <3>2
  <2> QED
    BY <2>1, <2>2, <2>3 DEF ClearedBytes
<1>4. CASE UNCHANGED vars
  BY <1>4 DEF vars, ClearedBytes
<1>5. ASSUME NEW cell \in Pressable, SampleCell(cell) PROVE ClearedBytes'
  BY <1>5 DEF SampleCell, ClearedBytes
<1>6. CASE BeginScan \/ VisitReleased \/ VisitModifier \/ VisitNormal \/ Return
  BY <1>6 DEF BeginScan, VisitReleased, VisitModifier, VisitNormal, Iterate, Return,
              ClearedBytes
<1> QED
  BY <1>2, <1>3, <1>4, <1>5, <1>6 DEF Next, Step, Loops

\* The half-built report holds exactly what the loop has visited.
THEOREM ReportIsScanPrefix == Spec => []ScanPrefix
<1>1. Init => ScanPrefix
  BY DEF Init, ScanPrefix
<1>2. TypeOK /\ ClearedBytes /\ ScanPrefix /\ [Next]_vars => ScanPrefix'
  <2> SUFFICES ASSUME TypeOK, ClearedBytes, ScanPrefix, [Next]_vars
               PROVE  ScanPrefix'
    OBVIOUS
  <2>a. pressed \subseteq Cells /\ Visited \subseteq Cells
    BY LayoutAssumption DEF TypeOK, Visited
  <2>1. ASSUME NEW cell \in Pressable, SampleCell(cell)
        PROVE  ScanPrefix'
    BY <2>1 DEF SampleCell, ScanPrefix
  <2>2. CASE BeginScan
    <3>0. cleared >= Rollover + 2 /\ cleared \in Nat /\ pc = "clear"
      BY <2>2, MatrixAssumption DEF BeginScan, TypeOK
    <3>1. Visited' = {}
      <4>1. Cursor' = <<0, 0>> /\ pressed' = pressed
        BY <2>2, <3>0 DEF BeginScan, ClearedBytes, Cursor
      <4>2. \A p \in Cells : ~Before(p, <<0, 0>>)
        BY MatrixAssumption DEF Before, Cells
      <4> QED
        BY <2>a, <4>1, <4>2 DEF Visited
    <3>2. Normal(Visited)' = {} /\ ModifierCodes(Visited)' = {}
      BY <3>1 DEF Normal, ModifierCodes
    <3>3. Cardinality(Normal(Visited)') = 0
      BY <3>2, FS_EmptySet
    <3>4. /\ report_out'.mod = {} /\ keycodebyte' = 2
          /\ \A i \in Slots : report_out'.key[i] = KEY_NONE
      BY <2>2, <3>0, MatrixAssumption DEF BeginScan, ClearedBytes, Slots
    <3>5. \A i \in Slots : ~(i < 2)
      BY MatrixAssumption DEF Slots
    <3> QED
      BY <3>2, <3>3, <3>4, <3>5 DEF ScanPrefix
  <2>3. CASE VisitReleased
    <3>1. Visited' = Visited /\ pressed' = pressed
      BY <2>3, VisitedGrows DEF VisitReleased, Iterate
    <3>2. Normal(Visited)' = Normal(Visited) /\ ModifierCodes(Visited)' = ModifierCodes(Visited)
      BY <3>1 DEF Normal, ModifierCodes
    <3>3. \A p : Rank(p)' = Rank(p)
      BY <3>1 DEF Rank, Normal
    <3>4. report_out' = report_out /\ keycodebyte' = keycodebyte /\ pc = "scan"
      BY <2>3 DEF VisitReleased, Iterate
    <3> QED
      BY <3>2, <3>3, <3>4 DEF ScanPrefix
  <2>4. CASE VisitModifier
    <3>1. Visited' = Visited \union {Cursor} /\ pressed' = pressed
      BY <2>4, VisitedGrows DEF VisitModifier, Iterate
    <3>2. Layout[Cursor] \in Modifiers
      BY <2>4 DEF VisitModifier
    <3>3. Normal(Visited)' = Normal(Visited)
      BY <3>1, <3>2 DEF Normal
    <3>4. ModifierCodes(Visited)' = ModifierCodes(Visited) \union {Layout[Cursor]}
      BY <3>1, <3>2 DEF ModifierCodes
    <3>5. \A p : Rank(p)' = Rank(p)
      BY <3>1 DEF Rank, Normal
    <3>6. /\ report_out'.mod = report_out.mod \union {Layout[Cursor]}
          /\ report_out'.key = report_out.key
          /\ keycodebyte' = keycodebyte
          /\ pc = "scan"
      BY <2>4 DEF VisitModifier, Iterate, TypeOK
    <3> QED
      BY <3>3, <3>4, <3>5, <3>6 DEF ScanPrefix
  <2>5. CASE VisitNormal
    <3> DEFINE V == Normal(Visited)
    <3>1. Visited' = Visited \union {Cursor} /\ pressed' = pressed
      BY <2>5, VisitedGrows DEF VisitNormal, Iterate
    <3>2. Layout[Cursor] \notin Modifiers
      BY <2>5 DEF VisitNormal
    <3>3. V' = V \union {Cursor} /\ ModifierCodes(Visited)' = ModifierCodes(Visited)
      BY <3>1, <3>2 DEF Normal, ModifierCodes
    <3>4. \A p : Rank(p)' = Rank(p)
      BY <3>1 DEF Rank, Normal
    <3>5. Cursor \notin V
      <4>1. ~Before(Cursor, Cursor)
        BY MatrixAssumption DEF Before, Cursor, TypeOK
      <4> QED
        BY <4>1 DEF Normal, Visited
    <3>6. Cardinality(V') = Cardinality(V) + 1
      BY <2>a, <3>3, <3>5, PressedFinite, FS_AddElement
    <3>7. /\ report_out'.mod = report_out.mod
          /\ report_out'.key = [report_out.key EXCEPT ![keycodebyte] = Layout[Cursor]]
          /\ keycodebyte' = keycodebyte + 1
          /\ pc = "scan"
      BY <2>5 DEF VisitNormal, Iterate, TypeOK
    <3>8. keycodebyte \in Slots
      BY <2>5, MatrixAssumption DEF VisitNormal, Iterate, LoopGuard, TypeOK, Slots
    <3>9. keycodebyte = 2 + Cardinality(V) /\ Cardinality(V) \in Nat
      BY <2>a, <3>7, PressedFinite DEF ScanPrefix
    <3>10. keycodebyte = 2 + Rank(Cursor)
      BY <3>9, RankOfCursor
    <3>11. \A p \in V : Rank(p) \in Nat /\ 2 + Rank(p) < keycodebyte
      BY <3>9, RankOfVisited
    <3>12. DOMAIN report_out.key = Slots /\ Slots \subseteq Nat
      BY MatrixAssumption DEF TypeOK, Slots
    <3>13. \A p \in V' : report_out'.key[2 + Rank(p)'] = Layout[p]
      <4> SUFFICES ASSUME NEW p \in V'
                   PROVE  report_out'.key[2 + Rank(p)] = Layout[p]
        BY <3>4
      <4>1. CASE p = Cursor
        BY <3>7, <3>8, <3>10, <3>12, <4>1
      <4>2. CASE p \in V
        <5>1. report_out.key[2 + Rank(p)] = Layout[p]
          BY <3>7, <4>2 DEF ScanPrefix
        <5>2. 2 + Rank(p) \in Slots /\ 2 + Rank(p) # keycodebyte
          BY <3>8, <3>11, <4>2, MatrixAssumption DEF Slots
        <5> QED
          BY <3>7, <3>12, <5>1, <5>2
      <4> QED
        BY <3>3, <4>1, <4>2
    <3>14. \A i \in Slots : i < keycodebyte' => \E p \in V' : i = 2 + Rank(p)'
      <4> SUFFICES ASSUME NEW i \in Slots, i < keycodebyte + 1
                   PROVE  \E p \in V' : i = 2 + Rank(p)
        BY <3>4, <3>7
      <4>1. CASE i = keycodebyte
        BY <3>3, <3>10, <4>1
      <4>2. CASE i < keycodebyte
        BY <3>3, <3>7, <4>2 DEF ScanPrefix
      <4> QED
        BY <3>8, <3>12, <4>1, <4>2
    <3>15. \A i \in Slots : i >= keycodebyte' => report_out'.key[i] = KEY_NONE
      <4> SUFFICES ASSUME NEW i \in Slots, i >= keycodebyte + 1
                   PROVE  report_out'.key[i] = KEY_NONE
        BY <3>7
      <4>1. i # keycodebyte /\ i >= keycodebyte
        BY <3>8, <3>12
      <4>2. report_out.key[i] = KEY_NONE
        BY <3>7, <4>1 DEF ScanPrefix
      <4> QED
        BY <3>7, <3>12, <4>1, <4>2
    <3>16. report_out'.mod = ModifierCodes(Visited)'
      BY <3>3, <3>7 DEF ScanPrefix
    <3>17. keycodebyte' = 2 + Cardinality(V')
      BY <3>6, <3>7, <3>9
    <3> QED
      BY <3>13, <3>14, <3>15, <3>16, <3>17 DEF ScanPrefix
  <2>6. CASE Enter \/ ClearByte \/ Return
    BY <2>6 DEF Enter, ClearByte, Return, ScanPrefix
  <2>7. CASE UNCHANGED vars
    <3>1. Visited' = Visited /\ pressed' = pressed
      BY <2>7 DEF vars, Visited, Cursor, Before
    <3>2. Normal(Visited)' = Normal(Visited) /\ ModifierCodes(Visited)' = ModifierCodes(Visited)
      BY <3>1 DEF Normal, ModifierCodes
    <3>3. \A p : Rank(p)' = Rank(p)
      BY <3>1 DEF Rank, Normal
    <3>4. report_out' = report_out /\ keycodebyte' = keycodebyte /\ pc' = pc
      BY <2>7 DEF vars
    <3> QED
      BY <3>2, <3>3, <3>4 DEF ScanPrefix
  <2> QED
    BY <2>1, <2>2, <2>3, <2>4, <2>5, <2>6, <2>7 DEF Next, Step, Loops
<1> QED
  BY <1>1, <1>2, InitCleared, StepCleared, TypeCorrect, PTL DEF Spec

-----------------------------------------------------------------------------

\* When the loop ends with a slot to spare, every cell has been visited.
LEMMA AllVisited ==
  ASSUME TypeOK, currentrow >= NumRows
  PROVE  Visited = pressed
<1>1. pressed \subseteq Cells
  BY LayoutAssumption DEF TypeOK
<1>2. \A p \in Cells : Before(p, Cursor)
  BY MatrixAssumption DEF Before, Cursor, Cells, TypeOK
<1> QED
  BY <1>1, <1>2 DEF Visited

LEMMA VisitedNormalSubset ==
  ASSUME TypeOK
  PROVE  /\ Cardinality(Normal(Visited)) \in Nat
         /\ Cardinality(Normal(pressed)) \in Nat
         /\ Cardinality(Normal(Visited)) <= Cardinality(Normal(pressed))
<1>1. pressed \subseteq Cells /\ Visited \subseteq Cells
  BY LayoutAssumption DEF TypeOK, Visited
<1>2. Normal(Visited) \subseteq Normal(pressed)
  BY DEF Visited, Normal
<1> QED
  BY <1>1, <1>2, PressedFinite, FS_Subset

\* What the slots hold is exactly the codes of the normal keys visited.
LEMMA ReportedVisited ==
  ASSUME TypeOK, ScanPrefix, pc = "scan"
  PROVE  Reported = {Layout[p] : p \in Normal(Visited)}
<1>1. Visited \subseteq Cells /\ Slots \subseteq Nat
  BY LayoutAssumption, MatrixAssumption DEF TypeOK, Visited, Slots
<1>2. \A p \in Normal(Visited) : Layout[p] \in KeyCodes
  BY <1>1, LayoutAssumption DEF Normal
<1>3. ASSUME NEW p \in Normal(Visited)
      PROVE  Layout[p] \in Reported
  <2>0. Rank(p) \in Nat /\ Rank(p) < Cardinality(Normal(Visited))
    BY RankOfVisited
  <2>a. Cardinality(Normal(Visited)) \in Nat
    BY <1>1, PressedFinite
  <2>b. keycodebyte = 2 + Cardinality(Normal(Visited))
    BY DEF ScanPrefix
  <2>1. 2 + Rank(p) \in Slots
    BY <2>0, <2>a, <2>b, MatrixAssumption DEF TypeOK, Slots
  <2>2. report_out.key[2 + Rank(p)] = Layout[p]
    BY DEF ScanPrefix
  <2>3. Layout[p] # KEY_NONE
    BY <1>2, LayoutAssumption
  <2> QED
    BY <2>1, <2>2, <2>3 DEF Reported
<1>4. ASSUME NEW c \in Reported
      PROVE  c \in {Layout[p] : p \in Normal(Visited)}
  <2>1. PICK i \in Slots : c = report_out.key[i] /\ c # KEY_NONE
    BY DEF Reported
  <2>2. i < keycodebyte
    BY <1>1, <2>1 DEF ScanPrefix, TypeOK
  <2>3. PICK p \in Normal(Visited) : i = 2 + Rank(p)
    BY <2>2 DEF ScanPrefix
  <2> QED
    BY <2>1, <2>3 DEF ScanPrefix
<1> QED
  BY <1>3, <1>4

\* A report with a free slot lists every pressed key and every modifier.
THEOREM BelowRolloverComplete == Spec => []CompleteBelowRollover
<1>1. TypeOK /\ ScanPrefix => CompleteBelowRollover
  <2> SUFFICES ASSUME TypeOK, ScanPrefix, Returning,
                      Cardinality(Normal(pressed)) < Rollover
               PROVE  /\ report_out.mod = ModifierCodes(pressed)
                      /\ Reported = {Layout[p] : p \in Normal(pressed)}
    BY DEF CompleteBelowRollover
  <2>1. keycodebyte < Rollover + 2
    BY VisitedNormalSubset, MatrixAssumption DEF ScanPrefix, Returning
  <2>2. Visited = pressed
    BY <2>1, AllVisited, MatrixAssumption DEF Returning, LoopGuard, TypeOK
  <2> QED
    BY <2>2, ReportedVisited DEF ScanPrefix, Returning
<1> QED
  BY <1>1, TypeCorrect, ReportIsScanPrefix, PTL

\* With a layout that has no code twice, a full report holds the keys that
\* come first in scan order.
THEOREM FullReportKeepsFirst ==
  ASSUME LayoutInjective
  PROVE  Spec => []FirstKeysWin
<1>1. TypeOK /\ ScanPrefix => FirstKeysWin
  <2> SUFFICES ASSUME TypeOK, ScanPrefix, Returning,
                      Cardinality(Normal(pressed)) >= Rollover
               PROVE  /\ \A i \in Slots : report_out.key[i] # KEY_NONE
                      /\ \A p, q \in Normal(pressed) :
                           Layout[p] \in Reported /\ Layout[q] \notin Reported
                             => Before(p, q)
    BY DEF FirstKeysWin
  <2>0. pressed \subseteq Cells /\ Visited \subseteq Cells
    BY LayoutAssumption DEF TypeOK, Visited
  <2>1. keycodebyte = Rollover + 2
    <3>1. CASE currentrow >= NumRows
      <4>1. keycodebyte = 2 + Cardinality(Normal(pressed))
        BY <3>1, AllVisited DEF ScanPrefix, Returning
      <4> QED
        BY <4>1, VisitedNormalSubset, MatrixAssumption DEF TypeOK
    <3>2. CASE ~(currentrow >= NumRows)
      BY <3>2, MatrixAssumption DEF Returning, LoopGuard, TypeOK
    <3> QED
      BY <3>1, <3>2
  <2>2. ASSUME NEW i \in Slots
        PROVE  report_out.key[i] # KEY_NONE
    <3>1. i < keycodebyte
      BY <2>1, MatrixAssumption DEF Slots
    <3>2. PICK p \in Normal(Visited) : i = 2 + Rank(p)
      BY <3>1 DEF ScanPrefix, Returning
    <3>3. report_out.key[i] = Layout[p]
      BY <3>2 DEF ScanPrefix, Returning
    <3> QED
      BY <2>0, <3>3, LayoutAssumption DEF Normal
  <2>3. ASSUME NEW p \in Normal(pressed), NEW q \in Normal(pressed),
               Layout[p] \in Reported, Layout[q] \notin Reported
        PROVE  Before(p, q)
    <3>1. p \in Cells /\ q \in Cells /\ p \in pressed /\ q \in pressed
      BY <2>0 DEF Normal
    <3>2. PICK r \in Normal(Visited) : Layout[p] = Layout[r]
      BY <2>3, ReportedVisited DEF Returning
    <3>3. r \in Cells /\ Before(r, Cursor)
      BY <2>0 DEF Normal, Visited
    <3>4. Before(p, Cursor)
      BY <3>1, <3>2, <3>3, LayoutInjective DEF LayoutInjective
    <3>5. q \notin Normal(Visited)
      BY <2>3, ReportedVisited DEF Returning
    <3>6. ~Before(q, Cursor)
      BY <3>1, <3>5 DEF Normal, Visited
    <3> QED
      BY <3>1, <3>4, <3>6, MatrixAssumption DEF Before, Cursor, Cells, TypeOK
  <2> QED
    BY <2>2, <2>3
<1> QED
  BY <1>1, TypeCorrect, ReportIsScanPrefix, PTL

\* With a layout that has no code twice, no report has one either: what the
\* TODO at keymatrix.h:113 asks the loop to check is a fact of the table.
THEOREM DuplicateFree ==
  ASSUME LayoutInjective
  PROVE  Spec => []NoDuplicateCodes
<1>1. Init => NoDuplicateCodes
  BY DEF Init, EmptyReport, NoDuplicateCodes
<1>2. TypeOK /\ ScanPrefix => (pc = "scan" => NoDuplicateCodes)
  <2> SUFFICES ASSUME TypeOK, ScanPrefix, pc = "scan",
                      NEW i \in Slots, NEW j \in Slots,
                      report_out.key[i] # KEY_NONE,
                      report_out.key[i] = report_out.key[j]
               PROVE  i = j
    BY DEF NoDuplicateCodes
  <2>1. Visited \subseteq Cells /\ Slots \subseteq Nat
    BY LayoutAssumption, MatrixAssumption DEF TypeOK, Visited, Slots
  <2>2. i < keycodebyte /\ j < keycodebyte
    BY <2>1 DEF ScanPrefix, TypeOK
  <2>3. PICK p \in Normal(Visited) : i = 2 + Rank(p)
    BY <2>2 DEF ScanPrefix
  <2>4. PICK q \in Normal(Visited) : j = 2 + Rank(q)
    BY <2>2 DEF ScanPrefix
  <2>5. Layout[p] = Layout[q]
    BY <2>3, <2>4 DEF ScanPrefix
  <2>6. p = q
    BY <2>1, <2>5, LayoutInjective DEF LayoutInjective, Normal
  <2> QED
    BY <2>3, <2>4, <2>6
<1>3. TypeOK /\ (pc = "scan" => NoDuplicateCodes)' /\ NoDuplicateCodes /\ [Next]_vars
        => NoDuplicateCodes'
  <2> SUFFICES ASSUME TypeOK, NoDuplicateCodes, [Next]_vars, pc' # "scan"
               PROVE  NoDuplicateCodes'
    OBVIOUS
  <2>1. CASE ClearByte
    <3>1. \A i \in Slots : report_out'.key[i] \in {report_out.key[i], KEY_NONE}
      BY <2>1 DEF ClearByte, TypeOK
    <3> QED
      BY <3>1 DEF NoDuplicateCodes
  <2>2. CASE ~ClearByte
    <3>1. report_out' = report_out
      BY <2>2 DEF Next, Step, Loops, vars, SampleCell, Enter, BeginScan, Return,
                  VisitReleased, VisitModifier, VisitNormal, Iterate
    <3> QED
      BY <3>1 DEF NoDuplicateCodes
  <2> QED
    BY <2>1, <2>2
<1> QED
  BY <1>1, <1>2, <1>3, TypeCorrect, ReportIsScanPrefix, PTL DEF Spec
=============================================================================
