------------------------------ MODULE KeyLayout ------------------------------
(***************************************************************************)
(* The layout table keymatrix_bootmode_normal of inc/keymatrix.h with the  *)
(* key codes of inc/keyCodes.h: element col + 1 of the outer sequence is   *)
(* the column, element row + 1 of the inner one the row.                   *)
(***************************************************************************)
EXTENDS Naturals, Sequences

keymatrix_bootmode_normal == <<
    << 41, 43, 57, 225, 224, 37, 12, 14, 54 >>,
    << 30, 20,  4,  29, 227, 38, 18, 15, 55 >>,
    << 31, 26, 22,  27, 226, 39, 19, 51, 56 >>,
    << 32,  8,  7,   6,  44, 45, 47, 52, 229 >>,
    << 33, 21,  9,  25, 230, 46, 48, 40, 75 >>,
    << 34, 23, 10,   5, 231, 42, 49, 80, 78 >>,
    << 35, 28, 11,  17, 101, 73, 76, 81, 82 >>,
    << 36, 24, 13,  16, 228, 74, 77, 79, 100 >> >>

\* KEY_LEFTCTRL .. KEY_RIGHTOS, the codes the report turns into bits of byte 0.
KEY_MODIFIERS == 224 .. 231

LayoutCols == Len(keymatrix_bootmode_normal)
LayoutRows == Len(keymatrix_bootmode_normal[1])

LayoutOf(table) ==
    [cell \in (0 .. LayoutCols - 1) \X (0 .. LayoutRows - 1) |->
        table[cell[1] + 1][cell[2] + 1]]

\* No two cells of the whole table, pressed in a run or not, have one code.
ASSUME DistinctCodes ==
    LET layout == LayoutOf(keymatrix_bootmode_normal)
    IN  \A p, q \in DOMAIN layout : layout[p] = layout[q] => p = q
=============================================================================
