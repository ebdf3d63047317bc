---------------------------- MODULE MCKeyReport ----------------------------
(***************************************************************************)
(* KeyReport on the real 8 by 9 layout with 6 slots.  Nine cells are       *)
(* pressable: seven normal keys, one more than a report holds, among them  *)
(* the first and the last cell of the matrix and a last column; a modifier *)
(* visited early (left shift) and one visited after six of the keys (right *)
(* shift).                                                                 *)
(***************************************************************************)
EXTENDS KeyReport, KeyLayout

MCLayout == LayoutOf(keymatrix_bootmode_normal)

MCKeyCodes == {MCLayout[cell] : cell \in DOMAIN MCLayout}

MCPressable ==
    { <<0, 0>>, <<7, 0>>, <<1, 1>>, <<0, 7>>, <<4, 2>>, <<0, 8>>, <<7, 8>>,
      <<0, 3>>, <<3, 8>> }
=============================================================================
