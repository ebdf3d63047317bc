------------------------------ MODULE MCUart0 ------------------------------
(***************************************************************************)
(* Uart0 with messages of one and two bytes for each sender, and a FIFO    *)
(* that the longer ones can fill.  A byte has three values, so that an     *)
(* address of two bytes is enough, as in the flash.  The low byte of no    *)
(* address is less than the length of a message, as it is in the program.  *)
(***************************************************************************)
EXTENDS Uart0

\* Of a class GET_DESCRIPTOR.
MCUsbMessages == { [at |-> 2, len |-> 2] }

\* Of a report that was committed, and of a busy endpoint.
MCTmrMessages == { [at |-> 8, len |-> 1], [at |-> 8, len |-> 2] }

\* Two bytes of an address, and somewhat more.
MCReadable == 0 .. 11
=============================================================================
