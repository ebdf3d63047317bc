------------------------------- MODULE Uart0 -------------------------------
(***************************************************************************)
(* The debug output of inc/uart.h.  UART0_send_async is called from        *)
(* USBD_IRQHandler and from TMR1_IRQHandler, UART0_IRQHandler writes what  *)
(* did not fit into the transmit FIFO; all three work on the same three    *)
(* variables.  USBD (priority 0) preempts UART0 (1), which preempts TMR1   *)
(* (2), which preempts TMR0 (3), between any two steps.  The build does    *)
(* not optimise, so every access goes to memory; the reads of one          *)
(* expression are one step here, its write is another.                     *)
(*                                                                         *)
(* TMR0 has no business with the UART, but setRGB refreshes a column 8     *)
(* that does not exist, and memory.map puts the three variables where the  *)
(* cells of its rows 4 and 5 would be.  Three of the bytes it takes for    *)
(* brightness sums matter; it adds the byte before to each of them.        *)
(*                                                                         *)
(* A message is where it lies and how long it is, and a byte of it is its  *)
(* address.  All messages that are sent are constants of at most two bytes *)
(* in the flash (print32HEX and print8shortHEX, which pass a buffer on the *)
(* stack, are not called).  Reading where nothing can be read is a         *)
(* HardFault, whose handler does not return.  The FIFO is `level', the     *)
(* number of bytes in it.  The receiving branch is left out: its pin is    *)
(* not connected to the UART.                                              *)
(***************************************************************************)
EXTENDS Integers, Sequences

CONSTANTS
    UsbMessages,    \* what USBD_IRQHandler sends
    TmrMessages,    \* what TMR1_IRQHandler sends
    FifoSize,       \* bytes of the transmit FIFO, 16
    Byte,           \* values of a byte, 256
    Readable        \* addresses that can be read, 68 KB of flash

\* A word has four bytes.
Modulus == Byte * Byte * Byte * Byte
Words == 0 .. Modulus - 1

Messages == UsbMessages \union TmrMessages

ASSUME UartAssumption ==
    /\ FifoSize \in Nat \ {0}
    /\ Byte \in Nat /\ Byte > 1
    /\ Readable \subseteq Words
    /\ \A m \in Messages :
           /\ m \in [at : Words, len : 1 .. Byte - 1]
           /\ m.at .. m.at + m.len - 1 \subseteq Readable

NoMessage == [at |-> 0, len |-> 0]

\* The first n bytes of message m.
Text(m, n) == [i \in 1 .. n |-> m.at + i - 1]

Senders == {"usb", "tmr"}
Actors == Senders \union {"irq"}

Sends(a) == IF a = "usb" THEN UsbMessages ELSE TmrMessages

VARIABLES
    UART0_tx_total_to_send,
    UART0_tx_bytes_left,
    UART0_tx_pointer,       \* an address
    thre,                   \* transmit empty interrupt enabled, UART0_IER bit 1
    level,                  \* bytes in the FIFO
    pc,                     \* next access of each actor
    data,                   \* argument of the call a sender is in
    taken,                  \* counter an actor has read, and where it reads a byte
    tmr0,                   \* next sum of column 8, its next step, what it holds
    halted,                 \* in the handler of a HardFault
    latest,                 \* history: message of the latest call
    sent,                   \* history: bytes written since it
    raced,                  \* history: it overlapped with another transmission
    masked,                 \* history: it fell between the handler's test and mask
    moved                   \* history: column 8 changed what is left of it

total == UART0_tx_total_to_send
left == UART0_tx_bytes_left
pointer == UART0_tx_pointer

transmit == <<UART0_tx_total_to_send, UART0_tx_bytes_left, UART0_tx_pointer>>
history == <<latest, sent, raced, masked, moved>>
vars == <<transmit, thre, level, pc, data, taken, tmr0, halted, history>>

\* Locals that are no longer used are reset to these.
Nothing == [left |-> 0, from |-> 0]
NoSum(row) == [row |-> row, step |-> "load", sum |-> 0]

Init ==
    /\ UART0_tx_total_to_send = 0 /\ UART0_tx_bytes_left = 0
    /\ UART0_tx_pointer = 0
    /\ thre = FALSE /\ level = 0
    /\ pc = [a \in Actors |-> "idle"]
    /\ data = [a \in Senders |-> NoMessage]
    /\ taken = [a \in Actors |-> Nothing]
    /\ tmr0 = NoSum("total") /\ halted = FALSE
    /\ latest = NoMessage /\ sent = << >>
    /\ raced = FALSE /\ masked = FALSE /\ moved = FALSE

-----------------------------------------------------------------------------
\* The UART requests an interrupt.
Pending == thre /\ level = 0

\* Nothing of higher priority is active or pending.
Runs(a) ==
    /\ ~halted
    /\ a # "usb" => pc["usb"] = "idle"
    /\ a = "tmr" => pc["irq"] = "idle" /\ ~Pending

At(a, access) == pc[a] = access /\ Runs(a)

Goto(a, access) == pc' = [pc EXCEPT ![a] = access]

\* Where an actor must not be preempted by another transmission: between its
\* stores to the three variables, and from the test of the counter until the
\* byte is written.
Critical == {"left", "pointer", "fetch", "decrement", "write"}

Overlaps(a) == \E b \in Actors \ {a} : pc[b] \in Critical

\* Nobody holds anything read from an earlier transmission.
Alone(a) == tmr0.step = "load" /\ \A b \in Actors \ {a} : pc[b] = "idle"

\* UART0_send_async is called and stores the length.
Call(a, m) ==
    /\ At(a, "idle")
    /\ Goto(a, "left")
    /\ data' = [data EXCEPT ![a] = m]
    /\ UART0_tx_total_to_send' = m.len
    /\ latest' = m /\ sent' = << >>
    /\ raced' = (Overlaps(a) \/ (raced /\ ~Alone(a)))
    /\ masked' = (masked \/ pc["irq"] = "mask")
    /\ moved' = FALSE
    /\ UNCHANGED <<UART0_tx_bytes_left, UART0_tx_pointer, thre, level, taken, tmr0, halted>>

StoreLeft(a) ==
    /\ At(a, "left")
    /\ Goto(a, "pointer")
    /\ UART0_tx_bytes_left' = data[a].len
    /\ UNCHANGED <<UART0_tx_total_to_send, UART0_tx_pointer, thre, level, data, taken,
                   tmr0, halted, history>>

StorePointer(a) ==
    /\ At(a, "pointer")
    /\ Goto(a, "test")
    /\ UART0_tx_pointer' = data[a].at
    /\ data' = [data EXCEPT ![a] = NoMessage]
    /\ UNCHANGED <<UART0_tx_total_to_send, UART0_tx_bytes_left, thre, level, taken,
                   tmr0, halted, history>>

-----------------------------------------------------------------------------
\* The loop that the sender and the handler have in common.

\* Mutant: one byte more than the message has.
MoreToSend_OneMore == left >= 0 /\ left < Modulus - 1 /\ level < FifoSize

MoreToSend == left > 0 /\ level < FifoSize

TestLoop(a) ==
    /\ At(a, "test")
    /\ Goto(a, IF MoreToSend THEN "fetch"
               ELSE IF a = "irq" THEN "check" ELSE "enable")
    /\ UNCHANGED <<transmit, thre, level, data, taken, tmr0, halted, history>>

Fetch(a) ==
    /\ At(a, "fetch")
    /\ Goto(a, "decrement")
    /\ taken' = [taken EXCEPT ![a] =
                   [left |-> left, from |-> (pointer + total - left) % Modulus]]
    /\ UNCHANGED <<transmit, thre, level, data, tmr0, halted, history>>

\* Mutant: the counter does not wrap.
Decremented_Signed(n) == n - 1

Decremented(n) == (n - 1) % Modulus

Decrement(a) ==
    /\ At(a, "decrement")
    /\ Goto(a, "write")
    /\ UART0_tx_bytes_left' = Decremented(taken[a].left)
    /\ UNCHANGED <<UART0_tx_total_to_send, UART0_tx_pointer, thre, level, data, taken,
                   tmr0, halted, history>>

\* The byte is read only now.  One written to a full FIFO is lost.
WriteByte(a) ==
    /\ At(a, "write") /\ taken[a].from \in Readable
    /\ Goto(a, "test")
    /\ level' = IF level < FifoSize THEN level + 1 ELSE level
    /\ sent' = IF raced THEN sent ELSE Append(sent, taken[a].from)
    /\ taken' = [taken EXCEPT ![a] = Nothing]
    /\ UNCHANGED <<transmit, thre, data, tmr0, halted, latest, raced, masked, moved>>

ReadFault(a) ==
    /\ At(a, "write") /\ taken[a].from \notin Readable
    /\ halted' = TRUE
    /\ UNCHANGED <<transmit, thre, level, pc, data, taken, tmr0, history>>

-----------------------------------------------------------------------------
\* The sender enables the interrupt and returns.
Enable(a) ==
    /\ At(a, "enable")
    /\ Goto(a, "idle")
    /\ thre' = TRUE
    /\ masked' = (masked /\ pc["irq"] = "mask")
    /\ UNCHANGED <<transmit, level, data, taken, tmr0, halted, latest, sent, raced, moved>>

EnterIrq ==
    /\ Pending /\ At("irq", "idle")
    /\ Goto("irq", "source")
    /\ raced' = (raced \/ Overlaps("irq"))
    /\ UNCHANGED <<transmit, thre, level, data, taken, tmr0, halted, latest, sent, masked, moved>>

\* The handler reads UART0_ISR; a sender may have filled the FIFO meanwhile.
CheckSource ==
    /\ At("irq", "source")
    /\ Goto("irq", IF Pending THEN "test" ELSE "idle")
    /\ UNCHANGED <<transmit, thre, level, data, taken, tmr0, halted, history>>

\* Mutant: the interrupt is disabled after each run of the handler.
CheckLeft_Always ==
    /\ At("irq", "check")
    /\ Goto("irq", "mask")
    /\ UNCHANGED <<transmit, thre, level, data, taken, tmr0, halted, history>>

\* Mutant: the interrupt is not disabled.
CheckLeft_Never ==
    /\ At("irq", "check")
    /\ Goto("irq", "idle")
    /\ UNCHANGED <<transmit, thre, level, data, taken, tmr0, halted, history>>

CheckLeft ==
    /\ At("irq", "check")
    /\ Goto("irq", IF left = 0 THEN "mask" ELSE "idle")
    /\ UNCHANGED <<transmit, thre, level, data, taken, tmr0, halted, history>>

MaskIrq ==
    /\ At("irq", "mask")
    /\ Goto("irq", "idle")
    /\ thre' = FALSE
    /\ UNCHANGED <<transmit, level, data, taken, tmr0, halted, history>>

\* The UART shifts a byte out.
Drain ==
    /\ level > 0
    /\ level' = level - 1
    /\ UNCHANGED <<transmit, thre, pc, data, taken, tmr0, halted, history>>

-----------------------------------------------------------------------------
\* TMR0: setRGB of column 8.  The sums of rows 4 and 5 that are bytes of the
\* three variables, in the order of the loops, green before red.  Two more
\* are: byte 2 of the length and byte 3 of the pointer, to which it adds byte
\* 1 of the length and byte 2 of the pointer, which are 0.
Digit(word, i) ==
    CASE i = 0 -> word % Byte
      [] i = 1 -> (word \div Byte) % Byte
      [] i = 2 -> (word \div (Byte * Byte)) % Byte
      [] i = 3 -> word \div (Byte * Byte * Byte)

Sums == {"total", "left", "pointer"}

NextSum == [total |-> "left", left |-> "pointer", pointer |-> "total"]

\* green_temp_brightness of row 4, and red_temp_brightness of rows 4 and 5.
TempBrightness(row) ==
    CASE row = "total" -> Digit(total, 0)
      [] row = "left" -> Digit(left, 2)
      [] row = "pointer" -> Digit(pointer, 1)

\* green of row 4, and red of rows 4 and 5.
Brightness(row) ==
    CASE row = "total" -> Digit(left, 3)
      [] row = "left" -> Digit(left, 1)
      [] row = "pointer" -> Digit(pointer, 0)

Tmr0Runs == ~halted /\ ~Pending /\ \A a \in Actors : pc[a] = "idle"

LoadSum ==
    /\ Tmr0Runs /\ tmr0.step = "load"
    /\ tmr0' = [tmr0 EXCEPT !.step = "store",
                            !.sum = (TempBrightness(tmr0.row) + Brightness(tmr0.row)) % Byte]
    /\ UNCHANGED <<transmit, thre, level, pc, data, taken, halted, history>>

\* The words that differ from `word' in no more than byte i, which is `value'.
WithDigit(word, i, value) ==
    {w \in Words : \A j \in 0 .. 3 : Digit(w, j) = IF j = i THEN value ELSE Digit(word, j)}

\* What a word may be when a sum has been stored.
MayBecome(row, i, word) ==
    IF tmr0.row = row THEN WithDigit(word, i, tmr0.sum) ELSE {word}

StoreSum ==
    /\ Tmr0Runs /\ tmr0.step = "store"
    /\ UART0_tx_total_to_send' \in MayBecome("total", 0, total)
    /\ UART0_tx_bytes_left' \in MayBecome("left", 2, left)
    /\ UART0_tx_pointer' \in MayBecome("pointer", 1, pointer)
    /\ tmr0' = NoSum(NextSum[tmr0.row])
    /\ moved' = (moved \/ (transmit' # transmit /\ (left > 0 \/ UART0_tx_bytes_left' > 0)))
    /\ UNCHANGED <<thre, level, pc, data, taken, halted, latest, sent, raced, masked>>

\* HardFault_Handler.
Halt == halted /\ UNCHANGED vars

Loop(a) == TestLoop(a) \/ Fetch(a) \/ Decrement(a) \/ WriteByte(a) \/ ReadFault(a)
Send(a) == StoreLeft(a) \/ StorePointer(a) \/ Loop(a) \/ Enable(a)
UART0_IRQHandler == EnterIrq \/ CheckSource \/ Loop("irq") \/ CheckLeft \/ MaskIrq
RefreshColumn8 == LoadSum \/ StoreSum

Next ==
    \/ \E a \in Senders : Send(a) \/ \E m \in Sends(a) : Call(a, m)
    \/ UART0_IRQHandler \/ Drain \/ RefreshColumn8 \/ Halt

Spec == Init /\ [][Next]_vars

\* A handler is only kept from running by those of higher priority, which
\* return; the UART shifts bytes out at its own pace.
FairSpec ==
    /\ Spec
    /\ WF_vars(UART0_IRQHandler) /\ WF_vars(Drain)
    /\ \A a \in Senders : WF_vars(Send(a))

-----------------------------------------------------------------------------
Accesses == {"idle", "test", "fetch", "decrement", "write"}

TypeOK ==
    /\ total \in Words /\ left \in Words /\ pointer \in Words
    /\ thre \in BOOLEAN /\ level \in 0 .. FifoSize
    /\ pc \in [Actors -> Accesses \union {"left", "pointer", "enable",
                                          "source", "check", "mask"}]
    /\ data \in [Senders -> Messages \union {NoMessage}]
    /\ taken \in [Actors -> [left : Words, from : Words]]
    /\ tmr0 \in [row : Sums, step : {"load", "store"}, sum : 0 .. Byte - 1]
    /\ halted \in BOOLEAN
    /\ latest \in Messages \union {NoMessage} /\ sent \in Seq(Words)
    /\ raced \in BOOLEAN /\ masked \in BOOLEAN /\ moved \in BOOLEAN

\* A message whose transmission no other one overlapped reaches the UART
\* whole: what was written since the call are as many bytes as it has but the
\* last tx_bytes_left, whatever earlier calls left behind in the counters; and
\* they are its own bytes, unless some were left when column 8 was refreshed.
Delivered ==
    (~raced /\ \A a \in Actors : pc[a] \notin Critical) =>
        /\ left <= latest.len
        /\ Len(sent) = latest.len - left
        /\ ~moved => sent = Text(latest, latest.len - left)

\* Bytes that are left to send have their interrupt enabled, and nobody has to
\* call again to get them out.  The exceptions are a call that came between
\* the handler's test of the counter and its write to UART0_IER, and a counter
\* that wrapped and that column 8 changed; they last until the next call.
NotStalled ==
    (left > 0 /\ ~masked /\ ~(raced /\ moved) /\ \A a \in Actors : pc[a] = "idle") => thre

\* When the calls stop and the last of them was not overlapped, its
\* transmission comes to its end, and the interrupt is off: it does not fire
\* for ever.
ComesToRest ==
    <>[](~raced /\ \A a \in Senders : pc[a] = "idle")
        => <>[](~thre /\ (left = 0 \/ masked))

\* uart.h:37, of the loop: "still data to send and buffer not full".  The
\* counter from which a byte is taken has not come to 0.
StillDataToSend == \A a \in Actors : pc[a] = "write" => taken[a].left > 0
=============================================================================
