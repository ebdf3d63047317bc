----------------------------- MODULE Uart0_proofs -----------------------------
(***************************************************************************)
(* Proofs about Uart0, for any messages, size of the FIFO and range of a   *)
(* byte: types, that a message nothing overlaps is delivered, and that     *)
(* bytes left to send do not wait with the interrupt off.  The inductive   *)
(* invariants say who may be in the middle of a transmission, how far that *)
(* transmission has come, that column 8 adds nothing to the counter of one *)
(* that was not overlapped, and who is about to set or clear the           *)
(* interrupt's enable bit.                                                 *)
(***************************************************************************)
EXTENDS Uart0, SequenceTheorems, TLAPS

\* The small numbers are words.
LEMMA WordFacts ==
    /\ Byte \in Nat /\ Byte > 1
    /\ Modulus \in Nat /\ Byte <= Modulus
    /\ 0 \in Words /\ 0 .. Byte - 1 \subseteq Words
<1>1. Byte \in Nat /\ Byte > 1
  BY UartAssumption
<1>2. \A x, y \in Nat : x > 0 /\ y > 0 => x * y \in Nat /\ x <= x * y
  OBVIOUS
<1>3. Modulus \in Nat /\ Byte <= Modulus
  <2> DEFINE b2 == Byte * Byte
             b3 == b2 * Byte
  <2>1. b2 \in Nat /\ Byte <= b2
    BY <1>1, <1>2
  <2>2. b3 \in Nat /\ b2 <= b3
    BY <1>1, <1>2, <2>1
  <2>3. b3 * Byte \in Nat /\ b3 <= b3 * Byte
    BY <1>1, <1>2, <2>1, <2>2
  <2>4. Modulus = b3 * Byte
    BY DEF Modulus
  <2> HIDE DEF b2, b3
  <2> QED
    BY <1>1, <2>1, <2>2, <2>3, <2>4
<1> QED
  BY <1>1, <1>3 DEF Words

\* A message or none.
LEMMA MessageType ==
    ASSUME NEW m \in Messages \union {NoMessage}
    PROVE  /\ m.at \in Words /\ m.len \in 0 .. Byte - 1 /\ m.len \in Words
           /\ \A k \in 0 .. m.len - 1 : m.at + k \in Words
<1>1. CASE m = NoMessage
  BY <1>1, WordFacts DEF NoMessage
<1>2. CASE m \in Messages
  <2>1. m.at \in Words /\ m.len \in 1 .. Byte - 1
        /\ m.at .. m.at + m.len - 1 \subseteq Words
    BY <1>2, UartAssumption
  <2>2. m.at \in Int /\ m.len \in Int
    BY <2>1, WordFacts DEF Words
  <2>3. \A k \in 0 .. m.len - 1 : m.at + k \in m.at .. m.at + m.len - 1
    BY <2>2
  <2>4. m.len \in 0 .. Byte - 1
    BY <2>1, WordFacts
  <2> QED
    BY <2>1, <2>3, <2>4, WordFacts
<1> QED
  BY <1>1, <1>2

LEMMA TextProperties ==
    ASSUME NEW m \in Messages \union {NoMessage}, NEW n \in 0 .. m.len
    PROVE  Text(m, n) \in Seq(Words) /\ Len(Text(m, n)) = n
<1>1. \A i \in 1 .. n : m.at + i - 1 \in Words
  <2> SUFFICES ASSUME NEW i \in 1 .. n PROVE m.at + i - 1 \in Words
    OBVIOUS
  <2>1. m.at \in Int /\ m.len \in Int
    BY MessageType, WordFacts DEF Words
  <2>2. i - 1 \in 0 .. m.len - 1 /\ m.at + i - 1 = m.at + (i - 1)
    BY <2>1
  <2> QED
    BY <2>2, MessageType
<1>2. n \in Nat
  BY MessageType
<1>3. Text(m, n) \in [1 .. n -> Words]
  BY <1>1 DEF Text
<1> QED
  BY <1>2, <1>3, SeqDef, LenProperties

LEMMA TextAppend ==
    ASSUME NEW m \in Messages \union {NoMessage}, NEW n \in 1 .. m.len
    PROVE  Append(Text(m, n - 1), m.at + n - 1) = Text(m, n)
<1>1. n - 1 \in 0 .. m.len /\ n \in 0 .. m.len /\ n \in Nat /\ m.at \in Int
  BY MessageType, WordFacts DEF Words
<1>2. /\ Text(m, n - 1) \in Seq(Words) /\ Len(Text(m, n - 1)) = n - 1
      /\ Text(m, n) \in Seq(Words) /\ Len(Text(m, n)) = n
  BY <1>1, TextProperties
<1>3. m.at + n - 1 \in Words
  <2>1. m.len \in Int /\ n - 1 \in 0 .. m.len - 1 /\ m.at + n - 1 = m.at + (n - 1)
    BY <1>1, MessageType
  <2> QED
    BY <2>1, MessageType
<1> DEFINE t == Append(Text(m, n - 1), m.at + n - 1)
<1>4. /\ t \in Seq(Words) /\ Len(t) = n
      /\ \A i \in 1 .. n - 1 : t[i] = Text(m, n - 1)[i]
      /\ t[n] = m.at + n - 1
  BY <1>1, <1>2, <1>3, AppendProperties
<1>5. \A i \in 1 .. n : t[i] = Text(m, n)[i]
  <2> SUFFICES ASSUME NEW i \in 1 .. n PROVE t[i] = Text(m, n)[i]
    OBVIOUS
  <2>1. CASE i = n
    BY <1>4, <2>1 DEF Text
  <2>2. CASE i # n
    <3>1. i \in 1 .. n - 1
      BY <1>1, <2>2
    <3> QED
      BY <1>4, <3>1 DEF Text
  <2> QED
    BY <2>1, <2>2
<1> HIDE DEF t
<1> QED
  BY <1>2, <1>4, <1>5, SeqEqual

\* The counter wraps only at 0.
LEMMA CounterWraps ==
    ASSUME NEW n \in Words
    PROVE  /\ n % Modulus = n
           /\ Decremented(n) \in Words
           /\ n > 0 => Decremented(n) = n - 1
<1>1. Modulus \in Nat \ {0} /\ n \in 0 .. Modulus - 1
  BY WordFacts DEF Words
<1>2. \A k \in 0 .. Modulus - 1 : k % Modulus = k
  BY <1>1
<1>3. (n - 1) % Modulus \in 0 .. Modulus - 1
  BY <1>1
<1>4. n > 0 => n - 1 \in 0 .. Modulus - 1
  BY <1>1
<1> QED
  BY <1>1, <1>2, <1>3, <1>4 DEF Decremented, Words

-----------------------------------------------------------------------------
\* Division, and a word below the weight of a digit that is 0.
LEMMA Quotient ==
    ASSUME NEW x \in Nat, x > 0, NEW v \in Nat
    PROVE  /\ v \div x \in Nat
           /\ (v \div x) * x <= v /\ v < (v \div x) * x + x
OBVIOUS

LEMMA QuotientSmall ==
    ASSUME NEW x \in Nat, NEW v \in Nat, v < x PROVE v \div x = 0
OBVIOUS

LEMMA Multiple ==
    ASSUME NEW x \in Nat, NEW q \in Nat, q >= Byte PROVE q * x >= Byte * x
BY UartAssumption

LEMMA DigitGone ==
    ASSUME NEW x \in Nat, x > 0, NEW v \in Nat, v < Byte * x, (v \div x) % Byte = 0
    PROVE  v < x
<1> DEFINE q == v \div x
<1>1. q \in Nat /\ q * x <= v /\ v < q * x + x
  BY Quotient
<1>2. q < Byte
  BY <1>1, Multiple, UartAssumption
<1>3. q = 0
  BY <1>1, <1>2, UartAssumption
<1> QED
  BY <1>1, <1>3

LEMMA Weights ==
    /\ Byte * Byte \in Nat /\ Byte * Byte > 0 /\ Byte <= Byte * Byte
    /\ Byte * Byte * Byte \in Nat /\ Byte * Byte * Byte > 0
    /\ Byte * Byte <= Byte * Byte * Byte
    /\ Byte * Byte * Byte = Byte * (Byte * Byte)
<1>1. \A x, y \in Nat : x > 0 /\ y > 0 => x * y \in Nat /\ x * y > 0 /\ x <= x * y
  OBVIOUS
<1>2. Byte * Byte \in Nat /\ Byte * Byte > 0 /\ Byte <= Byte * Byte
  BY <1>1, WordFacts
<1> QED
  BY <1>1, <1>2, WordFacts

LEMMA DigitType == ASSUME NEW w \in Words, NEW i \in 0 .. 3 PROVE Digit(w, i) \in Nat
<1>1. w \in Nat
  BY WordFacts DEF Words
<1>2. w \div Byte \in Nat /\ w \div (Byte * Byte) \in Nat /\ w \div (Byte * Byte * Byte) \in Nat
  BY <1>1, Quotient, Weights, WordFacts
<1>3. \A v \in Nat : v % Byte \in Nat
  BY WordFacts
<1>4. i = 0 \/ i = 1 \/ i = 2 \/ i = 3
  OBVIOUS
<1> QED
  BY <1>1, <1>2, <1>3, <1>4 DEF Digit

\* A word of one byte.
LEMMA SmallDigits ==
    ASSUME NEW w \in 0 .. Byte - 1
    PROVE  /\ Digit(w, 0) = w
           /\ Digit(w, 1) = 0 /\ Digit(w, 2) = 0 /\ Digit(w, 3) = 0
<1>1. w \in Nat /\ w < Byte /\ w < Byte * Byte /\ w < Byte * Byte * Byte
  BY WordFacts, Weights
<1>2. w \div Byte = 0 /\ w \div (Byte * Byte) = 0 /\ w \div (Byte * Byte * Byte) = 0
  BY <1>1, QuotientSmall, Weights, WordFacts
<1>3. w % Byte = w /\ 0 % Byte = 0
  BY <1>1, WordFacts
<1> QED
  BY <1>2, <1>3 DEF Digit

LEMMA SmallWord ==
    ASSUME NEW v \in Words, Digit(v, 1) = 0, Digit(v, 2) = 0, Digit(v, 3) = 0
    PROVE  v = Digit(v, 0)
<1>1. v \in Nat
  BY WordFacts DEF Words
<1>2. v < Byte * Byte * Byte
  <2>1. v \div (Byte * Byte * Byte) = 0
    BY DEF Digit
  <2> QED
    BY <1>1, <2>1, Quotient, Weights
<1>3. v < Byte * Byte
  <2>1. (v \div (Byte * Byte)) % Byte = 0 /\ v < Byte * (Byte * Byte)
    BY <1>2, Weights DEF Digit
  <2> QED
    BY <1>1, <2>1, DigitGone, Weights
<1>4. v < Byte
  <2>1. (v \div Byte) % Byte = 0
    BY DEF Digit
  <2> QED
    BY <1>1, <1>3, <2>1, DigitGone, WordFacts
<1>5. v % Byte = v
  BY <1>1, <1>4, WordFacts
<1> QED
  BY <1>5 DEF Digit

\* Storing a sum of 0 into byte 2 of a one-byte word changes nothing.
LEMMA StoreZero ==
    ASSUME NEW w \in 0 .. Byte - 1, NEW v \in WithDigit(w, 2, 0)
    PROVE  v = w
<1>1. v \in Words /\ \A j \in 0 .. 3 : Digit(v, j) = IF j = 2 THEN 0 ELSE Digit(w, j)
  BY DEF WithDigit
<1>2. Digit(v, 0) = w /\ Digit(v, 1) = 0 /\ Digit(v, 2) = 0 /\ Digit(v, 3) = 0
  BY <1>1, SmallDigits
<1> QED
  BY <1>1, <1>2, SmallWord

-----------------------------------------------------------------------------
LEMMA InitType == Init => TypeOK
<1> SUFFICES ASSUME Init PROVE TypeOK
  OBVIOUS
<1>1. Nothing \in [left : Words, from : Words]
  BY WordFacts DEF Nothing
<1>2. 0 \in 0 .. FifoSize /\ 0 \in 0 .. Byte - 1
  BY UartAssumption
<1>3. << >> \in Seq(Words)
  BY EmptySeq
<1>4. total \in Words /\ left \in Words /\ pointer \in Words /\ level \in 0 .. FifoSize
  BY <1>2, WordFacts DEF Init, total, left, pointer
<1>5. taken \in [Actors -> [left : Words, from : Words]]
  BY <1>1 DEF Init
<1>6. pc \in [Actors -> Accesses \union {"left", "pointer", "enable",
                                          "source", "check", "mask"}]
  BY DEF Init, Accesses
<1>7. data \in [Senders -> Messages \union {NoMessage}]
  BY DEF Init
<1>8. tmr0 \in [row : Sums, step : {"load", "store"}, sum : 0 .. Byte - 1]
  BY <1>2 DEF Init, NoSum, Sums
<1> QED
  BY <1>3, <1>4, <1>5, <1>6, <1>7, <1>8 DEF Init, TypeOK

\* Where an actor may be.
LEMMA GotoType ==
    ASSUME TypeOK, NEW a \in Actors,
           NEW access \in Accesses \union {"left", "pointer", "enable",
                                           "source", "check", "mask"},
           Goto(a, access)
    PROVE  pc' \in [Actors -> Accesses \union {"left", "pointer", "enable",
                                               "source", "check", "mask"}]
BY DEF TypeOK, Goto

LEMMA SenderType ==
    ASSUME TypeOK, NEW a \in Senders,
           (\E m \in Sends(a) : Call(a, m)) \/ StoreLeft(a) \/ StorePointer(a) \/ Enable(a)
    PROVE  TypeOK'
<1>0. a \in Actors
  BY DEF Actors
<1>1. ASSUME NEW m \in Sends(a), Call(a, m) PROVE TypeOK'
  <2>1. m \in Messages
    BY DEF Sends, Messages
  <2>2. total' \in Words
    BY <1>1, <2>1, MessageType DEF Call, total
  <2>3. data' \in [Senders -> Messages \union {NoMessage}]
    BY <1>1, <2>1 DEF TypeOK, Call
  <2>4. latest' \in Messages /\ sent' \in Seq(Words)
    BY <1>1, <2>1 DEF Call
  <2>5. raced' \in BOOLEAN /\ masked' \in BOOLEAN /\ moved' \in BOOLEAN
    BY <1>1 DEF TypeOK, Call, Overlaps, Alone
  <2>6. pc' \in [Actors -> Accesses \union {"left", "pointer", "enable",
                                            "source", "check", "mask"}]
    BY <1>0, <1>1, GotoType DEF Call
  <2>7. UNCHANGED <<left, pointer, thre, level, taken, tmr0, halted>>
    BY <1>1 DEF Call, left, pointer
  <2> QED
    BY <2>2, <2>3, <2>4, <2>5, <2>6, <2>7 DEF TypeOK
<1>2. CASE StoreLeft(a)
  <2>1. left' \in Words
    BY <1>2, MessageType DEF TypeOK, StoreLeft, left
  <2>2. pc' \in [Actors -> Accesses \union {"left", "pointer", "enable",
                                            "source", "check", "mask"}]
    BY <1>0, <1>2, GotoType DEF StoreLeft
  <2> QED
    BY <1>2, <2>1, <2>2 DEF TypeOK, StoreLeft, total, pointer, history
<1>3. CASE StorePointer(a)
  <2>1. pointer' \in Words /\ data' \in [Senders -> Messages \union {NoMessage}]
    BY <1>3, MessageType DEF TypeOK, StorePointer, pointer
  <2>2. pc' \in [Actors -> Accesses \union {"left", "pointer", "enable",
                                            "source", "check", "mask"}]
    BY <1>0, <1>3, GotoType DEF StorePointer, Accesses
  <2> QED
    BY <1>3, <2>1, <2>2 DEF TypeOK, StorePointer, total, left, history
<1>4. CASE Enable(a)
  <2>1. pc' \in [Actors -> Accesses \union {"left", "pointer", "enable",
                                            "source", "check", "mask"}]
    BY <1>0, <1>4, GotoType DEF Enable, Accesses
  <2>2. masked' \in BOOLEAN /\ thre' = TRUE
    BY <1>4 DEF TypeOK, Enable
  <2> QED
    BY <1>4, <2>1, <2>2 DEF TypeOK, Enable, transmit, total, left, pointer
<1> QED
  BY <1>1, <1>2, <1>3, <1>4

LEMMA LoopType == ASSUME TypeOK, NEW a \in Actors, Loop(a) PROVE TypeOK'
<1>1. CASE TestLoop(a)
  <2>1. pc' \in [Actors -> Accesses \union {"left", "pointer", "enable",
                                            "source", "check", "mask"}]
    BY <1>1, GotoType DEF TestLoop, Accesses
  <2> QED
    BY <1>1, <2>1 DEF TypeOK, TestLoop, transmit, total, left, pointer, history
<1>2. CASE Fetch(a)
  <2>1. pc' \in [Actors -> Accesses \union {"left", "pointer", "enable",
                                            "source", "check", "mask"}]
    BY <1>2, GotoType DEF Fetch, Accesses
  <2>2. (pointer + total - left) % Modulus \in Words
    BY WordFacts DEF TypeOK, Words
  <2>3. taken' \in [Actors -> [left : Words, from : Words]]
    BY <1>2, <2>2 DEF TypeOK, Fetch
  <2> QED
    BY <1>2, <2>1, <2>3 DEF TypeOK, Fetch, transmit, total, left, pointer, history
<1>3. CASE Decrement(a)
  <2>1. pc' \in [Actors -> Accesses \union {"left", "pointer", "enable",
                                            "source", "check", "mask"}]
    BY <1>3, GotoType DEF Decrement, Accesses
  <2>2. taken[a].left \in Words
    BY DEF TypeOK
  <2>3. left' \in Words
    BY <1>3, <2>2, CounterWraps DEF Decrement, left
  <2> QED
    BY <1>3, <2>1, <2>3 DEF TypeOK, Decrement, total, pointer, history
<1>4. CASE WriteByte(a)
  <2>1. pc' \in [Actors -> Accesses \union {"left", "pointer", "enable",
                                            "source", "check", "mask"}]
    BY <1>4, GotoType DEF WriteByte, Accesses
  <2>2. taken[a].from \in Words
    BY DEF TypeOK
  <2>3. sent' \in Seq(Words)
    BY <1>4, <2>2, AppendProperties DEF TypeOK, WriteByte
  <2>4. Nothing \in [left : Words, from : Words]
    BY WordFacts DEF Nothing
  <2>5. taken' \in [Actors -> [left : Words, from : Words]]
    BY <1>4, <2>4 DEF TypeOK, WriteByte
  <2>6. level' \in 0 .. FifoSize
    BY <1>4, UartAssumption DEF TypeOK, WriteByte
  <2> QED
    BY <1>4, <2>1, <2>3, <2>5, <2>6
       DEF TypeOK, WriteByte, transmit, total, left, pointer
<1>5. CASE ReadFault(a)
  BY <1>5 DEF TypeOK, ReadFault, transmit, total, left, pointer, history
<1> QED
  BY <1>1, <1>2, <1>3, <1>4, <1>5 DEF Loop

LEMMA HandlerType ==
    ASSUME TypeOK, EnterIrq \/ CheckSource \/ CheckLeft \/ MaskIrq \/ Drain
    PROVE  TypeOK'
<1>0. "irq" \in Actors
  BY DEF Actors
<1>1. CASE EnterIrq
  <2>1. raced' \in BOOLEAN
    BY <1>1 DEF TypeOK, EnterIrq, Overlaps
  <2>2. pc' \in [Actors -> Accesses \union {"left", "pointer", "enable",
                                            "source", "check", "mask"}]
    BY <1>0, <1>1, GotoType DEF EnterIrq
  <2> QED
    BY <1>1, <2>1, <2>2 DEF TypeOK, EnterIrq, transmit, total, left, pointer
<1>2. CASE CheckSource \/ CheckLeft \/ MaskIrq
  <2>1. pc' \in [Actors -> Accesses \union {"left", "pointer", "enable",
                                            "source", "check", "mask"}]
    BY <1>0, <1>2, GotoType DEF CheckSource, CheckLeft, MaskIrq, Accesses
  <2> QED
    BY <1>2, <2>1
       DEF TypeOK, CheckSource, CheckLeft, MaskIrq, transmit, total, left, pointer, history
<1>3. CASE Drain
  <2>1. level' \in 0 .. FifoSize
    BY <1>3, UartAssumption DEF TypeOK, Drain
  <2> QED
    BY <1>3, <2>1 DEF TypeOK, Drain, transmit, total, left, pointer, history
<1> QED
  BY <1>1, <1>2, <1>3

LEMMA Column8Type == ASSUME TypeOK, RefreshColumn8 PROVE TypeOK'
<1>1. CASE LoadSum
  <2>1. TempBrightness(tmr0.row) \in Nat /\ Brightness(tmr0.row) \in Nat
    BY DigitType DEF TypeOK, Sums, TempBrightness, Brightness
  <2>2. (TempBrightness(tmr0.row) + Brightness(tmr0.row)) % Byte \in 0 .. Byte - 1
    BY <2>1, WordFacts
  <2>3. tmr0' \in [row : Sums, step : {"load", "store"}, sum : 0 .. Byte - 1]
    BY <1>1, <2>2 DEF TypeOK, LoadSum
  <2> QED
    BY <1>1, <2>3 DEF TypeOK, LoadSum, transmit, total, left, pointer, history
<1>2. CASE StoreSum
  <2>1. \A row \in Sums, i \in 0 .. 3, w \in Words : MayBecome(row, i, w) \subseteq Words
    BY DEF MayBecome, WithDigit
  <2>2. total' \in Words /\ left' \in Words /\ pointer' \in Words
    BY <1>2, <2>1 DEF TypeOK, StoreSum, Sums, total, left, pointer
  <2>3. 0 \in 0 .. Byte - 1
    BY WordFacts
  <2>4. tmr0' \in [row : Sums, step : {"load", "store"}, sum : 0 .. Byte - 1]
    BY <1>2, <2>3 DEF TypeOK, StoreSum, NoSum, NextSum, Sums
  <2>5. moved' \in BOOLEAN
    BY <1>2 DEF TypeOK, StoreSum
  <2> QED
    BY <1>2, <2>2, <2>4, <2>5 DEF TypeOK, StoreSum
<1> QED
  BY <1>1, <1>2 DEF RefreshColumn8

LEMMA StepType == TypeOK /\ [Next]_vars => TypeOK'
<1> SUFFICES ASSUME TypeOK, [Next]_vars PROVE TypeOK'
  OBVIOUS
<1>1. CASE UNCHANGED vars \/ Halt
  BY <1>1 DEF TypeOK, vars, Halt, transmit, total, left, pointer, history
<1>2. ASSUME NEW a \in Senders, Send(a) \/ \E m \in Sends(a) : Call(a, m)
      PROVE  TypeOK'
  BY <1>2, SenderType, LoopType DEF Send, Actors
<1>3. CASE UART0_IRQHandler \/ Drain
  BY <1>3, HandlerType, LoopType DEF UART0_IRQHandler, Actors
<1>4. CASE RefreshColumn8
  BY <1>4, Column8Type
<1> QED
  BY <1>1, <1>2, <1>3, <1>4 DEF Next

\* The UART's state keeps its types: the counter never leaves the range of a
\* uint32_t, and the FIFO is never written beyond its size.
THEOREM TypeCorrect == Spec => []TypeOK
BY InitType, StepType, PTL DEF Spec

-----------------------------------------------------------------------------
(***************************************************************************)
(* The inductive invariant of Delivered.  As long as nothing overlaps, an  *)
(* actor in the middle of a transmission has not been preempted, so it is  *)
(* the only one; how far the transmission has come follows from where that *)
(* actor is.  Column 8 is refreshed only when nobody is; what it changes   *)
(* then does not matter or is recorded, and it does not change the counter *)
(* because a counter that did not wrap has one byte.                       *)
(***************************************************************************)
Above(a) == IF a = "usb" THEN {} ELSE IF a = "irq" THEN {"usb"} ELSE {"usb", "irq"}

NotPreempted ==
    ~raced => \A a \in Actors :
        pc[a] \in Critical => \A b \in Above(a) : pc[b] = "idle"

\* Length and pointer are those of the latest message.
Stored == total = latest.len /\ pointer = latest.at

\* The first n bytes have been written, and the next one, if there is one, is
\* found through the variables.
Written(n) ==
    /\ Len(sent) = n
    /\ ~moved => sent = Text(latest, n) /\ (left > 0 => Stored)

\* All bytes but the last `left' have been written.
Current == left <= latest.len /\ Written(latest.len - left)

Stage(a) ==
    /\ pc[a] \in {"left", "pointer"} =>
           data[a] = latest /\ total = latest.len /\ sent = << >>
    /\ pc[a] = "pointer" => left = latest.len
    /\ pc[a] \in {"fetch", "decrement"} => Current /\ left > 0
    /\ pc[a] = "decrement" =>
           /\ taken[a].left = left
           /\ ~moved => taken[a].from = latest.at + latest.len - left
    /\ pc[a] = "write" =>
           /\ left < latest.len /\ Written(latest.len - left - 1)
           /\ ~moved => taken[a].from = latest.at + latest.len - left - 1

Free == \A a \in Actors : pc[a] \notin Critical

Progress == ~raced => (Free => Current) /\ \A a \in Actors : Stage(a)

\* Column 8 adds nothing to the counter.
NothingAdded ==
    ~raced /\ tmr0.row = "left" /\ tmr0.step = "store" => tmr0.sum = 0

UartInv == TypeOK /\ NotPreempted /\ Progress /\ NothingAdded
-----------------------------------------------------------------------------
\* What the types say of the numbers.
LEMMA Numbers ==
    ASSUME TypeOK
    PROVE  /\ left \in Nat /\ latest.len \in Nat /\ latest.len < Byte
           /\ latest \in Messages \union {NoMessage} /\ latest.at \in Nat
           /\ sent \in Seq(Words) /\ total \in Nat /\ pointer \in Nat
BY MessageType, WordFacts DEF TypeOK, Words

\* As long as nothing overlaps, an actor that runs is alone in a transmission.
LEMMA OnlyOne ==
    ASSUME NotPreempted, ~raced, NEW a \in Actors, Runs(a), pc[a] # "idle",
           NEW b \in Actors \ {a}
    PROVE  pc[b] \notin Critical
<1>1. CASE b \in Above(a)
  BY <1>1 DEF Above, Runs, Critical, Actors, Senders
<1>2. CASE a \in Above(b)
  BY <1>2 DEF NotPreempted
<1>3. b \in Above(a) \/ a \in Above(b)
  BY DEF Above, Actors, Senders
<1> QED
  BY <1>1, <1>2, <1>3

\* An actor that moves is not preempted.
LEMMA PreemptStep ==
    ASSUME NEW a \in Actors, Runs(a), TypeOK, NEW access, Goto(a, access),
           ~raced' => \A b \in Actors \ {a} : pc[b] \notin Critical
    PROVE  NotPreempted'
<1> SUFFICES ASSUME ~raced', NEW c \in Actors, pc'[c] \in Critical, NEW b \in Above(c)
             PROVE  pc'[b] = "idle"
  BY DEF NotPreempted
<1>1. \A d \in Actors \ {a} : pc'[d] = pc[d]
  BY DEF Goto, TypeOK
<1>2. c = a
  BY <1>1
<1>3. b \in Actors \ {a} /\ pc[b] = "idle"
  BY <1>2 DEF Above, Runs, Actors, Senders
<1> QED
  BY <1>1, <1>3

\* What is left to show when the others are not in a transmission.
LEMMA ProgressStep ==
    ASSUME NEW a \in Actors, TypeOK, NEW access, Goto(a, access),
           ~raced' => \A b \in Actors \ {a} : pc[b] \notin Critical,
           ~raced' => (access \notin Critical => Current') /\ Stage(a)'
    PROVE  Progress'
<1>1. pc'[a] = access /\ \A b \in Actors \ {a} : pc'[b] = pc[b]
  BY DEF Goto, TypeOK
<1>2. ASSUME ~raced', NEW b \in Actors \ {a} PROVE Stage(b)'
  BY <1>1, <1>2 DEF Stage, Critical
<1>3. ~raced' /\ Free' => Current'
  BY <1>1 DEF Free
<1> QED
  BY <1>2, <1>3 DEF Progress

-----------------------------------------------------------------------------
LEMMA CallInv ==
    ASSUME UartInv, NEW a \in Senders, NEW m \in Sends(a), Call(a, m)
    PROVE  NotPreempted' /\ Progress' /\ NothingAdded'
<1>0. a \in Actors /\ TypeOK /\ Runs(a) /\ Goto(a, "left")
  BY DEF Actors, UartInv, Call, At
<1>1. ~raced' => \A b \in Actors \ {a} : pc[b] \notin Critical
  BY DEF Call, Overlaps
<1>2. pc'[a] = "left" /\ data'[a] = m
  BY <1>0 DEF Call, Goto, TypeOK
<1>3. total' = latest'.len /\ data'[a] = latest' /\ sent' = << >>
  BY <1>2 DEF Call, total
<1>4. Stage(a)'
  BY <1>2, <1>3 DEF Stage
<1>5. NothingAdded'
  <2>1. ~raced' /\ tmr0.step = "store" => ~raced
    BY DEF Call, Alone
  <2> QED
    BY <2>1 DEF UartInv, NothingAdded, Call
<1> QED
  BY <1>0, <1>1, <1>4, <1>5, PreemptStep, ProgressStep DEF Critical

LEMMA StoreInv ==
    ASSUME UartInv, NEW a \in Senders, StoreLeft(a) \/ StorePointer(a)
    PROVE  NotPreempted' /\ Progress'
<1>0. /\ a \in Actors /\ TypeOK /\ NotPreempted /\ Runs(a) /\ pc[a] # "idle"
      /\ pc[a] \in {"left", "pointer"}
  BY DEF Actors, UartInv, StoreLeft, StorePointer, At
<1>1. raced' = raced /\ latest' = latest /\ sent' = sent /\ total' = total
  BY DEF StoreLeft, StorePointer, history, total
<1>2. ~raced' => \A b \in Actors \ {a} : pc[b] \notin Critical
  BY <1>0, <1>1, OnlyOne
<1>3. ~raced => Stage(a)
  BY <1>0 DEF UartInv, Progress
<1>4. CASE StoreLeft(a)
  <2>1. pc'[a] = "pointer" /\ left' = data[a].len /\ data' = data
    BY <1>0, <1>4 DEF StoreLeft, Goto, TypeOK, left
  <2>2. ~raced' => Stage(a)'
    BY <1>0, <1>1, <1>3, <2>1 DEF Stage
  <2>3. Goto(a, "pointer")
    BY <1>4 DEF StoreLeft
  <2> QED
    BY <1>0, <1>1, <1>2, <2>2, <2>3, PreemptStep, ProgressStep DEF Critical
<1>5. CASE StorePointer(a)
  <2>1. pc'[a] = "test" /\ left' = left /\ pointer' = data[a].at /\ pc[a] = "pointer"
    BY <1>0, <1>5 DEF StorePointer, Goto, TypeOK, left, pointer, At
  <2>2. ~raced => Stored' /\ left' = latest'.len /\ sent' = << >>
    BY <1>0, <1>1, <1>3, <2>1 DEF Stage, Stored
  <2>3. latest' \in Messages \union {NoMessage} /\ latest'.len \in Nat
    BY <1>0, <1>1, Numbers
  <2>4. Text(latest', 0) = << >> /\ Len(<< >>) = 0
    BY <2>3, TextProperties, EmptySeq
  <2>5. latest'.len - latest'.len = 0 /\ latest'.len <= latest'.len
    BY <2>3
  <2>6. ~raced => Current'
    BY <2>2, <2>4, <2>5 DEF Current, Written
  <2>7. Stage(a)'
    BY <2>1 DEF Stage
  <2>8. Goto(a, "test")
    BY <1>5 DEF StorePointer
  <2> QED
    BY <1>0, <1>1, <1>2, <2>6, <2>7, <2>8, PreemptStep, ProgressStep
<1> QED
  BY <1>4, <1>5

\* Actions that do not touch the transmission.
LEMMA AsideInv ==
    ASSUME UartInv, NEW a \in Actors, Runs(a), pc[a] \notin Critical,
           NEW access \in {"idle", "test", "enable", "source", "check", "mask"},
           Goto(a, access),
           UNCHANGED <<transmit, latest, sent, moved>>,
           ~raced' => ~raced /\ \A b \in Actors \ {a} : pc[b] \notin Critical
    PROVE  NotPreempted' /\ Progress'
<1>1. TypeOK /\ pc'[a] = access
  BY DEF UartInv, TypeOK, Goto
<1>2. ~raced' => Current
  BY DEF UartInv, Progress, Free
<1>3. ~raced' => Current'
  BY <1>2 DEF Current, Written, Stored, transmit, total, left, pointer
<1>4. Stage(a)'
  BY <1>1 DEF Stage
<1> QED
  BY <1>1, <1>3, <1>4, PreemptStep, ProgressStep

LEMMA TestLoopInv ==
    ASSUME UartInv, NEW a \in Actors, TestLoop(a)
    PROVE  NotPreempted' /\ Progress'
<1>0. /\ TypeOK /\ NotPreempted /\ Runs(a) /\ pc[a] = "test"
      /\ raced' = raced /\ UNCHANGED <<transmit, latest, sent, moved>>
  BY DEF UartInv, TestLoop, At, history
<1>1. ~raced' => ~raced /\ \A b \in Actors \ {a} : pc[b] \notin Critical
  BY <1>0, OnlyOne
<1>2. CASE ~MoreToSend
  <2>1. Goto(a, IF a = "irq" THEN "check" ELSE "enable")
    BY <1>2 DEF TestLoop
  <2> QED
    BY <1>0, <1>1, <2>1, AsideInv DEF Critical
<1>3. CASE MoreToSend
  <2>1. Goto(a, "fetch") /\ pc'[a] = "fetch"
    BY <1>0, <1>3 DEF TestLoop, Goto, TypeOK
  <2>2. ~raced => Current
    BY <1>0, <1>1 DEF UartInv, Progress, Free, Critical
  <2>3. ~raced => Current' /\ left' > 0
    BY <1>0, <1>3, <2>2
       DEF MoreToSend, Current, Written, Stored, transmit, total, left, pointer
  <2>4. ~raced => Stage(a)'
    BY <2>1, <2>3 DEF Stage
  <2> QED
    BY <1>0, <1>1, <2>1, <2>4, PreemptStep, ProgressStep DEF Critical
<1> QED
  BY <1>2, <1>3

LEMMA FetchInv ==
    ASSUME UartInv, NEW a \in Actors, Fetch(a)
    PROVE  NotPreempted' /\ Progress'
<1>0. /\ TypeOK /\ NotPreempted /\ Runs(a) /\ pc[a] = "fetch"
      /\ raced' = raced /\ UNCHANGED <<transmit, latest, sent, moved>>
      /\ Goto(a, "decrement") /\ pc'[a] = "decrement"
  BY DEF UartInv, TypeOK, Fetch, At, Goto, history
<1>1. ~raced' => \A b \in Actors \ {a} : pc[b] \notin Critical
  BY <1>0, OnlyOne
<1>2. ~raced => Current /\ left > 0
  BY <1>0 DEF UartInv, Progress, Stage
<1>3. ~raced => Current' /\ left' > 0
  BY <1>0, <1>2 DEF Current, Written, Stored, transmit, total, left, pointer
<1>4. taken'[a] = [left |-> left, from |-> (pointer + total - left) % Modulus] /\ left' = left
  BY <1>0 DEF Fetch, TypeOK, transmit, left
<1>5. ASSUME ~raced, ~moved PROVE taken'[a].from = latest.at + latest.len - left
  <2>1. Stored /\ left > 0 /\ left <= latest.len
    BY <1>2, <1>5 DEF Current, Written
  <2>2. latest.len - left \in 0 .. latest.len - 1
    BY <1>0, <2>1, Numbers
  <2>3. latest.at + (latest.len - left) \in Words
    BY <1>0, <2>2, Numbers, MessageType
  <2>4. (latest.at + (latest.len - left)) % Modulus = latest.at + (latest.len - left)
    BY <2>3, CounterWraps
  <2>5. pointer + total - left = latest.at + (latest.len - left)
        /\ latest.at + latest.len - left = latest.at + (latest.len - left)
    BY <1>0, <2>1, Numbers DEF Stored
  <2> QED
    BY <1>4, <2>4, <2>5
<1>6. ~raced => Stage(a)'
  BY <1>0, <1>3, <1>4, <1>5 DEF Stage
<1> QED
  BY <1>0, <1>1, <1>6, PreemptStep, ProgressStep DEF Critical

LEMMA DecrementInv ==
    ASSUME UartInv, NEW a \in Actors, Decrement(a)
    PROVE  NotPreempted' /\ Progress'
<1>0. /\ TypeOK /\ NotPreempted /\ Runs(a) /\ pc[a] = "decrement"
      /\ UNCHANGED <<raced, moved, latest, sent, total, pointer, taken>>
      /\ Goto(a, "write") /\ pc'[a] = "write"
  BY DEF UartInv, TypeOK, Decrement, At, Goto, history, total, pointer
<1>1. ~raced' => \A b \in Actors \ {a} : pc[b] \notin Critical
  BY <1>0, OnlyOne
<1>2. ASSUME ~raced PROVE Stage(a)'
  <2>1. /\ Current /\ left > 0 /\ taken[a].left = left
        /\ ~moved => taken[a].from = latest.at + latest.len - left
    BY <1>0, <1>2 DEF UartInv, Progress, Stage
  <2>2. left \in Words
    BY <1>0 DEF TypeOK
  <2>3. left' = left - 1
    BY <2>1, <2>2, CounterWraps DEF Decrement, left
  <2>4. /\ left' < latest.len /\ latest.len - left' - 1 = latest.len - left
        /\ latest.at + latest.len - left' - 1 = latest.at + latest.len - left
    BY <1>0, <2>1, <2>3, Numbers DEF Current
  <2>5. Written(latest.len - left - 1)'
    <3>1. /\ Len(sent) = latest.len - left
          /\ ~moved => sent = Text(latest, latest.len - left) /\ Stored
      BY <2>1 DEF Current, Written
    <3> QED
      BY <1>0, <2>4, <3>1 DEF Written, Stored
  <2> QED
    BY <1>0, <2>1, <2>4, <2>5 DEF Stage
<1> QED
  BY <1>0, <1>1, <1>2, PreemptStep, ProgressStep DEF Critical

LEMMA WriteByteInv ==
    ASSUME UartInv, NEW a \in Actors, WriteByte(a)
    PROVE  NotPreempted' /\ Progress'
<1>0. /\ TypeOK /\ NotPreempted /\ Runs(a) /\ pc[a] = "write"
      /\ UNCHANGED <<raced, moved, latest, total, left, pointer>>
      /\ Goto(a, "test") /\ pc'[a] = "test"
  BY DEF UartInv, TypeOK, WriteByte, At, Goto, transmit, total, left, pointer
<1>1. ~raced' => \A b \in Actors \ {a} : pc[b] \notin Critical
  BY <1>0, OnlyOne
<1>2. ASSUME ~raced PROVE Current'
  <2> DEFINE k == latest.len - left
  <2>1. /\ left < latest.len
        /\ Len(sent) = k - 1
        /\ ~moved => sent = Text(latest, k - 1) /\ (left > 0 => Stored)
        /\ ~moved => taken[a].from = latest.at + k - 1
    <3>1. left < latest.len /\ Written(latest.len - left - 1)
          /\ (~moved => taken[a].from = latest.at + latest.len - left - 1)
      BY <1>0, <1>2 DEF UartInv, Progress, Stage
    <3>2. latest.at + latest.len - left - 1 = latest.at + k - 1
      BY <1>0, Numbers
    <3> QED
      BY <3>1, <3>2 DEF Written
  <2>2. k \in 1 .. latest.len /\ left <= latest.len
    BY <1>0, <2>1, Numbers
  <2>3. sent' = Append(sent, taken[a].from) /\ taken[a].from \in Words
    BY <1>0, <1>2 DEF WriteByte, TypeOK
  <2>4. Len(sent') = k
    BY <1>0, <2>1, <2>2, <2>3, Numbers, AppendProperties
  <2>5. ~moved => sent' = Text(latest, k)
    BY <1>0, <2>1, <2>2, <2>3, Numbers, TextAppend
  <2> QED
    BY <1>0, <2>1, <2>2, <2>4, <2>5 DEF Current, Written, Stored
<1>3. Stage(a)'
  BY <1>0 DEF Stage
<1> QED
  BY <1>0, <1>1, <1>2, <1>3, PreemptStep, ProgressStep

LEMMA EnableInv ==
    ASSUME UartInv, NEW a \in Senders, Enable(a)
    PROVE  NotPreempted' /\ Progress'
<1>1. /\ a \in Actors /\ NotPreempted /\ Runs(a) /\ pc[a] = "enable" /\ Goto(a, "idle")
      /\ raced' = raced /\ UNCHANGED <<transmit, latest, sent, moved>>
  BY DEF Actors, UartInv, Enable, At
<1>2. ~raced' => ~raced /\ \A b \in Actors \ {a} : pc[b] \notin Critical
  BY <1>1, OnlyOne
<1> QED
  BY <1>1, <1>2, AsideInv DEF Critical

LEMMA HandlerInv ==
    ASSUME UartInv, EnterIrq \/ CheckSource \/ CheckLeft \/ MaskIrq
    PROVE  NotPreempted' /\ Progress'
<1>0. "irq" \in Actors /\ NotPreempted
  BY DEF Actors, UartInv
<1>1. CASE EnterIrq
  <2>1. /\ Runs("irq") /\ pc["irq"] = "idle" /\ Goto("irq", "source")
        /\ UNCHANGED <<transmit, latest, sent, moved>>
    BY <1>1 DEF EnterIrq, At
  <2>2. ~raced' => ~raced /\ \A b \in Actors \ {"irq"} : pc[b] \notin Critical
    BY <1>1 DEF EnterIrq, Overlaps
  <2> QED
    BY <1>0, <2>1, <2>2, AsideInv DEF Critical
<1>2. CASE CheckSource \/ CheckLeft \/ MaskIrq
  <2>1. /\ Runs("irq") /\ pc["irq"] \in {"source", "check", "mask"}
        /\ \E access \in {"idle", "test", "mask"} : Goto("irq", access)
        /\ raced' = raced /\ UNCHANGED <<transmit, latest, sent, moved>>
    BY <1>2 DEF CheckSource, CheckLeft, MaskIrq, At, history
  <2>2. ~raced' => ~raced /\ \A b \in Actors \ {"irq"} : pc[b] \notin Critical
    BY <1>0, <2>1, OnlyOne
  <2>3. PICK access \in {"idle", "test", "mask"} : Goto("irq", access)
    BY <2>1
  <2> QED
    BY <1>0, <2>1, <2>2, <2>3, AsideInv DEF Critical
<1> QED
  BY <1>1, <1>2

\* Nobody is in a transmission when column 8 is refreshed, and without an
\* overlap the counter stays as it is.
LEMMA Column8Left ==
    ASSUME UartInv, RefreshColumn8, ~raced
    PROVE  Free /\ Current /\ left' = left /\ raced' = raced /\ NothingAdded'
<1>0. TypeOK /\ (\A a \in Actors : pc[a] = "idle") /\ raced' = raced
  BY DEF UartInv, RefreshColumn8, LoadSum, StoreSum, Tmr0Runs, history
<1>1. Free /\ Current
  BY <1>0 DEF UartInv, Progress, Free, Critical
<1>2. left \in 0 .. Byte - 1
  BY <1>0, <1>1, Numbers, WordFacts DEF Current
<1>3. CASE LoadSum
  <2>1. Digit(left, 2) = 0 /\ Digit(left, 1) = 0 /\ (0 + 0) % Byte = 0
    BY <1>2, SmallDigits, WordFacts
  <2>2. tmr0.row = "left" => tmr0'.sum = 0
    BY <1>0, <1>3, <2>1 DEF LoadSum, TypeOK, TempBrightness, Brightness
  <2>3. tmr0'.row = tmr0.row /\ left' = left
    BY <1>0, <1>3 DEF LoadSum, TypeOK, transmit, left
  <2> QED
    BY <1>0, <1>1, <2>2, <2>3 DEF NothingAdded
<1>4. CASE StoreSum
  <2>1. left' \in MayBecome("left", 2, left) /\ tmr0'.step = "load"
    BY <1>4 DEF StoreSum, NoSum, left
  <2>2. tmr0.row = "left" => tmr0.sum = 0
    BY <1>4 DEF UartInv, NothingAdded, StoreSum
  <2>3. left' = left
    BY <1>2, <2>1, <2>2, StoreZero DEF MayBecome
  <2> QED
    BY <1>0, <1>1, <2>1, <2>3 DEF NothingAdded
<1> QED
  BY <1>3, <1>4 DEF RefreshColumn8

LEMMA Column8Inv ==
    ASSUME UartInv, RefreshColumn8
    PROVE  NotPreempted' /\ Progress' /\ NothingAdded'
<1>1. /\ UNCHANGED <<pc, data, taken, latest, sent, raced>>
      /\ \A a \in Actors : pc[a] = "idle"
  BY DEF RefreshColumn8, LoadSum, StoreSum, Tmr0Runs, history
<1>2. NotPreempted' /\ \A a \in Actors : Stage(a)'
  BY <1>1 DEF NotPreempted, Stage, Critical
<1>3. ~raced => Current'
  <2> SUFFICES ASSUME ~raced PROVE Current'
    OBVIOUS
  <2>1. Current /\ left' = left
    BY Column8Left
  <2>2. ~moved' => ~moved /\ (left > 0 => total' = total /\ pointer' = pointer)
    BY <2>1 DEF RefreshColumn8, LoadSum, StoreSum, transmit, history, total, left, pointer
  <2> QED
    BY <1>1, <2>1, <2>2 DEF Current, Written, Stored
<1>4. NothingAdded'
  BY <1>1, Column8Left DEF NothingAdded
<1> QED
  BY <1>1, <1>2, <1>3, <1>4 DEF Progress

LEMMA StepInv == UartInv /\ [Next]_vars => UartInv'
<1> SUFFICES ASSUME UartInv, [Next]_vars PROVE UartInv'
  OBVIOUS
<1>1. TypeOK'
  BY StepType DEF UartInv
<1>2. UNCHANGED <<tmr0, raced>> => NothingAdded'
  BY DEF UartInv, NothingAdded
<1>3. CASE UNCHANGED vars \/ Halt \/ Drain
  <2>1. UNCHANGED <<transmit, pc, data, taken, tmr0, history>>
    BY <1>3 DEF vars, Halt, Drain
  <2> QED
    BY <1>1, <1>2, <2>1
       DEF UartInv, NotPreempted, Progress, Stage, Current, Written, Stored, Free,
           transmit, history, total, left, pointer
<1>4. ASSUME NEW a \in Actors, Loop(a) PROVE UartInv'
  <2>1. UNCHANGED <<tmr0, raced>>
    BY <1>4 DEF Loop, TestLoop, Fetch, Decrement, WriteByte, ReadFault, history
  <2>2. CASE ReadFault(a)
    BY <1>1, <1>2, <2>1, <2>2
       DEF ReadFault, UartInv, NotPreempted, Progress, Stage, Current, Written, Stored,
           Free, transmit, history, total, left, pointer
  <2> QED
    BY <1>1, <1>2, <1>4, <2>1, <2>2, TestLoopInv, FetchInv, DecrementInv, WriteByteInv
       DEF Loop, UartInv
<1>5. ASSUME NEW a \in Senders, Send(a) \/ \E m \in Sends(a) : Call(a, m) PROVE UartInv'
  <2>1. StoreLeft(a) \/ StorePointer(a) \/ Enable(a) => UNCHANGED <<tmr0, raced>>
    BY DEF StoreLeft, StorePointer, Enable, history
  <2> QED
    BY <1>1, <1>2, <1>4, <1>5, <2>1, StoreInv, EnableInv, CallInv DEF Send, Actors, UartInv
<1>6. CASE UART0_IRQHandler
  <2>1. EnterIrq => tmr0' = tmr0 /\ (raced => raced')
    BY DEF EnterIrq
  <2>2. CheckSource \/ CheckLeft \/ MaskIrq => UNCHANGED <<tmr0, raced>>
    BY DEF CheckSource, CheckLeft, MaskIrq, history
  <2>3. EnterIrq \/ CheckSource \/ CheckLeft \/ MaskIrq => NothingAdded'
    BY <2>1, <2>2 DEF UartInv, NothingAdded
  <2> QED
    BY <1>1, <1>4, <1>6, <2>3, HandlerInv DEF UART0_IRQHandler, Actors, UartInv
<1>7. CASE RefreshColumn8
  BY <1>1, <1>7, Column8Inv DEF UartInv
<1> QED
  BY <1>3, <1>5, <1>6, <1>7 DEF Next

LEMMA InitInv == Init => UartInv
<1> SUFFICES ASSUME Init PROVE UartInv
  OBVIOUS
<1>1. TypeOK
  BY InitType
<1>2. Len(<< >>) = 0 /\ NoMessage.len = 0 /\ NoMessage.at = 0
  BY EmptySeq DEF NoMessage
<1>3. Text(NoMessage, 0) = << >>
  BY <1>2, TextProperties, EmptySeq
<1>4. Current
  BY <1>2, <1>3 DEF Init, Current, Written, Stored, total, left, pointer
<1>5. NotPreempted /\ (\A a \in Actors : Stage(a)) /\ NothingAdded
  BY DEF Init, NotPreempted, Stage, Critical, NothingAdded, NoSum
<1> QED
  BY <1>1, <1>4, <1>5 DEF UartInv, Progress

\* A message whose transmission no other one overlaps is written to the UART
\* with all its bytes, and with no others if none was left when column 8 was
\* refreshed, for messages of any length a byte holds.
THEOREM DeliversMessages == Spec => []Delivered
<1>1. UartInv => Delivered
  BY DEF UartInv, Progress, Free, Current, Written, Delivered
<1> QED
  BY InitInv, StepInv, <1>1, PTL DEF Spec

-----------------------------------------------------------------------------
(***************************************************************************)
(* NotStalled.  While the interrupt is off, whoever is about to switch it  *)
(* on has not returned; and the handler switches it off only with nothing  *)
(* left, unless a call came after it looked.  Column 8 leaves the counter  *)
(* of a transmission that was not overlapped alone.                        *)
(***************************************************************************)
StallInv ==
    /\ pc["irq"] # "idle" => thre
    /\ pc["irq"] = "mask" /\ ~masked => left = 0 /\ pc["usb"] = "idle"
    /\ left > 0 /\ ~masked /\ ~(raced /\ moved) /\ ~thre => \E a \in Senders : pc[a] # "idle"

\* Only the actor that runs moves.
LEMMA GotoMoves ==
    ASSUME TypeOK, NEW a \in Actors, NEW access, Goto(a, access)
    PROVE  pc'[a] = access /\ \A b \in Actors \ {a} : pc'[b] = pc[b]
BY DEF TypeOK, Goto

LEMMA Everyone == Actors = {"usb", "tmr", "irq"} /\ Senders = {"usb", "tmr"}
BY DEF Actors, Senders

\* A sender that goes on, without returning, holds StallInv.
LEMMA SenderGoesOn ==
    ASSUME TypeOK, StallInv, NEW a \in Senders, Runs(a), NEW access, access # "idle",
           Goto(a, access), thre' = thre,
           \/ masked' = masked /\ pc[a] # "idle"
           \/ masked' = (masked \/ pc["irq"] = "mask")
    PROVE  StallInv'
<1>1. pc'[a] = access /\ pc'["irq"] = pc["irq"] /\ a \in Actors
  BY GotoMoves, Everyone
<1>2. a = "tmr" => pc["irq"] = "idle"
  BY DEF Runs
<1>3. pc'["irq"] = "mask" => masked'
  BY <1>1, <1>2, Everyone DEF StallInv
<1> QED
  BY <1>1, <1>3 DEF StallInv

LEMMA StallSender ==
    ASSUME TypeOK, StallInv, NEW a \in Senders,
           Send(a) \/ \E m \in Sends(a) : Call(a, m)
    PROVE  StallInv'
<1>1. ASSUME NEW m \in Sends(a), Call(a, m) PROVE StallInv'
  BY <1>1, SenderGoesOn DEF Call, At
<1>2. CASE StoreLeft(a) \/ StorePointer(a)
  BY <1>2, SenderGoesOn DEF StoreLeft, StorePointer, At, history
<1>3. CASE TestLoop(a) \/ Fetch(a) \/ Decrement(a) \/ WriteByte(a)
  <2>1. /\ Runs(a) /\ pc[a] # "idle" /\ thre' = thre /\ masked' = masked
        /\ \E access : access # "idle" /\ Goto(a, access)
    BY <1>3 DEF TestLoop, Fetch, Decrement, WriteByte, At, history
  <2> QED
    BY <2>1, SenderGoesOn
<1>4. CASE ReadFault(a)
  BY <1>4 DEF ReadFault, StallInv, transmit, left, history
<1>5. CASE Enable(a)
  <2>1. /\ Runs(a) /\ pc[a] = "enable" /\ Goto(a, "idle") /\ thre' = TRUE
        /\ masked' = (masked /\ pc["irq"] = "mask") /\ left' = left
    BY <1>5 DEF Enable, At, transmit, left
  <2>2. pc'["irq"] = pc["irq"] /\ (a = "tmr" => pc["irq"] = "idle")
    BY <2>1, GotoMoves, Everyone DEF Runs
  <2>3. pc'["irq"] = "mask" => masked'
    BY <2>1, <2>2, Everyone DEF StallInv
  <2> QED
    BY <2>1, <2>3 DEF StallInv
<1> QED
  BY <1>1, <1>2, <1>3, <1>4, <1>5 DEF Send, Loop

LEMMA StallHandler == ASSUME TypeOK, StallInv, UART0_IRQHandler PROVE StallInv'
<1>0. CASE ReadFault("irq")
  BY <1>0 DEF ReadFault, StallInv, transmit, left, history
<1> DEFINE Moves == \/ EnterIrq \/ CheckSource \/ CheckLeft \/ MaskIrq
                    \/ TestLoop("irq") \/ Fetch("irq") \/ Decrement("irq") \/ WriteByte("irq")
<1>1. Moves => Runs("irq") /\ pc["usb"] = "idle" /\ masked' = masked /\ "irq" \in Actors
  BY Everyone
     DEF EnterIrq, CheckSource, TestLoop, Fetch, Decrement,
         WriteByte, CheckLeft, MaskIrq, At, Runs, history
<1>2. CASE EnterIrq
  <2>1. pc'["irq"] = "source" /\ (\A a \in Senders : pc'[a] = pc[a]) /\ thre /\ thre' = thre
    BY <1>2, GotoMoves, Everyone DEF EnterIrq, Pending
  <2> QED
    BY <2>1 DEF StallInv
<1>3. CASE CheckSource \/ TestLoop("irq") \/ Fetch("irq") \/ Decrement("irq") \/ WriteByte("irq")
  <2>1. pc["irq"] # "idle" /\ thre' = thre /\ pc'["irq"] # "mask"
    <3>1. \E to \in {"idle", "test", "fetch", "decrement", "write", "check"} :
              Goto("irq", to)
      BY <1>3 DEF CheckSource, TestLoop, Fetch, Decrement, WriteByte
    <3>2. pc["irq"] # "idle" /\ thre' = thre
      BY <1>3 DEF CheckSource, TestLoop, Fetch, Decrement, WriteByte, At
    <3> QED
      BY <1>1, <1>3, <3>1, <3>2, GotoMoves
  <2> QED
    BY <2>1 DEF StallInv
<1>4. CASE CheckLeft
  <2>1. /\ pc["irq"] = "check" /\ thre' = thre /\ left' = left
        /\ Goto("irq", IF left = 0 THEN "mask" ELSE "idle")
    BY <1>4 DEF CheckLeft, At, transmit, left
  <2>2. pc'["irq"] = "mask" => left' = 0
    BY <1>1, <1>4, <2>1, GotoMoves
  <2>3. \A a \in Senders : pc'[a] = pc[a]
    BY <1>1, <1>4, <2>1, GotoMoves, Everyone
  <2> QED
    BY <1>1, <1>4, <2>1, <2>2, <2>3, Everyone DEF StallInv
<1>5. CASE MaskIrq
  <2>1. /\ pc["irq"] = "mask" /\ left' = left /\ Goto("irq", "idle")
        /\ raced' = raced /\ moved' = moved
    BY <1>5 DEF MaskIrq, At, transmit, left, history
  <2>2. pc'["irq"] = "idle"
    BY <1>1, <1>5, <2>1, GotoMoves
  <2> QED
    BY <1>1, <1>5, <2>1, <2>2 DEF StallInv
<1> QED
  BY <1>0, <1>2, <1>3, <1>4, <1>5 DEF UART0_IRQHandler, Loop

LEMMA StallColumn8 == ASSUME UartInv, StallInv, RefreshColumn8 PROVE StallInv'
<1>1. /\ UNCHANGED <<pc, thre, masked, raced>>
      /\ \A a \in Actors : pc[a] = "idle"
  BY DEF RefreshColumn8, LoadSum, StoreSum, Tmr0Runs, history
<1>2. pc["irq"] = "idle" /\ \A a \in Senders : pc[a] = "idle"
  BY <1>1, Everyone
<1>3. left' > 0 /\ ~masked /\ ~(raced' /\ moved') => thre
  <2>1. CASE ~raced
    BY <1>1, <1>2, <2>1, Column8Left DEF StallInv
  <2>2. CASE raced /\ ~moved'
    <3>1. ~moved /\ (left' > 0 => left' = left)
      <4>1. CASE LoadSum
        BY <2>2, <4>1 DEF LoadSum, transmit, history, left
      <4>2. CASE StoreSum
        <5>1. ~moved /\ (left' > 0 => transmit' = transmit)
          BY <2>2, <4>2 DEF StoreSum, left
        <5> QED
          BY <5>1 DEF transmit, left
      <4> QED
        BY <4>1, <4>2 DEF RefreshColumn8
    <3> QED
      BY <1>2, <3>1 DEF StallInv
  <2> QED
    BY <1>1, <2>1, <2>2
<1> QED
  BY <1>1, <1>2, <1>3 DEF StallInv

LEMMA StallStep == UartInv /\ StallInv /\ [Next]_vars => StallInv'
<1> SUFFICES ASSUME UartInv, StallInv, [Next]_vars PROVE StallInv'
  OBVIOUS
<1>0. TypeOK
  BY DEF UartInv
<1>1. CASE UNCHANGED vars \/ Drain \/ Halt
  BY <1>1 DEF StallInv, vars, Drain, Halt, transmit, left, history
<1> QED
  BY <1>0, <1>1, StallSender, StallHandler, StallColumn8 DEF Next

\* uart.h:40-42 and 67: bytes that are left to send are sent without another
\* call, whoever preempted whom, unless a call fell between the handler's test
\* of the counter and its write to UART0_IER, or column 8 changed what is left
\* of an overlapped transmission.
THEOREM KeepsSending == Spec => []NotStalled
<1>1. Init => StallInv
  BY Everyone DEF Init, StallInv, left
<1>2. StallInv => NotStalled
  BY Everyone DEF StallInv, NotStalled
<1>3. Spec => [](UartInv /\ StallInv)
  BY InitInv, StepInv, <1>1, StallStep, PTL DEF Spec
<1> QED
  BY <1>2, <1>3, PTL
=============================================================================
