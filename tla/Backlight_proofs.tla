--------------------------- MODULE Backlight_proofs ---------------------------
(***************************************************************************)
(* Proofs about Backlight: types, that the 8 bit brightness sums never     *)
(* lose or invent an overflow, and that a frame is only visible when it is *)
(* complete.  The first inductive invariant says that the sum of an LED is *)
(* the light it is owed, the second one how the frame fills the chain.     *)
(***************************************************************************)
EXTENDS Backlight, TLAPS

\* A brightness level.
Level == 0 .. Full - 1

\* The sum of an LED is what it has been asked for beyond what it has shown.
OwedIsSum == \A led \in Leds : owed[led] = temp[led]

IInv == TypeOK /\ OwedIsSum

\* Adding two levels modulo Full overflows at most once.
LEMMA SumModulo ==
    ASSUME NEW a \in Level, NEW b \in Level
    PROVE  /\ a + b < Full => (a + b) % Full = a + b
           /\ a + b >= Full => (a + b) % Full = a + b - Full
<1>1. Full \in Nat \ {0}
  BY FullAssumption
<1>2. (a + b) % Full \in 0 .. Full - 1
  BY <1>1 DEF Level
<1>3. a + b = Full * ((a + b) \div Full) + ((a + b) % Full)
  BY <1>1 DEF Level
<1> DEFINE q == (a + b) \div Full
           r == (a + b) % Full
<1>4. q \in Int
  BY <1>1 DEF Level
<1>5. q = 0 \/ q = 1
  <2> HIDE DEF q, r
  <2>1. a + b = Full * q + r /\ r \in 0 .. Full - 1
    BY <1>2, <1>3 DEF q, r
  <2>2. q >= 2 => Full * q >= 2 * Full
    BY <1>1, <1>4
  <2>3. q <= -1 => Full * q <= -Full
    BY <1>1, <1>4
  <2> QED
    BY <1>1, <1>4, <2>1, <2>2, <2>3 DEF Level
<1> HIDE DEF q, r
<1>6. a + b = Full * q + r /\ r \in 0 .. Full - 1
  BY <1>2, <1>3 DEF q, r
<1>7. CASE q = 0
  <2>1. r = a + b
    BY <1>1, <1>6, <1>7 DEF Level
  <2> QED
    BY <1>1, <1>6, <2>1 DEF r, Level
<1>8. CASE q = 1
  <2>1. r = a + b - Full
    BY <1>1, <1>6, <1>8 DEF Level
  <2> QED
    BY <1>1, <1>6, <2>1 DEF r, Level
<1> QED
  BY <1>5, <1>7, <1>8

\* The test for overflow is right, and the sum changes by exactly what was
\* added less the light given.
LEMMA WrapIsOverflow ==
    ASSUME NEW a \in Level, NEW b \in Level
    PROVE  LET sum == (a + b) % Full
           IN  /\ sum \in Level
               /\ sum = a + b - (IF Wrapped(sum, b) THEN Full ELSE 0)
<1> DEFINE sum == (a + b) % Full
<1>0. Full \in Nat \ {0}
  BY FullAssumption
<1>1. CASE a + b < Full
  <2>1. sum = a + b
    BY <1>1, SumModulo
  <2> HIDE DEF sum
  <2> QED
    BY <1>0, <1>1, <2>1 DEF Level, Wrapped
<1>2. CASE a + b >= Full
  <2>1. sum = a + b - Full
    BY <1>2, SumModulo
  <2> HIDE DEF sum
  <2> QED
    BY <1>0, <1>2, <2>1 DEF Level, Wrapped
<1> QED
  BY <1>0, <1>1, <1>2 DEF Level

\* The dimensions are what arithmetic on positions needs.
LEMMA Dimensions ==
    /\ NumCols \in Nat /\ NumCols >= 2 /\ NumRows \in Nat /\ NumRows >= 1
    /\ LedBits \in Nat /\ ChainLength \in Nat /\ LedBits < ChainLength
    /\ Full \in Nat /\ Full >= 1
BY MatrixAssumption, FullAssumption DEF LedBits, ChainLength

\* Shifting a bit keeps the chain a chain.
LEMMA ShiftKeepsChain ==
    ASSUME NEW bit \in BOOLEAN, Shift(bit), chain \in [Chain -> BOOLEAN]
    PROVE  chain' \in [Chain -> BOOLEAN]
<1> SUFFICES ASSUME NEW p \in Chain
             PROVE  (IF p = 1 THEN bit ELSE chain[p - 1]) \in BOOLEAN
  BY DEF Shift
<1>1. CASE p = 1
  BY <1>1
<1>2. CASE p # 1
  <2>1. p - 1 \in Chain
    BY <1>2, Dimensions DEF Chain
  <2> QED
    BY <1>2, <2>1
<1> QED
  BY <1>1, <1>2

-----------------------------------------------------------------------------
LEMMA InitInvariant == Init => IInv
BY Dimensions DEF Init, IInv, TypeOK, OwedIsSum

LEMMA StepInvariant == IInv /\ [Next]_vars => IInv'
<1> SUFFICES ASSUME IInv, [Next]_vars
             PROVE  IInv'
  OBVIOUS
<1> USE DEF IInv
<1>1. ASSUME NEW col \in Columns, NEW row \in Rows, SampleKey(col, row)
      PROVE  IInv'
  <2>1. PICK level \in {0, Full - 1} :
               bright' = [bright EXCEPT ![<<col, Green, row>>] = level]
    BY <1>1 DEF SampleKey
  <2>2. level \in 0 .. Full - 1
    BY Dimensions
  <2>3. bright' \in [Leds -> 0 .. Full - 1]
    BY <2>1, <2>2 DEF TypeOK
  <2> QED
    BY <1>1, <2>3 DEF SampleKey, TypeOK, OwedIsSum
<1>2. ASSUME Fade
      PROVE  IInv'
  <2>1. \A n \in 0 .. Full - 1 : (n + 1) % Full \in 0 .. Full - 1
    BY Dimensions
  <2>2. bright' \in [Leds -> 0 .. Full - 1]
    BY <1>2, <2>1 DEF Fade, TypeOK
  <2> QED
    BY <1>2, <2>2 DEF Fade, TypeOK, OwedIsSum
<1>3. CASE PowerOff
  <2>1. step' \in 0 .. ChainLength + 1
    BY <1>3, Dimensions DEF PowerOff
  <2>2. power' \in BOOLEAN
    BY <1>3 DEF PowerOff
  <2> QED
    BY <1>3, <2>1, <2>2 DEF PowerOff, TypeOK, OwedIsSum
<1>4. CASE ShiftLed
  <2> DEFINE led == LedOf(step)
             sum == (temp[led] + bright[led]) % Full
             bit == Wrapped(sum, bright[led])
  <2>1. /\ temp' = [temp EXCEPT ![led] = sum]
        /\ lit' = [lit EXCEPT ![led] = bit]
        /\ owed' = [owed EXCEPT ![led] =
                      @ + bright[led] - (IF bit THEN Full ELSE 0)]
        /\ Shift(bit)
        /\ UNCHANGED <<bright, currentcolnum, power, shown>>
    BY <1>4 DEF ShiftLed
  <2>2. bit \in BOOLEAN
    BY DEF Wrapped
  <2>3. led \in Leds =>
          /\ sum \in 0 .. Full - 1
          /\ sum = temp[led] + bright[led] - (IF bit THEN Full ELSE 0)
    BY WrapIsOverflow DEF TypeOK, Level
  <2>4. step' \in 0 .. ChainLength + 1
    BY <1>4, Dimensions DEF ShiftLed, Shift
  <2>5. chain' \in [Chain -> BOOLEAN]
    BY <2>1, <2>2, ShiftKeepsChain DEF TypeOK
  <2> HIDE DEF led, sum, bit
  <2>6. temp' \in [Leds -> 0 .. Full - 1]
    BY <2>1, <2>3 DEF TypeOK
  <2>7. lit' \in [Leds -> BOOLEAN]
    BY <2>1, <2>2 DEF TypeOK
  <2>8. \A x \in Leds : owed'[x] = temp'[x]
    <3> TAKE x \in Leds
    <3>1. CASE x = led
      BY <2>1, <2>3, <3>1 DEF TypeOK, OwedIsSum
    <3>2. CASE x # led
      BY <2>1, <3>2 DEF TypeOK, OwedIsSum
    <3> QED
      BY <3>1, <3>2
  <2>9. owed' \in [Leds -> Int]
    <3>1. DOMAIN owed' = Leds /\ owed' = [x \in Leds |-> owed'[x]]
      BY <2>1 DEF TypeOK
    <3>2. \A x \in Leds : owed'[x] \in Int
      BY <2>6, <2>8, Dimensions
    <3> QED
      BY <3>1, <3>2
  <2> QED
    BY <2>1, <2>4, <2>5, <2>6, <2>7, <2>8, <2>9 DEF TypeOK, OwedIsSum
<1>5. CASE ShiftForeign
  <2>1. PICK bit \in BOOLEAN : Shift(bit)
    BY <1>5 DEF ShiftForeign
  <2>2. chain' \in [Chain -> BOOLEAN]
    BY <2>1, ShiftKeepsChain DEF TypeOK
  <2>3. step' \in 0 .. ChainLength + 1
    BY <1>5, <2>1, Dimensions DEF ShiftForeign, Shift
  <2> QED
    BY <1>5, <2>2, <2>3 DEF ShiftForeign, TypeOK, OwedIsSum
<1>6. CASE ShiftSelect
  <2>1. Shift(step - LedBits - 1 = currentcolnum)
    BY <1>6 DEF ShiftSelect
  <2>2. chain' \in [Chain -> BOOLEAN]
    BY <2>1, ShiftKeepsChain DEF TypeOK
  <2>3. step' \in 0 .. ChainLength + 1
    BY <1>6, <2>1, Dimensions DEF ShiftSelect, Shift
  <2> QED
    BY <1>6, <2>2, <2>3 DEF ShiftSelect, TypeOK, OwedIsSum
<1>7. CASE PowerOn
  <2>1. currentcolnum' \in 0 .. NumCols /\ shown' \in -1 .. NumCols
    BY <1>7, Dimensions DEF PowerOn, NextColumn, TypeOK
  <2> QED
    BY <1>7, <2>1, Dimensions DEF PowerOn, TypeOK, OwedIsSum
<1>8. CASE UNCHANGED vars
  BY <1>8 DEF vars, TypeOK, OwedIsSum
<1> QED
  BY <1>1, <1>2, <1>3, <1>4, <1>5, <1>6, <1>7, <1>8 DEF Next, setRGB

-----------------------------------------------------------------------------
\* The types of setRGB's state, its column counter included.
THEOREM TypeCorrect == Spec => []TypeOK
<1>1. IInv => TypeOK
  BY DEF IInv
<1> QED
  BY InitInvariant, StepInvariant, <1>1, PTL DEF Spec

\* For every matrix and every width of the sums: the light given to an LED
\* lags what was asked for by less than one refresh, whatever the key presses
\* do to its brightness.
THEOREM LightIsKept == Spec => []BrightnessKept
<1>1. IInv => BrightnessKept
  BY DEF IInv, TypeOK, OwedIsSum, BrightnessKept
<1> QED
  BY InitInvariant, StepInvariant, <1>1, PTL DEF Spec

-----------------------------------------------------------------------------
(***************************************************************************)
(* LitFrame.  While a frame is shifted the backlight is off, and what has  *)
(* been shifted so far lies in the chain in reverse.                       *)
(***************************************************************************)
Dark == step # 0 => ~power

Shifted ==
    \A p \in 1 .. step - 1 :
        /\ step - p > LedBits => (chain[p] <=> step - p - LedBits - 1 = currentcolnum)
        /\ step - p <= LedBits /\ currentcolnum < NumCols => chain[p] = lit[LedOf(step - p)]

FrameInv == TypeOK /\ Dark /\ Shifted /\ LitFrame

LEMMA DivMod ==
    ASSUME NEW n \in Nat
    PROVE  /\ n \div NumRows \in Nat /\ n % NumRows \in Rows
           /\ n = NumRows * (n \div NumRows) + (n % NumRows)
BY MatrixAssumption DEF Rows

\* Bit s of a frame belongs to one LED, and no other bit does.
LEMMA LedOfBit ==
    ASSUME currentcolnum \in Columns, NEW s \in 1 .. LedBits
    PROVE  /\ LedOf(s) \in Leds
           /\ \A t \in 1 .. LedBits : LedOf(s) = LedOf(t) => s = t
<1> DEFINE q == (s - 1) \div NumRows
<1>0. NumRows \in Nat \ {0} /\ s - 1 \in Nat /\ s - 1 < 3 * NumRows
  BY MatrixAssumption DEF LedBits
<1>1. q \in Nat /\ (s - 1) % NumRows \in Rows /\ s - 1 = NumRows * q + ((s - 1) % NumRows)
  BY <1>0, DivMod
<1>2. q \in {0, 1, 2}
  <2> HIDE DEF q
  <2>1. q >= 3 => NumRows * q >= 3 * NumRows
    BY <1>0, <1>1
  <2>2. NumRows * q <= s - 1
    <3>1. (s - 1) % NumRows >= 0
      BY <1>0, <1>1 DEF Rows
    <3>2. NumRows * q \in Int /\ (s - 1) % NumRows \in Int
      BY <1>0, <1>1 DEF Rows
    <3> QED
      BY <1>1, <3>1, <3>2
  <2>3. NumRows * q \in Int
    BY <1>0, <1>1
  <2> QED
    BY <1>0, <1>1, <2>1, <2>2, <2>3
<1>3. LedOf(s) \in Leds
  BY <1>1, <1>2 DEF LedOf, Leds, Colors, Green, Blue, Red
<1>4. ASSUME NEW t \in 1 .. LedBits, LedOf(s) = LedOf(t) PROVE s = t
  <2>1. q = (t - 1) \div NumRows /\ (s - 1) % NumRows = (t - 1) % NumRows
    BY <1>4 DEF LedOf
  <2>2. t - 1 \in Nat
    BY DEF LedBits
  <2>3. t - 1 = NumRows * ((t - 1) \div NumRows) + ((t - 1) % NumRows)
    BY <2>2, DivMod
  <2>4. s - 1 = t - 1
    BY <1>1, <2>1, <2>3
  <2> QED
    BY <2>4 DEF LedBits
<1> QED
  BY <1>3, <1>4

\* The bit of an LED, as the loops count it.
LEMMA BitOfLed ==
    ASSUME NEW color \in Colors, NEW row \in Rows
    PROVE  LedOf(color * NumRows + row + 1) = <<currentcolnum, color, row>>
<1> DEFINE n == color * NumRows + row
           q == n \div NumRows
           r == n % NumRows
<1>0. NumRows \in Nat \ {0} /\ row \in 0 .. NumRows - 1 /\ color \in {0, 1, 2}
  BY MatrixAssumption DEF Rows, Colors, Green, Blue, Red
<1>1. n \in Nat
  BY <1>0
<1>2. q \in Nat /\ r \in 0 .. NumRows - 1 /\ n = NumRows * q + r
  BY <1>1, DivMod DEF Rows
<1>3. q = color /\ r = row
  <2>1. color * NumRows + row = NumRows * q + r
    BY <1>2
  <2> HIDE DEF q, r, n
  <2>2. CASE color = 0
    <3>1. q >= 1 => NumRows * q >= NumRows
      BY <1>0, <1>2
    <3>2. NumRows * 0 = 0
      BY <1>0
    <3> QED
      BY <1>0, <1>2, <2>1, <2>2, <3>1, <3>2
  <2>3. CASE color = 1
    <3>1. q >= 2 => NumRows * q >= 2 * NumRows
      BY <1>0, <1>2
    <3>2. NumRows * 0 = 0 /\ NumRows * 1 = NumRows
      BY <1>0
    <3> QED
      BY <1>0, <1>2, <2>1, <2>3, <3>1, <3>2
  <2>4. CASE color = 2
    <3>1. q >= 3 => NumRows * q >= 3 * NumRows
      BY <1>0, <1>2
    <3>2. NumRows * 0 = 0 /\ NumRows * 1 = NumRows /\ NumRows * 2 = 2 * NumRows
      BY <1>0
    <3> QED
      BY <1>0, <1>2, <2>1, <2>4, <3>1, <3>2
  <2> QED
    BY <1>0, <2>2, <2>3, <2>4
<1> DEFINE m == color * NumRows + row + 1
<1>4. m - 1 = n
  BY <1>0
<1> HIDE DEF m, n
<1>5. (m - 1) \div NumRows = color /\ (m - 1) % NumRows = row
  BY <1>3, <1>4
<1>6. LedOf(m) = <<currentcolnum, color, row>>
  BY <1>5 DEF LedOf
<1> QED
  BY <1>6 DEF m

\* One more bit of the frame.
LEMMA ShiftFrame ==
    ASSUME TypeOK, Shifted, NEW bit \in BOOLEAN, step \in 1 .. ChainLength, Shift(bit),
           currentcolnum' = currentcolnum,
           currentcolnum < NumCols =>
               \A t \in 1 .. step - 1 : t <= LedBits => lit'[LedOf(t)] = lit[LedOf(t)],
           step > LedBits => (bit <=> step - LedBits - 1 = currentcolnum),
           step <= LedBits /\ currentcolnum < NumCols => lit'[LedOf(step)] = bit
    PROVE  Shifted'
<1>0. step \in Nat /\ LedBits \in Nat /\ ChainLength \in Nat
  BY Dimensions
<1>1. step' = step + 1
  BY DEF Shift
<1> SUFFICES ASSUME NEW p \in 1 .. step
             PROVE  /\ step + 1 - p > LedBits =>
                          (chain'[p] <=> step + 1 - p - LedBits - 1 = currentcolnum)
                    /\ step + 1 - p <= LedBits /\ currentcolnum < NumCols =>
                          chain'[p] = lit'[LedOf(step + 1 - p)]
  BY <1>0, <1>1 DEF Shifted, LedOf
<1>2. p \in Chain /\ chain'[p] = IF p = 1 THEN bit ELSE chain[p - 1]
  BY <1>0 DEF Shift, Chain
<1>3. CASE p = 1
  <2>1. step + 1 - p = step /\ chain'[p] = bit
    BY <1>0, <1>2, <1>3
  <2>2. step > LedBits => (chain'[p] <=> step - LedBits - 1 = currentcolnum)
    BY <2>1
  <2>3. step <= LedBits /\ currentcolnum < NumCols => chain'[p] = lit'[LedOf(step)]
    BY <2>1
  <2> QED
    BY <1>0, <2>1, <2>2, <2>3
<1>4. CASE p # 1
  <2>1. p - 1 \in 1 .. step - 1 /\ step - (p - 1) = step + 1 - p /\ step + 1 - p \in 1 .. step - 1
    BY <1>0, <1>4
  <2>2. chain'[p] = chain[p - 1]
    BY <1>2, <1>4
  <2>3. step + 1 - p > LedBits =>
          (chain[p - 1] <=> step + 1 - p - LedBits - 1 = currentcolnum)
    BY <1>0, <2>1 DEF Shifted
  <2>4. step + 1 - p <= LedBits /\ currentcolnum < NumCols =>
          chain[p - 1] = lit'[LedOf(step + 1 - p)]
    BY <2>1 DEF Shifted
  <2> QED
    BY <2>2, <2>3, <2>4
<1> QED
  BY <1>3, <1>4

LEMMA FrameInit == Init => FrameInv
<1> SUFFICES ASSUME Init PROVE FrameInv
  OBVIOUS
<1>1. TypeOK
  BY InitInvariant DEF IInv
<1>2. 1 .. step - 1 = {}
  BY DEF Init
<1> QED
  BY <1>1, <1>2 DEF Init, FrameInv, Dark, Shifted, LitFrame

\* The frame that is lit when all its bits are in place.
LEMMA FrameComplete ==
    ASSUME FrameInv, PowerOn
    PROVE  LitFrame'
<1>0. /\ NumCols \in Nat /\ NumRows \in Nat /\ LedBits = 3 * NumRows
      /\ ChainLength = LedBits + NumCols /\ step = ChainLength + 1
  BY Dimensions DEF LedBits, ChainLength, PowerOn
<1>1. shown' = currentcolnum /\ UNCHANGED <<chain, lit>> /\ Shifted
  BY DEF PowerOn, FrameInv
<1>2. ASSUME NEW col \in Columns
      PROVE  chain'[SelectBit(col)] <=> col = shown'
  <2>1. /\ SelectBit(col) \in 1 .. step - 1
        /\ step - SelectBit(col) > LedBits
        /\ step - SelectBit(col) - LedBits - 1 = col
    BY <1>0 DEF SelectBit, Columns
  <2> QED
    BY <1>1, <2>1 DEF Shifted
<1>3. ASSUME NEW p \in 1 .. step - 1, NEW color \in Colors, NEW row \in Rows,
             step - p = color * NumRows + row + 1, shown' \in Columns
      PROVE  chain'[p] = lit'[<<shown', color, row>>]
  <2>1. color * NumRows + row + 1 <= LedBits
    BY <1>0 DEF Colors, Green, Blue, Red, Rows
  <2>2. currentcolnum < NumCols
    BY <1>1, <1>3, <1>0 DEF Columns
  <2>3. chain[p] = lit[LedOf(step - p)]
    BY <1>1, <1>3, <2>1, <2>2 DEF Shifted
  <2> QED
    BY <1>1, <1>3, <2>3, BitOfLed
<1>4. ASSUME NEW row \in Rows, shown' \in Columns
      PROVE  /\ chain'[RedBit(row)] = lit'[<<shown', Red, row>>]
             /\ chain'[BlueBit(row)] = lit'[<<shown', Blue, row>>]
             /\ chain'[GreenBit(row)] = lit'[<<shown', Green, row>>]
  <2>1. RedBit(row) \in 1 .. step - 1 /\ step - RedBit(row) = Red * NumRows + row + 1
    BY <1>0 DEF RedBit, Red, Rows
  <2>2. BlueBit(row) \in 1 .. step - 1 /\ step - BlueBit(row) = Blue * NumRows + row + 1
    BY <1>0 DEF BlueBit, Blue, Rows
  <2>3. GreenBit(row) \in 1 .. step - 1 /\ step - GreenBit(row) = Green * NumRows + row + 1
    BY <1>0 DEF GreenBit, Green, Rows
  <2> QED
    BY <1>3, <1>4, <2>1, <2>2, <2>3 DEF Colors
<1> QED
  BY <1>2, <1>4 DEF LitFrame, SelectBit, RedBit, BlueBit, GreenBit

LEMMA FrameStep == FrameInv /\ OwedIsSum /\ [Next]_vars => FrameInv'
<1> SUFFICES ASSUME FrameInv, OwedIsSum, [Next]_vars PROVE FrameInv'
  OBVIOUS
<1>0. TypeOK' /\ TypeOK
  BY StepInvariant DEF FrameInv, IInv
<1>1. ASSUME UNCHANGED <<currentcolnum, step, chain, power, shown, lit>> PROVE FrameInv'
  BY <1>0, <1>1 DEF FrameInv, Dark, Shifted, LitFrame, LedOf
<1>2. CASE PowerOff
  <2>1. step' = 1 /\ power' = FALSE /\ 1 .. step' - 1 = {}
    BY <1>2 DEF PowerOff
  <2> QED
    BY <1>0, <2>1 DEF FrameInv, Dark, Shifted, LitFrame
<1>3. ASSUME NEW bit \in BOOLEAN, Shift(bit), step \in 1 .. ChainLength,
             UNCHANGED <<power, shown>>, Shifted'
      PROVE  FrameInv'
  <2>1. ~power'
    BY <1>3, Dimensions DEF FrameInv, Dark
  <2> QED
    BY <1>0, <1>3, <2>1 DEF FrameInv, Dark, LitFrame
<1>4. CASE ShiftLed
  <2> DEFINE led == LedOf(step)
             bit == Wrapped((temp[led] + bright[led]) % Full, bright[led])
  <2>1. /\ lit' = [lit EXCEPT ![led] = bit] /\ Shift(bit) /\ bit \in BOOLEAN
        /\ UNCHANGED <<currentcolnum, power, shown>>
        /\ step \in 1 .. LedBits /\ currentcolnum < NumCols
    BY <1>4 DEF ShiftLed, Wrapped
  <2> HIDE DEF bit
  <2>2. currentcolnum \in Columns /\ step \in 1 .. ChainLength
    BY <1>0, <2>1, Dimensions DEF TypeOK, Columns
  <2>3. led \in Leds /\ \A t \in 1 .. LedBits : led = LedOf(t) => step = t
    BY <2>1, <2>2, LedOfBit
  <2>4. lit'[led] = bit
    BY <1>0, <2>1, <2>3 DEF TypeOK
  <2>5. \A t \in 1 .. step - 1 : t <= LedBits => lit'[LedOf(t)] = lit[LedOf(t)]
    <3> SUFFICES ASSUME NEW t \in 1 .. step - 1, t <= LedBits
                 PROVE  lit'[LedOf(t)] = lit[LedOf(t)]
      OBVIOUS
    <3>1. t \in 1 .. LedBits /\ t # step
      BY <2>1, Dimensions
    <3>2. LedOf(t) \in Leds /\ LedOf(t) # led
      BY <2>2, <2>3, <3>1, LedOfBit
    <3> QED
      BY <1>0, <2>1, <3>2 DEF TypeOK
  <2>6. ~(step > LedBits)
    BY <2>1, Dimensions
  <2>7. Shifted'
    BY <1>0, <2>1, <2>2, <2>4, <2>5, <2>6, ShiftFrame DEF FrameInv
  <2> QED
    BY <1>3, <2>1, <2>2, <2>7
<1>5. CASE ShiftForeign
  <2>1. PICK bit \in BOOLEAN : Shift(bit)
    BY <1>5 DEF ShiftForeign
  <2>2. /\ UNCHANGED <<currentcolnum, power, shown, lit>> /\ step \in 1 .. ChainLength
        /\ ~(currentcolnum < NumCols) /\ ~(step > LedBits)
    BY <1>5, Dimensions DEF ShiftForeign
  <2>3. Shifted'
    BY <1>0, <2>1, <2>2, ShiftFrame DEF FrameInv
  <2> QED
    BY <1>3, <2>1, <2>2, <2>3
<1>6. CASE ShiftSelect
  <2> DEFINE bit == step - LedBits - 1 = currentcolnum
  <2>1. /\ Shift(bit) /\ bit \in BOOLEAN /\ UNCHANGED <<currentcolnum, power, shown, lit>>
        /\ step \in 1 .. ChainLength /\ ~(step <= LedBits)
    BY <1>6, Dimensions DEF ShiftSelect
  <2>2. Shifted'
    BY <1>0, <2>1, ShiftFrame DEF FrameInv
  <2> QED
    BY <1>3, <2>1, <2>2
<1>7. CASE PowerOn
  <2>1. step' = 0 /\ 1 .. step' - 1 = {}
    BY <1>7 DEF PowerOn
  <2> QED
    BY <1>0, <1>7, <2>1, FrameComplete DEF FrameInv, Dark, Shifted
<1> QED
  BY <1>1, <1>2, <1>4, <1>5, <1>6, <1>7 DEF Next, setRGB, vars, SampleKey, Fade

\* For every matrix: whenever the backlight is on, the chain holds exactly the
\* selection and the bits of the column shifted out last.
THEOREM FrameIsWhole == Spec => []LitFrame
<1>1. FrameInv => LitFrame
  BY DEF FrameInv
<1>2. IInv => OwedIsSum
  BY DEF IInv
<1> QED
  BY InitInvariant, StepInvariant, FrameInit, FrameStep, <1>1, <1>2, PTL DEF Spec
=============================================================================
