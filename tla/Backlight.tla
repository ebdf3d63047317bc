------------------------------ MODULE Backlight ------------------------------
(***************************************************************************)
(* setRGB of inc/backlight.h, called by TMR0_IRQHandler once a             *)
(* millisecond: each call shifts one column's LEDs into the register chain *)
(* bit by bit and lights that column.  Every LED's brightness is added to  *)
(* an 8 bit sum, and the LED is on in the refreshes in which it overflows. *)
(*                                                                         *)
(* A step is one bit shifted, for shift_one_bit shows every intermediate   *)
(* content of the chain on the outputs.  A bit is TRUE when it lights its  *)
(* LED or selects its column (the data line is low).  An LED is            *)
(* <<column, color, row>>, colors counted in the order of the loops:       *)
(* green, blue, red.                                                       *)
(***************************************************************************)
EXTENDS Integers

CONSTANTS
    NumCols, NumRows,   \* dimensions of the matrix, 8 and 9
    Full                \* values of a brightness, 256

ASSUME MatrixAssumption == NumCols \in Nat \ {0, 1} /\ NumRows \in Nat \ {0}
ASSUME FullAssumption == Full \in Nat \ {0}

Green == 0
Blue == 1
Red == 2
Colors == {Green, Blue, Red}
Columns == 0 .. NumCols - 1
Rows == 0 .. NumRows - 1
Leds == Columns \X Colors \X Rows

LedBits == 3 * NumRows
ChainLength == LedBits + NumCols
Chain == 1 .. ChainLength

VARIABLES
    bright,         \* green, blue and red of each cell
    temp,           \* the sums *_temp_brightness
    currentcolnum,
    step,           \* 0 between two calls, else the bit to shift next
    chain,          \* register contents, position 1 next to the data line
    power,          \* PA12, backlight enabled
    shown,          \* history: the column shifted out last, -1 before the first
    lit,            \* history: bit last shifted for each LED
    owed            \* history: brightness asked for minus light given

vars == <<bright, temp, currentcolnum, step, chain, power, shown, lit, owed>>

Init ==
    /\ bright = [led \in Leds |-> 0]
    /\ temp = [led \in Leds |-> 0]
    /\ currentcolnum = 0
    /\ step = 0
    /\ chain = [p \in Chain |-> FALSE]
    /\ power \in BOOLEAN
    /\ shown = -1
    /\ lit = [led \in Leds |-> FALSE]
    /\ owed = [led \in Leds |-> 0]

\* getPressedKeys: a pressed key shines green.
SampleKey(col, row) ==
    /\ step = 0
    /\ \E level \in {0, Full - 1} : bright' = [bright EXCEPT ![<<col, Green, row>>] = level]
    /\ UNCHANGED <<temp, currentcolnum, step, chain, power, shown, lit, owed>>

\* TMR0_IRQHandler, every 256th time: two cells change their color.
Fade ==
    /\ step = 0
    /\ bright' = [bright EXCEPT ![<<0, Red, 0>>] = (@ + 1) % Full,
                                ![<<1, Blue, 0>>] = (@ + 1) % Full]
    /\ UNCHANGED <<temp, currentcolnum, step, chain, power, shown, lit, owed>>

Shift(bit) ==
    /\ chain' = [p \in Chain |-> IF p = 1 THEN bit ELSE chain[p - 1]]
    /\ step' = step + 1

\* Mutant: the backlight stays on while the chain is shifted.
PowerOff_Missing ==
    /\ step = 0
    /\ step' = 1
    /\ UNCHANGED <<bright, temp, currentcolnum, chain, power, shown, lit, owed>>

PowerOff ==
    /\ step = 0
    /\ power' = FALSE
    /\ step' = 1
    /\ UNCHANGED <<bright, temp, currentcolnum, chain, shown, lit, owed>>

\* The LED whose bit is shifted in a step of the three loops.
LedOf(s) == <<currentcolnum, (s - 1) \div NumRows, (s - 1) % NumRows>>

\* Mutant: a sum equal to the brightness counts as wrapped around.
Wrapped_OrEqual(sum, level) == sum <= level

\* The sum has overflowed if it is below what was added.
Wrapped(sum, level) == sum < level

ShiftLed ==
    /\ step \in 1 .. LedBits /\ currentcolnum < NumCols
    /\ LET led == LedOf(step)
           sum == (temp[led] + bright[led]) % Full
           bit == Wrapped(sum, bright[led])
       IN  /\ temp' = [temp EXCEPT ![led] = sum]
           /\ lit' = [lit EXCEPT ![led] = bit]
           /\ owed' = [owed EXCEPT ![led] =
                         @ + bright[led] - (IF bit THEN Full ELSE 0)]
           /\ Shift(bit)
    /\ UNCHANGED <<bright, currentcolnum, power, shown>>

\* The column counter also takes the value 8.  The bits then come from the
\* memory behind the key data, which HidPipeline is about.
ShiftForeign ==
    /\ step \in 1 .. LedBits /\ currentcolnum = NumCols
    /\ \E bit \in BOOLEAN : Shift(bit)
    /\ UNCHANGED <<bright, temp, currentcolnum, power, shown, lit, owed>>

\* enable_column: one bit per column.
ShiftSelect ==
    /\ step \in LedBits + 1 .. ChainLength
    /\ Shift(step - LedBits - 1 = currentcolnum)
    /\ UNCHANGED <<bright, temp, currentcolnum, power, shown, lit, owed>>

\* Mutant: the counter wraps one column later still.
NextColumn_Late(col) == IF col + 1 > NumCols + 1 THEN 0 ELSE col + 1

\* Mutant: the column counter wraps too early.
NextColumn_Early(col) == IF col + 1 > NumCols - 2 THEN 0 ELSE col + 1

NextColumn(col) == IF col + 1 > NumCols THEN 0 ELSE col + 1

PowerOn ==
    /\ step = ChainLength + 1
    /\ power' = TRUE
    /\ shown' = currentcolnum
    /\ currentcolnum' = NextColumn(currentcolnum)
    /\ step' = 0
    /\ UNCHANGED <<bright, temp, chain, lit, owed>>

setRGB == PowerOff \/ ShiftLed \/ ShiftForeign \/ ShiftSelect \/ PowerOn

Next == setRGB \/ Fade \/ \E col \in Columns, row \in Rows : SampleKey(col, row)

Spec == Init /\ [][Next]_vars

\* TMR0 is periodic and its handler runs to its end.
FairSpec == Spec /\ WF_vars(setRGB)

-----------------------------------------------------------------------------
TypeOK ==
    /\ bright \in [Leds -> 0 .. Full - 1]
    /\ temp \in [Leds -> 0 .. Full - 1]
    /\ currentcolnum \in 0 .. NumCols
    /\ step \in 0 .. ChainLength + 1
    /\ chain \in [Chain -> BOOLEAN]
    /\ power \in BOOLEAN
    /\ shown \in -1 .. NumCols
    /\ lit \in [Leds -> BOOLEAN]
    /\ owed \in [Leds -> Int]

\* However brightness changes between refreshes, the light an LED has been
\* given never differs from what was asked for by as much as one refresh:
\* testing the 8 bit sum for having wrapped loses and invents no overflow.
BrightnessKept == \A led \in Leds : owed[led] \in 0 .. Full - 1

\* hardware.md:17: the chain is LED_SELECT, RED, BLUE, GREEN from the data
\* line on.  Row 0 and column 0 come to lie last in their block.
SelectBit(col) == NumCols - col
RedBit(row) == NumCols + NumRows - row
BlueBit(row) == NumCols + 2 * NumRows - row
GreenBit(row) == NumCols + 3 * NumRows - row

\* Whenever the backlight is on, exactly the column shifted out last is
\* selected, and its LEDs show their own bits, each color in its own register:
\* no intermediate content of the chain and no other column's data is visible.
LitFrame ==
    (power /\ shown # -1) =>
        /\ \A col \in Columns : chain[SelectBit(col)] <=> col = shown
        /\ shown \in Columns => \A row \in Rows :
             /\ chain[RedBit(row)] = lit[<<shown, Red, row>>]
             /\ chain[BlueBit(row)] = lit[<<shown, Blue, row>>]
             /\ chain[GreenBit(row)] = lit[<<shown, Green, row>>]

\* Every column is lit again and again.
ColumnsRefreshed == \A col \in Columns : []<>(power /\ shown = col)
=============================================================================
