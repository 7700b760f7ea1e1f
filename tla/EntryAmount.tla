---------------------------- MODULE EntryAmount ----------------------------
(* The amount of an entry: the keypad and the chips of RecordEntryScreen,   *)
(* the text it shows (formatComposingPoisha of ui/formatDigits.ts), and the *)
(* text of the same amount everywhere else (toDisplayTaka of money.ts, and  *)
(* money of i18n/formatter.ts).  What Confirm does is in CoreFlow.          *)
(*                                                                          *)
(* A text is a sequence of digits and of the signs below; which numerals    *)
(* write a digit is left out.                                               *)
EXTENDS Integers, Sequences, SequencesExt

CONSTANTS
    Keys,           \* the digits pressed
    Chips,          \* QUICK_CHIPS_TAKA, in poisha
    Balances,       \* what a payment may be filled in with
    MaxPoishaDigits,
    MaxChips,       \* bound: chips tapped
    NaN,
    Minus, Comma, Point, Letter

ASSUME AmountAssumption ==
    Keys \subseteq 0..9 /\ Chips \subseteq Nat /\ Balances \subseteq Int
    /\ {MaxPoishaDigits, MaxChips} \subseteq Nat

VARIABLES
    amount,     \* amountPoisha
    filledIn,   \* initialAmountPoisha
    chips       \* chips tapped (history)

amountVars == <<amount, filledIn, chips>>

----------------------------------------------------------------------------
(* String and Number of JavaScript.                                         *)

Magnitude(a) == IF a < 0 THEN -a ELSE a

DigitsOf[n \in Nat] == IF n < 10 THEN <<n>> ELSE Append(DigitsOf[n \div 10], n % 10)

Sign(a) == IF a < 0 THEN <<Minus>> ELSE <<>>

String(a) ==
    IF a = NaN THEN <<Letter, Letter, Letter>> ELSE Sign(a) \o DigitsOf[Magnitude(a)]

IsDigit(char) == char \in 0..9

Number(text) ==
    LET digits == SelectSeq(text, IsDigit)
        value == FoldLeft(LAMBDA v, d : 10 * v + d, 0, digits)
    IN  IF digits = <<>> \/ Letter \in Range(text) THEN NaN
        ELSE IF text[1] = Minus THEN -value ELSE value

----------------------------------------------------------------------------
(* formatDigits.ts, formatter.ts                                            *)

\* The last three digits, and pairs before them.
GroupIndian(digits) ==
    LET n == Len(digits)
        char(i) == IF i < n - 1 /\ (n - i) % 2 = 1 THEN <<digits[i], Comma>> ELSE <<digits[i]>>
    IN  FlattenSeq([i \in 1..n |-> char(i)])

IsNegative(text) == text[1] = Minus
Unsigned(text) == IF IsNegative(text) THEN Tail(text) ELSE text
Signed(text, unsigned) == IF IsNegative(text) THEN <<Minus>> \o unsigned ELSE unsigned

PadStart(text) == [i \in 1..(3 - Len(text)) |-> 0] \o text

\* Mutant of FormatComposingPoisha: as it was, the sign padded along.
ComposingSignPadded(a) ==
    LET digits == PadStart(String(a))
        n == Len(digits)
    IN  GroupIndian(SubSeq(digits, 1, n - 2)) \o <<Point>> \o SubSeq(digits, n - 1, n)

\* The last two digits are the fraction.
FormatComposingPoisha(a) ==
    LET raw == String(a)
        digits == PadStart(Unsigned(raw))
        n == Len(digits)
    IN  Signed(raw, GroupIndian(SubSeq(digits, 1, n - 2)) \o <<Point>> \o SubSeq(digits, n - 1, n))

ToDisplayTaka(a) ==
    LET m == Magnitude(a)
    IN  Sign(a) \o DigitsOf[m \div 100] \o <<Point, (m \div 10) % 10, m % 10>>

\* No fraction for whole amounts.
FormatPoisha(a) ==
    LET raw == ToDisplayTaka(a)
        unsigned == Unsigned(raw)
        n == Len(unsigned)
        grouped == GroupIndian(SubSeq(unsigned, 1, n - 3))
        fraction == SubSeq(unsigned, n - 1, n)
    IN  Signed(raw, IF fraction = <<0, 0>> THEN grouped ELSE grouped \o <<Point>> \o fraction)

----------------------------------------------------------------------------
(* The keys.                                                                *)

\* A credit starts from nothing, a payment from the balance.
AmountInit ==
    /\ filledIn \in {0} \cup Balances
    /\ amount = filledIn /\ chips = 0

\* Nothing happens when the text would be too long.
Appended(a, key) ==
    LET next == Append(String(a), key)
    IN  IF Len(next) > MaxPoishaDigits THEN a ELSE Number(next)

Erased(a) ==
    LET next == Front(String(a))
    IN  IF next = <<>> THEN 0 ELSE Number(next)

PressDigit ==
    /\ \E key \in Keys : amount' = Appended(amount, key)
    /\ UNCHANGED <<filledIn, chips>>

Backspace == amount' = Erased(amount) /\ UNCHANGED <<filledIn, chips>>

\* addChip; no limit here.
AddChip ==
    /\ chips < MaxChips /\ chips' = chips + 1
    /\ \E chip \in Chips : amount' = IF amount = NaN THEN NaN ELSE amount + chip
    /\ UNCHANGED filledIn

AmountNext == PressDigit \/ Backspace \/ AddChip

AmountSpec == AmountInit /\ [][AmountNext]_amountVars

----------------------------------------------------------------------------
\* The commas stand before the last three digits and before every two further.
WellGrouped(whole) ==
    \A i \in DOMAIN whole :
        LET right == Len(whole) - i
        IN  whole[i] = Comma <=> i > 1 /\ right >= 3 /\ right % 3 = 0

\* formatDigits.ts, RecordEntryScreen.tsx: the text on the keypad screen is the
\* amount that Confirm hands over, sign and grouping included, and the one the
\* other screens show of it afterwards, but for a fraction of nothing; Backspace
\* takes back the last digit; and below zero, or beyond the digits there is room
\* for, or off the numbers, are only those who started below zero or used chips.
TextIsAmount ==
    IF amount = NaN THEN filledIn < 0
    ELSE LET text == FormatComposingPoisha(amount)
             n == Len(Unsigned(text))
             whole == SubSeq(Unsigned(text), 1, n - 3)
         IN  /\ Number(text) = amount
             /\ WellGrouped(whole)
             /\ FormatPoisha(amount) = (IF amount % 100 = 0 THEN SubSeq(text, 1, Len(text) - 3)
                                        ELSE text)
             /\ \A key \in Keys :
                    Appended(amount, key) # amount => Erased(Appended(amount, key)) = amount
             /\ amount < 0 => filledIn < 0
             /\ Len(String(amount)) <= MaxPoishaDigits \/ chips > 0

\* RecordEntryScreen.tsx: "The composing amount here is held as an integer poisha
\* value the whole time".
AmountIsInteger == amount # NaN
=============================================================================
