------------------------------ MODULE Amounts ------------------------------
(***************************************************************************)
(* Amounts of money between the number of base units a transaction holds   *)
(* and the text of a field: currency units (coinparams.cpp), the validator *)
(* that filters what is typed (currencyvalidator.cpp), the conversion back *)
(* (numberformats.cpp), the amount of a payment URL (paymentrequest.cpp),  *)
(* the fields of CreateTxDialog that use them, and the unit in the saved   *)
(* settings (mainwindow.cpp), which the next start of the program uses.    *)
(*                                                                         *)
(* A text is a sequence of characters: the digits 0..Base-1, Point, and    *)
(* Other for everything else.  Base is 10 and Word 2^64 in the code.       *)
(* Amounts are below 2^53, so dividing them as doubles is exact enough for *)
(* the digits that are written.                                            *)
(*                                                                         *)
(* A definition placed just before the one it resembles and used nowhere   *)
(* is a mutant of it.                                                      *)
(***************************************************************************)
EXTENDS Integers, Sequences, SequencesExt, FiniteSetsExt

CONSTANTS
    Base,
    Word,               \* integers wrap at this value
    currency_decimals,  \* CoinParams: the divisor is Base^currency_decimals,
    currency_max,       \* and there are at most so many whole coins
    Milli,              \* the number of digits between two units, 3
    Significant,        \* the digits TxOutLayout::setValue writes, 8
    Fees,               \* values of default_fee
    UrlAmounts,         \* mantissas of URL amounts
    MaxText             \* the length of the texts that are typed

Point == 0 - 1
Other == 0 - 2
Digit == 0..(Base - 1)

Pow[n \in Nat] == IF n = 0 THEN 1 ELSE Base * Pow[n - 1]

ASSUME AmountsAssumption ==
    /\ Base \in Nat \ {0, 1} /\ Milli \in Nat \ {0} /\ Significant \in Nat \ {0}
    /\ currency_decimals >= 2 * Milli
    /\ currency_max * Pow[currency_decimals] < Word
    /\ \A fee \in Fees : fee \in 0..(currency_max * Pow[currency_decimals])

VARIABLES
    unitPrefix, \* the unit in use: 0, 1 and 2 for "", "m" and "u"
    currencyUnitPrefix, \* MainWindow's copy of it
    settings,   \* the unit that is saved
    dialog,     \* CreateTxDialog is up
    text,       \* the field's text
    amount      \* what the text stands for, in base units; -1 if not a number

unitVars == <<unitPrefix, currencyUnitPrefix, settings>>
vars == <<unitVars, dialog, text, amount>>

-----------------------------------------------------------------------------
(* coinparams.cpp.                                                          *)

(* setCurrencyUnitPrefix.  The third unit needs a divisor that has it; a    *)
(* maximum that has wrapped and is less than in coins is the largest word.  *)
currencyDecimals == currency_decimals - Milli * unitPrefix
currencyDivisor  == Pow[currencyDecimals]
currencyMax      ==
    LET m == (currency_max * Pow[Milli * unitPrefix]) % Word
    IN  IF m < currency_max THEN Word - 1 ELSE m

DigitsOf(n, count) == [i \in 1..count |-> (n \div Pow[count - i]) % Base]
Width(n)           == CHOOSE k \in 1..(n + 1) : n < Pow[k] /\ (k > 1 => n >= Pow[k - 1])

(* QString::number(value/(1.0 * currencyDivisor), 'f', currencyDecimals) *)
Fixed(value) ==
    LET whole == value \div currencyDivisor
        frac  == value % currencyDivisor
    IN  DigitsOf(whole, Width(whole))
        \o (IF currencyDecimals = 0 THEN <<>>
            ELSE <<Point>> \o DigitsOf(frac, currencyDecimals))

(* getFormattedCurrencyAmount with HIDE_TRAILING_DECIMALS. *)
FormatStripsWhole(value) ==
    LET s == Fixed(value)
        n == Max({0} \union {i \in 1..Len(s) : s[i] # 0})
    IN  SubSeq(s, 1, IF n > 0 /\ s[n] = Point THEN n - 1 ELSE n)

getFormattedCurrencyAmount(value) ==
    LET s == Fixed(value)
        n == Max({0} \union {i \in 1..Len(s) : s[i] # 0})
    IN  IF currencyDecimals = 0 THEN s
        ELSE SubSeq(s, 1, IF n > 0 /\ s[n] = Point THEN n - 1 ELSE n)

-----------------------------------------------------------------------------
(* CurrencyValidator::validate, one character and then all of them.         *)

ValidateChar(s, c) ==
    IF s.bWhole
    THEN IF c = Point THEN [s EXCEPT !.bWhole = FALSE, !.bFirst = FALSE]
         ELSE LET whole == (s.whole * Base + c) % Word IN
              [s EXCEPT !.whole = whole, !.bFirst = FALSE,
                        !.valid = @ /\ c \in Digit /\ (s.whole > 0 \/ s.bFirst)
                                  /\ whole <= currencyMax]
    ELSE [s EXCEPT !.decimals = @ + 1, !.bFirst = FALSE,
                   !.valid = @ /\ s.decimals < currencyDecimals
                             /\ (c = 0 \/ (c \in Digit /\ s.whole < currencyMax))]

(* An empty text is Intermediate: it can be left in the field. *)
Acceptable(t) ==
    FoldLeft(ValidateChar, [whole |-> 0, decimals |-> 0, bFirst |-> TRUE,
                            bWhole |-> TRUE, valid |-> TRUE], t).valid

-----------------------------------------------------------------------------
(* decimalStringToInteger: -1 is its exception.                             *)

ParseChar(s, c, maxAmount, maxDecimals) ==
    IF s.stateWhole
    THEN IF c = Point THEN [s EXCEPT !.stateWhole = FALSE]
         ELSE [s EXCEPT !.whole = (@ * Base + c) % Word,
                        !.ok = @ /\ s.whole <= maxAmount /\ c \in Digit]
    ELSE [s EXCEPT !.decimals = @ + 1, !.frac = (@ * Base + c) % Word,
                   !.ok = @ /\ s.decimals < maxDecimals /\ c \in Digit]

decimalStringToInteger(t, maxAmount, divisor, maxDecimals) ==
    LET s == FoldLeft(LAMBDA r, c : ParseChar(r, c, maxAmount, maxDecimals),
                      [whole |-> 0, frac |-> 0, decimals |-> 0, stateWhole |-> TRUE,
                       ok |-> TRUE], t)
        frac  == s.frac * Pow[maxDecimals - s.decimals]
        value == (s.whole * divisor + frac) % Word
    IN  IF s.ok /\ value <= (maxAmount * divisor) % Word THEN value ELSE 0 - 1

(* TxOutLayout::getValue and CreateTxDialog::getFeeValue. *)
getValue == decimalStringToInteger(text, currencyMax, currencyDivisor, currencyDecimals)

(* PaymentRequest::parseAmount: the largest word is the limit, and an       *)
(* exponent below the number of decimals multiplies the divisor.            *)
parseAmount(mantissa, exponent) ==
    decimalStringToInteger(mantissa, Word - 1,
        (Pow[currency_decimals] * Pow[currency_decimals - exponent]) % Word,
        currency_decimals)

-----------------------------------------------------------------------------
(* What a text says, read as a number in the unit: the reference.           *)

SaysNumber(t) ==
    /\ \A i \in 1..Len(t) : t[i] \in Digit \union {Point}
    /\ \A i, j \in 1..Len(t) : t[i] = Point /\ t[j] = Point => i = j
    /\ \A i \in 1..Len(t) : t[i] = Point => Len(t) - i <= currencyDecimals

Says(t) ==
    IF ~SaysNumber(t) THEN 0 - 1
    ELSE LET digits == {i \in 1..Len(t) : t[i] # Point}
             points == {i \in 1..Len(t) : t[i] = Point}
             end    == IF points = {} THEN Len(t) + 1 ELSE Min(points)
             weight(i) == IF i < end THEN Pow[currencyDecimals + end - 1 - i]
                          ELSE Pow[currencyDecimals - (i - end)]
         IN  MapThenSumSet(LAMBDA i : t[i] * weight(i), digits)

-----------------------------------------------------------------------------
(* The program writes `value` into a field whose text becomes t: the text   *)
(* stands for what the program meant by it.                                 *)
OpenWith(t, value) == dialog' = TRUE /\ text' = t /\ amount' = value

(* The units that the divisor has. *)
getValidCurrencyPrefixes ==
    {p \in 0..2 : Pow[currency_decimals] >= Pow[Milli * p]}

SaveSettings(p) == settings' = p

(* MainWindow::selectCurrencyUnit; the dialog keeps the unit it started in. *)
SelectCurrencyUnit(p) ==
    /\ ~dialog /\ p # currencyUnitPrefix
    /\ currencyUnitPrefix' = p
    /\ SaveSettings(p)
    /\ unitPrefix' = p
    /\ UNCHANGED <<dialog, text, amount>>

(* clearSettings, by a command, also while the dialog is up.  The unit is   *)
(* saved below what is cleared, so that it depends on the platform whether  *)
(* it goes, too.  loadSettings reads it again; the unit in use stays.       *)
ClearSettings(unitToo) ==
    /\ settings' = IF unitToo THEN 0 ELSE settings
    /\ currencyUnitPrefix' = settings'
    /\ UNCHANGED <<unitPrefix, dialog, text, amount>>

(* processCommand: the command saves or clears the settings. *)
ProcessCommand ==
    \/ \E unitToo \in BOOLEAN : ClearSettings(unitToo)
    \/ SaveSettings(currencyUnitPrefix)
       /\ UNCHANGED <<unitPrefix, currencyUnitPrefix, dialog, text, amount>>

(* The program is started again: main sets the unit, loadSettings the copy. *)
LoadSettings ==
    /\ ~dialog
    /\ unitPrefix' = settings /\ currencyUnitPrefix' = settings
    /\ UNCHANGED <<settings, dialog, text, amount>>

(* The fee field of a new CreateTxDialog. *)
CreateTx(fee) ==
    /\ ~dialog
    /\ OpenWith(getFormattedCurrencyAmount(fee), fee)
    /\ UNCHANGED unitVars

(* TxOutLayout::setValue: QString::number(..., 'g', 8) keeps the first      *)
(* digits only, and writes an exponent when the number is small or large.   *)
Rounded(value) ==
    LET w == Width(value)
        p == Pow[w - Significant]
    IN  IF w <= Significant THEN value ELSE ((value + p \div 2) \div p) * p

setValue(value) ==
    IF \/ value > 0 /\ value * Pow[4] < currencyDivisor
       \/ Width(value \div currencyDivisor) > Significant
    THEN <<1, Other>> ELSE getFormattedCurrencyAmount(Rounded(value))

(* The amount field of a dialog that processUrl opens. *)
ProcessUrl(mantissa, exponent) ==
    /\ ~dialog
    /\ LET value == parseAmount(mantissa, exponent) IN
       value >= 0 /\ OpenWith(setValue(value), Says(setValue(value)))
    /\ UNCHANGED unitVars

(* A character is typed at a place or removed from one; QLineEdit takes the *)
(* new text unless the validator says it is Invalid.                        *)
Edit(t) ==
    /\ dialog
    /\ Acceptable(t)
    /\ text' = t /\ amount' = Says(t)
    /\ UNCHANGED <<unitVars, dialog>>

Type(i, c) == Len(text) < MaxText /\ Edit(InsertAt(text, i, c))
Erase(i)   == Edit(RemoveAt(text, i))

CloseDialog ==
    /\ dialog
    /\ dialog' = FALSE /\ text' = <<>> /\ amount' = 0
    /\ UNCHANGED unitVars

Init ==
    /\ unitPrefix = 0 /\ currencyUnitPrefix = 0 /\ settings = 0
    /\ dialog = FALSE /\ text = <<>> /\ amount = 0

Next ==
    \/ \E p \in getValidCurrencyPrefixes : SelectCurrencyUnit(p)
    \/ ProcessCommand \/ LoadSettings
    \/ \E fee \in Fees : CreateTx(fee)
    \/ \E m \in UrlAmounts, e \in 0..currency_decimals : ProcessUrl(m, e)
    \/ \E i \in 1..(Len(text) + 1), c \in Digit \union {Point, Other} : Type(i, c)
    \/ \E i \in 1..Len(text) : Erase(i)
    \/ CloseDialog

Spec == Init /\ [][Next]_vars

(* Whatever unit is selected and however the text came to be in the field   *)
(* (a fee the program formatted, a URL, or typing that the validator let    *)
(* through), the amount that is paid is the one the text stands for or the  *)
(* conversion throws, and it does not throw for what the validator accepts. *)
AmountShownIsPaid ==
    /\ getValue \in {amount, 0 - 1}
    /\ Acceptable(text) => getValue = amount

=============================================================================
