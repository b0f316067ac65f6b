CONSTANTS
    Base = 10
    Word = 65536
    currency_decimals = 2
    currency_max = 21
    Milli = 1
    Significant = 3
    Fees <- MCFees
    UrlAmounts <- MCUrlAmounts
    MaxText = 5
SPECIFICATION Spec
INVARIANTS AmountShownIsPaid
