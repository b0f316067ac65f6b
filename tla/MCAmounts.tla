----------------------------- MODULE MCAmounts -----------------------------
(***************************************************************************)
(* Amounts for a coin with two decimals, units one digit apart and at most *)
(* 21 coins: the shape of bitcoin's eight decimals, three digits and       *)
(* 21,000,000.  The URL amounts reach the wrap of the word.                *)
(***************************************************************************)
EXTENDS Amounts

MCFees == {0, 1, 5, 10, 100, 120, 999, 1000, 2000, 2050, 2100}

MCUrlAmounts ==
    {<<0>>, <<1>>, <<2, 1>>, <<9, 9, 9>>, <<1, 0, 0, 0>>, <<Point, 0, 1>>, <<1, Point, 5>>,
     <<1, 2, Point, 3, 4>>, <<2, 0, Point, 9, 9>>, <<6, 5, 5, 3, 7>>, <<1, Other>>,
     <<1, Point, 2, 3, 4>>}

=============================================================================
