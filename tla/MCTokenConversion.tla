--------------------------- MODULE MCTokenConversion ---------------------------
(* Instantiates TokenConversion for TLC: every text of up to three        *)
(* characters over two digits, a lower- and an upper-case letter digit    *)
(* and a non-digit, and every raw token of up to two bytes of ID and       *)
(* Secret over bytes whose hex has number and letter digits.               *)
EXTENDS TokenConversion

MCChars == {"0", "9", "a", "F", "g"}
MCByteSample == {0, 10, 171, 255}
=============================================================================
