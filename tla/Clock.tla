------------------------------- MODULE Clock -------------------------------
(***************************************************************************)
(* The conversions of clock/clock.c: the registers of the real-time clock  *)
(* hold two decimal digits in a byte, and the time is printed in decimal.  *)
(***************************************************************************)
EXTENDS Integers, Sequences

Bytes == 0 .. 255

\* Mutation: the byte is taken as a number.
ConvertNothing(bcd) == bcd

convert_to_num(bcd) == ((bcd \div 16) * 10 + (bcd % 16)) % 256

\* The digits of a number, the highest first.
itoa(num) ==
    LET digits[n \in 0 .. num] ==
          IF n < 10 THEN <<n>> ELSE Append(digits[n \div 10], n % 10)
    IN  digits[num]
=============================================================================
