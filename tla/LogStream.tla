----------------------------- MODULE LogStream ------------------------------
(***************************************************************************)
(* How values become characters, LogStream.cpp, and the fixed buffer they  *)
(* are put into, LogStream.h.  A piece of a line is its length and what it *)
(* stands for; the characters are spelled out where a conversion could get *)
(* them wrong.                                                             *)
(***************************************************************************)
EXTENDS Calendar, Sequences, SequencesExt, FiniteSetsExt

CONSTANTS SIZE,             \* of the buffer, kSmallBuffer in the code
          kMaxNumericSize   \* what a number is given at most

ASSUME SizeAssumption == SIZE \in Nat /\ kMaxNumericSize \in Nat \ {0}

\* zero[lsd]: the table is a mirror, so that the negative remainders of a
\* negative number find their digits as well.
Digit(i) == LET lsd == CRem(i, 10) IN IF lsd < 0 THEN -lsd ELSE lsd

DigitsOf(value) ==
  LET of[i \in Int] == Append(IF CDiv(i, 10) = 0 THEN <<>> ELSE of[CDiv(i, 10)], Digit(i))
  IN  of[value]

convert(value) == [negative |-> value < 0, digits |-> DigitsOf(value)]

convertHex(value) ==
  LET of[i \in Nat] == Append(IF i \div 16 = 0 THEN <<>> ELSE of[i \div 16], i % 16)
  IN  of[value]

(***************************************************************************)
(* formatSI and formatIEC are one ladder, with a base and a last rung.  A  *)
(* number of 64 bits is the sequence of its seven digits to the base 1000  *)
(* or 1024, lowest first; unit k is base^k.                                *)
(***************************************************************************)
Less(m, n) == \E i \in DOMAIN n : m[i] < n[i] /\ \A j \in i + 1 .. Len(n) : m[j] = n[j]

Normalised(n, base) ==
  LET carry[i \in DOMAIN n] == IF i = 1 THEN 0 ELSE (n[i - 1] + carry[i - 1]) \div base
  IN  [i \in DOMAIN n |-> (n[i] + carry[i]) % base]

TwoTo53(base) == IF base = 1000 THEN <<992, 740, 254, 199, 7, 9, 0>> ELSE <<0, 0, 0, 0, 0, 8, 0>>
Multiple(m, n, base) == Normalised([i \in DOMAIN n |-> m * n[i]], base)

\* static_cast<double>: the nearest number of 53 bits, in the middle the even
\* one.  Two steps from one even number to the next are looked at.
toDouble(n, base) ==
  LET step == Min({m \in {2 ^ j : j \in 0 .. 10} : Less(n, Multiple(m, TwoTo53(base), base))})
      rest[i \in 1 .. Len(n) + 1] ==
        IF i > Len(n) THEN 0 ELSE (n[i] + base * rest[i + 1]) % (2 * step)
      r  == rest[1]
      to == CASE 2 * r <= step -> 0 [] 2 * r >= 3 * step -> 2 * step [] OTHER -> step
  IN  Normalised([n EXCEPT ![1] = @ + to - r], base)

\* A number in thousandths of unit k, rounded down, and whether there is a rest.
Fraction(n, k, base) ==
  LET of[i \in 0 .. k] == IF i = 0 THEN 0 ELSE (1000 * n[i] + of[i - 1]) \div base
  IN  of[k]
HasRest(n, k, base) == \E i \in 1 .. k : (1000 * n[i] + Fraction(n, i - 1, base)) % base # 0

\* Saturated as soon as the number is beyond the unit's last rung.
Thousandths(n, k, base) ==
  LET more == \E i \in k + 2 .. Len(n) : n[i] > 0
  IN  1000 * (n[k + 1] + (IF more THEN base ELSE 0)) + Fraction(n, k, base)

\* The limits 9.995, 99.95 and 999.5 (1023.5) are whole numbers of thousandths.
LastUnit == 6
Unit(n, base, last) ==
  Min({k \in 1 .. LastUnit - 1 : Thousandths(n, k, base) < last} \cup {LastUnit})

Decimals(thousandths) ==
  CASE thousandths < 9995 -> 2 [] thousandths < 99950 -> 1 [] OTHER -> 0

\* %.2f, %.1f, %.0f of the quotient, a double: what should lie exactly in the
\* middle lies beside it by the 53rd bit, or is there and goes to the even digit.
MiddleGoesUp(thousandths, low) ==
  LET power[i \in 0 .. 52] == IF i = 0 THEN 1 ELSE (2 * power[i - 1]) % 1000
      exponent == Max({i \in 0 .. 9 : 1000 * 2 ^ i <= thousandths})
      lost     == (thousandths * power[52 - exponent]) % 1000
  IN  IF lost = 0 THEN low % 2 = 1 ELSE lost > 500

Rounded(thousandths, rest, decimals) ==
  LET unit == 10 ^ (3 - decimals)
      low  == thousandths \div unit
      more == 2 * (thousandths % unit)
  IN  IF more > unit \/ (more = unit /\ (rest \/ MiddleGoesUp(thousandths, low))) THEN low + 1 ELSE low

Printed(n, base, k, decimals) ==
  [mantissa |-> Rounded(Thousandths(n, k, base), HasRest(n, k, base), decimals),
   decimals |-> decimals, unit |-> k]

IsSmall(n) == \A i \in 2 .. Len(n) : n[i] = 0
Unscaled(n) == [mantissa |-> n[1], decimals |-> 0, unit |-> 0]

\* The limits are compared with the integer, the double is printed.
formatSI(n) ==
  LET k == Unit(n, 1000, 999500)
  IN  IF IsSmall(n) THEN Unscaled(n)
      ELSE Printed(toDouble(n, 1000), 1000, k, Decimals(Thousandths(n, k, 1000)))

\* The limits are doubles, too.  That for 9.995 is less by 2^-50 or so, which is
\* a whole number of bytes if the unit is Pi.
kLimitPi == <<122, 901, 122, 901, 1018, 9, 0>>

formatIEC(n) ==
  LET d == toDouble(n, 1024)
      k == Unit(d, 1024, 1023500)
  IN  IF IsSmall(n) THEN Unscaled(n)
      ELSE Printed(d, 1024, k, IF d = kLimitPi THEN 1 ELSE Decimals(Thousandths(d, k, 1024)))

----------------------------------------------------------------------------
\* The buffer: how much of it is used, and the pieces in it.

EmptyBuffer == [length |-> 0, text |-> <<>>]

avail(buffer) == SIZE - buffer.length

add(buffer, piece) ==
  [length |-> buffer.length + piece.len, text |-> Append(buffer.text, piece.what)]

appendFull(buffer, piece) == IF avail(buffer) >= piece.len THEN add(buffer, piece) ELSE buffer
append(buffer, piece) == IF avail(buffer) > piece.len THEN add(buffer, piece) ELSE buffer

\* Integers, pointers and floating point numbers are written in place if
\* there is room for the longest of them.
formatInteger(buffer, piece) ==
  IF avail(buffer) >= kMaxNumericSize THEN add(buffer, piece) ELSE buffer

Text(what, len)   == [what |-> what, len |-> len, numeric |-> FALSE]
Number(what, len) == [what |-> what, len |-> len, numeric |-> TRUE]

Put(buffer, piece) ==
  IF piece.numeric THEN formatInteger(buffer, piece) ELSE append(buffer, piece)

PutAll(buffer, pieces) == FoldLeft(Put, buffer, pieces)
=============================================================================
