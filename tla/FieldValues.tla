----------------------------- MODULE FieldValues -----------------------------
(***************************************************************************)
(* Values as the readers of HTTP/1 and HTTP/2 requests see them: one that  *)
(* is not of its grammar is "invalid", a Content-Length or a port is a     *)
(* sequence of decimal digits.                                             *)
(***************************************************************************)
EXTENDS Integers, Sequences, FiniteSetsExt

Invalid == "invalid"

\* int(digits)
Number(digits) ==
  LET n[i \in 1 .. Len(digits) + 1] ==
        IF i = 1 THEN 0 ELSE 10 * n[i - 1] + digits[i - 1]
  IN n[Len(digits) + 1]

\* digits.lstrip("0")
Significant(digits) ==
  LET nonzero == {i \in DOMAIN digits : digits[i] # 0}
  IN IF nonzero = {} THEN << >> ELSE SubSeq(digits, Min(nonzero), Len(digits))
=============================================================================
