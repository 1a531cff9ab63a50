------------------------------ MODULE MCDialects ------------------------------
(* An instance of Dialects for TLC: routes of every order of languages, numbers *)
(* on both sides of every bound.                                               *)
EXTENDS Dialects

MCRoutes == (Langs \X Langs) \cup (Langs \X Langs \X Langs)

\* A double of three bits.
MCSpacing ==
  LET spacing[a \in 0 .. MaxDouble] == IF a <= MaxExact THEN 1 ELSE 2 * spacing[(a + 1) \div 2]
  IN  spacing

MCNumbers ==
  {-(MaxDigits + 1), -MaxDigits, -(MaxDouble + 1), -(MaxPlain + 2), -(Max64 + 2), -(Max64 + 1),
   -(MaxExact + 1), -(Max32 + 1), 0, Max32 - 1, Max32, Max32 + 1, MaxExact, MaxExact + 1,
   Max64 - 1, Max64, Max64 + 1, Max64 + 4, MaxPlain - 1, MaxPlain, MaxPlain + 3, MaxDouble,
   MaxDouble + 1, MaxDigits - 1, MaxDigits}
=============================================================================
