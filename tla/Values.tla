------------------------------- MODULE Values -------------------------------
(***************************************************************************)
(* What the parsers and the engines share: optional values, Python's       *)
(* truthiness of a number, clamping, rounding and table look-ups.          *)
(***************************************************************************)
EXTENDS Integers, Sequences, FiniteSets, Functions, FiniteSetsExt

CONSTANT None  \* a value the provider does not have

AtMost(hi, x)    == IF x > hi THEN hi ELSE x
AtLeast(lo, x)   == IF x < lo THEN lo ELSE x
Clamp(lo, hi, x) == AtLeast(lo, AtMost(hi, x))
Distance(x, y)   == IF x > y THEN x - y ELSE y - x

(* The integer nearest to n / d; exact halves go up (to even in Python). *)
Round(n, d) == (2 * n + d) \div (2 * d)

(* `if x`, and `x or default`, of an optional number. *)
Truthy(x)      == x # None /\ x # 0
Or(x, default) == IF Truthy(x) THEN x ELSE default

(* table.get(key, default) *)
Lookup(table, key, default) ==
  IF key \in DOMAIN table THEN table[key] ELSE default
=============================================================================
