-------------------------------- MODULE Bits --------------------------------
(***************************************************************************)
(* Powers of two, by their recursion, for shifts and bit fields.           *)
(***************************************************************************)
EXTENDS Integers

pow2[n \in Nat] == IF n = 0 THEN 1 ELSE 2 * pow2[n - 1]
=============================================================================
