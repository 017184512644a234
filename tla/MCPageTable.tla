---------------------------- MODULE MCPageTable ----------------------------
(***************************************************************************)
(* Three pages of two bytes in two hash chains: pages 0 and 2 collide, and *)
(* a two-byte access crosses a page boundary or wraps around.              *)
(***************************************************************************)
EXTENDS PageTable

MCHash(n) == n % 2
MCProt(a) == IF a < 4 THEN 5 ELSE 6
=============================================================================
