---------------------------- MODULE AddressSpace ----------------------------
(***************************************************************************)
(* Byte addresses and the data of accesses.  A word is the sequence of its *)
(* bytes, the least significant first.                                     *)
(***************************************************************************)
EXTENDS Integers, Sequences

CONSTANTS
    AddrSpace,   \* number of byte addresses, 2^64
    Bytes,       \* values of a byte
    Widths       \* widths of an access, in bytes

ASSUME SpaceAssumption ==
    /\ AddrSpace \in Nat \ {0}
    /\ Bytes \subseteq Nat /\ 0 \in Bytes
    /\ Widths \subseteq 1..AddrSpace

Addr == 0..(AddrSpace - 1)
Data == UNION {[1..w -> Bytes] : w \in Widths}

\* addr + n in 64-bit arithmetic, and the n for which it gives x.
Plus(addr, n) == IF addr + n < AddrSpace THEN addr + n ELSE addr + n - AddrSpace
Offset(addr, x) == IF x >= addr THEN x - addr ELSE x - addr + AddrSpace

\* The access a caller has under way.
Reads  == [kind : {"read"}, addr : Addr, width : Widths]
Writes == [kind : {"write"}, addr : Addr, data : Data]
Idle   == [kind |-> "idle"]

\* Memory m once the bytes of d from the one at index from on are at addr.
Overlay(m, addr, from, d) ==
    [x \in Addr |-> IF Offset(addr, x) \in from..(Len(d) - 1)
                    THEN d[Offset(addr, x) + 1] ELSE m[x]]
=============================================================================
