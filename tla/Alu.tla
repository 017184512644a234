-------------------------------- MODULE Alu --------------------------------
(***************************************************************************)
(* alu of hw_elts.c on words of WIDTH bits, whose I-format chunks (16 bits *)
(* of a 64-bit register in the code) have CHUNK bits.  Shift amounts are   *)
(* taken modulo the width, as "& 0x3F" takes them modulo 64.               *)
(***************************************************************************)
EXTENDS Bits, FiniteSets

CONSTANTS WIDTH, CHUNK

Words == 0..(pow2[WIDTH] - 1)
BitPos == 0..(WIDTH - 1)

bit(x, i) == (x \div pow2[i]) % 2
msb(x) == bit(x, WIDTH - 1)

\* The word whose i-th bit is set when b[i].
WordOf(b) ==
    CHOOSE x \in Words : \A i \in BitPos : bit(x, i) = (IF b[i] THEN 1 ELSE 0)

BitNot(x)    == pow2[WIDTH] - 1 - x
BitAnd(x, y) == WordOf([i \in BitPos |-> bit(x, i) = 1 /\ bit(y, i) = 1])
BitOr(x, y)  == WordOf([i \in BitPos |-> bit(x, i) = 1 \/ bit(y, i) = 1])
\* Mutant: | for ^.
BitXor_or(x, y) == BitOr(x, y)

BitXor(x, y) == WordOf([i \in BitPos |-> bit(x, i) # bit(y, i)])
ShiftLeft(x, k)  == (x * pow2[k]) % pow2[WIDTH]
ShiftRight(x, k) == x \div pow2[k]

\* hw << 4: the chunk's bit position.
HwShift(hw) == hw * CHUNK

\* 0xFEEDFACEDEADBEEF, the result of every operation the switch leaves out.
Feedface == 15 % pow2[WIDTH]

AluResult(op, a, b, hw) ==
    CASE op = "PLUS"   -> (a + ShiftLeft(b, HwShift(hw))) % pow2[WIDTH]
      [] op = "MINUS"  -> (a - ShiftLeft(b, HwShift(hw))) % pow2[WIDTH]
      [] op = "INV"    -> BitOr(a, BitNot(b))
      [] op = "OR"     -> BitOr(a, b)
      [] op = "EOR"    -> BitXor(a, b)
      [] op = "AND"    -> BitAnd(a, b)
      [] op = "MOV"    -> BitOr(a, ShiftLeft(b, HwShift(hw)))
      [] op = "LSL"    -> ShiftLeft(a, b % WIDTH)
      [] op = "LSR"    -> ShiftRight(a, b % WIDTH)
      [] op = "ASR"    -> ShiftRight(a, b % WIDTH)
      [] op = "PASS_A" -> a
      [] OTHER         -> Feedface

\* Mutants: a subtraction of equals borrows; V of an addition without the
\* test that the operands have the same sign.
AluCC_borrow(op, a, b, res) ==
    [n |-> msb(res), z |-> IF res = 0 THEN 1 ELSE 0,
     c |-> IF op = "MINUS" /\ a > b THEN 1 ELSE 0, v |-> 0]
AluCC_sign(op, a, b, res) ==
    [n |-> msb(res), z |-> IF res = 0 THEN 1 ELSE 0,
     c |-> IF op = "PLUS" /\ (res < a \/ res < b) THEN 1 ELSE 0,
     v |-> IF op = "PLUS" /\ msb(res) # msb(a) THEN 1 ELSE 0]

\* c and v are computed only by PLUS and MINUS.
AluCC(op, a, b, res) ==
    LET carry == CASE op = "PLUS"  -> res < a \/ res < b
                   [] op = "MINUS" -> a >= b
                   [] OTHER -> FALSE
        overflow == CASE op = "PLUS"  -> msb(a) = msb(b) /\ msb(res) # msb(a)
                      [] op = "MINUS" -> msb(a) # msb(b) /\ msb(res) = msb(a)
                      [] OTHER -> FALSE
    IN [n |-> msb(res),
        z |-> IF res = 0 THEN 1 ELSE 0,
        c |-> IF carry THEN 1 ELSE 0,
        v |-> IF overflow THEN 1 ELSE 0]

AluOut(op, a, b, hw) ==
    LET res == AluResult(op, a, b, hw)
    IN [val_e |-> res, cc |-> AluCC(op, a, b, res)]

\* Mutant: the mask is not shifted.
ClearChunk_low(a, hw) == BitAnd(a, BitNot(pow2[CHUNK] - 1))

\* MOVK: val_a & ~(0xFFFF << hw).
ClearChunk(a, hw) ==
    BitAnd(a, BitNot(ShiftLeft(pow2[CHUNK] - 1, HwShift(hw))))
=============================================================================
