----------------------------- MODULE MCPipeline -----------------------------
(***************************************************************************)
(* Instances of Pipeline for TLC: 5-bit words, 2-bit I-format chunks, and  *)
(* programs put together from a small alphabet of instructions.            *)
(***************************************************************************)
EXTENDS DelayedIsa, Alu

I(op, Rd, Rn, Rm, imm) ==
    [op |-> op, Rd |-> Rd, Rn |-> Rn, Rm |-> Rm, imm |-> imm, hw |-> 0,
     cond |-> "EQ"]
Cond(c, off) == [I("B_COND", 0, 0, 0, off) EXCEPT !.cond = c]

NOP       == I("NOP", 31, 0, 0, 0)
MOVZ(d, v) == I("MOVZ", d, 0, 0, v)
ADD(d, n, v) == I("ADD_RI", d, n, 0, v)
SUBS(d, n, m) == I("SUBS_RR", d, n, m, 0)
\* Every register but SP starts at 0, so X7 + offset reaches any address.
LDUR(d, off) == I("LDUR", d, 7, 0, off)
STUR(s, off) == I("STUR", s, 7, 0, off)
B(off)  == I("B", off % 32, 0, 0, off)
BL(off) == I("BL", off % 32, 0, 0, off)
RET(n)  == I("RET", 0, n, 0, 0)
HLT     == HltWord

MCDataMem == {8, 16}
MCInitMems == {[a \in 0..31 |-> IF a = 8 THEN 9 ELSE 0]}
MCOutside == {ZeroWord, MOVZ(2, 1)}
ZeroOnly == {ZeroWord}

\* The shared beginning of the programs that need a non-zero register.
Seqs(S, n) == [1..n -> S]

CoreAlphabet ==
    {NOP, MOVZ(0, 8), ADD(1, 0, 1), SUBS(2, 0, 1), LDUR(1, 8), LDUR(0, 9),
     LDUR(1, 0), LDUR(1, 31), STUR(1, 8), STUR(1, 31), STUR(1, 23),
     B(2), Cond("NE", 2), Cond("EQ", -1), BL(2), RET(0), RET(30), HLT,
     [ZeroWord EXCEPT !.Rd = 1]}

\* Three instructions, then the return of the start function.
CorePrograms == {s \o <<RET(30)>> : s \in Seqs(CoreAlphabet, 3)}

\* Four instructions after a value is put in X1, around the delay window.
DelayAlphabet ==
    {NOP, ADD(1, 1, 1), SUBS(2, 1, 0), STUR(1, -1), LDUR(1, 8), STUR(1, 9),
     LDUR(1, 31), Cond("NE", 2), RET(1), RET(30),
     [ZeroWord EXCEPT !.Rd = 1], BL(3)}
DelayPrograms == {<<MOVZ(1, 8)>> \o s : s \in Seqs(DelayAlphabet, 4)}

Nops(n) == [i \in 1..n |-> NOP]

\* The programs of the two runs that contradict the documentation.
JustReturn == {<<RET(30)>>}
CallFoo == {<<MOVZ(0, 8)>> \o Nops(3) \o <<BL(3)>> \o Nops(4) \o <<RET(30)>>}

MCAlu(op, a, b, hw) == AluOut(op, a, b, hw)
MCClear(a, hw) == ClearChunk(a, hw)
=============================================================================
