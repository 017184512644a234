------------------------------ MODULE MCSpaced ------------------------------
(***************************************************************************)
(* Programs that respect the pipeline's delays, for the comparison with    *)
(* the architecture.                                                       *)
(***************************************************************************)
EXTENDS MCPipeline

\* Spaced programs: blocks of one instruction or one forward branch, with
\* and without NOPs behind, that print X1 and return; those the filter keeps.
Work == {MOVZ(1, 8), ADD(1, 1, 3), SUBS(2, 1, 0), SUBS(1, 2, 1), STUR(1, 8),
         LDUR(1, 8), STUR(2, -1)}
Blocks == {<<i>> \o Nops(n) : i \in Work, n \in {0, 2, 3}}
            \cup {<<Cond(c, 2), ADD(3, 3, 1)>> \o Nops(3) : c \in {"EQ", "NE", "HI"}}
Straight ==
    {x \o y \o z \o <<STUR(1, -1), RET(30), NOP>> : x, y, z \in Blocks}

\* A loop counting X4 down from 2, and a return into the program itself.
Loop ==
    <<I("ADD_RI", 4, 4, 0, 2)>> \o Nops(5) \o <<I("SUB_RI", 4, 4, 0, 1)>>
      \o Nops(3) \o <<SUBS(5, 4, 0), Cond("NE", -7)>> \o Nops(2)
      \o <<STUR(4, -1), RET(30), NOP>>
Jump ==
    <<MOVZ(6, 9), B(2), HLT>> \o Nops(2) \o <<RET(6), NOP, HLT>>
      \o <<STUR(6, -1), B(2), HLT, RET(30), NOP>>
\* Branches to the next instruction, which is executed twice if not taken.
Near ==
    {<<MOVZ(1, 8)>> \o Nops(3) \o <<SUBS(2, 1, 0), Cond(c, 1)>> \o Nops(2)
       \o <<STUR(1, -1), RET(30), NOP>> : c \in {"EQ", "NE"}}

\* Instructions that every program may take.
Fuel == 40
SpacedPrograms ==
    {p \in Straight \cup Near \cup {Loop, Jump} : \A m \in MCInitMems : Spaced(p, m, Fuel)}

\* The programs are spaced and have the cycles they need.
ASSUME RoomyAssumption == Roomy(Fuel)
=============================================================================
