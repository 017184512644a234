------------------------------ MODULE Encoding ------------------------------
(***************************************************************************)
(* From the word in memory to ChArm's instruction record: itable and the   *)
(* bit fields (instr_base.c), the aliases (instr_Fetch.c) and the          *)
(* immediates (instr_Decode.c).  A word is an int32_t, as it is where its  *)
(* fields are taken.                                                       *)
(*                                                                         *)
(* Beside it, Assemble puts an instruction together the way the A64        *)
(* encoding has it.                                                        *)
(***************************************************************************)
EXTENDS ChArm, Bits, Sequences

\* src >> frompos keeps the sign, the mask drops it again.
bitfield_u32(src, frompos, width) == (src \div pow2[frompos]) % pow2[width]

\* Mutant: the sign is not extended.
bitfield_s64_unsigned(src, frompos, width) == bitfield_u32(src, frompos, width)

bitfield_s64(src, frompos, width) ==
    LET u == bitfield_u32(src, frompos, width)
    IN IF u >= pow2[width - 1] THEN u - pow2[width] ELSE u

\* init_itable: opcode, first and last index.
Entries ==
    {<<"LDUR", \h7c2, \h7c2>>, <<"STUR", \h7c0, \h7c0>>,
     <<"MOVK", \h794, \h797>>, <<"MOVZ", \h694, \h697>>,
     <<"ADRP", \h480, \h487>>, <<"ADRP", \h580, \h587>>,
     <<"ADRP", \h680, \h687>>, <<"ADRP", \h780, \h787>>,
     <<"ADD_RI", \h488, \h489>>, <<"ADDS_RR", \h558, \h558>>,
     <<"SUB_RI", \h688, \h689>>, <<"SUBS_RR", \h758, \h758>>,
     <<"MVN", \h551, \h551>>, <<"ORR_RR", \h550, \h550>>,
     <<"EOR_RR", \h650, \h650>>, <<"ANDS_RR", \h750, \h750>>,
     <<"UBFM", \h69a, \h69b>>, <<"ASR", \h49a, \h49b>>,
     <<"B", \h0a0, \h0bf>>, <<"B_COND", \h2a0, \h2a7>>,
     <<"BL", \h4a0, \h4bf>>, <<"RET", \h6b2, \h6b2>>,
     <<"NOP", \h6a8, \h6a8>>, <<"HLT", \h6a2, \h6a2>>,
     <<"CSEL", \h4d4, \h4d4>>, <<"CSNEG", \h6d4, \h6d4>>,
     <<"CBZ", \h5a0, \h5a7>>, <<"CBNZ", \h5a8, \h5af>>,
     <<"BR", \h6b0, \h6b0>>, <<"BLR", \h6b1, \h6b1>>}

\* init_itable_entry and init_itable_range assert this.
ASSUME EntriesAreDisjoint ==
    \A e \in Entries : \A f \in Entries \ {e} : e[3] < f[2] \/ f[3] < e[2]

itable(idx) ==
    LET at == {e \in Entries : idx \in e[2]..e[3]}
    IN IF at = {} THEN "ERROR" ELSE (CHOOSE e \in at : TRUE)[1]

\* Mutant: imms is compared to immr itself.
fix_instr_aliases_off(word, op) ==
    LET immr == bitfield_u32(word, 16, 6)
        imms == bitfield_u32(word, 10, 6)
    IN IF op = "UBFM" THEN IF imms # 63 /\ imms = immr THEN "LSL" ELSE "LSR"
       ELSE op

\* CMP and TST have no entries of their own, so their cases are never met.
fix_instr_aliases(word, op) ==
    LET immr == bitfield_u32(word, 16, 6)
        imms == bitfield_u32(word, 10, 6)
    IN IF op = "UBFM" THEN IF imms # 63 /\ imms + 1 = immr THEN "LSL" ELSE "LSR"
       ELSE op

\* (immhi << 2) | immlo, both signed: a negative immlo has all higher bits set.
AdrpImm(word) ==
    LET immhi == bitfield_s64(word, 5, 19)
        immlo == bitfield_s64(word, 29, 2)
    IN IF immlo < 0 THEN immlo ELSE (immhi * 4) + immlo

\* extract_immval and predict_PC.  ADRP's is counted in pages (<< 12).
Immediate(word, op) ==
    CASE op \in {"STUR", "LDUR"} -> bitfield_s64(word, 12, 9)
      [] op \in {"MOVK", "MOVZ"} -> bitfield_u32(word, 5, 16)
      [] op = "B_COND" -> bitfield_s64(word, 5, 19)
      [] op = "ADRP" -> AdrpImm(word)
      [] op \in {"ADD_RI", "SUB_RI", "ASR"} -> bitfield_u32(word, 10, 12)
      [] op \in {"B", "BL"} -> bitfield_s64(word, 0, 26)
      [] op \in {"LSL", "LSR"} -> bitfield_u32(word, 16, 5)
      [] OTHER -> 0

\* cond_t, in the order of its values.
CondAt == <<"EQ", "NE", "CS", "CC", "MI", "PL", "VS", "VC", "HI", "LS", "GE",
            "LT", "GT", "LE", "AL", "NV">>

Insn(word) ==
    LET op == fix_instr_aliases(word, itable(bitfield_u32(word, 21, 11)))
    IN [op |-> op, imm |-> Immediate(word, op),
        Rd |-> bitfield_u32(word, 0, 5), Rn |-> bitfield_u32(word, 5, 5),
        Rm |-> bitfield_u32(word, 16, 5), hw |-> bitfield_u32(word, 21, 2),
        cond |-> CondAt[bitfield_u32(word, 0, 4) + 1]]

----------------------------------------------------------------------------
(* The A64 encoding.                                                       *)

\* A word so far, and the field <<value, width>> behind it.  What a word
\* begins with is bit 31, its sign: -1 or 0.
word ## field == (word * pow2[field[2]]) + (field[1] % pow2[field[2]])

CondNum(c) == (CHOOSE n \in DOMAIN CondAt : CondAt[n] = c) - 1

\* The instruction x; for a shift imm is the amount.
Assemble(x) ==
    LET one == -1   d == <<x.Rd, 5>>   n == <<x.Rn, 5>>   m == <<x.Rm, 5>>
        z(w) == <<0, w>>
        Mem(opc)    == one ## <<\h78, 7>> ## <<opc, 2>> ## z(1) ## <<x.imm, 9>>
                         ## z(2) ## n ## d
        Mov(opc)    == one ## <<opc, 2>> ## <<\h25, 6>> ## <<x.hw, 2>>
                         ## <<x.imm, 16>> ## d
        AddImm(op)  == one ## <<op, 1>> ## z(1) ## <<\h22, 6>> ## z(1)
                         ## <<x.imm, 12>> ## n ## d
        Regs(op, N) == one ## <<op, 7>> ## z(2) ## <<N, 1>> ## m ## z(6) ## n ## d
        Shift(opc, immr, imms) == one ## <<opc, 2>> ## <<\h26, 6>> ## <<1, 1>>
                         ## <<immr, 6>> ## <<imms, 6>> ## n ## d
        Jump(bl)    == (-bl) ## <<5, 5>> ## <<x.imm, 26>>
        Compare(nz) == one ## <<\h1a, 6>> ## <<nz, 1>> ## <<x.imm, 19>> ## d
        Branch(opc) == one ## <<\h56, 7>> ## z(1) ## <<opc, 2>> ## <<31, 5>>
                         ## z(6) ## n ## z(5)
        Select(op, op2) == one ## <<op, 1>> ## z(1) ## <<\hd4, 8>> ## m
                         ## <<CondNum(x.cond), 4>> ## <<op2, 2>> ## n ## d
    IN CASE x.op = "LDUR" -> Mem(1)
         [] x.op = "STUR" -> Mem(0)
         [] x.op = "MOVZ" -> Mov(2)
         [] x.op = "MOVK" -> Mov(3)
         [] x.op = "ADRP" -> one ## <<x.imm % 4, 2>> ## <<16, 5>>
                               ## <<x.imm \div 4, 19>> ## d
         [] x.op = "ADD_RI" -> AddImm(0)
         [] x.op = "SUB_RI" -> AddImm(1)
         [] x.op = "ADDS_RR" -> Regs(\h2b, 0)
         [] x.op = "SUBS_RR" -> Regs(\h6b, 0)
         [] x.op = "ANDS_RR" -> Regs(\h6a, 0)
         [] x.op = "ORR_RR" -> Regs(\h2a, 0)
         [] x.op = "MVN" -> Regs(\h2a, 1)
         [] x.op = "EOR_RR" -> Regs(\h4a, 0)
         [] x.op = "LSL" -> Shift(2, 64 - x.imm, 63 - x.imm)
         [] x.op = "LSR" -> Shift(2, x.imm, 63)
         [] x.op = "ASR" -> Shift(0, x.imm, 63)
         [] x.op = "B" -> Jump(0)
         [] x.op = "BL" -> Jump(1)
         [] x.op = "B_COND" -> 0 ## <<\h54, 7>> ## <<x.imm, 19>> ## z(1)
                                 ## <<CondNum(x.cond), 4>>
         [] x.op = "CBZ" -> Compare(0)
         [] x.op = "CBNZ" -> Compare(1)
         [] x.op = "CSEL" -> Select(0, 0)
         [] x.op = "CSINC" -> Select(0, 1)
         [] x.op = "CSINV" -> Select(1, 0)
         [] x.op = "CSNEG" -> Select(1, 1)
         [] x.op = "RET" -> Branch(2)
         [] x.op = "BR" -> Branch(0)
         [] x.op = "BLR" -> Branch(1)
         [] x.op = "NOP" -> one ## <<\h55, 7>> ## <<\h03201f, 24>>
         [] x.op = "HLT" -> one ## <<\h54, 7>> ## <<2, 3>> ## <<x.imm, 16>> ## z(5)
=============================================================================
