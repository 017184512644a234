------------------------------- MODULE MCAlu -------------------------------
(***************************************************************************)
(* alu on every pair of operands: one ALU instruction, or a constant put   *)
(* together by a MOVZ and one MOVK for each other chunk, in any order; and *)
(* the decoder on the words of instructions whose operands lie at the ends *)
(* of their ranges.                                                        *)
(***************************************************************************)
EXTENDS Alu, Encoding

CONSTANT Instructions  \* what is assembled and decoded

VARIABLES
    old, target,   \* a register's old value; second operand or constant
    acc, cc,       \* the result and the flags
    last,          \* the ALU operation done
    chunks,        \* chunks of the constant not yet moved
    insn           \* the instruction assembled and decoded

\* A register has a whole number of chunks.
ASSUME WidthAssumption ==
    WIDTH \in Nat \ {0} /\ CHUNK \in Nat \ {0} /\ WIDTH % CHUNK = 0

Mnemonics ==
    {"LDUR", "STUR", "MOVZ", "MOVK", "ADRP", "ADD_RI", "SUB_RI", "ADDS_RR",
     "SUBS_RR", "ANDS_RR", "ORR_RR", "EOR_RR", "MVN", "LSL", "LSR", "ASR", "B",
     "BL", "B_COND", "CBZ", "CBNZ", "CSEL", "CSINC", "CSINV", "CSNEG", "RET",
     "BR", "BLR", "NOP", "HLT"}

SignedField(width) == -pow2[width - 1]..(pow2[width - 1] - 1)

\* The immediates an instruction has room for; a shift by 0 is a move.
ImmRange(op) ==
    CASE op \in {"LDUR", "STUR"}          -> SignedField(9)
      [] op \in {"MOVZ", "MOVK", "HLT"}   -> 0..(pow2[16] - 1)
      [] op \in {"ADD_RI", "SUB_RI"}      -> 0..(pow2[12] - 1)
      [] op = "ADRP"                      -> SignedField(21)
      [] op \in {"LSL", "LSR", "ASR"}     -> 1..63
      [] op \in {"B", "BL"}               -> SignedField(26)
      [] op \in {"B_COND", "CBZ", "CBNZ"} -> SignedField(19)
      [] OTHER                            -> {0}

Encodable(x) ==
    /\ x \in [op : Mnemonics, Rd : 0..31, Rn : 0..31, Rm : 0..31, imm : Int,
              hw : 0..3, cond : Conds]
    /\ x.imm \in ImmRange(x.op)

ASSUME InstructionsAssumption == \A x \in Instructions : Encodable(x)

aluVars == <<old, target, acc, cc, last, chunks, insn>>

Chunks == 0..((WIDTH \div CHUNK) - 1)
ChunkOf(x, hw) == ShiftRight(x, HwShift(hw)) % pow2[CHUNK]
Set(op, out) ==
    /\ last' = op /\ acc' = out.val_e /\ cc' = out.cc
    /\ UNCHANGED <<old, target, insn>>

AluInit ==
    /\ old \in Words /\ target \in Words
    /\ acc = 0 /\ cc = [n |-> 0, z |-> 1, c |-> 0, v |-> 0]
    /\ last = "none" /\ chunks = Chunks
    /\ insn = ZeroWord

compute ==
    /\ last = "none"
    /\ \E op \in {"PLUS", "MINUS", "INV", "OR", "EOR", "AND"} :
          Set(op, AluOut(op, old, target, 0))
    /\ UNCHANGED chunks

movz ==
    /\ last = "none"
    /\ \E hw \in Chunks :
          /\ Set("MOV", AluOut("MOV", 0, ChunkOf(target, hw), hw))
          /\ chunks' = chunks \ {hw}

movk ==
    /\ last = "MOV"
    /\ \E hw \in chunks :
          /\ Set("MOV", AluOut("MOV", ClearChunk(acc, hw), ChunkOf(target, hw), hw))
          /\ chunks' = chunks \ {hw}

decode ==
    /\ last = "none" /\ old = 0 /\ target = 0
    /\ insn' \in Instructions
    /\ last' = "DECODE"
    /\ UNCHANGED <<old, target, acc, cc, chunks>>

AluNext == compute \/ movz \/ movk \/ decode
AluSpec == AluInit /\ [][AluNext]_aluVars

Signed(x) == IF msb(x) = 1 THEN x - pow2[WIDTH] ELSE x

\* After SUBS the unsigned conditions and EQ order the operands: the borrow
\* is in C the way cond_holds reads it.
UnsignedOrder ==
    last = "MINUS" =>
        /\ cond_holds("EQ", cc) <=> old = target
        /\ cond_holds("CS", cc) <=> old >= target
        /\ cond_holds("HI", cc) <=> old > target
        /\ cond_holds("LS", cc) <=> old <= target

\* ADDS sets C and V exactly when the unsigned and the signed sum do not fit.
AddFlags ==
    last = "PLUS" =>
        /\ cc.c = 1 <=> old + target >= pow2[WIDTH]
        /\ cc.v = 1 <=> Signed(old) + Signed(target) # Signed(acc)

\* MOVZ and a MOVK for every other chunk, in any order, load the constant
\* whatever the register held: MOVK clears its chunk and only its chunk.
MovBuildsConstant == last = "MOV" /\ chunks = {} => acc = target

\* The logical operations agree with the adder: x + y = (x ^ y) + 2 (x & y),
\* x | y = (x ^ y) + (x & y), and ORN with itself is all ones.
LogicAgreesWithAdder ==
    /\ last = "EOR" =>
          (acc + 2 * AluResult("AND", old, target, 0)) % pow2[WIDTH]
              = AluResult("PLUS", old, target, 0)
    /\ last = "OR" =>
          acc = AluResult("EOR", old, target, 0) + AluResult("AND", old, target, 0)
    /\ last = "INV" =>
          acc = BitNot(target) + AluResult("AND", old, target, 0)

Decoded == Insn(Assemble(insn))
Shifts == {"LSL", "LSR", "ASR"}
Selects == {"CSEL", "CSINC", "CSINV", "CSNEG"}
ZeroBranches == {"CBZ", "CBNZ"}

\* The alternatives of a conditional select are not told apart.
DecodedAs(op) ==
    CASE op = "CSINC" -> "CSEL" [] op = "CSINV" -> "CSNEG" [] OTHER -> op

\* No register, where an instruction has no such operand.
NoReg == -1

\* The operands an instruction has in A64, whatever the emulator does.  31 is
\* SP for the base of an access and for ADD and SUB with an immediate.
A64Src1(x) ==
    CASE x.op \in {"MOVZ", "ADRP", "B", "BL", "B_COND", "NOP", "HLT"} -> NoReg
      [] x.op \in {"MOVK"} \cup ZeroBranches -> ZeroIf31(x.Rd, TRUE)
      [] x.op \in {"LDUR", "STUR", "ADD_RI", "SUB_RI"} -> x.Rn
      [] OTHER -> ZeroIf31(x.Rn, TRUE)

A64Src2(x) ==
    CASE x.op = "STUR" -> ZeroIf31(x.Rd, TRUE)
      [] x.op \in {"ADDS_RR", "SUBS_RR", "ANDS_RR", "ORR_RR", "EOR_RR", "MVN"}
                  \cup Selects -> ZeroIf31(x.Rm, TRUE)
      [] OTHER -> NoReg

A64Dst(x) ==
    CASE x.op \in {"STUR", "B", "B_COND", "RET", "BR", "NOP", "HLT"}
                  \cup ZeroBranches -> NoReg
      [] x.op \in {"BL", "BLR"} -> 30
      [] x.op \in {"ADD_RI", "SUB_RI"} -> x.Rd
      [] OTHER -> ZeroIf31(x.Rd, TRUE)

A64Operands(x) ==
    [src1 |-> A64Src1(x), src2 |-> A64Src2(x), dst |-> A64Dst(x),
     cond |-> IF x.op \in {"B_COND"} \cup Selects THEN x.cond ELSE "none",
     hw   |-> IF x.op \in {"MOVZ", "MOVK"} THEN x.hw ELSE 0,
     imm  |-> x.imm]

\* The operands decode_instr hands on: slot 0 stands for no first source; the
\* second is used if valb_sel takes it or it is stored, the destination if
\* w_enable is set; the condition is written for a B.cond alone.
DecodedOperands(w) ==
    [src1 |-> IF w.op \in Src1Unused THEN NoReg ELSE Src1(w, w.op),
     src2 |-> IF XControl(w.op).valb_sel \/ MControl(w.op).dmem_write
              THEN Src2(w, w.op) ELSE NoReg,
     dst  |-> IF WControl(w.op).w_enable THEN Dst(w, w.op) ELSE NoReg,
     cond |-> IF w.op = "B_COND" THEN w.cond ELSE "none",
     hw   |-> IF w.op \in {"MOVZ", "MOVK"} THEN w.hw ELSE 0,
     imm  |-> extract_immval(w, w.op)]

\* Which operands of which words decode to what the A64 encoding says, and
\* which do not (instr_Decode.c:75-110, 201-252, 289-291).  CSINC and CSINV are
\* taken for CSEL and CSNEG.  The first source is right but for CBZ and CBNZ,
\* whose register is looked for where the offset's low bits are.  The second
\* source and the condition are right but for the conditional selects, which
\* get neither.  The destination is wrong for BLR and BR, which write X0 in
\* place of X30 and of nothing, for CBZ and CBNZ, which write the register
\* they test, and for BL, which writes the register its offset ends in.  A
\* chunk is always right.  An immediate is right, but CBZ, CBNZ and HLT are
\* given 0, and an ADRP's is lost when bit 30, the sign of immlo, is set,
\* unless the bits above it are all set anyway; the amounts of shifts are
\* ShiftsDecoded's.
DecodesAsAssembled ==
    last = "DECODE" =>
        LET op == insn.op
            a64 == A64Operands(insn)
            got == DecodedOperands(Decoded)
        IN /\ Decoded.op = DecodedAs(op)
           /\ got.src1 = a64.src1
                <=> (op \in ZeroBranches => insn.Rd = insn.imm % 32)
           /\ got.src2 = a64.src2 <=> op \notin Selects
           /\ got.cond = a64.cond <=> op \notin Selects
           /\ got.dst = a64.dst
                <=> /\ op \notin {"BLR", "BR"} \cup ZeroBranches
                    /\ op = "BL" => insn.imm % 32 = 30
           /\ got.hw = a64.hw
           /\ op \notin Shifts =>
                (got.imm = a64.imm
                   <=> /\ op \in {"HLT"} \cup ZeroBranches => insn.imm = 0
                       /\ op = "ADRP" => \/ insn.imm % 4 < 2
                                         \/ insn.imm \in {-2, -1})

\* instr_Fetch.c:100-112 and instr_Decode.c:94-105: an LSL is told from an LSR
\* for every amount; the amount decoded is right for an LSR by less than 32,
\* and for an LSL by 16 alone; an ASR shifts by 63 (the low six bits of its
\* immediate) whatever its amount.
ShiftsDecoded ==
    (last = "DECODE" /\ insn.op \in Shifts) =>
        LET imm == Decoded.imm
        IN /\ Decoded.op = insn.op
           /\ insn.op = "LSR" => (imm = insn.imm <=> insn.imm < 32)
           /\ insn.op = "LSL" => (imm = insn.imm <=> insn.imm = 16)
           /\ insn.op = "ASR" => imm % 64 = 63

\* instr.h:41 says V is set when an instruction results in an overflow, and
\* LT and GE read it: after SUBS they must order the operands as signed.
SignedOrder == last = "MINUS" => (cond_holds("LT", cc) <=> Signed(old) < Signed(target))

----------------------------------------------------------------------------
(* The instructions for TLC: registers that are special, immediates at the *)
(* ends of their ranges and around 0.                                      *)

Regs == {0, 1, 30, 31}
Ends(width) == {-pow2[width - 1], -1, 0, 1, pow2[width - 1] - 1}
With(ops, imms, hws, conds) ==
    [op : ops, Rd : Regs, Rn : Regs, Rm : Regs, imm : imms, hw : hws,
     cond : conds]

EdgeInstructions ==
    UNION {With({"LDUR", "STUR"}, Ends(9), {0}, {"EQ"}),
           With({"ADD_RI", "SUB_RI"}, {0, 2047, 2048, 4095}, {0}, {"EQ"}),
           With({"MOVZ", "MOVK"}, {0, 1, 65535}, 0..3, {"EQ"}),
           With({"B", "BL"}, Ends(26) \cup {-2, 30, 31, 62}, {0}, {"EQ"}),
           With({"B_COND"}, Ends(19), {0}, Conds),
           With({"CBZ", "CBNZ"}, Ends(19) \cup {30, 31, 33}, {0}, {"EQ"}),
           With({"HLT"}, {0, 1, 65535}, {0}, {"EQ"}),
           With({"ADRP"}, Ends(21) \cup -8..8, {0}, {"EQ"}),
           With({"LSL", "LSR", "ASR"}, 1..63, {0}, {"EQ"}),
           With({"CSEL", "CSINC", "CSINV", "CSNEG"}, {0}, {0}, {"EQ", "NV"}),
           With({"ADDS_RR", "SUBS_RR", "ANDS_RR", "ORR_RR", "EOR_RR", "MVN",
                 "RET", "BR", "BLR", "NOP"}, {0}, {0}, {"EQ"})}
=============================================================================
