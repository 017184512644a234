------------------------------- MODULE ChArm -------------------------------
(***************************************************************************)
(* The chArm instruction set as the emulator decodes it: opcodes, control  *)
(* signals, register selection, condition codes.  Pure operators, no state. *)
(*                                                                         *)
(* An instruction word is a record of the bit fields the code extracts.    *)
(* "op" is the entry of itable after fix_instr_aliases; "imm" is the       *)
(* immediate (or branch offset, counted in instructions) of that format.   *)
(***************************************************************************)
EXTENDS Integers

\* opcode_t; "ERROR" is OP_ERROR, which prints as NOP but is not one.
Opcodes ==
    {"NOP", "LDUR", "STUR", "MOVK", "MOVZ", "ADRP", "ADD_RI", "ADDS_RR",
     "SUB_RI", "SUBS_RR", "CMP_RR", "MVN", "ORR_RR", "EOR_RR", "ANDS_RR",
     "TST_RR", "LSL", "LSR", "UBFM", "ASR", "B", "B_COND", "BL", "RET",
     "HLT", "CSEL", "CSINV", "CSINC", "CSNEG", "CBZ", "CBNZ", "BR", "BLR",
     "ERROR"}

\* stat_t, the status an instruction carries down the pipeline.
Stats == {"BUB", "AOK", "HLT", "ADR", "INS"}

\* alu_op_t.
AluOps ==
    {"PLUS", "MINUS", "INV", "OR", "EOR", "AND", "MOV", "LSL", "LSR", "ASR",
     "PASS_A", "CSEL", "CSINV", "CSINC", "CSNEG", "CBZ", "CBNZ"}

\* cond_t.
Conds ==
    {"EQ", "NE", "CS", "CC", "MI", "PL", "VS", "VC", "HI", "LS", "GE", "LT",
     "GT", "LE", "AL", "NV"}

Nzcvs == [n : {0, 1}, z : {0, 1}, c : {0, 1}, v : {0, 1}]

SP_NUM  == 31
XZR_NUM == 32

\* What regfile indexes: GPR[0..30], then SP and PC, which struct proc lays
\* out right behind GPR.  Slot 32 is the PC field and also the index XZR_NUM.
PC_SLOT == 32
RegSlots == 0..32

Insns ==
    [op : Opcodes, Rd : 0..31, Rn : 0..31, Rm : 0..31, imm : Int,
     hw : 0..3, cond : Conds]

\* The all-zero word: what an unwritten page of the text segment holds.
ZeroWord ==
    [op |-> "ERROR", Rd |-> 0, Rn |-> 0, Rm |-> 0, imm |-> 0, hw |-> 0,
     cond |-> "EQ"]

\* 0xD4400000, the word fetch inserts to stop the pipeline.
HltWord == [ZeroWord EXCEPT !.op = "HLT"]

----------------------------------------------------------------------------
(* generate_DXMW_control: the signals, one set of opcodes per signal.      *)

NoWriteOps == {"STUR", "B", "B_COND", "RET", "NOP", "HLT", "CMP_RR", "TST_RR"}
ValbRegOps == {"ADDS_RR", "ANDS_RR", "SUBS_RR", "CMP_RR", "TST_RR", "ORR_RR",
               "EOR_RR", "MVN"}
SetCCOps   == {"ADDS_RR", "SUBS_RR", "ANDS_RR", "CMP_RR", "TST_RR"}

XSigs == [valb_sel : BOOLEAN, set_CC : BOOLEAN]
MSigs == [dmem_read : BOOLEAN, dmem_write : BOOLEAN]
WSigs == [dst_sel : BOOLEAN, wval_sel : BOOLEAN, w_enable : BOOLEAN]

XControl(op) == [valb_sel |-> op \in ValbRegOps, set_CC |-> op \in SetCCOps]
MControl(op) == [dmem_read |-> op = "LDUR", dmem_write |-> op = "STUR"]
WControl(op) ==
    [dst_sel  |-> op = "BL",
     wval_sel |-> op = "LDUR",
     w_enable |-> op \notin NoWriteOps]

NoXSigs == [valb_sel |-> FALSE, set_CC |-> FALSE]
NoMSigs == [dmem_read |-> FALSE, dmem_write |-> FALSE]
NoWSigs == [dst_sel |-> FALSE, wval_sel |-> FALSE, w_enable |-> FALSE]

----------------------------------------------------------------------------
(* decide_alu_op and extract_immval.                                       *)

AluOpGroups ==
    [PLUS  |-> {"ADD_RI", "ADDS_RR", "STUR", "LDUR", "ADRP"},
     MINUS |-> {"SUB_RI", "SUBS_RR"},
     INV   |-> {"MVN"},
     OR    |-> {"ORR_RR"},
     EOR   |-> {"EOR_RR"},
     AND   |-> {"ANDS_RR"},
     MOV   |-> {"MOVK", "MOVZ"}]

SameNameOps ==
    {"LSL", "LSR", "ASR", "CSEL", "CSINV", "CSINC", "CSNEG", "CBZ", "CBNZ"}

\* CMP_RR and TST_RR fall to the default, PASS_A: neither is ever decoded.
decide_alu_op(op) ==
    IF op \in SameNameOps THEN op
    ELSE IF \E g \in DOMAIN AluOpGroups : op \in AluOpGroups[g]
         THEN CHOOSE g \in DOMAIN AluOpGroups : op \in AluOpGroups[g]
         ELSE "PASS_A"

ImmOps == {"STUR", "LDUR", "MOVK", "MOVZ", "B_COND", "ADRP", "ADD_RI",
           "SUB_RI", "ASR", "B", "BL", "LSL", "LSR"}

extract_immval(insn, op) == IF op \in ImmOps THEN insn.imm ELSE 0

----------------------------------------------------------------------------
(* extract_regs: which register file slots an instruction names.  A field  *)
(* of 31 is SP for the address and add/subtract immediate formats and the  *)
(* zero register everywhere else.                                          *)

Src1Unused == {"MOVZ", "NOP", "HLT", "ADRP", "B_COND", "B", "BL"}
Src2Rm == {"ADDS_RR", "SUBS_RR", "CMP_RR", "ORR_RR", "EOR_RR", "ANDS_RR",
           "TST_RR", "MVN"}
SpOps == {"LDUR", "STUR", "ADD_RI", "SUB_RI"}

ZeroIf31(reg, applies) == IF reg = SP_NUM /\ applies THEN XZR_NUM ELSE reg

RawSrc1(insn, op) ==
    IF op = "MOVK" THEN insn.Rd
    ELSE IF op \in Src1Unused THEN 0 ELSE insn.Rn
RawSrc2(insn, op) ==
    IF op = "STUR" THEN insn.Rd ELSE IF op \in Src2Rm THEN insn.Rm ELSE 0
RawDst(insn, op) == IF op \in {"RET", "STUR"} THEN 0 ELSE insn.Rd

\* For B_COND src1 is reused as the condition and the value read is unused:
\* slot 0 stands for it.
Src1(insn, op) == ZeroIf31(RawSrc1(insn, op), op \notin SpOps)
Src2(insn, op) ==
    ZeroIf31(RawSrc2(insn, op), op \notin {"ADD_RI", "SUB_RI"})
Dst(insn, op) == ZeroIf31(RawDst(insn, op), op \notin {"ADD_RI", "SUB_RI"})

----------------------------------------------------------------------------
(* cond_holds of hw_elts.c.                                                *)

cond_holds(cond, cc) ==
    CASE cond = "EQ" -> cc.z = 1
      [] cond = "NE" -> cc.z = 0
      [] cond = "CS" -> cc.c = 1
      [] cond = "CC" -> cc.c = 0
      [] cond = "MI" -> cc.n = 1
      [] cond = "PL" -> cc.n = 0
      [] cond = "VS" -> cc.v = 1
      [] cond = "VC" -> cc.v = 0
      [] cond = "HI" -> cc.c = 1 /\ cc.z = 0
      [] cond = "LS" -> ~(cc.c = 1 /\ cc.z = 0)
      [] cond = "GE" -> cc.n = cc.v
      [] cond = "LT" -> cc.n # cc.v
      [] cond = "GT" -> cc.z = 0 /\ cc.n = cc.v
      [] cond = "LE" -> ~(cc.z = 0 /\ cc.n = cc.v)
      [] OTHER -> TRUE
=============================================================================
