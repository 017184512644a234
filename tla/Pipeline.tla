------------------------------ MODULE Pipeline ------------------------------
(***************************************************************************)
(* runElf: the five-stage pipeline, one stage function per action, in the  *)
(* order the loop of proc.c calls them, and the clock edge that ends a     *)
(* cycle.  "stage" is the point of the loop body reached.  The program is  *)
(* chosen in Init; program counters count instructions from 1, and 0 is    *)
(* RET_FROM_MAIN_ADDR.  A uint64_t has WordSize values.  There is no data  *)
(* cache (the default): a data access completes in its cycle.              *)
(***************************************************************************)
EXTENDS ChArm, Sequences

CONSTANTS
    WordSize,        \* number of values of a 64-bit word
    CycleMax,        \* cycle_max, the -l option
    Programs,        \* the instruction sequences that may be loaded
    TextWords,       \* instructions in the text segment: padded with ZeroWord
    OutsideWords,    \* words an out-of-segment fetch may return
    DataMem,         \* addresses for which dmem reports no error
    InitMems,        \* the initial contents of memory
    InitSP,          \* initial stack pointer
    IO_CHAR_ADDR, CHECKPOINT_ADDR,  \* the trap addresses besides NULL_ADDR
    IoInputs,        \* values scanf may deliver
    PageWords,       \* instructions per page, for ADRP
    alu(_, _, _, _), \* alu: result and flags of (ALUop, vala, valb, valhw)
    clear_chunk(_, _) \* vala with the 16 bits at valhw cleared, for MOVK

Word == 0..(WordSize - 1)
NULL_ADDR == 0
RET_FROM_MAIN_ADDR == 0

ASSUME SizeAssumption ==
    /\ WordSize \in Nat \ {0}
    /\ CycleMax \in Nat \ {0}
    /\ TextWords \in Nat
    /\ PageWords \in Nat \ {0}
ASSUME ProgramAssumption ==
    /\ Programs \subseteq Seq(Insns)
    /\ OutsideWords \subseteq Insns
    /\ \A p \in Programs : Len(p) <= TextWords
ASSUME MemAssumption ==
    /\ DataMem \subseteq Word
    /\ InitMems \subseteq [Word -> Word]
    /\ InitSP \in Word
    /\ IoInputs \subseteq Word
    /\ IO_CHAR_ADDR \in Word \ {0}
    /\ CHECKPOINT_ADDR \in Word \ {0, IO_CHAR_ADDR}
ASSUME AluAssumption ==
    /\ \A op \in AluOps, a \in Word, b \in Word, hw \in 0..3 :
           alu(op, a, b, hw) \in [val_e : Word, cc : Nzcvs]
    /\ \A a \in Word, hw \in 0..3 : clear_chunk(a, hw) \in Word

VARIABLES
    text,                                   \* the loaded program
    stage,                                  \* next step of the loop body
    F_in, F_out, D_in, D_out, X_in, X_out,  \* the pipeline registers, both
    M_in, M_out, W_in, W_out,               \*   sides of each
    ctl,                                    \* ctl field of each register
    gpr, nzcv, mem,                         \* architectural state
    W_wval, F_PC,                           \* globals between stages
    dmem_status, status, num_instr,
    output                                  \* values printed by IO stores

pipeVars == <<F_in, F_out, D_in, D_out, X_in, X_out, M_in, M_out, W_in, W_out>>
vars == <<text, stage, pipeVars, ctl, gpr, nzcv, mem, W_wval, F_PC,
          dmem_status, status, num_instr, output>>

Pipes == {"F", "D", "X", "M", "W"}

----------------------------------------------------------------------------
(* The pipeline registers; the Zero values are what calloc and memset give.*)

FRegs == [pred_PC : Word, status : Stats]
DRegs == [insn : Insns, op : Opcodes, seq_succ_PC : Word, adrp_val : Word,
          status : Stats]
XRegs == [op : Opcodes, seq_succ_PC : Word, X_sigs : XSigs, M_sigs : MSigs,
          W_sigs : WSigs, ALU_op : AluOps, cond : Conds, val_a : Word,
          val_b : Word, val_imm : Int, val_hw : 0..3, dst : RegSlots,
          status : Stats]
MRegs == [op : Opcodes, seq_succ_PC : Word, cond_holds : BOOLEAN,
          M_sigs : MSigs, W_sigs : WSigs, val_b : Word, dst : RegSlots,
          val_ex : Word, status : Stats]
WRegs == [op : Opcodes, W_sigs : WSigs, val_b : Word, dst : RegSlots,
          val_ex : Word, val_mem : Word, status : Stats]

ZeroF == [pred_PC |-> 0, status |-> "BUB"]
ZeroD == [insn |-> ZeroWord, op |-> "NOP", seq_succ_PC |-> 0, adrp_val |-> 0,
          status |-> "BUB"]
ZeroX == [op |-> "NOP", seq_succ_PC |-> 0, X_sigs |-> NoXSigs,
          M_sigs |-> NoMSigs, W_sigs |-> NoWSigs, ALU_op |-> "PLUS",
          cond |-> "EQ", val_a |-> 0, val_b |-> 0, val_imm |-> 0,
          val_hw |-> 0, dst |-> 0, status |-> "BUB"]
ZeroM == [op |-> "NOP", seq_succ_PC |-> 0, cond_holds |-> FALSE,
          M_sigs |-> NoMSigs, W_sigs |-> NoWSigs, val_b |-> 0, dst |-> 0,
          val_ex |-> 0, status |-> "BUB"]
ZeroW == [op |-> "NOP", W_sigs |-> NoWSigs, val_b |-> 0, dst |-> 0,
          val_ex |-> 0, val_mem |-> 0, status |-> "BUB"]

\* The entry point is the first instruction; GPR[30] is RET_FROM_MAIN_ADDR,
\* as are the other registers init_machine clears.
Init ==
    /\ text \in Programs
    /\ mem \in InitMems
    /\ stage = "wback"
    /\ F_in = ZeroF /\ F_out = [pred_PC |-> 1 % WordSize, status |-> "AOK"]
    /\ D_in = ZeroD /\ D_out = ZeroD
    /\ X_in = ZeroX /\ X_out = ZeroX
    /\ M_in = ZeroM /\ M_out = ZeroM
    /\ W_in = ZeroW /\ W_out = ZeroW
    /\ ctl = [p \in Pipes |-> "P_BUBBLE"]
    /\ gpr = [r \in RegSlots |-> CASE r = SP_NUM -> InitSP
                                   [] r = PC_SLOT -> 1 % WordSize
                                   [] OTHER -> RET_FROM_MAIN_ADDR]
    /\ nzcv = [n |-> 0, z |-> 1, c |-> 0, v |-> 0]
    /\ W_wval = 0 /\ F_PC = 0
    /\ dmem_status = "READY"
    /\ status = "BUB"
    /\ num_instr = 0
    /\ output = <<>>

----------------------------------------------------------------------------
(* wback_instr: select the value to write.                                 *)

WriteValue == IF W_out.W_sigs.wval_sel THEN W_out.val_mem ELSE W_out.val_ex

wback_instr ==
    /\ stage = "wback"
    /\ stage' = "memory"
    /\ W_wval' = IF W_out.W_sigs.w_enable THEN WriteValue ELSE W_wval
    /\ UNCHANGED <<text, pipeVars, ctl, gpr, nzcv, mem, F_PC, dmem_status,
                   status, num_instr, output>>

----------------------------------------------------------------------------
(* memory_instr and dmem.  dmem performs the access even when it reports   *)
(* an error; the trap addresses never report one.                          *)

is_special_addr(a) == a \in {NULL_ADDR, IO_CHAR_ADDR, CHECKPOINT_ADDR}
dmem_err(a) == a \notin DataMem /\ ~is_special_addr(a)

\* The values a completed data read may return.
ReadValues(a) ==
    IF a = IO_CHAR_ADDR THEN IoInputs
    ELSE IF a = CHECKPOINT_ADDR THEN {0} ELSE {mem[a]}

\* A read of NULL_ADDR calls exit, a write of CHECKPOINT_ADDR fails an assert.
Traps(reg) ==
    \/ reg.M_sigs.dmem_read /\ reg.val_ex = NULL_ADDR
    \/ reg.M_sigs.dmem_write /\ reg.val_ex = CHECKPOINT_ADDR

memory_trap ==
    /\ stage = "memory"
    /\ Traps(M_out)
    /\ stage' = "exited"
    /\ UNCHANGED <<text, pipeVars, ctl, gpr, nzcv, mem, W_wval, F_PC,
                   dmem_status, status, num_instr, output>>

\* Mutant: a fault is not noted on the instruction.
MemStatus_unmarked(fault) == M_out.status

\* The status an access leaves on its instruction.
MemStatus(fault) == IF fault THEN "ADR" ELSE M_out.status

memory_instr ==
    /\ stage = "memory"
    /\ ~Traps(M_out)
    /\ stage' = "execute"
    /\ LET addr  == M_out.val_ex
           read  == M_out.M_sigs.dmem_read
           write == M_out.M_sigs.dmem_write
           fault == (read \/ write) /\ dmem_err(addr)
                      /\ M_out.op \in {"LDUR", "STUR"}
       IN \E v \in IF read THEN ReadValues(addr) ELSE {W_in.val_mem} :
            /\ W_in' = [op |-> M_out.op, W_sigs |-> M_out.W_sigs,
                        val_b |-> M_out.val_b, dst |-> M_out.dst,
                        val_ex |-> addr, val_mem |-> v,
                        status |-> MemStatus(fault)]
            /\ dmem_status' = IF fault THEN "ERROR" ELSE dmem_status
            /\ mem' = IF write /\ ~is_special_addr(addr)
                      THEN [mem EXCEPT ![addr] = M_out.val_b] ELSE mem
            /\ output' = IF write /\ addr = IO_CHAR_ADDR
                         THEN Append(output, M_out.val_b) ELSE output
    /\ UNCHANGED <<text, F_in, F_out, D_in, D_out, X_in, X_out, M_in, M_out,
                   W_out, ctl, gpr, nzcv, W_wval, F_PC, status, num_instr>>

----------------------------------------------------------------------------
(* execute_instr: the ALU, the flags, and the branch condition, which is    *)
(* tested against the flags as this instruction leaves them.                *)

execute_instr ==
    /\ stage = "execute"
    /\ stage' = "decode"
    /\ LET operandB == IF X_out.X_sigs.valb_sel THEN X_out.val_b
                       ELSE X_out.val_imm % WordSize
           res == alu(X_out.ALU_op, X_out.val_a, operandB, X_out.val_hw)
           cc  == IF X_out.X_sigs.set_CC THEN res.cc ELSE nzcv
       IN /\ nzcv' = cc
          /\ M_in' = [op |-> X_out.op, seq_succ_PC |-> X_out.seq_succ_PC,
                      cond_holds |-> cond_holds(X_out.cond, cc),
                      M_sigs |-> X_out.M_sigs, W_sigs |-> X_out.W_sigs,
                      val_b |-> X_out.val_b, dst |-> X_out.dst,
                      val_ex |-> res.val_e, status |-> X_out.status]
    /\ UNCHANGED <<text, F_in, F_out, D_in, D_out, X_in, X_out, M_out, W_in,
                   W_out, ctl, gpr, mem, W_wval, F_PC, dmem_status, status,
                   num_instr, output>>

----------------------------------------------------------------------------
(* decode_instr.  regfile reads before it writes what W retires, so a      *)
(* value being written in this cycle is not seen; forward.c is empty.      *)

\* Mutant: a value forwarded from W.
ReadReg_forwarded(slot) ==
    IF slot >= XZR_NUM THEN 0
    ELSE IF W_out.W_sigs.w_enable /\ W_out.dst = slot THEN W_wval ELSE gpr[slot]

ReadReg(slot) == IF slot >= XZR_NUM THEN 0 ELSE gpr[slot]

\* regfile's write: GPR[dst] = val_w, whichever field lies at that index.
WriteBack ==
    IF W_out.W_sigs.w_enable THEN [gpr EXCEPT ![W_out.dst] = W_wval] ELSE gpr

ValA(insn, op) ==
    CASE op = "MOVZ" -> 0
      [] op = "MOVK" -> clear_chunk(ReadReg(Src1(insn, op)), insn.hw)
      [] op = "ADRP" -> D_out.adrp_val
      [] OTHER -> ReadReg(Src1(insn, op))

decode_instr ==
    /\ stage = "decode"
    /\ stage' = "fetch"
    /\ LET insn == D_out.insn
           op   == D_out.op
       IN X_in' = [op |-> op, seq_succ_PC |-> D_out.seq_succ_PC,
                   X_sigs |-> XControl(op), M_sigs |-> MControl(op),
                   W_sigs |-> WControl(op), ALU_op |-> decide_alu_op(op),
                   cond |-> IF op = "B_COND" THEN insn.cond ELSE X_in.cond,
                   val_a |-> ValA(insn, op),
                   val_b |-> ReadReg(Src2(insn, op)),
                   val_imm |-> extract_immval(insn, op),
                   val_hw |-> IF op \in {"MOVZ", "MOVK"} THEN insn.hw ELSE 0,
                   dst |-> Dst(insn, op), status |-> D_out.status]
    /\ gpr' = WriteBack
    /\ UNCHANGED <<text, F_in, F_out, D_in, D_out, X_out, M_in, M_out, W_in,
                   W_out, ctl, nzcv, mem, W_wval, F_PC, dmem_status, status,
                   num_instr, output>>

----------------------------------------------------------------------------
(* fetch_instr: select_PC, imem, predict_PC.                               *)

\* Mutant: no correction of a branch wrongly predicted taken.
select_PC_uncorrected ==
    IF X_out.op = "RET" THEN X_out.val_a ELSE F_out.pred_PC

\* A RET is resolved when it is in X, a conditional branch when it is in M.
select_PC ==
    IF X_out.op = "RET" /\ X_out.val_a = RET_FROM_MAIN_ADDR THEN 0
    ELSE IF M_out.op = "B_COND" /\ ~M_out.cond_holds THEN M_out.seq_succ_PC
    ELSE IF X_out.op = "RET" THEN X_out.val_a
    ELSE F_out.pred_PC

\* Conditional branches are predicted taken.
predict_PC(pc, insn) ==
    IF insn.op \in {"B", "BL", "B_COND"} THEN (pc + insn.imm) % WordSize
                                         ELSE (pc + 1) % WordSize

imem_err(pc) == pc \notin 1..TextWords
imem(pc) ==
    IF imem_err(pc) THEN OutsideWords
    ELSE IF pc \in DOMAIN text THEN {text[pc]} ELSE {ZeroWord}

\* Mutant: a fetched HLT is forgotten.
MustHalt_forgetful == select_PC = 0

\* Fetch inserts a HLT once PC is 0, and ever after a HLT has been fetched.
MustHalt == select_PC = 0 \/ F_in.status = "HLT"

\* Mutant: only an invalid instruction is recorded in F_in.
Recorded_ins(st) == IF st = "INS" THEN [F_in EXCEPT !.status = st] ELSE F_in

\* in->status (F_out) and F_in->status both record what was fetched; only
\* the former goes back to AOK.
Recorded(st) == IF st = "AOK" THEN F_in ELSE [F_in EXCEPT !.status = st]

fetch_halt ==
    /\ stage = "fetch"
    /\ MustHalt
    /\ stage' = "hazards"
    /\ D_in' = [D_in EXCEPT !.insn = HltWord, !.op = "HLT", !.status = "HLT"]
    /\ F_out' = [F_out EXCEPT !.status = "HLT"]
    /\ F_in'  = Recorded("HLT")
    /\ UNCHANGED <<text, D_out, X_in, X_out, M_in, M_out, W_in, W_out, ctl,
                   gpr, nzcv, mem, W_wval, F_PC, dmem_status, status,
                   num_instr, output>>

fetch_instr ==
    /\ stage = "fetch"
    /\ ~MustHalt
    /\ stage' = "hazards"
    /\ LET pc == select_PC
       IN \E insn \in imem(pc) :
          LET st == IF imem_err(pc) \/ insn.op = "ERROR" THEN "INS"
                    ELSE IF insn.op = "HLT" THEN "HLT" ELSE "AOK"
          IN /\ D_in' = [insn |-> insn, op |-> insn.op,
                         seq_succ_PC |-> (pc + 1) % WordSize,
                         adrp_val |-> IF insn.op = "ADRP"
                                      THEN pc - (pc % PageWords) ELSE 0,
                         status |-> st]
             /\ F_PC' = predict_PC(pc, insn)
             /\ F_out' = [F_out EXCEPT !.status = st]
             /\ F_in' = Recorded(st)
    /\ UNCHANGED <<text, D_out, X_in, X_out, M_in, M_out, W_in, W_out, ctl,
                   gpr, nzcv, mem, W_wval, dmem_status, status, num_instr,
                   output>>

----------------------------------------------------------------------------
(* The rest of the loop body: the next prediction, the machine status, and *)
(* handle_hazards, whose checks for data and control hazards are stubs:    *)
(* only fetch ever stalls, behind a HLT or an invalid instruction.         *)

\* A request for both, or an earlier one, leaves the register in error.
pipe_control_stage(bubble, stall, old) ==
    IF (bubble /\ stall) \/ old = "P_ERROR" THEN "P_ERROR"
    ELSE IF bubble THEN "P_BUBBLE" ELSE IF stall THEN "P_STALL" ELSE "P_LOAD"

\* Mutant: the whole pipeline stalls behind a HLT, not fetch alone.
WantsStall_all(p) == F_out.status \in {"HLT", "INS"}

WantsStall(p) == p = "F" /\ F_out.status \in {"HLT", "INS"}

handle_hazards ==
    /\ stage = "hazards"
    /\ stage' = "clock"
    /\ F_in' = [F_in EXCEPT !.pred_PC = F_PC]
    /\ status' = W_out.status
    /\ ctl' = [p \in Pipes |-> pipe_control_stage(FALSE, WantsStall(p), ctl[p])]
    /\ UNCHANGED <<text, F_out, D_in, D_out, X_in, X_out, M_in, M_out, W_in,
                   W_out, gpr, nzcv, mem, W_wval, F_PC, dmem_status,
                   num_instr, output>>

\* What the out side of a register holds after the clock edge.
Clocked(p, in, out, zero) ==
    CASE ctl[p] = "P_LOAD" -> in
      [] ctl[p] = "P_STALL" -> out
      [] OTHER -> zero

\* Mutant: one cycle too many.
KeepsRunning_past(st, cycles) == st \in {"AOK", "BUB"} /\ cycles <= CycleMax

KeepsRunning(st, cycles) == st \in {"AOK", "BUB"} /\ cycles < CycleMax

clock_edge ==
    /\ stage = "clock"
    /\ gpr' = [gpr EXCEPT ![PC_SLOT] = F_PC]
    /\ F_out' = Clocked("F", F_in, F_out, ZeroF)
    /\ D_out' = Clocked("D", D_in, D_out, ZeroD)
    /\ X_out' = Clocked("X", X_in, X_out, ZeroX)
    /\ M_out' = Clocked("M", M_in, M_out, ZeroM)
    /\ W_out' = Clocked("W", W_in, W_out, ZeroW)
    /\ status' = IF \E p \in Pipes : ctl[p] = "P_ERROR" THEN "HLT" ELSE status
    /\ num_instr' = num_instr + 1
    /\ stage' = IF KeepsRunning(status', num_instr') THEN "wback" ELSE "done"
    /\ UNCHANGED <<text, F_in, D_in, X_in, M_in, W_in, ctl, nzcv, mem, W_wval,
                   F_PC, dmem_status, output>>

----------------------------------------------------------------------------

Stopped == stage \in {"done", "exited"}

\* runElf has returned or the process is gone: nothing moves any more.
run_over == Stopped /\ UNCHANGED vars

Step == \/ wback_instr \/ memory_trap \/ memory_instr \/ execute_instr
        \/ decode_instr \/ fetch_halt \/ fetch_instr \/ handle_hazards
        \/ clock_edge

Next == Step \/ run_over

\* The loop is one thread that nothing in the emulator blocks.
Spec == Init /\ [][Next]_vars /\ WF_vars(Step)

----------------------------------------------------------------------------
(* Properties.                                                             *)

Stages == {"wback", "memory", "execute", "decode", "fetch", "hazards",
           "clock", "done", "exited"}

\* Every variable keeps its type.  In particular a register number that
\* reaches regfile is at most 32, the last field of struct proc that the
\* out-of-bounds GPR[dst] may hit.
TypeOK ==
    /\ text \in Seq(Insns)
    /\ stage \in Stages
    /\ F_in \in FRegs /\ F_out \in FRegs
    /\ D_in \in DRegs /\ D_out \in DRegs
    /\ X_in \in XRegs /\ X_out \in XRegs
    /\ M_in \in MRegs /\ M_out \in MRegs
    /\ W_in \in WRegs /\ W_out \in WRegs
    /\ ctl \in [Pipes -> {"P_LOAD", "P_ERROR", "P_BUBBLE", "P_STALL"}]
    /\ gpr \in [RegSlots -> Word]
    /\ nzcv \in Nzcvs
    /\ mem \in [Word -> Word]
    /\ W_wval \in Word /\ F_PC \in Word
    /\ dmem_status \in {"READY", "ERROR"}
    /\ status \in Stats
    /\ num_instr \in 0..CycleMax
    /\ output \in Seq(Word)

\* An instruction that does nothing but carry the halt status.
IsHalt(reg) == reg.op = "HLT" /\ reg.status = "HLT"

\* When a HLT retires there are only HLTs behind it: no instruction fetched
\* after it can have stored, set flags or be about to write a register.
\* (fetch_instr keeps inserting HLTs; handle_hazards stalls only fetch.)
NothingAfterHalt ==
    stage = "wback" /\ W_out.status = "HLT" =>
        IsHalt(M_out) /\ IsHalt(X_out) /\ IsHalt(D_out)

\* After a data fault the machine runs at most to the end of the next cycle:
\* no cycle begins with dmem_status = ERROR unless the faulting access is the
\* instruction retiring in it.
FaultRetiresNext ==
    stage = "wback" /\ dmem_status = "ERROR" => W_out.status = "ADR"

\* Once a HLT has been fetched, on the right path or not, no later redirect
\* by an older RET or branch restarts fetch: F_PC never moves again.
HaltIsSticky ==
    [][F_in.status = "HLT" => F_in'.status = "HLT" /\ F_PC' = F_PC]_vars

\* A fetched HLT ends the run by its own retirement or by an older fault,
\* never by the cycle limit when five cycles were left.
HaltEndsRun ==
    (F_in.status = "HLT" /\ num_instr + 5 <= CycleMax /\ stage = "hazards")
        ~> (stage = "exited" \/ (stage = "done" /\ status \in {"HLT", "INS", "ADR"}))
=============================================================================
