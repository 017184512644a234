--------------------------- MODULE PipelineProof ---------------------------
(***************************************************************************)
(* Proofs about Pipeline, for every program, every ALU that returns a word *)
(* and flags, and every word size, cycle limit and memory layout; last,    *)
(* that it computes what the machine with delays computes.                 *)
(***************************************************************************)
EXTENDS DelayedIsa, WellFoundedInduction, TLAPS

\* The arithmetic of program counters and operands stays within a word.
LEMMA WordArith ==
    /\ 0 \in Word
    /\ \A i \in Int : i % WordSize \in Word
BY SizeAssumption DEF Word

\* PC to be fetched, and the base of its page.
LEMMA PageBase == \A pc \in Word : pc - (pc % PageWords) \in Word
<1> SUFFICES ASSUME NEW pc \in Word PROVE pc - (pc % PageWords) \in Word
    OBVIOUS
<1>1. pc \in Nat /\ pc < WordSize /\ PageWords \in Nat \ {0} /\ WordSize \in Nat
    BY SizeAssumption DEF Word
<1>2. pc % PageWords \in Nat /\ pc % PageWords <= pc
    BY <1>1
<1> QED BY <1>1, <1>2 DEF Word

\* The control signals of an opcode are control signals.
LEMMA ControlType ==
    ASSUME NEW op \in Opcodes
    PROVE  /\ XControl(op) \in XSigs
           /\ MControl(op) \in MSigs
           /\ WControl(op) \in WSigs
BY DEF XControl, MControl, WControl, XSigs, MSigs, WSigs

\* Every opcode has an ALU operation.
LEMMA AluOpType ==
    ASSUME NEW op \in Opcodes
    PROVE  decide_alu_op(op) \in AluOps
<1>1. CASE op \in SameNameOps
    BY <1>1 DEF decide_alu_op, SameNameOps, AluOps
<1>2. CASE op \notin SameNameOps
  <2>1. DOMAIN AluOpGroups \subseteq AluOps
      BY DEF AluOpGroups, AluOps
  <2> QED BY <1>2, <2>1 DEF decide_alu_op, AluOps
<1> QED BY <1>1, <1>2

\* Decode names only register file slots that exist.
LEMMA RegType ==
    ASSUME NEW insn \in Insns, NEW op \in Opcodes
    PROVE  /\ Src1(insn, op) \in RegSlots
           /\ Src2(insn, op) \in RegSlots
           /\ Dst(insn, op) \in RegSlots
           /\ extract_immval(insn, op) \in Int
           /\ insn.hw \in 0..3
           /\ insn.cond \in Conds
BY DEF Src1, Src2, Dst, RawSrc1, RawSrc2, RawDst, ZeroIf31, RegSlots, Insns,
       SP_NUM, XZR_NUM, extract_immval

\* The words fetch may get are instruction words.
LEMMA ImemType ==
    ASSUME text \in Seq(Insns), NEW pc \in Word
    PROVE  imem(pc) \subseteq Insns
<1>1. ZeroWord \in Insns
    BY DEF ZeroWord, Insns, Opcodes, Conds
<1> QED BY <1>1, ProgramAssumption DEF imem

\* The initial contents of the pipeline registers.
LEMMA ZeroTypes ==
    /\ ZeroF \in FRegs /\ ZeroD \in DRegs /\ ZeroX \in XRegs
    /\ ZeroM \in MRegs /\ ZeroW \in WRegs
    /\ HltWord \in Insns /\ ZeroWord \in Insns
<1>1. ZeroWord \in Insns /\ HltWord \in Insns
    BY DEF ZeroWord, HltWord, Insns, Opcodes, Conds
<1>2. NoXSigs \in XSigs /\ NoMSigs \in MSigs /\ NoWSigs \in WSigs
    BY DEF NoXSigs, NoMSigs, NoWSigs, XSigs, MSigs, WSigs
<1>3. ZeroF \in FRegs /\ ZeroD \in DRegs
    BY <1>1, WordArith DEF ZeroF, FRegs, ZeroD, DRegs, Stats, Opcodes
<1>4. ZeroX \in XRegs
    BY <1>2, WordArith
       DEF ZeroX, XRegs, Stats, Opcodes, AluOps, Conds, RegSlots
<1>5. ZeroM \in MRegs /\ ZeroW \in WRegs
    BY <1>2, WordArith DEF ZeroM, MRegs, ZeroW, WRegs, Stats, Opcodes, RegSlots
<1> QED BY <1>1, <1>3, <1>4, <1>5

----------------------------------------------------------------------------
(* Type correctness.  The cycle counter stays in range because the loop is *)
(* left when it reaches the limit.                                         *)

TypeInv == TypeOK /\ (~Stopped => num_instr < CycleMax)

\* The initial state is well typed: calloc'ed registers are bubbles.
LEMMA TypeInit == Init => TypeInv
<1> SUFFICES ASSUME Init PROVE TypeInv
    OBVIOUS
<1> USE DEF Init
<1>1. mem \in [Word -> Word] /\ text \in Seq(Insns)
    BY MemAssumption, ProgramAssumption
<1>2. /\ F_in \in FRegs /\ D_in \in DRegs /\ D_out \in DRegs
      /\ X_in \in XRegs /\ X_out \in XRegs /\ M_in \in MRegs
      /\ M_out \in MRegs /\ W_in \in WRegs /\ W_out \in WRegs
    BY ZeroTypes
<1>3. F_out \in FRegs
    BY WordArith DEF FRegs, Stats
<1>4. gpr \in [RegSlots -> Word]
    BY WordArith, MemAssumption DEF RegSlots, RET_FROM_MAIN_ADDR
<1>5. ctl \in [Pipes -> {"P_LOAD", "P_ERROR", "P_BUBBLE", "P_STALL"}]
    OBVIOUS
<1>6. W_wval \in Word /\ F_PC \in Word /\ nzcv \in Nzcvs /\ output \in Seq(Word)
    BY WordArith DEF Nzcvs
<1>7. num_instr \in 0..CycleMax /\ num_instr < CycleMax
    BY SizeAssumption
<1> QED
    BY <1>1, <1>2, <1>3, <1>4, <1>5, <1>6, <1>7
       DEF TypeInv, TypeOK, Stages, Stats

\* Writeback keeps the types.
LEMMA TypeWback == TypeInv /\ wback_instr => TypeInv'
BY DEF TypeInv, TypeOK, wback_instr, WriteValue, pipeVars, Stopped, Stages,
       WRegs, WSigs

\* A store puts a register value in memory, a load brings a word from it.
LEMMA TypeMemory == TypeInv /\ memory_instr => TypeInv'
<1> SUFFICES ASSUME TypeInv, memory_instr PROVE TypeInv'
    OBVIOUS
<1> USE DEF TypeInv, TypeOK
<1> DEFINE addr  == M_out.val_ex
           write == M_out.M_sigs.dmem_write
<1>1. addr \in Word /\ M_out.val_b \in Word
    BY DEF MRegs
<1>2. ReadValues(addr) \subseteq Word
    BY <1>1, MemAssumption, WordArith DEF ReadValues
<1>3. W_in' \in WRegs
  <2>1. W_in.val_mem \in Word
      BY DEF WRegs
  <2> QED
      BY <1>1, <1>2, <2>1 DEF memory_instr, MemStatus, MRegs, WRegs, Stats
<1>4. mem' \in [Word -> Word]
    BY <1>1 DEF memory_instr
<1>5. output' \in Seq(Word)
    BY <1>1 DEF memory_instr
<1>6. dmem_status' \in {"READY", "ERROR"}
    BY DEF memory_instr
<1> QED
    BY <1>3, <1>4, <1>5, <1>6 DEF memory_instr, Stages, Stopped

\* A trap address keeps the types.
LEMMA TypeTrap == TypeInv /\ memory_trap => TypeInv'
BY DEF TypeInv, TypeOK, memory_trap, pipeVars, Stopped, Stages

\* The ALU gets words: a negative immediate is converted to one.
LEMMA TypeExecute == TypeInv /\ execute_instr => TypeInv'
<1> SUFFICES ASSUME TypeInv, execute_instr PROVE TypeInv'
    OBVIOUS
<1> USE DEF TypeInv, TypeOK
<1> DEFINE operandB == IF X_out.X_sigs.valb_sel THEN X_out.val_b
                       ELSE X_out.val_imm % WordSize
           res == alu(X_out.ALU_op, X_out.val_a, operandB, X_out.val_hw)
           cc  == IF X_out.X_sigs.set_CC THEN res.cc ELSE nzcv
<1>1. /\ X_out.val_a \in Word /\ X_out.val_b \in Word
      /\ X_out.val_imm \in Int /\ X_out.val_hw \in 0..3
      /\ X_out.ALU_op \in AluOps
    BY DEF XRegs
<1>2. operandB \in Word
    BY <1>1, WordArith
<1>3. res \in [val_e : Word, cc : Nzcvs]
    BY <1>1, <1>2, AluAssumption
<1>4. cc \in Nzcvs
    BY <1>3
<1>5. cond_holds(X_out.cond, cc) \in BOOLEAN
    BY DEF cond_holds
<1>6. nzcv' = cc
    BY DEF execute_instr
<1>7. M_in' = [op |-> X_out.op, seq_succ_PC |-> X_out.seq_succ_PC,
               cond_holds |-> cond_holds(X_out.cond, cc),
               M_sigs |-> X_out.M_sigs, W_sigs |-> X_out.W_sigs,
               val_b |-> X_out.val_b, dst |-> X_out.dst,
               val_ex |-> res.val_e, status |-> X_out.status]
    BY DEF execute_instr
<1>8. M_in' \in MRegs
  <2> HIDE DEF res, cc, operandB
  <2> QED BY <1>3, <1>5, <1>7 DEF XRegs, MRegs
<1> QED
  <2> HIDE DEF res, cc, operandB
  <2> QED BY <1>4, <1>6, <1>8 DEF execute_instr, Stages, Stopped

\* The register file is read and written at existing slots.
LEMMA TypeDecode == TypeInv /\ decode_instr => TypeInv'
<1> SUFFICES ASSUME TypeInv, decode_instr PROVE TypeInv'
    OBVIOUS
<1> USE DEF TypeInv, TypeOK
<1> DEFINE insn == D_out.insn
           op   == D_out.op
<1>1. insn \in Insns /\ op \in Opcodes /\ D_out.adrp_val \in Word
    BY DEF DRegs
<1>2. \A slot \in RegSlots : ReadReg(slot) \in Word
    BY WordArith DEF ReadReg
<1>3. ReadReg(Src1(insn, op)) \in Word /\ ReadReg(Src2(insn, op)) \in Word
    BY <1>1, <1>2, RegType
<1>4. insn.hw \in 0..3
    BY <1>1, RegType
<1>5. ValA(insn, op) \in Word
  <2>1. clear_chunk(ReadReg(Src1(insn, op)), insn.hw) \in Word
      BY <1>3, <1>4, AluAssumption
  <2> QED BY <1>1, <1>3, <2>1, WordArith DEF ValA
<1>6. X_in' \in XRegs
  <2>1. X_in.cond \in Conds
      BY DEF XRegs
  <2>2. (IF op = "B_COND" THEN insn.cond ELSE X_in.cond) \in Conds
      BY <1>1, <2>1, RegType
  <2>3. (IF op \in {"MOVZ", "MOVK"} THEN insn.hw ELSE 0) \in 0..3
      BY <1>4
  <2>4. /\ XControl(op) \in XSigs /\ MControl(op) \in MSigs
        /\ WControl(op) \in WSigs /\ decide_alu_op(op) \in AluOps
      BY <1>1, ControlType, AluOpType
  <2>5. extract_immval(insn, op) \in Int /\ Dst(insn, op) \in RegSlots
      BY <1>1, RegType
  <2>6. D_out.seq_succ_PC \in Word /\ D_out.status \in Stats
      BY DEF DRegs
  <2> QED
      BY <1>1, <1>3, <1>5, <2>2, <2>3, <2>4, <2>5, <2>6
         DEF decode_instr, XRegs
<1>7. gpr' \in [RegSlots -> Word]
  <2>1. W_out.dst \in RegSlots
      BY DEF WRegs
  <2> QED BY <2>1 DEF decode_instr, WriteBack
<1> QED
    BY <1>6, <1>7 DEF decode_instr, Stages, Stopped

\* What select_PC and predict_PC return is a program counter.
LEMMA PcType ==
    ASSUME TypeInv
    PROVE  /\ select_PC \in Word
           /\ \A pc \in Word, insn \in Insns : predict_PC(pc, insn) \in Word
<1> USE DEF TypeInv, TypeOK
<1>1. select_PC \in Word
    BY WordArith DEF select_PC, XRegs, MRegs, FRegs
<1>2. ASSUME NEW pc \in Word, NEW insn \in Insns
      PROVE  predict_PC(pc, insn) \in Word
  <2>1. pc \in Int /\ insn.imm \in Int
      BY SizeAssumption DEF Word, Insns
  <2>2. pc + insn.imm \in Int /\ pc + 1 \in Int
      BY <2>1
  <2> QED BY <2>2, WordArith DEF predict_PC
<1> QED BY <1>1, <1>2

\* A fetch behind a halt keeps the types.
LEMMA TypeFetchHalt == TypeInv /\ fetch_halt => TypeInv'
<1> SUFFICES ASSUME TypeInv, fetch_halt PROVE TypeInv'
    OBVIOUS
<1> USE DEF TypeInv, TypeOK
<1>1. D_in' \in DRegs
    BY ZeroTypes DEF fetch_halt, DRegs, Stats, Opcodes
<1>2. F_in' \in FRegs /\ F_out' \in FRegs
    BY DEF fetch_halt, Recorded, FRegs, Stats
<1> QED BY <1>1, <1>2 DEF fetch_halt, Stages, Stopped

\* Any other fetch keeps the types.
LEMMA TypeFetch == TypeInv /\ fetch_instr => TypeInv'
<1> SUFFICES ASSUME TypeInv, fetch_instr PROVE TypeInv'
    OBVIOUS
<1>1. select_PC \in Word
    BY PcType
<1>2. PICK insn \in imem(select_PC) :
        LET pc == select_PC
            st == IF imem_err(pc) \/ insn.op = "ERROR" THEN "INS"
                  ELSE IF insn.op = "HLT" THEN "HLT" ELSE "AOK"
        IN /\ D_in' = [insn |-> insn, op |-> insn.op,
                       seq_succ_PC |-> (pc + 1) % WordSize,
                       adrp_val |-> IF insn.op = "ADRP"
                                    THEN pc - (pc % PageWords) ELSE 0,
                       status |-> st]
           /\ F_PC' = predict_PC(pc, insn)
           /\ F_out' = [F_out EXCEPT !.status = st]
           /\ F_in' = Recorded(st)
    BY DEF fetch_instr
<1>3. insn \in Insns
    BY <1>1, <1>2, ImemType DEF TypeInv, TypeOK
<1> DEFINE st == IF imem_err(select_PC) \/ insn.op = "ERROR" THEN "INS"
                 ELSE IF insn.op = "HLT" THEN "HLT" ELSE "AOK"
<1>4. st \in Stats
    BY DEF Stats
<1>5. F_PC' \in Word
    BY <1>1, <1>2, <1>3, PcType
<1>6. F_out' \in FRegs /\ F_in' \in FRegs
    BY <1>2, <1>4 DEF TypeInv, TypeOK, Recorded, FRegs
<1>7. D_in' \in DRegs
  <2>1. (select_PC + 1) % WordSize \in Word
    <3>1. select_PC + 1 \in Int
        BY <1>1, SizeAssumption DEF Word
    <3> QED BY <3>1, WordArith
  <2>2. (IF insn.op = "ADRP" THEN select_PC - (select_PC % PageWords) ELSE 0)
          \in Word
      BY <1>1, PageBase, WordArith
  <2>3. insn.op \in Opcodes
      BY <1>3 DEF Insns
  <2> HIDE DEF st
  <2>4. D_in' = [insn |-> insn, op |-> insn.op,
                 seq_succ_PC |-> (select_PC + 1) % WordSize,
                 adrp_val |-> IF insn.op = "ADRP"
                              THEN select_PC - (select_PC % PageWords) ELSE 0,
                 status |-> st]
      BY <1>2 DEF st
  <2> QED BY <1>3, <1>4, <2>1, <2>2, <2>3, <2>4 DEF DRegs
<1> QED
    BY <1>5, <1>6, <1>7 DEF TypeInv, TypeOK, fetch_instr, Stages, Stopped

\* The control signals keep the types.
LEMMA TypeHazards == TypeInv /\ handle_hazards => TypeInv'
<1> SUFFICES ASSUME TypeInv, handle_hazards PROVE TypeInv'
    OBVIOUS
<1> USE DEF TypeInv, TypeOK
<1>1. ctl' \in [Pipes -> {"P_LOAD", "P_ERROR", "P_BUBBLE", "P_STALL"}]
    BY DEF handle_hazards, pipe_control_stage
<1>2. F_in' \in FRegs /\ status' \in Stats
    BY DEF handle_hazards, FRegs, WRegs
<1> QED BY <1>1, <1>2 DEF handle_hazards, Stages, Stopped

\* The clock edge leaves the in side, the out side or a bubble.
LEMMA TypeClock == TypeInv /\ clock_edge => TypeInv'
<1> SUFFICES ASSUME TypeInv, clock_edge PROVE TypeInv'
    OBVIOUS
<1> USE DEF TypeInv, TypeOK
<1>1. /\ F_out' \in FRegs /\ D_out' \in DRegs /\ X_out' \in XRegs
      /\ M_out' \in MRegs /\ W_out' \in WRegs
    BY ZeroTypes DEF clock_edge, Clocked
<1>2. gpr' \in [RegSlots -> Word]
    BY DEF clock_edge, RegSlots, PC_SLOT
<1>3. status' \in Stats
    BY DEF clock_edge, Stats
<1>4. num_instr' \in 0..CycleMax
    BY SizeAssumption DEF clock_edge, Stopped
<1>5. ~Stopped' => num_instr' < CycleMax
    BY DEF clock_edge, Stopped, KeepsRunning
<1>6. stage' \in Stages
    BY DEF clock_edge, Stages
<1> QED BY <1>1, <1>2, <1>3, <1>4, <1>5, <1>6 DEF clock_edge

\* Every step keeps the types.
LEMMA TypeStep == TypeInv /\ [Next]_vars => TypeInv'
<1> SUFFICES ASSUME TypeInv, [Next]_vars PROVE TypeInv'
    OBVIOUS
<1>1. CASE wback_instr
    BY <1>1, TypeWback
<1>2. CASE memory_trap
    BY <1>2, TypeTrap
<1>3. CASE memory_instr
    BY <1>3, TypeMemory
<1>4. CASE execute_instr
    BY <1>4, TypeExecute
<1>5. CASE decode_instr
    BY <1>5, TypeDecode
<1>6. CASE fetch_halt
    BY <1>6, TypeFetchHalt
<1>7. CASE fetch_instr
    BY <1>7, TypeFetch
<1>8. CASE handle_hazards
    BY <1>8, TypeHazards
<1>9. CASE clock_edge
    BY <1>9, TypeClock
<1>10. CASE UNCHANGED vars
    BY <1>10 DEF TypeInv, TypeOK, vars, pipeVars, Stopped
<1> QED
    BY <1>1, <1>2, <1>3, <1>4, <1>5, <1>6, <1>7, <1>8, <1>9, <1>10
       DEF Next, Step, run_over

\* Every reachable state is well typed; in particular what decode hands to
\* regfile as dst never exceeds 32, the last field the out-of-range index
\* may hit (regfile in hw_elts.c, struct proc in proc.h).
THEOREM TypeCorrect == Spec => []TypeOK
<1>1. TypeInv => TypeOK
    BY DEF TypeInv
<1> QED BY <1>1, TypeInit, TypeStep, PTL DEF Spec

----------------------------------------------------------------------------
(* What a HLT leaves behind it.  NothingAfterHalt speaks of the start of a *)
(* cycle only; the induction follows the HLTs through the stage functions, *)
(* each of which has run or not yet run at a given point of the loop body. *)

AfterMemory  == {"execute", "decode", "fetch", "hazards", "clock"}
AfterExecute == AfterMemory \ {"execute"}
AfterDecode  == AfterExecute \ {"decode"}
AfterFetch   == AfterDecode \ {"fetch"}

\* A HLT status travels with a HLT opcode, and has HLTs behind it.
HaltChain ==
    /\ W_out.status = "HLT" => IsHalt(M_out)
    /\ M_out.status = "HLT" => IsHalt(M_out) /\ IsHalt(X_out)
    /\ X_out.status = "HLT" => IsHalt(X_out) /\ IsHalt(D_out)
    /\ D_out.status = "HLT" => IsHalt(D_out) /\ F_in.status = "HLT"

\* The in sides hold what the stage functions copied from the out sides.
InSides ==
    /\ stage \in AfterMemory /\ W_in.status = "HLT" => M_out.status = "HLT"
    /\ stage \in AfterExecute =>
           M_in.status = X_out.status /\ M_in.op = X_out.op
    /\ stage \in AfterDecode =>
           X_in.status = D_out.status /\ X_in.op = D_out.op
    /\ stage \in AfterFetch =>
           /\ F_in.status = "HLT" => IsHalt(D_in)
           /\ D_in.status = "HLT" => IsHalt(D_in) /\ F_in.status = "HLT"

\* Nothing but fetch is ever stalled, and no register is ever in error.
Controls ==
    /\ \A p \in Pipes : ctl[p] # "P_ERROR"
    /\ stage = "clock" => \A p \in Pipes \ {"F"} : ctl[p] = "P_LOAD"

HaltInv == TypeInv /\ Controls /\ (~Stopped => HaltChain /\ InSides)

\* The halt invariant holds at the start.
LEMMA HaltInit == Init => HaltInv
<1> SUFFICES ASSUME Init PROVE HaltInv
    OBVIOUS
<1>1. TypeInv
    BY TypeInit
<1>2. Controls
    BY DEF Init, Controls
<1>3. HaltChain
    BY DEF Init, HaltChain, ZeroW, ZeroM, ZeroX, ZeroD
<1>4. InSides
    BY DEF Init, InSides, AfterMemory, AfterExecute, AfterDecode, AfterFetch
<1> QED BY <1>1, <1>2, <1>3, <1>4 DEF HaltInv

\* The stage functions change no out side but that of fetch: the chain stands
\* while they run, and one more in side joins it.
LEMMA HaltStages ==
    HaltInv /\ (wback_instr \/ memory_instr \/ execute_instr \/ decode_instr)
        => Controls' /\ HaltChain' /\ InSides'
<1> SUFFICES ASSUME HaltInv,
                    wback_instr \/ memory_instr \/ execute_instr \/ decode_instr
             PROVE  Controls' /\ HaltChain' /\ InSides'
    OBVIOUS
<1> USE DEF HaltInv, Stopped
<1>1. /\ UNCHANGED <<D_out, X_out, M_out, W_out, F_in, D_in, ctl>>
      /\ stage' \notin {"clock", "done", "exited"}
      /\ stage \notin {"done", "exited"}
    BY DEF wback_instr, memory_instr, execute_instr, decode_instr, pipeVars
<1>2. Controls' /\ HaltChain'
    BY <1>1 DEF Controls, HaltChain, IsHalt
<1> USE DEF AfterMemory, AfterExecute, AfterDecode, AfterFetch
<1>3. CASE wback_instr
    BY <1>1, <1>2, <1>3 DEF wback_instr, InSides
<1>4. CASE memory_instr
    BY <1>1, <1>2, <1>4 DEF memory_instr, InSides, MemStatus
<1>5. CASE execute_instr
    BY <1>1, <1>2, <1>5 DEF execute_instr, InSides
<1>6. CASE decode_instr
    BY <1>1, <1>2, <1>6 DEF decode_instr, InSides
<1> QED BY <1>2, <1>3, <1>4, <1>5, <1>6

\* Once F_in carries HLT, what fetch hands to decode is a HLT.
LEMMA HaltFetch ==
    HaltInv /\ (fetch_halt \/ fetch_instr)
        => Controls' /\ HaltChain' /\ InSides'
<1> SUFFICES ASSUME HaltInv, fetch_halt \/ fetch_instr
             PROVE  Controls' /\ HaltChain' /\ InSides'
    OBVIOUS
<1> USE DEF HaltInv, Stopped
<1>1. /\ UNCHANGED <<D_out, X_out, X_in, M_out, M_in, W_out, W_in, ctl>>
      /\ stage = "fetch" /\ stage' = "hazards"
    BY DEF fetch_halt, fetch_instr
<1>2. F_in \in FRegs /\ D_in \in DRegs
    BY DEF TypeInv, TypeOK
<1>3. /\ F_in.status = "HLT" => F_in'.status = "HLT"
      /\ F_in'.status = "HLT" => IsHalt(D_in)'
      /\ D_in'.status = "HLT" => IsHalt(D_in)' /\ F_in'.status = "HLT"
  <2>1. CASE fetch_halt
      BY <1>2, <2>1 DEF fetch_halt, Recorded, IsHalt, FRegs, DRegs
  <2>2. CASE fetch_instr
    <3>1. F_in.status # "HLT"
        BY <2>2 DEF fetch_instr, MustHalt
    <3>2. PICK insn \in imem(select_PC), st \in {"INS", "HLT", "AOK"} :
             /\ st = "HLT" => insn.op = "HLT"
             /\ D_in'.op = insn.op /\ D_in'.status = st
             /\ F_in' = Recorded(st)
        BY <2>2 DEF fetch_instr
    <3> QED BY <1>2, <3>1, <3>2 DEF Recorded, IsHalt, FRegs
  <2> QED BY <2>1, <2>2
<1>4. Controls'
    BY <1>1 DEF Controls
<1>5. HaltChain'
    BY <1>1, <1>3 DEF HaltChain, IsHalt
<1>6. InSides'
    BY <1>1, <1>3
       DEF InSides, AfterMemory, AfterExecute, AfterDecode, AfterFetch
<1> QED BY <1>4, <1>5, <1>6

\* handle_hazards asks only for F to be stalled.
LEMMA HaltHazards ==
    HaltInv /\ handle_hazards => Controls' /\ HaltChain' /\ InSides'
<1> SUFFICES ASSUME HaltInv, handle_hazards
             PROVE  Controls' /\ HaltChain' /\ InSides'
    OBVIOUS
<1> USE DEF HaltInv, Stopped
<1>1. /\ UNCHANGED <<D_in, D_out, X_out, X_in, M_out, M_in, W_out, W_in>>
      /\ stage = "hazards" /\ stage' = "clock"
    BY DEF handle_hazards
<1>2. F_in'.status = F_in.status
    BY DEF handle_hazards, TypeInv, TypeOK, FRegs
<1>3. \A p \in Pipes : ctl'[p] =
         pipe_control_stage(FALSE, WantsStall(p), ctl[p])
    BY DEF handle_hazards
<1>4. Controls'
    BY <1>1, <1>3 DEF Controls, pipe_control_stage, WantsStall
<1>5. HaltChain'
    BY <1>1, <1>2 DEF HaltChain, IsHalt
<1>6. InSides'
    BY <1>1, <1>2
       DEF InSides, IsHalt, AfterMemory, AfterExecute, AfterDecode, AfterFetch
<1> QED BY <1>4, <1>5, <1>6

\* At the clock edge the in sides become the out sides.
LEMMA HaltClock == HaltInv /\ clock_edge => Controls' /\ HaltChain' /\ InSides'
<1> SUFFICES ASSUME HaltInv, clock_edge
             PROVE  Controls' /\ HaltChain' /\ InSides'
    OBVIOUS
<1> USE DEF HaltInv, Stopped
<1>1. stage = "clock" /\ stage' \in {"wback", "done"} /\ UNCHANGED <<ctl, F_in>>
    BY DEF clock_edge
<1>2. \A p \in {"D", "X", "M", "W"} : ctl[p] = "P_LOAD"
    BY <1>1 DEF Controls, Pipes
<1>3. D_out' = D_in /\ X_out' = X_in /\ M_out' = M_in /\ W_out' = W_in
    BY <1>2 DEF clock_edge, Clocked
<1>4. Controls'
    BY <1>1 DEF Controls
<1>5. HaltChain'
    BY <1>1, <1>3
       DEF HaltChain, InSides, IsHalt, AfterMemory, AfterExecute, AfterDecode,
           AfterFetch
<1>6. InSides'
    BY <1>1 DEF InSides, AfterMemory, AfterExecute, AfterDecode, AfterFetch
<1> QED BY <1>4, <1>5, <1>6

\* Every step keeps the halt invariant.
LEMMA HaltStep == HaltInv /\ [Next]_vars => HaltInv'
<1> SUFFICES ASSUME HaltInv, [Next]_vars PROVE HaltInv'
    OBVIOUS
<1>1. TypeInv'
    BY TypeStep DEF HaltInv
<1>2. CASE wback_instr \/ memory_instr \/ execute_instr \/ decode_instr
    BY <1>1, <1>2, HaltStages DEF HaltInv
<1>3. CASE fetch_halt \/ fetch_instr
    BY <1>1, <1>3, HaltFetch DEF HaltInv
<1>4. CASE handle_hazards
    BY <1>1, <1>4, HaltHazards DEF HaltInv
<1>5. CASE clock_edge
    BY <1>1, <1>5, HaltClock DEF HaltInv
<1>6. CASE memory_trap
    BY <1>1, <1>6 DEF HaltInv, Controls, memory_trap, Stopped
<1>7. CASE UNCHANGED vars
    BY <1>1, <1>7
       DEF HaltInv, Controls, HaltChain, InSides, IsHalt, Stopped, vars, pipeVars
<1> QED
    BY <1>2, <1>3, <1>4, <1>5, <1>6, <1>7 DEF Next, Step, run_over

\* When a HLT retires, everything younger in the pipeline is a HLT too, so
\* that no instruction fetched after it has had or can have an effect
\* (fetch_instr inserts HLTs, handle_hazards stalls fetch and nothing else).
THEOREM HaltCorrect == Spec => []NothingAfterHalt
<1>1. HaltInv => NothingAfterHalt
    BY DEF HaltInv, HaltChain, NothingAfterHalt, Stopped, IsHalt
<1> QED BY <1>1, HaltInit, HaltStep, PTL DEF Spec

\* No older RET or branch restarts fetch after a HLT has been fetched, on the
\* right path or not: select_PC is no longer consulted (fetch_instr).
THEOREM HaltSticks == Spec => HaltIsSticky
<1>1. HaltInv /\ [Next]_vars =>
          [F_in.status = "HLT" => F_in'.status = "HLT" /\ F_PC' = F_PC]_vars
  <2> SUFFICES ASSUME TypeInv, Next, F_in.status = "HLT"
               PROVE  F_in'.status = "HLT" /\ F_PC' = F_PC
      BY DEF HaltInv
  <2>1. F_in \in FRegs
      BY DEF TypeInv, TypeOK
  <2>2. ~fetch_instr
      BY DEF fetch_instr, MustHalt
  <2>3. CASE fetch_halt
      BY <2>1, <2>3 DEF fetch_halt, Recorded, FRegs
  <2>4. CASE handle_hazards
      BY <2>1, <2>4 DEF handle_hazards, FRegs
  <2>5. CASE wback_instr \/ memory_trap \/ memory_instr \/ execute_instr
               \/ decode_instr \/ clock_edge \/ run_over
      BY <2>5 DEF wback_instr, memory_trap, memory_instr, execute_instr,
                  decode_instr, clock_edge, run_over, vars, pipeVars
  <2> QED BY <2>2, <2>3, <2>4, <2>5 DEF Next, Step
<1> QED BY <1>1, HaltInit, HaltStep, PTL DEF Spec, HaltIsSticky

----------------------------------------------------------------------------
(* dmem_status is never reset: the faulting instruction must end the run.  *)

FaultInv ==
    /\ TypeInv /\ Controls
    /\ stage \in {"wback", "memory"} /\ dmem_status = "ERROR"
           => W_out.status = "ADR"
    /\ stage \in AfterMemory /\ dmem_status = "ERROR"
           => "ADR" \in {W_in.status, W_out.status}
    /\ stage = "clock" => status = W_out.status

\* Controls does not depend on the contents of the pipeline.
LEMMA ControlsStep == Controls /\ [Next]_vars => Controls'
<1> SUFFICES ASSUME Controls, [Next]_vars PROVE Controls'
    OBVIOUS
<1>1. CASE handle_hazards
  <2>1. \A p \in Pipes : ctl'[p] =
           pipe_control_stage(FALSE, WantsStall(p), ctl[p])
      BY <1>1 DEF handle_hazards
  <2> QED BY <2>1 DEF Controls, pipe_control_stage, WantsStall
<1>2. CASE wback_instr \/ memory_trap \/ memory_instr \/ execute_instr
             \/ decode_instr \/ fetch_halt \/ fetch_instr \/ clock_edge
    BY <1>2 DEF Controls, wback_instr, memory_trap, memory_instr, execute_instr,
                decode_instr, fetch_halt, fetch_instr, clock_edge
<1>3. CASE UNCHANGED vars
    BY <1>3 DEF Controls, vars
<1> QED BY <1>1, <1>2, <1>3 DEF Next, Step, run_over

\* Every step keeps the fault invariant.
LEMMA FaultStep == FaultInv /\ [Next]_vars => FaultInv'
<1> SUFFICES ASSUME FaultInv, [Next]_vars PROVE FaultInv'
    OBVIOUS
<1>1. TypeInv' /\ Controls'
    BY TypeStep, ControlsStep DEF FaultInv
<1> USE DEF FaultInv, AfterMemory
<1>2. CASE memory_instr
    BY <1>1, <1>2 DEF memory_instr, MemStatus
<1>3. CASE clock_edge
  <2>1. ctl["W"] = "P_LOAD" /\ \A p \in Pipes : ctl[p] # "P_ERROR"
      BY <1>3 DEF clock_edge, Controls, Pipes
  <2>2. W_out' = W_in /\ status' = W_out.status /\ stage = "clock"
      BY <1>3, <2>1 DEF clock_edge, Clocked
  <2>3. dmem_status = "ERROR" /\ stage' = "wback" => W_in.status = "ADR"
      BY <1>3, <2>2 DEF clock_edge, KeepsRunning
  <2>4. dmem_status' = dmem_status /\ stage' \in {"wback", "done"}
      BY <1>3 DEF clock_edge
  <2> QED BY <1>1, <2>2, <2>3, <2>4
<1>4. CASE handle_hazards
    BY <1>1, <1>4 DEF handle_hazards
<1>5. CASE wback_instr \/ memory_trap \/ execute_instr \/ decode_instr
             \/ fetch_halt \/ fetch_instr
    BY <1>1, <1>5 DEF wback_instr, memory_trap, execute_instr, decode_instr,
                      fetch_halt, fetch_instr, pipeVars
<1>6. CASE UNCHANGED vars
    BY <1>1, <1>6 DEF vars, pipeVars
<1> QED
    BY <1>2, <1>3, <1>4, <1>5, <1>6 DEF Next, Step, run_over

\* A data fault stops the machine with the faulting instruction at retirement:
\* no further cycle begins (memory_instr, the loop condition of runElf).
THEOREM FaultCorrect == Spec => []FaultRetiresNext
<1>1. Init => FaultInv
  <2>1. Init => TypeInv
      BY TypeInit
  <2> QED BY <2>1 DEF Init, FaultInv, Controls, AfterMemory
<1>2. FaultInv => FaultRetiresNext
    BY DEF FaultInv, FaultRetiresNext
<1> QED BY <1>1, <1>2, FaultStep, PTL DEF Spec

----------------------------------------------------------------------------
(* The machines without a pipeline have runs of any length.  What is       *)
(* needed of the natural numbers is that a set of them has a least member. *)

Precedes == {p \in Nat \X Nat : p[1] < p[2]}

\* There is no endless descent in the natural numbers.
LEMMA PrecedesWellFounded == IsWellFoundedOn(Precedes, Nat)
BY NatLessThanWellFounded DEF OpToRel, Precedes

\* A set of natural numbers that is not empty has a least one.
LEMMA Least ==
    ASSUME NEW T \in SUBSET Nat, T # {}
    PROVE  \E x \in T : \A y \in T : x <= y
<1>1. \E x \in T : \A y \in T : ~(<<y, x>> \in Precedes)
    BY PrecedesWellFounded, WFMin
<1>2. PICK x \in T : \A y \in T : ~(<<y, x>> \in Precedes)
    BY <1>1
<1>3. ASSUME NEW y \in T PROVE x <= y
  <2>1. ~(<<y, x>> \in Precedes)
      BY <1>2
  <2>2. y \in Nat /\ x \in Nat
      BY <1>2
  <2>3. ~(y < x)
      BY <2>1, <2>2 DEF Precedes
  <2> QED BY <2>2, <2>3
<1> QED BY <1>2, <1>3

\* The two machines of DelayedIsa, as one.
First(kind, m) == IF kind = "isa" THEN IsaStart(m) ELSE Start(m)
After(kind, p, s) == IF kind = "isa" THEN IsaStep(p, s) ELSE DelayedStep(p, s)

\* f is the run of n instructions.
IsRunOf(f, n, kind, p, m) ==
    f = [k \in 0..n |-> IF k = 0 THEN First(kind, m) ELSE After(kind, p, f[k - 1])]

\* There is a run of n instructions.
LEMMA RunExists ==
    ASSUME NEW kind, NEW p, NEW m, NEW n \in Nat
    PROVE  \E f : IsRunOf(f, n, kind, p, m)
<1> DEFINE T == {k \in Nat : ~\E f : IsRunOf(f, k, kind, p, m)}
<1> SUFFICES ASSUME T # {} PROVE FALSE
    OBVIOUS
<1>1. PICK x \in T : \A y \in T : x <= y
    BY Least
<1>2. x \in Nat /\ ~\E f : IsRunOf(f, x, kind, p, m)
    OBVIOUS
<1>3. CASE x = 0
  <2>1. IsRunOf([k \in 0..0 |-> First(kind, m)], 0, kind, p, m)
      BY DEF IsRunOf
  <2> QED BY <1>2, <1>3, <2>1
<1>4. CASE x # 0
  <2>1. x - 1 \in Nat /\ ~(x <= x - 1)
      BY <1>2, <1>4
  <2>2. x - 1 \notin T
      BY <1>1, <2>1
  <2>3. PICK f : IsRunOf(f, x - 1, kind, p, m)
      BY <2>1, <2>2
  <2> DEFINE g == [k \in 0..x |-> IF k < x THEN f[k] ELSE After(kind, p, f[x - 1])]
  <2>4. ASSUME NEW k \in 0..x
        PROVE  g[k] = IF k = 0 THEN First(kind, m) ELSE After(kind, p, g[k - 1])
    <3>1. CASE k = x
        BY <1>2, <1>4, <3>1
    <3>2. CASE k < x
      <4>1. k \in 0..(x - 1)
          BY <1>2, <3>2
      <4>2. f[k] = IF k = 0 THEN First(kind, m) ELSE After(kind, p, f[k - 1])
          BY <2>3, <4>1 DEF IsRunOf
      <4>3. g[k] = f[k]
          BY <3>2
      <4>4. k # 0 => g[k - 1] = f[k - 1]
          BY <1>2, <3>2
      <4> QED BY <4>2, <4>3, <4>4
    <3> QED BY <1>2, <3>1, <3>2
  <2>5. IsRunOf(g, x, kind, p, m)
    <3>1. g = [k \in 0..x |-> g[k]]
        OBVIOUS
    <3> HIDE DEF g
    <3> QED BY <2>4, <3>1 DEF IsRunOf
  <2> QED BY <1>2, <2>5
<1> QED BY <1>3, <1>4

\* Two runs agree as far as both go.
LEMMA RunsAgree ==
    ASSUME NEW kind, NEW p, NEW m, NEW i \in Nat, NEW j \in Nat, NEW f, NEW g,
           IsRunOf(f, i, kind, p, m), IsRunOf(g, j, kind, p, m), NEW n \in Nat,
           n <= i, n <= j
    PROVE  f[n] = g[n]
<1> DEFINE T == {k \in Nat : k <= i /\ k <= j /\ f[k] # g[k]}
<1> SUFFICES ASSUME T # {} PROVE FALSE
    OBVIOUS
<1>1. PICK x \in T : \A y \in T : x <= y
    BY Least
<1>2. x \in Nat /\ x \in 0..i /\ x \in 0..j /\ f[x] # g[x]
    OBVIOUS
<1>3. /\ f[x] = IF x = 0 THEN First(kind, m) ELSE After(kind, p, f[x - 1])
      /\ g[x] = IF x = 0 THEN First(kind, m) ELSE After(kind, p, g[x - 1])
    BY <1>2 DEF IsRunOf
<1>4. x # 0 /\ f[x - 1] # g[x - 1]
    BY <1>2, <1>3
<1>5. x - 1 \in T /\ ~(x <= x - 1)
    BY <1>2, <1>4
<1> QED BY <1>1, <1>5

\* f is the run without end.
IsEndless(f, kind, p, m) ==
    f = [k \in Nat |-> IF k = 0 THEN First(kind, m) ELSE After(kind, p, f[k - 1])]

\* Each machine has a run without end.
LEMMA EndlessRun ==
    ASSUME NEW kind, NEW p, NEW m
    PROVE  \E f : IsEndless(f, kind, p, m)
<1> DEFINE upto(n) == CHOOSE f : IsRunOf(f, n, kind, p, m)
           run == [n \in Nat |-> upto(n)[n]]
<1>1. ASSUME NEW n \in Nat PROVE IsRunOf(upto(n), n, kind, p, m)
    BY RunExists
<1>2. ASSUME NEW k \in Nat
      PROVE  run[k] = IF k = 0 THEN First(kind, m) ELSE After(kind, p, run[k - 1])
  <2>1. IsRunOf(upto(k), k, kind, p, m)
      BY <1>1
  <2> HIDE DEF upto
  <2>2. upto(k)[k] = IF k = 0 THEN First(kind, m) ELSE After(kind, p, upto(k)[k - 1])
      BY <2>1 DEF IsRunOf
  <2>3. ASSUME k # 0 PROVE upto(k)[k - 1] = run[k - 1]
    <3>1. k - 1 \in Nat /\ k - 1 <= k
        BY <2>3
    <3>2. IsRunOf(upto(k - 1), k - 1, kind, p, m)
        BY <1>1, <3>1
    <3>3. upto(k)[k - 1] = upto(k - 1)[k - 1]
        BY <2>1, <3>1, <3>2, RunsAgree
    <3> QED BY <3>1, <3>3
  <2> QED BY <2>2, <2>3
<1>3. run = [n \in Nat |-> run[n]]
    OBVIOUS
<1> HIDE DEF run
<1>4. run = [k \in Nat |-> IF k = 0 THEN First(kind, m) ELSE After(kind, p, run[k - 1])]
    BY <1>2, <1>3
<1> QED BY <1>4 DEF IsEndless

\* What the definition of Delayed says: the machine starts in Start and takes
\* one step per instruction.
LEMMA DelayedRun ==
    ASSUME NEW p, NEW m
    PROVE  /\ Delayed(p, m)[0] = Start(m)
           /\ \A k \in Nat :
                 Delayed(p, m)[k + 1] = DelayedStep(p, Delayed(p, m)[k])
<1>1. PICK f : IsEndless(f, "delayed", p, m)
    BY EndlessRun
<1>2. f = [k \in Nat |-> IF k = 0 THEN Start(m) ELSE DelayedStep(p, f[k - 1])]
    BY <1>1 DEF IsEndless, First, After
<1>3. Delayed(p, m) = [k \in Nat |-> IF k = 0 THEN Start(m)
                                    ELSE DelayedStep(p, Delayed(p, m)[k - 1])]
    BY <1>2, Zenon DEF Delayed
<1>4. \A k \in Nat : Delayed(p, m)[k] =
         IF k = 0 THEN Start(m) ELSE DelayedStep(p, Delayed(p, m)[k - 1])
    BY <1>3
<1>5. ASSUME NEW k \in Nat
      PROVE  Delayed(p, m)[k + 1] = DelayedStep(p, Delayed(p, m)[k])
  <2>1. k + 1 \in Nat /\ k + 1 # 0 /\ (k + 1) - 1 = k
      OBVIOUS
  <2> QED BY <1>4, <2>1
<1> QED BY <1>4, <1>5

\* The same of IsaRun.
LEMMA IsaRuns ==
    ASSUME NEW p, NEW m
    PROVE  /\ IsaRun(p, m)[0] = IsaStart(m)
           /\ \A k \in Nat : IsaRun(p, m)[k + 1] = IsaStep(p, IsaRun(p, m)[k])
<1>1. PICK f : IsEndless(f, "isa", p, m)
    BY EndlessRun
<1>2. f = [k \in Nat |-> IF k = 0 THEN IsaStart(m) ELSE IsaStep(p, f[k - 1])]
    BY <1>1 DEF IsEndless, First, After
<1>3. IsaRun(p, m) = [k \in Nat |-> IF k = 0 THEN IsaStart(m)
                                 ELSE IsaStep(p, IsaRun(p, m)[k - 1])]
    BY <1>2, Zenon DEF IsaRun
<1>4. \A k \in Nat : IsaRun(p, m)[k] =
         IF k = 0 THEN IsaStart(m) ELSE IsaStep(p, IsaRun(p, m)[k - 1])
    BY <1>3
<1>5. ASSUME NEW k \in Nat
      PROVE  IsaRun(p, m)[k + 1] = IsaStep(p, IsaRun(p, m)[k])
  <2>1. k + 1 \in Nat /\ k + 1 # 0 /\ (k + 1) - 1 = k
      OBVIOUS
  <2> QED BY <1>4, <2>1
<1> QED BY <1>4, <1>5

----------------------------------------------------------------------------
(* The invariant.  After n cycles D_out holds instruction n - 1, X_out      *)
(* n - 2, M_out n - 3 and W_out n - 4, counted from 0: the machine's state S[k] is   *)
(* the one in which it executes instruction k.  p is the program.           *)

Insn(p, s) == Current(p, s)
Res(p, s) == Computed(s, Current(p, s))
Wrote(p, s) == Written(s, Current(p, s), Res(p, s))
Fetch(p, s) == FetchStatus(s, Current(p, s))

\* The instruction of state s takes nothing from outside that may vary.
Determined(p, s) ==
    /\ (~Halts(s) /\ imem_err(s.pc)) => \A w \in OutsideWords : w = Outside
    /\ (Insn(p, s).op = "LDUR" /\ Res(p, s).val = IO_CHAR_ADDR) =>
          \A v \in IoInputs : v = Input
AllDetermined ==
    \A p \in Programs : \A m \in InitMems : \A k \in Nat :
        Determined(p, Delayed(p, m)[k])

\* What a register holds of the instruction that state s executes.
InD(reg, p, s) ==
    /\ reg.insn = Insn(p, s) /\ reg.op = reg.insn.op /\ reg.status = Fetch(p, s)
    /\ reg.op = "B_COND" => reg.seq_succ_PC = (s.pc + 1) % WordSize
    /\ reg.op = "ADRP" => reg.adrp_val = s.pc - (s.pc % PageWords)
InX(reg, p, s) ==
    LET insn == Insn(p, s)
    IN /\ reg.op = insn.op /\ reg.status = Fetch(p, s)
       /\ reg.ALU_op = decide_alu_op(insn.op)
       /\ reg.val_a = Res(p, s).a /\ reg.val_b = Res(p, s).b
       /\ reg.val_imm = extract_immval(insn, insn.op)
       /\ reg.val_hw = IF insn.op \in {"MOVZ", "MOVK"} THEN insn.hw ELSE 0
       /\ reg.dst = Dst(insn, insn.op)
       /\ reg.op = "B_COND" => /\ reg.cond = insn.cond
                              /\ reg.seq_succ_PC = (s.pc + 1) % WordSize
InM(reg, p, s) ==
    LET insn == Insn(p, s)
    IN /\ reg.op = insn.op /\ reg.status = Fetch(p, s)
       /\ reg.val_ex = Res(p, s).val /\ reg.val_b = Res(p, s).b
       /\ reg.dst = Dst(insn, insn.op)
       /\ reg.op = "B_COND" =>
             /\ reg.cond_holds = cond_holds(insn.cond, Res(p, s).cc)
             /\ reg.seq_succ_PC = (s.pc + 1) % WordSize
InW(reg, p, s) ==
    LET insn == Insn(p, s)
    IN /\ reg.op = insn.op /\ reg.status = FinalStatus(s, insn, Res(p, s))
       /\ reg.dst = Dst(insn, insn.op)
       /\ (IF reg.W_sigs.wval_sel THEN reg.val_mem ELSE reg.val_ex) = Wrote(p, s).val

\* Before there is an instruction for it a register holds a bubble.
Idle(reg) == reg.op = "NOP" /\ reg.status = "BUB"
AtD(reg, p, S, k) == IF k < 0 THEN Idle(reg) ELSE InD(reg, p, S[k])
AtX(reg, p, S, k) == IF k < 0 THEN Idle(reg) ELSE InX(reg, p, S[k])
AtM(reg, p, S, k) == IF k < 0 THEN Idle(reg) ELSE InM(reg, p, S[k])
AtW(reg, p, S, k) == IF k < 0 THEN Idle(reg) ELSE InW(reg, p, S[k])

\* The signals are always those of the opcode beside them.
Signals ==
    /\ \A reg \in {X_in, X_out} : /\ reg.X_sigs = XControl(reg.op)
                                  /\ reg.M_sigs = MControl(reg.op)
                                  /\ reg.W_sigs = WControl(reg.op)
    /\ \A reg \in {M_in, M_out} : /\ reg.M_sigs = MControl(reg.op)
                                  /\ reg.W_sigs = WControl(reg.op)
    /\ \A reg \in {W_in, W_out} : reg.W_sigs = WControl(reg.op)

OutSides(p, S) ==
    /\ F_out.pred_PC = S[num_instr].pred
    /\ AtD(D_out, p, S, num_instr - 1)
    /\ AtX(X_out, p, S, num_instr - 2)
    /\ AtM(M_out, p, S, num_instr - 3)
    /\ AtW(W_out, p, S, num_instr - 4)

\* What the stage functions have done in this cycle.
Fetching == IF stage \in AfterFetch THEN num_instr + 1 ELSE num_instr
Handed(p, S) ==
    /\ stage \in AfterMemory => AtW(W_in, p, S, num_instr - 3)
    /\ stage \in AfterExecute => AtM(M_in, p, S, num_instr - 2)
    /\ stage \in AfterDecode => AtX(X_in, p, S, num_instr - 1)
    /\ stage \in AfterFetch =>
          /\ AtD(D_in, p, S, num_instr)
          /\ F_out.status = Fetch(p, S[num_instr])
          /\ F_out.status = "AOK" => F_PC = S[num_instr + 1].pred
    /\ F_in.status = "HLT" <=> S[Fetching].halted
    /\ stage = "clock" =>
          /\ F_in.pred_PC = F_PC /\ status = W_out.status
          /\ ctl["F"] = IF F_out.status \in {"HLT", "INS"} THEN "P_STALL"
                                                          ELSE "P_LOAD"

\* The registers are those of s, but for the PC field.
HasRegs(s) ==
    /\ s.regs = [r \in RegSlots |-> s.regs[r]]
    /\ \A r \in RegSlots \ {PC_SLOT} : gpr[r] = s.regs[r]

\* A stage makes the state the next one's in its field.
Architectural(p, S) ==
    /\ HasRegs(Before(S, IF stage \in AfterDecode THEN 0 ELSE 1))
    /\ nzcv = Before(S, IF stage \in AfterExecute THEN 1 ELSE 2).cc
    /\ LET s == Before(S, IF stage \in AfterMemory THEN 2 ELSE 3)
       IN mem = s.mem /\ output = s.out
    /\ (~AtBoundary /\ num_instr >= 4 /\ W_out.op \notin NoWriteOps)
          => W_wval = Wrote(p, S[num_instr - 4]).val
    /\ AtBoundary => status = Before(S, 4).status

LockStep(p, S) ==
    /\ text = p
    /\ stage # "exited" => OutSides(p, S) /\ Handed(p, S) /\ Architectural(p, S)

DelayedInv ==
    /\ TypeInv /\ Controls /\ Signals /\ text \in Programs
    /\ \E m \in InitMems : LockStep(text, Delayed(text, m))
----------------------------------------------------------------------------
(* What the machine with delays remembers of the instructions before.      *)

IsRun(p, m, S) ==
    /\ S[0] = Start(m)
    /\ \A k \in Nat : S[k + 1] = DelayedStep(p, S[k])

\* The fields after a step.
LEMMA StepFields ==
    ASSUME NEW p, NEW s
    PROVE  LET t == DelayedStep(p, s)
           IN /\ t.pc = NextPC(s, Insn(p, s))
              /\ t.pred = Predicted(s, Insn(p, s))
              /\ t.halted = (Fetch(p, s) = "HLT")
              /\ t.regs = Overlay(s.regs, s.old[1])
              /\ t.old = <<s.old[2], s.old[3], Wrote(p, s)>>
              /\ t.cc = Res(p, s).cc
              /\ t.mem = MemAfter(s, Insn(p, s), Res(p, s))
              /\ t.out = OutAfter(s, Insn(p, s), Res(p, s))
              /\ t.before = Insn(p, s) /\ t.beforeA = Res(p, s).a
              /\ t.fall1 = FallsTo(s, Insn(p, s), Res(p, s))
              /\ t.fall2 = s.fall1
              /\ t.status = FinalStatus(s, Insn(p, s), Res(p, s))
BY DEF DelayedStep, Insn, Res, Fetch, Wrote

\* The state of instruction k, from the instruction before it.
LEMMA Previous ==
    ASSUME NEW p, NEW m, NEW S, IsRun(p, m, S), NEW k \in Nat, k >= 1
    PROVE  /\ k - 1 \in Nat
           /\ S[k] = DelayedStep(p, S[k - 1])
<1>1. k - 1 \in Nat /\ (k - 1) + 1 = k
    OBVIOUS
<1>2. S[(k - 1) + 1] = DelayedStep(p, S[k - 1])
    BY <1>1 DEF IsRun
<1> QED BY <1>1, <1>2

\* The register an instruction finds written is that of the fourth before it.
LEMMA OldResult ==
    ASSUME NEW p, NEW m, NEW S, IsRun(p, m, S), NEW k \in Nat
    PROVE  S[k].old[1] = IF k >= 3 THEN Wrote(p, S[k - 3]) ELSE NoResult
<1>1. S[0].old = <<NoResult, NoResult, NoResult>>
    BY DEF IsRun, Start
<1>2. ASSUME NEW j \in Nat, j >= 1
      PROVE  S[j].old = <<S[j - 1].old[2], S[j - 1].old[3], Wrote(p, S[j - 1])>>
    BY <1>2, Previous, StepFields
<1>3. CASE k = 0
    BY <1>1, <1>3
<1>4. CASE k = 1
  <2>1. S[1].old[1] = S[0].old[2]
      BY <1>2
  <2> QED BY <1>1, <1>4, <2>1
<1>5. CASE k = 2
  <2>1. S[2].old[1] = S[1].old[2] /\ S[1].old[2] = S[0].old[3]
      BY <1>2
  <2> QED BY <1>1, <1>5, <2>1
<1>6. CASE k >= 3
  <2>1. /\ k - 1 \in Nat /\ k - 2 \in Nat /\ k - 1 >= 1 /\ k - 2 >= 1
        /\ (k - 1) - 1 = k - 2 /\ (k - 2) - 1 = k - 3
      BY <1>6
  <2>2. S[k].old[1] = S[k - 1].old[2]
      BY <1>2, <1>6
  <2>3. S[k - 1].old[2] = S[k - 2].old[3]
      BY <1>2, <2>1
  <2>4. S[k - 2].old[3] = Wrote(p, S[k - 3])
      BY <1>2, <2>1
  <2> QED BY <1>6, <2>2, <2>3, <2>4
<1> QED BY <1>3, <1>4, <1>5, <1>6

\* The program counter of an instruction: a branch not taken is known three
\* instructions later, a return two.
LEMMA ProgramCounter ==
    ASSUME NEW p, NEW m, NEW S, IsRun(p, m, S), NEW n \in Nat
    PROVE  LET X == S[n - 2]
               M == S[n - 3]
               ret == n >= 2 /\ Insn(p, X).op = "RET"
               falls == n >= 3 /\ FallsTo(M, Insn(p, M), Res(p, M)) # NoBranch
           IN S[n].pc = IF ret /\ Res(p, X).a = 0 THEN 0
                        ELSE IF falls THEN FallsTo(M, Insn(p, M), Res(p, M))
                        ELSE IF ret THEN Res(p, X).a ELSE S[n].pred
<1>1. CASE n = 0
    BY <1>1 DEF IsRun, Start
<1>2. CASE n >= 1
  <2>1. /\ n - 1 \in Nat
        /\ S[n].pc = NextPC(S[n - 1], Insn(p, S[n - 1]))
        /\ S[n].pred = Predicted(S[n - 1], Insn(p, S[n - 1]))
      BY <1>2, Previous, StepFields
  <2>2. CASE n = 1
    <3>1. S[0].before.op # "RET" /\ S[0].fall2 = NoBranch
        BY DEF IsRun, Start, ZeroWord
    <3> QED BY <2>1, <2>2, <3>1 DEF NextPC
  <2>3. CASE n >= 2
    <3>1. /\ n - 1 >= 1 /\ (n - 1) - 1 = n - 2 /\ n - 2 \in Nat
        BY <2>3
    <3>2. /\ S[n - 1].before = Insn(p, S[n - 2])
          /\ S[n - 1].beforeA = Res(p, S[n - 2]).a
          /\ S[n - 1].fall2 = S[n - 2].fall1
        BY <2>1, <3>1, Previous, StepFields
    <3>3. CASE n = 2
      <4>1. S[0].fall1 = NoBranch
          BY DEF IsRun, Start
      <4> QED BY <2>1, <3>2, <3>3, <4>1 DEF NextPC
    <3>4. CASE n >= 3
      <4>1. /\ n - 2 >= 1 /\ (n - 2) - 1 = n - 3
          BY <3>4
      <4>2. S[n - 2].fall1 = FallsTo(S[n - 3], Insn(p, S[n - 3]), Res(p, S[n - 3]))
          BY <3>1, <4>1, Previous, StepFields
      <4> QED BY <2>1, <2>3, <3>2, <3>4, <4>2 DEF NextPC
    <3> QED BY <2>3, <3>3, <3>4
  <2> QED BY <1>2, <2>2, <2>3
<1> QED BY <1>1, <1>2
----------------------------------------------------------------------------
(* The stage functions, one instruction at a time.                         *)

\* What dmem returns and stores, and what it reports, is what the machine
\* with delays says of the same instruction.
LEMMA MemoryHolds ==
    ASSUME NEW p, NEW s, Determined(p, s), TypeInv, Signals, memory_instr,
           InM(M_out, p, s), mem = s.mem, output = s.out
    PROVE  /\ InW(W_in', p, s)
           /\ mem' = MemAfter(s, Insn(p, s), Res(p, s))
           /\ output' = OutAfter(s, Insn(p, s), Res(p, s))
<1> PICK insn : insn = Insn(p, s)
    OBVIOUS
<1> PICK r : r = Res(p, s)
    OBVIOUS
<1>1. /\ M_out.op = insn.op /\ M_out.status = Fetch(p, s)
      /\ M_out.val_ex = r.val /\ M_out.val_b = r.b /\ M_out.dst = Dst(insn, insn.op)
    BY DEF InM
<1>2. /\ M_out.M_sigs.dmem_read = (insn.op = "LDUR")
      /\ M_out.M_sigs.dmem_write = (insn.op = "STUR")
      /\ M_out.W_sigs.wval_sel = (insn.op = "LDUR")
    BY <1>1 DEF Signals, MControl, WControl
<1>3. ~Traps(M_out)
    BY DEF memory_instr
<1> DEFINE fault == insn.op \in {"LDUR", "STUR"} /\ dmem_err(r.val)
<1>4. PICK v \in IF insn.op = "LDUR" THEN ReadValues(r.val) ELSE {W_in.val_mem} :
         /\ W_in' = [op |-> M_out.op, W_sigs |-> M_out.W_sigs,
                     val_b |-> M_out.val_b, dst |-> M_out.dst,
                     val_ex |-> r.val, val_mem |-> v,
                     status |-> MemStatus(fault)]
         /\ mem' = IF insn.op = "STUR" /\ ~is_special_addr(r.val)
                   THEN [mem EXCEPT ![r.val] = r.b] ELSE mem
         /\ output' = IF insn.op = "STUR" /\ r.val = IO_CHAR_ADDR
                      THEN Append(output, r.b) ELSE output
    BY <1>1, <1>2 DEF memory_instr
<1>5. mem' = MemAfter(s, insn, r) /\ output' = OutAfter(s, insn, r)
    BY <1>4 DEF MemAfter, OutAfter
<1>6. insn.op = "LDUR" => v = Loaded(s, r.val)
    BY <1>4, MemAssumption DEF ReadValues, Loaded, Determined
<1>7. MemStatus(fault) = FinalStatus(s, insn, r)
    BY <1>1 DEF MemStatus, FinalStatus, Fetch, Insn
<1> HIDE DEF fault
<1>8. /\ W_in'.op = insn.op /\ W_in'.dst = Dst(insn, insn.op)
      /\ W_in'.status = FinalStatus(s, insn, r)
      /\ W_in'.W_sigs.wval_sel = (insn.op = "LDUR")
      /\ W_in'.val_mem = v /\ W_in'.val_ex = r.val
    BY <1>1, <1>2, <1>4, <1>7
<1>9. (IF W_in'.W_sigs.wval_sel THEN W_in'.val_mem ELSE W_in'.val_ex) = Wrote(p, s).val
    BY <1>6, <1>8 DEF Wrote, Written, Insn, Res
<1> QED BY <1>5, <1>8, <1>9 DEF InW

\* The ALU gets the operands the machine with delays gives it.
LEMMA ExecuteHolds ==
    ASSUME NEW p, NEW s, Signals, execute_instr, InX(X_out, p, s), nzcv = s.cc
    PROVE  InM(M_in', p, s) /\ nzcv' = Res(p, s).cc
<1> PICK insn : insn = Insn(p, s)
    OBVIOUS
<1> PICK r : r = Res(p, s)
    OBVIOUS
<1>1. /\ X_out.op = insn.op /\ X_out.status = Fetch(p, s)
      /\ X_out.ALU_op = decide_alu_op(insn.op)
      /\ X_out.val_a = r.a /\ X_out.val_b = r.b
      /\ X_out.val_imm = extract_immval(insn, insn.op)
      /\ X_out.val_hw = IF insn.op \in {"MOVZ", "MOVK"} THEN insn.hw ELSE 0
      /\ X_out.dst = Dst(insn, insn.op)
      /\ X_out.op = "B_COND" => /\ X_out.cond = insn.cond
                               /\ X_out.seq_succ_PC = (s.pc + 1) % WordSize
    BY DEF InX
<1>2. /\ X_out.X_sigs.valb_sel = (insn.op \in ValbRegOps)
      /\ X_out.X_sigs.set_CC = (insn.op \in SetCCOps)
    BY <1>1 DEF Signals, XControl
<1> DEFINE operandB == IF insn.op \in ValbRegOps THEN r.b
                       ELSE extract_immval(insn, insn.op) % WordSize
           hw == IF insn.op \in {"MOVZ", "MOVK"} THEN insn.hw ELSE 0
           out == alu(decide_alu_op(insn.op), r.a, operandB, hw)
<1>3. /\ r.val = out.val_e
      /\ r.cc = IF insn.op \in SetCCOps THEN out.cc ELSE s.cc
    BY DEF Res, Computed, Result, Insn
<1>4. /\ nzcv' = r.cc
      /\ M_in'.op = insn.op /\ M_in'.status = Fetch(p, s)
      /\ M_in'.val_ex = r.val /\ M_in'.val_b = r.b /\ M_in'.dst = Dst(insn, insn.op)
      /\ M_in'.cond_holds = cond_holds(X_out.cond, r.cc)
      /\ M_in'.seq_succ_PC = X_out.seq_succ_PC
    BY <1>1, <1>2, <1>3 DEF execute_instr
<1> HIDE DEF operandB, hw, out
<1> QED BY <1>1, <1>4 DEF InM

\* The register file gives the operands the machine with delays reads.
LEMMA DecodeHolds ==
    ASSUME NEW p, NEW s, TypeInv, decode_instr, InD(D_out, p, s), HasRegs(s)
    PROVE  InX(X_in', p, s)
<1> PICK insn : insn = Insn(p, s)
    OBVIOUS
<1> PICK r : r = Res(p, s)
    OBVIOUS
<1>1. /\ D_out.insn = insn /\ D_out.op = insn.op /\ D_out.status = Fetch(p, s)
      /\ insn.op = "B_COND" => D_out.seq_succ_PC = (s.pc + 1) % WordSize
      /\ insn.op = "ADRP" => D_out.adrp_val = s.pc - (s.pc % PageWords)
    BY DEF InD
<1>2. insn \in Insns /\ insn.op \in Opcodes
    BY <1>1 DEF TypeInv, TypeOK, DRegs
<1>3. \A slot \in RegSlots :
         ReadReg(slot) = IF slot >= XZR_NUM THEN 0 ELSE s.regs[slot]
    BY DEF ReadReg, HasRegs, RegSlots, XZR_NUM, PC_SLOT
<1>4. Src1(insn, insn.op) \in RegSlots /\ Src2(insn, insn.op) \in RegSlots
    BY <1>2, RegType
<1> DEFINE read1 == IF Src1(insn, insn.op) >= XZR_NUM THEN 0
                    ELSE s.regs[Src1(insn, insn.op)]
           read2 == IF Src2(insn, insn.op) >= XZR_NUM THEN 0
                    ELSE s.regs[Src2(insn, insn.op)]
<1>5. ReadReg(Src1(insn, insn.op)) = read1 /\ ReadReg(Src2(insn, insn.op)) = read2
    BY <1>3, <1>4
<1>6. r.b = read2
    BY DEF Res, Computed, Result, Insn
<1>7. r.a = CASE insn.op = "MOVZ" -> 0
              [] insn.op = "MOVK" -> clear_chunk(read1, insn.hw)
              [] insn.op = "ADRP" -> s.pc - (s.pc % PageWords)
              [] OTHER -> read1
    BY DEF Res, Computed, Result, Insn
<1> HIDE DEF read1, read2
<1>8. ValA(insn, insn.op) = r.a
    BY <1>1, <1>5, <1>7 DEF ValA
<1> QED BY <1>1, <1>5, <1>6, <1>8 DEF decode_instr, InX
\* regfile writes what the fourth instruction before has left.
LEMMA WriteHolds ==
    ASSUME NEW p, NEW m, NEW S, IsRun(p, m, S), TypeInv, Signals, decode_instr,
           NEW n \in Nat, n >= 1, AtW(W_out, p, S, n - 4), HasRegs(S[n - 1]),
           n >= 4 /\ W_out.op \notin NoWriteOps
             => W_wval = Wrote(p, S[n - 4]).val
    PROVE  HasRegs(S[n])'
<1>1. n - 1 \in Nat /\ S[n].regs = Overlay(S[n - 1].regs, S[n - 1].old[1])
    BY Previous, StepFields
<1>2. gpr' = IF W_out.W_sigs.w_enable THEN [gpr EXCEPT ![W_out.dst] = W_wval] ELSE gpr
    BY DEF decode_instr, WriteBack
<1>3. W_out.W_sigs.w_enable = (W_out.op \notin NoWriteOps)
    BY DEF Signals, WControl
<1>4. gpr \in [RegSlots -> Word] /\ W_out.dst \in RegSlots
    BY DEF TypeInv, TypeOK, WRegs
<1>5. CASE n < 4
  <2>1. W_out.op = "NOP"
      BY <1>5 DEF AtW, Idle
  <2>2. gpr' = gpr
      BY <1>2, <1>3, <2>1 DEF NoWriteOps
  <2>3. S[n - 1].old[1] = NoResult
      BY <1>1, <1>5, OldResult
  <2>4. S[n].regs = S[n - 1].regs
      BY <1>1, <2>3 DEF NoResult, Overlay
  <2> QED BY <2>2, <2>4 DEF HasRegs
<1>6. CASE n >= 4
  <2>1. n - 1 >= 3 /\ (n - 1) - 3 = n - 4
      BY <1>6
  <2>2. S[n - 1].old[1] = Wrote(p, S[n - 4])
      BY <1>1, <2>1, OldResult
  <2> PICK w : w = Wrote(p, S[n - 4])
      OBVIOUS
  <2>3. InW(W_out, p, S[n - 4])
      BY <1>6 DEF AtW
  <2>4. w.on = (W_out.op \notin NoWriteOps) /\ w.slot = W_out.dst
      BY <2>3 DEF InW, Wrote, Written, Insn
  <2>5. CASE w.on
    <3>1. gpr' = [gpr EXCEPT ![w.slot] = w.val]
        BY <1>2, <1>3, <1>6, <2>4, <2>5
    <3>2. S[n].regs = [S[n - 1].regs EXCEPT ![w.slot] = w.val]
        BY <1>1, <2>2, <2>5 DEF Overlay
    <3> QED BY <1>4, <2>4, <3>1, <3>2 DEF HasRegs
  <2>6. CASE ~w.on
    <3>1. gpr' = gpr
        BY <1>2, <1>3, <2>4, <2>6
    <3>2. S[n].regs = S[n - 1].regs
        BY <1>1, <2>2, <2>6 DEF Overlay
    <3> QED BY <3>1, <3>2 DEF HasRegs
  <2> QED BY <2>5, <2>6
<1> QED BY <1>5, <1>6

\* Fetch continues where the machine with delays does.
LEMMA SelectHolds ==
    ASSUME NEW p, NEW m, NEW S, IsRun(p, m, S), TypeInv, NEW n \in Nat,
           F_out.pred_PC = S[n].pred, AtX(X_out, p, S, n - 2),
           AtM(M_out, p, S, n - 3)
    PROVE  select_PC = S[n].pc
<1> DEFINE X == S[n - 2]
           M == S[n - 3]
           ret == n >= 2 /\ Insn(p, X).op = "RET"
           falls == n >= 3 /\ FallsTo(M, Insn(p, M), Res(p, M)) # NoBranch
<1>1. S[n].pc = IF ret /\ Res(p, X).a = 0 THEN 0
                ELSE IF falls THEN FallsTo(M, Insn(p, M), Res(p, M))
                ELSE IF ret THEN Res(p, X).a ELSE S[n].pred
    BY ProgramCounter
<1>2. (ret <=> X_out.op = "RET") /\ (ret => X_out.val_a = Res(p, X).a)
  <2>1. CASE n < 2
      BY <2>1 DEF AtX, Idle
  <2>2. CASE n >= 2
      BY <2>2 DEF AtX, InX
  <2> QED BY <2>1, <2>2
<1>3. /\ falls <=> (M_out.op = "B_COND" /\ ~M_out.cond_holds)
      /\ falls => M_out.seq_succ_PC = FallsTo(M, Insn(p, M), Res(p, M))
  <2>1. CASE n < 3
      BY <2>1 DEF AtM, Idle
  <2>2. CASE n >= 3
    <3>1. InM(M_out, p, M)
        BY <2>2 DEF AtM
    <3>2. /\ M_out.op = Insn(p, M).op
          /\ M_out.op = "B_COND" =>
                /\ M_out.cond_holds = cond_holds(Insn(p, M).cond, Res(p, M).cc)
                /\ M_out.seq_succ_PC = (M.pc + 1) % WordSize
        BY <3>1 DEF InM
    <3>3. M_out.seq_succ_PC # NoBranch
        BY SizeAssumption DEF TypeInv, TypeOK, MRegs, Word, NoBranch
    <3> HIDE DEF M
    <3> QED BY <2>2, <3>2, <3>3 DEF FallsTo
  <2> QED BY <2>1, <2>2
<1> HIDE DEF X, M, ret, falls
<1> QED BY <1>1, <1>2, <1>3 DEF select_PC, RET_FROM_MAIN_ADDR

\* Fetch hands decode the instruction the machine with delays executes, or a
\* HLT, and records in F_in that it has seen one.
LEMMA FetchHolds ==
    ASSUME NEW p, NEW s, Determined(p, s), TypeInv, text = p,
           fetch_halt \/ fetch_instr, select_PC = s.pc,
           F_in.status = "HLT" <=> s.halted
    PROVE  /\ InD(D_in', p, s)
           /\ F_out'.status = Fetch(p, s) /\ F_out'.pred_PC = F_out.pred_PC
           /\ F_out'.status = "AOK" => F_PC' = Predicted(s, Insn(p, s))
           /\ F_in'.status = "HLT" <=> Fetch(p, s) = "HLT"
<1>1. F_in \in FRegs /\ F_out \in FRegs /\ D_in \in DRegs
    BY DEF TypeInv, TypeOK
<1>2. MustHalt <=> Halts(s)
    BY DEF MustHalt, Halts
<1>3. CASE fetch_halt
  <2>1. Halts(s)
      BY <1>2, <1>3 DEF fetch_halt
  <2>2. Insn(p, s) = HltWord /\ Fetch(p, s) = "HLT"
      BY <2>1 DEF Insn, Current, Fetch, FetchStatus, Invalid, HltWord, ZeroWord
  <2>3. HltWord.op = "HLT"
      BY DEF HltWord, ZeroWord
  <2>4. D_in'.insn = HltWord /\ D_in'.op = "HLT" /\ D_in'.status = "HLT"
      BY <1>1, <1>3 DEF fetch_halt, DRegs
  <2>5. /\ F_out'.status = "HLT" /\ F_out'.pred_PC = F_out.pred_PC
        /\ F_in'.status = "HLT"
      BY <1>1, <1>3 DEF fetch_halt, Recorded, FRegs
  <2> QED BY <2>2, <2>3, <2>4, <2>5 DEF InD
<1>4. CASE fetch_instr
  <2>1. ~Halts(s) /\ F_in.status # "HLT" /\ s.pc # 0
      BY <1>2, <1>4 DEF fetch_instr, MustHalt, Halts
  <2>2. PICK insn \in imem(s.pc) :
          LET st == IF imem_err(s.pc) \/ insn.op = "ERROR" THEN "INS"
                    ELSE IF insn.op = "HLT" THEN "HLT" ELSE "AOK"
          IN /\ D_in' = [insn |-> insn, op |-> insn.op,
                         seq_succ_PC |-> (s.pc + 1) % WordSize,
                         adrp_val |-> IF insn.op = "ADRP"
                                      THEN s.pc - (s.pc % PageWords) ELSE 0,
                         status |-> st]
             /\ F_PC' = predict_PC(s.pc, insn)
             /\ F_out' = [F_out EXCEPT !.status = st]
             /\ F_in' = Recorded(st)
      BY <1>4 DEF fetch_instr
  <2>3. insn = Insn(p, s)
      BY <2>1, <2>2 DEF imem, Fetched, Insn, Current, Determined
  <2>4. Fetch(p, s) = IF imem_err(s.pc) \/ insn.op = "ERROR" THEN "INS"
                      ELSE IF insn.op = "HLT" THEN "HLT" ELSE "AOK"
      BY <2>1, <2>3 DEF Fetch, FetchStatus, Invalid, Insn
  <2> PICK st : st = Fetch(p, s)
      OBVIOUS
  <2>5. /\ D_in' = [insn |-> insn, op |-> insn.op,
                    seq_succ_PC |-> (s.pc + 1) % WordSize,
                    adrp_val |-> IF insn.op = "ADRP"
                                 THEN s.pc - (s.pc % PageWords) ELSE 0,
                    status |-> st]
        /\ F_PC' = predict_PC(s.pc, insn)
        /\ F_out' = [F_out EXCEPT !.status = st]
        /\ F_in' = Recorded(st)
      BY <2>2, <2>4
  <2>6. InD(D_in', p, s)
      BY <2>3, <2>5 DEF InD
  <2>7. F_out'.status = st /\ F_out'.pred_PC = F_out.pred_PC
      BY <1>1, <2>5 DEF FRegs
  <2>8. F_in'.status = "HLT" <=> st = "HLT"
      BY <1>1, <2>1, <2>5 DEF Recorded, FRegs
  <2>9. st = "AOK" => F_PC' = Predicted(s, Insn(p, s))
      BY <2>3, <2>5 DEF Predicted, Fetch, Insn
  <2> QED BY <2>6, <2>7, <2>8, <2>9
<1> QED BY <1>3, <1>4
----------------------------------------------------------------------------
(* Every step keeps the invariant.                                         *)

\* A bubble has the signals of a NOP, which asks for nothing.
LEMMA BubbleSignals ==
    NoXSigs = XControl("NOP") /\ NoMSigs = MControl("NOP") /\ NoWSigs = WControl("NOP")
<1>1. /\ ("NOP" \in ValbRegOps) = FALSE /\ ("NOP" \in SetCCOps) = FALSE
      /\ ("NOP" \notin NoWriteOps) = FALSE /\ ("NOP" = "LDUR") = FALSE
      /\ ("NOP" = "STUR") = FALSE /\ ("NOP" = "BL") = FALSE
    BY DEF ValbRegOps, SetCCOps, NoWriteOps
<1> QED
    BY <1>1, Zenon DEF XControl, MControl, WControl, NoXSigs, NoMSigs, NoWSigs

\* What the signals say of the instructions in X, M and W.
LEMMA SignalValues ==
    ASSUME Signals
    PROVE  /\ X_out.X_sigs.set_CC = (X_out.op \in SetCCOps)
           /\ M_out.M_sigs.dmem_read = (M_out.op = "LDUR")
           /\ M_out.M_sigs.dmem_write = (M_out.op = "STUR")
           /\ W_out.W_sigs.w_enable = (W_out.op \notin NoWriteOps)
BY DEF Signals, XControl, MControl, WControl

\* The signals are decoded from the opcode and travel with it.
LEMMA SignalsStep == TypeInv /\ Signals /\ [Next]_vars => Signals'
<1> SUFFICES ASSUME TypeInv, Signals, [Next]_vars PROVE Signals'
    OBVIOUS
<1>1. CASE memory_instr
    BY <1>1 DEF memory_instr, Signals
<1>2. CASE execute_instr
    BY <1>2 DEF execute_instr, Signals
<1>3. CASE decode_instr
    BY <1>3 DEF decode_instr, Signals
<1>4. CASE clock_edge
  <2>1. /\ X_out' \in {X_in, X_out, ZeroX} /\ M_out' \in {M_in, M_out, ZeroM}
        /\ W_out' \in {W_in, W_out, ZeroW}
      BY <1>4 DEF clock_edge, Clocked
  <2>2. /\ ZeroX.X_sigs = XControl("NOP") /\ ZeroX.M_sigs = MControl("NOP")
        /\ ZeroX.W_sigs = WControl("NOP")
        /\ ZeroM.M_sigs = MControl("NOP") /\ ZeroM.W_sigs = WControl("NOP")
        /\ ZeroW.W_sigs = WControl("NOP")
        /\ ZeroX.op = "NOP" /\ ZeroM.op = "NOP" /\ ZeroW.op = "NOP"
      BY BubbleSignals DEF ZeroX, ZeroM, ZeroW
  <2>3. UNCHANGED <<X_in, M_in, W_in>>
      BY <1>4 DEF clock_edge
  <2> QED BY <2>1, <2>2, <2>3 DEF Signals
<1>5. CASE wback_instr \/ memory_trap \/ fetch_halt \/ fetch_instr \/ handle_hazards
             \/ UNCHANGED vars
  <2>1. UNCHANGED <<X_in, X_out, M_in, M_out, W_in, W_out>>
      BY <1>5 DEF wback_instr, memory_trap, fetch_halt, fetch_instr,
                  handle_hazards, vars, pipeVars
  <2> QED BY <2>1 DEF Signals
<1> QED BY <1>1, <1>2, <1>3, <1>4, <1>5 DEF Next, Step, run_over

\* What every stage lemma starts from.
Going(p, m, S) ==
    /\ IsRun(p, m, S) /\ \A k \in Nat : Determined(p, S[k])
    /\ TypeInv /\ Controls /\ Signals /\ LockStep(p, S)

\* Writeback leaves the value of the retiring instruction for decode.
LEMMA LockWback ==
    ASSUME NEW p, NEW m, NEW S, Going(p, m, S), wback_instr
    PROVE  LockStep(p, S)'
<1> USE DEF Going
<1>1. /\ stage = "wback" /\ stage' = "memory"
      /\ UNCHANGED <<text, pipeVars, ctl, gpr, nzcv, mem, F_PC, dmem_status,
                     status, num_instr, output>>
    BY DEF wback_instr
<1>2. UNCHANGED <<F_in, F_out, D_in, D_out, X_in, X_out, M_in, M_out, W_in, W_out>>
    BY <1>1 DEF pipeVars
<1>3. OutSides(p, S) /\ Handed(p, S) /\ Architectural(p, S) /\ text = p
    BY <1>1 DEF LockStep
<1> USE DEF AfterMemory, AfterExecute, AfterDecode, AfterFetch
<1>4. OutSides(p, S)'
    BY <1>1, <1>2, <1>3 DEF OutSides
<1>5. Handed(p, S)'
    BY <1>1, <1>2, <1>3 DEF Handed, Fetching
<1>6. ASSUME num_instr >= 4, W_out.op \notin NoWriteOps
      PROVE  W_wval' = Wrote(p, S[num_instr - 4]).val
  <2>1. W_wval' = WriteValue
      BY <1>6, SignalValues DEF wback_instr
  <2>2. InW(W_out, p, S[num_instr - 4])
      BY <1>3, <1>6 DEF OutSides, AtW, TypeInv, TypeOK
  <2> QED BY <2>1, <2>2 DEF InW, WriteValue
<1>7. Architectural(p, S)'
    BY <1>1, <1>2, <1>3, <1>6 DEF Architectural, HasRegs, Before, AtBoundary
<1> QED BY <1>1, <1>3, <1>4, <1>5, <1>7 DEF LockStep

\* Memory and output become those the next instruction finds.
LEMMA LockMemory ==
    ASSUME NEW p, NEW m, NEW S, Going(p, m, S), memory_instr
    PROVE  LockStep(p, S)'
<1> USE DEF Going
<1> PICK n : n = num_instr
    OBVIOUS
<1>1. /\ stage = "memory" /\ stage' = "execute" /\ n \in Nat
      /\ UNCHANGED <<text, F_in, F_out, D_in, D_out, X_in, X_out, M_in, M_out,
                     W_out, ctl, gpr, nzcv, W_wval, F_PC, status, num_instr>>
    BY DEF memory_instr, TypeInv, TypeOK
<1>2. OutSides(p, S) /\ Handed(p, S) /\ Architectural(p, S) /\ text = p
    BY <1>1 DEF LockStep
<1> USE DEF AfterMemory, AfterExecute, AfterDecode, AfterFetch
<1>3. OutSides(p, S)'
    BY <1>1, <1>2 DEF OutSides
<1>4. mem = Before(S, 3).mem /\ output = Before(S, 3).out
    BY <1>1, <1>2 DEF Architectural
<1>5. AtM(M_out, p, S, n - 3)
    BY <1>2 DEF OutSides
<1>6. AtW(W_in', p, S, n - 3) /\ mem' = Before(S, 2).mem /\ output' = Before(S, 2).out
  <2>1. CASE n < 3
    <3>1. M_out.op = "NOP" /\ M_out.status = "BUB"
        BY <1>1, <1>5, <2>1 DEF AtM, Idle
    <3>2. ~M_out.M_sigs.dmem_read /\ ~M_out.M_sigs.dmem_write
        BY <3>1, SignalValues
    <3>3. W_in'.op = "NOP" /\ W_in'.status = "BUB" /\ mem' = mem /\ output' = output
        BY <3>1, <3>2 DEF memory_instr, MemStatus
    <3>4. Before(S, 3) = Before(S, 2)
        BY <1>1, <2>1 DEF Before
    <3> QED BY <1>1, <1>4, <2>1, <3>3, <3>4 DEF AtW, Idle
  <2>2. CASE n >= 3
    <3>1. /\ n - 3 \in Nat /\ n - 2 \in Nat /\ (n - 2) - 1 = n - 3 /\ n - 2 >= 1
          /\ ~(n - 3 < 0)
        BY <1>1, <2>2
    <3>2. Before(S, 3) = S[n - 3] /\ Before(S, 2) = S[n - 2]
        BY <1>1, <2>2 DEF Before
    <3>3. InM(M_out, p, S[n - 3])
        BY <1>5, <3>1 DEF AtM
    <3>4. /\ InW(W_in', p, S[n - 3])
          /\ mem' = MemAfter(S[n - 3], Insn(p, S[n - 3]), Res(p, S[n - 3]))
          /\ output' = OutAfter(S[n - 3], Insn(p, S[n - 3]), Res(p, S[n - 3]))
      <4>1. Determined(p, S[n - 3])
          BY <3>1
      <4> QED BY <1>4, <3>2, <3>3, <4>1, MemoryHolds
    <3>5. S[n - 2] = DelayedStep(p, S[n - 3])
        BY <3>1, Previous
    <3> QED BY <3>1, <3>2, <3>4, <3>5, StepFields DEF AtW
  <2> QED BY <1>1, <2>1, <2>2
<1>7. Handed(p, S)'
    BY <1>1, <1>2, <1>6 DEF Handed, Fetching
<1>8. Architectural(p, S)'
    BY <1>1, <1>2, <1>6 DEF Architectural, HasRegs, Before, AtBoundary
<1> QED BY <1>1, <1>2, <1>3, <1>7, <1>8 DEF LockStep

\* The flags become those the next instruction finds.
LEMMA LockExecute ==
    ASSUME NEW p, NEW m, NEW S, Going(p, m, S), execute_instr
    PROVE  LockStep(p, S)'
<1> USE DEF Going
<1> PICK n : n = num_instr
    OBVIOUS
<1>1. /\ stage = "execute" /\ stage' = "decode" /\ n \in Nat
      /\ UNCHANGED <<text, F_in, F_out, D_in, D_out, X_in, X_out, M_out, W_in,
                     W_out, ctl, gpr, mem, W_wval, F_PC, dmem_status, status,
                     num_instr, output>>
    BY DEF execute_instr, TypeInv, TypeOK
<1>2. OutSides(p, S) /\ Handed(p, S) /\ Architectural(p, S) /\ text = p
    BY <1>1 DEF LockStep
<1> USE DEF AfterMemory, AfterExecute, AfterDecode, AfterFetch
<1>3. OutSides(p, S)'
    BY <1>1, <1>2 DEF OutSides
<1>4. nzcv = Before(S, 2).cc
    BY <1>1, <1>2 DEF Architectural
<1>5. AtX(X_out, p, S, n - 2)
    BY <1>2 DEF OutSides
<1>6. AtM(M_in', p, S, n - 2) /\ nzcv' = Before(S, 1).cc
  <2>1. CASE n < 2
    <3>1. X_out.op = "NOP" /\ X_out.status = "BUB"
        BY <1>1, <1>5, <2>1 DEF AtX, Idle
    <3>2. ~X_out.X_sigs.set_CC
        BY <3>1, SignalValues DEF SetCCOps
    <3>3. M_in'.op = "NOP" /\ M_in'.status = "BUB" /\ nzcv' = nzcv
        BY <3>1, <3>2 DEF execute_instr
    <3>4. Before(S, 2) = Before(S, 1)
        BY <1>1, <2>1 DEF Before
    <3> QED BY <1>1, <1>4, <2>1, <3>3, <3>4 DEF AtM, Idle
  <2>2. CASE n >= 2
    <3>1. /\ n - 2 \in Nat /\ n - 1 \in Nat /\ (n - 1) - 1 = n - 2 /\ n - 1 >= 1
          /\ ~(n - 2 < 0)
        BY <1>1, <2>2
    <3>2. Before(S, 2) = S[n - 2] /\ Before(S, 1) = S[n - 1]
        BY <1>1, <2>2 DEF Before
    <3>3. InX(X_out, p, S[n - 2])
        BY <1>5, <3>1 DEF AtX
    <3>4. InM(M_in', p, S[n - 2]) /\ nzcv' = Res(p, S[n - 2]).cc
        BY <1>4, <3>2, <3>3, ExecuteHolds
    <3>5. S[n - 1] = DelayedStep(p, S[n - 2])
        BY <3>1, Previous
    <3> QED BY <3>1, <3>2, <3>4, <3>5, StepFields DEF AtM
  <2> QED BY <1>1, <2>1, <2>2
<1>7. Handed(p, S)'
    BY <1>1, <1>2, <1>6 DEF Handed, Fetching
<1>8. Architectural(p, S)'
    BY <1>1, <1>2, <1>6 DEF Architectural, HasRegs, Before, AtBoundary
<1> QED BY <1>1, <1>2, <1>3, <1>7, <1>8 DEF LockStep

\* The registers become those the instruction behind finds.
LEMMA LockDecode ==
    ASSUME NEW p, NEW m, NEW S, Going(p, m, S), decode_instr
    PROVE  LockStep(p, S)'
<1> USE DEF Going
<1> PICK n : n = num_instr
    OBVIOUS
<1>1. /\ stage = "decode" /\ stage' = "fetch" /\ n \in Nat
      /\ UNCHANGED <<text, F_in, F_out, D_in, D_out, X_out, M_in, M_out, W_in,
                     W_out, ctl, nzcv, mem, W_wval, F_PC, dmem_status, status,
                     num_instr, output>>
    BY DEF decode_instr, TypeInv, TypeOK
<1>2. OutSides(p, S) /\ Handed(p, S) /\ Architectural(p, S) /\ text = p
    BY <1>1 DEF LockStep
<1> USE DEF AfterMemory, AfterExecute, AfterDecode, AfterFetch
<1>3. OutSides(p, S)'
    BY <1>1, <1>2 DEF OutSides
<1>4. HasRegs(Before(S, 1))
    BY <1>1, <1>2 DEF Architectural
<1>5. AtD(D_out, p, S, n - 1) /\ AtW(W_out, p, S, n - 4)
    BY <1>2 DEF OutSides
<1>6. n >= 4 /\ W_out.op \notin NoWriteOps => W_wval = Wrote(p, S[n - 4]).val
    BY <1>1, <1>2 DEF Architectural, AtBoundary
<1>7. AtX(X_in', p, S, n - 1) /\ HasRegs(S[n])'
  <2>1. CASE n < 1
    <3>1. n = 0 /\ D_out.op = "NOP" /\ D_out.status = "BUB" /\ W_out.op = "NOP"
        BY <1>1, <1>5, <2>1 DEF AtD, AtW, Idle
    <3>2. ~W_out.W_sigs.w_enable
        BY <3>1, SignalValues DEF NoWriteOps
    <3>3. X_in'.op = "NOP" /\ X_in'.status = "BUB" /\ gpr' = gpr
        BY <3>1, <3>2 DEF decode_instr, WriteBack
    <3>4. HasRegs(S[n])
        BY <1>4, <3>1 DEF Before
    <3> QED BY <2>1, <3>1, <3>3, <3>4 DEF AtX, Idle, HasRegs
  <2>2. CASE n >= 1
    <3>1. n - 1 \in Nat /\ ~(n - 1 < 0) /\ Before(S, 1) = S[n - 1]
        BY <1>1, <2>2 DEF Before
    <3>2. InD(D_out, p, S[n - 1])
        BY <1>5, <3>1 DEF AtD
    <3>3. InX(X_in', p, S[n - 1])
        BY <1>4, <3>1, <3>2, DecodeHolds
    <3>4. HasRegs(S[n])'
        BY <1>1, <1>4, <1>5, <1>6, <2>2, <3>1, WriteHolds
    <3> QED BY <3>1, <3>3, <3>4 DEF AtX
  <2> QED BY <1>1, <2>1, <2>2
<1>8. Handed(p, S)'
    BY <1>1, <1>2, <1>7 DEF Handed, Fetching
<1>9. HasRegs(Before(S, 0))'
    BY <1>1, <1>7 DEF Before, HasRegs
<1>10. Architectural(p, S)'
    BY <1>1, <1>2, <1>9 DEF Architectural, Before, AtBoundary
<1> QED BY <1>1, <1>2, <1>3, <1>8, <1>10 DEF LockStep
\* Fetch takes the instruction the machine with delays is at.
LEMMA LockFetch ==
    ASSUME NEW p, NEW m, NEW S, Going(p, m, S), fetch_halt \/ fetch_instr
    PROVE  LockStep(p, S)'
<1> USE DEF Going
<1> PICK n : n = num_instr
    OBVIOUS
<1>1. /\ stage = "fetch" /\ stage' = "hazards" /\ n \in Nat
      /\ UNCHANGED <<text, D_out, X_in, X_out, M_in, M_out, W_in, W_out, ctl,
                     gpr, nzcv, mem, W_wval, dmem_status, status, num_instr,
                     output>>
    BY DEF fetch_halt, fetch_instr, TypeInv, TypeOK
<1>2. OutSides(p, S) /\ Handed(p, S) /\ Architectural(p, S) /\ text = p
    BY <1>1 DEF LockStep
<1> USE DEF AfterMemory, AfterExecute, AfterDecode, AfterFetch
<1>3. F_out.pred_PC = S[n].pred /\ AtX(X_out, p, S, n - 2) /\ AtM(M_out, p, S, n - 3)
    BY <1>2 DEF OutSides
<1>4. select_PC = S[n].pc
    BY <1>1, <1>3, SelectHolds
<1>5. F_in.status = "HLT" <=> S[n].halted
    BY <1>1, <1>2 DEF Handed, Fetching
<1>6. /\ InD(D_in', p, S[n])
      /\ F_out'.status = Fetch(p, S[n]) /\ F_out'.pred_PC = F_out.pred_PC
      /\ F_out'.status = "AOK" => F_PC' = Predicted(S[n], Insn(p, S[n]))
      /\ F_in'.status = "HLT" <=> Fetch(p, S[n]) = "HLT"
  <2>1. Determined(p, S[n])
      BY <1>1
  <2> QED BY <1>2, <1>4, <1>5, <2>1, FetchHolds
<1>7. /\ S[n + 1].pred = Predicted(S[n], Insn(p, S[n]))
      /\ S[n + 1].halted = (Fetch(p, S[n]) = "HLT")
    BY <1>1, StepFields DEF IsRun
<1>8. OutSides(p, S)'
    BY <1>1, <1>2, <1>6 DEF OutSides
<1>9. AtD(D_in', p, S, n)
    BY <1>1, <1>6 DEF AtD
<1>10. Handed(p, S)'
    BY <1>1, <1>2, <1>6, <1>7, <1>9 DEF Handed, Fetching
<1>11. Architectural(p, S)'
    BY <1>1, <1>2 DEF Architectural, HasRegs, Before, AtBoundary
<1> QED BY <1>1, <1>2, <1>8, <1>10, <1>11 DEF LockStep

\* The prediction is handed on, and F stalls behind a HLT or a fault.
LEMMA LockHazards ==
    ASSUME NEW p, NEW m, NEW S, Going(p, m, S), handle_hazards
    PROVE  LockStep(p, S)'
<1> USE DEF Going
<1>1. /\ stage = "hazards" /\ stage' = "clock"
      /\ UNCHANGED <<text, F_out, D_in, D_out, X_in, X_out, M_in, M_out, W_in,
                     W_out, gpr, nzcv, mem, W_wval, F_PC, dmem_status,
                     num_instr, output>>
    BY DEF handle_hazards
<1>2. OutSides(p, S) /\ Handed(p, S) /\ Architectural(p, S) /\ text = p
    BY <1>1 DEF LockStep
<1> USE DEF AfterMemory, AfterExecute, AfterDecode, AfterFetch
<1>3. F_in'.pred_PC = F_PC /\ F_in'.status = F_in.status /\ status' = W_out.status
    BY DEF handle_hazards, TypeInv, TypeOK, FRegs
<1>4. ctl'["F"] = IF F_out.status \in {"HLT", "INS"} THEN "P_STALL" ELSE "P_LOAD"
  <2>1. ctl["F"] # "P_ERROR"
      BY DEF Controls, Pipes
  <2>2. ctl'["F"] = pipe_control_stage(FALSE, WantsStall("F"), ctl["F"])
      BY DEF handle_hazards, Pipes
  <2> QED BY <2>1, <2>2 DEF pipe_control_stage, WantsStall
<1>5. OutSides(p, S)'
    BY <1>1, <1>2 DEF OutSides
<1>6. Handed(p, S)'
    BY <1>1, <1>2, <1>3, <1>4 DEF Handed, Fetching
<1>7. Architectural(p, S)'
    BY <1>1, <1>2 DEF Architectural, HasRegs, Before, AtBoundary
<1> QED BY <1>1, <1>2, <1>5, <1>6, <1>7 DEF LockStep

\* At the clock edge every instruction moves on, and so do the indices.
LEMMA LockClock ==
    ASSUME NEW p, NEW m, NEW S, Going(p, m, S), clock_edge
    PROVE  LockStep(p, S)'
<1> USE DEF Going
<1> PICK n : n = num_instr
    OBVIOUS
<1>1. /\ stage = "clock" /\ stage' \in {"wback", "done"} /\ n \in Nat
      /\ num_instr' = n + 1 /\ text' = text
      /\ UNCHANGED <<F_in, ctl, nzcv, mem, W_wval, output>>
    BY DEF clock_edge, TypeInv, TypeOK
<1>2. OutSides(p, S) /\ Handed(p, S) /\ Architectural(p, S) /\ text = p
    BY <1>1 DEF LockStep
<1> USE DEF AfterMemory, AfterExecute, AfterDecode, AfterFetch
<1>3. /\ ctl["D"] = "P_LOAD" /\ ctl["X"] = "P_LOAD"
      /\ ctl["M"] = "P_LOAD" /\ ctl["W"] = "P_LOAD"
    BY <1>1 DEF Controls, Pipes
<1>4. D_out' = D_in /\ X_out' = X_in /\ M_out' = M_in /\ W_out' = W_in
    BY <1>3 DEF clock_edge, Clocked
<1>5. /\ n + 1 \in Nat /\ n + 1 >= 1
      /\ (n + 1) - 1 = n /\ (n + 1) - 2 = n - 1
      /\ (n + 1) - 3 = n - 2 /\ (n + 1) - 4 = n - 3
    BY <1>1
<1>6. /\ AtD(D_in, p, S, n) /\ AtX(X_in, p, S, n - 1) /\ AtM(M_in, p, S, n - 2)
      /\ AtW(W_in, p, S, n - 3)
      /\ F_out.status = Fetch(p, S[n])
      /\ F_out.status = "AOK" => F_PC = S[n + 1].pred
      /\ F_in.status = "HLT" <=> S[n + 1].halted
      /\ F_in.pred_PC = F_PC /\ status = W_out.status
      /\ ctl["F"] = IF F_out.status \in {"HLT", "INS"} THEN "P_STALL" ELSE "P_LOAD"
    BY <1>1, <1>2 DEF Handed, Fetching
<1>7. S[n + 1] = DelayedStep(p, S[n])
    BY <1>1 DEF IsRun
<1>8. F_out'.pred_PC = S[n + 1].pred
  <2>1. Fetch(p, S[n]) \in {"INS", "HLT", "AOK"}
      BY DEF Fetch, FetchStatus
  <2>2. CASE Fetch(p, S[n]) = "AOK"
    <3>1. F_out' = F_in
        BY <1>6, <2>2 DEF clock_edge, Clocked
    <3> QED BY <1>6, <2>2, <3>1
  <2>3. CASE Fetch(p, S[n]) # "AOK"
    <3>1. F_out' = F_out
        BY <1>6, <2>1, <2>3 DEF clock_edge, Clocked
    <3>2. S[n + 1].pred = S[n].pred
        BY <1>7, <2>3, StepFields DEF Predicted, Fetch, Insn
    <3> QED BY <1>2, <3>1, <3>2 DEF OutSides
  <2> QED BY <2>2, <2>3
<1>9. OutSides(p, S)'
    BY <1>1, <1>4, <1>5, <1>6, <1>8 DEF OutSides
<1>10. Handed(p, S)'
    BY <1>1, <1>6 DEF Handed, Fetching
<1>11. \A k \in Nat : Before(S, k + 1)' = Before(S, k)
    BY <1>1 DEF Before
<1>12. /\ Before(S, 1)' = Before(S, 0) /\ Before(S, 2)' = Before(S, 1)
       /\ Before(S, 3)' = Before(S, 2) /\ Before(S, 4)' = Before(S, 3)
    BY <1>1 DEF Before
<1>13. HasRegs(Before(S, 1))'
  <2>1. HasRegs(Before(S, 0))
      BY <1>1, <1>2 DEF Architectural
  <2>2. \A r \in RegSlots \ {PC_SLOT} : gpr'[r] = gpr[r]
      BY DEF clock_edge, TypeInv, TypeOK
  <2> QED BY <1>12, <2>1, <2>2 DEF HasRegs
<1>14. /\ nzcv' = Before(S, 2)'.cc
       /\ mem' = Before(S, 3)'.mem /\ output' = Before(S, 3)'.out
    BY <1>1, <1>2, <1>12 DEF Architectural
<1>15. status' = Before(S, 4)'.status
  <2>1. status' = W_out.status
      BY <1>6 DEF clock_edge, Controls
  <2>2. AtW(W_out, p, S, n - 4)
      BY <1>2 DEF OutSides
  <2>3. CASE n < 4
    <3>1. W_out.status = "BUB"
        BY <1>1, <2>2, <2>3 DEF AtW, Idle
    <3>2. Before(S, 3) = S[0]
        BY <1>1, <2>3 DEF Before
    <3>3. S[0].status = "BUB"
        BY DEF IsRun, Start
    <3> QED BY <1>12, <2>1, <3>1, <3>2, <3>3
  <2>4. CASE n >= 4
    <3>1. n - 3 \in Nat /\ n - 3 >= 1 /\ (n - 3) - 1 = n - 4 /\ ~(n - 4 < 0)
        BY <1>1, <2>4
    <3>2. W_out.status = FinalStatus(S[n - 4], Insn(p, S[n - 4]), Res(p, S[n - 4]))
        BY <2>2, <3>1 DEF AtW, InW
    <3>3. S[n - 3] = DelayedStep(p, S[n - 4])
        BY <3>1, Previous
    <3>4. Before(S, 3) = S[n - 3]
        BY <1>1, <2>4 DEF Before
    <3> QED BY <1>12, <2>1, <3>2, <3>3, <3>4, StepFields
  <2> QED BY <1>1, <2>3, <2>4
<1>16. Architectural(p, S)'
    BY <1>1, <1>13, <1>14, <1>15 DEF Architectural, AtBoundary
<1> QED BY <1>1, <1>2, <1>9, <1>10, <1>16 DEF LockStep

\* The first instruction is about to be fetched; everything before it is a
\* bubble.
LEMMA LockInit ==
    ASSUME NEW p, NEW m, NEW S, IsRun(p, m, S), Init, text = p, mem = m
    PROVE  LockStep(p, S)
<1> USE DEF Init
<1>1. S[0] = Start(m) /\ num_instr = 0 /\ stage = "wback"
    BY DEF IsRun
<1>2. /\ S[0].pred = 1 % WordSize /\ S[0].halted = FALSE
      /\ S[0].regs = [r \in RegSlots |-> IF r = SP_NUM THEN InitSP ELSE 0]
      /\ S[0].cc = [n |-> 0, z |-> 1, c |-> 0, v |-> 0]
      /\ S[0].mem = m /\ S[0].out = <<>> /\ S[0].status = "BUB"
    BY <1>1 DEF Start
<1>3. OutSides(p, S)
    BY <1>1, <1>2
       DEF OutSides, AtD, AtX, AtM, AtW, Idle, ZeroD, ZeroX, ZeroM, ZeroW
<1> USE DEF AfterMemory, AfterExecute, AfterDecode, AfterFetch
<1>4. Handed(p, S)
    BY <1>1, <1>2 DEF Handed, Fetching, ZeroF
<1>5. \A k \in {1, 2, 3, 4} : Before(S, k) = S[0]
    BY <1>1 DEF Before
<1>6. HasRegs(S[0])
    BY <1>2 DEF HasRegs, RET_FROM_MAIN_ADDR
<1>7. Architectural(p, S)
    BY <1>1, <1>2, <1>5, <1>6 DEF Architectural, AtBoundary
<1> QED BY <1>3, <1>4, <1>7 DEF LockStep

\* The invariant holds at the start.
LEMMA DelayedInit == Init => DelayedInv
<1> SUFFICES ASSUME Init PROVE DelayedInv
    OBVIOUS
<1>1. TypeInv /\ Controls
    BY TypeInit, HaltInit DEF HaltInv
<1>2. Signals
    BY BubbleSignals DEF Init, Signals, ZeroX, ZeroM, ZeroW
<1>3. mem \in InitMems /\ text \in Programs
    BY DEF Init
<1>4. LockStep(text, Delayed(text, mem))
  <2> PICK p : p = text
      OBVIOUS
  <2> PICK m : m = mem
      OBVIOUS
  <2>1. IsRun(p, m, Delayed(p, m))
      BY DelayedRun DEF IsRun
  <2> QED BY <2>1, LockInit
<1> QED BY <1>1, <1>2, <1>3, <1>4 DEF DelayedInv

\* Every step keeps the invariant.
LEMMA DelayedNext == AllDetermined /\ DelayedInv /\ [Next]_vars => DelayedInv'
<1> SUFFICES ASSUME AllDetermined, DelayedInv, [Next]_vars PROVE DelayedInv'
    OBVIOUS
<1>1. TypeInv' /\ Controls' /\ Signals'
    BY TypeStep, ControlsStep, SignalsStep DEF DelayedInv
<1>2. PICK m \in InitMems : LockStep(text, Delayed(text, m))
    BY DEF DelayedInv
<1> PICK p : p = text
    OBVIOUS
<1> PICK S : S = Delayed(p, m)
    OBVIOUS
<1>3. Going(p, m, S)
    BY <1>2, DelayedRun DEF Going, IsRun, DelayedInv, AllDetermined
<1>4. LockStep(p, S)'
  <2>1. CASE wback_instr
      BY <1>3, <2>1, LockWback
  <2>2. CASE memory_trap
      BY <1>3, <2>2 DEF memory_trap, LockStep, Going
  <2>3. CASE memory_instr
      BY <1>3, <2>3, LockMemory
  <2>4. CASE execute_instr
      BY <1>3, <2>4, LockExecute
  <2>5. CASE decode_instr
      BY <1>3, <2>5, LockDecode
  <2>6. CASE fetch_halt \/ fetch_instr
      BY <1>3, <2>6, LockFetch
  <2>7. CASE handle_hazards
      BY <1>3, <2>7, LockHazards
  <2>8. CASE clock_edge
      BY <1>3, <2>8, LockClock
  <2>9. CASE UNCHANGED vars
      BY <1>3, <2>9
         DEF Going, LockStep, OutSides, Handed, Fetching, Architectural, HasRegs,
             Before, AtBoundary, vars, pipeVars
  <2> QED
      BY <2>1, <2>2, <2>3, <2>4, <2>5, <2>6, <2>7, <2>8, <2>9
         DEF Next, Step, run_over
<1>5. LockStep(text, Delayed(text, m))'
  <2>1. text' = p
      BY <1>4 DEF LockStep
  <2> QED BY <1>4, <2>1
<1>6. text' \in Programs
    BY <1>4 DEF LockStep, DelayedInv
<1> QED BY <1>1, <1>5, <1>6 DEF DelayedInv

\* The pipeline computes exactly what a machine computes that executes one
\* instruction at a time and applies the architectural delays: registers,
\* flags, memory, output and status (the loop of runElf, with its five stage
\* functions), whatever the program, the ALU, the word size and the memory.
THEOREM DelaysExact == Deterministic => (Spec => []MatchesDelayedIsa)
<1> SUFFICES ASSUME Deterministic PROVE Spec => []MatchesDelayedIsa
    OBVIOUS
<1>1. DelayedInv => MatchesDelayedIsa
  <2> SUFFICES ASSUME DelayedInv, AtBoundary
               PROVE  \E m \in InitMems : Matches(Delayed(text, m))
      BY DEF MatchesDelayedIsa
  <2>1. PICK m \in InitMems : LockStep(text, Delayed(text, m))
      BY DEF DelayedInv
  <2> PICK S : S = Delayed(text, m)
      OBVIOUS
  <2>2. Architectural(text, S)
      BY <2>1 DEF LockStep, AtBoundary
  <2>3. Matches(S)
      BY <2>2 DEF Architectural, Matches, HasRegs, AtBoundary, AfterMemory,
                  AfterExecute, AfterDecode, AfterFetch
  <2> QED BY <2>3
<1>2. DelayedInv /\ [Next]_vars => DelayedInv'
  <2>1. AllDetermined
      BY DEF AllDetermined, Determined, Deterministic
  <2> QED BY <2>1, DelayedNext
<1> QED BY <1>1, <1>2, DelayedInit, PTL DEF Spec
----------------------------------------------------------------------------
(* Spaced programs: the machine with delays executes the instructions of    *)
(* the architecture, in their order, with NOPs between them.                *)

\* The registers once the three results under way are written.
Settled(s) == Overlay(Overlay(Overlay(s.regs, s.old[1]), s.old[2]), s.old[3])

\* s, of the machine with delays, and t, of the architecture, hold the same
\* data, up to the results under way, which t knows to be recent.
SameData(s, t) ==
    /\ s.cc = t.cc /\ s.mem = t.mem /\ s.out = t.out
    /\ DOMAIN s.regs = RegSlots /\ t.regs = Settled(s)
    /\ s.old[1].on => s.old[1].slot \in t.recent[1] \cup t.recent[2] \cup t.recent[3]
    /\ s.old[2].on => s.old[2].slot \in t.recent[2] \cup t.recent[3]
    /\ s.old[3].on => s.old[3].slot \in t.recent[3]

\* No redirection of fetch is under way.
Undisturbed(s) ==
    /\ s.halted = FALSE /\ s.before.op # "RET"
    /\ s.fall1 = NoBranch /\ s.fall2 = NoBranch

Agree(s, t) == SameData(s, t) /\ Undisturbed(s) /\ s.pc = t.pc

\* The instruction of state s stops nothing and takes nothing from outside.
Harmless(p, s) ==
    /\ ~Halts(s) => s.pc \in DOMAIN p
    /\ Insn(p, s).op = "LDUR" => Res(p, s).val \notin {NULL_ADDR, IO_CHAR_ADDR}
    /\ Insn(p, s).op = "STUR" => Res(p, s).val # CHECKPOINT_ADDR
Fine(p, s) ==
    Harmless(p, s) /\ FinalStatus(s, Insn(p, s), Res(p, s)) = "AOK"

\* An address of the program is in the text segment.
LEMMA InText ==
    ASSUME NEW p \in Programs, NEW pc \in DOMAIN p
    PROVE  /\ pc \in Nat /\ pc # 0 /\ ~imem_err(pc)
           /\ p[pc] \in Insns /\ Fetched(p, pc) = p[pc]
<1>1. p \in Seq(Insns) /\ Len(p) <= TextWords /\ TextWords \in Nat
    BY ProgramAssumption, SizeAssumption
<1>2. DOMAIN p = 1..Len(p) /\ Len(p) \in Nat
    BY <1>1
<1>3. p[pc] \in Insns
    BY <1>1
<1> QED BY <1>1, <1>2, <1>3 DEF imem_err, Fetched

\* A write changes one register.
LEMMA OverlayOther ==
    ASSUME NEW f, DOMAIN f = RegSlots, NEW w, NEW g, g = Overlay(f, w),
           NEW q \in RegSlots, w.on => w.slot # q
    PROVE  DOMAIN g = RegSlots /\ g[q] = f[q]
BY DEF Overlay

\* A register that no recent instruction writes holds what it will hold.
LEMMA NotRecent ==
    ASSUME NEW s, NEW t, SameData(s, t), NEW q \in RegSlots,
           \A i \in 1..3 : q \notin t.recent[i]
    PROVE  t.regs[q] = s.regs[q]
<1>1. /\ s.old[1].on => s.old[1].slot # q
      /\ s.old[2].on => s.old[2].slot # q
      /\ s.old[3].on => s.old[3].slot # q
    BY DEF SameData
<1> PICK f : f = s.regs
    OBVIOUS
<1> PICK f1 : f1 = Overlay(f, s.old[1])
    OBVIOUS
<1> PICK f2 : f2 = Overlay(f1, s.old[2])
    OBVIOUS
<1> PICK f3 : f3 = Overlay(f2, s.old[3])
    OBVIOUS
<1>2. DOMAIN f = RegSlots /\ t.regs = f3
    BY DEF SameData, Settled
<1>3. DOMAIN f1 = RegSlots /\ f1[q] = f[q]
    BY <1>1, <1>2, OverlayOther
<1>4. DOMAIN f2 = RegSlots /\ f2[q] = f1[q]
    BY <1>1, <1>3, OverlayOther
<1>5. f3[q] = f2[q]
    BY <1>1, <1>4, OverlayOther
<1> QED BY <1>2, <1>3, <1>4, <1>5

\* What regfile's read port gives for a slot.
Port(regs, slot) == IF slot >= XZR_NUM THEN 0 ELSE regs[slot]

\* An instruction that keeps its distance from its producers reads the same
\* in both machines.
LEMMA SameReads ==
    ASSUME NEW s, NEW t, SameData(s, t), NEW insn \in Insns,
           \A i \in 1..3 : t.recent[i] \cap Reads(insn) \subseteq {XZR_NUM}
    PROVE  \A q \in Reads(insn) : Port(s.regs, q) = Port(t.regs, q)
<1> SUFFICES ASSUME NEW q \in Reads(insn) PROVE Port(s.regs, q) = Port(t.regs, q)
    OBVIOUS
<1>1. q \in RegSlots
    BY RegType DEF Reads, Insns
<1>2. CASE q = XZR_NUM
    BY <1>2 DEF Port, XZR_NUM
<1>3. CASE q # XZR_NUM
  <2>1. \A i \in 1..3 : q \notin t.recent[i]
      BY <1>3
  <2> QED BY <1>1, <2>1, NotRecent DEF Port
<1> QED BY <1>2, <1>3

\* The instructions that compute something from their operands.
Computes(op) == op \notin {"NOP", "HLT", "ERROR", "B", "BL", "B_COND"}

\* The operands of an instruction are in what it is said to read.
LEMMA OperandsRead ==
    ASSUME NEW insn \in Insns
    PROVE  LET op == insn.op
           IN /\ (Computes(op) /\ op \notin {"MOVZ", "ADRP"}) =>
                    Src1(insn, op) \in Reads(insn)
              /\ op \in ValbRegOps \cup {"STUR"} => Src2(insn, op) \in Reads(insn)
              /\ op \in SetCCOps => Computes(op)
BY DEF Reads, Src1Unused, Src2Rm, ValbRegOps, SetCCOps, Computes

\* What the two machines compute from the same operands.
LEMMA SameComputed ==
    ASSUME NEW s, NEW t, SameData(s, t), s.pc = t.pc, NEW insn \in Insns,
           \A i \in 1..3 : t.recent[i] \cap Reads(insn) \subseteq {XZR_NUM}
    PROVE  LET x == Computed(s, insn)
               y == Computed(t, insn)
           IN /\ Computes(insn.op) => x.a = y.a /\ x.val = y.val
              /\ insn.op = "STUR" => x.b = y.b
              /\ x.cc = y.cc
              /\ insn.op \notin SetCCOps => y.cc = t.cc
<1> PICK op : op = insn.op
    OBVIOUS
<1> DEFINE adrp == s.pc - (s.pc % PageWords)
           A(regs) == CASE op = "MOVZ" -> 0
                        [] op = "MOVK" -> clear_chunk(Port(regs, Src1(insn, op)), insn.hw)
                        [] op = "ADRP" -> adrp
                        [] OTHER -> Port(regs, Src1(insn, op))
           B(regs) == Port(regs, Src2(insn, op))
           hw == IF op \in {"MOVZ", "MOVK"} THEN insn.hw ELSE 0
           OpB(regs) == IF op \in ValbRegOps THEN B(regs)
                        ELSE extract_immval(insn, op) % WordSize
           Out(regs) == alu(decide_alu_op(op), A(regs), OpB(regs), hw)
           R(regs, cc) == [a |-> A(regs), b |-> B(regs), val |-> Out(regs).val_e,
                           cc |-> IF op \in SetCCOps THEN Out(regs).cc ELSE cc]
<1>1. Computed(s, insn) = R(s.regs, s.cc) /\ Computed(t, insn) = R(t.regs, t.cc)
    BY Zenon DEF Computed, Result, Port
<1>2. s.cc = t.cc
    BY DEF SameData
<1>3. /\ (Computes(op) /\ op \notin {"MOVZ", "ADRP"}) =>
            Port(s.regs, Src1(insn, op)) = Port(t.regs, Src1(insn, op))
      /\ op \in ValbRegOps \cup {"STUR"} => B(s.regs) = B(t.regs)
    BY SameReads, OperandsRead
<1>4. Computes(op) => A(s.regs) = A(t.regs)
    BY <1>3
<1>5. OpB(s.regs) = OpB(t.regs)
    BY <1>3
<1>6. Computes(op) => Out(s.regs) = Out(t.regs)
    BY <1>4, <1>5
<1>7. op \in SetCCOps => Computes(op)
    BY OperandsRead
<1> HIDE DEF A, B, Out
<1> QED BY <1>1, <1>2, <1>3, <1>4, <1>6, <1>7

\* What an instruction accesses when it respects the rules.
LEMMA RespectfulAccess ==
    ASSUME NEW p, NEW t, NEW insn, NEW r, Respects(p, t, insn, r)
    PROVE  /\ insn.op \in {"LDUR", "STUR"} => ~dmem_err(r.val)
           /\ insn.op = "LDUR" => ~is_special_addr(r.val)
           /\ insn.op = "STUR" => r.val # CHECKPOINT_ADDR
<1>1. insn.op \in {"LDUR", "STUR"} =>
        \/ r.val \in DataMem /\ ~is_special_addr(r.val)
        \/ insn.op = "STUR" /\ r.val = IO_CHAR_ADDR
    BY DEF Respects, Accesses
<1>2. IO_CHAR_ADDR # CHECKPOINT_ADDR
    BY MemAssumption
<1> QED BY <1>1, <1>2 DEF dmem_err, is_special_addr

\* The results under way, one instruction later.
LEMMA SettledStep ==
    ASSUME NEW p, NEW s
    PROVE  Settled(DelayedStep(p, s)) = Overlay(Settled(s), Wrote(p, s))
<1> PICK u : u = DelayedStep(p, s)
    OBVIOUS
<1>1. u.regs = Overlay(s.regs, s.old[1]) /\ u.old = <<s.old[2], s.old[3], Wrote(p, s)>>
    BY StepFields
<1>2. u.old[1] = s.old[2] /\ u.old[2] = s.old[3] /\ u.old[3] = Wrote(p, s)
    BY <1>1
<1> QED BY <1>1, <1>2 DEF Settled

\* The registers a step leaves keep their domain.
LEMMA DomainStep ==
    ASSUME NEW p, NEW s, DOMAIN s.regs = RegSlots
    PROVE  DOMAIN DelayedStep(p, s).regs = RegSlots
<1>1. DelayedStep(p, s).regs = Overlay(s.regs, s.old[1])
    BY StepFields
<1> QED BY <1>1 DEF Overlay

\* Both machines execute insn, which respects the rules; r is what the
\* architecture computes.
BothExecute(p, s, t, insn, r) ==
    /\ p \in Programs /\ SameData(s, t) /\ s.halted = FALSE /\ s.pc = t.pc
    /\ insn = Fetched(p, t.pc) /\ insn.op \notin {"HLT", "ERROR"}
    /\ r = Computed(t, insn) /\ Respects(p, t, insn, r)

\* What they make of it: the same results, and nothing that stops a run.
SameOutcome(p, s, t, insn, r) ==
    /\ Insn(p, s) = insn /\ Fetch(p, s) = "AOK" /\ Fine(p, s)
    /\ Res(p, s).cc = r.cc /\ (insn.op \notin SetCCOps => r.cc = t.cc)
    /\ Computes(insn.op) => Res(p, s).a = r.a
    /\ MemAfter(s, insn, Res(p, s)) = MemAfter(t, insn, r)
    /\ OutAfter(s, insn, Res(p, s)) = OutAfter(t, insn, r)
    /\ Wrote(p, s).on = (insn.op \notin NoWriteOps)
    /\ Wrote(p, s).slot = Dst(insn, insn.op)
    /\ insn.op \notin NoWriteOps =>
          Wrote(p, s).val = IF insn.op = "LDUR" THEN t.mem[r.val] ELSE r.val

\* Both machines make the same of an instruction that respects the rules.
LEMMA SameEffect ==
    ASSUME NEW p, NEW s, NEW t, NEW insn, NEW r, BothExecute(p, s, t, insn, r)
    PROVE  SameOutcome(p, s, t, insn, r)
<1> USE DEF BothExecute
<1>1. /\ insn.op # "BL" /\ t.pc \in DOMAIN p
      /\ \A i \in 1..3 : t.recent[i] \cap Reads(insn) \subseteq {XZR_NUM}
    BY DEF Respects
<1>2. /\ s.pc # 0 /\ ~imem_err(s.pc) /\ insn \in Insns /\ insn = p[t.pc]
    BY <1>1, InText
<1>3. ~Halts(s) /\ Insn(p, s) = insn
    BY <1>2 DEF Halts, Insn, Current
<1>4. Fetch(p, s) = "AOK"
    BY <1>2, <1>3 DEF Fetch, FetchStatus, Invalid, Insn
<1> PICK x : x = Res(p, s)
    OBVIOUS
<1>5. x = Computed(s, insn)
    BY <1>3 DEF Res, Insn
<1>6. /\ Computes(insn.op) => x.a = r.a /\ x.val = r.val
      /\ insn.op = "STUR" => x.b = r.b
      /\ x.cc = r.cc
      /\ insn.op \notin SetCCOps => r.cc = t.cc
    BY <1>1, <1>2, <1>5, SameComputed
<1>7. Computes("LDUR") /\ Computes("STUR")
    BY DEF Computes
<1>8. /\ insn.op \in {"LDUR", "STUR"} => ~dmem_err(x.val)
      /\ insn.op = "LDUR" => ~is_special_addr(x.val)
      /\ insn.op = "STUR" => x.val # CHECKPOINT_ADDR
    BY <1>6, <1>7, RespectfulAccess
<1>9. FinalStatus(s, insn, x) = "AOK"
    BY <1>3, <1>4, <1>8 DEF FinalStatus, Fetch, Insn
<1>10. Fine(p, s)
    BY <1>1, <1>3, <1>8, <1>9 DEF Fine, Harmless, is_special_addr
<1>11. s.mem = t.mem /\ s.out = t.out
    BY DEF SameData
<1>12. /\ MemAfter(s, insn, x) = MemAfter(t, insn, r)
       /\ OutAfter(s, insn, x) = OutAfter(t, insn, r)
    BY <1>6, <1>7, <1>11 DEF MemAfter, OutAfter
<1>13. Wrote(p, s) = Written(s, insn, x)
    BY <1>3 DEF Wrote, Insn, Res
<1>14. insn.op \notin NoWriteOps => Computes(insn.op)
    BY <1>1 DEF NoWriteOps, Computes
<1>15. insn.op = "LDUR" => Loaded(s, x.val) = t.mem[r.val]
    BY <1>6, <1>7, <1>8, <1>11 DEF Loaded, is_special_addr
<1> QED
    BY <1>3, <1>4, <1>6, <1>10, <1>12, <1>13, <1>14, <1>15
       DEF Written, SameOutcome

\* The data stay the same over an instruction of the program.
LEMMA SameDataStep ==
    ASSUME NEW p, NEW s, NEW t, NEW insn, NEW r, BothExecute(p, s, t, insn, r)
    PROVE  SameData(DelayedStep(p, s), IsaNext(p, t, insn, r))
<1> PICK u : u = DelayedStep(p, s)
    OBVIOUS
<1> PICK v : v = IsaNext(p, t, insn, r)
    OBVIOUS
<1> PICK w : w = Wrote(p, s)
    OBVIOUS
<1>1. /\ Insn(p, s) = insn /\ Res(p, s).cc = r.cc
      /\ MemAfter(s, insn, Res(p, s)) = MemAfter(t, insn, r)
      /\ OutAfter(s, insn, Res(p, s)) = OutAfter(t, insn, r)
      /\ w.on = (insn.op \notin NoWriteOps) /\ w.slot = Dst(insn, insn.op)
      /\ insn.op \notin NoWriteOps =>
            w.val = IF insn.op = "LDUR" THEN t.mem[r.val] ELSE r.val
    BY SameEffect DEF SameOutcome
<1>2. /\ u.cc = Res(p, s).cc /\ u.mem = MemAfter(s, insn, Res(p, s))
      /\ u.out = OutAfter(s, insn, Res(p, s))
      /\ u.old = <<s.old[2], s.old[3], w>>
    BY <1>1, StepFields
<1>3. /\ v.cc = r.cc /\ v.mem = MemAfter(t, insn, r) /\ v.out = OutAfter(t, insn, r)
      /\ v.recent = <<t.recent[2], t.recent[3], Writes(insn)>>
      /\ v.regs = IF insn.op \in NoWriteOps THEN t.regs
                  ELSE [t.regs EXCEPT ![Dst(insn, insn.op)] =
                           IF insn.op = "LDUR" THEN t.mem[r.val] ELSE r.val]
    BY DEF IsaNext
<1>4. v.regs = Overlay(t.regs, w)
    BY <1>1, <1>3 DEF Overlay
<1>5. v.regs = Settled(u)
    BY <1>4, SettledStep DEF SameData, BothExecute
<1>6. DOMAIN u.regs = RegSlots
    BY DomainStep DEF SameData, BothExecute
<1>7. /\ u.old[1] = s.old[2] /\ u.old[2] = s.old[3] /\ u.old[3] = w
      /\ v.recent[1] = t.recent[2] /\ v.recent[2] = t.recent[3]
      /\ v.recent[3] = Writes(insn)
    BY <1>2, <1>3
<1>8. w.on => w.slot \in Writes(insn)
    BY <1>1 DEF Writes
<1>9. /\ s.old[2].on => s.old[2].slot \in t.recent[2] \cup t.recent[3]
      /\ s.old[3].on => s.old[3].slot \in t.recent[3]
    BY DEF SameData, BothExecute
<1> QED BY <1>1, <1>2, <1>3, <1>5, <1>6, <1>7, <1>8, <1>9 DEF SameData

\* A NOP changes nothing: what is under way comes one step nearer.
LEMMA NopStep ==
    ASSUME NEW p \in Programs, NEW s, NEW t, SameData(s, t), s.halted = FALSE,
           IsNop(p, s.pc)
    PROVE  LET u == DelayedStep(p, s)
           IN /\ SameData(u, t) /\ Fine(p, s)
              /\ u.halted = FALSE /\ u.before.op = "NOP" /\ u.fall1 = NoBranch
              /\ u.fall2 = s.fall1 /\ Predicted(s, Insn(p, s)) = (s.pc + 1) % WordSize
              /\ u.pc = NextPC(s, Insn(p, s))
<1> PICK u : u = DelayedStep(p, s)
    OBVIOUS
<1> PICK insn : insn = Insn(p, s)
    OBVIOUS
<1> PICK r : r = Res(p, s)
    OBVIOUS
<1> PICK w : w = Wrote(p, s)
    OBVIOUS
<1>1. /\ s.pc \in DOMAIN p /\ s.pc # 0 /\ ~imem_err(s.pc)
      /\ Fetched(p, s.pc) = p[s.pc] /\ p[s.pc].op = "NOP"
    BY InText DEF IsNop
<1>2. ~Halts(s) /\ insn.op = "NOP"
    BY <1>1 DEF Halts, Insn, Current
<1>3. Fetch(p, s) = "AOK"
    BY <1>1, <1>2 DEF Fetch, FetchStatus, Invalid, Insn
<1>4. r.cc = s.cc
    BY <1>2 DEF Res, Computed, Result, Insn, SetCCOps
<1>5. w.on = FALSE
    BY <1>2 DEF Wrote, Written, Insn, NoWriteOps
<1>6. MemAfter(s, insn, r) = s.mem /\ OutAfter(s, insn, r) = s.out
    BY <1>2 DEF MemAfter, OutAfter
<1>7. /\ u.pc = NextPC(s, insn) /\ u.halted = (Fetch(p, s) = "HLT")
      /\ u.old = <<s.old[2], s.old[3], w>> /\ u.cc = r.cc
      /\ u.mem = MemAfter(s, insn, r) /\ u.out = OutAfter(s, insn, r)
      /\ u.before = insn /\ u.fall1 = FallsTo(s, insn, r) /\ u.fall2 = s.fall1
    BY StepFields
<1>8. u.fall1 = NoBranch
    BY <1>2, <1>7 DEF FallsTo
<1>9. Predicted(s, insn) = (s.pc + 1) % WordSize
    BY <1>2, <1>3 DEF Predicted, Fetch, Insn, predict_PC
<1>10. Fine(p, s)
    BY <1>1, <1>2, <1>3 DEF Fine, Harmless, FinalStatus, Fetch, Insn
<1>11. Settled(u) = t.regs
  <2>1. Settled(u) = Overlay(Settled(s), w)
      BY SettledStep
  <2> QED BY <1>5, <2>1 DEF Overlay, SameData
<1>12. DOMAIN u.regs = RegSlots
    BY DomainStep DEF SameData
<1>13. u.old[1] = s.old[2] /\ u.old[2] = s.old[3] /\ u.old[3] = w
    BY <1>7
<1>14. SameData(u, t)
    BY <1>4, <1>5, <1>6, <1>7, <1>11, <1>12, <1>13 DEF SameData
<1> QED BY <1>2, <1>3, <1>7, <1>8, <1>9, <1>10, <1>14

\* What an instruction of the program leaves in u, for fetch above all.
Leaves(p, u, t, insn, r) ==
    /\ SameData(u, IsaNext(p, t, insn, r))
    /\ u.halted = FALSE /\ u.before = insn
    /\ insn.op = "RET" => u.beforeA = r.a
    /\ u.pc = predict_PC(t.pc, insn) /\ u.fall2 = NoBranch
    /\ u.fall1 = IF insn.op = "B_COND" /\ ~Taken(t, insn)
                 THEN (t.pc + 1) % WordSize ELSE NoBranch

\* It leaves that for every instruction.
LEMMA ControlStep ==
    ASSUME NEW p, NEW s, NEW t, NEW insn, NEW r, BothExecute(p, s, t, insn, r),
           Undisturbed(s)
    PROVE  Fine(p, s) /\ Leaves(p, DelayedStep(p, s), t, insn, r)
<1> PICK u : u = DelayedStep(p, s)
    OBVIOUS
<1>1. /\ Insn(p, s) = insn /\ Fetch(p, s) = "AOK" /\ Fine(p, s)
      /\ Res(p, s).cc = r.cc /\ (insn.op \notin SetCCOps => r.cc = t.cc)
      /\ Computes(insn.op) => Res(p, s).a = r.a
    BY SameEffect DEF SameOutcome
<1>2. SameData(u, IsaNext(p, t, insn, r))
    BY SameDataStep
<1>3. /\ u.pc = NextPC(s, insn) /\ u.halted = (Fetch(p, s) = "HLT")
      /\ u.before = insn /\ u.beforeA = Res(p, s).a
      /\ u.fall1 = FallsTo(s, insn, Res(p, s)) /\ u.fall2 = s.fall1
    BY <1>1, StepFields
<1>4. s.pc = t.pc
    BY DEF BothExecute
<1>5. Predicted(s, insn) = predict_PC(t.pc, insn)
    BY <1>1, <1>4 DEF Predicted, Fetch, Insn
<1>6. u.pc = predict_PC(t.pc, insn) /\ u.fall2 = NoBranch
    BY <1>3, <1>5 DEF NextPC, Undisturbed
<1>7. insn.op = "B_COND" =>
         (cond_holds(insn.cond, Res(p, s).cc) <=> Taken(t, insn))
  <2>1. insn.op = "B_COND" => Res(p, s).cc = t.cc
      BY <1>1 DEF SetCCOps
  <2> QED BY <2>1 DEF Taken
<1>8. u.fall1 = IF insn.op = "B_COND" /\ ~Taken(t, insn)
                THEN (t.pc + 1) % WordSize ELSE NoBranch
    BY <1>3, <1>4, <1>7 DEF FallsTo
<1>9. insn.op = "RET" => u.beforeA = r.a
    BY <1>1, <1>3 DEF Computes
<1> QED BY <1>1, <1>2, <1>3, <1>6, <1>8, <1>9 DEF Leaves

\* Most instructions are followed by the architecture's next one at once.
LEMMA PlainStep ==
    ASSUME NEW p, NEW s, NEW t, NEW insn, NEW r, BothExecute(p, s, t, insn, r),
           Undisturbed(s), insn.op # "RET", insn.op = "B_COND" => Taken(t, insn)
    PROVE  Agree(DelayedStep(p, s), IsaNext(p, t, insn, r))
<1> PICK u : u = DelayedStep(p, s)
    OBVIOUS
<1>1. /\ SameData(u, IsaNext(p, t, insn, r))
      /\ u.halted = FALSE /\ u.before = insn
      /\ u.pc = predict_PC(t.pc, insn) /\ u.fall2 = NoBranch
      /\ u.fall1 = IF insn.op = "B_COND" /\ ~Taken(t, insn)
                   THEN (t.pc + 1) % WordSize ELSE NoBranch
  <2>1. Leaves(p, u, t, insn, r)
      BY ControlStep
  <2> QED BY <2>1 DEF Leaves
<1>2. Taken(t, insn) <=> insn.op \in {"B", "BL", "B_COND"}
    BY DEF Taken
<1>3. IsaNext(p, t, insn, r).pc = predict_PC(t.pc, insn)
    BY <1>2 DEF IsaNext, predict_PC
<1>4. Undisturbed(u)
    BY <1>1 DEF Undisturbed
<1> QED BY <1>1, <1>3, <1>4 DEF Agree

\* One NOP follows a RET.
LEMMA ReturnStep ==
    ASSUME NEW p, NEW s, NEW t, NEW insn, NEW r, BothExecute(p, s, t, insn, r),
           Undisturbed(s), insn.op = "RET"
    PROVE  LET u == DelayedStep(p, s)
           IN Fine(p, u) /\ Agree(DelayedStep(p, u), IsaNext(p, t, insn, r))
<1> PICK v : v = IsaNext(p, t, insn, r)
    OBVIOUS
<1> PICK u : u = DelayedStep(p, s)
    OBVIOUS
<1> PICK x : x = DelayedStep(p, u)
    OBVIOUS
<1>1. /\ SameData(u, v) /\ u.halted = FALSE /\ u.before.op = "RET"
      /\ u.beforeA = r.a /\ u.pc = (t.pc + 1) % WordSize
      /\ u.fall2 = NoBranch /\ u.fall1 = NoBranch
  <2>1. Leaves(p, u, t, insn, r)
      BY ControlStep
  <2> QED BY <2>1 DEF Leaves, predict_PC
<1>2. IsNop(p, u.pc) /\ p \in Programs
    BY <1>1 DEF BothExecute, Respects
<1>3. /\ SameData(x, v) /\ Fine(p, u)
      /\ x.halted = FALSE /\ x.before.op = "NOP" /\ x.fall1 = NoBranch
      /\ x.fall2 = u.fall1 /\ x.pc = NextPC(u, Insn(p, u))
    BY <1>1, <1>2, NopStep
<1>4. x.pc = r.a
    BY <1>1, <1>3 DEF NextPC
<1>5. v.pc = r.a
    BY DEF IsaNext
<1>6. Undisturbed(x)
    BY <1>1, <1>3 DEF Undisturbed
<1> QED BY <1>3, <1>4, <1>5, <1>6 DEF Agree

\* Two NOPs follow a conditional branch that is not taken.
LEMMA FallStep ==
    ASSUME NEW p, NEW s, NEW t, NEW insn, NEW r, BothExecute(p, s, t, insn, r),
           Undisturbed(s), insn.op = "B_COND", ~Taken(t, insn)
    PROVE  LET u == DelayedStep(p, s)
               x == DelayedStep(p, u)
           IN /\ Fine(p, u) /\ Fine(p, x)
              /\ Agree(DelayedStep(p, x), IsaNext(p, t, insn, r))
<1> PICK v : v = IsaNext(p, t, insn, r)
    OBVIOUS
<1> PICK u : u = DelayedStep(p, s)
    OBVIOUS
<1> PICK x : x = DelayedStep(p, u)
    OBVIOUS
<1> PICK y : y = DelayedStep(p, x)
    OBVIOUS
<1> PICK b : b = (t.pc + insn.imm) % WordSize
    OBVIOUS
<1> PICK f : f = (t.pc + 1) % WordSize
    OBVIOUS
<1>1. /\ SameData(u, v) /\ u.halted = FALSE /\ u.before.op # "RET"
      /\ u.pc = b /\ u.fall2 = NoBranch /\ u.fall1 = f
  <2>1. Leaves(p, u, t, insn, r)
      BY ControlStep
  <2> QED BY <2>1 DEF Leaves, predict_PC
<1>2. /\ IsNop(p, b) /\ IsNop(p, (b + 1) % WordSize) /\ p \in Programs
      /\ t.pc \in DOMAIN p
    BY DEF BothExecute, Respects
<1>3. /\ SameData(x, v) /\ Fine(p, u)
      /\ x.halted = FALSE /\ x.before.op = "NOP" /\ x.fall1 = NoBranch
      /\ x.fall2 = f /\ x.pc = NextPC(u, Insn(p, u))
      /\ Predicted(u, Insn(p, u)) = (b + 1) % WordSize
  <2>1. IsNop(p, u.pc) /\ p \in Programs /\ SameData(u, v) /\ u.halted = FALSE
      BY <1>1, <1>2
  <2>2. u.pc = b /\ u.fall1 = f
      BY <1>1
  <2>3. /\ SameData(x, v) /\ Fine(p, u)
        /\ x.halted = FALSE /\ x.before.op = "NOP" /\ x.fall1 = NoBranch
        /\ x.fall2 = u.fall1 /\ x.pc = NextPC(u, Insn(p, u))
        /\ Predicted(u, Insn(p, u)) = (u.pc + 1) % WordSize
      BY <2>1, NopStep
  <2> QED BY <2>2, <2>3
<1>4. x.pc = (b + 1) % WordSize
    BY <1>1, <1>3 DEF NextPC
<1>5. /\ SameData(y, v) /\ Fine(p, x)
      /\ y.halted = FALSE /\ y.before.op = "NOP" /\ y.fall1 = NoBranch
      /\ y.fall2 = NoBranch /\ y.pc = NextPC(x, Insn(p, x))
    BY <1>2, <1>3, <1>4, NopStep
<1>6. f # NoBranch
  <2>1. t.pc \in Nat
      BY <1>2, InText
  <2> QED BY <2>1, SizeAssumption DEF NoBranch
<1>7. y.pc = f
    BY <1>3, <1>5, <1>6 DEF NextPC
<1>8. v.pc = f
    BY DEF IsaNext
<1>9. Undisturbed(y)
    BY <1>5 DEF Undisturbed
<1> QED BY <1>3, <1>5, <1>7, <1>8, <1>9 DEF Agree

\* T is the run of the architecture.
IsPath(p, m, T) ==
    /\ T[0] = IsaStart(m)
    /\ \A k \in Nat : T[k + 1] = IsaStep(p, T[k])

\* The machine with delays comes to state t of the architecture within b
\* instructions, and all those before are harmless.
Reached(p, S, t, b) ==
    \E k \in Nat : /\ k <= b /\ Agree(S[k], t)
                   /\ \A i \in 0..(k - 1) : Fine(p, S[i])

\* What a step of the architecture that does not halt says of the one before.
LEMMA IsaBefore ==
    ASSUME NEW p, NEW t, ~IsaStep(p, t).halted, IsaStep(p, t).clean
    PROVE  LET insn == Fetched(p, t.pc)
               r == Computed(t, insn)
           IN /\ ~t.halted /\ t.clean /\ insn.op \notin {"HLT", "ERROR"}
              /\ Respects(p, t, insn, r) /\ IsaStep(p, t) = IsaNext(p, t, insn, r)
<1> PICK insn : insn = Fetched(p, t.pc)
    OBVIOUS
<1> PICK r : r = Computed(t, insn)
    OBVIOUS
<1>1. ~t.halted
    BY DEF IsaStep
<1>2. IsaHalt(p, t, insn).halted
    BY DEF IsaHalt
<1>3. insn.op \notin {"HLT", "ERROR"}
    BY <1>1, <1>2 DEF IsaStep
<1>4. IsaStep(p, t) = IsaNext(p, t, insn, r)
    BY <1>1, <1>3 DEF IsaStep
<1>5. t.clean /\ Respects(p, t, insn, r)
  <2>1. IsaNext(p, t, insn, r).clean = (t.clean /\ Respects(p, t, insn, r))
      BY DEF IsaNext
  <2>2. IsaNext(p, t, insn, r).clean
      BY <1>4
  <2> QED BY <2>1, <2>2, Zenon
<1> QED BY <1>1, <1>3, <1>4, <1>5

\* From one instruction of the architecture to the next the machine with
\* delays takes at most three.
LEMMA PathStep ==
    ASSUME NEW p \in Programs, NEW m, NEW S, IsRun(p, m, S), NEW k \in Nat, NEW t,
           Agree(S[k], t), NEW v, v = IsaStep(p, t), ~v.halted, v.clean
    PROVE  \E j \in {k + 1, k + 2, k + 3} :
               Agree(S[j], v) /\ \A i \in k..(j - 1) : Fine(p, S[i])
<1> PICK s : s = S[k]
    OBVIOUS
<1> PICK insn : insn = Fetched(p, t.pc)
    OBVIOUS
<1> PICK r : r = Computed(t, insn)
    OBVIOUS
<1>1. /\ insn.op \notin {"HLT", "ERROR"}
      /\ Respects(p, t, insn, r) /\ v = IsaNext(p, t, insn, r)
    BY IsaBefore
<1>2. BothExecute(p, s, t, insn, r) /\ Undisturbed(s)
    BY <1>1 DEF BothExecute, Agree, Undisturbed
<1>3. Fine(p, s)
    BY <1>2, ControlStep
<1> PICK u : u = DelayedStep(p, s)
    OBVIOUS
<1> PICK x : x = DelayedStep(p, u)
    OBVIOUS
<1> PICK y : y = DelayedStep(p, x)
    OBVIOUS
<1>4. u = S[k + 1] /\ x = S[k + 2] /\ y = S[k + 3]
  <2>1. /\ k + 1 \in Nat /\ k + 2 \in Nat
        /\ (k + 1) + 1 = k + 2 /\ (k + 2) + 1 = k + 3
      OBVIOUS
  <2>2. S[k + 1] = DelayedStep(p, S[k]) /\ S[k + 2] = DelayedStep(p, S[k + 1])
        /\ S[k + 3] = DelayedStep(p, S[k + 2])
      BY <2>1 DEF IsRun
  <2> QED BY <2>2
<1>5. CASE insn.op = "RET"
  <2>1. Fine(p, u) /\ Agree(x, v)
      BY <1>1, <1>2, <1>5, ReturnStep
  <2>2. \A i \in k..((k + 2) - 1) : i = k \/ i = k + 1
      OBVIOUS
  <2> QED BY <1>3, <1>4, <2>1, <2>2
<1>6. CASE insn.op = "B_COND" /\ ~Taken(t, insn)
  <2>1. Fine(p, u) /\ Fine(p, x) /\ Agree(y, v)
      BY <1>1, <1>2, <1>6, FallStep
  <2>2. \A i \in k..((k + 3) - 1) : i = k \/ i = k + 1 \/ i = k + 2
      OBVIOUS
  <2> QED BY <1>3, <1>4, <2>1, <2>2
<1>7. CASE insn.op # "RET" /\ (insn.op = "B_COND" => Taken(t, insn))
  <2>1. Agree(u, v)
      BY <1>1, <1>2, <1>7, PlainStep
  <2>2. \A i \in k..((k + 1) - 1) : i = k
      OBVIOUS
  <2> QED BY <1>3, <1>4, <2>1, <2>2
<1> QED BY <1>5, <1>6, <1>7

\* The two machines start in the same state.
LEMMA SameStart ==
    ASSUME NEW m
    PROVE  Agree(Start(m), IsaStart(m))
<1> PICK s : s = Start(m)
    OBVIOUS
<1>1. /\ s.pc = 1 % WordSize /\ s.halted = FALSE
      /\ s.regs = [r \in RegSlots |-> IF r = SP_NUM THEN InitSP ELSE 0]
      /\ s.old = <<NoResult, NoResult, NoResult>>
      /\ s.mem = m /\ s.out = <<>> /\ s.before = ZeroWord
      /\ s.fall1 = NoBranch /\ s.fall2 = NoBranch
    BY DEF Start
<1>2. s.old[1] = NoResult /\ s.old[2] = NoResult /\ s.old[3] = NoResult
    BY <1>1
<1>3. NoResult.on = FALSE
    BY DEF NoResult
<1>4. Settled(s) = s.regs
    BY <1>2, <1>3 DEF Settled, Overlay
<1>5. DOMAIN s.regs = RegSlots
    BY <1>1
<1>6. ZeroWord.op # "RET"
    BY DEF ZeroWord
<1> PICK t : t = IsaStart(m)
    OBVIOUS
<1>7. t.pc = 1 % WordSize /\ t.regs = s.regs /\ t.cc = s.cc /\ t.mem = m /\ t.out = <<>>
    BY DEF IsaStart
<1>8. SameData(s, t)
    BY <1>1, <1>2, <1>3, <1>4, <1>5, <1>7 DEF SameData
<1>9. Undisturbed(s)
    BY <1>1, <1>6 DEF Undisturbed
<1> QED BY <1>1, <1>7, <1>8, <1>9 DEF Agree

\* The machine with delays follows the architecture to every state before
\* the end.
LEMMA PathReached ==
    ASSUME NEW p \in Programs, NEW m, NEW S, IsRun(p, m, S),
           NEW T, IsPath(p, m, T), NEW n \in Nat, ~T[n].halted, T[n].clean
    PROVE  Reached(p, S, T[n], 3 * n)
<1> DEFINE C == {k \in Nat : ~T[k].halted /\ T[k].clean /\ ~Reached(p, S, T[k], 3 * k)}
<1> SUFFICES ASSUME C # {} PROVE FALSE
    OBVIOUS
<1>1. PICK x \in C : \A y \in C : x <= y
    BY Least
<1>2. x \in Nat /\ ~T[x].halted /\ T[x].clean /\ ~Reached(p, S, T[x], 3 * x)
    OBVIOUS
<1>3. CASE x = 0
  <2>1. Agree(S[0], T[0])
      BY SameStart DEF IsRun, IsPath
  <2>2. 0 \in Nat /\ 0 <= 3 * 0 /\ 0..(0 - 1) = {}
      OBVIOUS
  <2> QED BY <1>2, <1>3, <2>1, <2>2 DEF Reached
<1>4. CASE x # 0
  <2> PICK y : y = x - 1
      OBVIOUS
  <2>1. y \in Nat /\ y + 1 = x /\ ~(x <= y)
      BY <1>2, <1>4
  <2>2. T[x] = IsaStep(p, T[y])
      BY <2>1 DEF IsPath
  <2>3. ~T[y].halted /\ T[y].clean
      BY <1>2, <2>2, IsaBefore
  <2>4. Reached(p, S, T[y], 3 * y)
      BY <1>1, <2>1, <2>3
  <2>5. PICK k \in Nat : /\ k <= 3 * y /\ Agree(S[k], T[y])
                         /\ \A i \in 0..(k - 1) : Fine(p, S[i])
      BY <2>4 DEF Reached
  <2>6. PICK j \in {k + 1, k + 2, k + 3} :
            Agree(S[j], T[x]) /\ \A i \in k..(j - 1) : Fine(p, S[i])
      BY <1>2, <2>2, <2>5, PathStep
  <2>7. j \in Nat /\ j <= 3 * x
      BY <2>1, <2>5
  <2>8. \A i \in 0..(j - 1) : Fine(p, S[i])
      BY <2>5, <2>6
  <2> QED BY <1>2, <2>6, <2>7, <2>8 DEF Reached
<1> QED BY <1>3, <1>4

\* The architecture is at a HLT that ends the program cleanly.
AtEnd(p, t) ==
    /\ ~t.halted /\ t.clean /\ Fetched(p, t.pc).op = "HLT"
    /\ t.pc \in {0} \cup DOMAIN p

\* A program that halts cleanly comes to its HLT and then stays where it is.
LEMMA HaltPoint ==
    ASSUME NEW p, NEW m, NEW T, IsPath(p, m, T), NEW fuel \in Nat,
           T[fuel].halted, T[fuel].clean
    PROVE  \E n \in Nat :
               /\ n < fuel /\ AtEnd(p, T[n])
               /\ \A i \in Nat : i > n =>
                     T[i] = IsaHalt(p, T[n], Fetched(p, T[n].pc))
<1> DEFINE H == {k \in Nat : T[k].halted}
<1>1. PICK h \in H : \A y \in H : h <= y
  <2>1. fuel \in H
      OBVIOUS
  <2> HIDE DEF H
  <2>2. H # {} /\ H \in SUBSET Nat
      BY <2>1 DEF H
  <2> QED BY <2>2, Least
<1>2. h \in Nat /\ T[h].halted /\ h <= fuel
    BY <1>1
<1>3. h # 0
  <2>1. ~T[0].halted
      BY DEF IsPath, IsaStart
  <2> QED BY <1>2, <2>1
<1> PICK n : n = h - 1
    OBVIOUS
<1>4. n \in Nat /\ n + 1 = h /\ n < fuel /\ ~(h <= n)
    BY <1>2, <1>3
<1>5. ~T[n].halted
    BY <1>1, <1>4
<1> PICK insn : insn = Fetched(p, T[n].pc)
    OBVIOUS
<1>6. T[h] = IsaStep(p, T[n])
    BY <1>4 DEF IsPath
<1>7. T[h] = IsaHalt(p, T[n], insn)
  <2>1. ~IsaNext(p, T[n], insn, Computed(T[n], insn)).halted
      BY DEF IsaNext
  <2> QED BY <1>2, <1>5, <1>6, <2>1 DEF IsaStep
<1>8. ASSUME NEW i \in Nat, i >= h PROVE T[i] = T[h]
  <2> DEFINE C == {k \in Nat : k >= h /\ T[k] # T[h]}
  <2> SUFFICES ASSUME C # {} PROVE FALSE
      BY <1>8
  <2>1. PICK x \in C : \A y \in C : x <= y
      BY Least
  <2>2. x \in Nat /\ x >= h /\ T[x] # T[h]
      OBVIOUS
  <2> PICK y : y = x - 1
      OBVIOUS
  <2>3. y \in Nat /\ y + 1 = x /\ y >= h /\ ~(x <= y)
      BY <1>2, <2>2
  <2>4. T[y] = T[h]
      BY <2>1, <2>3
  <2>5. T[x] = IsaStep(p, T[y])
      BY <2>3 DEF IsPath
  <2> QED BY <1>2, <2>2, <2>4, <2>5 DEF IsaStep
<1>9. T[n].clean /\ insn.op = "HLT" /\ T[n].pc \in {0} \cup DOMAIN p
  <2>1. T[fuel] = T[h]
      BY <1>2, <1>8
  <2>2. IsaHalt(p, T[n], insn).clean =
          (T[n].clean /\ insn.op = "HLT" /\ T[n].pc \in {0} \cup DOMAIN p)
      BY DEF IsaHalt
  <2>3. IsaHalt(p, T[n], insn).clean
      BY <1>7, <2>1
  <2> QED BY <2>2, <2>3, Zenon
<1>10. ASSUME NEW i \in Nat, i > n PROVE T[i] = IsaHalt(p, T[n], insn)
  <2>1. i >= h
      BY <1>4, <1>10
  <2> QED BY <1>7, <1>8, <2>1
<1> QED BY <1>4, <1>5, <1>9, <1>10 DEF AtEnd

\* The machine with delays executes a HLT, at the state of the end.
Ending(p, s, t) ==
    /\ s.halted \/ (Fetched(p, s.pc).op = "HLT" /\ s.pc \in {0} \cup DOMAIN p)
    /\ s.cc = t.cc /\ s.mem = t.mem /\ s.out = t.out

\* It goes on executing HLTs, which change nothing.
LEMMA EndingStep ==
    ASSUME NEW p \in Programs, NEW s, NEW t, Ending(p, s, t)
    PROVE  /\ Harmless(p, s) /\ ~Wrote(p, s).on
           /\ DelayedStep(p, s).status = "HLT" /\ Ending(p, DelayedStep(p, s), t)
<1> PICK insn : insn = Insn(p, s)
    OBVIOUS
<1> PICK r : r = Res(p, s)
    OBVIOUS
<1> PICK u : u = DelayedStep(p, s)
    OBVIOUS
<1>1. insn.op = "HLT" /\ (~Halts(s) => s.pc \in DOMAIN p)
    BY DEF Ending, Halts, Insn, Current, HltWord, ZeroWord
<1>2. ~Invalid(s, insn)
    BY <1>1, InText DEF Invalid
<1>3. Fetch(p, s) = "HLT"
    BY <1>1, <1>2 DEF Fetch, FetchStatus, Insn
<1>4. Harmless(p, s)
    BY <1>1 DEF Harmless
<1>5. ~Wrote(p, s).on
    BY <1>1 DEF Wrote, Written, Insn, NoWriteOps
<1>6. FinalStatus(s, insn, r) = "HLT"
    BY <1>1, <1>3 DEF FinalStatus, Fetch, Insn
<1>7. r.cc = s.cc
    BY <1>1 DEF Res, Computed, Result, Insn, SetCCOps
<1>8. MemAfter(s, insn, r) = s.mem /\ OutAfter(s, insn, r) = s.out
    BY <1>1 DEF MemAfter, OutAfter
<1>9. /\ u.halted = (Fetch(p, s) = "HLT") /\ u.cc = r.cc
      /\ u.mem = MemAfter(s, insn, r) /\ u.out = OutAfter(s, insn, r)
      /\ u.status = FinalStatus(s, insn, r)
    BY StepFields
<1>10. Ending(p, u, t)
    BY <1>3, <1>7, <1>8, <1>9 DEF Ending
<1> QED BY <1>4, <1>5, <1>6, <1>9, <1>10

\* From the end of the program on nothing but HLTs is executed.
LEMMA EndingStays ==
    ASSUME NEW p \in Programs, NEW m, NEW S, IsRun(p, m, S), NEW K \in Nat, NEW t,
           Ending(p, S[K], t), NEW i \in Nat, i >= K
    PROVE  Ending(p, S[i], t)
<1> DEFINE C == {k \in Nat : k >= K /\ ~Ending(p, S[k], t)}
<1> SUFFICES ASSUME C # {} PROVE FALSE
    OBVIOUS
<1>1. PICK x \in C : \A y \in C : x <= y
    BY Least
<1>2. x \in Nat /\ x >= K /\ ~Ending(p, S[x], t)
    OBVIOUS
<1>3. x # K
    BY <1>2
<1> PICK y : y = x - 1
    OBVIOUS
<1>4. y \in Nat /\ y + 1 = x /\ y >= K /\ ~(x <= y)
    BY <1>2, <1>3
<1>5. Ending(p, S[y], t)
    BY <1>1, <1>4
<1>6. S[x] = DelayedStep(p, S[y])
    BY <1>4 DEF IsRun
<1> QED BY <1>2, <1>5, <1>6, EndingStep

\* Three instructions after the end every result is in its register.
LEMMA EndingSettles ==
    ASSUME NEW p \in Programs, NEW m, NEW S, IsRun(p, m, S), NEW K \in Nat, NEW t,
           Ending(p, S[K], t), t.regs = Settled(S[K]), NEW i \in Nat, i >= K + 3
    PROVE  S[i].regs = t.regs
<1>1. ASSUME NEW k \in Nat, k >= K
      PROVE  /\ S[k + 1].regs = Overlay(S[k].regs, S[k].old[1])
             /\ S[k + 1].old = <<S[k].old[2], S[k].old[3], Wrote(p, S[k])>>
             /\ ~Wrote(p, S[k]).on
  <2>1. S[k + 1] = DelayedStep(p, S[k])
      BY DEF IsRun
  <2>2. ~Wrote(p, S[k]).on
      BY <1>1, EndingStays, EndingStep
  <2> QED BY <2>1, <2>2, StepFields
<1>2. S[K + 3].regs = t.regs
  <2>1. /\ K + 1 \in Nat /\ K + 2 \in Nat /\ K + 1 >= K /\ K + 2 >= K
        /\ (K + 1) + 1 = K + 2 /\ (K + 2) + 1 = K + 3
      OBVIOUS
  <2>2. /\ S[K + 1].regs = Overlay(S[K].regs, S[K].old[1])
        /\ S[K + 1].old[1] = S[K].old[2] /\ S[K + 1].old[2] = S[K].old[3]
      BY <1>1
  <2>3. /\ S[K + 2].regs = Overlay(S[K + 1].regs, S[K + 1].old[1])
        /\ S[K + 2].old[1] = S[K + 1].old[2]
      BY <1>1, <2>1
  <2>4. S[K + 3].regs = Overlay(S[K + 2].regs, S[K + 2].old[1])
      BY <1>1, <2>1
  <2> QED BY <2>2, <2>3, <2>4 DEF Settled
<1> DEFINE C == {k \in Nat : k >= K + 3 /\ S[k].regs # t.regs}
<1> SUFFICES ASSUME C # {} PROVE FALSE
    OBVIOUS
<1>3. PICK x \in C : \A y \in C : x <= y
    BY Least
<1>4. x \in Nat /\ x >= K + 3 /\ S[x].regs # t.regs
    OBVIOUS
<1>5. x # K + 3
    BY <1>2, <1>4
<1> PICK y : y = x - 1
    OBVIOUS
<1>6. y \in Nat /\ y + 1 = x /\ y >= K /\ y >= K + 3 /\ ~(x <= y)
    BY <1>4, <1>5
<1>7. S[y].regs = t.regs
    BY <1>3, <1>6
<1>8. S[x].regs = Overlay(S[y].regs, S[y].old[1])
    BY <1>1, <1>6
<1>9. y - 3 \in Nat /\ y - 3 >= K /\ y >= 3
    BY <1>6
<1>10. S[y].old[1] = Wrote(p, S[y - 3]) /\ ~Wrote(p, S[y - 3]).on
    BY <1>1, <1>6, <1>9, OldResult
<1> QED BY <1>4, <1>7, <1>8, <1>10 DEF Overlay

\* The run S is harmless, halts with instruction K and leaves what R has.
EndsWith(p, S, K, R) ==
    /\ \A i \in Nat : Harmless(p, S[i])
    /\ \A i \in Nat : i <= K => S[i].status \in {"BUB", "AOK"}
    /\ \A i \in Nat : i > K => S[i].status = "HLT"
    /\ \A i \in Nat : i >= K => S[i].cc = R.cc /\ S[i].mem = R.mem /\ S[i].out = R.out
    /\ \A i \in Nat : i >= K + 3 => S[i].regs = R.regs

\* On a spaced program the machine with delays comes to the result of the
\* architecture, in at most three times as many instructions.
LEMMA SpacedRun ==
    ASSUME NEW p \in Programs, NEW m, NEW fuel \in Nat, Spaced(p, m, fuel),
           fuel <= CycleMax
    PROVE  \E K \in Nat : /\ K + 3 <= 3 * fuel
                          /\ EndsWith(p, Delayed(p, m), K, IsaRun(p, m)[CycleMax])
<1> PICK S : S = Delayed(p, m)
    OBVIOUS
<1> PICK T : T = IsaRun(p, m)
    OBVIOUS
<1>1. IsRun(p, m, S) /\ IsPath(p, m, T)
    BY DelayedRun, IsaRuns DEF IsRun, IsPath
<1>2. T[fuel].halted /\ T[fuel].clean
    BY DEF Spaced
<1>3. PICK n \in Nat : /\ n < fuel /\ AtEnd(p, T[n])
                       /\ \A i \in Nat : i > n =>
                             T[i] = IsaHalt(p, T[n], Fetched(p, T[n].pc))
    BY <1>1, <1>2, HaltPoint
<1> PICK t : t = T[n]
    OBVIOUS
<1>4. Reached(p, S, t, 3 * n)
    BY <1>1, <1>3, PathReached DEF AtEnd
<1>5. PICK K \in Nat : /\ K <= 3 * n /\ Agree(S[K], t)
                       /\ \A i \in 0..(K - 1) : Fine(p, S[i])
    BY <1>4 DEF Reached
<1>6. Ending(p, S[K], t) /\ t.regs = Settled(S[K])
    BY <1>3, <1>5 DEF Agree, SameData, AtEnd, Ending
<1> PICK R : R = T[CycleMax]
    OBVIOUS
<1>7. R.cc = t.cc /\ R.mem = t.mem /\ R.out = t.out /\ R.regs = t.regs
  <2>1. CycleMax \in Nat /\ CycleMax > n
      BY <1>3, SizeAssumption
  <2>2. R = IsaHalt(p, t, Fetched(p, t.pc))
      BY <1>3, <2>1
  <2> QED BY <2>2 DEF IsaHalt
<1>8. ASSUME NEW i \in Nat, i >= K
      PROVE  /\ Harmless(p, S[i]) /\ S[i + 1].status = "HLT"
             /\ S[i].cc = R.cc /\ S[i].mem = R.mem /\ S[i].out = R.out
  <2>1. Ending(p, S[i], t)
      BY <1>1, <1>6, <1>8, EndingStays
  <2>2. S[i + 1] = DelayedStep(p, S[i])
      BY <1>1 DEF IsRun
  <2> QED BY <1>7, <2>1, <2>2, EndingStep DEF Ending
<1>9. ASSUME NEW i \in Nat PROVE Harmless(p, S[i])
  <2>1. CASE i >= K
      BY <1>8, <2>1
  <2>2. CASE i < K
    <3>1. i \in 0..(K - 1)
        BY <2>2
    <3> QED BY <1>5, <3>1 DEF Fine
  <2> QED BY <2>1, <2>2
<1>10. ASSUME NEW i \in Nat, i <= K PROVE S[i].status \in {"BUB", "AOK"}
  <2>1. CASE i = 0
      BY <1>1, <2>1 DEF IsRun, Start
  <2>2. CASE i # 0
    <3>1. i >= 1 /\ i - 1 \in 0..(K - 1)
        BY <1>10, <2>2
    <3>2. S[i] = DelayedStep(p, S[i - 1])
        BY <1>1, <3>1, Previous
    <3>3. Fine(p, S[i - 1])
        BY <1>5, <3>1
    <3> QED BY <3>2, <3>3, StepFields DEF Fine
  <2> QED BY <2>1, <2>2
<1>11. ASSUME NEW i \in Nat, i > K PROVE S[i].status = "HLT"
  <2>1. i - 1 \in Nat /\ i - 1 >= K /\ (i - 1) + 1 = i
      BY <1>11
  <2>2. S[(i - 1) + 1].status = "HLT"
      BY <1>8, <2>1
  <2> QED BY <2>1, <2>2
<1>12. ASSUME NEW i \in Nat, i >= K + 3 PROVE S[i].regs = R.regs
    BY <1>1, <1>6, <1>7, <1>12, EndingSettles
<1>13. EndsWith(p, S, K, R)
    BY <1>8, <1>9, <1>10, <1>11, <1>12 DEF EndsWith
<1>14. K + 3 <= 3 * fuel
    BY <1>3, <1>5
<1> QED BY <1>13, <1>14

\* What a cycle limit with room for the NOPs says of the runs.
LEMMA RoomyRuns ==
    ASSUME NEW fuel, Roomy(fuel), NEW p \in Programs, NEW m \in InitMems
    PROVE  \E K \in Nat : /\ K + 5 <= CycleMax
                          /\ EndsWith(p, Delayed(p, m), K, IsaRun(p, m)[CycleMax])
<1>1. /\ fuel \in Nat /\ 3 * fuel + 2 <= CycleMax /\ Spaced(p, m, fuel)
      /\ CycleMax \in Nat
    BY SizeAssumption DEF Roomy, AllSpaced
<1>2. fuel <= CycleMax
    BY <1>1
<1>3. PICK K \in Nat : /\ K + 3 <= 3 * fuel
                       /\ EndsWith(p, Delayed(p, m), K, IsaRun(p, m)[CycleMax])
    BY <1>1, <1>2, SpacedRun
<1>4. K + 5 <= CycleMax
    BY <1>1, <1>3
<1> QED BY <1>3, <1>4

\* A spaced program reads nothing that may vary.
LEMMA SpacedDetermined == \A fuel : Roomy(fuel) => AllDetermined
<1> SUFFICES ASSUME NEW fuel, Roomy(fuel), NEW p \in Programs, NEW m \in InitMems,
                    NEW k \in Nat
             PROVE  Determined(p, Delayed(p, m)[k])
    BY DEF AllDetermined
<1> PICK s : s = Delayed(p, m)[k]
    OBVIOUS
<1>1. Harmless(p, s)
    BY RoomyRuns DEF EndsWith
<1>2. ~Halts(s) => ~imem_err(s.pc)
    BY <1>1, InText DEF Harmless
<1> QED BY <1>1, <1>2 DEF Determined, Harmless

\* The loop stops only when it may.
StopsInTime == stage = "done" => ~KeepsRunning(status, num_instr)

SpacedInv == DelayedInv /\ stage # "exited" /\ StopsInTime

\* No access of a spaced program, nor one behind its branches, traps.
LEMMA SpacedNoTrap ==
    ASSUME NEW fuel, Roomy(fuel), DelayedInv, stage = "memory"
    PROVE  ~Traps(M_out)
<1>1. PICK m \in InitMems : LockStep(text, Delayed(text, m))
    BY DEF DelayedInv
<1> PICK p : p = text
    OBVIOUS
<1> PICK S : S = Delayed(p, m)
    OBVIOUS
<1> PICK n : n = num_instr
    OBVIOUS
<1>2. p \in Programs /\ n \in Nat /\ AtM(M_out, p, S, n - 3)
    BY <1>1 DEF LockStep, OutSides, DelayedInv, TypeInv, TypeOK
<1>3. /\ M_out.M_sigs.dmem_read = (M_out.op = "LDUR")
      /\ M_out.M_sigs.dmem_write = (M_out.op = "STUR")
    BY SignalValues DEF DelayedInv
<1>4. CASE n < 3
  <2>1. M_out.op = "NOP"
      BY <1>2, <1>4 DEF AtM, Idle
  <2> QED BY <1>3, <2>1 DEF Traps
<1>5. CASE n >= 3
  <2>1. InM(M_out, p, S[n - 3]) /\ n - 3 \in Nat
      BY <1>2, <1>5 DEF AtM
  <2>2. Harmless(p, S[n - 3])
      BY <1>2, <2>1, RoomyRuns DEF EndsWith
  <2>3. M_out.op = Insn(p, S[n - 3]).op /\ M_out.val_ex = Res(p, S[n - 3]).val
      BY <2>1 DEF InM
  <2> QED BY <1>3, <2>2, <2>3 DEF Harmless, Traps
<1> QED BY <1>2, <1>4, <1>5

\* A step keeps the invariant.
LEMMA SpacedStep ==
    ASSUME NEW fuel, Roomy(fuel), SpacedInv, [Next]_vars
    PROVE  SpacedInv'
<1>1. DelayedInv'
    BY SpacedDetermined, DelayedNext DEF SpacedInv
<1>2. stage' # "exited" /\ StopsInTime'
  <2>1. CASE memory_trap
    <3>1. FALSE
        BY <2>1, SpacedNoTrap DEF memory_trap, SpacedInv
    <3> QED BY <3>1
  <2>2. CASE clock_edge
      BY <2>2 DEF clock_edge, StopsInTime
  <2>3. CASE UNCHANGED vars
      BY <2>3 DEF vars, StopsInTime, SpacedInv
  <2>4. CASE \/ wback_instr \/ memory_instr \/ execute_instr \/ decode_instr
             \/ fetch_halt \/ fetch_instr \/ handle_hazards
      BY <2>4 DEF wback_instr, memory_instr, execute_instr, decode_instr,
                  fetch_halt, fetch_instr, handle_hazards, StopsInTime
  <2> QED BY <2>1, <2>2, <2>3, <2>4 DEF Next, Step, run_over
<1> QED BY <1>1, <1>2 DEF SpacedInv

\* When the loop has stopped the HLT has retired, and every result is in its
\* place.
LEMMA SpacedEnd ==
    ASSUME NEW fuel, Roomy(fuel), SpacedInv
    PROVE  SpacedMatchesIsa
<1> SUFFICES ASSUME stage = "done"
             PROVE  /\ status = "HLT"
                    /\ \E m \in InitMems : HasResult(IsaRun(text, m)[CycleMax])
    BY DEF SpacedMatchesIsa, SpacedInv
<1>1. PICK m \in InitMems : LockStep(text, Delayed(text, m))
    BY DEF SpacedInv, DelayedInv
<1> PICK S : S = Delayed(text, m)
    OBVIOUS
<1> PICK R : R = IsaRun(text, m)[CycleMax]
    OBVIOUS
<1> PICK n : n = num_instr
    OBVIOUS
<1>2. text \in Programs /\ n \in Nat /\ n <= CycleMax /\ CycleMax \in Nat
    BY SizeAssumption DEF SpacedInv, DelayedInv, TypeInv, TypeOK
<1>3. PICK K \in Nat : K + 5 <= CycleMax /\ EndsWith(text, S, K, R)
    BY <1>2, RoomyRuns
<1>4. Matches(S)
    BY <1>1 DEF LockStep, Architectural, Matches, HasRegs, AtBoundary, AfterMemory,
                AfterExecute, AfterDecode, AfterFetch
<1>5. n >= K + 5
  <2> SUFFICES ASSUME n < K + 5 PROVE FALSE
      BY <1>2
  <2>1. status \notin {"AOK", "BUB"}
      BY <1>2, <1>3 DEF SpacedInv, StopsInTime, KeepsRunning
  <2>2. status = Before(S, 4).status
      BY <1>4 DEF Matches
  <2> PICK i : i = IF n >= 4 THEN n - 4 ELSE 0
      OBVIOUS
  <2>3. i \in Nat /\ i <= K /\ Before(S, 4) = S[i]
      BY <1>2 DEF Before
  <2>4. S[i].status \in {"BUB", "AOK"}
      BY <1>3, <2>3 DEF EndsWith
  <2> QED BY <2>1, <2>2, <2>3, <2>4
<1>6. /\ n - 1 \in Nat /\ n - 2 \in Nat /\ n - 3 \in Nat /\ n - 4 \in Nat
      /\ n - 1 >= K + 3 /\ n - 2 >= K /\ n - 3 >= K /\ n - 4 > K
    BY <1>2, <1>5
<1>7. /\ Before(S, 1) = S[n - 1] /\ Before(S, 2) = S[n - 2]
      /\ Before(S, 3) = S[n - 3] /\ Before(S, 4) = S[n - 4]
    BY <1>2, <1>5 DEF Before
<1>8. /\ S[n - 1].regs = R.regs /\ S[n - 2].cc = R.cc
      /\ S[n - 3].mem = R.mem /\ S[n - 3].out = R.out
      /\ S[n - 4].status = "HLT"
    BY <1>3, <1>6 DEF EndsWith
<1>9. \A r \in 0..SP_NUM : r \in RegSlots \ {PC_SLOT}
    BY DEF SP_NUM, RegSlots, PC_SLOT
<1>10. HasResult(R) /\ status = "HLT"
    BY <1>4, <1>7, <1>8, <1>9 DEF Matches, HasResult
<1> QED BY <1>10

\* A program that keeps the pipeline's distances, as the tests under
\* alu/simple and branch/simple do, runs as the architecture says (runElf with
\* its stages): it ends with a clean halt, never traps, and leaves the
\* registers, flags, memory and output of an execution in which every
\* instruction sees all the earlier ones and no wrong-path instruction exists.
THEOREM SpacedExact ==
    ASSUME NEW CONSTANT fuel, Roomy(fuel)
    PROVE  Spec => []SpacedMatchesIsa
<1>1. Init => SpacedInv
    BY DelayedInit DEF Init, SpacedInv, StopsInTime
<1>2. SpacedInv /\ [Next]_vars => SpacedInv'
    BY SpacedStep
<1>3. SpacedInv => SpacedMatchesIsa
    BY SpacedEnd
<1> QED BY <1>1, <1>2, <1>3, PTL DEF Spec
=============================================================================
