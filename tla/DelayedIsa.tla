----------------------------- MODULE DelayedIsa -----------------------------
(***************************************************************************)
(* Two machines that execute one instruction at a time and have no         *)
(* pipeline registers, to compare the pipeline with.                       *)
(*                                                                         *)
(* Delayed(p, m) is a machine with delays: the result of a register is     *)
(* seen by the fourth instruction after its producer, a RET takes effect   *)
(* after one more instruction, a conditional branch falls through after    *)
(* two more, and an invalid word makes fetch repeat its prediction.        *)
(*                                                                         *)
(* IsaRun(p, m) is the architecture: every instruction sees all the earlier   *)
(* ones, and nothing executes that the program does not reach.             *)
(***************************************************************************)
EXTENDS Pipeline

\* What both machines compute for an instruction once its operands are read.
Result(insn, op, adrp, regs, cc) ==
    LET read(s) == IF s >= XZR_NUM THEN 0 ELSE regs[s]
        a == CASE op = "MOVZ" -> 0
               [] op = "MOVK" -> clear_chunk(read(Src1(insn, op)), insn.hw)
               [] op = "ADRP" -> adrp
               [] OTHER -> read(Src1(insn, op))
        b == read(Src2(insn, op))
        hw == IF op \in {"MOVZ", "MOVK"} THEN insn.hw ELSE 0
        opB == IF op \in ValbRegOps THEN b
               ELSE extract_immval(insn, op) % WordSize
        res == alu(decide_alu_op(op), a, opB, hw)
    IN [a |-> a, b |-> b, val |-> res.val_e,
        cc |-> IF op \in SetCCOps THEN res.cc ELSE cc]

\* What fetch finds outside the text, and a program reads, if that is always
\* the same.
Outside == CHOOSE w \in OutsideWords : TRUE
Input == CHOOSE v \in IoInputs : TRUE
Deterministic ==
    /\ \A w \in OutsideWords : w = Outside
    /\ \A v \in IoInputs : v = Input

Fetched(p, pc) ==
    IF pc = 0 THEN HltWord
    ELSE IF imem_err(pc) THEN Outside
    ELSE IF pc \in DOMAIN p THEN p[pc] ELSE ZeroWord

----------------------------------------------------------------------------
(* The machine with delays.  "old" is the list of the last three results,  *)
(* oldest first, each a slot and the value it gets.                        *)

NoResult == [on |-> FALSE, slot |-> 0, val |-> 0]
NoBranch == -1

Start(m) ==
    [pc |-> 1 % WordSize, pred |-> 1 % WordSize, halted |-> FALSE,
     regs |-> [r \in RegSlots |-> IF r = SP_NUM THEN InitSP ELSE 0],
     old |-> <<NoResult, NoResult, NoResult>>,
     cc |-> [n |-> 0, z |-> 1, c |-> 0, v |-> 0],
     mem |-> m, out |-> <<>>,
     before |-> ZeroWord, beforeA |-> 1,   \* the previous instruction
     fall1 |-> NoBranch, fall2 |-> NoBranch, \* branches not taken 1, 2 back
     status |-> "BUB"]

Overlay(regs, w) == IF w.on THEN [regs EXCEPT ![w.slot] = w.val] ELSE regs

\* What the machine executes in state s, and what the instruction, insn,
\* computes, r; the rest is given both.
Halts(s) == s.halted \/ s.pc = 0
Current(p, s) == IF Halts(s) THEN HltWord ELSE Fetched(p, s.pc)
Computed(s, insn) ==
    Result(insn, insn.op, s.pc - (s.pc % PageWords), s.regs, s.cc)

Invalid(s, insn) == ~Halts(s) /\ (imem_err(s.pc) \/ insn.op = "ERROR")
FetchStatus(s, insn) ==
    IF Invalid(s, insn) THEN "INS" ELSE IF insn.op = "HLT" THEN "HLT" ELSE "AOK"
Predicted(s, insn) ==
    IF FetchStatus(s, insn) # "AOK" THEN s.pred ELSE predict_PC(s.pc, insn)
NextPC(s, insn) ==
    IF s.before.op = "RET" /\ s.beforeA = 0 THEN 0
    ELSE IF s.fall2 # NoBranch THEN s.fall2
    ELSE IF s.before.op = "RET" THEN s.beforeA ELSE Predicted(s, insn)
FallsTo(s, insn, r) ==
    IF insn.op = "B_COND" /\ ~cond_holds(insn.cond, r.cc)
    THEN (s.pc + 1) % WordSize ELSE NoBranch

Loaded(s, addr) ==
    IF addr = CHECKPOINT_ADDR THEN 0
    ELSE IF addr = IO_CHAR_ADDR THEN Input ELSE s.mem[addr]
Written(s, insn, r) ==
    [on |-> insn.op \notin NoWriteOps, slot |-> Dst(insn, insn.op),
     val |-> IF insn.op = "LDUR" THEN Loaded(s, r.val) ELSE r.val]
MemAfter(s, insn, r) ==
    IF insn.op # "STUR" \/ is_special_addr(r.val) THEN s.mem
    ELSE [s.mem EXCEPT ![r.val] = r.b]
OutAfter(s, insn, r) ==
    IF insn.op = "STUR" /\ r.val = IO_CHAR_ADDR THEN Append(s.out, r.b) ELSE s.out
FinalStatus(s, insn, r) ==
    IF insn.op \in {"LDUR", "STUR"} /\ dmem_err(r.val) THEN "ADR"
    ELSE FetchStatus(s, insn)

DelayedStep(p, s) ==
    LET insn == Current(p, s)
        r == Computed(s, insn)
    IN [pc |-> NextPC(s, insn), pred |-> Predicted(s, insn),
        halted |-> FetchStatus(s, insn) = "HLT",
        regs |-> Overlay(s.regs, s.old[1]),
        old |-> <<s.old[2], s.old[3], Written(s, insn, r)>>,
        cc |-> r.cc,
        mem |-> MemAfter(s, insn, r), out |-> OutAfter(s, insn, r),
        before |-> insn, beforeA |-> r.a,
        fall1 |-> FallsTo(s, insn, r), fall2 |-> s.fall1,
        status |-> FinalStatus(s, insn, r)]

\* The machine's state after k instructions.
Delayed(p, m) ==
    LET run[k \in Nat] ==
            IF k = 0 THEN Start(m) ELSE DelayedStep(p, run[k - 1])
    IN run

----------------------------------------------------------------------------
(* The architecture, instruction by instruction, and whether the program   *)
(* keeps to what the week-1 pipeline asks of programs, as the tests under  *)
(* alu/simple and branch/simple do: no register is read by one of the      *)
(* three instructions after its producer, and what the pipeline executes   *)
(* without being asked to is NOPs.  "recent" has the slots the last three  *)
(* instructions wrote, oldest first; "clean" is FALSE once a rule is       *)
(* broken.                                                                 *)

Reads(insn) ==
    (IF insn.op \in Src1Unused THEN {} ELSE {Src1(insn, insn.op)})
      \cup (IF insn.op \in Src2Rm \cup {"STUR"} THEN {Src2(insn, insn.op)} ELSE {})
Writes(insn) == IF insn.op \in NoWriteOps THEN {} ELSE {Dst(insn, insn.op)}
Accesses(insn, r) ==
    IF insn.op \in {"LDUR", "STUR"} THEN {r.val} ELSE {}

IsNop(p, pc) == pc \in DOMAIN p /\ p[pc].op = "NOP"

Taken(s, insn) ==
    insn.op \in {"B", "BL"} \/ (insn.op = "B_COND" /\ cond_holds(insn.cond, s.cc))

\* The instruction fetched behind a RET is executed, and so are the two at
\* the target of a conditional branch that is not taken.
Respects(p, s, insn, r) ==
    /\ insn.op # "BL" /\ s.pc \in DOMAIN p
    /\ \A i \in 1..3 : s.recent[i] \cap Reads(insn) \subseteq {XZR_NUM}
    /\ Accesses(insn, r) \subseteq
          {a \in DataMem : ~is_special_addr(a)}
             \cup (IF insn.op = "STUR" THEN {IO_CHAR_ADDR} ELSE {})
    /\ insn.op = "RET" => IsNop(p, (s.pc + 1) % WordSize)
    /\ (insn.op = "B_COND" /\ ~Taken(s, insn)) =>
          LET t == (s.pc + insn.imm) % WordSize
          IN IsNop(p, t) /\ IsNop(p, (t + 1) % WordSize)

IsaStart(m) ==
    [pc |-> 1 % WordSize, halted |-> FALSE, regs |-> Start(m).regs,
     cc |-> Start(m).cc, mem |-> m, out |-> <<>>,
     recent |-> <<{}, {}, {}>>, clean |-> TRUE]

IsaNext(p, s, insn, r) ==
    [pc |-> IF insn.op = "RET" THEN r.a
            ELSE IF Taken(s, insn) THEN (s.pc + insn.imm) % WordSize
            ELSE (s.pc + 1) % WordSize,
     halted |-> FALSE,
     regs |-> IF insn.op \in NoWriteOps THEN s.regs
              ELSE [s.regs EXCEPT ![Dst(insn, insn.op)] =
                       IF insn.op = "LDUR" THEN s.mem[r.val] ELSE r.val],
     cc |-> r.cc,
     mem |-> MemAfter(s, insn, r), out |-> OutAfter(s, insn, r),
     recent |-> <<s.recent[2], s.recent[3], Writes(insn)>>,
     clean |-> s.clean /\ Respects(p, s, insn, r)]

\* The end: a HLT of the program or the one inserted at RET_FROM_MAIN_ADDR;
\* an invalid instruction is no clean end.
IsaHalt(p, s, insn) ==
    [pc |-> s.pc, halted |-> TRUE, regs |-> s.regs, cc |-> s.cc, mem |-> s.mem,
     out |-> s.out, recent |-> s.recent,
     clean |-> s.clean /\ insn.op = "HLT" /\ s.pc \in {0} \cup DOMAIN p]

IsaStep(p, s) ==
    LET insn == Fetched(p, s.pc)
    IN IF s.halted THEN s
       ELSE IF insn.op \in {"HLT", "ERROR"} THEN IsaHalt(p, s, insn)
       ELSE IsaNext(p, s, insn, Computed(s, insn))

\* The architecture's state after k instructions, or when it has halted.
IsaRun(p, m) ==
    LET run[k \in Nat] ==
            IF k = 0 THEN IsaStart(m) ELSE IsaStep(p, run[k - 1])
    IN run

\* The program halts within fuel instructions and keeps to the rules.
Spaced(p, m, fuel) ==
    LET s == IsaRun(p, m)[fuel] IN s.halted /\ s.clean
AllSpaced(fuel) ==
    \A p \in Programs : \A m \in InitMems : Spaced(p, m, fuel)

\* Every program is spaced, and the cycle limit leaves room for the NOPs that
\* the pipeline adds and for the stages after the last instruction.
Roomy(fuel) == fuel \in Nat /\ 3 * fuel + 2 <= CycleMax /\ AllSpaced(fuel)

----------------------------------------------------------------------------
(* Properties of the pipeline.                                             *)

AtBoundary == stage \in {"wback", "done"}

\* The state of a machine k instructions before the one fetched next.
Before(S, k) == S[IF num_instr >= k THEN num_instr - k ELSE 0]

\* The visible state of the pipeline is that of the machine with delays on
\* the same program and the memory m.
Matches(S) ==
    /\ LET regs == Before(S, 1).regs
       IN \A r \in RegSlots \ {PC_SLOT} : gpr[r] = regs[r]
    /\ mem = Before(S, 3).mem /\ output = Before(S, 3).out
    /\ nzcv = Before(S, 2).cc
    /\ status = Before(S, 4).status

\* The pipeline computes exactly what the machine with delays computes, for
\* every program: after n cycles the registers are those that instruction n - 1
\* sees, memory and output are those after n - 3 instructions, the flags those
\* after n - 2, whatever stalls, redirections and faults happened, and the
\* status is that of instruction n - 4.
MatchesDelayedIsa ==
    (AtBoundary /\ num_instr > 0) =>
        \E m \in InitMems : Matches(Delayed(text, m))

\* What a program leaves is that of a state of the architecture.
HasResult(S) ==
    /\ \A r \in 0..SP_NUM : gpr[r] = S.regs[r]
    /\ nzcv = S.cc /\ mem = S.mem /\ output = S.out

\* A program that respects the spacing (Spaced) and returns has the result
\* of the architecture, registers, flags, memory and output, and ends with a
\* clean halt: no wrong-path access or stale operand shows.
SpacedMatchesIsa ==
    /\ stage # "exited"
    /\ stage = "done" =>
         /\ status = "HLT"
         /\ \E m \in InitMems : HasResult(IsaRun(text, m)[CycleMax])

\* README.md:23: a HLT is created when the start function returns, and the
\* emulator shuts down: a program that only returns ends with status HLT.
ReturnEndsWithHalt == stage = "done" => status = "HLT"

\* instr_pipeline.h:75: dst_sel selects X30 in BL: a retiring BL changes no
\* other register.
BranchLinkWritesX30 ==
    [][stage = "decode" /\ W_out.op = "BL" =>
          \A r \in 0..SP_NUM : gpr'[r] # gpr[r] => r = 30]_vars
=============================================================================
