------------------------------ MODULE Emulator ------------------------------
(***************************************************************************)
(* The program se around the machine: main reads the command line          *)
(* (handle_args), initializes the machine and with it the cache, loads the *)
(* executable, runs it and writes the checkpoint (archsim.c, handle_args.c,*)
(* interface.c, machine.c, err_handler.c).  The run is what the data cache *)
(* and the traps of mem.c make of the accesses of the memory stage.        *)
(***************************************************************************)
EXTENDS DataCache

CONSTANTS
    Argvs,           \* the command lines, sequences of [opt, val]
    InitMem,         \* the memory once the executable is loaded
    Accesses,        \* what the program may load and store
    MaxCalls         \* bound: accesses of a run

VARIABLES
    argv, optind,    \* the command line, and the next argument of it
    opts,            \* the globals handle_args sets
    outfile,         \* where output goes
    terminate,       \* of err_handler.c
    stored, printed, \* values stored to IO_CHAR_ADDR, and printed
    reported,        \* hits and misses of the last checkpoint
    calls,           \* accesses begun
    phase            \* where main is

mainVars == <<argv, optind, opts, outfile, terminate, stored, printed,
              reported, calls, phase>>
runVars == <<stored, printed, reported, calls>>
seVars == <<dcVars, mainVars>>

\* How main ends: it returns, calls exit, or dies of a division by zero.
Ends == {"returned", "exited", "SIGFPE"}
Geometry == {"A", "B", "C", "d"}

\* A file can be opened, or not.  A number is what atoi makes of the argument,
\* an int: less than 2^64, and -1 is as good as none.
OptionOK(o) ==
    \/ o.opt \in {"i", "o", "c"} /\ o.val \in {"NULL", "file"}
    \/ /\ o.opt \in Geometry \cup {"f"} /\ o.val \in Addr \cup {-1}
       /\ o.opt = "d" => o.val < CycleVals

ASSUME EmulatorAssumption ==
    /\ InitMem \in [Addr -> Bytes]
    /\ MaxCalls \in Nat
    /\ \A a \in Argvs : /\ Len(a) \in Nat /\ DOMAIN a = 1..Len(a)
                        /\ \A n \in 1..Len(a) : OptionOK(a[n])

Defaults ==
    [infile |-> "NULL", checkpoint |-> "NULL", frontend_vis |-> 0,
     A |-> -1, B |-> -1, C |-> -1, d |-> -1]

EmulatorInit(argvs, p) ==
    /\ Init(InitMem)
    /\ argv \in argvs /\ optind = 1
    /\ opts = Defaults
    /\ outfile = "stdout"
    /\ terminate = FALSE
    /\ stored = 0 /\ printed = 0 /\ calls = 0
    /\ reported = [hits |-> 0, misses |-> 0]
    /\ phase = p

\* logging: after a fatal message nothing is printed any more.  Nothing in the
\* emulator logs a warning or an error.
logging(sev) == terminate' = (terminate \/ sev = "FATAL")

----------------------------------------------------------------------------
(* handle_args: one step per option.  -l and -v, the length of the run and *)
(* the debug output, change nothing here.                                  *)

option == argv[optind]

\* The globals an option sets; case 'f' goes on into case 'A'.
Assigns(o) ==
    CASE o.opt = "i" -> [infile |-> o.val]
      [] o.opt = "c" -> [checkpoint |-> o.val]
      [] o.opt = "f" -> [frontend_vis |-> IF o.val = 1 THEN 1
                                          ELSE opts.frontend_vis,
                         A |-> o.val]
      [] o.opt \in Geometry -> [k \in {o.opt} |-> o.val]
      [] OTHER -> <<>>

WithOption(new) ==
    [k \in DOMAIN opts |-> IF k \in DOMAIN new THEN new[k] ELSE opts[k]]

CannotOpen(o) == o.opt \in {"o", "c"} /\ o.val = "NULL"

read_option ==
    /\ phase = "args" /\ optind <= Len(argv) /\ ~CannotOpen(option)
    /\ opts' = WithOption(Assigns(option))
    /\ outfile' = IF option.opt = "o" THEN option.val ELSE outfile
    /\ optind' = optind + 1
    /\ UNCHANGED <<dcVars, argv, terminate, runVars, phase>>

\* Mutant: the options behind it are read.
open_fails_on ==
    /\ phase = "args" /\ optind <= Len(argv) /\ CannotOpen(option)
    /\ opts' = WithOption(Assigns(option))
    /\ outfile' = IF option.opt = "o" THEN option.val ELSE outfile
    /\ logging("FATAL")
    /\ optind' = optind + 1
    /\ UNCHANGED <<dcVars, argv, runVars, phase>>

\* fopen fails: handle_args returns with the file NULL, and main goes on.
open_fails ==
    /\ phase = "args" /\ optind <= Len(argv) /\ CannotOpen(option)
    /\ opts' = WithOption(Assigns(option))
    /\ outfile' = IF option.opt = "o" THEN option.val ELSE outfile
    /\ logging("FATAL")
    /\ phase' = "init"
    /\ UNCHANGED <<dcVars, argv, optind, runVars>>

args_end ==
    /\ phase = "args" /\ optind > Len(argv)
    /\ phase' = "init"
    /\ UNCHANGED <<dcVars, argv, optind, opts, outfile, terminate, runVars>>

handle_args == read_option \/ open_fails \/ args_end

----------------------------------------------------------------------------
(* init and loadElf.  init gives outfile its default, whatever -o says.    *)
(* The command line is not read again, and forgotten.                      *)

Given == \A k \in Geometry : opts[k] # -1
init_begin ==
    /\ phase = "init"
    /\ outfile' = "stdout"
    /\ argv' = <<>> /\ optind' = 1
    /\ UNCHANGED <<opts, terminate, runVars>>

init_no_cache ==
    /\ init_begin /\ ~Given
    /\ phase' = "load"
    /\ UNCHANGED dcVars

init_with_cache ==
    /\ init_begin /\ Given /\ opts.A * opts.B # 0
    /\ init_cache(opts.A, opts.B, opts.C, opts.d)
    /\ phase' = "load"

\* create_cache divides by A * B.
init_dies ==
    /\ init_begin /\ Given /\ opts.A * opts.B = 0
    /\ phase' = "SIGFPE"
    /\ UNCHANGED dcVars

load_fails ==
    /\ phase = "load" /\ opts.infile = "NULL"
    /\ phase' = "exited"
    /\ UNCHANGED <<dcVars, argv, optind, opts, outfile, terminate, runVars>>

\* The executable is loaded, runElf begins.
load ==
    /\ phase = "load" /\ opts.infile # "NULL"
    /\ phase' = "run"
    /\ dmem_status' = "READY"
    /\ UNCHANGED <<bytes, solved, cache, counts, inflightVars, req, i, data,
                   result, argv, optind, opts, outfile, terminate, runVars>>

----------------------------------------------------------------------------
(* The run: accesses of the memory stage, to memory and to the addresses   *)
(* mem.c keeps for itself.                                                 *)

begin_access ==
    /\ phase = "run" /\ req = Idle /\ calls < MaxCalls
    /\ calls' = calls + 1
    /\ UNCHANGED <<argv, optind, opts, outfile>>

mem_read ==
    /\ begin_access
    /\ \E r \in Accesses \cap Reads :
          mem_read_uncached(r.addr, r.width) \/ mem_read_cached(r.addr, r.width)
    /\ UNCHANGED <<terminate, stored, printed, reported, phase>>

mem_write ==
    /\ begin_access
    /\ \E r \in Accesses \cap Writes :
          mem_write_uncached(r.addr, r.data) \/ mem_write_cached(r.addr, r.data)
    /\ UNCHANGED <<terminate, stored, printed, reported, phase>>

access_step ==
    /\ phase = "run"
    /\ byte_hit \/ byte_wait \/ byte_fill \/ access_return
    /\ UNCHANGED mainVars

\* Eight bytes stored to IO_CHAR_ADDR are printed by logging.
io_write ==
    /\ begin_access
    /\ stored' = stored + 1
    /\ printed' = IF terminate THEN printed ELSE printed + 1
    /\ logging("OUTPUT")
    /\ UNCHANGED <<dcVars, reported, phase>>

\* Mutant: it is as fatal as a read, without the exit.
null_write_fatal ==
    /\ begin_access
    /\ logging("FATAL")
    /\ UNCHANGED <<dcVars, stored, printed, reported, phase>>

null_write ==
    /\ begin_access
    /\ logging("INFO")
    /\ UNCHANGED <<dcVars, stored, printed, reported, phase>>

null_read ==
    /\ begin_access
    /\ logging("FATAL")
    /\ phase' = "exited"
    /\ UNCHANGED <<dcVars, stored, printed, reported>>

\* log_machine_state, as far as the cache goes: with a cache the misses are
\* divided by the penalty.
Logs == opts.checkpoint # "NULL" /\ cache # NULL
log_machine_state(next) ==
    IF Logs /\ cache.d = 0
    THEN phase' = "SIGFPE" /\ UNCHANGED reported
    ELSE /\ phase' = next
         /\ reported' = IF ~Logs THEN reported
                        ELSE LET misses == counts.miss \div cache.d
                             IN [hits |-> counts.hit - misses, misses |-> misses]

checkpoint_read ==
    /\ begin_access
    /\ log_machine_state("run")
    /\ UNCHANGED <<dcVars, terminate, stored, printed>>

\* runElf returns after any number of accesses.
finalize ==
    /\ phase = "run" /\ req = Idle
    /\ log_machine_state("returned")
    /\ UNCHANGED <<dcVars, argv, optind, opts, outfile, terminate, stored,
                   printed, calls>>

main ==
    \/ handle_args
    \/ init_no_cache \/ init_with_cache \/ init_dies
    \/ load_fails \/ load
    \/ mem_read \/ mem_write \/ access_step
    \/ io_write \/ null_write \/ null_read \/ checkpoint_read
    \/ finalize

Spec == EmulatorInit(Argvs, "args") /\ [][main]_seVars

----------------------------------------------------------------------------
(* Properties.                                                             *)

MachineOK ==
    /\ DataCacheOK
    /\ \A n \in DOMAIN argv : OptionOK(argv[n])
    /\ optind \in 1..(Len(argv) + 1)
    /\ opts \in [infile : {"NULL", "file"}, checkpoint : {"NULL", "file"},
                 frontend_vis : {0, 1}, A : Int, B : Int, C : Int, d : Int]
    /\ outfile \in {"stdout", "file", "NULL"}
    /\ terminate \in BOOLEAN
    /\ stored \in 0..MaxCalls /\ printed \in 0..MaxCalls
    /\ calls \in 0..MaxCalls
    /\ reported \in [hits : Int, misses : Nat]
    /\ phase \in {"args", "init", "load", "run"} \cup Ends

\* The options read: all of them, or those before a file that cannot be opened.
FailsAt == {n \in DOMAIN argv : CannotOpen(argv[n])}
WasRead(n) == \A k \in FailsAt : n <= k
SetBy(p) == {n \in DOMAIN argv :
    WasRead(n) /\ argv[n].opt \in IF p = "A" THEN {"A", "f"} ELSE {p}}

\* handle_args.c:81-101: whatever the order of the options, each parameter of
\* the cache is what the last option read gives it, -f counting as -A, and
\* nothing behind a file that cannot be opened is read.
GeometryAsGiven ==
    phase = "init" =>
        \A p \in Geometry :
            IF SetBy(p) = {} THEN opts[p] = -1
            ELSE \E n \in SetBy(p) :
                    /\ opts[p] = argv[n].val
                    /\ \A k \in SetBy(p) : k <= n

\* err_handler.c:50 and mem.c:141: of what the program prints everything comes
\* out, or nothing (when a file named on the command line could not be opened);
\* it is never cut short.
OutputAllOrNothing == printed \in {0, stored}

Fills == counts.dirty + counts.clean + Cardinality(InUse(cache))

\* machine.c:195-198: "mem.c code for this gives extra hits and misses", a
\* miss for every call that waits.  The misses reported are at least the
\* blocks brought in, though a wait that is given up counts as well.
MissesCoverFills ==
    phase = "returned" /\ solved /\ Logs => reported.misses >= Fills
=============================================================================
