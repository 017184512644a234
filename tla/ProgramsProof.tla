--------------------------- MODULE ProgramsProof ---------------------------
(***************************************************************************)
(* Theorems about the programs around the cache: the emulator se with its  *)
(* data cache, for all memories, geometries, command lines and accesses;   *)
(* the simulator csim, for all traces; and the benches that judge them,    *)
(* for all tests and weights.                                              *)
(***************************************************************************)
EXTENDS MCEmulator, CacheProof, WellFoundedInduction

----------------------------------------------------------------------------
(* The inductive invariant.                                                *)

\* The machine has a cache only after the command line is read, of options
\* that are numbers; what a fatal message has silenced has printed nothing.
IInv ==
    /\ DcInv
    /\ phase = "args" => argv \in Argvs /\ optind \in Nat \ {0}
    /\ \A k \in Geometry : k \in DOMAIN opts /\ opts[k] \in Addr \cup {-1}
    /\ phase \in {"args", "init"} => cache = NULL
    /\ phase \in {"args", "init", "load"} => stored = 0 /\ printed = 0
    /\ phase = "run" => printed = IF terminate THEN 0 ELSE stored
    /\ printed \in {0, stored}
    /\ stored \in Nat /\ terminate \in BOOLEAN

\* The option just read leaves every parameter of the cache a number.
LEMMA OptionRead ==
    ASSUME read_option \/ open_fails, argv \in Argvs, optind \in Nat \ {0},
           \A k \in Geometry : k \in DOMAIN opts /\ opts[k] \in Addr \cup {-1}
    PROVE  \A k \in Geometry : k \in DOMAIN opts' /\ opts'[k] \in Addr \cup {-1}
<1> DEFINE f == Assigns(option)
<1>1. opts' = [k \in DOMAIN opts |-> IF k \in DOMAIN f THEN f[k] ELSE opts[k]]
    BY DEF read_option, open_fails, WithOption
<1>2. optind \in 1..Len(argv)
    BY EmulatorAssumption DEF read_option, open_fails
<1>3. option.opt \in Geometry \cup {"f"} => option.val \in Addr \cup {-1}
    BY <1>2, EmulatorAssumption DEF option, OptionOK, Geometry
<1>4. \A k \in Geometry : k \in DOMAIN f => f[k] \in Addr \cup {-1}
    BY <1>3 DEF Assigns, Geometry
<1>5. \A k \in Geometry : k \in DOMAIN opts' /\ opts'[k] = IF k \in DOMAIN f THEN f[k] ELSE opts[k]
    BY <1>1
<1> QED BY <1>4, <1>5

\* The invariant holds at the start.
LEMMA InitInv == EmulatorInit(Argvs, "args") => IInv
<1> SUFFICES ASSUME EmulatorInit(Argvs, "args") PROVE IInv
    OBVIOUS
<1>1. DcInv
    BY EmulatorAssumption DEF EmulatorInit, Init, DcInv
<1>2. \A k \in Geometry : k \in DOMAIN opts /\ opts[k] \in Addr \cup {-1}
    BY DEF EmulatorInit, Defaults, Geometry
<1>3. cache = NULL
    BY DEF EmulatorInit, Init
<1>4. terminate \in BOOLEAN
    BY DEF EmulatorInit
<1>5. /\ argv \in Argvs /\ optind = 1 /\ phase = "args"
      /\ stored = 0 /\ printed = 0
    BY DEF EmulatorInit
<1> QED BY <1>1, <1>2, <1>3, <1>4, <1>5 DEF IInv

\* Whatever main does, the data cache takes one of its own steps.
LEMMA MainStep == IInv /\ [main]_seVars => DcNext
<1> SUFFICES ASSUME IInv, [main]_seVars PROVE DcNext
    OBVIOUS
<1>1. CASE UNCHANGED dcVars
    BY <1>1 DEF dcVars, DcNext, loaded
<1>2. CASE handle_args \/ init_no_cache \/ init_dies \/ load_fails \/ io_write
           \/ null_write \/ null_read \/ checkpoint_read \/ finalize
    BY <1>1, <1>2 DEF handle_args, read_option, open_fails, args_end,
       init_no_cache, init_dies, load_fails, io_write, null_write, null_read,
       checkpoint_read, finalize
<1>3. CASE init_with_cache
  <2> DEFINE A == opts["A"]
             B == opts["B"]
             C == opts["C"]
             d == opts["d"]
  <2>1. /\ Given /\ A * B # 0 /\ cache = NULL
        /\ init_cache(A, B, C, d)
      BY <1>3 DEF init_with_cache, init_begin, IInv
  <2>2. A \in Addr /\ B \in Addr /\ C \in Addr /\ d \in Addr
      BY <2>1 DEF Given, Geometry, IInv
  <2>3. A \in 1..(AddrSpace - 1) /\ B \in 1..(AddrSpace - 1) /\ C \in Nat
        /\ d \in Nat
      BY <2>1, <2>2, SpaceAssumption DEF Addr
  <2> QED BY <2>1, <2>3 DEF DcNext, created
<1>4. CASE load
    BY <1>4 DEF load, DcNext, loaded, inflightVars
<1>5. CASE mem_read \/ mem_write
    BY <1>5 DEF mem_read, mem_write, DcNext, begun
<1>6. CASE access_step
    BY <1>6 DEF access_step, DcNext
<1>7. CASE UNCHANGED seVars
    BY <1>1, <1>7 DEF seVars
<1> QED BY <1>2, <1>3, <1>4, <1>5, <1>6, <1>7 DEF main


\* Every step of main keeps the invariant.
LEMMA StepInv == IInv /\ [main]_seVars => IInv'
<1> SUFFICES ASSUME IInv, [main]_seVars PROVE IInv'
    OBVIOUS
<1>1. DcInv'
    BY MainStep, DcStep DEF IInv
<1>2. CASE read_option \/ open_fails
  <2>1. phase = "args" /\ UNCHANGED <<dcVars, stored, printed>>
      BY <1>2 DEF read_option, open_fails, runVars
  <2>2. \A k \in Geometry : k \in DOMAIN opts' /\ opts'[k] \in Addr \cup {-1}
      BY <1>2, <2>1, OptionRead DEF IInv
  <2>3. phase' = "args" => argv' \in Argvs /\ optind' \in Nat \ {0}
      BY <1>2, <2>1 DEF IInv, read_option, open_fails
  <2>4. phase' \in {"args", "init"} /\ terminate' \in BOOLEAN
      BY <1>2, <2>1 DEF read_option, open_fails, logging, runVars, IInv
  <2> QED BY <1>1, <2>1, <2>2, <2>3, <2>4 DEF IInv, dcVars
<1>3. CASE args_end \/ init_no_cache \/ init_dies \/ load_fails
  <2>1. UNCHANGED <<dcVars, opts, terminate, stored, printed>>
      BY <1>3 DEF args_end, init_no_cache, init_dies, init_begin, load_fails,
                  runVars
  <2>2. \/ phase \in {"args", "init", "load"} /\ phase' \in Ends
        \/ phase = "args" /\ phase' = "init"
        \/ phase = "init" /\ phase' = "load"
      BY <1>3 DEF args_end, init_no_cache, init_dies, init_begin, load_fails,
                  Ends
  <2> QED BY <1>1, <2>1, <2>2 DEF IInv, dcVars, Ends
<1>4. CASE init_with_cache \/ load
  <2>1. UNCHANGED <<opts, terminate, stored, printed>>
      BY <1>4 DEF init_with_cache, init_begin, load, runVars
  <2>2. phase \in {"init", "load"} /\ phase' \in {"load", "run"}
      BY <1>4 DEF init_with_cache, init_begin, load
  <2> QED BY <1>1, <2>1, <2>2 DEF IInv
<1>5. CASE mem_read \/ mem_write \/ access_step
  <2>1. UNCHANGED <<opts, terminate, stored, printed, phase>> /\ phase = "run"
      BY <1>5 DEF mem_read, mem_write, access_step, begin_access, mainVars
  <2> QED BY <1>1, <2>1 DEF IInv
<1>6. CASE io_write
  <2>1. /\ UNCHANGED <<opts, phase>> /\ phase = "run" /\ stored' = stored + 1
        /\ printed' = IF terminate THEN printed ELSE printed + 1
        /\ terminate' = terminate
    <3>1. terminate \in BOOLEAN /\ terminate' = (terminate \/ FALSE)
        BY <1>6 DEF io_write, logging, IInv
    <3> QED BY <1>6, <3>1 DEF io_write, begin_access
  <2> QED BY <1>1, <2>1 DEF IInv
<1>7. CASE null_write \/ null_read \/ checkpoint_read \/ finalize
  <2>1. UNCHANGED <<opts, stored, printed>> /\ phase = "run"
      BY <1>7 DEF null_write, null_read, checkpoint_read, finalize, begin_access
  <2>2. /\ (phase' = "run" /\ terminate' = terminate) \/ phase' \in Ends
        /\ terminate' \in BOOLEAN
    <3>1. terminate \in BOOLEAN
        BY DEF IInv
    <3>2. CASE null_write
        BY <3>1, <3>2 DEF null_write, logging, begin_access
    <3>3. CASE null_read
        BY <3>1, <3>3 DEF null_read, logging, Ends
    <3>4. CASE checkpoint_read \/ finalize
        BY <3>1, <3>4 DEF checkpoint_read, finalize, log_machine_state,
                          begin_access, Ends
    <3> QED BY <1>7, <3>2, <3>3, <3>4
  <2> QED BY <1>1, <2>1, <2>2 DEF IInv, Ends
<1>8. CASE UNCHANGED seVars
    BY <1>1, <1>8 DEF seVars, mainVars, dcVars, IInv
<1> QED
    BY <1>2, <1>3, <1>4, <1>5, <1>6, <1>7, <1>8 DEF main, handle_args

\* The invariant holds throughout.
LEMMA Invariance == Spec => []IInv
BY InitInv, StepInv, PTL DEF Spec

----------------------------------------------------------------------------
(* The theorems.                                                           *)

\* mem.c:160-175 and 224-237: for every geometry, penalty, command line and
\* program, the countdown of inflight_cycles, restarted by every miss of
\* another block, brings a block in with the d-th call in a row that misses it.
THEOREM MissesAreDelayed == Spec => DelayedMisses
<1>1. EmulatorInit(Argvs, "args") => Delay!Init
    BY DEF EmulatorInit, Init, Delay!Init, HeldBlocks
<1>2. IInv /\ IInv' /\ [main]_seVars
          => [Delay!Next]_<<delay, HeldBlocks, inflight_addr, waited>>
  <2> SUFFICES ASSUME IInv, IInv', [main]_seVars
               PROVE  [Delay!Next]_<<delay, HeldBlocks, inflight_addr, waited>>
      OBVIOUS
  <2>1. DcInv /\ DcInv' /\ DcNext
      BY MainStep DEF IInv
  <2>2. delay = 0 /\ delay' \in Nat \ {0}
          /\ UNCHANGED <<HeldBlocks, inflight_addr, waited>>
        => Delay!Create
      BY DEF Delay!Create, delay, waited
  <2> QED BY <2>1, <2>2, DelayStep DEF Delay!Next
<1> QED BY <1>1, <1>2, Invariance, PTL
        DEF Spec, DelayedMisses, Delay!Spec, delay, waited

\* cache.c:44-110 and mem.c:158-166: whatever the geometry, the program and
\* the command line, the stubs the repository ships serve no access that takes
\* more than one call.
THEOREM StubsServeNothing == Spec => StubsNeverServe
<1>1. IInv /\ [main]_seVars
        => [ (req # Idle /\ ~solved /\ Width > 1 /\ cache.d # 1)
                => ~Served ]_dcVars
    BY MainStep, StubStep DEF IInv
<1> QED BY <1>1, Invariance, PTL DEF Spec, StubsNeverServe

\* err_handler.c:50 and mem.c:141: of a run of any length either all that the
\* program prints comes out, or nothing does.
THEOREM OutputWhole == Spec => []OutputAllOrNothing
<1>1. IInv => OutputAllOrNothing
    BY DEF IInv, OutputAllOrNothing
<1> QED BY <1>1, Invariance, PTL
----------------------------------------------------------------------------
(* The options read so far.                                                *)

\* The options that set p, and those of them that have been read.
Sets(p) == IF p = "A" THEN {"A", "f"} ELSE {p}
Seen(p) == {n \in 1..(optind - 1) : argv[n].opt \in Sets(p)}

\* p is what the last option among S gives it.
GivenBy(p, S) ==
    IF S = {} THEN opts[p] = -1
    ELSE \E n \in S : opts[p] = argv[n].val /\ \A k \in S : k <= n

\* While options are read each parameter is what those before give it, and no
\* file before could not be opened.
OptInv ==
    /\ phase = "args" =>
         /\ optind <= Len(argv) + 1
         /\ \A n \in 1..(optind - 1) : ~CannotOpen(argv[n])
         /\ \A p \in Geometry : GivenBy(p, Seen(p))
    /\ GeometryAsGiven

\* An option sets what it names, and -f the associativity.
LEMMA OptionSets ==
    ASSUME opts' = WithOption(Assigns(option)), NEW p \in Geometry,
           p \in DOMAIN opts
    PROVE  opts'[p] = IF option.opt \in Sets(p) THEN option.val ELSE opts[p]
<1> DEFINE f == Assigns(option)
<1>1. opts'[p] = IF p \in DOMAIN f THEN f[p] ELSE opts[p]
    BY DEF WithOption
<1>2. CASE option.opt \in Sets(p)
    BY <1>1, <1>2 DEF Assigns, Sets, Geometry
<1>3. CASE option.opt \notin Sets(p)
    BY <1>1, <1>3 DEF Assigns, Sets, Geometry
<1> QED BY <1>2, <1>3

\* An option that is read is the last one read.
LEMMA ReadInv == IInv /\ OptInv /\ read_option => OptInv'
<1> SUFFICES ASSUME IInv, OptInv, read_option PROVE OptInv'
    OBVIOUS
<1>1. /\ phase = "args" /\ phase' = "args" /\ argv' = argv
      /\ optind' = optind + 1 /\ optind \in Nat \ {0} /\ Len(argv) \in Nat
      /\ optind <= Len(argv) /\ ~CannotOpen(argv[optind])
      /\ opts' = WithOption(Assigns(option))
    BY EmulatorAssumption DEF read_option, IInv, option
<1>2. \A n \in 1..(optind' - 1) : ~CannotOpen(argv'[n])
    BY <1>1 DEF OptInv
<1>3. ASSUME NEW p \in Geometry PROVE GivenBy(p, Seen(p))'
  <2>1. opts'[p] = IF option.opt \in Sets(p) THEN option.val ELSE opts[p]
      BY <1>1, OptionSets DEF IInv
  <2>2. GivenBy(p, Seen(p)) /\ Seen(p) \subseteq 1..(optind - 1)
      BY <1>1 DEF OptInv, Seen
  <2>3. CASE option.opt \in Sets(p)
    <3>1. Seen(p)' = Seen(p) \cup {optind}
        BY <1>1, <2>3 DEF Seen, option
    <3>2. \A k \in Seen(p)' : k <= optind
        BY <1>1, <2>2, <3>1
    <3> QED BY <1>1, <2>1, <2>3, <3>1, <3>2 DEF GivenBy, option
  <2>4. CASE option.opt \notin Sets(p)
    <3>1. Seen(p)' = Seen(p)
        BY <1>1, <2>4 DEF Seen, option
    <3> QED BY <1>1, <2>1, <2>2, <2>4, <3>1 DEF GivenBy
  <2> QED BY <2>3, <2>4
<1>4. GeometryAsGiven'
    BY <1>1 DEF GeometryAsGiven
<1> QED BY <1>1, <1>2, <1>3, <1>4 DEF OptInv

\* Parsing ends behind the last option, or at the first file that cannot be
\* opened: what has been read is what WasRead says.
LEMMA ReadEnds ==
    ASSUME IInv, OptInv, open_fails \/ args_end
    PROVE  OptInv'
<1>1. /\ phase = "args" /\ phase' = "init" /\ argv' = argv
      /\ optind \in Nat \ {0} /\ Len(argv) \in Nat
      /\ DOMAIN argv = 1..Len(argv) /\ optind <= Len(argv) + 1
    BY EmulatorAssumption DEF open_fails, args_end, IInv, OptInv
<1>2. ASSUME NEW p \in Geometry
      PROVE  opts'[p] = opts[p] /\ SetBy(p) = Seen(p)
  <2>1. CASE open_fails
    <3>1. /\ optind <= Len(argv) /\ CannotOpen(argv[optind])
          /\ argv[optind].opt \in {"o", "c"}
        BY <2>1 DEF open_fails, option, CannotOpen
    <3>2. option.opt \notin Sets(p)
        BY <3>1 DEF option, Sets, Geometry
    <3>3. opts'[p] = opts[p]
        BY <2>1, <3>2, OptionSets DEF open_fails, IInv
    <3>4. optind \in FailsAt /\ \A k \in FailsAt : k \in Nat /\ optind <= k
        BY <1>1, <3>1 DEF OptInv, FailsAt
    <3>5. \A n \in DOMAIN argv : WasRead(n) <=> n <= optind
        BY <1>1, <3>4 DEF WasRead
    <3>6. SetBy(p) = Seen(p)
        BY <1>1, <3>1, <3>2, <3>5 DEF SetBy, Seen, Sets, option
    <3> QED BY <3>3, <3>6
  <2>2. CASE args_end
    <3>1. optind = Len(argv) + 1 /\ opts' = opts
        BY <1>1, <2>2 DEF args_end
    <3>2. FailsAt = {}
        BY <1>1, <3>1 DEF OptInv, FailsAt
    <3>3. SetBy(p) = Seen(p)
        BY <1>1, <3>1, <3>2 DEF SetBy, WasRead, Seen, Sets
    <3> QED BY <3>1, <3>3
  <2> QED BY <2>1, <2>2
<1>3. \A p \in Geometry : SetBy(p)' = SetBy(p)
    BY <1>1 DEF SetBy, WasRead, FailsAt, CannotOpen
<1>4. GeometryAsGiven'
  <2> SUFFICES ASSUME NEW p \in Geometry
               PROVE  IF SetBy(p)' = {} THEN opts'[p] = -1
                      ELSE \E n \in SetBy(p)' :
                              /\ opts'[p] = argv'[n].val
                              /\ \A k \in SetBy(p)' : k <= n
      BY DEF GeometryAsGiven
  <2>1. GivenBy(p, Seen(p))
      BY <1>1 DEF OptInv
  <2> QED BY <1>1, <1>2, <1>3, <2>1 DEF GivenBy
<1> QED BY <1>1, <1>4 DEF OptInv

\* Every other step leaves the command line behind.
LEMMA OptStep == IInv /\ OptInv /\ [main]_seVars => OptInv'
<1> SUFFICES ASSUME IInv, OptInv, [main]_seVars PROVE OptInv'
    OBVIOUS
<1>1. CASE handle_args
    BY <1>1, ReadInv, ReadEnds DEF handle_args
<1>2. CASE UNCHANGED seVars
  <2>1. argv' = argv /\ optind' = optind /\ opts' = opts /\ phase' = phase
      BY <1>2 DEF seVars, mainVars
  <2>2. \A p \in Geometry : GivenBy(p, Seen(p))' <=> GivenBy(p, Seen(p))
      BY <2>1 DEF GivenBy, Seen
  <2>3. FailsAt' = FailsAt
      BY <2>1 DEF FailsAt, CannotOpen
  <2>4. \A p \in Geometry : SetBy(p)' = SetBy(p)
      BY <2>1, <2>3 DEF SetBy, WasRead
  <2>5. GeometryAsGiven'
      BY <2>1, <2>4 DEF OptInv, GeometryAsGiven
  <2>6. \A n \in 1..(optind' - 1) : CannotOpen(argv'[n]) <=> CannotOpen(argv[n])
      BY <2>1
  <2> QED BY <2>1, <2>2, <2>5, <2>6 DEF OptInv
<1>3. CASE main /\ ~handle_args
  <2>1. phase' \notin {"args", "init"}
      BY <1>3 DEF main, init_no_cache, init_with_cache, init_dies, load_fails,
         load, mem_read, mem_write, access_step, io_write, null_write,
         null_read, checkpoint_read, finalize, log_machine_state, begin_access,
         mainVars
  <2> QED BY <2>1 DEF OptInv, GeometryAsGiven
<1> QED BY <1>1, <1>2, <1>3

\* handle_args.c:31-101: for every command line, each parameter of the cache is
\* what the last option read gives it, -f counting as -A, and no option behind
\* a file that cannot be opened counts.
THEOREM LastOptionCounts == Spec => []GeometryAsGiven
<1>1. EmulatorInit(Argvs, "args") => OptInv
  <2> SUFFICES ASSUME EmulatorInit(Argvs, "args") PROVE OptInv
      OBVIOUS
  <2>1. /\ argv \in Argvs /\ optind = 1 /\ phase = "args" /\ opts = Defaults
      BY DEF EmulatorInit
  <2>2. Len(argv) \in Nat
      BY <2>1, EmulatorAssumption
  <2>3. \A p \in Geometry : Seen(p) = {} /\ opts[p] = -1
      BY <2>1 DEF Seen, Defaults, Geometry
  <2> QED BY <2>1, <2>2, <2>3 DEF OptInv, GivenBy, GeometryAsGiven
<1>2. OptInv => GeometryAsGiven
    BY DEF OptInv
<1> QED BY <1>1, <1>2, OptStep, Invariance, PTL DEF Spec


----------------------------------------------------------------------------
(* Blocks.                                                                 *)

\* Quotient and remainder.
LEMMA Division ==
    ASSUME NEW a \in Nat, NEW B \in Nat \ {0}
    PROVE  /\ a \div B \in Nat /\ a % B \in 0..(B - 1)
           /\ a = B * (a \div B) + (a % B)
OBVIOUS

\* There is one quotient and one remainder.
LEMMA DivisionUnique ==
    ASSUME NEW q \in Int, NEW p \in Int, NEW B \in Nat \ {0},
           NEW r \in 0..(B - 1), NEW u \in 0..(B - 1), B * q + r = B * p + u
    PROVE  q = p /\ r = u
<1>1. ASSUME NEW x \in Int, x >= 1 PROVE B * x >= B
    BY <1>1
<1>2. B * (q - p) = u - r /\ B * (p - q) = r - u
    OBVIOUS
<1>3. ~(q - p >= 1)
    BY <1>1, <1>2
<1>4. ~(p - q >= 1)
    BY <1>1, <1>2
<1>5. q = p
    BY <1>3, <1>4
<1> QED BY <1>2, <1>5

\* A number written as a multiple and a rest below it.
LEMMA Remainder ==
    ASSUME NEW x \in Nat, NEW q \in Nat, NEW B \in Nat \ {0},
           NEW r \in 0..(B - 1), x = B * q + r
    PROVE  x \div B = q /\ x % B = r
<1> DEFINE p == x \div B
           u == x % B
<1>1. p \in Nat /\ u \in 0..(B - 1) /\ x = B * p + u
    BY Division
<1> HIDE DEF p, u
<1>2. B * p + u = B * q + r /\ p \in Int /\ q \in Int
    BY <1>1
<1>3. p = q /\ u = r
    BY <1>1, <1>2, DivisionUnique
<1> QED BY <1>3 DEF p, u

\* A multiple has no remainder.
LEMMA Multiple ==
    ASSUME NEW x \in Nat, NEW B \in Nat \ {0}, x % B = 0
    PROVE  x \div B \in Nat /\ x = B * (x \div B)
<1>1. /\ x \div B \in Nat
      /\ x = B * (x \div B) + (x % B)
    BY Division
<1> QED BY <1>1

\* Aligned, of a cache c.
Divides(c) ==
    NumSets(c) > 0 /\ DataStart % c.B = 0 /\ AddrSpace % c.B = 0

\* A block begins at a multiple of its size, and an address lies in it.
LEMMA BlockStart ==
    ASSUME NEW c, IsCache(c), NEW a \in Addr
    PROVE  /\ BlockOf(c, a) \in Addr /\ BlockOf(c, a) % c.B = 0
           /\ a % c.B \in 0..(c.B - 1) /\ BlockOf(c, a) + (a % c.B) = a
           /\ BlockOf(c, a) \div c.B = a \div c.B
<1> DEFINE B == c.B
           q == a \div B
           r == a % B
<1>1. B \in Nat \ {0} /\ a \in Nat
    BY SpaceAssumption DEF IsCache, Addr
<1>2. q \in Nat /\ r \in 0..(B - 1) /\ a = B * q + r
    BY <1>1, Division
<1>3. BlockOf(c, a) = a - r /\ BlockOf(c, a) \in Addr
    BY BlockAddr DEF BlockOf
<1>4. a - r = B * q + 0 /\ a - r \in Nat
    BY <1>1, <1>2, <1>3 DEF Addr
<1> HIDE DEF q, r, B
<1>5. (a - r) \div B = q /\ (a - r) % B = 0
    BY <1>1, <1>2, <1>4, Remainder
<1>6. BlockOf(c, a) + r = a
    BY <1>1, <1>2, <1>3
<1> QED BY <1>2, <1>3, <1>5, <1>6 DEF q, r, B

\* The addresses of a block.
LEMMA InBlock ==
    ASSUME NEW c, IsCache(c), Divides(c), NEW b \in Addr, b % c.B = 0,
           NEW j \in 0..(c.B - 1)
    PROVE  /\ b + j \in Addr /\ Plus(b, j) = b + j
           /\ BlockOf(c, b + j) = b /\ (b + j) % c.B = j
<1> DEFINE B == c.B
           p == b \div B
           m == AddrSpace \div B
<1>1. B \in Nat \ {0} /\ b \in Nat /\ AddrSpace \in Nat /\ b < AddrSpace
    BY SpaceAssumption DEF IsCache, Addr
<1>2. p \in Nat /\ b = B * p
    BY <1>1, Multiple
<1>3. m \in Nat /\ AddrSpace = B * m
    BY <1>1, Multiple DEF Divides
<1> HIDE DEF B, p, m
<1>4. B * p + B <= B * m
  <2>1. ~(m <= p)
    <3>1. SUFFICES ASSUME m <= p PROVE FALSE
        OBVIOUS
    <3>2. B * m <= B * p
        BY <1>1, <1>2, <1>3, <3>1
    <3> QED BY <1>1, <1>2, <1>3, <3>2
  <2>2. p + 1 <= m
      BY <1>2, <1>3, <2>1
  <2>3. B * (p + 1) <= B * m
      BY <1>1, <1>2, <1>3, <2>2
  <2> QED BY <1>1, <1>2, <1>3, <2>3
<1>5. j \in 0..(B - 1) /\ b + j \in Nat /\ b + j < AddrSpace
    BY <1>1, <1>2, <1>3, <1>4 DEF B
<1>6. (b + j) % B = j
  <2>1. b + j = B * p + j
      BY <1>2
  <2> DEFINE x == b + j
  <2>2. x \in Nat /\ x = B * p + j
      BY <1>5, <2>1
  <2> HIDE DEF x
  <2>3. x % B = j
    <3>1. \A q \in Nat : x = B * q + j => x \div B = q /\ x % B = j
        BY <1>1, <1>5, <2>2, Remainder
    <3> QED BY <1>2, <2>2, <3>1
  <2> QED BY <2>3 DEF x
<1>7. BlockOf(c, b + j) = b
    BY <1>1, <1>5, <1>6 DEF BlockOf, B
<1> QED BY <1>1, <1>5, <1>6, <1>7 DEF Addr, Plus, B

\* A block of the data segment has no byte below the segment.
LEMMA BlocksOfData ==
    ASSUME NEW c, IsCache(c), Divides(c), NEW a \in Addr
    PROVE  BlockOf(c, a) >= DataStart <=> a >= DataStart
<1> DEFINE b == BlockOf(c, a)
<1>1. b \in Addr /\ b <= a /\ c.B \in Nat /\ a \in Nat /\ b \in Nat
  <2>1. c.B \in Nat /\ a \in Nat
      BY SpaceAssumption DEF IsCache, Addr
  <2>2. b \in Addr /\ a % c.B \in 0..(c.B - 1) /\ b + (a % c.B) = a
      BY BlockStart
  <2>3. b \in Nat
      BY <2>2, SpaceAssumption DEF Addr
  <2>4. a % c.B >= 0 /\ a % c.B \in Int
      BY <2>1, <2>2
  <2> HIDE DEF b
  <2> QED BY <2>1, <2>2, <2>3, <2>4
<1>2. ASSUME a >= DataStart PROVE b >= DataStart
  <2> DEFINE j == DataStart - b
  <2>1. CASE j > 0
    <3>1. j \in 0..(c.B - 1)
      <4>1. a % c.B \in 0..(c.B - 1) /\ b + (a % c.B) = a
          BY BlockStart
      <4>2. DataStart \in Nat
          BY DataCacheAssumption DEF Addr
      <4> HIDE DEF b
      <4> QED BY <1>1, <1>2, <2>1, <4>1, <4>2
    <3>2. (b + j) % c.B = j
        BY <1>1, <3>1, BlockStart, InBlock
    <3>3. b + j = DataStart
        BY <1>1, DataCacheAssumption DEF Addr
    <3> QED BY <2>1, <3>1, <3>2, <3>3 DEF Divides
  <2> QED BY <1>1, <2>1, DataCacheAssumption DEF Addr
<1> QED BY <1>1, <1>2, DataCacheAssumption DEF Addr

----------------------------------------------------------------------------
(* Lines and the blocks they hold.                                         *)

\* Line k of set s holds block b.
Keeps(c, s, k, b) ==
    /\ s \in 0..(NumSets(c) - 1) /\ k \in 1..c.A
    /\ c.sets[s][k].valid /\ c.sets[s][k].tag = b

\* A block is kept once, in its set.
Tidy(c) ==
    /\ \A s, k, b : Keeps(c, s, k, b) => b % c.B = 0 /\ SetOf(c, b) = s
    /\ \A s, k, w, b : Keeps(c, s, k, b) /\ Keeps(c, s, w, b) => k = w

\* What the program sees of cache c and memory m.
View(c, m) ==
    [a \in Addr |-> IF a >= DataStart /\ Resident(c, a) THEN ByteIn(c, a)
                    ELSE m[a]]
\* LinesMatch, of a cache c and memory m.
Match(c, m) ==
    \A s \in 0..(NumSets(c) - 1), k \in 1..c.A : c.sets[s][k].valid =>
        /\ c.sets[s][k].tag >= DataStart
        /\ c.sets[s][k].dirty \/ c.sets[s][k].data = Word(m, c.sets[s][k].tag, c.B)

\* A block is kept in one line.
LEMMA KeptOnce ==
    ASSUME NEW c, Tidy(c), NEW s, NEW k, NEW r, NEW w, NEW b,
           Keeps(c, s, k, b), Keeps(c, r, w, b)
    PROVE  s = r /\ k = w
BY DEF Tidy

\* A line that keeps a block is a line of the cache.
LEMMA KeptLine ==
    ASSUME NEW c, IsCache(c), NEW s, NEW k, NEW b, Keeps(c, s, k, b)
    PROVE  /\ c.sets[s][k] \in LineType(c.B)
           /\ b \in Addr
BY DEF Keeps, IsCache, LineType

\* What hits is kept in a line.
LEMMA ResidentIsKept ==
    ASSUME NEW c, IsCache(c), Divides(c), NEW a \in Addr, Resident(c, a)
    PROVE  \E s, k : Keeps(c, s, k, BlockOf(c, a))
<1>1. SetOf(c, a) \in 0..(NumSets(c) - 1)
    BY SetInRange DEF Divides
<1>2. PICK k \in 1..c.A : /\ c.sets[SetOf(c, a)][k].valid
                          /\ c.sets[SetOf(c, a)][k].tag = BlockOf(c, a)
    BY DEF Resident, Holds
<1> QED BY <1>1, <1>2 DEF Keeps

\* What is kept in a line hits, and the line has the byte.
LEMMA KeptIsResident ==
    ASSUME NEW c, IsCache(c), Tidy(c), NEW a \in Addr, NEW s, NEW k,
           Keeps(c, s, k, BlockOf(c, a))
    PROVE  /\ Resident(c, a) /\ SetOf(c, a) = s /\ Holds(c, a) = {k}
           /\ ByteIn(c, a) = c.sets[s][k].data[(a % c.B) + 1]
<1> DEFINE b == BlockOf(c, a)
<1>1. SetOf(c, b) = SetOf(c, a)
    BY BlockStart DEF SetOf
<1>2. SetOf(c, a) = s
    BY <1>1 DEF Tidy
<1>3. \A w \in 1..c.A : w \in Holds(c, a) <=> Keeps(c, s, w, b)
    BY <1>2 DEF Holds, Keeps
<1>4. k \in 1..c.A
    BY DEF Keeps
<1>5. Holds(c, a) = {k}
  <2>1. k \in Holds(c, a)
      BY <1>3, <1>4
  <2>2. \A w \in Holds(c, a) : w = k
      BY <1>3, KeptOnce DEF Holds
  <2> QED BY <2>1, <2>2
<1>6. (CHOOSE w \in Holds(c, a) : TRUE) = k
    BY <1>5
<1> QED BY <1>2, <1>5, <1>6 DEF Resident, ByteIn, LineOf

\* Lines that hold the same blocks.
LEMMA SameTags ==
    ASSUME NEW c, NEW n, IsCache(c), IsCache(n), SameShape(c, n), Divides(c),
           Tidy(c),
           \A s \in 0..(NumSets(c) - 1), k \in 1..c.A :
               /\ n.sets[s][k].valid = c.sets[s][k].valid
               /\ n.sets[s][k].tag = c.sets[s][k].tag
    PROVE  /\ Tidy(n) /\ Divides(n)
           /\ \A a : BlockOf(n, a) = BlockOf(c, a)
           /\ \A s, k, b : Keeps(n, s, k, b) <=> Keeps(c, s, k, b)
           /\ \A a \in Addr : Resident(n, a) = Resident(c, a)
<1>1. NumSets(n) = NumSets(c)
    BY DEF SameShape, NumSets
<1>2. Divides(n)
    BY <1>1 DEF Divides, SameShape
<1>3. \A s, k, b : Keeps(n, s, k, b) <=> Keeps(c, s, k, b)
    BY <1>1 DEF Keeps, SameShape
<1>4. /\ \A a : SetOf(n, a) = SetOf(c, a)
      /\ \A a : BlockOf(n, a) = BlockOf(c, a)
      /\ n.B = c.B
    BY <1>1 DEF SetOf, BlockOf, SameShape
<1>5. Tidy(n)
    BY <1>3, <1>4 DEF Tidy
<1>6. ASSUME NEW a \in Addr PROVE Resident(n, a) = Resident(c, a)
  <2>1. CASE Resident(c, a)
    <3>1. PICK s, k : Keeps(c, s, k, BlockOf(c, a))
        BY <2>1, ResidentIsKept
    <3>2. Keeps(n, s, k, BlockOf(n, a))
        BY <1>3, <1>4, <3>1
    <3>3. Resident(n, a)
        BY <1>5, <3>2, KeptIsResident
    <3> QED BY <2>1, <3>3 DEF Resident
  <2>2. CASE ~Resident(c, a)
    <3>1. ~Resident(n, a)
      <4>1. SUFFICES ASSUME Resident(n, a) PROVE FALSE
          OBVIOUS
      <4>2. PICK s, k : Keeps(n, s, k, BlockOf(n, a))
          BY <1>2, <4>1, ResidentIsKept
      <4>3. Keeps(c, s, k, BlockOf(c, a))
          BY <1>3, <1>4, <4>2
      <4> QED BY <2>2, <4>3, KeptIsResident
    <3> QED BY <2>2, <3>1 DEF Resident
  <2> QED BY <2>1, <2>2
<1> QED BY <1>2, <1>3, <1>4, <1>5, <1>6

\* Lines that differ in nothing but dirty.
LEMMA SameView ==
    ASSUME NEW c, NEW n, IsCache(c), IsCache(n), SameShape(c, n), Divides(c),
           Tidy(c), NEW m,
           \A s \in 0..(NumSets(c) - 1), k \in 1..c.A :
               /\ n.sets[s][k].valid = c.sets[s][k].valid
               /\ n.sets[s][k].tag = c.sets[s][k].tag
               /\ n.sets[s][k].data = c.sets[s][k].data
    PROVE  Tidy(n) /\ View(n, m) = View(c, m)
<1>1. /\ Tidy(n) /\ Divides(n) /\ n.B = c.B
      /\ \A a : BlockOf(n, a) = BlockOf(c, a)
      /\ \A s, k, b : Keeps(n, s, k, b) <=> Keeps(c, s, k, b)
      /\ \A a \in Addr : Resident(n, a) = Resident(c, a)
    BY SameTags DEF SameShape
<1>2. ASSUME NEW a \in Addr, Resident(c, a) PROVE ByteIn(n, a) = ByteIn(c, a)
  <2>1. PICK s, k : Keeps(c, s, k, BlockOf(c, a))
      BY <1>2, ResidentIsKept
  <2>2. Keeps(n, s, k, BlockOf(n, a))
      BY <1>1, <2>1
  <2>3. n.sets[s][k].data = c.sets[s][k].data
      BY <2>1 DEF Keeps
  <2>4. /\ ByteIn(n, a) = n.sets[s][k].data[(a % n.B) + 1]
        /\ ByteIn(c, a) = c.sets[s][k].data[(a % c.B) + 1]
      BY <1>1, <2>1, <2>2, KeptIsResident
  <2> QED BY <1>1, <2>3, <2>4
<1> QED BY <1>1, <1>2 DEF View

----------------------------------------------------------------------------
(* A fill.                                                                 *)

\* A block written to memory changes its own bytes.
LEMMA OverlayBlock ==
    ASSUME NEW c, IsCache(c), Divides(c), NEW m, NEW b \in Addr, b % c.B = 0,
           NEW d \in [1..c.B -> Bytes], NEW a \in Addr
    PROVE  Overlay(m, b, 0, d)[a] =
               IF BlockOf(c, a) = b THEN d[(a % c.B) + 1] ELSE m[a]
<1>1. c.B \in Nat \ {0} /\ a \in Nat /\ b \in Nat
      /\ a < AddrSpace /\ b < AddrSpace /\ AddrSpace \in Nat
    BY SpaceAssumption DEF IsCache, Addr
<1>2. Len(d) = c.B
  <2>1. d \in Seq(Bytes) /\ Len(d) = c.B
      BY <1>1
  <2> QED BY <2>1
<1>3. Overlay(m, b, 0, d)[a] = IF Offset(b, a) \in 0..(c.B - 1)
                               THEN d[Offset(b, a) + 1] ELSE m[a]
    BY <1>2 DEF Overlay
<1>4. CASE BlockOf(c, a) = b
  <2>1. a % c.B \in 0..(c.B - 1) /\ b + (a % c.B) = a
      BY <1>4, BlockStart
  <2>2. Offset(b, a) = a % c.B
      BY <1>1, <2>1 DEF Offset
  <2> QED BY <1>3, <1>4, <2>1, <2>2
<1>5. CASE BlockOf(c, a) # b
  <2>1. Offset(b, a) \notin 0..(c.B - 1)
    <3>1. SUFFICES ASSUME Offset(b, a) \in 0..(c.B - 1) PROVE FALSE
        OBVIOUS
    <3> DEFINE j == Offset(b, a)
    <3>2. b + j \in Addr /\ BlockOf(c, b + j) = b
        BY <3>1, InBlock
    <3>3. b + j = a
        BY <1>1, <3>2 DEF Offset, Addr
    <3> QED BY <1>5, <3>2, <3>3
  <2> QED BY <1>3, <1>5, <2>1
<1> QED BY <1>4, <1>5

\* A block read from memory has its bytes in order.
LEMMA WordOfBlock ==
    ASSUME NEW c, IsCache(c), Divides(c), NEW m, NEW a \in Addr
    PROVE  Word(m, BlockOf(c, a), c.B)[(a % c.B) + 1] = m[a]
<1> DEFINE b == BlockOf(c, a)
           j == a % c.B
<1>1. b \in Addr /\ b % c.B = 0 /\ j \in 0..(c.B - 1) /\ b + j = a
    BY BlockStart
<1>2. Plus(b, j) = a
    BY <1>1, InBlock
<1>3. c.B \in Nat
    BY SpaceAssumption DEF IsCache
<1> HIDE DEF b, j
<1>4. j + 1 \in 1..c.B /\ (j + 1) - 1 = j
    BY <1>1, <1>3
<1>5. Word(m, b, c.B)[j + 1] = m[Plus(b, (j + 1) - 1)]
    BY <1>4 DEF Word
<1> QED BY <1>2, <1>4, <1>5 DEF b, j

\* Memory that differs in another block only.
LEMMA SameWord ==
    ASSUME NEW c, IsCache(c), Divides(c), NEW b \in Addr, b % c.B = 0,
           NEW m, NEW n,
           \A a \in Addr : BlockOf(c, a) = b => n[a] = m[a]
    PROVE  Word(n, b, c.B) = Word(m, b, c.B)
<1>1. ASSUME NEW j \in 1..c.B PROVE n[Plus(b, j - 1)] = m[Plus(b, j - 1)]
  <2>1. j - 1 \in 0..(c.B - 1)
      BY SpaceAssumption DEF IsCache
  <2>2. /\ Plus(b, j - 1) \in Addr
        /\ BlockOf(c, Plus(b, j - 1)) = b
      BY <2>1, InBlock
  <2> QED BY <2>2
<1> QED BY <1>1 DEF Word

\* A line of a block that is not kept takes the place of another.
LEMMA FillTidy ==
    ASSUME NEW c, IsCache(c), Divides(c), Tidy(c),
           NEW b \in Addr, b % c.B = 0, \A r, w : ~Keeps(c, r, w, b),
           NEW k \in 1..c.A, NEW line \in LineType(c.B),
           line.valid, line.tag = b
    PROVE  LET s == SetOf(c, b)
               n == Replace(c, s, k, line)
           IN /\ IsCache(n) /\ SameShape(c, n) /\ Divides(n) /\ Tidy(n)
              /\ Keeps(n, s, k, b)
              /\ \A r, w, x : Keeps(n, r, w, x) <=>
                    \/ r = s /\ w = k /\ x = b
                    \/ ~(r = s /\ w = k) /\ Keeps(c, r, w, x)
              /\ \A r \in 0..(NumSets(c) - 1), w \in 1..c.A :
                    n.sets[r][w] = IF r = s /\ w = k THEN line ELSE c.sets[r][w]
<1> DEFINE s == SetOf(c, b)
           n == Replace(c, s, k, line)
<1>1. s \in 0..(NumSets(c) - 1)
    BY SetInRange DEF Divides
<1> HIDE DEF s, n
<1>2. /\ IsCache(n) /\ SameShape(c, n) /\ NumSets(n) = NumSets(c)
      /\ \A r \in 0..(NumSets(c) - 1), w \in 1..c.A :
            n.sets[r][w] = IF r = s /\ w = k THEN line ELSE c.sets[r][w]
    BY LineReplaced DEF n
<1>3. Divides(n)
    BY <1>2 DEF Divides, SameShape
<1>4. \A r, w, x : Keeps(n, r, w, x) <=>
          \/ r = s /\ w = k /\ x = b
          \/ ~(r = s /\ w = k) /\ Keeps(c, r, w, x)
    BY <1>1, <1>2 DEF Keeps, SameShape
<1>5. \A a : SetOf(n, a) = SetOf(c, a)
    BY <1>2 DEF SetOf, SameShape
<1>6. \A r, w, x : Keeps(n, r, w, x) => x % n.B = 0 /\ SetOf(n, x) = r
    BY <1>2, <1>4, <1>5 DEF Tidy, SameShape, s
<1>7. \A r, w, v, x : Keeps(n, r, w, x) /\ Keeps(n, r, v, x) => w = v
    BY <1>4 DEF Tidy
<1>8. Tidy(n)
    BY <1>6, <1>7 DEF Tidy
<1> QED BY <1>2, <1>3, <1>4, <1>8 DEF n, s

\* Memory and the cache together are what they were: the block comes from
\* memory, and the line evicted for it is there or written back.
LEMMA FillView ==
    ASSUME NEW c, IsCache(c), Divides(c), Tidy(c),
           NEW m \in [Addr -> Bytes], Match(c, m),
           NEW b \in Addr, b % c.B = 0, b >= DataStart,
           \A r, w : ~Keeps(c, r, w, b),
           NEW k \in 1..c.A, NEW line \in LineType(c.B),
           line.valid, line.tag = b, line.data = Word(m, b, c.B)
    PROVE  LET s == SetOf(c, b)
               n == Replace(c, s, k, line)
               old == c.sets[s][k]
               mm == IF old.valid /\ old.dirty
                     THEN Overlay(m, old.tag, 0, old.data) ELSE m
           IN Match(n, mm) /\ View(n, mm) = View(c, m)
<1> DEFINE s == SetOf(c, b)
           n == Replace(c, s, k, line)
           old == c.sets[s][k]
           mm == IF old.valid /\ old.dirty
                 THEN Overlay(m, old.tag, 0, old.data) ELSE m
<1>1. /\ IsCache(n) /\ SameShape(c, n) /\ Divides(n) /\ Tidy(n)
      /\ Keeps(n, s, k, b)
      /\ \A r, w, x : Keeps(n, r, w, x) <=>
            \/ r = s /\ w = k /\ x = b
            \/ ~(r = s /\ w = k) /\ Keeps(c, r, w, x)
      /\ \A r \in 0..(NumSets(c) - 1), w \in 1..c.A :
            n.sets[r][w] = IF r = s /\ w = k THEN line ELSE c.sets[r][w]
    BY FillTidy
<1>2. s \in 0..(NumSets(c) - 1) /\ NumSets(n) = NumSets(c)
    BY <1>1, SetInRange DEF Divides, SameShape, NumSets
<1>3. old \in LineType(c.B) /\ (old.valid => Keeps(c, s, k, old.tag))
  <2>1. old \in LineType(c.B)
    <3>1. c.sets[s] \in [1..c.A -> LineType(c.B)]
        BY <1>2 DEF IsCache
    <3> QED BY <3>1
  <2>2. old.valid => Keeps(c, s, k, old.tag)
      BY <1>2 DEF Keeps
  <2> QED BY <2>1, <2>2
<1>4. /\ old.tag \in Addr /\ old.data \in [1..c.B -> Bytes]
      /\ old.valid => old.tag % c.B = 0 /\ old.tag # b /\ old.tag >= DataStart
      /\ old.valid => old.dirty \/ old.data = Word(m, old.tag, c.B)
    BY <1>2, <1>3 DEF LineType, Tidy, Match
<1> HIDE DEF s, n, old
<1>5. \A a \in Addr : BlockOf(n, a) = BlockOf(c, a)
    BY <1>1 DEF BlockOf, SameShape
\* The memory afterwards.
<1>6. ASSUME NEW a \in Addr
      PROVE  mm[a] = IF old.valid /\ BlockOf(c, a) = old.tag
                     THEN old.data[(a % c.B) + 1] ELSE m[a]
  <2>1. CASE old.valid /\ old.dirty
      BY <1>4, <2>1, OverlayBlock
  <2>2. CASE old.valid /\ ~old.dirty
    <3>1. old.data = Word(m, old.tag, c.B)
        BY <1>4, <2>2
    <3>2. BlockOf(c, a) = old.tag => old.data[(a % c.B) + 1] = m[a]
        BY <3>1, WordOfBlock
    <3> QED BY <2>2, <3>2
  <2>3. CASE ~old.valid
      BY <2>3
  <2> QED BY <2>1, <2>2, <2>3
<1> HIDE DEF mm
\* What the lines hold matches it.
<1>7. Match(n, mm)
  <2> SUFFICES ASSUME NEW r \in 0..(NumSets(n) - 1), NEW w \in 1..n.A,
                      n.sets[r][w].valid
               PROVE  /\ n.sets[r][w].tag >= DataStart
                      /\ \/ n.sets[r][w].dirty
                         \/ n.sets[r][w].data = Word(mm, n.sets[r][w].tag, n.B)
      BY DEF Match
  <2>1. r \in 0..(NumSets(c) - 1) /\ w \in 1..c.A /\ n.B = c.B
      BY <1>1, <1>2 DEF SameShape
  <2>2. CASE r = s /\ w = k
    <3>1. n.sets[r][w] = line
        BY <1>1, <2>1, <2>2
    <3>2. \A a \in Addr : BlockOf(c, a) = b => mm[a] = m[a]
        BY <1>4, <1>6
    <3>3. Word(mm, b, c.B) = Word(m, b, c.B)
        BY <3>2, SameWord
    <3> QED BY <2>1, <3>1, <3>3
  <2>3. CASE ~(r = s /\ w = k)
    <3>1. n.sets[r][w] = c.sets[r][w]
        BY <1>1, <2>1, <2>3
    <3> DEFINE x == c.sets[r][w].tag
    <3>2. Keeps(c, r, w, x)
        BY <2>1, <3>1 DEF Keeps
    <3>3. x \in Addr /\ x % c.B = 0
        BY <3>2, KeptLine DEF Tidy
    <3>4. old.valid => x # old.tag
        BY <1>3, <2>3, <3>2, KeptOnce
    <3>5. \A a \in Addr : BlockOf(c, a) = x => mm[a] = m[a]
        BY <1>6, <3>4
    <3>6. Word(mm, x, c.B) = Word(m, x, c.B)
        BY <3>3, <3>5, SameWord
    <3> QED BY <2>1, <3>1, <3>6 DEF Match
  <2> QED BY <2>2, <2>3
\* The program sees what it saw.
<1>8. ASSUME NEW a \in Addr PROVE View(n, mm)[a] = View(c, m)[a]
  <2> DEFINE x == BlockOf(c, a)
  <2>1. /\ x \in Addr /\ x % c.B = 0
        /\ x >= DataStart <=> a >= DataStart
      BY BlockStart, BlocksOfData
  <2>2. View(n, mm)[a] = IF a >= DataStart /\ Resident(n, a) THEN ByteIn(n, a)
                         ELSE mm[a]
      BY DEF View
  <2>3. View(c, m)[a] = IF a >= DataStart /\ Resident(c, a) THEN ByteIn(c, a)
                        ELSE m[a]
      BY DEF View
  <2>4. n.B = c.B /\ BlockOf(n, a) = x
      BY <1>1, <1>5 DEF SameShape
  <2>5. CASE a < DataStart
    <3>1. old.valid => old.tag # x
        BY <1>4, <2>1, <2>5, DataCacheAssumption DEF Addr
    <3>2. ~(a >= DataStart)
        BY <2>5, DataCacheAssumption DEF Addr
    <3> QED BY <1>6, <2>2, <2>3, <3>1, <3>2
  <2>6. CASE a >= DataStart /\ x = b
    <3>1. ~Resident(c, a)
        BY <2>6, ResidentIsKept
    <3>2. Resident(n, a) /\ ByteIn(n, a) = n.sets[s][k].data[(a % c.B) + 1]
        BY <1>1, <2>4, <2>6, KeptIsResident
    <3>3. n.sets[s][k] = line
        BY <1>1, <1>2
    <3>4. line.data[(a % c.B) + 1] = m[a]
        BY <2>6, WordOfBlock
    <3> QED BY <2>2, <2>3, <2>6, <3>1, <3>2, <3>3, <3>4
  <2>7. CASE a >= DataStart /\ x # b /\ Resident(c, a)
    <3>1. PICK r, w : Keeps(c, r, w, x)
        BY <2>7, ResidentIsKept
    <3>2. ByteIn(c, a) = c.sets[r][w].data[(a % c.B) + 1]
        BY <3>1, KeptIsResident
    <3>3. r \in 0..(NumSets(c) - 1) /\ w \in 1..c.A
          /\ c.sets[r][w].valid /\ c.sets[r][w].tag = x
        BY <3>1 DEF Keeps
    <3>4. CASE r = s /\ w = k
      <4>1. old.valid /\ old.tag = x /\ old = c.sets[r][w]
          BY <3>3, <3>4 DEF old
      <4>2. ~Resident(n, a)
        <5>1. SUFFICES ASSUME Resident(n, a) PROVE FALSE
            OBVIOUS
        <5>2. PICK q, v : Keeps(n, q, v, x)
            BY <1>1, <2>4, <5>1, ResidentIsKept
        <5>3. Keeps(c, q, v, x) /\ ~(q = s /\ v = k)
            BY <1>1, <2>7, <5>2
        <5> QED BY <3>1, <3>4, <5>3, KeptOnce
      <4>3. mm[a] = old.data[(a % c.B) + 1]
          BY <1>6, <4>1
      <4> QED BY <2>2, <2>3, <2>7, <3>2, <4>1, <4>2, <4>3
    <3>5. CASE ~(r = s /\ w = k)
      <4>1. Keeps(n, r, w, x) /\ n.sets[r][w] = c.sets[r][w]
          BY <1>1, <3>1, <3>3, <3>5
      <4>2. Resident(n, a) /\ ByteIn(n, a) = n.sets[r][w].data[(a % c.B) + 1]
          BY <1>1, <2>4, <4>1, KeptIsResident
      <4> QED BY <2>2, <2>3, <2>7, <3>2, <4>1, <4>2
    <3> QED BY <3>4, <3>5
  <2>8. CASE a >= DataStart /\ x # b /\ ~Resident(c, a)
    <3>1. ~Resident(n, a)
      <4>1. SUFFICES ASSUME Resident(n, a) PROVE FALSE
          OBVIOUS
      <4>2. PICK q, v : Keeps(n, q, v, x)
          BY <1>1, <2>4, <4>1, ResidentIsKept
      <4>3. Keeps(c, q, v, x)
          BY <1>1, <2>8, <4>2
      <4> QED BY <2>8, <4>3, KeptIsResident
    <3>2. ~(old.valid /\ old.tag = x)
        BY <1>3, <2>8, KeptIsResident
    <3>3. mm[a] = m[a]
        BY <1>6, <3>2
    <3> QED BY <2>2, <2>3, <2>8, <3>1, <3>3
  <2>9. a < DataStart \/ a >= DataStart
      BY DataCacheAssumption DEF Addr
  <2> QED BY <2>5, <2>6, <2>7, <2>8, <2>9
<1>9. View(n, mm) = View(c, m)
    BY <1>8 DEF View
<1> QED BY <1>7, <1>9 DEF s, n, old, mm

----------------------------------------------------------------------------
(* A store.                                                                *)

\* The offset of an address from another leads back to it.
LEMMA OffsetPlus ==
    ASSUME NEW a \in Addr, NEW x \in Addr
    PROVE  Offset(a, x) \in 0..(AddrSpace - 1) /\ Plus(a, Offset(a, x)) = x
BY SpaceAssumption DEF Addr, Offset, Plus

\* The bytes of a line after set_word_cache.
LEMMA UpdatedByte ==
    ASSUME NEW c, IsCache(c), Divides(c), NEW line \in LineType(c.B), line.valid,
           NEW a \in Addr, NEW val, NEW x \in Addr, line.tag = BlockOf(c, x)
    PROVE  Updated(line, a, val).data[(x % c.B) + 1] =
               IF Offset(a, x) + 1 \in DOMAIN val THEN val[Offset(a, x) + 1]
               ELSE line.data[(x % c.B) + 1]
<1> DEFINE j == (x % c.B) + 1
<1>1. /\ line.tag \in Addr /\ line.tag % c.B = 0
      /\ x % c.B \in 0..(c.B - 1) /\ line.tag + (x % c.B) = x
    BY BlockStart
<1>2. Plus(line.tag, x % c.B) = x
    BY <1>1, InBlock
<1>3. j \in 1..c.B /\ j - 1 = x % c.B
    BY <1>1, SpaceAssumption DEF IsCache
<1>4. DOMAIN line.data = 1..c.B
    BY DEF LineType
<1>5. Updated(line, a, val).data =
          [n \in 1..c.B |->
              IF line.valid /\ Offset(a, Plus(line.tag, n - 1)) + 1 \in DOMAIN val
              THEN val[Offset(a, Plus(line.tag, n - 1)) + 1] ELSE line.data[n]]
    BY <1>4 DEF Updated, LineType
<1> HIDE DEF j
<1>6. Updated(line, a, val).data[j] =
          IF Offset(a, Plus(line.tag, j - 1)) + 1 \in DOMAIN val
          THEN val[Offset(a, Plus(line.tag, j - 1)) + 1] ELSE line.data[j]
    BY <1>3, <1>5
<1>7. Plus(line.tag, j - 1) = x
    BY <1>2, <1>3
<1> QED BY <1>6, <1>7 DEF j

\* A store to a block that is there and dirty changes what the program sees
\* by the bytes stored.
LEMMA StoreView ==
    ASSUME NEW c, IsCache(c), Divides(c), Tidy(c), NEW m, Match(c, m),
           NEW a \in Addr, a >= DataStart,
           NEW w \in 1..AddrSpace, NEW val \in [1..w -> Bytes],
           \A o \in 0..(w - 1) : BlockOf(c, Plus(a, o)) = BlockOf(c, a),
           NEW u, NEW v, Keeps(c, u, v, BlockOf(c, a)), c.sets[u][v].dirty
    PROVE  LET n == set_word_cache(TRUE, c, a, val)
           IN Match(n, m) /\ Tidy(n) /\ View(n, m) = Overlay(View(c, m), a, 0, val)
<1> DEFINE n == set_word_cache(TRUE, c, a, val)
           b == BlockOf(c, a)
<1>1. /\ DOMAIN val = 1..w /\ DOMAIN val \in SUBSET Int /\ Len(val) = w
      /\ \A k \in DOMAIN val : val[k] \in Bytes
  <2>1. w \in Nat
      BY SpaceAssumption
  <2>2. val \in Seq(Bytes) /\ Len(val) = w
      BY <2>1
  <2> QED BY <2>1, <2>2
<1>2. IsCache(n) /\ SameShape(c, n)
    BY <1>1, WordSet
<1>3. \A s \in 0..(NumSets(c) - 1), k \in 1..c.A :
         n.sets[s][k] = Updated(c.sets[s][k], a, val)
  <2>1. n.sets = [s \in 0..(NumSets(c) - 1) |->
                     [k \in 1..c.A |-> Updated(c.sets[s][k], a, val)]]
      BY DEF set_word_cache, IsCache
  <2> HIDE DEF n
  <2> QED BY <2>1
<1> HIDE DEF n
<1>4. \A s \in 0..(NumSets(c) - 1), k \in 1..c.A :
         /\ c.sets[s][k] \in LineType(c.B)
         /\ n.sets[s][k].valid = c.sets[s][k].valid
         /\ n.sets[s][k].tag = c.sets[s][k].tag
         /\ n.sets[s][k].dirty = c.sets[s][k].dirty
  <2>1. \A line \in LineType(c.B) :
           /\ Updated(line, a, val).valid = line.valid
           /\ Updated(line, a, val).tag = line.tag
           /\ Updated(line, a, val).dirty = line.dirty
      BY DEF Updated, LineType
  <2>2. \A s \in 0..(NumSets(c) - 1), k \in 1..c.A :
           c.sets[s][k] \in LineType(c.B)
      BY DEF IsCache
  <2> QED BY <1>3, <2>1, <2>2
<1>5. /\ Tidy(n) /\ Divides(n) /\ n.B = c.B /\ NumSets(n) = NumSets(c)
      /\ \A x : BlockOf(n, x) = BlockOf(c, x)
      /\ \A s, k, x : Keeps(n, s, k, x) <=> Keeps(c, s, k, x)
      /\ \A x \in Addr : Resident(n, x) = Resident(c, x)
    BY <1>2, <1>4, SameTags DEF SameShape, NumSets
\* The bytes stored lie in block b.
<1>6. ASSUME NEW x \in Addr, Offset(a, x) \in 0..(w - 1)
      PROVE  BlockOf(c, x) = b
    BY <1>6, OffsetPlus
<1>7. \A x \in Addr : Offset(a, x) + 1 \in DOMAIN val
                          <=> Offset(a, x) \in 0..(w - 1)
    BY <1>1, OffsetPlus, SpaceAssumption
<1>8. Match(n, m)
  <2> SUFFICES ASSUME NEW s \in 0..(NumSets(n) - 1), NEW k \in 1..n.A,
                      n.sets[s][k].valid
               PROVE  /\ n.sets[s][k].tag >= DataStart
                      /\ \/ n.sets[s][k].dirty
                         \/ n.sets[s][k].data = Word(m, n.sets[s][k].tag, n.B)
      BY DEF Match
  <2>1. s \in 0..(NumSets(c) - 1) /\ k \in 1..c.A
      BY <1>2, <1>5 DEF SameShape
  <2> DEFINE line == c.sets[s][k]
             x == line.tag
  <2>2. Keeps(c, s, k, x) /\ line.valid /\ line \in LineType(c.B)
      BY <1>4, <2>1 DEF Keeps
  <2>3. n.sets[s][k].tag >= DataStart
      BY <1>4, <2>1, <2>2 DEF Match
  <2>4. CASE line.dirty
      BY <1>4, <2>1, <2>3, <2>4
  <2>5. CASE ~line.dirty
    <3>1. x # b
        BY <2>2, <2>5, KeptOnce
    <3>2. line.data = Word(m, x, c.B)
        BY <2>1, <2>2, <2>5 DEF Match
    <3>3. Updated(line, a, val).data = line.data
      <4>1. x \in Addr /\ x % c.B = 0 /\ line.data \in [1..c.B -> Bytes]
          BY <2>2, KeptLine DEF Tidy, LineType
      <4>2. Updated(line, a, val).data =
               [j \in 1..c.B |->
                   IF line.valid /\ Offset(a, Plus(x, j - 1)) + 1 \in DOMAIN val
                   THEN val[Offset(a, Plus(x, j - 1)) + 1] ELSE line.data[j]]
        <5>1. \A l \in LineType(c.B) :
                 Updated(l, a, val).data =
                     [j \in 1..c.B |->
                        IF l.valid /\ Offset(a, Plus(l.tag, j - 1)) + 1 \in DOMAIN val
                        THEN val[Offset(a, Plus(l.tag, j - 1)) + 1] ELSE l.data[j]]
            BY DEF Updated, LineType
        <5> QED BY <2>2, <5>1
      <4> HIDE DEF line, x
      <4>3. ASSUME NEW j \in 1..c.B
            PROVE  Offset(a, Plus(x, j - 1)) + 1 \notin DOMAIN val
        <5>1. j - 1 \in 0..(c.B - 1)
            BY SpaceAssumption DEF IsCache
        <5>2. /\ x + (j - 1) \in Addr /\ Plus(x, j - 1) = x + (j - 1)
              /\ BlockOf(c, x + (j - 1)) = x
            BY <4>1, <5>1, InBlock
        <5> QED BY <1>6, <1>7, <3>1, <5>2
      <4> QED BY <4>1, <4>2, <4>3
    <3> QED BY <1>3, <1>4, <1>5, <2>1, <2>3, <3>2, <3>3
  <2> QED BY <2>4, <2>5
<1>9. ASSUME NEW x \in Addr
      PROVE  View(n, m)[x] = Overlay(View(c, m), a, 0, val)[x]
  <2>1. Overlay(View(c, m), a, 0, val)[x] =
            IF Offset(a, x) \in 0..(w - 1) THEN val[Offset(a, x) + 1]
            ELSE View(c, m)[x]
      BY <1>1 DEF Overlay
  <2>2. View(n, m)[x] = IF x >= DataStart /\ Resident(n, x) THEN ByteIn(n, x)
                        ELSE m[x]
      BY DEF View
  <2>3. View(c, m)[x] = IF x >= DataStart /\ Resident(c, x) THEN ByteIn(c, x)
                        ELSE m[x]
      BY DEF View
  <2>4. CASE x >= DataStart /\ Resident(c, x)
    <3>1. PICK s, k : Keeps(c, s, k, BlockOf(c, x))
        BY <2>4, ResidentIsKept
    <3>2. /\ s \in 0..(NumSets(c) - 1) /\ k \in 1..c.A
          /\ c.sets[s][k].valid /\ c.sets[s][k].tag = BlockOf(c, x)
        BY <3>1 DEF Keeps
    <3>3. /\ ByteIn(n, x) = n.sets[s][k].data[(x % c.B) + 1]
          /\ ByteIn(c, x) = c.sets[s][k].data[(x % c.B) + 1]
        BY <1>2, <1>5, <3>1, KeptIsResident
    <3>4. n.sets[s][k].data[(x % c.B) + 1] =
              IF Offset(a, x) + 1 \in DOMAIN val THEN val[Offset(a, x) + 1]
              ELSE c.sets[s][k].data[(x % c.B) + 1]
      <4> DEFINE line == c.sets[s][k]
      <4>1. /\ line \in LineType(c.B) /\ line.valid /\ line.tag = BlockOf(c, x)
            /\ n.sets[s][k] = Updated(line, a, val)
          BY <1>3, <1>4, <3>2
      <4> HIDE DEF line
      <4>2. Updated(line, a, val).data[(x % c.B) + 1] =
                IF Offset(a, x) + 1 \in DOMAIN val THEN val[Offset(a, x) + 1]
                ELSE line.data[(x % c.B) + 1]
          BY <4>1, UpdatedByte
      <4> QED BY <4>1, <4>2 DEF line
    <3> QED BY <1>5, <1>7, <2>1, <2>2, <2>3, <2>4, <3>3, <3>4
  <2>5. CASE ~(x >= DataStart /\ Resident(c, x))
    <3>1. Offset(a, x) \notin 0..(w - 1)
      <4>1. SUFFICES ASSUME Offset(a, x) \in 0..(w - 1) PROVE FALSE
          OBVIOUS
      <4>2. BlockOf(c, x) = b
          BY <1>6, <4>1
      <4>3. Resident(c, x)
          BY <4>2, KeptIsResident
      <4>4. x >= DataStart
          BY <4>2, BlocksOfData
      <4> QED BY <2>5, <4>3, <4>4
    <3> QED BY <1>5, <2>1, <2>2, <2>3, <2>5, <3>1
  <2> QED BY <2>4, <2>5
<1>10. View(n, m) = Overlay(View(c, m), a, 0, val)
    BY <1>9 DEF View, Overlay
<1> QED BY <1>5, <1>8, <1>10 DEF n

----------------------------------------------------------------------------
(* The invariant: the cache of the solution is tidy, and an access that    *)
(* lies in one block finds it there from its second byte on.               *)

Brought ==
    \E s, k : /\ Keeps(cache, s, k, BlockOf(cache, req.addr))
              /\ ~Reading => cache.sets[s][k].dirty

TInv ==
    /\ solved /\ cache # NULL /\ Divides(cache) => Tidy(cache)
    /\ req # Idle => req.addr >= DataStart
    /\ req # Idle /\ Reading => DOMAIN data = 1..Width
    /\ solved /\ req # Idle /\ i > 0 /\ Divides(cache) /\ InOneBlock => Brought

\* In an access that lies in one block, the block that misses is the one
\* the fill takes.
LEMMA OneBlock ==
    ASSUME DcInv, InLoop, InOneBlock
    PROVE  /\ block_address = BlockOf(cache, req.addr)
           /\ FillFrom = block_address
BY Byte DEF InOneBlock, block_address, current_address, FillFrom

\* What byte_fill does, in the terms of FillView.
LEMMA FillsLine ==
    ASSUME DcInv, TInv, byte_fill, solved = TRUE, Divides(cache)
    PROVE  /\ InLoop /\ Tidy(cache)
           /\ block_address \in Addr /\ block_address % cache.B = 0
           /\ \A r, w : ~Keeps(cache, r, w, block_address)
           /\ \E k \in 1..cache.A, line \in LineType(cache.B) :
                 LET s == SetOf(cache, block_address)
                     old == cache.sets[s][k]
                 IN /\ line.valid /\ line.tag = block_address
                    /\ line.dirty = (Op = "WRITE")
                    /\ line.data = Word(bytes, FillFrom, cache.B)
                    /\ cache' = Replace(cache, s, k, line)
                    /\ bytes' = IF old.valid /\ old.dirty
                                THEN Overlay(bytes, old.tag, 0, old.data)
                                ELSE bytes
<1>1. /\ InLoop /\ IsCache(cache) /\ cache # NULL /\ current_address \in Addr
      /\ FillFrom \in Addr /\ ~Resident(cache, current_address)
    BY Byte, NotNull DEF byte_fill, Hits, check_hit
<1>2. Tidy(cache)
    BY <1>1 DEF TInv
<1>3. /\ block_address \in Addr /\ block_address % cache.B = 0
      /\ SetOf(cache, block_address) = SetOf(cache, current_address)
    BY <1>1, BlockStart DEF block_address, SetOf
<1>4. \A r, w : ~Keeps(cache, r, w, block_address)
    BY <1>1, <1>2, KeptIsResident DEF block_address
<1> DEFINE incoming == Word(bytes, FillFrom, cache.B)
           s == SetOf(cache, current_address)
<1>5. incoming \in [1..cache.B -> Bytes]
    BY <1>1, WordType DEF DcInv, Divides, IsCache
<1>6. PICK m \in handle_miss(TRUE, cache, current_address, Op, incoming,
                             Missed) :
             /\ cache' = m.cache
             /\ bytes' = IF m.evicted.valid /\ m.evicted.dirty
                         THEN Overlay(bytes, m.evicted.addr, 0, m.evicted.data)
                         ELSE bytes
    BY DEF byte_fill
<1> HIDE DEF incoming
<1>7. PICK k \in 1..cache.A :
             m = [cache |-> Fill(cache, current_address, Op, incoming, k),
                  evicted |-> [valid |-> cache.sets[s][k].valid,
                               dirty |-> cache.sets[s][k].dirty,
                               addr |-> cache.sets[s][k].tag,
                               data |-> cache.sets[s][k].data],
                  counts |-> CountEviction(Missed, cache.sets[s][k])]
    BY <1>6 DEF handle_miss
<1> DEFINE line == [valid |-> TRUE, tag |-> block_address,
                    dirty |-> Op = "WRITE", data |-> incoming]
<1> HIDE DEF s
<1>8. cache' = Replace(cache, s, k, line)
    BY <1>6, <1>7 DEF Fill, Replace, block_address, s
<1>9. line \in LineType(cache.B)
    BY <1>3, <1>5 DEF LineType
<1>10. /\ line.valid /\ line.tag = block_address
       /\ line.dirty = (Op = "WRITE") /\ line.data = incoming
    OBVIOUS
<1> HIDE DEF line
<1>11. bytes' = IF cache.sets[s][k].valid /\ cache.sets[s][k].dirty
                THEN Overlay(bytes, cache.sets[s][k].tag, 0, cache.sets[s][k].data)
                ELSE bytes
    BY <1>6, <1>7
<1>12. s = SetOf(cache, block_address)
    BY <1>3 DEF s
<1> QED BY <1>1, <1>2, <1>3, <1>4, <1>8, <1>9, <1>10, <1>11, <1>12 DEF incoming

\* What a hit leaves.
LEMMA HitsLine ==
    ASSUME DcInv, TInv, byte_hit, Divides(cache)
    PROVE  /\ InLoop /\ solved = TRUE /\ cache # NULL /\ cache' # NULL
           /\ IsCache(cache) /\ Tidy(cache) /\ Resident(cache, current_address)
           /\ IsCache(cache') /\ SameShape(cache, cache')
           /\ \A s \in 0..(NumSets(cache) - 1), k \in 1..cache.A :
                 /\ cache'.sets[s][k].valid = cache.sets[s][k].valid
                 /\ cache'.sets[s][k].tag = cache.sets[s][k].tag
                 /\ cache'.sets[s][k].data = cache.sets[s][k].data
                 /\ cache.sets[s][k].dirty => cache'.sets[s][k].dirty
           /\ \A s, k : Keeps(cache, s, k, BlockOf(cache, current_address))
                        /\ ~Reading => cache'.sets[s][k].dirty
<1>1. /\ InLoop /\ Hits /\ cache' = HitLine(cache, current_address, Op)
    BY DEF byte_hit
<1>2. /\ IsCache(cache) /\ cache # NULL /\ solved = TRUE
      /\ Resident(cache, current_address) /\ current_address \in Addr
    BY <1>1, Byte, NotNull DEF Hits, check_hit
<1>3. Tidy(cache)
    BY <1>2 DEF TInv
<1>4. /\ IsCache(cache') /\ SameShape(cache, cache')
      /\ \A s \in 0..(NumSets(cache) - 1), k \in 1..cache.A :
            /\ cache'.sets[s][k].valid = cache.sets[s][k].valid
            /\ cache'.sets[s][k].tag = cache.sets[s][k].tag
            /\ cache'.sets[s][k].data = cache.sets[s][k].data
            /\ cache.sets[s][k].dirty => cache'.sets[s][k].dirty
      /\ Op # "READ" /\ SetOf(cache, current_address) \in 0..(NumSets(cache) - 1)
            => \A w \in Holds(cache, current_address) :
                  Holds(cache, current_address) = {w}
                     => cache'.sets[SetOf(cache, current_address)][w].dirty
    BY <1>1, <1>2, Touched
<1>5. ASSUME NEW s, NEW k, ~Reading,
             Keeps(cache, s, k, BlockOf(cache, current_address))
      PROVE  cache'.sets[s][k].dirty
  <2>1. SetOf(cache, current_address) = s /\ Holds(cache, current_address) = {k}
      BY <1>2, <1>3, <1>5, KeptIsResident
  <2>2. s \in 0..(NumSets(cache) - 1)
      BY <1>5 DEF Keeps
  <2>3. Op # "READ"
      BY <1>5 DEF Op
  <2> QED BY <1>4, <2>1, <2>2, <2>3
<1>6. cache' # NULL
    BY <1>4, NotNull
<1> QED BY <1>1, <1>2, <1>3, <1>4, <1>5, <1>6

\* The geometry of the cache and the access stay.
LEMMA SameAccess ==
    ASSUME SameShape(cache, cache'), req' = req
    PROVE  /\ Divides(cache') = Divides(cache) /\ InOneBlock' = InOneBlock
           /\ Width' = Width /\ Reading' = Reading
           /\ BlockOf(cache', req'.addr) = BlockOf(cache, req.addr)
BY DEF SameShape, Divides, NumSets, InOneBlock, BlockOf, Width, Reading

\* Every step of the data cache keeps the second invariant.
LEMMA TStep ==
    ASSUME DcInv, DcInv', TInv, DcNext
    PROVE  TInv'
<1>1. CASE created
  <2>1. PICK A \in 1..(AddrSpace - 1), B \in 1..(AddrSpace - 1), C \in Nat,
             d \in Nat : cache = NULL /\ init_cache(A, B, C, d)
      BY <1>1 DEF created
  <2>2. A \in Nat \ {0} /\ B \in 1..AddrSpace
      BY SpaceAssumption
  <2>3. \A s \in 0..(NumSets(cache') - 1), k \in 1..cache'.A :
           ~cache'.sets[s][k].valid
      BY <2>1, <2>2, Created DEF init_cache
  <2>4. Tidy(cache')
      BY <2>3 DEF Tidy, Keeps
  <2>5. req' = Idle
      BY <2>1 DEF init_cache, DcInv
  <2> QED BY <2>4, <2>5 DEF TInv
<1>2. CASE begun
  <2>1. UNCHANGED <<cache, solved>>
      BY <1>2 DEF begun, mem_read_uncached, mem_read_cached,
                  mem_write_uncached, mem_write_cached
  <2>2. req' = Idle
        \/ /\ i' = 0 /\ req'.addr >= DataStart
           /\ Reading' => DOMAIN data' = 1..Width'
    <3>1. ASSUME NEW r \in Reads, mem_read_cached(r.addr, r.width)
          PROVE  /\ i' = 0 /\ req'.addr >= DataStart
                 /\ Reading' => DOMAIN data' = 1..Width'
      <4>1. /\ req' = [kind |-> "read", addr |-> r.addr, width |-> r.width]
            /\ i' = 0 /\ r.addr >= DataStart /\ data' = Zeros(r.width)
          BY <3>1 DEF mem_read_cached, Cached
      <4>2. Width' = r.width /\ req'.addr = r.addr
          BY <4>1 DEF Width, Reading
      <4> QED BY <4>1, <4>2 DEF Zeros
    <3>2. ASSUME NEW r \in Writes, mem_write_cached(r.addr, r.data)
          PROVE  /\ i' = 0 /\ req'.addr >= DataStart
                 /\ Reading' => DOMAIN data' = 1..Width'
      <4>1. /\ req' = [kind |-> "write", addr |-> r.addr, data |-> r.data]
            /\ i' = 0 /\ r.addr >= DataStart
          BY <3>2 DEF mem_write_cached, Cached
      <4>2. ~Reading' /\ req'.addr = r.addr
          BY <4>1 DEF Reading
      <4> QED BY <4>1, <4>2
    <3>3. ASSUME NEW a, NEW w, mem_read_uncached(a, w) \/ mem_write_uncached(a, w)
          PROVE  req' = Idle
        BY <3>3 DEF mem_read_uncached, mem_write_uncached
    <3> QED BY <1>2, <3>1, <3>2, <3>3 DEF begun
  <2>3. i' = 0 => ~(i' > 0)
      OBVIOUS
  <2> QED BY <2>1, <2>2, <2>3 DEF TInv
<1>3. CASE byte_hit
  <2>1. /\ UNCHANGED <<solved, req, data>> /\ InLoop /\ i' = i + 1
      BY <1>3 DEF byte_hit
  <2>2. IsCache(cache') /\ SameShape(cache, cache')
      BY <2>1, Byte, Touched, <1>3 DEF byte_hit
  <2>3. req' # Idle => req'.addr >= DataStart
      BY <2>1 DEF TInv
  <2>4. req' # Idle /\ Reading' => DOMAIN data' = 1..Width'
      BY <2>1, <2>2, SameAccess DEF TInv
  <2>5. ASSUME Divides(cache) PROVE Tidy(cache')
      BY <1>3, <2>5, HitsLine, SameTags
  <2>6. ASSUME Divides(cache), InOneBlock PROVE Brought'
    <3> DEFINE b == BlockOf(cache, req.addr)
    <3>1. b = BlockOf(cache, current_address)
        BY <2>1, <2>6, OneBlock DEF block_address
    <3>2. current_address \in Addr
        BY <2>1, Byte
    <3>3. PICK s, k : Keeps(cache, s, k, b)
        BY <1>3, <2>6, <3>1, <3>2, HitsLine, ResidentIsKept
    <3>4. Keeps(cache', s, k, b)
        BY <1>3, <2>6, <3>3, HitsLine, SameTags
    <3>5. ~Reading => cache'.sets[s][k].dirty
        BY <1>3, <2>6, <3>1, <3>3, HitsLine
    <3>6. BlockOf(cache', req'.addr) = b /\ Reading' = Reading
        BY <2>1, <2>2, SameAccess
    <3> QED BY <3>4, <3>5, <3>6 DEF Brought
  <2> QED BY <2>1, <2>2, <2>3, <2>4, <2>5, <2>6, SameAccess DEF TInv
<1>4. CASE byte_wait
    BY <1>4 DEF byte_wait, TInv
<1>5. CASE byte_fill
  <2>1. /\ UNCHANGED <<solved, req>> /\ InLoop /\ i' = i + 1
        /\ data' = IF Reading THEN CastWord(Word(bytes, FillFrom, cache.B))
                   ELSE data
      BY <1>5 DEF byte_fill
  <2>2. IsCache(cache) /\ IsCache(cache') /\ SameShape(cache, cache')
      BY <1>5, <2>1, Filled, Byte
  <2>3. req' # Idle => req'.addr >= DataStart
      BY <2>1 DEF TInv
  <2>4. req' # Idle /\ Reading' => DOMAIN data' = 1..Width'
      BY <2>1, <2>2, SameAccess DEF CastWord
  <2>5. ASSUME solved, Divides(cache)
        PROVE  Tidy(cache') /\ (InOneBlock => Brought')
    <3>1. solved = TRUE
        BY <2>5 DEF DcInv
    <3>2. /\ Tidy(cache) /\ block_address \in Addr
          /\ block_address % cache.B = 0
          /\ \A r, w : ~Keeps(cache, r, w, block_address)
        BY <1>5, <2>5, <3>1, FillsLine
    <3>3. PICK k \in 1..cache.A, line \in LineType(cache.B) :
                 /\ line.valid /\ line.tag = block_address
                 /\ line.dirty = (Op = "WRITE")
                 /\ cache' = Replace(cache, SetOf(cache, block_address), k, line)
        BY <1>5, <2>5, <3>1, FillsLine
    <3> DEFINE s == SetOf(cache, block_address)
    <3>4. /\ Tidy(cache') /\ Keeps(cache', s, k, block_address)
          /\ \A r \in 0..(NumSets(cache) - 1), w \in 1..cache.A :
                cache'.sets[r][w] = IF r = s /\ w = k THEN line
                                    ELSE cache.sets[r][w]
        BY <2>2, <2>5, <3>2, <3>3, FillTidy
    <3>5. s \in 0..(NumSets(cache) - 1)
        BY <2>2, <2>5, <3>2, SetInRange DEF Divides
    <3> HIDE DEF s
    <3>6. cache'.sets[s][k] = line
        BY <3>4, <3>5
    <3>7. ~Reading => cache'.sets[s][k].dirty
        BY <3>3, <3>6 DEF Op
    <3>8. ASSUME InOneBlock PROVE Brought'
      <4>1. BlockOf(cache', req'.addr) = block_address /\ Reading' = Reading
          BY <2>1, <2>2, <3>8, SameAccess, OneBlock
      <4> QED BY <3>4, <3>7, <4>1 DEF Brought
    <3> QED BY <3>4, <3>8
  <2>6. cache # NULL
      BY <2>2, NotNull
  <2> QED BY <2>1, <2>2, <2>3, <2>4, <2>5, <2>6, SameAccess DEF TInv
<1>6. CASE access_return
  <2>1. req # Idle /\ req' = Idle /\ solved' = solved /\ cache # NULL
      BY <1>6 DEF access_return, DcInv
  <2>2. ASSUME solved, Divides(cache'), cache' # NULL PROVE Tidy(cache')
    <3>1. CASE cache' = cache
        BY <2>2, <3>1 DEF TInv
    <3>2. CASE cache' # cache
      <4>1. IsCache(cache) /\ req \in Writes /\ solved = TRUE
            /\ cache' = set_word_cache(TRUE, cache, req.addr, req.data)
        <5>1. ~Reading /\ cache' = set_word_cache(solved, cache, req.addr, req.data)
            BY <1>6, <3>2 DEF access_return
        <5>2. solved = TRUE
            BY <2>2 DEF DcInv
        <5> QED BY <2>1, <5>1, <5>2, Underway DEF DcInv
      <4>2. /\ DOMAIN req.data \in SUBSET Int
            /\ \A k \in DOMAIN req.data : req.data[k] \in Bytes
          BY <4>1, DataFacts DEF Writes
      <4>3. IsCache(cache') /\ SameShape(cache, cache')
          BY <4>1, <4>2, WordSet
      <4>4. Divides(cache)
          BY <2>2, <4>3 DEF Divides, SameShape, NumSets
      <4>5. \A s \in 0..(NumSets(cache) - 1), k \in 1..cache.A :
               /\ cache'.sets[s][k].valid = cache.sets[s][k].valid
               /\ cache'.sets[s][k].tag = cache.sets[s][k].tag
        <5>1. cache'.sets =
                 [s \in 0..(NumSets(cache) - 1) |->
                     [k \in 1..cache.A |->
                         Updated(cache.sets[s][k], req.addr, req.data)]]
            BY <4>1 DEF set_word_cache, IsCache
        <5>2. \A line \in LineType(cache.B) :
                 /\ Updated(line, req.addr, req.data).valid = line.valid
                 /\ Updated(line, req.addr, req.data).tag = line.tag
            BY DEF Updated, LineType
        <5>3. \A s \in 0..(NumSets(cache) - 1), k \in 1..cache.A :
                 cache.sets[s][k] \in LineType(cache.B)
            BY <4>1 DEF IsCache
        <5> QED BY <5>1, <5>2, <5>3
      <4>6. Tidy(cache)
          BY <2>1, <2>2, <4>4 DEF TInv
      <4> QED BY <4>1, <4>3, <4>4, <4>5, <4>6, SameTags
    <3> QED BY <3>1, <3>2
  <2> QED BY <2>1, <2>2 DEF TInv
<1>7. CASE loaded
    BY <1>7 DEF loaded, TInv, Brought, InOneBlock, Width, Reading
<1> QED BY <1>1, <1>2, <1>3, <1>4, <1>5, <1>6, <1>7 DEF DcNext

----------------------------------------------------------------------------
(* The theorem.                                                            *)

\* What the program sees is the view through the cache.
LEMMA ContentsIsView ==
    solved /\ cache # NULL => Contents = View(cache, bytes)
BY DEF Contents, View, Cached

\* The lines in use match memory if all valid lines do.
LEMMA MatchOfLines ==
    ASSUME NEW c, IsCache(c), NEW m
    PROVE  Match(c, m) <=>
               \A line \in {c.sets[p[1]][p[2]] : p \in InUse(c)} :
                   /\ line.tag >= DataStart
                   /\ line.dirty \/ line.data = Word(m, line.tag, c.B)
<1>1. \A p \in InUse(c) :
         /\ p[1] \in 0..(NumSets(c) - 1) /\ p[2] \in 1..c.A
         /\ c.sets[p[1]][p[2]].valid
    BY DEF InUse
<1>2. \A s \in 0..(NumSets(c) - 1), k \in 1..c.A :
         c.sets[s][k].valid => <<s, k>> \in InUse(c)
    BY DEF InUse
<1>3. ASSUME Match(c, m), NEW p \in InUse(c)
      PROVE  /\ c.sets[p[1]][p[2]].tag >= DataStart
             /\ \/ c.sets[p[1]][p[2]].dirty
                \/ c.sets[p[1]][p[2]].data = Word(m, c.sets[p[1]][p[2]].tag, c.B)
    BY <1>1, <1>3 DEF Match
<1>4. ASSUME \A line \in {c.sets[p[1]][p[2]] : p \in InUse(c)} :
                 /\ line.tag >= DataStart
                 /\ line.dirty \/ line.data = Word(m, line.tag, c.B)
      PROVE  Match(c, m)
  <2> SUFFICES ASSUME NEW s \in 0..(NumSets(c) - 1), NEW k \in 1..c.A,
                      c.sets[s][k].valid
               PROVE  /\ c.sets[s][k].tag >= DataStart
                      /\ \/ c.sets[s][k].dirty
                         \/ c.sets[s][k].data = Word(m, c.sets[s][k].tag, c.B)
      BY DEF Match
  <2>1. <<s, k>> \in InUse(c)
      BY <1>2
  <2>2. c.sets[s][k] \in {c.sets[p[1]][p[2]] : p \in InUse(c)}
      BY <2>1
  <2> QED BY <1>4, <2>2
<1> QED BY <1>3, <1>4

\* With the exercises done, a step of an access in one block changes what
\* the program sees by a served store only.
LEMMA TransparentStep ==
    ASSUME DcInv, DcInv', TInv, TInv', DcNext,
           solved, req # Idle, Divides(cache), InOneBlock, LinesMatch
    PROVE  /\ LinesMatch'
           /\ Contents' = IF Served /\ ~Reading
                          THEN Overlay(Contents, req.addr, 0, req.data)
                          ELSE Contents
           /\ Served /\ Reading => result' = Word(Contents, req.addr, Width)
<1>1. /\ IsCache(cache) /\ cache # NULL /\ solved = TRUE /\ Tidy(cache)
      /\ bytes \in [Addr -> Bytes]
    BY NotNull DEF DcInv, TInv, Divides
<1>2. /\ req.addr \in Addr /\ req.addr >= DataStart /\ Width \in 1..AddrSpace
      /\ Contents = View(cache, bytes) /\ Match(cache, bytes)
    BY <1>1, Underway, ContentsIsView, MatchOfLines
       DEF DcInv, TInv, LinesMatch, Lines
\* It is enough to look at the view of the cache afterwards.
<1>3. ASSUME IsCache(cache'), solved' = solved, NEW v,
             Match(cache', bytes'), View(cache', bytes') = v
      PROVE  LinesMatch' /\ Contents' = v
  <2>1. cache' # NULL /\ solved'
      BY <1>1, <1>3, NotNull
  <2>2. Contents' = View(cache', bytes')
      BY <2>1 DEF Contents, View, Cached
  <2>3. LinesMatch'
      BY <1>3, MatchOfLines DEF LinesMatch, Lines
  <2> QED BY <1>3, <2>2, <2>3
<1>4. CASE byte_hit
  <2>1. /\ IsCache(cache') /\ SameShape(cache, cache')
        /\ \A s \in 0..(NumSets(cache) - 1), k \in 1..cache.A :
              /\ cache'.sets[s][k].valid = cache.sets[s][k].valid
              /\ cache'.sets[s][k].tag = cache.sets[s][k].tag
              /\ cache'.sets[s][k].data = cache.sets[s][k].data
              /\ cache.sets[s][k].dirty => cache'.sets[s][k].dirty
      BY <1>4, HitsLine
  <2>2. UNCHANGED <<bytes, solved, req>>
      BY <1>4 DEF byte_hit
  <2>3. View(cache', bytes') = View(cache, bytes)
      BY <1>1, <2>1, <2>2, SameView
  <2>4. Match(cache', bytes')
    <3>1. NumSets(cache') = NumSets(cache) /\ cache'.A = cache.A
          /\ cache'.B = cache.B
        BY <2>1 DEF SameShape, NumSets
    <3> QED BY <1>2, <2>1, <2>2, <3>1 DEF Match
  <2>5. ~Served
      BY <2>2 DEF Served
  <2> QED BY <1>2, <1>3, <2>1, <2>2, <2>3, <2>4, <2>5
<1>5. CASE byte_wait
  <2>1. UNCHANGED <<bytes, solved, cache>> /\ ~Served
      BY <1>5 DEF byte_wait, Served
  <2> QED BY <2>1 DEF LinesMatch, Lines, Contents, Cached
<1>6. CASE byte_fill
  <2>1. /\ InLoop /\ UNCHANGED <<solved, req>>
      BY <1>6 DEF byte_fill
  <2>2. /\ block_address \in Addr /\ block_address % cache.B = 0
        /\ \A r, w : ~Keeps(cache, r, w, block_address)
      BY <1>1, <1>6, FillsLine
  <2>3. FillFrom = block_address /\ block_address >= DataStart
      BY <1>1, <1>2, <2>1, OneBlock, BlocksOfData
  <2> DEFINE s == SetOf(cache, block_address)
  <2>4. PICK k \in 1..cache.A, line \in LineType(cache.B) :
               /\ line.valid /\ line.tag = block_address
               /\ line.data = Word(bytes, FillFrom, cache.B)
               /\ cache' = Replace(cache, s, k, line)
               /\ bytes' = IF cache.sets[s][k].valid /\ cache.sets[s][k].dirty
                           THEN Overlay(bytes, cache.sets[s][k].tag, 0,
                                        cache.sets[s][k].data)
                           ELSE bytes
      BY <1>1, <1>6, FillsLine
  <2>5. Match(cache', bytes') /\ View(cache', bytes') = View(cache, bytes)
      BY <1>1, <1>2, <2>2, <2>3, <2>4, FillView
  <2>6. IsCache(cache')
      BY <1>6, Filled
  <2>7. ~Served
      BY <2>1 DEF Served
  <2> QED BY <1>2, <1>3, <2>1, <2>5, <2>6, <2>7
<1>7. CASE access_return
  <2>1. /\ i = Width /\ UNCHANGED <<bytes, solved>> /\ Served
        /\ IF Reading
           THEN /\ result' \in get_word_cache(solved, cache, req.addr, data)
                /\ cache' = cache
           ELSE cache' = set_word_cache(solved, cache, req.addr, req.data)
      BY <1>7 DEF access_return, Served
  <2>2. Brought
    <3>1. i > 0
        BY <1>2, <2>1, SpaceAssumption
    <3> QED BY <3>1 DEF TInv
  <2>3. PICK u, v : /\ Keeps(cache, u, v, BlockOf(cache, req.addr))
                    /\ ~Reading => cache.sets[u][v].dirty
      BY <2>2 DEF Brought
  <2>4. CASE Reading
    <3>1. DOMAIN data = 1..Width
        BY <2>4 DEF TInv
    <3>2. ASSUME NEW n \in 1..Width
          PROVE  result'[n] = Contents[Plus(req.addr, n - 1)]
      <4> DEFINE x == Plus(req.addr, n - 1)
      <4>1. n - 1 \in 0..(Width - 1) /\ n - 1 \in 0..AddrSpace
          BY <1>2, SpaceAssumption
      <4>2. x \in Addr /\ BlockOf(cache, x) = BlockOf(cache, req.addr)
          BY <1>2, <4>1, PlusAddr DEF InOneBlock
      <4>3. Resident(cache, x) /\ x >= DataStart
          BY <1>1, <1>2, <2>3, <4>2, KeptIsResident, BlocksOfData
      <4>4. Contents[x] = ByteIn(cache, x)
          BY <1>2, <4>2, <4>3 DEF View
      <4>5. result'[n] = ByteIn(cache, x)
          BY <1>1, <2>1, <2>4, <3>1, <4>3 DEF get_word_cache
      <4> QED BY <4>4, <4>5
    <3>3. result' \in [1..Width -> Bytes]
        BY <2>1, <2>4, <3>1 DEF get_word_cache
    <3>4. result' = Word(Contents, req.addr, Width)
        BY <3>2, <3>3 DEF Word
    <3>5. LinesMatch' /\ Contents' = Contents
        BY <2>1, <2>4 DEF LinesMatch, Lines, Contents, Cached
    <3> QED BY <2>4, <3>4, <3>5
  <2>5. CASE ~Reading
    <3>1. req \in Writes
        BY <2>5, Underway DEF DcInv
    <3>2. PICK w \in Widths : req.data \in [1..w -> Bytes]
        BY <3>1 DEF Writes, Data
    <3>3. w \in 1..AddrSpace /\ Width = w
      <4>1. w \in Nat /\ w \in 1..AddrSpace
          BY SpaceAssumption
      <4>2. Len(req.data) = w
        <5>1. req.data \in Seq(Bytes) /\ Len(req.data) = w
            BY <3>2, <4>1
        <5> QED BY <5>1
      <4> QED BY <2>5, <4>1, <4>2 DEF Width
    <3>4. \A o \in 0..(w - 1) :
             BlockOf(cache, Plus(req.addr, o)) = BlockOf(cache, req.addr)
        BY <3>3 DEF InOneBlock
    <3>5. cache' = set_word_cache(TRUE, cache, req.addr, req.data)
        BY <1>1, <2>1, <2>5
    <3> DEFINE a == req.addr
               val == req.data
    <3>6. /\ a \in Addr /\ a >= DataStart /\ val \in [1..w -> Bytes]
          /\ \A o \in 0..(w - 1) :
                BlockOf(cache, Plus(a, o)) = BlockOf(cache, a)
          /\ Keeps(cache, u, v, BlockOf(cache, a)) /\ cache.sets[u][v].dirty
          /\ cache' = set_word_cache(TRUE, cache, a, val)
        BY <1>2, <2>3, <2>5, <3>2, <3>4, <3>5
    <3> HIDE DEF a, val
    <3>7. /\ Match(cache', bytes)
          /\ View(cache', bytes) = Overlay(View(cache, bytes), a, 0, val)
      <4>1. /\ IsCache(cache) /\ Divides(cache) /\ Tidy(cache)
            /\ Match(cache, bytes)
          BY <1>1, <1>2
      <4>2. w \in 1..AddrSpace
          BY <3>3
      <4> DEFINE n == set_word_cache(TRUE, cache, a, val)
      <4>3. /\ Match(n, bytes)
            /\ View(n, bytes) = Overlay(View(cache, bytes), a, 0, val)
          BY <3>6, <4>1, <4>2, StoreView
      <4> QED BY <3>6, <4>3
    <3>8. IsCache(cache')
      <4>1. /\ DOMAIN val \in SUBSET Int
            /\ \A k \in DOMAIN val : val[k] \in Bytes
          BY <3>6
      <4> QED BY <1>1, <3>6, <4>1, WordSet
    <3>9. LinesMatch' /\ Contents' = Overlay(Contents, a, 0, val)
        BY <1>2, <1>3, <2>1, <3>7, <3>8
    <3> QED BY <2>1, <2>5, <3>9 DEF a, val
  <2> QED BY <2>4, <2>5
<1>8. CASE loaded
  <2>1. UNCHANGED <<bytes, solved, cache, req>> /\ ~Served
      BY <1>8 DEF loaded, Served
  <2> QED BY <2>1 DEF LinesMatch, Lines, Contents, Cached
<1>9. ~created /\ ~begun
    BY <1>1 DEF created, begun, mem_read_uncached, mem_read_cached,
                mem_write_uncached, mem_write_cached
<1> QED BY <1>4, <1>5, <1>6, <1>7, <1>8, <1>9 DEF DcNext

\* mem.c:151-263: with the exercises of cache.c done, for every geometry whose
\* blocks divide the data segment, every penalty, every choice of the lines to
\* evict and every program, an access within one block leaves the program the
\* memory it had, but for the bytes of a store that is served, and a load that
\* is served returns it.
THEOREM CacheTransparent == Spec => CacheIsTransparent
<1>1. EmulatorInit(Argvs, "args") => TInv
    BY DEF EmulatorInit, Init, TInv
<1>2. IInv /\ IInv' /\ TInv /\ [main]_seVars => TInv'
    BY MainStep, TStep DEF IInv
<1>3. IInv /\ IInv' /\ TInv /\ TInv' /\ [main]_seVars
        => [ (solved /\ req # Idle /\ Aligned /\ InOneBlock /\ LinesMatch) =>
               /\ LinesMatch'
               /\ Contents' = IF Served /\ ~Reading
                              THEN Overlay(Contents, req.addr, 0, req.data)
                              ELSE Contents
               /\ Served /\ Reading
                    => result' = Word(Contents, req.addr, Width) ]_dcVars
    BY MainStep, TransparentStep DEF IInv, Aligned, Divides
<1> QED BY <1>1, <1>2, <1>3, Invariance, PTL DEF Spec, CacheIsTransparent

----------------------------------------------------------------------------
(* The misses counted, and the blocks brought in.                          *)

\* Every block brought in has cost the misses of a whole countdown, and those
\* of the countdown under way are counted too.
Pays ==
    IF cache = NULL THEN counts = NoCounts
    ELSE solved => /\ counts \in Tally
                   /\ counts.miss >= Penalty * EverHeld(cache, counts) + waited

PayInv == Pays /\ MissesCoverFills

\* A product with one factor at most one larger.
LEMMA OneFactorMore ==
    ASSUME NEW p \in Nat, NEW f \in Nat, NEW g \in Nat, g <= f + 1
    PROVE  p * g <= p * f + p
<1>1. \A x \in Nat : p * x \in Nat
    OBVIOUS
<1>2. p * (f + 1) = p * f + p
    OBVIOUS
<1>3. g <= f + 1 => p * g <= p * (f + 1)
    OBVIOUS
<1> QED BY <1>1, <1>2, <1>3

\* Every step of the data cache pays for what it brings in.
LEMMA PayStep ==
    ASSUME DcInv, DcInv', DcNext, Pays
    PROVE  Pays'
<1> USE DEF inflightVars
<1>1. CASE created
  <2>1. PICK A \in 1..(AddrSpace - 1), B \in 1..(AddrSpace - 1), C \in Nat,
             d \in Nat : cache = NULL /\ init_cache(A, B, C, d)
      BY <1>1 DEF created
  <2>2. A \in Nat \ {0} /\ B \in 1..AddrSpace
      BY SpaceAssumption
  <2>3. /\ IsCache(cache') /\ cache'.d = d
        /\ \A s \in 0..(NumSets(cache') - 1), k \in 1..cache'.A :
              ~cache'.sets[s][k].valid
      BY <2>1, <2>2, Created DEF init_cache
  <2>4. cache' # NULL
      BY <2>3, NotNull
  <2>5. InUse(cache') = {}
      BY <2>3 DEF InUse
  <2>6. counts' = NoCounts /\ waited' = 0
      BY <2>1 DEF init_cache, Pays, waited
  <2>7. Penalty' \in Nat
      BY <2>3, DataCacheAssumption DEF Penalty
  <2>8. EverHeld(cache', counts') = 0
    <3>1. Cardinality(InUse(cache')) = 0
        BY <2>5, FS_EmptySet
    <3> QED BY <2>6, <3>1 DEF EverHeld, NoCounts
  <2>9. counts' \in Tally /\ counts'.miss = 0
      BY <2>6 DEF Tally, NoCounts
  <2>10. \A p \in Nat : 0 >= p * 0 + 0
      OBVIOUS
  <2>11. counts'.miss >= Penalty' * EverHeld(cache', counts') + waited'
      BY <2>6, <2>7, <2>8, <2>9, <2>10, Zenon
  <2> QED BY <2>4, <2>9, <2>11 DEF Pays
<1>2. CASE begun
  <2>1. UNCHANGED <<cache, counts, solved, inflight, inflight_addr, inflight_cycles>>
      BY <1>2 DEF begun, mem_read_uncached, mem_read_cached,
                  mem_write_uncached, mem_write_cached
  <2> QED BY <2>1 DEF Pays, waited, Penalty
<1>3. CASE byte_hit
  <2>1. /\ InLoop /\ cache' = HitLine(cache, current_address, Op)
        /\ counts' = Counted(solved, counts, "hit")
        /\ UNCHANGED <<solved, inflight, inflight_addr, inflight_cycles>>
      BY <1>3 DEF byte_hit
  <2>2. cache # NULL /\ IsCache(cache)
      BY <2>1, Byte, NotNull
  <2>3. /\ IsCache(cache') /\ SameShape(cache, cache')
        /\ \A s \in 0..(NumSets(cache) - 1), k \in 1..cache.A :
              cache'.sets[s][k].valid = cache.sets[s][k].valid
      BY <2>1, <2>2, Touched
  <2>4. cache' # NULL /\ Penalty' = Penalty /\ waited' = waited
      BY <2>1, <2>3, NotNull DEF SameShape, Penalty, waited
  <2>5. InUse(cache') = InUse(cache)
      BY <2>3, SameUse
  <2>6. solved /\ counts \in Tally
          => /\ counts' \in Tally /\ counts'.miss = counts.miss
             /\ counts'.dirty = counts.dirty /\ counts'.clean = counts.clean
      BY <2>1 DEF Counted, Count, Tally
  <2> QED BY <2>1, <2>2, <2>4, <2>5, <2>6 DEF Pays, EverHeld
<1>4. CASE byte_wait
  <2>1. /\ InLoop /\ inflight' = TRUE /\ inflight_cycles' = Cycles
        /\ counts' = Missed /\ UNCHANGED <<solved, cache>>
      BY <1>4 DEF byte_wait
  <2>2. IsCache(cache) /\ cache # NULL /\ cache' # NULL /\ Penalty' = Penalty
      BY <2>1, Byte, NotNull DEF Penalty
  <2> SUFFICES ASSUME solved
               PROVE  /\ counts' \in Tally
                      /\ counts'.miss >=
                            Penalty * EverHeld(cache, counts') + waited'
      BY <2>1, <2>2 DEF Pays
  <2>3. /\ counts \in Tally
        /\ counts.miss >= Penalty * EverHeld(cache, counts) + waited
      BY <2>2 DEF Pays
  <2>4. /\ counts' \in Tally /\ counts'.miss = counts.miss + 1
        /\ counts'.dirty = counts.dirty /\ counts'.clean = counts.clean
      BY <2>1, <2>3 DEF Missed, Counted, Count, Tally
  <2>5. waited \in Nat /\ waited' \in Nat /\ waited' <= waited + 1
    <3>1. /\ Penalty \in Nat \ {0} /\ Cycles \in 0..(Penalty - 1)
          /\ inflight /\ inflight_addr = block_address
                => Cycles = inflight_cycles - 1
          /\ ~(inflight /\ inflight_addr = block_address)
                => Cycles = Penalty - 1
        BY <2>1, CyclesValue
    <3>2. inflight => inflight_cycles \in 1..(Penalty - 1)
        BY DEF DcInv
    <3>3. waited' = Penalty - Cycles
        BY <2>1, <2>2 DEF waited
    <3> QED BY <3>1, <3>2, <3>3 DEF waited
  <2>6. EverHeld(cache, counts') = EverHeld(cache, counts)
      BY <2>4 DEF EverHeld
  <2>7. Penalty * EverHeld(cache, counts) \in Nat
    <3>1. Penalty \in Nat
        BY <2>1, CyclesValue
    <3>2. EverHeld(cache, counts) \in Nat
        BY <2>2, <2>3, InUseFinite DEF EverHeld, Tally
    <3> QED BY <3>1, <3>2
  <2> DEFINE owed == Penalty * EverHeld(cache, counts)
  <2>8. owed \in Nat /\ counts.miss \in Nat /\ counts.miss >= owed + waited
      BY <2>3, <2>7 DEF Tally
  <2>9. owed = Penalty * EverHeld(cache, counts')
      BY <2>6
  <2> HIDE DEF owed
  <2> QED BY <2>4, <2>5, <2>8, <2>9
<1>5. CASE byte_fill
  <2>1. /\ InLoop /\ Cycles = 0 /\ inflight' = FALSE /\ solved' = solved
      BY <1>5 DEF byte_fill
  <2>2. /\ IsCache(cache) /\ IsCache(cache') /\ SameShape(cache, cache')
      BY <1>5, <2>1, Filled, Byte
  <2>3. cache # NULL /\ cache' # NULL /\ Penalty' = Penalty /\ waited' = 0
      BY <2>1, <2>2, NotNull DEF SameShape, Penalty, waited
  <2> SUFFICES ASSUME solved
               PROVE  /\ counts' \in Tally
                      /\ counts'.miss >= Penalty * EverHeld(cache', counts') + 0
      BY <2>1, <2>3 DEF Pays
  <2>4. /\ counts \in Tally
        /\ counts.miss >= Penalty * EverHeld(cache, counts) + waited
      BY <2>3 DEF Pays
  <2> DEFINE incoming == Word(bytes, FillFrom, cache.B)
             s == SetOf(cache, current_address)
  <2>5. PICK k \in 1..cache.A :
            /\ cache' = Fill(cache, current_address, Op, incoming, k)
            /\ counts' = CountEviction(Missed, cache.sets[s][k])
      BY <1>5 DEF byte_fill, handle_miss
  <2> DEFINE new == [valid |-> TRUE, tag |-> block_address,
                     dirty |-> Op = "WRITE", data |-> incoming]
  <2>6. cache' = Replace(cache, s, k, new)
      BY <2>5 DEF Fill, Replace, block_address
  <2>7. s \in 0..(NumSets(cache) - 1) => new \in LineType(cache.B)
    <3> SUFFICES ASSUME s \in 0..(NumSets(cache) - 1)
                 PROVE  new \in LineType(cache.B)
        OBVIOUS
    <3>1. NumSets(cache) > 0
      <4>1. NumSets(cache) \in Int
          BY <2>2, SpaceAssumption DEF IsCache, NumSets
      <4> HIDE DEF s
      <4> QED BY <4>1
    <3>2. incoming \in [1..cache.B -> Bytes]
        BY <2>1, <2>2, <2>3, <3>1, Byte, WordType DEF DcInv, IsCache
    <3>3. block_address \in Addr
        BY <2>1, Byte
    <3> HIDE DEF incoming, s
    <3> QED BY <3>2, <3>3 DEF LineType
  <2>8. new.valid = TRUE
      OBVIOUS
  <2>9. /\ Missed \in Tally /\ Missed.miss = counts.miss + 1
        /\ Missed.dirty = counts.dirty /\ Missed.clean = counts.clean
      BY <2>4 DEF Missed, Counted, Count, Tally
  <2> HIDE DEF incoming, s, new
  <2>10. /\ counts' \in Tally /\ counts'.miss = Missed.miss
         /\ EverHeld(cache, Missed) \in Nat /\ EverHeld(cache', counts') \in Nat
         /\ EverHeld(cache', counts') <= EverHeld(cache, Missed) + 1
      BY <2>2, <2>5, <2>6, <2>7, <2>8, <2>9, OneMore
  <2>11. EverHeld(cache, Missed) = EverHeld(cache, counts)
      BY <2>9 DEF EverHeld
  <2>12. /\ Penalty \in Nat /\ waited \in Nat /\ waited >= Penalty - 1
    <3>1. /\ Penalty \in Nat \ {0}
          /\ inflight /\ inflight_addr = block_address
                => 0 = inflight_cycles - 1
          /\ ~(inflight /\ inflight_addr = block_address)
                => 0 = Penalty - 1
        BY <2>1, CyclesValue
    <3>2. inflight => inflight_cycles \in 1..(Penalty - 1)
        BY DEF DcInv
    <3> QED BY <3>1, <3>2 DEF waited
  <2> DEFINE before == EverHeld(cache, counts)
             after  == EverHeld(cache', counts')
  <2>13. before \in Nat /\ after \in Nat /\ after <= before + 1
      BY <2>10, <2>11
  <2>14. /\ counts.miss \in Nat /\ counts.miss >= Penalty * before + waited
         /\ counts'.miss = counts.miss + 1
      BY <2>4, <2>9, <2>10 DEF Tally
  <2> HIDE DEF before, after
  <2>15. /\ Penalty * after <= Penalty * before + Penalty
         /\ Penalty * after \in Nat /\ Penalty * before \in Nat
      BY <2>12, <2>13, OneFactorMore
  <2>16. counts'.miss >= Penalty * after + 0
      BY <2>12, <2>14, <2>15
  <2> QED BY <2>10, <2>16 DEF after
<1>6. CASE access_return
  <2>1. /\ req # Idle
        /\ UNCHANGED <<inflight, inflight_addr, inflight_cycles, solved, counts>>
        /\ \/ cache' = cache
           \/ /\ ~Reading
              /\ cache' = set_word_cache(solved, cache, req.addr, req.data)
      BY <1>6 DEF access_return
  <2>2. CASE cache' = cache
      BY <2>1, <2>2 DEF Pays, waited, Penalty
  <2>3. CASE cache' # cache
    <3>1. IsCache(cache) /\ req \in Writes /\ solved = TRUE
        BY <2>1, <2>3, Underway DEF DcInv, set_word_cache
    <3>2. /\ DOMAIN req.data \in SUBSET Int
          /\ \A k \in DOMAIN req.data : req.data[k] \in Bytes
        BY <3>1, DataFacts DEF Writes
    <3>3. cache' = set_word_cache(TRUE, cache, req.addr, req.data)
        BY <2>1, <2>3, <3>1
    <3> DEFINE a == req.addr
               val == req.data
    <3>4. /\ DOMAIN val \in SUBSET Int
          /\ \A k \in DOMAIN val : val[k] \in Bytes
          /\ cache' = set_word_cache(TRUE, cache, a, val)
        BY <3>2, <3>3
    <3> HIDE DEF a, val
    <3>5. /\ IsCache(cache') /\ SameShape(cache, cache')
          /\ \A s \in 0..(NumSets(cache) - 1), k \in 1..cache.A :
                cache'.sets[s][k] = Updated(cache.sets[s][k], a, val)
      <4>1. cache'.sets =
                [s \in 0..(NumSets(cache) - 1) |->
                    [k \in 1..cache.A |-> Updated(cache.sets[s][k], a, val)]]
          BY <3>1, <3>4 DEF set_word_cache, IsCache
      <4>2. IsCache(cache') /\ SameShape(cache, cache')
          BY <3>1, <3>4, WordSet
      <4> QED BY <4>1, <4>2
    <3>6. \A line \in LineType(cache.B) :
             Updated(line, a, val).valid = line.valid
        BY DEF Updated, LineType
    <3>7. \A s \in 0..(NumSets(cache) - 1), k \in 1..cache.A :
             cache'.sets[s][k].valid = cache.sets[s][k].valid
        BY <3>1, <3>5, <3>6 DEF IsCache
    <3>8. InUse(cache') = InUse(cache)
        BY <3>5, <3>7, SameUse
    <3>9. /\ cache # NULL /\ cache' # NULL /\ Penalty' = Penalty
          /\ waited' = waited
        BY <2>1, <3>1, <3>5, NotNull DEF SameShape, Penalty, waited
    <3> QED BY <2>1, <3>8, <3>9 DEF Pays, EverHeld
  <2> QED BY <2>2, <2>3
<1>7. CASE loaded
    BY <1>7 DEF loaded, Pays, waited, Penalty
<1> QED BY <1>1, <1>2, <1>3, <1>4, <1>5, <1>6, <1>7 DEF DcNext

\* The checkpoint written last is of the counts as they are.
LEMMA ReportStep ==
    ASSUME IInv, IInv', Pays, MissesCoverFills, [main]_seVars
    PROVE  MissesCoverFills'
<1>1. CASE finalize
  <2> SUFFICES ASSUME phase' = "returned", solved', Logs'
               PROVE  reported'.misses >= Fills'
      BY DEF MissesCoverFills
  <2>1. /\ UNCHANGED <<cache, counts, solved, opts, inflight, inflight_cycles>>
        /\ Logs /\ solved /\ cache # NULL
      BY <1>1 DEF finalize, dcVars, inflightVars, Logs
  <2>2. cache.d # 0 /\ reported'.misses = counts.miss \div cache.d
      BY <1>1, <2>1 DEF finalize, log_machine_state
  <2>3. IsCache(cache)
      BY <2>1 DEF IInv, DcInv
  <2> DEFINE held == EverHeld(cache, counts)
             d == cache.d
             misses == counts.miss
             quotient == misses \div d
  <2>4. /\ d \in Nat \ {0} /\ Penalty = d
        /\ counts \in Tally /\ misses \in Nat /\ misses >= Penalty * held + waited
      BY <2>1, <2>2, <2>3 DEF IsCache, Penalty, Pays, Tally
  <2>5. held \in Nat
      BY <2>3, <2>4, InUseFinite DEF EverHeld, Tally
  <2>6. waited \in Nat
      BY <2>4 DEF waited, IInv, DcInv
  <2> HIDE DEF held, d, misses
  <2>7. d * held \in Nat /\ misses >= d * held
      BY <2>4, <2>5, <2>6
  <2>8. /\ quotient \in Nat /\ misses % d \in 0..(d - 1)
        /\ misses = d * quotient + (misses % d)
      BY <2>4, Division
  <2> HIDE DEF quotient
  <2>9. quotient >= held
    <3>1. SUFFICES ASSUME quotient + 1 <= held PROVE FALSE
        BY <2>5, <2>8
    <3>2. d * (quotient + 1) <= d * held
        BY <2>4, <2>5, <2>8, <3>1, Z3
    <3>3. d * (quotient + 1) = d * quotient + d /\ d * quotient \in Nat
        BY <2>4, <2>8
    <3> QED BY <2>4, <2>7, <2>8, <3>2, <3>3
  <2>10. reported'.misses = quotient
      BY <2>2 DEF quotient, misses, d
  <2>11. Fills' = held
      BY <2>1 DEF Fills, EverHeld, held
  <2> QED BY <2>9, <2>10, <2>11
<1>2. CASE UNCHANGED seVars
    BY <1>2 DEF seVars, mainVars, dcVars, MissesCoverFills, Logs, Fills
<1>3. CASE main /\ ~finalize
  <2>1. phase' # "returned"
      BY <1>3 DEF main, handle_args, read_option, open_fails, args_end,
         init_no_cache, init_with_cache, init_dies, load_fails, load, mem_read,
         mem_write, access_step, io_write, null_write, null_read,
         checkpoint_read, log_machine_state, begin_access, init_begin, mainVars
  <2> QED BY <2>1 DEF MissesCoverFills
<1> QED BY <1>1, <1>2, <1>3

\* machine.c:195-198: for every geometry, penalty, choice of the lines to evict
\* and program, the misses of the checkpoint written last are at least the
\* blocks that were brought in.
THEOREM MissesReported == Spec => []MissesCoverFills
<1>1. EmulatorInit(Argvs, "args") => PayInv
    BY DEF EmulatorInit, Init, PayInv, Pays, MissesCoverFills
<1>2. IInv /\ IInv' /\ PayInv /\ [main]_seVars => PayInv'
  <2> SUFFICES ASSUME IInv, IInv', PayInv, [main]_seVars PROVE PayInv'
      OBVIOUS
  <2>1. Pays'
      BY MainStep, PayStep DEF IInv, PayInv
  <2> QED BY <2>1, ReportStep DEF PayInv
<1>3. PayInv => MissesCoverFills
    BY DEF PayInv
<1> QED BY <1>1, <1>2, <1>3, Invariance, PTL DEF Spec

----------------------------------------------------------------------------
(* An access of a trace.                                                   *)

\* The line a miss of csim fills.
NewLine(c, a, op) ==
    [valid |-> TRUE, tag |-> BlockOf(c, a), dirty |-> op = "WRITE",
     data |-> Zeros(c.B)]

\* A miss brings a line of zeros in.
LEMMA NewLineType ==
    ASSUME NEW c, IsCache(c), NEW a \in Addr, NEW op
    PROVE  NewLine(c, a, op) \in LineType(c.B)
<1>1. BlockOf(c, a) \in Addr
    BY BlockAddr
<1>2. Zeros(c.B) \in [1..c.B -> Bytes]
    BY SpaceAssumption DEF Zeros
<1> QED BY <1>1, <1>2 DEF NewLine, LineType

\* A miss fills way k of its set, and r is what it leaves.
FillsWay(c, a, op, m, r, k) ==
    /\ r.cache = Replace(c, SetOf(c, a), k, NewLine(c, a, op))
    /\ r.counts = CountEviction(Count(m, "miss"), c.sets[SetOf(c, a)][k])

\* What access_data makes of a miss, if the exercises are done.
LEMMA MissFills ==
    ASSUME NEW c, NEW a, NEW op, NEW m, ~Resident(c, a),
           NEW r \in access_data(TRUE, c, a, op, m)
    PROVE  \E k \in 1..c.A : FillsWay(c, a, op, m, r, k)
<1> DEFINE n == Count(m, "miss")
           s == SetOf(c, a)
<1>1. PICK x \in handle_miss(TRUE, c, a, op, Zeros(c.B), n) :
              r = [cache |-> x.cache, counts |-> x.counts]
    BY DEF access_data, check_hit, Counted
<1>2. r.cache = x.cache /\ r.counts = x.counts
    BY <1>1
<1>3. \A k : Fill(c, a, op, Zeros(c.B), k) = Replace(c, s, k, NewLine(c, a, op))
    BY DEF Fill, NewLine, Replace
<1> HIDE DEF n, s
<1>4. PICK k \in 1..c.A :
              /\ x.cache = Fill(c, a, op, Zeros(c.B), k)
              /\ x.counts = CountEviction(n, c.sets[s][k])
    BY DEF handle_miss, s
<1> QED BY <1>2, <1>3, <1>4 DEF n, s, FillsWay

\* An access leaves a cache of the same shape.
LEMMA AccessShape ==
    ASSUME NEW c, IsCache(c), NEW a \in Addr, NEW op, NEW m, NEW solution \in BOOLEAN,
           NEW r \in access_data(solution, c, a, op, m)
    PROVE  IsCache(r.cache) /\ SameShape(c, r.cache)
<1>1. CASE ~solution
  <2>1. r.cache = c
      BY <1>1 DEF access_data, check_hit, handle_miss
  <2> QED BY <2>1 DEF SameShape
<1>2. CASE solution /\ Resident(c, a)
  <2>1. r.cache = HitLine(c, a, op)
      BY <1>2 DEF access_data, check_hit
  <2> QED BY <2>1, Touched
<1>3. CASE solution /\ ~Resident(c, a)
  <2> r \in access_data(TRUE, c, a, op, m) /\ ~Resident(c, a)
      BY <1>3
  <2>1. PICK k \in 1..c.A : FillsWay(c, a, op, m, r, k)
      BY MissFills
  <2> QED BY <2>1, NewLineType, LineReplaced DEF FillsWay
<1> QED BY <1>1, <1>2, <1>3

\* An access hits or misses; a miss pays for the one block it brings in; after
\* it the block is there.
LEMMA AccessCounts ==
    ASSUME NEW c, IsCache(c), NumSets(c) > 0, NEW a \in Addr, NEW op,
           NEW m \in Tally, NEW r \in access_data(TRUE, c, a, op, m)
    PROVE  /\ r.counts \in Tally
           /\ r.counts.hit + r.counts.miss = m.hit + m.miss + 1
           /\ r.counts.miss <= m.miss + 1
           /\ Resident(c, a) => r.counts.miss = m.miss
           /\ m.miss = EverHeld(c, m) => r.counts.miss = EverHeld(r.cache, r.counts)
           /\ Resident(r.cache, a)
<1> DEFINE s == SetOf(c, a)
           n == r.cache
<1>1. s \in 0..(NumSets(c) - 1)
    BY SetInRange
<1>2. IsCache(n) /\ SameShape(c, n)
    BY AccessShape
<1>3. NumSets(n) = NumSets(c) /\ SetOf(n, a) = s /\ BlockOf(n, a) = BlockOf(c, a)
      /\ n.A = c.A
    BY <1>2 DEF SameShape, NumSets, SetOf, BlockOf
<1>4. CASE Resident(c, a)
  <2>1. n = HitLine(c, a, op) /\ r.counts = Count(m, "hit")
      BY <1>4 DEF access_data, check_hit, Counted
  <2>2. \A q \in 0..(NumSets(c) - 1), w \in 1..c.A :
           /\ n.sets[q][w].valid = c.sets[q][w].valid
           /\ n.sets[q][w].tag = c.sets[q][w].tag
      BY <2>1, Touched
  <2>3. InUse(n) = InUse(c)
      BY <1>2, <2>2, SameUse
  <2>4. Resident(n, a)
    <3> HIDE DEF n, s
    <3>1. PICK w \in 1..c.A : c.sets[s][w].valid /\ c.sets[s][w].tag = BlockOf(c, a)
        BY <1>4 DEF Resident, Holds, s
    <3>2. n.sets[s][w].valid /\ n.sets[s][w].tag = BlockOf(n, a)
        BY <1>1, <1>3, <2>2, <3>1
    <3> QED BY <1>3, <3>2 DEF Resident, Holds
  <2>5. r.counts = [m EXCEPT !.hit = @ + 1]
      BY <2>1 DEF Count
  <2>6. /\ r.counts \in Tally /\ r.counts.miss = m.miss /\ r.counts.hit = m.hit + 1
        /\ r.counts.dirty = m.dirty /\ r.counts.clean = m.clean
        /\ m.miss \in Nat /\ m.hit \in Nat
      BY <2>5 DEF Tally
  <2> QED BY <2>3, <2>4, <2>6 DEF EverHeld
<1>5. CASE ~Resident(c, a)
  <2> DEFINE line == NewLine(c, a, op)
             u == Count(m, "miss")
  <2>0. PICK k \in 1..c.A : FillsWay(c, a, op, m, r, k)
      BY <1>5, MissFills
  <2>1. n = Replace(c, s, k, line) /\ r.counts = CountEviction(u, c.sets[s][k])
      BY <2>0 DEF FillsWay
  <2>2. line \in LineType(c.B) /\ line.valid /\ line.tag = BlockOf(c, a)
      BY NewLineType DEF NewLine
  <2>3. /\ u \in Tally /\ u.miss = m.miss + 1 /\ u.hit = m.hit
        /\ u.dirty = m.dirty /\ u.clean = m.clean /\ m.miss \in Nat /\ m.hit \in Nat
      BY DEF Count, Tally
  <2> HIDE DEF line, u, s, n
  <2>4. /\ r.counts \in Tally /\ r.counts.miss = u.miss
        /\ EverHeld(n, r.counts) = EverHeld(c, u) + 1
        /\ EverHeld(c, u) \in Nat
      BY <1>1, <2>1, <2>2, <2>3, OneMore
  <2>5. r.counts.hit = u.hit
      BY <2>1, <2>3 DEF CountEviction, Count, Tally
  <2>6. EverHeld(c, u) = EverHeld(c, m)
      BY <2>3 DEF EverHeld
  <2>7. n.sets[s][k] = line
      BY <1>1, <2>1, <2>2, LineReplaced
  <2>8. Resident(n, a)
      BY <1>3, <2>2, <2>7 DEF Resident, Holds, s
  <2> QED BY <1>5, <2>3, <2>4, <2>5, <2>6, <2>8 DEF n
<1> QED BY <1>4, <1>5

----------------------------------------------------------------------------
(* The counts of a trace.                                                  *)

\* The lines of a trace with an operation, up to one.
LinesTo(f, n, op) == {k \in 1..n : f[k].op = op}

\* The accesses the lines up to one stand for.
AccessesTo(f, n) ==
    Cardinality(LinesTo(f, n, "L")) + Cardinality(LinesTo(f, n, "S"))
      + 2 * Cardinality(LinesTo(f, n, "M"))

\* One line more.
LEMMA LineCounted ==
    ASSUME NEW f, NEW n \in Nat, NEW op
    PROVE  /\ Cardinality(LinesTo(f, n, op)) \in Nat
           /\ Cardinality(LinesTo(f, n + 1, op)) =
                 Cardinality(LinesTo(f, n, op)) + (IF f[n + 1].op = op THEN 1 ELSE 0)
<1>1. IsFiniteSet(1..n)
    BY FS_Interval
<1>2. LinesTo(f, n, op) \subseteq 1..n
    BY DEF LinesTo
<1>3. IsFiniteSet(LinesTo(f, n, op)) /\ Cardinality(LinesTo(f, n, op)) \in Nat
    BY <1>1, <1>2, FS_Subset, FS_CardinalityType
<1>4. CASE f[n + 1].op = op
  <2>1. LinesTo(f, n + 1, op) = LinesTo(f, n, op) \cup {n + 1}
      BY <1>4 DEF LinesTo
  <2>2. n + 1 \notin LinesTo(f, n, op)
      BY DEF LinesTo
  <2>3. Cardinality(LinesTo(f, n, op) \cup {n + 1})
          = Cardinality(LinesTo(f, n, op)) + 1
      BY <1>3, <2>2, FS_AddElement, Zenon
  <2> QED BY <1>3, <1>4, <2>1, <2>3
<1>5. CASE f[n + 1].op # op
  <2>1. LinesTo(f, n + 1, op) = LinesTo(f, n, op)
      BY <1>5 DEF LinesTo
  <2> QED BY <1>3, <1>5, <2>1
<1> QED BY <1>4, <1>5

\* What one line more adds to the accesses.
LEMMA AccessesCounted ==
    ASSUME NEW f, NEW n \in Nat
    PROVE  /\ AccessesTo(f, n) \in Nat
           /\ f[n + 1].op \in {"L", "S"} => AccessesTo(f, n + 1) = AccessesTo(f, n) + 1
           /\ f[n + 1].op = "M" => AccessesTo(f, n + 1) = AccessesTo(f, n) + 2
           /\ f[n + 1].op \notin {"L", "S", "M"} => AccessesTo(f, n + 1) = AccessesTo(f, n)
<1> DEFINE C(m, op) == Cardinality(LinesTo(f, m, op))
<1>1. \A op \in {"L", "S", "M"} :
         /\ C(n, op) \in Nat
         /\ C(n + 1, op) = C(n, op) + (IF f[n + 1].op = op THEN 1 ELSE 0)
    BY LineCounted
<1>2. \A m : AccessesTo(f, m) = C(m, "L") + C(m, "S") + 2 * C(m, "M")
    BY DEF AccessesTo
<1> HIDE DEF C
<1> QED BY <1>1, <1>2

\* Nothing is replayed yet, and nothing replayed costs nothing.
LEMMA NothingReplayed == \A f : AccessesTo(f, 0) = 0
<1>1. \A f, op : LinesTo(f, 0, op) = {}
    BY DEF LinesTo
<1> QED BY <1>1, FS_EmptySet DEF AccessesTo

Half == IF modifying THEN 1 ELSE 0

\* What the counts make up, of a cache that has a set.  A modify under way has
\* brought in the block its store will hit.
Accounted ==
    /\ sim_counts \in Tally
    /\ sim_counts.hit + sim_counts.miss = AccessesTo(trace, replayed) + Half
    /\ sim_counts.miss <= replayed + Half
    /\ sim_counts.miss = EverHeld(sim_cache, sim_counts)
    /\ modifying => Resident(sim_cache, entry.addr)

CsimInv ==
    /\ args \in CsimArgs /\ trace \in Traces /\ sim_solved \in BOOLEAN
    /\ sim_phase = "start" => /\ sim_counts = NoCounts
                              /\ replayed = 0 /\ modifying = FALSE
    /\ sim_phase = "replay" =>
          /\ IsCache(sim_cache)
          /\ replayed \in 0..Len(trace) /\ modifying \in BOOLEAN
          /\ modifying => replayed < Len(trace) /\ entry.op = "M"
          /\ (sim_solved /\ NumSets(sim_cache) > 0) => Accounted

\* A cache is made for the trace.
LEMMA StartInv == CsimInv /\ start => CsimInv'
<1> SUFFICES ASSUME CsimInv, start PROVE CsimInv'
    OBVIOUS
<1>1. /\ args \in CsimArgs /\ trace \in Traces /\ sim_solved \in BOOLEAN
      /\ sim_counts = NoCounts /\ replayed = 0 /\ modifying = FALSE
      /\ UNCHANGED <<sim_solved, sim_counts, args, trace, replayed, modifying>>
      /\ ~Missing
    BY DEF CsimInv, start
<1>2. CASE args.A * args.B = 0
    BY <1>1, <1>2 DEF CsimInv, start
<1>3. CASE args.A * args.B # 0
  <2>1. /\ sim_phase' = "replay"
        /\ sim_cache' = create_cache(args.A, args.B, args.C, 0)
      BY <1>3 DEF start
  <2>2. args.A \in Addr /\ args.B \in Addr /\ args.C \in Addr
      BY <1>1, CsimAssumption DEF Missing
  <2>3. args.A \in Nat \ {0} /\ args.B \in 1..AddrSpace /\ args.C \in Nat
    <3>1. args.A \in Nat /\ args.B \in Nat /\ args.C \in Nat /\ args.B < AddrSpace
        BY <2>2, SpaceAssumption DEF Addr
    <3>2. \A b \in Nat : 0 * b = 0 /\ b * 0 = 0
        OBVIOUS
    <3>3. args.A # 0 /\ args.B # 0
        BY <1>3, <3>1, <3>2
    <3> QED BY <3>1, <3>3, SpaceAssumption
  <2>4. /\ IsCache(sim_cache')
        /\ \A s \in 0..(NumSets(sim_cache') - 1), k \in 1..sim_cache'.A :
              ~sim_cache'.sets[s][k].valid
      BY <2>1, <2>3, Created
  <2>5. InUse(sim_cache') = {}
      BY <2>4 DEF InUse
  <2>6. EverHeld(sim_cache', sim_counts') = 0
    <3>1. Cardinality(InUse(sim_cache')) = 0
        BY <2>5, FS_EmptySet
    <3> QED BY <1>1, <3>1 DEF EverHeld, NoCounts
  <2>7. Len(trace) \in Nat
      BY <1>1, CsimAssumption
  <2>8. AccessesTo(trace', 0) = 0
      BY NothingReplayed
  <2>9. Accounted'
      BY <1>1, <2>6, <2>8 DEF Accounted, Half, Tally, NoCounts
  <2>10. replayed' \in 0..Len(trace') /\ modifying' = FALSE
      BY <1>1, <2>7
  <2> QED BY <1>1, <2>1, <2>4, <2>9, <2>10 DEF CsimInv
<1> QED BY <1>2, <1>3

\* An access of the trace is replayed.
LEMMA ReplayInv == CsimInv /\ replay_access => CsimInv'
<1> SUFFICES ASSUME CsimInv, replay_access PROVE CsimInv'
    OBVIOUS
<1> DEFINE op == Ops(entry.op)
           n == IF modifying THEN 2 ELSE 1
<1>1. /\ args \in CsimArgs /\ trace \in Traces /\ sim_solved \in BOOLEAN
      /\ IsCache(sim_cache)
      /\ replayed \in 0..Len(trace) /\ modifying \in BOOLEAN
      /\ modifying => entry.op = "M"
      /\ (sim_solved /\ NumSets(sim_cache) > 0) => Accounted
      /\ sim_phase = "replay" /\ sim_phase' = "replay"
      /\ UNCHANGED <<sim_solved, args, trace>>
      /\ replayed < Len(trace) /\ op # <<>>
    BY DEF CsimInv, replay_access, InTrace
<1>2. /\ Len(trace) \in Nat /\ DOMAIN trace = 1..Len(trace)
      /\ replayed \in Nat /\ replayed + 1 \in 1..Len(trace)
    BY <1>1, CsimAssumption
<1>3. entry.addr \in Addr
    BY <1>1, <1>2, CsimAssumption DEF entry
<1>4. IF n < Len(op) THEN modifying' = TRUE /\ UNCHANGED replayed
      ELSE modifying' = FALSE /\ replayed' = replayed + 1
    BY DEF replay_access
<1>5. \/ /\ entry.op \in {"L", "S"} /\ modifying = FALSE /\ modifying' = FALSE
         /\ replayed' = replayed + 1
      \/ /\ entry.op = "M" /\ modifying = FALSE /\ modifying' = TRUE
         /\ replayed' = replayed
      \/ /\ entry.op = "M" /\ modifying = TRUE /\ modifying' = FALSE
         /\ replayed' = replayed + 1
  <2>1. CASE entry.op \in {"L", "S"}
    <3>1. modifying = FALSE /\ n = 1
        BY <1>1, <2>1
    <3>2. Len(op) = 1
        BY <2>1 DEF Ops
    <3> HIDE DEF op, n
    <3>3. modifying' = FALSE
        BY <1>4, <3>1, <3>2
    <3> QED BY <1>4, <2>1, <3>1, <3>3
  <2>2. CASE entry.op = "M"
    <3>1. Len(op) = 2 /\ (IF modifying THEN n = 2 ELSE n = 1)
        BY <2>2 DEF Ops
    <3> HIDE DEF op, n
    <3>2. CASE modifying = TRUE
      <4>1. modifying' = FALSE
          BY <1>4, <3>1, <3>2
      <4> QED BY <1>4, <2>2, <3>2, <4>1
    <3>3. CASE modifying = FALSE
      <4>1. modifying' = TRUE
          BY <1>4, <3>1, <3>3
      <4> QED BY <1>4, <2>2, <3>3, <4>1
    <3> QED BY <1>1, <3>2, <3>3
  <2>3. entry.op \in {"L", "S", "M"}
      BY <1>1 DEF Ops
  <2> QED BY <2>1, <2>2, <2>3
<1>6. PICK r \in access_data(sim_solved, sim_cache, entry.addr, op[n], sim_counts) :
              sim_cache' = r.cache /\ sim_counts' = r.counts
    BY DEF replay_access, access
<1> HIDE DEF op, n
<1>7. IsCache(sim_cache') /\ NumSets(sim_cache') = NumSets(sim_cache)
  <2>1. IsCache(r.cache) /\ SameShape(sim_cache, r.cache)
      BY <1>1, <1>3, AccessShape
  <2> QED BY <1>6, <2>1 DEF SameShape, NumSets
<1>8. entry' = entry \/ modifying' = FALSE
    BY <1>1, <1>5 DEF entry
<1>9. ASSUME sim_solved, NumSets(sim_cache) > 0
      PROVE  Accounted'
  <2>1. Accounted /\ sim_solved = TRUE /\ sim_counts \in Tally
      BY <1>1, <1>9 DEF Accounted
  <2>2. r \in access_data(TRUE, sim_cache, entry.addr, op[n], sim_counts)
      BY <1>6, <2>1
  <2>3. /\ r.counts \in Tally
        /\ r.counts.hit + r.counts.miss = sim_counts.hit + sim_counts.miss + 1
        /\ r.counts.miss <= sim_counts.miss + 1
        /\ Resident(sim_cache, entry.addr) => r.counts.miss = sim_counts.miss
        /\ sim_counts.miss = EverHeld(sim_cache, sim_counts)
              => r.counts.miss = EverHeld(r.cache, r.counts)
        /\ Resident(r.cache, entry.addr)
      BY <1>1, <1>3, <1>9, <2>1, <2>2, AccessCounts
  <2>4. /\ sim_counts'.hit + sim_counts'.miss = sim_counts.hit + sim_counts.miss + 1
        /\ sim_counts'.miss <= sim_counts.miss + 1
        /\ modifying => sim_counts'.miss = sim_counts.miss
        /\ sim_counts' \in Tally
        /\ sim_counts'.miss = EverHeld(sim_cache', sim_counts')
        /\ Resident(sim_cache', entry.addr)
      BY <1>6, <2>1, <2>3 DEF Accounted
  <2>5. modifying' => Resident(sim_cache', entry'.addr)
      BY <1>8, <2>4
  <2>6. /\ AccessesTo(trace, replayed) \in Nat
        /\ entry.op \in {"L", "S"}
              => AccessesTo(trace, replayed + 1) = AccessesTo(trace, replayed) + 1
        /\ entry.op = "M"
              => AccessesTo(trace, replayed + 1) = AccessesTo(trace, replayed) + 2
      BY <1>2, AccessesCounted DEF entry
  <2>7. /\ sim_counts.hit + sim_counts.miss = AccessesTo(trace, replayed) + Half
        /\ sim_counts.miss <= replayed + Half
        /\ sim_counts.miss \in Nat /\ sim_counts'.miss \in Nat
      BY <2>1, <2>4 DEF Accounted, Tally
  <2>8. /\ sim_counts'.hit + sim_counts'.miss = AccessesTo(trace', replayed') + Half'
        /\ sim_counts'.miss <= replayed' + Half'
      BY <1>1, <1>2, <1>5, <2>4, <2>6, <2>7 DEF Half
  <2> QED BY <2>4, <2>5, <2>8 DEF Accounted
<1>10. replayed' \in 0..Len(trace')
    BY <1>1, <1>2, <1>5
<1>11. modifying' => replayed' < Len(trace') /\ entry'.op = "M"
    BY <1>1, <1>5, <1>8
<1> QED BY <1>1, <1>5, <1>7, <1>9, <1>10, <1>11 DEF CsimInv

\* The other steps of csim.
LEMMA CsimStep == CsimInv /\ [CsimNext]_csimVars => CsimInv'
<1> SUFFICES ASSUME CsimInv, [CsimNext]_csimVars PROVE CsimInv'
    OBVIOUS
<1>1. CASE print_usage
    BY <1>1 DEF CsimInv, print_usage
<1>2. CASE start
    BY <1>2, StartInv
<1>3. CASE open_trace_fails
    BY <1>3 DEF CsimInv, open_trace_fails
<1>4. CASE replay_access
    BY <1>4, ReplayInv
<1>5. CASE skip_line
  <2>1. /\ UNCHANGED <<sim_solved, sim_cache, sim_counts, args, trace, modifying,
                       sim_phase>>
        /\ sim_phase = "replay" /\ replayed < Len(trace) /\ Ops(entry.op) = <<>>
        /\ replayed' = replayed + 1
      BY <1>5 DEF skip_line, InTrace
  <2>2. Len(trace) \in Nat
      BY CsimAssumption DEF CsimInv
  <2>3. replayed \in Nat /\ replayed' \in 0..Len(trace')
      BY <2>1, <2>2 DEF CsimInv
  <2>4. entry.op \notin {"L", "S", "M"} /\ modifying = FALSE
      BY <2>1 DEF Ops, CsimInv
  <2>5. AccessesTo(trace, replayed + 1) = AccessesTo(trace, replayed)
      BY <2>3, <2>4, AccessesCounted DEF entry
  <2>6. Accounted => Accounted'
      BY <2>1, <2>3, <2>4, <2>5 DEF Accounted, Half, Tally
  <2> QED BY <2>1, <2>3, <2>4, <2>6 DEF CsimInv
<1>6. CASE print_summary
    BY <1>6 DEF CsimInv, print_summary
<1>7. CASE UNCHANGED csimVars
    BY <1>7 DEF csimVars, CsimInv, Accounted, Half, entry
<1> QED BY <1>1, <1>2, <1>3, <1>4, <1>5, <1>6, <1>7 DEF CsimNext

\* csim's counts make up the trace it replays: hits and misses its accesses, and
\* misses the blocks held and evicted (csim.c:73-87).
THEOREM TraceCounted == CsimSpec => []TraceAccounted
<1>1. CsimInit => CsimInv
    BY DEF CsimInit, CsimInv
<1>2. CsimInv => TraceAccounted
  <2> SUFFICES ASSUME CsimInv, sim_phase = "replay", sim_solved,
                      NumSets(sim_cache) > 0
               PROVE  TraceAccounted
      BY DEF TraceAccounted
  <2>1. Accounted
      BY DEF CsimInv
  <2>2. \A op : LinesOf(op) = LinesTo(trace, replayed, op)
      BY DEF LinesOf, LinesTo
  <2> QED BY <2>1, <2>2 DEF TraceAccounted, Accounted, AccessesTo, Half, EverHeld
<1> QED BY <1>1, <1>2, CsimStep, PTL DEF CsimSpec

----------------------------------------------------------------------------
(* Sums, as a loop that adds makes them.  What is needed of the natural     *)
(* numbers is that a set of them has a least member.                       *)

Less == {p \in Nat \X Nat : p[1] < p[2]}

\* A set of natural numbers that is not empty has a least one.
LEMMA Least ==
    ASSUME NEW T \in SUBSET Nat, T # {}
    PROVE  \E x \in T : \A y \in T : x <= y
<1>1. IsWellFoundedOn(Less, Nat)
    BY NatLessThanWellFounded DEF OpToRel, Less
<1>2. PICK x \in T : \A y \in T : ~(<<y, x>> \in Less)
    BY <1>1, WFMin
<1>3. ASSUME NEW y \in T PROVE x <= y
  <2>1. ~(<<y, x>> \in Less) /\ y \in Nat /\ x \in Nat
      BY <1>2
  <2> QED BY <2>1 DEF Less
<1> QED BY <1>3

\* g adds up f to n.
AddsUp(g, f, n) == g = [k \in 0..n |-> IF k = 0 THEN 0 ELSE g[k - 1] + f[k]]

\* A loop of n turns adds up.
LEMMA LoopExists ==
    ASSUME NEW f, NEW n \in Nat
    PROVE  \E g : AddsUp(g, f, n)
<1> DEFINE T == {k \in Nat : ~\E g : AddsUp(g, f, k)}
<1> SUFFICES ASSUME T # {} PROVE FALSE
    OBVIOUS
<1>1. PICK x \in T : \A y \in T : x <= y
    BY Least
<1>2. x \in Nat /\ ~\E g : AddsUp(g, f, x)
    OBVIOUS
<1>3. CASE x = 0
  <2>1. AddsUp([k \in 0..0 |-> 0], f, 0)
      BY DEF AddsUp
  <2> QED BY <1>2, <1>3, <2>1
<1>4. CASE x # 0
  <2>1. x - 1 \in Nat /\ ~(x <= x - 1)
      BY <1>2, <1>4
  <2>2. x - 1 \notin T
      BY <1>1, <2>1
  <2>3. PICK g : AddsUp(g, f, x - 1)
      BY <2>1, <2>2
  <2> DEFINE h == [k \in 0..x |-> IF k < x THEN g[k] ELSE g[x - 1] + f[x]]
  <2>4. ASSUME NEW k \in 0..x
        PROVE  h[k] = IF k = 0 THEN 0 ELSE h[k - 1] + f[k]
    <3>1. CASE k = x
        BY <1>2, <1>4, <3>1
    <3>2. CASE k < x
      <4>1. k \in 0..(x - 1)
          BY <1>2, <3>2
      <4>2. g[k] = IF k = 0 THEN 0 ELSE g[k - 1] + f[k]
          BY <2>3, <4>1 DEF AddsUp
      <4>3. h[k] = g[k]
          BY <3>2
      <4>4. k # 0 => h[k - 1] = g[k - 1]
          BY <1>2, <3>2
      <4> QED BY <4>2, <4>3, <4>4
    <3> QED BY <1>2, <3>1, <3>2
  <2>5. AddsUp(h, f, x)
    <3>1. h = [k \in 0..x |-> h[k]]
        OBVIOUS
    <3> HIDE DEF h
    <3> QED BY <2>4, <3>1 DEF AddsUp
  <2> QED BY <1>2, <2>5
<1> QED BY <1>3, <1>4

\* Two loops agree as far as both go.
LEMMA LoopsAgree ==
    ASSUME NEW f, NEW k \in Nat, NEW l \in Nat, NEW g, NEW h,
           AddsUp(g, f, k), AddsUp(h, f, l), NEW n \in Nat, n <= k, n <= l
    PROVE  g[n] = h[n]
<1> DEFINE T == {x \in Nat : x <= k /\ x <= l /\ g[x] # h[x]}
<1> SUFFICES ASSUME T # {} PROVE FALSE
    OBVIOUS
<1>1. PICK x \in T : \A y \in T : x <= y
    BY Least
<1>2. x \in Nat /\ x \in 0..k /\ x \in 0..l /\ g[x] # h[x]
    OBVIOUS
<1>3. /\ g[x] = IF x = 0 THEN 0 ELSE g[x - 1] + f[x]
      /\ h[x] = IF x = 0 THEN 0 ELSE h[x - 1] + f[x]
    BY <1>2 DEF AddsUp
<1>4. x # 0 /\ g[x - 1] # h[x - 1]
    BY <1>2, <1>3
<1>5. x - 1 \in T /\ ~(x <= x - 1)
    BY <1>2, <1>4
<1> QED BY <1>1, <1>5

\* What the definition of Sums says.
LEMMA SumsAdd ==
    ASSUME NEW f
    PROVE  /\ Sums(f)[0] = 0
           /\ \A k \in Nat : Sums(f)[k + 1] = Sums(f)[k] + f[k + 1]
<1> DEFINE upto(n) == CHOOSE g : AddsUp(g, f, n)
           sum == [n \in Nat |-> upto(n)[n]]
<1>1. ASSUME NEW n \in Nat PROVE AddsUp(upto(n), f, n)
    BY LoopExists
<1>2. ASSUME NEW k \in Nat
      PROVE  sum[k] = IF k = 0 THEN 0 ELSE sum[k - 1] + f[k]
  <2>1. AddsUp(upto(k), f, k)
      BY <1>1
  <2> HIDE DEF upto
  <2>2. upto(k)[k] = IF k = 0 THEN 0 ELSE upto(k)[k - 1] + f[k]
      BY <2>1 DEF AddsUp
  <2>3. ASSUME k # 0 PROVE upto(k)[k - 1] = sum[k - 1]
    <3>1. k - 1 \in Nat /\ k - 1 <= k
        BY <2>3
    <3>2. AddsUp(upto(k - 1), f, k - 1)
        BY <1>1, <3>1
    <3>3. upto(k)[k - 1] = upto(k - 1)[k - 1]
        BY <2>1, <3>1, <3>2, LoopsAgree
    <3> QED BY <3>1, <3>3
  <2> QED BY <2>2, <2>3
<1>3. sum = [n \in Nat |-> sum[n]]
    OBVIOUS
<1> HIDE DEF sum
<1>4. sum = [k \in Nat |-> IF k = 0 THEN 0 ELSE sum[k - 1] + f[k]]
    BY <1>2, <1>3
<1>5. Sums(f) = [k \in Nat |-> IF k = 0 THEN 0 ELSE Sums(f)[k - 1] + f[k]]
    BY <1>4, Zenon DEF Sums
<1>6. \A k \in Nat : Sums(f)[k] = IF k = 0 THEN 0 ELSE Sums(f)[k - 1] + f[k]
    BY <1>5
<1>7. ASSUME NEW k \in Nat PROVE Sums(f)[k + 1] = Sums(f)[k] + f[k + 1]
  <2>1. k + 1 \in Nat /\ k + 1 # 0 /\ (k + 1) - 1 = k
      OBVIOUS
  <2> QED BY <1>6, <2>1
<1> QED BY <1>6, <1>7

\* A sum bounded term by term.
Bounded(f, g, c, n) ==
    LET sf == Sums(f)[n]
        sg == Sums(g)[n]
    IN /\ sf \in Nat /\ sg \in Nat /\ sf <= c * sg
       /\ sf = c * sg <=> \A k \in 1..n : f[k] = c * g[k]

\* If every f[k] is at most c * g[k], so are the sums, and they are equal if
\* and only if all terms are.
LEMMA SumBounded ==
    ASSUME NEW n \in Nat, NEW c \in Nat, NEW f, NEW g,
           \A k \in 1..n : f[k] \in Nat /\ g[k] \in Nat /\ f[k] <= c * g[k]
    PROVE  Bounded(f, g, c, n)
<1> DEFINE T == {k \in Nat : k <= n /\ ~Bounded(f, g, c, k)}
<1>1. CASE T = {}
  <2>1. n \notin T /\ n <= n
      BY <1>1
  <2> QED BY <2>1
<1>2. CASE T # {}
  <2>1. PICK x \in T : \A y \in T : x <= y
      BY <1>2, Least
  <2>2. x \in Nat /\ x <= n /\ ~Bounded(f, g, c, x)
      OBVIOUS
  <2>3. CASE x = 0
    <3>1. Sums(f)[0] = 0 /\ Sums(g)[0] = 0
        BY SumsAdd
    <3>2. c * 0 = 0
        OBVIOUS
    <3> QED BY <2>2, <2>3, <3>1, <3>2 DEF Bounded
  <2>4. CASE x # 0
    <3>1. PICK y \in Nat : x = y + 1
      <4>1. x - 1 \in Nat /\ x = (x - 1) + 1
          BY <2>2, <2>4
      <4> QED BY <4>1
    <3>2. Bounded(f, g, c, y)
      <4>1. y <= n /\ ~(x <= y)
          BY <2>2, <3>1
      <4>2. y \notin T
          BY <2>1, <4>1
      <4> QED BY <4>1, <4>2
    <3> DEFINE sf == Sums(f)[y]  sg == Sums(g)[y]  a == f[x]  b == g[x]
    <3>3. Sums(f)[x] = sf + a /\ Sums(g)[x] = sg + b
        BY <3>1, SumsAdd
    <3>4. a \in Nat /\ b \in Nat /\ a <= c * b
      <4>1. x \in 1..n
          BY <2>2, <2>4
      <4> QED BY <4>1
    <3>5. /\ sf \in Nat /\ sg \in Nat /\ sf <= c * sg
          /\ sf = c * sg <=> \A k \in 1..y : f[k] = c * g[k]
        BY <3>2 DEF Bounded
    <3>6. \A k : k \in 1..x <=> k \in 1..y \/ k = x
        BY <3>1
    <3>7. (\A k \in 1..x : f[k] = c * g[k])
             <=> (\A k \in 1..y : f[k] = c * g[k]) /\ a = c * b
        BY <3>6
    <3> HIDE DEF sf, sg, a, b
    <3>8. c * (sg + b) = c * sg + c * b /\ c * sg \in Nat /\ c * b \in Nat
        BY <3>4, <3>5
    <3>9. \A v, w \in Nat : v = c * sg /\ w = c * b =>
             /\ sf + a <= v + w
             /\ (sf + a = v + w) <=> (sf = v /\ a = w)
        BY <3>4, <3>5
    <3>10. Bounded(f, g, c, x)
        BY <3>3, <3>4, <3>5, <3>7, <3>8, <3>9 DEF Bounded
    <3> QED BY <2>2, <3>10
  <2> QED BY <2>3, <2>4
<1> QED BY <1>1, <1>2

----------------------------------------------------------------------------
(* The score.                                                              *)

\* Dividing a number by one that is at least as large.
LEMMA Quotient ==
    /\ \A a \in Nat, b \in Nat \ {0} : a <= b =>
          a \div b \in {0, 1} /\ (a \div b = 1 => a = b)
    /\ \A a \in Nat, b \in Nat \ {0} : a <= 100 * b =>
          a \div b \in 0..100 /\ (a \div b = 100 => a = 100 * b)
<1>1. \A a \in Nat, b \in Nat \ {0} :
         /\ a \div b \in Nat /\ a = (b * (a \div b)) + (a % b)
         /\ a % b \in Nat
    BY Z3
<1>2. ASSUME NEW a \in Nat, NEW b \in Nat \ {0}, NEW c \in Nat, a <= c * b
      PROVE  a \div b <= c /\ (a \div b = c => a = c * b)
  <2> DEFINE q == a \div b
             r == a % b
  <2>1. q \in Nat /\ r \in Nat /\ a = (b * q) + r
      BY <1>1
  <2> HIDE DEF q, r
  <2>2. q <= c
    <3> SUFFICES ASSUME c + 1 <= q PROVE FALSE
        BY <2>1
    <3>1. b * (c + 1) <= b * q
        BY <2>1, Z3
    <3>2. b * (c + 1) = (c * b) + b
        BY Z3
    <3>3. b * q \in Nat /\ c * b \in Nat
        BY <2>1
    <3> QED BY <1>2, <2>1, <3>1, <3>2, <3>3
  <2>3. q = c => a = c * b
    <3>1. c * b \in Nat /\ b * c = c * b
        OBVIOUS
    <3> QED BY <1>2, <2>1, <3>1
  <2> QED BY <2>2, <2>3 DEF q
<1>3. ASSUME NEW a \in Nat, NEW b \in Nat \ {0}, a <= b
      PROVE  a \div b \in {0, 1} /\ (a \div b = 1 => a = b)
  <2>1. a <= 1 * b /\ 1 * b = b
      BY <1>3
  <2>2. a \div b <= 1 /\ (a \div b = 1 => a = 1 * b) /\ a \div b \in Nat
      BY <1>1, <1>2, <2>1
  <2> QED BY <2>1, <2>2
<1>4. ASSUME NEW a \in Nat, NEW b \in Nat \ {0}, a <= 100 * b
      PROVE  a \div b \in 0..100 /\ (a \div b = 100 => a = 100 * b)
  <2>1. a \div b <= 100 /\ (a \div b = 100 => a = 100 * b) /\ a \div b \in Nat
      BY <1>1, <1>2, <1>4
  <2> QED BY <2>1
<1> QED BY <1>3, <1>4

\* All tests have points.
Scored == \A n \in DOMAIN bench.tests : judged[n].points \in 0..100

\* A directory's share is at most 100, and 100 only for all points of all tests.
LEMMA ShareBounded ==
    ASSUME bench \in Benches, Scored, NEW d \in DOMAIN bench.weights
    PROVE  /\ Share(d) \in 0..100
           /\ Share(d) = 100 => \A n \in DOMAIN bench.tests :
                 bench.tests[n].dir = d => judged[n].points = 100
<1> DEFINE T == DOMAIN bench.tests
           N == Len(bench.tests)
           In(n) == bench.tests[n].dir = d
           f == [n \in T |-> IF In(n) THEN [k \in T |-> judged[k].points][n] ELSE 0]
           g == [n \in T |-> IF In(n) THEN [k \in T |-> 1][n] ELSE 0]
           z == [n \in T |-> 0]
           got_d == Sums(f)[N]
           num == Sums(g)[N]
<1>1. /\ N \in Nat /\ T = 1..N
      /\ \E n \in T : In(n)
    BY TestbenchAssumption
<1>2. \A n \in T : /\ f[n] = IF In(n) THEN judged[n].points ELSE 0
                   /\ g[n] = IF In(n) THEN 1 ELSE 0
                   /\ z[n] = 0
    OBVIOUS
<1>3. Share(d) = IF bench.week = 1 THEN 100 * (got_d \div (100 * num))
                 ELSE got_d \div num
    BY DEF Share, OfDir
<1> HIDE DEF f, g, z
<1>4. \A n \in 1..N : f[n] \in Nat /\ g[n] \in Nat /\ f[n] <= 100 * g[n]
  <2>1. \A n \in T : judged[n].points \in 0..100
      BY DEF Scored
  <2> HIDE DEF T, In
  <2> SUFFICES ASSUME NEW n \in 1..N
               PROVE  f[n] \in Nat /\ g[n] \in Nat /\ f[n] <= 100 * g[n]
      OBVIOUS
  <2>2. n \in T
      BY <1>1
  <2>3. CASE In(n)
    <3>1. f[n] = judged[n].points /\ g[n] = 1
        BY <1>2, <2>2, <2>3
    <3>2. judged[n].points \in 0..100
        BY <2>1, <2>2
    <3>3. \A v \in 0..100 : v \in Nat /\ v <= 100 * 1
        OBVIOUS
    <3>4. 1 \in Nat
        OBVIOUS
    <3> QED BY <3>1, <3>2, <3>3, <3>4, Zenon
  <2>4. CASE ~In(n)
    <3>1. f[n] = 0 /\ g[n] = 0
        BY <1>2, <2>2, <2>4
    <3> QED BY <3>1
  <2> QED BY <2>3, <2>4
<1>5. Bounded(f, g, 100, N)
    BY <1>1, <1>4, SumBounded
<1>6. num # 0
  <2>1. \A n \in 1..N : z[n] \in Nat /\ g[n] \in Nat /\ z[n] <= 0 * g[n] /\ z[n] <= 1 * g[n]
      BY <1>1, <1>2, <1>4
  <2>2. Bounded(z, g, 0, N) /\ Bounded(z, g, 1, N)
      BY <1>1, <2>1, SumBounded
  <2>3. Sums(z)[N] = 0
    <3>1. Sums(z)[N] \in Nat /\ Sums(z)[N] <= 0 * num /\ num \in Nat
        BY <2>2 DEF Bounded
    <3> QED BY <3>1
  <2>4. PICK n \in 1..N : In(n)
      BY <1>1
  <2>5. z[n] # 1 * g[n]
      BY <1>1, <1>2, <2>4
  <2>6. Sums(z)[N] # 1 * num
      BY <2>2, <2>5 DEF Bounded
  <2> QED BY <2>3, <2>6
<1> HIDE DEF got_d, num, N, In, T
<1>7. /\ got_d \in Nat /\ num \in Nat \ {0} /\ got_d <= 100 * num
      /\ got_d = 100 * num => \A n \in 1..N : f[n] = 100 * g[n]
    BY <1>5, <1>6 DEF Bounded, got_d, num
<1>8. got_d = 100 * num => \A n \in T : In(n) => judged[n].points = 100
    BY <1>1, <1>2, <1>7
<1>9. CASE bench.week = 1
  <2>1. 100 * num \in Nat \ {0}
      BY <1>7
  <2>2. /\ got_d \div (100 * num) \in {0, 1}
        /\ got_d \div (100 * num) = 1 => got_d = 100 * num
      BY <1>7, <2>1, Quotient
  <2>3. Share(d) = 100 * (got_d \div (100 * num))
      BY <1>3, <1>9
  <2> QED BY <1>8, <2>2, <2>3 DEF T, In
<1>10. CASE bench.week # 1
  <2>1. /\ got_d \div num \in 0..100
        /\ got_d \div num = 100 => got_d = 100 * num
      BY <1>7, Quotient
  <2>2. Share(d) = got_d \div num
      BY <1>3, <1>10
  <2> QED BY <1>8, <2>1, <2>2 DEF T, In
<1> QED BY <1>9, <1>10

\* The full score is that of a bench all of whose tests have all points.
LEMMA FullTotal ==
    ASSUME bench \in Benches, Scored,
           Total([d \in DOMAIN bench.weights |-> Share(d)])
             = Total([d \in DOMAIN bench.weights |-> 100])
    PROVE  \A n \in DOMAIN bench.tests : judged[n].points = 100
<1> DEFINE D == DOMAIN bench.weights
           W == Len(bench.weights)
           w == bench.weights
           f == [d \in D |-> w[d] * [k \in D |-> Share(k)][d]]
           h == [d \in D |-> w[d] * [k \in D |-> 100][d]]
<1>1. W \in Nat /\ D = 1..W /\ \A d \in D : w[d] \in Nat \ {0}
    BY TestbenchAssumption
<1>2. Sums(f)[W] = Sums(h)[W]
    BY DEF Total
<1>3. \A d \in D : f[d] = w[d] * Share(d) /\ h[d] = w[d] * 100
    OBVIOUS
<1> HIDE DEF f, h
<1>4. \A d \in D : Share(d) \in 0..100
    BY ShareBounded
<1>5. \A x \in Nat \ {0}, y \in 0..100 :
         /\ x * y \in Nat /\ x * y <= 100 * x
         /\ (x * y = 100 * x => y = 100)
         /\ x * 100 = 100 * x /\ 100 * x \in Nat
    BY Z3
<1>6. \A k \in 1..W : f[k] \in Nat /\ w[k] \in Nat /\ f[k] <= 100 * w[k]
  <2> SUFFICES ASSUME NEW k \in 1..W
               PROVE  f[k] \in Nat /\ w[k] \in Nat /\ f[k] <= 100 * w[k]
      OBVIOUS
  <2>1. /\ f[k] = w[k] * Share(k) /\ w[k] \in Nat \ {0}
        /\ Share(k) \in 0..100
      BY <1>1, <1>3, <1>4
  <2> HIDE DEF w
  <2>2. w[k] * Share(k) \in Nat /\ w[k] * Share(k) <= 100 * w[k]
      BY <1>5, <2>1, Zenon
  <2> QED BY <2>1, <2>2
<1>7. \A k \in 1..W : h[k] \in Nat /\ h[k] = 100 * w[k] /\ h[k] <= 100 * w[k]
    BY <1>1, <1>3, <1>5
<1>8. Bounded(f, w, 100, W) /\ Bounded(h, w, 100, W)
  <2> HIDE DEF w, D, W
  <2>1. 100 \in Nat /\ W \in Nat
      BY <1>1
  <2>2. Bounded(f, w, 100, W)
      BY <1>6, <2>1, SumBounded, Zenon
  <2>3. \A k \in 1..W : h[k] \in Nat /\ w[k] \in Nat /\ h[k] <= 100 * w[k]
      BY <1>6, <1>7
  <2>4. Bounded(h, w, 100, W)
      BY <2>1, <2>3, SumBounded, Zenon
  <2> QED BY <2>2, <2>4
<1>9. Sums(h)[W] = 100 * Sums(w)[W]
    BY <1>7, <1>8 DEF Bounded
<1>10. \A k \in 1..W : f[k] = 100 * w[k]
    BY <1>2, <1>8, <1>9 DEF Bounded
<1>11. \A d \in D : Share(d) = 100
  <2> SUFFICES ASSUME NEW d \in D PROVE Share(d) = 100
      OBVIOUS
  <2>1. /\ f[d] = w[d] * Share(d) /\ w[d] \in Nat \ {0}
        /\ Share(d) \in 0..100 /\ f[d] = 100 * w[d]
      BY <1>1, <1>3, <1>4, <1>10
  <2> HIDE DEF w
  <2> QED BY <1>5, <2>1
<1>12. ASSUME NEW n \in DOMAIN bench.tests PROVE judged[n].points = 100
  <2>1. bench.tests[n].dir \in D
      BY TestbenchAssumption
  <2> QED BY <1>11, <2>1, ShareBounded
<1> QED BY <1>12

----------------------------------------------------------------------------
(* Points are for the runs of the test.                                    *)

FileType == [by : {"none", "before"} \cup Programs, test : Nat,
             data : Results \cup {<<>>}]
Verdicts == [points : 0..100, own : BOOLEAN, died : BOOLEAN]

\* During a test; between tests; after them.
TestSteps == {"rm", "run", "read", "compare", "diff", "cleanup"}

TbTypes ==
    /\ bench \in Benches
    /\ files \in [FileNames(bench) -> FileType]
    /\ t \in 1..(Len(bench.tests) + 1)
    /\ step \in TestSteps \cup {"score", "done", "timed out"}
    /\ step \in TestSteps => t <= Len(bench.tests)
    /\ step \in {"score", "done"} => t = Len(bench.tests) + 1
    /\ prog \in Programs
    /\ died \subseteq Programs
    /\ got \in [Programs -> FileType]
    /\ judged \in Seq(Verdicts) /\ Len(judged) = t - 1

\* f is what p has written in the test under way.
Wrote(f, p) == f.by = p /\ f.test = t

\* test-csim: the file is missing when a program starts and what it has
\* written when it is read; the reference's statistics have been read when the
\* student's program runs.
CsimFiles ==
    bench.program = "csim" =>
        /\ step \notin {"diff", "cleanup"}
        /\ step = "run" => files[FileOf(prog)] = None
        /\ step = "read" => \/ files[FileOf(prog)] = None
                            \/ Wrote(files[FileOf(prog)], prog)
        /\ (step \in {"rm", "run", "read", "compare"} /\ prog = "student") =>
               Wrote(got["ref"], "ref") /\ got["ref"].data \in Results
        /\ step = "compare" => prog = "student" /\ Wrote(got["student"], "student")

\* test-se: a program that ran to its end has written its checkpoint, or left
\* none.
Ran(p, f) == f = None \/ p \in died \/ Wrote(f, p)

SeFiles ==
    bench.program # "csim" =>
        /\ step \notin {"rm", "read", "compare"}
        /\ step = "run" /\ prog = "student" => Ran("ref", files[FileOf("ref")])
        /\ step = "diff" => \A p \in Programs : Ran(p, files[FileOf(p)])
        /\ step = "cleanup" => \A p \in Programs : Ran(p, got[p])

TbInv == TbTypes /\ CsimFiles /\ SeFiles /\ Earned /\ FullScoreForAll

\* The test under way is one of the bench's tests.
LEMMA TestNow ==
    ASSUME TbTypes
    PROVE  LET n == Len(bench.tests)
           IN /\ n \in Nat \ {0} /\ DOMAIN bench.tests = 1..n
              /\ t \in Nat \ {0} /\ t <= n + 1
<1>1. bench \in Benches /\ t \in 1..(Len(bench.tests) + 1)
    BY DEF TbTypes
<1>2. Len(bench.tests) \in Nat \ {0} /\ DOMAIN bench.tests = 1..Len(bench.tests)
    BY <1>1, TestbenchAssumption
<1> QED BY <1>1, <1>2

\* The file of a program is one of the bench's; csim's programs share theirs,
\* se's do not.
LEMMA FilesOf ==
    ASSUME TbTypes, t <= Len(bench.tests)
    PROVE  /\ \A p \in Programs : FileOf(p) \in FileNames(bench)
           /\ bench.program = "csim" => FileOf("ref") = FileOf("student")
           /\ bench.program # "csim" => FileOf("ref") # FileOf("student")
<1>1. t \in DOMAIN bench.tests
    BY TestNow
<1> QED BY <1>1 DEF FileOf, FileNames, Programs

\* A missing file and an opened one are files.
LEMMA FileTypes ==
    ASSUME TbTypes
    PROVE  /\ None \in FileType /\ NothingRead \in [Programs -> FileType]
           /\ \A p \in Programs : /\ Empty(p) \in FileType /\ Wrote(Empty(p), p)
                                 /\ ~Wrote(None, p)
<1>1. t \in Nat
    BY TestNow
<1>2. None \in FileType
    BY DEF None, FileType
<1> QED BY <1>1, <1>2 DEF FileType, None, Empty, NothingRead, Programs, Wrote

\* At the start no test has any points.
LEMMA TbStart == TestbenchInit => TbInv
<1> SUFFICES ASSUME TestbenchInit PROVE TbInv
    OBVIOUS
<1> USE DEF TestbenchInit
<1>1. bench \in Benches /\ Len(bench.tests) \in Nat \ {0}
    BY TestbenchAssumption
<1>2. step \in {"rm", "run"} /\ (bench.program = "csim" <=> step = "rm")
    BY DEF FirstStep
<1>3. None \in FileType
    BY DEF None, FileType
<1>4. files \in [FileNames(bench) -> FileType]
  <2>1. [by : {"before"}, test : {0}, data : Results] \subseteq FileType
      BY DEF FileType
  <2> QED BY <1>3, <2>1
<1>5. got \in [Programs -> FileType]
    BY <1>3 DEF NothingRead
<1>6. judged \in Seq(Verdicts) /\ Len(judged) = 0 /\ DOMAIN judged = {}
    OBVIOUS
<1>7. TbTypes
  <2>1. t \in 1..(Len(bench.tests) + 1) /\ t <= Len(bench.tests)
      BY <1>1
  <2>2. prog \in Programs /\ died \subseteq Programs
      BY DEF Programs
  <2>3. step \in TestSteps /\ step \notin {"score", "done"}
      BY <1>2 DEF TestSteps
  <2>4. Len(judged) = t - 1
      BY <1>6
  <2> QED BY <1>1, <1>4, <1>5, <1>6, <2>1, <2>2, <2>3, <2>4 DEF TbTypes
<1>8. CsimFiles /\ SeFiles
    BY <1>2 DEF CsimFiles, SeFiles
<1>9. Earned /\ FullScoreForAll
    BY <1>2, <1>6 DEF Earned, FullScoreForAll
<1> QED BY <1>7, <1>8, <1>9 DEF TbInv

\* A test that ends keeps the invariant if points are for its own runs, or for
\* one of them a signal has ended.
LEMMA ReturnInv ==
    ASSUME TbInv, step \in TestSteps, NEW p \in 0..100, return(p),
           p > 0 => Own \/ died # {},
           files' \in [FileNames(bench) -> FileType]
    PROVE  TbInv'
<1> USE DEF TbInv
<1>1. /\ t' = t + 1 /\ bench' = bench /\ prog' = "ref" /\ died' = {}
      /\ got' = NothingRead
      /\ judged' = Append(judged, [points |-> p, own |-> Own, died |-> died # {}])
      /\ step' = IF t = Len(bench.tests) THEN "score" ELSE FirstStep
    BY DEF return
<1>2. /\ t <= Len(bench.tests) /\ t \in Nat \ {0}
      /\ Len(bench.tests) \in Nat \ {0}
    BY TestNow DEF TbTypes
<1>3. step' \in {"rm", "run", "score"}
    BY <1>1 DEF FirstStep
<1>4. step' # "score" => (bench.program = "csim" <=> step' = "rm")
    BY <1>1 DEF FirstStep
<1> DEFINE v == [points |-> p, own |-> Own, died |-> died # {}]
<1>5. v \in Verdicts
  <2>1. Own \in BOOLEAN /\ (died # {}) \in BOOLEAN
      BY DEF Own
  <2>2. \A a, b \in BOOLEAN : [points |-> p, own |-> a, died |-> b] \in Verdicts
      BY DEF Verdicts
  <2> QED BY <2>1, <2>2, Zenon
<1>6. v.points = p /\ (v.own <=> Own) /\ (v.died <=> died # {})
    BY Zenon
<1>7. judged' = Append(judged, v)
    BY <1>1
<1> HIDE DEF v
<1>8. /\ judged' \in Seq(Verdicts) /\ Len(judged') = (t + 1) - 1
      /\ \A n \in DOMAIN judged' :
            \/ n \in DOMAIN judged /\ judged'[n] = judged[n]
            \/ judged'[n] = v
  <2>1. judged \in Seq(Verdicts) /\ Len(judged) = t - 1
      BY DEF TbTypes
  <2> QED BY <1>2, <1>5, <1>7, <2>1
<1>9. TbTypes'
  <2>1. step' \in TestSteps => t # Len(bench.tests)
      BY <1>1 DEF TestSteps
  <2>2. step' \in {"score", "done"} => t = Len(bench.tests)
      BY <1>1 DEF FirstStep
  <2>3. got' \in [Programs -> FileType]
      BY <1>1, FileTypes
  <2>4. t' \in 1..(Len(bench.tests) + 1)
      BY <1>1, <1>2
  <2>5. /\ step' \in TestSteps \cup {"score", "done", "timed out"}
        /\ prog' \in Programs /\ died' \subseteq Programs
      BY <1>1, <1>3 DEF TestSteps, Programs
  <2>6. /\ step' \in TestSteps => t' <= Len(bench'.tests)
        /\ step' \in {"score", "done"} => t' = Len(bench'.tests) + 1
      BY <1>1, <1>2, <2>1, <2>2
  <2>7. bench \in Benches
      BY DEF TbTypes
  <2>8. judged' \in Seq(Verdicts) /\ Len(judged') = t' - 1
      BY <1>1, <1>8
  <2> HIDE DEF TbInv
  <2> QED BY <1>1, <2>3, <2>4, <2>5, <2>6, <2>7, <2>8 DEF TbTypes
<1>10. CsimFiles' /\ SeFiles'
    BY <1>1, <1>3, <1>4 DEF CsimFiles, SeFiles
<1>11. Earned'
    BY <1>6, <1>8 DEF Earned
<1>12. FullScoreForAll'
    BY <1>3 DEF FullScoreForAll
<1> QED BY <1>9, <1>10, <1>11, <1>12

\* TbInv is kept when the old results are removed ...
LEMMA RemoveInv == TbInv /\ remove_results => TbInv'
<1> SUFFICES ASSUME TbInv, remove_results PROVE TbInv'
    OBVIOUS
<1>1. /\ step = "rm" /\ step' = "run" /\ bench' = bench /\ t' = t /\ prog' = prog
      /\ died' = died /\ got' = got /\ judged' = judged /\ score' = score
      /\ files' = [files EXCEPT ![FileOf(prog)] = None]
    BY DEF remove_results
<1>2. TbTypes /\ bench.program = "csim" /\ prog \in Programs
    BY <1>1 DEF TbInv, SeFiles, TbTypes
<1>3. t <= Len(bench.tests)
    BY <1>1, <1>2 DEF TbTypes, TestSteps
<1>4. FileOf(prog) \in FileNames(bench) /\ FileOf(prog)' = FileOf(prog)
    BY <1>1, <1>2, <1>3, FilesOf DEF FileOf
<1>5. files \in [FileNames(bench) -> FileType] /\ None \in FileType
    BY <1>2, FileTypes DEF TbTypes
<1>6. /\ files' \in [FileNames(bench) -> FileType]
      /\ files'[FileOf(prog)] = None
    BY <1>1, <1>4, <1>5
<1>7. TbTypes'
    BY <1>1, <1>2, <1>3, <1>6 DEF TbTypes, TestSteps
<1>8. CsimFiles'
  <2>1. prog = "student" => Wrote(got["ref"], "ref") /\ got["ref"].data \in Results
      BY <1>1, <1>2 DEF TbInv, CsimFiles
  <2>2. files'[FileOf(prog)'] = None
      BY <1>4, <1>6
  <2> QED BY <1>1, <2>1, <2>2 DEF CsimFiles, Wrote
<1>9. SeFiles' /\ Earned' /\ FullScoreForAll'
    BY <1>1, <1>2 DEF TbInv, SeFiles, Earned, FullScoreForAll
<1> QED BY <1>7, <1>8, <1>9 DEF TbInv

\* What is in the file of a program that a signal has not ended, and that did
\* not exit with a status other than 0.
LEMMA OutcomeTypes ==
    ASSUME TbTypes, t <= Len(bench.tests), NEW p \in Programs,
           NEW o \in Outcomes(p)
    PROVE  /\ o.file \in FileType
           /\ o.file = files[FileOf(p)] \/ Wrote(o.file, p)
           /\ (bench.program # "csim" /\ o.end = "exit 0") =>
                 o.file = None \/ Wrote(o.file, p)
<1>1. FileOf(p) \in FileNames(bench) /\ files[FileOf(p)] \in FileType
    BY FilesOf DEF TbTypes
<1>2. Empty(p) \in FileType /\ Wrote(Empty(p), p)
    BY FileTypes
<1>3. t \in Nat
    BY TestNow
<1>4. ASSUME NEW f \in [by : {p}, test : {t}, data : Results]
      PROVE  f \in FileType /\ Wrote(f, p)
    BY <1>3 DEF FileType, Wrote
<1>5. CASE o \in [file : [by : {p}, test : {t}, data : Results],
                  end : {"exit 0", "signal"}]
    BY <1>4, <1>5
<1>6. CASE o \in [file : {Empty(p), files[FileOf(p)]}, end : {"signal"}]
    BY <1>1, <1>2, <1>6
<1>7. CASE bench.program = "csim" /\ o \in [file : {files[FileOf(p)]},
                                            end : {"exit 0", "exit 1"}]
    BY <1>1, <1>7
<1>8. CASE bench.program # "csim" /\ o \in [file : {Empty(p)}, end : {"exit 1"}]
    BY <1>2, <1>8
<1>9. CASE /\ bench.program # "csim"
           /\ o \in [file : {files[FileOf(p)]} \cap {None}, end : {"exit 0"}]
    BY <1>1, <1>9
<1> QED BY <1>5, <1>6, <1>7, <1>8, <1>9 DEF Outcomes

\* ... when a program runs ...
LEMMA RunInv == TbInv /\ run_program => TbInv'
<1> SUFFICES ASSUME TbInv, run_program PROVE TbInv'
    OBVIOUS
<1>1. PICK o \in Outcomes(prog) :
        /\ files' = [files EXCEPT ![FileOf(prog)] = o.file]
        /\ IF o.end = "exit 1" THEN return(0)
           ELSE /\ after_run
                /\ died' = IF o.end = "signal" THEN died \cup {prog} ELSE died
    BY DEF run_program
<1>2. /\ step = "run" /\ step \in TestSteps
      /\ TbTypes /\ prog \in Programs
    BY DEF run_program, TestSteps, TbInv, TbTypes
<1>3. t <= Len(bench.tests)
    BY <1>2 DEF TbTypes
<1>4. /\ o.file \in FileType
      /\ o.file = files[FileOf(prog)] \/ Wrote(o.file, prog)
      /\ (bench.program # "csim" /\ o.end = "exit 0") =>
            o.file = None \/ Wrote(o.file, prog)
    BY <1>2, <1>3, OutcomeTypes
<1>5. /\ \A p \in Programs : FileOf(p) \in FileNames(bench)
      /\ bench.program # "csim" => FileOf("ref") # FileOf("student")
      /\ files \in [FileNames(bench) -> FileType]
    BY <1>2, <1>3, FilesOf DEF TbTypes
<1>6. /\ files' \in [FileNames(bench) -> FileType]
      /\ files'[FileOf(prog)] = o.file
      /\ \A f \in FileNames(bench) : f # FileOf(prog) => files'[f] = files[f]
    BY <1>1, <1>2, <1>4, <1>5
<1>7. CASE o.end = "exit 1"
  <2>1. return(0)
      BY <1>1, <1>7, Zenon
  <2> QED BY <1>2, <1>6, <2>1, ReturnInv, 0 \in 0..100
<1>8. CASE o.end # "exit 1"
  <2>1. /\ bench' = bench /\ t' = t /\ got' = got /\ judged' = judged
        /\ score' = score
        /\ died' = IF o.end = "signal" THEN died \cup {prog} ELSE died
        /\ step' = IF bench.program = "csim" THEN "read"
                   ELSE IF prog = "ref" THEN "run" ELSE "diff"
        /\ prog' = IF bench.program = "csim" THEN prog ELSE "student"
      BY <1>1, <1>8 DEF after_run
  <2>2. \A p : FileOf(p)' = FileOf(p)
      BY <2>1 DEF FileOf
  <2>3. TbTypes'
    <3>1. step' \in TestSteps /\ step' \notin {"score", "done"}
        BY <2>1 DEF TestSteps
    <3>2. prog' \in Programs /\ died' \subseteq Programs
        BY <1>2, <2>1 DEF TbTypes, Programs
    <3> QED BY <1>2, <1>3, <1>6, <2>1, <3>1, <3>2 DEF TbTypes
  <2>4. CsimFiles'
    <3> SUFFICES ASSUME bench.program = "csim" PROVE CsimFiles'
        BY <2>1 DEF CsimFiles
    <3>1. step' = "read" /\ prog' = prog
        BY <2>1
    <3>2. files[FileOf(prog)] = None
        BY <1>2 DEF TbInv, CsimFiles
    <3>3. prog = "student" => Wrote(got["ref"], "ref") /\ got["ref"].data \in Results
        BY <1>2 DEF TbInv, CsimFiles
    <3>4. files'[FileOf(prog)'] = None \/ Wrote(files'[FileOf(prog)'], prog)
        BY <1>4, <1>6, <2>1, <3>1, <3>2 DEF FileOf
    <3> QED BY <2>1, <3>1, <3>3, <3>4 DEF CsimFiles, Wrote
  <2>5. SeFiles'
    <3> SUFFICES ASSUME bench.program # "csim" PROVE SeFiles'
        BY <2>1 DEF SeFiles
    <3>1. \/ prog = "ref" /\ step' = "run" /\ prog' = "student"
          \/ prog = "student" /\ step' = "diff" /\ prog' = "student"
        BY <1>2, <2>1 DEF Programs
    <3>2. ASSUME NEW p \in Programs, p = prog
          PROVE  Ran(p, o.file)'
      <4>1. o.end \in {"exit 0", "signal"}
          BY <1>8 DEF Outcomes
      <4>2. CASE o.end = "exit 0"
          BY <1>4, <2>1, <3>2, <4>2 DEF Ran, Wrote
      <4>3. CASE o.end = "signal"
          BY <2>1, <3>2, <4>3 DEF Ran
      <4> QED BY <4>1, <4>2, <4>3
    <3>3. ASSUME NEW p \in Programs, p = prog
          PROVE  Ran(p, files[FileOf(p)])'
        BY <1>6, <2>2, <3>2, <3>3
    <3>4. prog = "student" => Ran("ref", files[FileOf("ref")])'
      <4> SUFFICES ASSUME prog = "student" PROVE Ran("ref", files[FileOf("ref")])'
          OBVIOUS
      <4>1. Ran("ref", files[FileOf("ref")])
          BY <1>2 DEF TbInv, SeFiles
      <4>2. files'[FileOf("ref")'] = files[FileOf("ref")]
          BY <1>5, <1>6, <2>2 DEF Programs
      <4>3. died \subseteq died'
          BY <2>1
      <4> QED BY <2>1, <4>1, <4>2, <4>3 DEF Ran, Wrote
    <3> QED BY <2>1, <3>1, <3>3, <3>4 DEF SeFiles, Programs
  <2>6. Earned' /\ FullScoreForAll'
      BY <2>1 DEF TbInv, Earned, FullScoreForAll
  <2> QED BY <2>3, <2>4, <2>5, <2>6 DEF TbInv
<1> QED BY <1>7, <1>8

\* ... when it has left no results ...
LEMMA MissingInv == TbInv /\ results_missing => TbInv'
<1> SUFFICES ASSUME TbInv, results_missing PROVE TbInv'
    OBVIOUS
<1>1. return(0) /\ step \in TestSteps /\ 0 \in 0..100 /\ ~(0 > 0)
    BY DEF results_missing, TestSteps
<1>2. files' \in [FileNames(bench) -> FileType]
    BY DEF results_missing, TbInv, TbTypes
<1> QED BY <1>1, <1>2, ReturnInv

\* ... when its results are read ...
LEMMA ReadResultsInv == TbInv /\ read_results => TbInv'
<1> SUFFICES ASSUME TbInv, read_results PROVE TbInv'
    OBVIOUS
<1> DEFINE f == files[FileOf(prog)]
<1>1. /\ step = "read" /\ f # None /\ prog' = "student"
      /\ step' = IF prog = "ref" THEN "rm" ELSE "compare"
      /\ bench' = bench /\ files' = files /\ t' = t /\ died' = died
      /\ judged' = judged /\ score' = score
    BY DEF read_results
<1>2. PICK r \in IF f.data = <<>> THEN Results ELSE {f.data} :
        got' = [got EXCEPT ![prog] = [f EXCEPT !.data = r]]
    BY DEF read_results
<1>3. TbTypes /\ bench.program = "csim" /\ prog \in Programs
    BY <1>1 DEF TbInv, SeFiles, TbTypes
<1>4. t <= Len(bench.tests) /\ got \in [Programs -> FileType]
    BY <1>1, <1>3 DEF TbTypes, TestSteps
<1>5. f \in FileType /\ Wrote(f, prog)
    BY <1>1, <1>3, <1>4, FilesOf DEF TbTypes, TbInv, CsimFiles
<1> HIDE DEF f
<1> DEFINE g == [f EXCEPT !.data = r]
<1>6. r \in Results
    BY <1>2, <1>5 DEF FileType
<1>7. g \in FileType /\ g.data = r /\ Wrote(g, prog)
    BY <1>5, <1>6 DEF FileType, Wrote
<1> HIDE DEF g
<1>8. /\ got' \in [Programs -> FileType] /\ got'[prog] = g
      /\ prog # "ref" => got'["ref"] = got["ref"]
    BY <1>2, <1>3, <1>4, <1>7 DEF g, Programs
<1>9. TbTypes'
  <2>1. step' \in TestSteps /\ step' \notin {"score", "done"}
      BY <1>1 DEF TestSteps
  <2> QED BY <1>1, <1>3, <1>4, <1>8, <2>1 DEF TbTypes, Programs
<1>10. CsimFiles'
  <2>1. Wrote(got'["ref"], "ref") /\ got'["ref"].data \in Results
    <3>1. CASE prog = "ref"
        BY <1>6, <1>7, <1>8, <3>1
    <3>2. CASE prog # "ref"
        BY <1>1, <1>3, <1>8, <3>2 DEF TbInv, CsimFiles, Programs
    <3> QED BY <3>1, <3>2
  <2>2. step' = "compare" => Wrote(got'["student"], "student")
      BY <1>1, <1>3, <1>7, <1>8 DEF Programs
  <2> QED BY <1>1, <2>1, <2>2 DEF CsimFiles, Wrote
<1>11. SeFiles' /\ Earned' /\ FullScoreForAll'
    BY <1>1, <1>3 DEF TbInv, SeFiles, Earned, FullScoreForAll
<1> QED BY <1>9, <1>10, <1>11 DEF TbInv

\* ... when two results are compared ...
LEMMA CompareInv == TbInv /\ compare => TbInv'
<1> SUFFICES ASSUME TbInv, compare PROVE TbInv'
    OBVIOUS
<1> DEFINE ref == got["ref"].data
           points == (100 * Cardinality(Agree)) \div Len(ref)
<1>1. /\ step = "compare" /\ return(points)
      /\ files' = [files EXCEPT ![FileOf(prog)] = None]
    BY DEF compare
<1>2. TbTypes /\ bench.program = "csim" /\ step \in TestSteps
    BY <1>1 DEF TbInv, SeFiles, TestSteps
<1>3. Own /\ ref \in Results
    BY <1>1, <1>2 DEF TbInv, CsimFiles, Own, Wrote, Programs
<1>4. points \in 0..100
  <2>1. Len(ref) \in Nat \ {0} /\ DOMAIN ref = 1..Len(ref)
      BY <1>3, TestbenchAssumption
  <2>2. Agree \subseteq 1..Len(ref)
      BY <2>1 DEF Agree
  <2>3. IsFiniteSet(1..Len(ref)) /\ Cardinality(1..Len(ref)) = Len(ref)
      BY <2>1, FS_Interval
  <2>4. Cardinality(Agree) \in Nat /\ Cardinality(Agree) <= Len(ref)
      BY <2>2, <2>3, FS_Subset, FS_CardinalityType
  <2> HIDE DEF ref
  <2>5. /\ 100 * Cardinality(Agree) \in Nat
        /\ 100 * Cardinality(Agree) <= 100 * Len(ref)
      BY <2>1, <2>4
  <2> QED BY <2>1, <2>5, Quotient
<1>5. files' \in [FileNames(bench) -> FileType]
    BY <1>1, <1>2, FileTypes DEF TbTypes
<1> QED BY <1>1, <1>2, <1>3, <1>4, <1>5, ReturnInv

\* ... when diff compares two files ...
LEMMA DiffInv == TbInv /\ diff => TbInv'
<1> SUFFICES ASSUME TbInv, diff PROVE TbInv'
    OBVIOUS
<1>1. /\ step = "diff" /\ step' = "cleanup"
      /\ got' = [p \in Programs |-> files[FileOf(p)]]
      /\ bench' = bench /\ files' = files /\ t' = t /\ prog' = prog
      /\ died' = died /\ judged' = judged /\ score' = score
    BY DEF diff
<1>2. TbTypes /\ bench.program # "csim" /\ t <= Len(bench.tests)
    BY <1>1 DEF TbInv, CsimFiles, TbTypes, TestSteps
<1>3. got' \in [Programs -> FileType]
    BY <1>1, <1>2, FilesOf DEF TbTypes
<1>4. TbTypes'
    BY <1>1, <1>2, <1>3 DEF TbTypes, TestSteps
<1>5. \A p \in Programs : Ran(p, got[p])'
    BY <1>1, <1>2 DEF TbInv, SeFiles, Ran, Wrote
<1>6. CsimFiles' /\ SeFiles' /\ Earned' /\ FullScoreForAll'
    BY <1>1, <1>2, <1>5 DEF TbInv, CsimFiles, SeFiles, Earned, FullScoreForAll
<1> QED BY <1>4, <1>6 DEF TbInv

\* ... when the files of a test are removed ...
LEMMA CleanupInv == TbInv /\ cleanup => TbInv'
<1> SUFFICES ASSUME TbInv, cleanup PROVE TbInv'
    OBVIOUS
<1> DEFINE points == IF Same THEN 100 ELSE 0
<1>1. /\ step = "cleanup" /\ return(points) /\ points \in 0..100
      /\ files' = [f \in DOMAIN files |->
                     IF f \in {FileOf(p) : p \in Programs} THEN None ELSE files[f]]
    BY DEF cleanup
<1>2. TbTypes /\ bench.program # "csim" /\ step \in TestSteps
    BY <1>1 DEF TbInv, CsimFiles, TestSteps
<1>3. points > 0 => Own \/ died # {}
  <2> SUFFICES ASSUME Same, died = {} PROVE Own
      OBVIOUS
  <2>1. ASSUME NEW p \in Programs PROVE got[p].by = p /\ got[p].test = t
      BY <1>1, <1>2 DEF TbInv, SeFiles, Ran, Wrote, Same
  <2> QED BY <2>1 DEF Own
<1>4. files' \in [FileNames(bench) -> FileType]
    BY <1>1, <1>2, FileTypes DEF TbTypes
<1> HIDE DEF points
<1> QED BY <1>1, <1>2, <1>3, <1>4, ReturnInv

\* ... when the scores are added up ...
LEMMA ScoreInv == TbInv /\ add_scores => TbInv'
<1> SUFFICES ASSUME TbInv, add_scores PROVE TbInv'
    OBVIOUS
<1>1. /\ step = "score" /\ step' = "done"
      /\ score' = Total([d \in DOMAIN bench.weights |-> Share(d)])
      /\ bench' = bench /\ files' = files /\ t' = t /\ prog' = prog
      /\ died' = died /\ got' = got /\ judged' = judged
    BY DEF add_scores
<1>2. TbTypes'
    BY <1>1 DEF TbInv, TbTypes, TestSteps
<1>3. CsimFiles' /\ SeFiles' /\ Earned'
    BY <1>1 DEF TbInv, CsimFiles, SeFiles, Earned
<1>4. FullScoreForAll'
  <2>1. bench \in Benches /\ Len(judged) = Len(bench.tests)
    <3>1. TbTypes
        BY DEF TbInv
    <3> QED BY <1>1, <3>1, TestNow DEF TbTypes
  <2>2. Scored
    <3>1. DOMAIN bench.tests = 1..Len(bench.tests) /\ judged \in Seq(Verdicts)
        BY TestbenchAssumption, <2>1 DEF TbInv, TbTypes
    <3>2. \A n \in DOMAIN bench.tests : judged[n] \in Verdicts
        BY <2>1, <3>1
    <3> QED BY <3>2 DEF Scored, Verdicts
  <2>3. score' = Total([d \in DOMAIN bench.weights |-> 100]) =>
            \A n \in DOMAIN bench.tests : judged[n].points = 100
      BY <1>1, <2>1, <2>2, FullTotal
  <2>4. Total([d \in DOMAIN bench.weights |-> 100])'
            = Total([d \in DOMAIN bench.weights |-> 100])
      BY <1>1 DEF Total
  <2> QED BY <1>1, <2>3, <2>4 DEF FullScoreForAll
<1> QED BY <1>2, <1>3, <1>4 DEF TbInv

\* ... when the alarm rings ...
LEMMA AlarmInv == TbInv /\ sigalrm_handler => TbInv'
<1> SUFFICES ASSUME TbInv, sigalrm_handler PROVE TbInv'
    OBVIOUS
<1>1. /\ step' = "timed out" /\ prog' = "ref" /\ t' = 1 /\ died' = {}
      /\ got' = NothingRead /\ judged' = <<>> /\ bench' = bench /\ files' = files
    BY DEF sigalrm_handler
<1>2. TbTypes /\ 1 \in 1..(Len(bench.tests) + 1)
    BY TestNow DEF TbInv
<1>3. got' \in [Programs -> FileType]
    BY <1>1, <1>2, FileTypes
<1>4. judged' \in Seq(Verdicts) /\ Len(judged') = 1 - 1 /\ DOMAIN judged' = {}
  <2>1. <<>> \in Seq(Verdicts) /\ Len(<<>>) = 1 - 1 /\ DOMAIN <<>> = {}
      OBVIOUS
  <2> QED BY <1>1, <2>1, Zenon
<1>5. TbTypes'
    BY <1>1, <1>2, <1>3, <1>4 DEF TbTypes, TestSteps, Programs
<1>6. CsimFiles' /\ SeFiles' /\ Earned' /\ FullScoreForAll'
    BY <1>1, <1>4 DEF CsimFiles, SeFiles, Earned, FullScoreForAll
<1> QED BY <1>5, <1>6 DEF TbInv

\* ... so by every step.
LEMMA TbStep == TbInv /\ [TestbenchNext]_tbVars => TbInv'
<1> SUFFICES ASSUME TbInv, [TestbenchNext]_tbVars PROVE TbInv'
    OBVIOUS
<1>1. CASE UNCHANGED tbVars
  <2>1. /\ bench' = bench /\ files' = files /\ t' = t /\ step' = step
        /\ prog' = prog /\ died' = died /\ got' = got /\ judged' = judged
        /\ score' = score
      BY <1>1 DEF tbVars
  <2>2. \A p : FileOf(p)' = FileOf(p)
      BY <2>1 DEF FileOf
  <2>3. FileOf(prog)' = FileOf(prog) /\ FileOf("ref")' = FileOf("ref")
      BY <2>1 DEF FileOf
  <2>4. TbTypes' /\ Earned'
      BY <2>1 DEF TbInv, TbTypes, Earned
  <2>5. CsimFiles'
      BY <2>1, <2>3 DEF TbInv, CsimFiles, Wrote
  <2>6. SeFiles'
      BY <2>1, <2>2, <2>3 DEF TbInv, SeFiles, Ran, Wrote
  <2>7. FullScoreForAll'
      BY <2>1 DEF TbInv, FullScoreForAll, Total
  <2> QED BY <2>4, <2>5, <2>6, <2>7 DEF TbInv
<1> QED BY <1>1, RemoveInv, RunInv, MissingInv, ReadResultsInv, CompareInv, DiffInv,
           CleanupInv, ScoreInv, AlarmInv DEF TestbenchNext

\* Benches give points for nothing but the runs of the test, whatever files
\* earlier runs have left, and the full score only if all tests have all points.
THEOREM PointsEarned == TestbenchSpec => []PassesAreEarned
<1>1. TbInv => PassesAreEarned
    BY DEF TbInv, PassesAreEarned
<1> QED BY <1>1, TbStart, TbStep, PTL DEF TestbenchSpec

----------------------------------------------------------------------------
(* Types: se and its data cache.                                           *)

\* What the loads return, and what the data cache writes back, is defined for
\* a cache that has a set.
HasSets == cache = NULL \/ NumSets(cache) > 0

DcTypes ==
    /\ counts \in Tally
    /\ cache # NULL => cache.d < CycleVals
    /\ inflight_addr \in Addr /\ inflight_cycles \in 0..(CycleVals - 1)
    /\ dmem_status \in {"READY", "IN_FLIGHT"}
    /\ i \in 0..AddrSpace
    /\ HasSets => data \in Seq(Bytes \cup {Unknown}) /\ result \in Seq(Bytes)

\* A word is a sequence of bytes, and so are the zeros of one that is not there.
LEMMA WordSeq ==
    /\ \A a \in Addr, w \in Widths :
          bytes \in [Addr -> Bytes] => Word(bytes, a, w) \in Seq(Bytes)
    /\ \A w \in Nat : Zeros(w) \in Seq(Bytes) /\ Zeros(w) \in Seq(Bytes \cup {Unknown})
<1>1. ASSUME NEW a \in Addr, NEW w \in Widths, bytes \in [Addr -> Bytes]
      PROVE  Word(bytes, a, w) \in Seq(Bytes)
  <2>1. w \in 1..AddrSpace /\ w \in Nat
      BY SpaceAssumption
  <2>2. Word(bytes, a, w) \in [1..w -> Bytes]
      BY <1>1, <2>1, WordType
  <2> QED BY <2>1, <2>2
<1>2. ASSUME NEW w \in Nat
      PROVE  Zeros(w) \in Seq(Bytes) /\ Zeros(w) \in Seq(Bytes \cup {Unknown})
  <2>1. Zeros(w) \in [1..w -> Bytes] /\ Zeros(w) \in [1..w -> Bytes \cup {Unknown}]
      BY SpaceAssumption DEF Zeros
  <2> QED BY <2>1
<1> QED BY <1>1, <1>2

\* An access that begins ...
LEMMA BeginTypes == DcInv /\ DcTypes /\ begun => DcTypes'
<1> SUFFICES ASSUME DcInv, DcTypes, begun PROVE DcTypes'
    OBVIOUS
<1>1. /\ UNCHANGED <<counts, cache, inflight_addr, inflight_cycles, dmem_status>>
      /\ i' = i \/ i' = 0
    BY DEF begun, mem_read_uncached, mem_read_cached, mem_write_uncached,
           mem_write_cached, inflightVars
<1>2. 0 \in 0..AddrSpace
    BY SpaceAssumption
<1>3. ASSUME HasSets
      PROVE  data' \in Seq(Bytes \cup {Unknown}) /\ result' \in Seq(Bytes)
  <2>1. bytes \in [Addr -> Bytes] /\ data \in Seq(Bytes \cup {Unknown})
        /\ result \in Seq(Bytes)
      BY <1>3 DEF DcInv, DcTypes, HasSets
  <2>2. \A r \in Reads : r.addr \in Addr /\ r.width \in Widths /\ r.width \in Nat
    <3>1. \A w \in Widths : w \in Nat
        BY SpaceAssumption
    <3> QED BY <3>1 DEF Reads
  <2>3. \/ data' = data /\ result' = result
        \/ data' = data /\ \E r \in Reads : result' = Word(bytes, r.addr, r.width)
        \/ result' = result /\ \E r \in Reads : data' = Zeros(r.width)
      BY DEF begun, mem_read_uncached, mem_read_cached, mem_write_uncached,
             mem_write_cached
  <2> QED BY <2>1, <2>2, <2>3, WordSeq
<1>4. HasSets' = HasSets
    BY <1>1 DEF HasSets
<1> QED BY <1>1, <1>2, <1>3, <1>4 DEF DcTypes

\* A count is a number, whatever a line evicted was.
LEMMA CountTypes ==
    ASSUME NEW n \in Tally, NEW s \in BOOLEAN
    PROVE  /\ Counted(s, n, "hit") \in Tally /\ Counted(s, n, "miss") \in Tally
           /\ \A line : CountEviction(n, line) \in Tally
BY DEF Tally, Counted, Count, CountEviction

\* ... a hit ...
LEMMA HitTypes == DcInv /\ DcTypes /\ byte_hit => DcTypes'
<1> SUFFICES ASSUME DcInv, DcTypes, byte_hit PROVE DcTypes'
    OBVIOUS
<1>1. /\ InLoop /\ i' = i + 1 /\ cache' = HitLine(cache, current_address, Op)
      /\ counts' = Counted(solved, counts, "hit")
      /\ UNCHANGED <<inflight_addr, inflight_cycles, dmem_status, data, result>>
    BY DEF byte_hit, inflightVars
<1>2. IsCache(cache) /\ i \in 0..(Width - 1) /\ Width \in 1..AddrSpace
    BY <1>1, Byte
<1>3. SameShape(cache, cache') /\ IsCache(cache')
    BY <1>1, <1>2, Touched
<1>4. cache'.d < CycleVals /\ HasSets' = HasSets
    BY <1>2, <1>3, NotNull DEF SameShape, NumSets, HasSets, DcTypes
<1>5. i' \in 0..AddrSpace
    BY <1>1, <1>2, SpaceAssumption
<1>6. counts' \in Tally
    BY <1>1, CountTypes DEF DcTypes, DcInv
<1> QED BY <1>1, <1>4, <1>5, <1>6 DEF DcTypes

\* ... a call that waits ...
LEMMA WaitTypes == DcInv /\ DcTypes /\ byte_wait => DcTypes'
<1> SUFFICES ASSUME DcInv, DcTypes, byte_wait PROVE DcTypes'
    OBVIOUS
<1>1. /\ InLoop /\ inflight_addr' = block_address /\ inflight_cycles' = Cycles
      /\ counts' = Counted(solved, counts, "miss")
      /\ dmem_status' = "IN_FLIGHT"
      /\ result' = IF Reading THEN Zeros(Width) ELSE result
      /\ i' = 0 /\ data' = <<>> /\ cache' = cache
    BY DEF byte_wait, Missed
<1>2. block_address \in Addr /\ Width \in 1..AddrSpace /\ IsCache(cache)
    BY <1>1, Byte
<1>3. Cycles \in 0..(CycleVals - 1)
  <2>1. cache.d \in Nat /\ cache.d < CycleVals
      BY <1>2, NotNull DEF IsCache, DcTypes
  <2> QED BY <1>1, <2>1, CyclesValue, DataCacheAssumption DEF Penalty
<1>4. counts' \in Tally
    BY <1>1, CountTypes DEF DcTypes, DcInv
<1>5. HasSets => result' \in Seq(Bytes)
  <2>1. Width \in Nat
      BY <1>2, SpaceAssumption
  <2> QED BY <1>1, <2>1, WordSeq DEF DcTypes
<1>6. data' \in Seq(Bytes \cup {Unknown}) /\ i' \in 0..AddrSpace
    BY <1>1, SpaceAssumption
<1> QED BY <1>1, <1>2, <1>3, <1>4, <1>5, <1>6 DEF DcTypes, HasSets

\* What a load takes from a block as it lies in it, and beyond it.
LEMMA CastType ==
    ASSUME DcInv, InLoop, Reading, NEW block \in [1..cache.B -> Bytes]
    PROVE  CastWord(block) \in Seq(Bytes \cup {Unknown})
<1> DEFINE first == (req.addr % cache.B) * Width
<1>1. Width \in Nat /\ cache.B \in Nat \ {0} /\ req.addr \in Nat
  <2>1. Width \in 1..AddrSpace /\ IsCache(cache)
      BY Byte
  <2>2. req.addr \in Addr
      BY Underway DEF DcInv, InLoop
  <2> QED BY <2>1, <2>2, SpaceAssumption DEF IsCache, Addr
<1>2. first \in Nat
  <2>1. req.addr % cache.B \in Nat
      BY <1>1
  <2> QED BY <1>1, <2>1
<1>3. CastWord(block) = [n \in 1..Width |-> IF first + Width <= cache.B THEN block[first + n]
                                            ELSE Unknown]
    BY DEF CastWord
<1> HIDE DEF first
<1>4. \A n \in 1..Width : first + Width <= cache.B => first + n \in 1..cache.B
    BY <1>1, <1>2
<1>5. CastWord(block) \in [1..Width -> Bytes \cup {Unknown}]
    BY <1>3, <1>4
<1> QED BY <1>1, <1>5

\* ... a call that brings a block in ...
LEMMA FillTypes == DcInv /\ DcTypes /\ byte_fill => DcTypes'
<1> SUFFICES ASSUME DcInv, DcTypes, byte_fill PROVE DcTypes'
    OBVIOUS
<1> DEFINE incoming == Word(bytes, FillFrom, cache.B)
<1>1. /\ InLoop /\ Cycles = 0 /\ inflight_addr' = block_address
      /\ inflight_cycles' = Cycles /\ i' = i + 1
      /\ dmem_status' = dmem_status /\ result' = result
      /\ data' = IF Reading THEN CastWord(incoming) ELSE data
    BY DEF byte_fill
<1>2. PICK m \in handle_miss(solved, cache, current_address, Op, incoming, Missed) :
              counts' = m.counts
    BY DEF byte_fill
<1>3. /\ block_address \in Addr /\ IsCache(cache) /\ FillFrom \in Addr
      /\ i \in 0..(Width - 1) /\ Width \in 1..AddrSpace
    BY <1>1, Byte
<1>4. IsCache(cache') /\ SameShape(cache, cache')
    BY Filled
<1>5. cache'.d < CycleVals /\ HasSets' = HasSets
    BY <1>3, <1>4, NotNull DEF SameShape, NumSets, HasSets, DcTypes
<1>6. i' \in 0..AddrSpace
    BY <1>1, <1>3, SpaceAssumption
<1>7. Cycles \in 0..(CycleVals - 1)
    BY <1>1, DataCacheAssumption
<1>8. counts' \in Tally
  <2>1. Missed \in Tally /\ \A line : CountEviction(Missed, line) \in Tally
      BY CountTypes DEF Missed, DcTypes, DcInv
  <2>2. m.counts = Missed \/ \E line : m.counts = CountEviction(Missed, line)
      BY <1>2 DEF handle_miss
  <2> QED BY <1>2, <2>1, <2>2
<1>9. ASSUME HasSets
      PROVE  data' \in Seq(Bytes \cup {Unknown}) /\ result' \in Seq(Bytes)
  <2>1. bytes \in [Addr -> Bytes] /\ cache.B \in 1..AddrSpace
      BY <1>3, <1>9 DEF DcInv, HasSets, IsCache
  <2>2. incoming \in [1..cache.B -> Bytes]
      BY <1>3, <2>1, WordType
  <2> HIDE DEF incoming
  <2> QED BY <1>1, <1>9, <2>2, CastType DEF DcTypes
<1> QED BY <1>1, <1>3, <1>5, <1>6, <1>7, <1>8, <1>9 DEF DcTypes

\* ... and an access that returns leave what there is typed.
LEMMA ReturnTypes == DcInv /\ DcTypes /\ access_return => DcTypes'
<1> SUFFICES ASSUME DcInv, DcTypes, access_return PROVE DcTypes'
    OBVIOUS
<1>1. /\ req # Idle /\ dmem_status' = "READY" /\ i' = 0 /\ data' = <<>>
      /\ UNCHANGED <<counts, inflight_addr, inflight_cycles>>
      /\ IF Reading
         THEN /\ result' \in get_word_cache(solved, cache, req.addr, data)
              /\ cache' = cache
         ELSE /\ cache' = set_word_cache(solved, cache, req.addr, req.data)
              /\ result' = result
    BY DEF access_return, inflightVars
<1>2. IsCache(cache) /\ cache # NULL
    BY <1>1, NotNull DEF DcInv
<1>3. cache' # NULL /\ SameShape(cache, cache')
  <2>1. CASE cache' = cache
      BY <1>2, <2>1 DEF SameShape
  <2>2. CASE cache' = set_word_cache(TRUE, cache, req.addr, req.data)
    <3>1. \E s : cache' = [A |-> cache.A, B |-> cache.B, C |-> cache.C, d |-> cache.d,
                          sets |-> s]
        BY <1>2, <2>2 DEF IsCache, set_word_cache
    <3> QED BY <3>1 DEF SameShape, NULL
  <2>3. solved \in BOOLEAN
      BY DEF DcInv
  <2> QED BY <1>1, <2>1, <2>2, <2>3 DEF set_word_cache
<1>4. cache'.d = cache.d /\ HasSets' = HasSets
    BY <1>2, <1>3 DEF HasSets, SameShape, NumSets
<1>5. HasSets => result' \in Seq(Bytes)
  <2>1. ASSUME data \in Seq(Bytes \cup {Unknown}),
               result' \in get_word_cache(solved, cache, req.addr, data)
        PROVE  result' \in Seq(Bytes)
    <3>1. result' \in [DOMAIN data -> Bytes]
        BY <2>1 DEF get_word_cache
    <3>2. DOMAIN data = 1..Len(data) /\ Len(data) \in Nat
        BY <2>1
    <3> QED BY <3>1, <3>2
  <2> QED BY <1>1, <2>1 DEF DcTypes
<1>6. data' \in Seq(Bytes \cup {Unknown}) /\ i' \in 0..AddrSpace
    BY <1>1, SpaceAssumption
<1> QED BY <1>1, <1>2, <1>3, <1>4, <1>5, <1>6 DEF DcTypes

\* The options are set to what their arguments are.
Globals == [infile : {"NULL", "file"}, checkpoint : {"NULL", "file"},
            frontend_vis : {0, 1}, A : Int, B : Int, C : Int, d : Int]

MainTypes ==
    /\ Len(argv) \in Nat /\ DOMAIN argv = 1..Len(argv)
    /\ \A n \in DOMAIN argv : OptionOK(argv[n])
    /\ optind \in 1..(Len(argv) + 1)
    /\ opts \in Globals /\ opts.d < CycleVals
    /\ outfile \in {"stdout", "file", "NULL"}
    /\ calls \in 0..MaxCalls /\ stored \in 0..calls
    /\ reported \in [hits : Int, misses : Nat]
    /\ phase \in {"args", "init", "load", "run"} \cup Ends

\* An option read is a parameter, a flag or a file.
LEMMA OptionTypes ==
    ASSUME opts \in Globals, opts.d < CycleVals, OptionOK(option),
           opts' = WithOption(Assigns(option))
    PROVE  opts' \in Globals /\ opts'.d < CycleVals
<1> DEFINE f == Assigns(option)
<1>1. /\ opts' = [k \in DOMAIN opts |-> IF k \in DOMAIN f THEN f[k] ELSE opts[k]]
      /\ DOMAIN opts = {"infile", "checkpoint", "frontend_vis", "A", "B", "C", "d"}
    BY DEF WithOption, Globals
<1>2. \A k \in DOMAIN f :
         /\ k \in {"infile", "checkpoint"} => f[k] \in {"NULL", "file"}
         /\ k = "frontend_vis" => f[k] \in {0, 1}
         /\ k \in Geometry => f[k] \in Int
         /\ k = "d" => f[k] < CycleVals
  <2>1. CASE option.opt \in {"i", "o", "c"}
      BY <2>1 DEF Assigns, Geometry, OptionOK
  <2>2. CASE option.opt = "f"
    <3>1. option.val \in Int
        BY <2>2, SpaceAssumption DEF OptionOK, Addr
    <3>2. f = [frontend_vis |-> IF option.val = 1 THEN 1 ELSE opts.frontend_vis,
               A |-> option.val]
        BY <2>2 DEF Assigns, Geometry
    <3>3. opts.frontend_vis \in {0, 1}
        BY DEF Globals
    <3> QED BY <3>1, <3>2, <3>3 DEF Geometry
  <2>3. CASE option.opt \in Geometry
    <3>1. option.val \in Int /\ (option.opt = "d" => option.val < CycleVals)
        BY <2>3, SpaceAssumption DEF OptionOK, Addr, Geometry
    <3>2. f = [k \in {option.opt} |-> option.val]
        BY <2>3 DEF Assigns, Geometry
    <3> QED BY <2>3, <3>1, <3>2 DEF Geometry
  <2> QED BY <2>1, <2>2, <2>3 DEF OptionOK
<1> HIDE DEF f
<1>3. /\ opts'.infile \in {"NULL", "file"} /\ opts'.checkpoint \in {"NULL", "file"}
      /\ opts'.frontend_vis \in {0, 1} /\ opts'.A \in Int /\ opts'.B \in Int
      /\ opts'.C \in Int /\ opts'.d \in Int /\ opts'.d < CycleVals
    BY <1>1, <1>2 DEF Globals, Geometry
<1>4. opts' = [infile |-> opts'.infile, checkpoint |-> opts'.checkpoint,
               frontend_vis |-> opts'.frontend_vis, A |-> opts'.A, B |-> opts'.B,
               C |-> opts'.C, d |-> opts'.d]
    BY <1>1
<1> QED BY <1>3, <1>4 DEF Globals

\* What main does leaves the data cache typed.
LEMMA MainDcTypes == IInv /\ MainTypes /\ DcTypes /\ [main]_seVars => DcTypes'
<1> SUFFICES ASSUME IInv, MainTypes, DcTypes, [main]_seVars PROVE DcTypes'
    OBVIOUS
<1>0. DcInv
    BY DEF IInv
<1>1. CASE UNCHANGED dcVars
    BY <1>1 DEF dcVars, inflightVars, DcTypes, HasSets
<1>2. CASE handle_args \/ init_no_cache \/ init_dies \/ load_fails \/ io_write
           \/ null_write \/ null_read \/ checkpoint_read \/ finalize
    BY <1>1, <1>2 DEF handle_args, read_option, open_fails, args_end,
       init_no_cache, init_dies, load_fails, io_write, null_write, null_read,
       checkpoint_read, finalize
<1>3. CASE init_with_cache
  <2>1. /\ Given /\ cache = NULL /\ cache' = create_cache(opts.A, opts.B, opts.C, opts.d)
        /\ inflight_cycles' = opts.d /\ inflight_addr' = 0 /\ dmem_status' = "READY"
        /\ UNCHANGED <<counts, i, data, result>>
      BY <1>3 DEF init_with_cache, init_begin, init_cache, IInv
  <2>2. opts.d \in Addr /\ opts.d < CycleVals
      BY <2>1 DEF Given, Geometry, IInv, MainTypes
  <2>3. opts.d \in 0..(CycleVals - 1) /\ 0 \in Addr
      BY <2>2, SpaceAssumption, DataCacheAssumption DEF Addr
  <2>4. cache'.d = opts.d
      BY <2>1 DEF create_cache
  <2> QED BY <2>1, <2>2, <2>3, <2>4 DEF DcTypes, HasSets
<1>4. CASE load
    BY <1>4 DEF load, DcTypes, HasSets, inflightVars
<1>5. CASE mem_read \/ mem_write
  <2>1. begun
      BY <1>5 DEF mem_read, mem_write, begun
  <2> QED BY <1>0, <2>1, BeginTypes
<1>6. CASE access_step
    BY <1>0, <1>6, HitTypes, WaitTypes, FillTypes, ReturnTypes DEF access_step
<1>7. CASE UNCHANGED seVars
    BY <1>1, <1>7 DEF seVars
<1> QED BY <1>2, <1>3, <1>4, <1>5, <1>6, <1>7 DEF main

\* What a checkpoint reports is a number of hits and one of misses.
LEMMA ReportTypes ==
    ASSUME IInv, DcTypes, MainTypes, NEW next, log_machine_state(next)
    PROVE  /\ reported' \in [hits : Int, misses : Nat]
           /\ phase' = next \/ phase' = "SIGFPE"
<1>1. CASE Logs /\ cache.d = 0
    BY <1>1 DEF log_machine_state, MainTypes
<1>2. CASE ~Logs
    BY <1>2 DEF log_machine_state, MainTypes
<1>3. CASE Logs /\ cache.d # 0
  <2> DEFINE misses == counts.miss \div cache.d
  <2>1. cache.d \in Nat \ {0} /\ counts.miss \in Nat /\ counts.hit \in Nat
      BY <1>3 DEF Logs, IInv, DcInv, IsCache, DcTypes, Tally
  <2>2. misses \in Nat /\ counts.hit - misses \in Int
      BY <2>1
  <2>3. reported' = [hits |-> counts.hit - misses, misses |-> misses] /\ phase' = next
      BY <1>3 DEF log_machine_state
  <2> QED BY <2>2, <2>3
<1> QED BY <1>1, <1>2, <1>3

\* What main does leaves its own variables typed.
LEMMA MainTypesStep == IInv /\ MainTypes /\ DcTypes /\ [main]_seVars => MainTypes'
<1> SUFFICES ASSUME IInv, MainTypes, DcTypes, [main]_seVars PROVE MainTypes'
    OBVIOUS
<1>0. /\ Len(argv) \in Nat /\ optind \in 1..(Len(argv) + 1)
      /\ calls \in 0..MaxCalls /\ stored \in 0..calls /\ MaxCalls \in Nat
    BY EmulatorAssumption DEF MainTypes
<1>1. CASE read_option \/ open_fails
  <2>1. /\ optind <= Len(argv) /\ opts' = WithOption(Assigns(option))
        /\ outfile' = IF option.opt = "o" THEN option.val ELSE outfile
        /\ UNCHANGED <<argv, stored, reported, calls>>
        /\ optind' = optind + 1 \/ optind' = optind
        /\ phase' = phase \/ phase' = "init"
      BY <1>1 DEF read_option, open_fails, runVars
  <2>2. OptionOK(option) /\ optind' \in 1..(Len(argv') + 1)
      BY <1>0, <2>1 DEF option, MainTypes
  <2>3. opts' \in Globals /\ opts'.d < CycleVals
      BY <2>1, <2>2, OptionTypes DEF MainTypes
  <2>4. outfile' \in {"stdout", "file", "NULL"}
      BY <2>1, <2>2 DEF OptionOK, Geometry, MainTypes
  <2> QED BY <2>1, <2>2, <2>3, <2>4 DEF MainTypes
<1>2. CASE args_end \/ load_fails \/ load
    BY <1>2 DEF args_end, load_fails, load, runVars, MainTypes, Ends
<1>3. CASE init_no_cache \/ init_with_cache \/ init_dies
  <2>1. init_begin /\ phase' \in {"load", "SIGFPE"}
      BY <1>3 DEF init_no_cache, init_with_cache, init_dies
  <2>2. Len(<<>>) = 0 /\ DOMAIN <<>> = {}
      OBVIOUS
  <2>3. argv' = <<>> /\ optind' = 1 /\ outfile' = "stdout"
        /\ UNCHANGED <<opts, stored, reported, calls>>
      BY <2>1 DEF init_begin, runVars
  <2> QED BY <2>1, <2>2, <2>3 DEF MainTypes, Ends
<1>4. CASE mem_read \/ mem_write \/ io_write \/ null_write \/ null_read
           \/ checkpoint_read
  <2>1. /\ begin_access /\ calls' = calls + 1 /\ calls < MaxCalls /\ phase = "run"
        /\ UNCHANGED <<argv, optind, opts, outfile>>
        /\ stored' = stored \/ stored' = stored + 1
      BY <1>4 DEF mem_read, mem_write, io_write, null_write, null_read,
                  checkpoint_read, begin_access
  <2>2. calls' \in 0..MaxCalls /\ stored' \in 0..calls'
      BY <1>0, <2>1
  <2>3. /\ reported' \in [hits : Int, misses : Nat]
        /\ phase' \in {"run"} \cup Ends
    <3>1. CASE checkpoint_read
        BY <3>1, ReportTypes DEF checkpoint_read, Ends
    <3>2. CASE ~checkpoint_read
        BY <1>4, <2>1, <3>2 DEF mem_read, mem_write, io_write, null_write, null_read,
                                MainTypes, Ends
    <3> QED BY <3>1, <3>2
  <2> QED BY <2>1, <2>2, <2>3 DEF MainTypes
<1>5. CASE finalize
  <2>1. /\ UNCHANGED <<argv, optind, opts, outfile, stored, calls>>
        /\ log_machine_state("returned")
      BY <1>5 DEF finalize
  <2>2. /\ reported' \in [hits : Int, misses : Nat]
        /\ phase' \in Ends
      BY <2>1, ReportTypes DEF Ends
  <2> QED BY <2>1, <2>2 DEF MainTypes
<1>6. CASE access_step \/ UNCHANGED seVars
    BY <1>6 DEF access_step, seVars, mainVars, MainTypes
<1> QED BY <1>1, <1>2, <1>3, <1>4, <1>5, <1>6 DEF main, handle_args

\* A cache whose penalty inflight_cycles can hold is as CacheOK says.
LEMMA CacheTyped ==
    ASSUME NEW c, IsCache(c), c.d < CycleVals
    PROVE  CacheOK(c)
<1>1. c.d \in 0..(CycleVals - 1) /\ c.B \in Nat \ {0} /\ c.A \in Nat
    BY SpaceAssumption, DataCacheAssumption DEF IsCache
<1>2. /\ DOMAIN c.sets = 0..(NumSets(c) - 1)
      /\ \A s \in DOMAIN c.sets : c.sets[s] \in [1..c.A -> LineType(c.B)]
    BY DEF IsCache
<1>3. \A s \in DOMAIN c.sets :
         DOMAIN c.sets[s] = 1..c.A /\ \A k \in 1..c.A : LineOK(c.sets[s][k], c.B)
    BY <1>2 DEF LineOK, LineType
<1> QED BY <1>1, <1>2, <1>3 DEF CacheOK, IsCache

\* Typed, the machine is as MachineOK says.
LEMMA MachineTyped == IInv /\ MainTypes /\ DcTypes /\ HasSets => MachineOK
<1> SUFFICES ASSUME IInv, MainTypes, DcTypes, HasSets PROVE MachineOK
    OBVIOUS
<1>1. cache = NULL \/ CacheOK(cache)
    BY CacheTyped DEF IInv, DcInv, DcTypes
<1>2. DataCacheOK
    BY <1>1 DEF DataCacheOK, IInv, DcInv, DcTypes, HasSets, Tally
<1>3. calls \in 0..MaxCalls /\ stored \in 0..MaxCalls /\ printed \in 0..MaxCalls
  <2>1. calls \in 0..MaxCalls /\ stored \in 0..calls /\ printed \in {0, stored}
      BY DEF MainTypes, IInv
  <2> QED BY <2>1, EmulatorAssumption
<1> QED BY <1>2, <1>3 DEF MachineOK, MainTypes, IInv, Globals

----------------------------------------------------------------------------
(* Types: csim and the benches.                                            *)

\* The simulator's variables; its invariant holds until it ends.
SimTypes ==
    /\ sim_cache # NULL => IsCache(sim_cache) /\ sim_cache.d = 0
    /\ sim_counts \in Tally /\ summary \in Tally
    /\ replayed \in 0..Len(trace) /\ modifying \in BOOLEAN
    /\ sim_phase \in {"start", "replay"} \cup Ends
    /\ sim_phase \in {"start", "replay"} => CsimInv

\* An access leaves counts, whatever the cache.
LEMMA AccessTypes ==
    ASSUME NEW c, NEW a, NEW op, NEW m \in Tally, NEW s \in BOOLEAN,
           NEW r \in access_data(s, c, a, op, m)
    PROVE  r.counts \in Tally
<1>1. /\ Counted(s, m, "hit") \in Tally /\ Counted(s, m, "miss") \in Tally
      /\ \A line : CountEviction(Counted(s, m, "miss"), line) \in Tally
    BY CountTypes
<1>2. CASE check_hit(s, c, a)
    BY <1>1, <1>2 DEF access_data
<1>3. CASE ~check_hit(s, c, a)
  <2>1. PICK x \in handle_miss(s, c, a, op, Zeros(c.B), Counted(s, m, "miss")) :
                r.counts = x.counts
      BY <1>3 DEF access_data
  <2>2. \/ x.counts = Counted(s, m, "miss")
        \/ \E line : x.counts = CountEviction(Counted(s, m, "miss"), line)
      BY <2>1 DEF handle_miss
  <2> QED BY <1>1, <2>1, <2>2
<1> QED BY <1>2, <1>3

\* What csim does leaves its variables typed.
LEMMA SimTypesStep == SimTypes /\ [CsimNext]_csimVars => SimTypes'
<1> SUFFICES ASSUME SimTypes, [CsimNext]_csimVars PROVE SimTypes'
    OBVIOUS
<1>1. CASE UNCHANGED csimVars
    BY <1>1 DEF csimVars, SimTypes, CsimInv, Accounted, Half, entry
<1>2. CASE CsimNext
  <2>1. CsimInv /\ CsimInv'
    <3>1. sim_phase \in {"start", "replay"}
        BY <1>2 DEF CsimNext, print_usage, start, open_trace_fails, replay_access,
                    skip_line, print_summary, InTrace
    <3> QED BY <3>1, CsimStep DEF SimTypes
  <2>2. CASE print_usage \/ open_trace_fails
      BY <2>1, <2>2 DEF print_usage, open_trace_fails, SimTypes, Ends
  <2>3. CASE start
    <3>1. /\ \/ sim_cache' = sim_cache /\ sim_phase' = "SIGFPE"
             \/ sim_cache' = create_cache(args.A, args.B, args.C, 0)
                /\ sim_phase' = "replay"
          /\ UNCHANGED <<sim_counts, summary, replayed, trace, modifying>>
        BY <2>3 DEF start
    <3>2. sim_phase' = "replay" => IsCache(sim_cache')
        BY <2>1 DEF CsimInv
    <3>3. create_cache(args.A, args.B, args.C, 0).d = 0
        BY DEF create_cache
    <3> QED BY <2>1, <3>1, <3>2, <3>3 DEF SimTypes, Ends
  <2>4. CASE replay_access
    <3>1. /\ UNCHANGED <<summary, trace, sim_phase>> /\ sim_phase = "replay"
          /\ InTrace
          /\ \E op : access(op)
        BY <2>4 DEF replay_access, InTrace
    <3>2. PICK op : access(op)
        BY <3>1
    <3>3. PICK r \in access_data(sim_solved, sim_cache, entry.addr, op, sim_counts) :
                 sim_cache' = r.cache /\ sim_counts' = r.counts
        BY <3>2 DEF access
    <3>4. IsCache(sim_cache) /\ sim_solved \in BOOLEAN /\ entry.addr \in Addr
      <4>1. /\ IsCache(sim_cache) /\ sim_solved \in BOOLEAN /\ trace \in Traces
            /\ replayed \in 0..Len(trace) /\ replayed < Len(trace)
          BY <2>1, <3>1 DEF CsimInv, InTrace
      <4>2. replayed + 1 \in 1..Len(trace)
          BY <4>1, CsimAssumption
      <4> QED BY <4>1, <4>2, CsimAssumption DEF entry
    <3>5. sim_counts' \in Tally
        BY <3>3, <3>4, AccessTypes DEF SimTypes
    <3>6. IsCache(sim_cache') /\ sim_cache'.d = 0
        BY <3>3, <3>4, AccessShape, NotNull DEF SameShape, SimTypes
    <3>7. replayed' \in 0..Len(trace') /\ modifying' \in BOOLEAN
        BY <2>1, <3>1 DEF CsimInv
    <3> QED BY <2>1, <3>1, <3>5, <3>6, <3>7 DEF SimTypes
  <2>5. CASE skip_line
    <3>1. /\ UNCHANGED <<sim_cache, sim_counts, modifying, summary, sim_phase>>
          /\ sim_phase = "replay"
        BY <2>5 DEF skip_line, InTrace
    <3>2. replayed' \in 0..Len(trace')
        BY <2>1, <3>1 DEF CsimInv
    <3> QED BY <2>1, <3>1, <3>2 DEF SimTypes
  <2>6. CASE print_summary
      BY <2>1, <2>6 DEF print_summary, SimTypes, Ends
  <2> QED BY <1>2, <2>2, <2>3, <2>4, <2>5, <2>6 DEF CsimNext
<1> QED BY <1>1, <1>2

\* No bench is run, or one whose invariant holds.
TbSound == TbInv \/ BenchEnded

\* Either way its variables are typed ...
LEMMA TbTyped == TbSound => TestbenchOK
<1>1. ASSUME TbInv PROVE TestbenchOK
  <2>1. TbTypes
      BY <1>1 DEF TbInv
  <2>2. \A f \in DOMAIN files : files[f].data \in Results \cup {<<>>}
      BY <2>1 DEF TbTypes, FileType
  <2> QED BY <2>1, <2>2 DEF TbTypes, TestbenchOK
<1>2. ASSUME BenchEnded PROVE TestbenchOK
  <2>1. bench.tests = <<>> /\ files = <<>> /\ judged = <<>> /\ t = 1
        /\ prog = "ref" /\ died = {}
      BY <1>2 DEF BenchEnded
  <2>2. Len(<<>>) = 0 /\ DOMAIN <<>> = {}
      OBVIOUS
  <2>3. t \in 1..(Len(bench.tests) + 1) /\ Len(judged) = t - 1 /\ DOMAIN files = {}
      BY <2>1, <2>2
  <2> QED BY <2>1, <2>3 DEF TestbenchOK, Programs
<1> QED BY <1>1, <1>2 DEF TbSound

\* ... and a bench that has ended does nothing more.
LEMMA TbSoundStep == TbSound /\ [TestbenchNext]_tbVars => TbSound'
<1> SUFFICES ASSUME TbSound, [TestbenchNext]_tbVars PROVE TbSound'
    OBVIOUS
<1>1. CASE TbInv
    BY <1>1, TbStep DEF TbSound
<1>2. CASE BenchEnded
  <2>1. step = "timed out"
      BY <1>2 DEF BenchEnded
  <2>2. UNCHANGED tbVars
      BY <2>1 DEF TestbenchNext, remove_results, run_program, results_missing,
                  read_results, compare, diff, cleanup, add_scores, sigalrm_handler
  <2> QED BY <1>2, <2>2 DEF TbSound, BenchEnded, tbVars
<1> QED BY <1>1, <1>2 DEF TbSound

----------------------------------------------------------------------------
(* Types: whichever of the programs is run.                                *)

AllTypes == IInv /\ MainTypes /\ DcTypes /\ SimTypes /\ TbSound

\* Whichever program is run, se's variables begin typed.
LEMMA MachineStart ==
    EmulatorInit(Argvs, "args") \/ EmulatorInit({<<>>}, "returned")
        => IInv /\ MainTypes /\ DcTypes
<1> SUFFICES ASSUME NEW p, \/ EmulatorInit(Argvs, p) /\ p = "args"
                           \/ EmulatorInit({<<>>}, p) /\ p = "returned"
             PROVE  IInv /\ MainTypes /\ DcTypes
    OBVIOUS
<1>1. /\ Init(InitMem) /\ optind = 1 /\ opts = Defaults /\ outfile = "stdout"
      /\ terminate = FALSE /\ stored = 0 /\ printed = 0 /\ calls = 0
      /\ reported = [hits |-> 0, misses |-> 0] /\ phase = p
      /\ (p = "args" /\ argv \in Argvs) \/ (p = "returned" /\ argv = <<>>)
    BY DEF EmulatorInit
<1>2. DcInv
    BY <1>1, EmulatorAssumption DEF Init, DcInv
<1>3. IInv
  <2>1. \A k \in Geometry : k \in DOMAIN opts /\ opts[k] \in Addr \cup {-1}
      BY <1>1 DEF Defaults, Geometry
  <2>2. cache = NULL
      BY <1>1 DEF Init
  <2>3. /\ optind = 1 /\ terminate \in BOOLEAN /\ stored = 0 /\ printed = 0
        /\ phase = "args" => argv \in Argvs
        /\ phase \in {"args", "returned"}
      BY <1>1
  <2> QED BY <1>2, <2>1, <2>2, <2>3 DEF IInv
<1>4. MainTypes
  <2>1. /\ Len(argv) \in Nat /\ DOMAIN argv = 1..Len(argv)
        /\ \A n \in DOMAIN argv : OptionOK(argv[n])
    <3>1. CASE argv \in Argvs
        BY <3>1, EmulatorAssumption
    <3>2. CASE argv = <<>>
        BY <3>2
    <3> QED BY <1>1, <3>1, <3>2
  <2>2. opts \in Globals /\ opts.d < CycleVals
      BY <1>1, DataCacheAssumption DEF Defaults, Globals
  <2>3. calls \in 0..MaxCalls /\ stored \in 0..calls /\ optind \in 1..(Len(argv) + 1)
      BY <1>1, <2>1, EmulatorAssumption
  <2>4. reported \in [hits : Int, misses : Nat]
      BY <1>1
  <2> QED BY <1>1, <2>1, <2>2, <2>3, <2>4 DEF MainTypes, Ends
<1>5. DcTypes
    BY <1>1, SpaceAssumption, DataCacheAssumption
       DEF Init, DcTypes, NoCounts, Tally, Addr
<1> QED BY <1>3, <1>4, <1>5

\* machine.c, cache.c, csim.c and the test benches: whatever the command line,
\* the executable, the trace and the outcomes of the tests, and whichever of the
\* programs is run, its variables have the values they are declared for, once
\* the data cache, if there is one, has a set.
THEOREM ProgramsTyped == MCSpec => [](HasSets => TypeOK)
<1>1. MCInit => AllTypes
  <2> SUFFICES ASSUME MCInit PROVE AllTypes
      OBVIOUS
  <2>1. IInv /\ MainTypes /\ DcTypes
      BY MachineStart DEF MCInit
  <2>2. SimTypes
    <3>1. CASE CsimInit
      <4>1. CsimInv
          BY <3>1 DEF CsimInit, CsimInv
      <4>2. Len(trace) \in Nat /\ replayed = 0 /\ 0 \in 0..Len(trace)
          BY <3>1, CsimAssumption DEF CsimInit
      <4>3. sim_cache = NULL /\ sim_counts \in Tally /\ summary \in Tally
            /\ modifying = FALSE /\ sim_phase = "start"
          BY <3>1 DEF CsimInit, NoCounts, Tally
      <4> QED BY <4>1, <4>2, <4>3 DEF SimTypes
    <3>2. CASE SimEnded
      <4>1. Len(<<>>) = 0 /\ 0 \in 0..0
          OBVIOUS
      <4>2. replayed \in 0..Len(trace)
          BY <3>2, <4>1 DEF SimEnded
      <4>3. sim_cache = NULL /\ sim_counts \in Tally /\ summary \in Tally
            /\ modifying = FALSE /\ sim_phase = "returned"
          BY <3>2 DEF SimEnded, NoCounts, Tally
      <4> QED BY <4>2, <4>3 DEF SimTypes, Ends
    <3> QED BY <3>1, <3>2 DEF MCInit
  <2>3. TbSound
      BY TbStart DEF MCInit, TbSound
  <2> QED BY <2>1, <2>2, <2>3 DEF AllTypes
<1>2. AllTypes /\ [se \/ csim \/ testbench]_<<seVars, csimVars, tbVars>> => AllTypes'
  <2> SUFFICES ASSUME AllTypes, [se \/ csim \/ testbench]_<<seVars, csimVars, tbVars>>
               PROVE  AllTypes'
      OBVIOUS
  <2>1. [main]_seVars /\ [CsimNext]_csimVars /\ [TestbenchNext]_tbVars
      BY DEF se, csim, testbench
  <2> QED BY <2>1, StepInv, MainDcTypes, MainTypesStep, SimTypesStep, TbSoundStep
          DEF AllTypes
<1>3. AllTypes => (HasSets => TypeOK)
  <2> SUFFICES ASSUME AllTypes, HasSets PROVE TypeOK
      OBVIOUS
  <2>1. MachineOK /\ SimTypes /\ TestbenchOK
      BY MachineTyped, TbTyped DEF AllTypes
  <2>2. sim_cache = NULL \/ CacheOK(sim_cache)
      BY <2>1, CacheTyped, DataCacheAssumption DEF SimTypes
  <2> QED BY <2>1, <2>2 DEF TypeOK, SimTypes, Tally
<1> QED BY <1>1, <1>2, <1>3, PTL DEF MCSpec
=============================================================================
