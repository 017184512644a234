-------------------------------- MODULE Csim --------------------------------
(***************************************************************************)
(* csim: replays a trace of loads, stores and modifies against a cache and *)
(* prints what cache.c has counted (csim.c).  Data and penalty play no     *)
(* part.                                                                   *)
(***************************************************************************)
EXTENDS Cache

CONSTANTS
    CsimArgs,        \* the command lines: the options' values by name, -1 or
                     \* "NULL" for one not given
    Traces           \* the trace files, sequences of [op, addr]

\* A number is what atoi makes of the argument, an int: less than 2^64, and
\* -1 is as good as none.
ASSUME CsimAssumption ==
    /\ \A a \in CsimArgs : \A k \in {"A", "B", "C"} : a[k] \in Addr \cup {-1}
    /\ \A f \in Traces : /\ Len(f) \in Nat /\ DOMAIN f = 1..Len(f)
                         /\ \A n \in 1..Len(f) : f[n].addr \in Addr

VARIABLES
    sim_solved, sim_cache, sim_counts,      \* see DataCache
    args,            \* the options as parsed
    trace,           \* the trace file
    replayed,        \* the lines of it replayed
    modifying,       \* a modify has loaded and not yet stored
    summary,         \* what printSummary prints
    sim_phase        \* where main is

csimVars == <<sim_solved, sim_cache, sim_counts, args, trace, replayed,
              modifying, summary, sim_phase>>

\* main and create_cache: a parameter or the trace missing, and -h, print the
\* usage.
CsimInit ==
    /\ sim_solved \in BOOLEAN
    /\ sim_cache = NULL /\ sim_counts = NoCounts
    /\ args \in CsimArgs /\ trace \in Traces
    /\ replayed = 0 /\ modifying = FALSE
    /\ summary = NoCounts
    /\ sim_phase = "start"

Missing == args.help \/ args.t = "NULL" \/ \E k \in {"A", "B", "C"} : args[k] = -1

print_usage ==
    /\ sim_phase = "start" /\ Missing
    /\ sim_phase' = "exited"
    /\ UNCHANGED <<sim_solved, sim_cache, sim_counts, args, trace, replayed,
                   modifying, summary>>

start ==
    /\ sim_phase = "start" /\ ~Missing
    /\ IF args.A * args.B = 0
       THEN sim_phase' = "SIGFPE" /\ UNCHANGED sim_cache
       ELSE sim_phase' = "replay" /\ sim_cache' = create_cache(args.A, args.B, args.C, 0)
    /\ UNCHANGED <<sim_solved, sim_counts, args, trace, replayed, modifying,
                   summary>>

open_trace_fails ==
    /\ sim_phase = "replay" /\ args.t = "missing"
    /\ sim_phase' = "exited"
    /\ UNCHANGED <<sim_solved, sim_cache, sim_counts, args, trace, replayed,
                   modifying, summary>>

InTrace == sim_phase = "replay" /\ args.t # "missing" /\ replayed < Len(trace)
entry == trace[replayed + 1]

\* The accesses a line stands for, in order; other lines stand for none.
Ops(op) ==
    CASE op = "S" -> <<"WRITE">>
      [] op = "L" -> <<"READ">>
      [] op = "M" -> <<"READ", "WRITE">>
      [] OTHER -> <<>>

access(op) ==
    \E r \in access_data(sim_solved, sim_cache, entry.addr, op, sim_counts) :
        sim_cache' = r.cache /\ sim_counts' = r.counts

\* Mutant: a modify goes on to the line after it without its store.
replay_access_single ==
    /\ InTrace /\ Ops(entry.op) # <<>>
    /\ access(Ops(entry.op)[1])
    /\ replayed' = replayed + 1
    /\ UNCHANGED <<sim_solved, args, trace, modifying, summary, sim_phase>>

replay_access ==
    /\ InTrace /\ Ops(entry.op) # <<>>
    /\ LET n == IF modifying THEN 2 ELSE 1
       IN /\ access(Ops(entry.op)[n])
          /\ IF n < Len(Ops(entry.op))
             THEN modifying' = TRUE /\ UNCHANGED replayed
             ELSE modifying' = FALSE /\ replayed' = replayed + 1
    /\ UNCHANGED <<sim_solved, args, trace, summary, sim_phase>>

skip_line ==
    /\ InTrace /\ Ops(entry.op) = <<>>
    /\ replayed' = replayed + 1
    /\ UNCHANGED <<sim_solved, sim_cache, sim_counts, args, trace, modifying,
                   summary, sim_phase>>

print_summary ==
    /\ sim_phase = "replay" /\ args.t # "missing" /\ replayed = Len(trace)
    /\ summary' = sim_counts
    /\ sim_cache' = NULL
    /\ sim_phase' = "returned"
    /\ UNCHANGED <<sim_solved, sim_counts, args, trace, replayed, modifying>>

CsimNext ==
    \/ print_usage \/ start \/ open_trace_fails
    \/ replay_access \/ skip_line \/ print_summary

CsimSpec == CsimInit /\ [][CsimNext]_csimVars

----------------------------------------------------------------------------
(* Properties.                                                             *)

LinesOf(op) == {n \in 1..replayed : trace[n].op = op}

\* csim.c:73-87: while the trace is replayed against a cache that has a set,
\* hits and misses make up its accesses, two for a modify; a modify misses once
\* at most; and every block brought in by a miss is still there or counted as
\* evicted.
TraceAccounted ==
    (sim_phase = "replay" /\ sim_solved /\ NumSets(sim_cache) > 0) =>
        LET accesses == Cardinality(LinesOf("L")) + Cardinality(LinesOf("S"))
                        + 2 * Cardinality(LinesOf("M"))
                        + (IF modifying THEN 1 ELSE 0)
        IN /\ sim_counts.hit + sim_counts.miss = accesses
           /\ sim_counts.miss <= replayed + (IF modifying THEN 1 ELSE 0)
           /\ sim_counts.miss = sim_counts.dirty + sim_counts.clean
                                + Cardinality(InUse(sim_cache))
=============================================================================
