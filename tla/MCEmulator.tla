----------------------------- MODULE MCEmulator -----------------------------
(***************************************************************************)
(* The programs around the cache, for TLC: se and csim, which use cache.c, *)
(* and the benches that test them.  In each behaviour one of the three is  *)
(* run; the others have ended before it began.                             *)
(* Eight bytes are two here: a word has two bytes, memory has twelve, and  *)
(* the data segment begins at 4.                                           *)
(***************************************************************************)
EXTENDS Emulator, Csim, Testbench

----------------------------------------------------------------------------
(* The instance.                                                           *)

MCMem == [a \in Addr |-> a % 3]

Opt(o, v) == <<[opt |-> o, val |-> v]>>
Cached4(A, B, C, d) == Opt("A", A) \o Opt("B", B) \o Opt("C", C) \o Opt("d", d)
Run == Opt("i", "file")

\* Executables run without a cache, and with one of each geometry; with a
\* checkpoint, or not.
Caches(ds) == {Cached4(p[1], p[2], p[3], d) :
    p \in {<<1, 2, 4>>, <<2, 2, 4>>, <<1, 4, 4>>}, d \in ds}
Runs == {Run \o g : g \in {<<>>} \cup Caches({0, 3})}
    \cup {Run \o Opt("c", "file") \o g : g \in {<<>>} \cup Caches({0, 1, 2})}

\* Files that cannot be opened, before and behind -i.
Failures == {Run \o Opt("o", "NULL"), Run \o Opt("c", "NULL"),
             Opt("o", "NULL") \o Run, Run \o Opt("o", "file")}

\* Options in any order and number; no executable.
Words == {[opt |-> "A", val |-> 2], [opt |-> "f", val |-> 0],
          [opt |-> "f", val |-> 1], [opt |-> "B", val |-> 2],
          [opt |-> "C", val |-> 4], [opt |-> "d", val |-> 2],
          [opt |-> "o", val |-> "NULL"]}
Orders == UNION {[1..n -> Words] : n \in 0..4}

MCArgvs == Runs \cup Failures \cup Orders

MCAccesses ==
    [kind : {"read"}, addr : {0, 4, 7}, width : {2}]
      \cup [kind : {"write"}, addr : {0, 4, 8}, data : {<<2, 2>>}]
      \cup [kind : {"write"}, addr : {7}, data : {<<1, 2>>}]

MCCsimArgs ==
    [A : {1, 2}, B : {2}, C : {4}, t : {"trace"}, help : {FALSE}]
      \cup [A : {-1, 0}, B : {2}, C : {4}, t : {"trace"}, help : {FALSE}]
      \cup [A : {1}, B : {2}, C : {4}, t : {"NULL", "missing"}, help : {FALSE}]
      \cup [A : {1}, B : {2}, C : {4}, t : {"trace"}, help : {TRUE}]

Entries == [op : {"L", "S", "M"}, addr : {0, 3, 4}] \cup [op : {"I"}, addr : {0}]
MCTraces == UNION {[1..n -> Entries] : n \in 0..3}

----------------------------------------------------------------------------

Test(d, n) == [dir |-> d, name |-> n]
MCResults == {<<0, 0>>, <<0, 1>>, <<1, 1>>}
MCBenches ==
    {[program |-> "csim", tests |-> <<Test(1, "yi"), Test(2, "long")>>,
      weights |-> <<1, 2>>, week |-> 0]}
    \cup [program : {"se"},
          tests : {<<Test(1, "add"), Test(2, "add"), Test(2, "sub")>>},
          weights : {<<1, 3>>}, week : {1, 2}]

----------------------------------------------------------------------------

\* se and csim are linked with the same cache.c.
SimEnded ==
    /\ sim_cache = NULL /\ sim_counts = NoCounts /\ args = <<>>
    /\ trace = <<>> /\ replayed = 0 /\ modifying = FALSE
    /\ summary = NoCounts /\ sim_phase = "returned"
BenchEnded ==
    /\ bench = [tests |-> <<>>, program |-> "none"]
    /\ files = <<>> /\ t = 1 /\ step = "timed out" /\ prog = "ref"
    /\ died = {} /\ got = <<>> /\ judged = <<>> /\ score = 0

MCInit ==
    /\ \/ EmulatorInit(Argvs, "args") /\ SimEnded /\ BenchEnded
       \/ EmulatorInit({<<>>}, "returned") /\ CsimInit /\ BenchEnded
       \/ EmulatorInit({<<>>}, "returned") /\ SimEnded /\ TestbenchInit
    /\ sim_solved = solved

se == main /\ UNCHANGED <<csimVars, tbVars>>
csim == CsimNext /\ UNCHANGED <<seVars, tbVars>>
testbench == TestbenchNext /\ UNCHANGED <<seVars, csimVars>>

MCSpec == MCInit /\ [][se \/ csim \/ testbench]_<<seVars, csimVars, tbVars>>

TypeOK ==
    /\ MachineOK
    /\ sim_cache = NULL \/ CacheOK(sim_cache)
    /\ sim_counts \in [hit : Nat, miss : Nat, dirty : Nat, clean : Nat]
    /\ summary \in [hit : Nat, miss : Nat, dirty : Nat, clean : Nat]
    /\ replayed \in 0..Len(trace) /\ modifying \in BOOLEAN
    /\ sim_phase \in {"start", "replay"} \cup Ends
    /\ TestbenchOK
=============================================================================
