------------------------------- MODULE Cache -------------------------------
(***************************************************************************)
(* cache.c.  The repository ships create_cache and access_data complete    *)
(* and leaves check_hit, handle_miss, get_word_cache and set_word_cache as *)
(* exercises: their stubs miss always, fill nothing and return nothing.    *)
(* Each of them is given twice here, as the stub (solved = FALSE) and as a *)
(* solution that serves the calls mem.c and csim.c make (solved = TRUE).   *)
(* A solution may evict any line of the set.                               *)
(***************************************************************************)
EXTENDS AddressSpace, FiniteSets

CONSTANT
    Garbage          \* bound: addresses an evicted line not set may hold

ASSUME GarbageAssumption == Garbage \subseteq Addr

NULL == [B |-> 0]

Zeros(n) == [k \in 1..n |-> 0]
EmptyLine(B) ==
    [valid |-> FALSE, tag |-> 0, dirty |-> FALSE, data |-> Zeros(B)]

NumSets(c) == c.C \div (c.A * c.B)

\* Mutant: as many sets as there are blocks.
create_cache_blocks(A, B, C, d) ==
    [A |-> A, B |-> B, C |-> C, d |-> d,
     sets |-> [s \in 0..((C \div B) - 1) |->
                    [k \in 1..A |-> EmptyLine(B)]]]

create_cache(A, B, C, d) ==
    [A |-> A, B |-> B, C |-> C, d |-> d,
     sets |-> [s \in 0..((C \div (A * B)) - 1) |->
                    [k \in 1..A |-> EmptyLine(B)]]]

\* addr & ~(B-1), for a B that is a power of two.
BlockOf(c, addr) == addr - (addr % c.B)

\* hit_count, miss_count and the counts of evictions; only solutions count.
NoCounts == [hit |-> 0, miss |-> 0, dirty |-> 0, clean |-> 0]
Count(counts, k) == [counts EXCEPT ![k] = @ + 1]
Counted(solved, counts, k) == IF solved THEN Count(counts, k) ELSE counts

----------------------------------------------------------------------------
(* The solution.  A line's tag is the address of its block.                *)

SetOf(c, addr) == (addr \div c.B) % NumSets(c)
Holds(c, addr) == {k \in 1..c.A :
    LET line == c.sets[SetOf(c, addr)][k]
    IN line.valid /\ line.tag = BlockOf(c, addr)}
Resident(c, addr) == Holds(c, addr) # {}
LineOf(c, addr) == c.sets[SetOf(c, addr)][CHOOSE k \in Holds(c, addr) : TRUE]

\* The lines in use, by set and way.
InUse(c) ==
    {p \in (0..(NumSets(c) - 1)) \X (1..c.A) : c.sets[p[1]][p[2]].valid}

\* A write that hits makes the line dirty.
HitLine(c, addr, op) ==
    IF op = "READ" \/ ~Resident(c, addr) THEN c
    ELSE LET k == CHOOSE w \in Holds(c, addr) : TRUE
         IN [c EXCEPT !.sets[SetOf(c, addr)][k].dirty = TRUE]

Fill(c, addr, op, incoming, k) ==
    [c EXCEPT !.sets[SetOf(c, addr)][k] =
        [valid |-> TRUE, tag |-> BlockOf(c, addr), dirty |-> op = "WRITE",
         data |-> incoming]]

CountEviction(counts, line) ==
    IF ~line.valid THEN counts
    ELSE IF line.dirty THEN Count(counts, "dirty") ELSE Count(counts, "clean")

ByteIn(c, addr) == LineOf(c, addr).data[(addr % c.B) + 1]

----------------------------------------------------------------------------
(* The functions, stub or solution.                                        *)

\* Mutant: the stub's return value is not NULL.
check_hit_true(solved, c, addr) == IF solved THEN Resident(c, addr) ELSE TRUE

check_hit(solved, c, addr) == IF solved THEN Resident(c, addr) ELSE FALSE

\* handle_miss: the cache after it, the line it reports as evicted, the
\* counts.  The stub's result is a malloc'ed struct whose fields it does not
\* set, but for the zeroed data.
handle_miss(solved, c, addr, op, incoming, counts) ==
    IF solved
    THEN {LET old == c.sets[SetOf(c, addr)][k]
          IN [cache |-> Fill(c, addr, op, incoming, k),
              evicted |-> [valid |-> old.valid, dirty |-> old.dirty,
                           addr |-> old.tag, data |-> old.data],
              counts |-> CountEviction(counts, old)] : k \in 1..c.A}
    ELSE {[cache |-> c, evicted |-> e, counts |-> counts] :
             e \in [valid : BOOLEAN, dirty : BOOLEAN, addr : Garbage,
                    data : {Zeros(c.B)}]}

\* get_word_cache: the words *dest may hold after it.  The stub leaves *dest
\* alone, whose bytes may be unknown; so is, for a solution, a byte whose
\* block is not there.
Unknown == -1
get_word_cache(solved, c, addr, dest) ==
    LET Known(n) ==
            IF ~solved THEN {dest[n]} \ {Unknown}
            ELSE IF Resident(c, Plus(addr, n - 1))
                 THEN {ByteIn(c, Plus(addr, n - 1))} ELSE {}
    IN {w \in [DOMAIN dest -> Bytes] :
           \A n \in DOMAIN dest : Known(n) # {} => w[n] \in Known(n)}

\* set_word_cache: bytes whose block is not there are lost.
Updated(line, addr, val) ==
    LET At(n) == Offset(addr, Plus(line.tag, n - 1)) + 1
    IN [line EXCEPT !.data =
           [n \in DOMAIN line.data |->
               IF line.valid /\ At(n) \in DOMAIN val THEN val[At(n)]
               ELSE line.data[n]]]
set_word_cache(solved, c, addr, val) ==
    IF ~solved THEN c
    ELSE [c EXCEPT !.sets =
            [s \in DOMAIN c.sets |->
                [k \in 1..c.A |-> Updated(c.sets[s][k], addr, val)]]]

\* access_data, with the counts check_hit and handle_miss keep: what csim
\* makes of one access.
access_data(solved, c, addr, op, counts) ==
    IF check_hit(solved, c, addr)
    THEN {[cache |-> HitLine(c, addr, op),
           counts |-> Counted(solved, counts, "hit")]}
    ELSE {[cache |-> m.cache, counts |-> m.counts] :
             m \in handle_miss(solved, c, addr, op, Zeros(c.B),
                                   Counted(solved, counts, "miss"))}
=============================================================================
