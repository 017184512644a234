----------------------------- MODULE DataCache -----------------------------
(***************************************************************************)
(* _mem_read, _mem_write and the data cache between them and the memory    *)
(* (mem.c:151-275): the countdown of a miss that goes on from call to      *)
(* call, the fill of a block, and the write-back of the line it evicts.    *)
(* One action per call, per turn of the loop over the bytes of the access  *)
(* and per return.  The memory behind is the array of bytes that PageTable *)
(* implements.                                                             *)
(***************************************************************************)
EXTENDS Cache

CONSTANTS
    CycleVals,       \* number of values of inflight_cycles, 2^64
    DataStart        \* guest.mem->seg_start_addr[DATA_SEG]

VARIABLES
    bytes,           \* the memory
    solved,          \* whether cache.c's exercises are done
    cache,           \* guest.cache
    counts,          \* hit_count, miss_count, the eviction counts
    inflight, inflight_addr, inflight_cycles, dmem_status,
    req,             \* the access under way, or Idle
    i,               \* its loop counter
    data,            \* what _mem_read_cache returns unless get_word_cache
                     \* changes it
    result           \* what the last load returned

inflightVars == <<inflight, inflight_addr, inflight_cycles>>
dcVars == <<bytes, solved, cache, counts, inflightVars, dmem_status,
            req, i, data, result>>

ASSUME DataCacheAssumption ==
    /\ CycleVals \in Nat /\ CycleVals > 1
    /\ DataStart \in Addr

\* Static storage is zero: mem_status_t's first value is READY.
Init(mem) ==
    /\ bytes = mem
    /\ solved \in BOOLEAN
    /\ cache = NULL
    /\ counts = NoCounts
    /\ inflight = FALSE /\ inflight_addr = 0 /\ inflight_cycles = 0
    /\ dmem_status = "READY"
    /\ req = Idle /\ i = 0 /\ data = <<>> /\ result = <<>>

\* init_machine, when the four parameters are given.
init_cache(A, B, C, d) ==
    /\ cache' = create_cache(A, B, C, d)
    /\ inflight_cycles' = d /\ inflight_addr' = 0 /\ inflight' = FALSE
    /\ dmem_status' = "READY"
    /\ UNCHANGED <<bytes, solved, counts, req, i, data, result>>

----------------------------------------------------------------------------
(* The calls.  Instructions and other addresses below the data segment go  *)
(* to memory, and leave dmem_status as it is.                              *)

Cached(addr) == cache # NULL /\ addr >= DataStart

Word(m, addr, w) == [n \in 1..w |-> m[Plus(addr, n - 1)]]

mem_read_uncached(addr, w) ==
    /\ req = Idle /\ ~Cached(addr)
    /\ result' = Word(bytes, addr, w)
    /\ UNCHANGED <<bytes, solved, cache, counts, inflightVars, dmem_status,
                   req, i, data>>

mem_write_uncached(addr, val) ==
    /\ req = Idle /\ ~Cached(addr)
    /\ bytes' = Overlay(bytes, addr, 0, val)
    /\ UNCHANGED <<solved, cache, counts, inflightVars, dmem_status,
                   req, i, data, result>>

mem_read_cached(addr, w) ==
    /\ req = Idle /\ Cached(addr)
    /\ req' = [kind |-> "read", addr |-> addr, width |-> w]
    /\ i' = 0 /\ data' = Zeros(w)
    /\ UNCHANGED <<bytes, solved, cache, counts, inflightVars, dmem_status,
                   result>>

mem_write_cached(addr, val) ==
    /\ req = Idle /\ Cached(addr)
    /\ req' = [kind |-> "write", addr |-> addr, data |-> val]
    /\ i' = 0
    /\ UNCHANGED <<bytes, solved, cache, counts, inflightVars, dmem_status,
                   data, result>>

----------------------------------------------------------------------------
(* The loop over the bytes.                                                *)

Reading == req.kind = "read"
Op == IF Reading THEN "READ" ELSE "WRITE"
Width == IF Reading THEN req.width ELSE Len(req.data)
current_address == Plus(req.addr, i)
block_address == BlockOf(cache, current_address)
InLoop == req # Idle /\ i < Width
Hits == check_hit(solved, cache, current_address)

\* Mutants: a miss of another block goes on with the countdown; the first
\* miss is taken off the penalty twice.
Cycles_any ==
    LET before == IF inflight THEN inflight_cycles ELSE cache.d
    IN IF before = 0 THEN CycleVals - 1 ELSE before - 1
Cycles_first ==
    LET before == IF inflight /\ inflight_addr = block_address
                  THEN inflight_cycles ELSE cache.d - 1
    IN IF before <= 0 THEN CycleVals - 1 ELSE before - 1

\* inflight_cycles after the decrement, in unsigned arithmetic.
Cycles ==
    LET before == IF inflight /\ inflight_addr = block_address
                  THEN inflight_cycles ELSE cache.d
    IN IF before = 0 THEN CycleVals - 1 ELSE before - 1

Missed == Counted(solved, counts, "miss")

byte_hit ==
    /\ InLoop /\ Hits
    /\ cache' = HitLine(cache, current_address, Op)
    /\ counts' = Counted(solved, counts, "hit")
    /\ i' = i + 1
    /\ UNCHANGED <<bytes, solved, inflightVars, dmem_status, req, data, result>>

\* The access is given up; a load returns 0, and its caller goes on with it.
byte_wait ==
    /\ InLoop /\ ~Hits /\ Cycles > 0
    /\ inflight' = TRUE
    /\ inflight_addr' = block_address
    /\ inflight_cycles' = Cycles
    /\ counts' = Missed
    /\ dmem_status' = "IN_FLIGHT"
    /\ result' = IF Reading THEN Zeros(Width) ELSE result
    /\ req' = Idle /\ i' = 0 /\ data' = <<>>
    /\ UNCHANGED <<bytes, solved, cache>>

\* A load fills with the block of the word's first byte, whichever byte
\* missed; a store with the block that missed.
FillFrom == IF Reading THEN BlockOf(cache, req.addr) ELSE block_address

\* *((uint64_t *)block + off): off counts words, not bytes, and may lead
\* beyond the block.
CastWord(incoming) ==
    LET off == (req.addr % cache.B) * Width
    IN [n \in 1..Width |-> IF off + Width <= cache.B THEN incoming[off + n]
                           ELSE Unknown]

\* Mutant: a dirty line is dropped.
byte_fill_drop ==
    /\ InLoop /\ ~Hits /\ Cycles = 0
    /\ inflight' = FALSE
    /\ inflight_addr' = block_address
    /\ inflight_cycles' = Cycles
    /\ LET incoming == Word(bytes, FillFrom, cache.B)
       IN /\ \E m \in handle_miss(solved, cache, current_address, Op, incoming,
                                  Missed) :
                /\ cache' = m.cache /\ counts' = m.counts
                /\ bytes' = bytes
          /\ data' = IF Reading THEN CastWord(incoming) ELSE data
    /\ i' = i + 1
    /\ UNCHANGED <<solved, dmem_status, req, result>>

byte_fill ==
    /\ InLoop /\ ~Hits /\ Cycles = 0
    /\ inflight' = FALSE
    /\ inflight_addr' = block_address
    /\ inflight_cycles' = Cycles
    /\ LET incoming == Word(bytes, FillFrom, cache.B)
       IN /\ \E m \in handle_miss(solved, cache, current_address, Op, incoming,
                                  Missed) :
                /\ cache' = m.cache /\ counts' = m.counts
                /\ bytes' = IF m.evicted.valid /\ m.evicted.dirty
                            THEN Overlay(bytes, m.evicted.addr, 0,
                                         m.evicted.data)
                            ELSE bytes
          /\ data' = IF Reading THEN CastWord(incoming) ELSE data
    /\ i' = i + 1
    /\ UNCHANGED <<solved, dmem_status, req, result>>

access_return ==
    /\ req # Idle /\ i = Width
    /\ IF Reading
       THEN /\ result' \in get_word_cache(solved, cache, req.addr, data)
            /\ cache' = cache
       ELSE /\ cache' = set_word_cache(solved, cache, req.addr, req.data)
            /\ result' = result
    /\ dmem_status' = "READY"
    /\ req' = Idle /\ i' = 0 /\ data' = <<>>
    /\ UNCHANGED <<bytes, solved, counts, inflightVars>>

----------------------------------------------------------------------------
(* Properties.                                                             *)

LineOK(line, B) ==
    line \in [valid : BOOLEAN, tag : Addr, dirty : BOOLEAN,
              data : [1..B -> Bytes]]
CacheOK(c) ==
    /\ c.A \in Nat /\ c.B \in Nat \ {0} /\ c.C \in Nat
    /\ c.d \in 0..(CycleVals - 1)
    /\ DOMAIN c.sets = 0..(NumSets(c) - 1)
    /\ \A s \in DOMAIN c.sets :
        /\ DOMAIN c.sets[s] = 1..c.A
        /\ \A k \in 1..c.A : LineOK(c.sets[s][k], c.B)

DataCacheOK ==
    /\ bytes \in [Addr -> Bytes]
    /\ solved \in BOOLEAN
    /\ cache = NULL \/ CacheOK(cache)
    /\ counts \in [hit : Nat, miss : Nat, dirty : Nat, clean : Nat]
    /\ inflight \in BOOLEAN /\ inflight_addr \in Addr
    /\ inflight_cycles \in 0..(CycleVals - 1)
    /\ dmem_status \in {"READY", "IN_FLIGHT"}
    /\ req \in Reads \cup Writes \cup {Idle}
    /\ i \in 0..AddrSpace
    /\ data \in Seq(Bytes \cup {Unknown}) /\ result \in Seq(Bytes)

\* What a miss takes: a penalty of 0 is decremented before it is tested.
Penalty == IF cache.d = 0 THEN CycleVals ELSE cache.d

Lines == {cache.sets[p[1]][p[2]] : p \in InUse(cache)}
HeldBlocks == IF cache = NULL THEN {} ELSE {line.tag : line \in Lines}

\* mem.c:160-175 and 224-237: the countdown in inflight_addr, inflight_cycles
\* and inflight, shared by loads and stores and restarted by each other's
\* misses, keeps what MissDelay promises: a block comes with the d-th call in
\* a row that misses it, neither earlier nor later.
Delay == INSTANCE MissDelay WITH
    Blocks <- Addr,
    delay <- IF cache = NULL THEN 0 ELSE Penalty,
    resident <- HeldBlocks,
    block <- inflight_addr,
    waited <- IF inflight THEN Penalty - inflight_cycles ELSE 0
DelayedMisses == Delay!Spec

\* Memory as the program sees it.
Contents == [a \in Addr |->
    IF Cached(a) /\ solved /\ Resident(cache, a)
    THEN ByteIn(cache, a) ELSE bytes[a]]

\* The cache has sets, and blocks that divide the data segment and the address
\* space, as powers of two do.
Aligned ==
    /\ NumSets(cache) > 0
    /\ DataStart % cache.B = 0 /\ AddrSpace % cache.B = 0

\* A line holds a block of the data segment, if clean as memory holds it.
LinesMatch ==
    \A line \in Lines :
        /\ line.tag >= DataStart
        /\ line.dirty \/ line.data = Word(bytes, line.tag, cache.B)

\* The access lies in one block.
InOneBlock ==
    \A n \in 0..(Width - 1) :
        BlockOf(cache, Plus(req.addr, n)) = BlockOf(cache, req.addr)

Served == req # Idle /\ req' = Idle /\ dmem_status' = "READY"

\* mem.c:151-263: with the exercises of cache.c done, misses, fills, evictions
\* and write-backs change nothing the program can load; a store does once it
\* is served, and not when it is given up; a load that is served returns what
\* the program has stored.  Only a load of a word that lies in two blocks
\* (mem.c:179), or an access across the end of the address space, puts a line
\* in the cache that breaks LinesMatch.
CacheIsTransparent ==
    [][ (solved /\ req # Idle /\ Aligned /\ InOneBlock /\ LinesMatch) =>
          /\ LinesMatch'
          /\ Contents' = IF Served /\ ~Reading
                         THEN Overlay(Contents, req.addr, 0, req.data)
                         ELSE Contents
          /\ Served /\ Reading => result' = Word(Contents, req.addr, Width)
      ]_dcVars

\* mem.c:158-166: with the stubs every byte of an access misses anew, so that
\* with a penalty of two or more (or 0) no access to data is ever served.
StubsNeverServe ==
    [][ (req # Idle /\ ~solved /\ Width > 1 /\ cache.d # 1) => ~Served ]_dcVars
=============================================================================
