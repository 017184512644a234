----------------------------- MODULE ImageProof -----------------------------
(***************************************************************************)
(* What is loaded is in memory and what is logged was, for every           *)
(* executable, page size, hash function and sequence of accesses.          *)
(***************************************************************************)
EXTENDS Image, PageChainsProof

----------------------------------------------------------------------------
(* The invariant.                                                          *)

\* Where an access under way stands.
Underway ==
    /\ req \in Reads \cup Writes \cup {Idle}
    /\ req.kind = "read" => i \in -1..(req.width - 1)
    /\ req.kind = "write" => i \in 0..Len(req.data)
    /\ req = Idle => i = 0
    /\ retval \in Seq(Bytes) /\ result \in Seq(Bytes)

Control ==
    /\ image \in Images
    /\ phase \in {"copy", "bss", "sections", "run", "log", "done"}
    /\ ph \in DOMAIN image.headers /\ j \in Nat
    /\ seg_start_addr \in [SectionNames -> Addr]
    /\ accesses \in 0..MaxAccess
    /\ phase \in {"copy", "bss", "sections"} => accesses = 0
    /\ accesses = 0 \/ phase # "run" => req = Idle

Loading == phase \in {"copy", "bss", "sections"} \/ Started

\* The byte of memory that byte k of segment h is for.
Here(h, k) == image.headers[h].vaddr + k

\* Segments up to the one being copied are in memory, as far as it has come.
Loaded ==
    Loading => \A h \in 1..ph : \A k \in 0..(image.headers[h].filesz - 1) :
        h < ph \/ phase # "copy" \/ k < j =>
            Memory[Here(h, k)] = image.file[image.headers[h].offset + k + 1]

\* Nothing else is, but what is copied beyond their ends.
Reach(h) == image.headers[h].vaddr + image.headers[h].filesz
              + (image.headers[h].vaddr % PAGESIZE)
Untouched ==
    Loading => \A a \in Addr : Memory[a] # 0 =>
        \E g \in 1..ph : a \in image.headers[g].vaddr..(Reach(g) - 1)

AllHeaders ==
    phase \notin {"copy", "bss"} => ph = Len(image.headers)

\* Where a walk stands.  That of the heap ends where it begins.
Walking ==
    /\ addr \in Addr /\ page_num \in PageNums /\ section \in DOMAIN Sections
    /\ phase = "log" =>
        IF Sections[section] = "HEAP" THEN ~Present(page_num)
        ELSE addr % PAGESIZE = 0 /\ page_num = addr \div PAGESIZE

Lines == [addr : Addr, data : [1..WordBytes -> Bytes]]
Written ==
    /\ lines \subseteq Lines
    /\ phase \notin {"log", "done"} => lines = {}
    /\ LinesAreMemory

\* The non-zero bytes of a page are logged.
PageLogged(n) == \A a \in Addr : pnum(a) = n /\ Memory[a] # 0 => Logged(a)

Start(sec) == first_addr(sec) \div PAGESIZE
Side(sec) ==
    {n \in PageNums : IF sec = "STACK" THEN n <= Start(sec) ELSE n >= Start(sec)}

\* The pages of a section that are connected to its start are logged.
Walked(sec) ==
    \A n \in Side(sec) : Connected(Start(sec), n) => PageLogged(n)

\* The pages between the start of a section and where the walk stands are
\* logged, or, once the walk has gone round the address space, all on its side.
Walk(sec) ==
    \/ /\ page_num \in Side(sec)
       /\ \A n \in Side(sec) :
            PageLogged(n) \/ (IF sec = "STACK" THEN n <= page_num ELSE n >= page_num)
    \/ \A n \in Side(sec) : PageLogged(n)

Walks ==
    /\ phase = "log" =>
        /\ \A s \in 1..(section - 1) :
            Sections[s] # "HEAP" => Walked(Sections[s])
        /\ Sections[section] # "HEAP" => Walk(Sections[section])
    /\ phase = "done" => \A s \in DOMAIN Sections :
            Sections[s] # "HEAP" => Walked(Sections[s])

MemoryInv == Good(ptable) /\ Underway
LoadInv == Loaded /\ Untouched /\ AllHeaders
LogInv == Walking /\ Written /\ Walks
IInv == MemoryInv /\ Control /\ LoadInv /\ LogInv

----------------------------------------------------------------------------
(* The pages of PageTable are those of PageChains.                         *)

\* PageTable's operators are the ones Image uses itself.
LEMMA SamePages ==
    /\ Mem!Addr = Addr /\ Mem!Buckets = Buckets /\ Mem!Pages = Pages
    /\ Mem!Reads = Reads /\ Mem!Writes = Writes /\ Mem!Idle = Idle
    /\ \A pt, a, b : /\ Mem!ByteAt(pt, a) = ByteAt(pt, a)
                     /\ Mem!SetByte(pt, a, b) = SetByte(pt, a, b)
                     /\ Mem!Plus(a, b) = Plus(a, b) /\ Mem!pnum(a) = pnum(a)
    /\ \A pt, n, p : Mem!Touch(pt, n, p) = Touch(pt, n, p)
<1>1. /\ Mem!Addr = Addr /\ Mem!Buckets = Buckets /\ Mem!Pages = Pages
      /\ Mem!Reads = Reads /\ Mem!Writes = Writes /\ Mem!Idle = Idle
    BY DEF Mem!Addr, Addr, Mem!Buckets, Buckets, Mem!Pages, Pages, Mem!PageNums,
           PageNums, Mem!Prots, Prots, Mem!Offsets, Offsets, Mem!Reads, Reads,
           Mem!Writes, Writes, Mem!Data, Data, Mem!Idle, Idle
<1>2. \A pt, n : Mem!get_page(pt, n) = get_page(pt, n)
    BY DEF Mem!get_page, get_page
<1>3. \A pt, a : Mem!ByteAt(pt, a) = ByteAt(pt, a)
    BY <1>2 DEF Mem!ByteAt, ByteAt, Mem!Page, Page, Mem!pnum, pnum, Mem!poff, poff
<1>4. \A pt, a, b : Mem!SetByte(pt, a, b) = SetByte(pt, a, b)
    BY <1>2 DEF Mem!SetByte, SetByte, Mem!pnum, pnum, Mem!poff, poff
<1>5. \A a, b : Mem!Plus(a, b) = Plus(a, b) /\ Mem!pnum(a) = pnum(a)
    BY DEF Mem!Plus, Plus, Mem!pnum, pnum
<1>6. \A pt, n, p : Mem!Touch(pt, n, p) = Touch(pt, n, p)
  <2>1. \A pt, n, p : Mem!add_page(pt, n, p) = add_page(pt, n, p)
      BY DEF Mem!add_page, add_page, Mem!Offsets, Offsets
  <2> QED BY <1>2, <2>1 DEF Mem!Touch, Touch
<1> QED BY <1>1, <1>3, <1>4, <1>5, <1>6

----------------------------------------------------------------------------
(* Executables.                                                            *)

\* What a program header says, and where its segment and the bytes copied
\* beyond its end lie.
LEMMA HeaderFacts ==
    ASSUME image \in Images, NEW h \in DOMAIN image.headers
    PROVE  LET s == image.headers[h] IN
           /\ h \in Nat /\ h >= 1 /\ s \in Headers
           /\ s.vaddr \in Nat /\ s.filesz \in Nat /\ s.memsz \in Nat
           /\ s.offset \in Nat /\ s.prot \in Prots
           /\ s.vaddr % PAGESIZE \in 0..(PAGESIZE - 1)
           /\ s.filesz <= s.memsz /\ s.vaddr + s.memsz <= AddrSpace
           /\ s.vaddr + s.filesz + (s.vaddr % PAGESIZE) <= AddrSpace
           /\ \A k \in 0..(copy_size(s) - 1) :
                image.file[s.offset + k + 1] \in Bytes
           /\ \A g \in 1..(h - 1) :
                /\ g \in DOMAIN image.headers
                /\ image.headers[g].vaddr + image.headers[g].memsz <= s.vaddr
<1> DEFINE s == image.headers[h]
<1>1. WellFormed(image)
    BY ImageAssumption
<1>2. /\ image.headers \in Seq(Headers) /\ image.file \in Seq(Bytes)
      /\ Len(image.headers) \in Nat /\ DOMAIN image.headers = 1..Len(image.headers)
    BY <1>1 DEF WellFormed
<1>3. s \in Headers /\ h \in 1..Len(image.headers)
    BY <1>2
<1>4. /\ s.vaddr \in Nat /\ s.filesz \in Nat /\ s.memsz \in Nat
      /\ s.offset \in Nat /\ s.prot \in Prots
    BY <1>3 DEF Headers
<1>5. /\ s.filesz <= s.memsz /\ s.vaddr + s.memsz <= AddrSpace
      /\ s.vaddr + s.filesz + (s.vaddr % PAGESIZE) <= AddrSpace
      /\ s.offset + s.filesz + (s.vaddr % PAGESIZE) <= Len(image.file)
      /\ \A g \in 1..(h - 1) :
            image.headers[g].vaddr + image.headers[g].memsz <= s.vaddr
    BY <1>1 DEF WellFormed
<1>6. s.vaddr % PAGESIZE \in 0..(PAGESIZE - 1)
    BY <1>4, PageAssumption
<1>7. \A k \in 0..(copy_size(s) - 1) : image.file[s.offset + k + 1] \in Bytes
  <2> DEFINE m == s.vaddr % PAGESIZE
  <2>1. m \in Nat /\ Len(image.file) \in Nat /\ copy_size(s) = s.filesz + m
      BY <1>2, <1>6, PageAssumption DEF copy_size
  <2>2. s.offset + s.filesz + m <= Len(image.file)
      BY <1>5
  <2> HIDE DEF m, s
  <2>3. ASSUME NEW k \in 0..(copy_size(s) - 1)
        PROVE  s.offset + k + 1 \in 1..Len(image.file)
    <3>1. k \in Nat /\ k < s.filesz + m
        BY <1>4, <2>1, <2>3
    <3> DEFINE n == Len(image.file)  o == s.offset  f == s.filesz
    <3>2. o \in Nat /\ f \in Nat /\ n \in Nat /\ o + f + m <= n
        BY <1>4, <2>1, <2>2
    <3> HIDE DEF n, o, f
    <3>3. o + k + 1 \in 1..n
        BY <2>1, <3>1, <3>2 DEF f
    <3> QED BY <3>3 DEF n, o
  <2> QED BY <1>2, <2>3
<1>8. \A g \in 1..(h - 1) : g \in DOMAIN image.headers
    BY <1>2, <1>3
<1> HIDE DEF s
<1> QED BY <1>2, <1>3, <1>4, <1>5, <1>6, <1>7, <1>8 DEF s

----------------------------------------------------------------------------
(* What the steps do to memory.                                            *)

\* The address space holds a page.
LEMMA SpaceFacts ==
    /\ AddrSpace \in Nat /\ PAGESIZE \in Nat /\ PAGESIZE > 0
    /\ PAGESIZE <= AddrSpace
<1>1. /\ AddrSpace \in Nat /\ AddrSpace > 0 /\ PAGESIZE \in Nat /\ PAGESIZE > 0
    BY SpaceAssumption, PageAssumption
<1>2. AddrSpace % PAGESIZE = 0
    BY ImageAssumption
<1>3. AddrSpace < PAGESIZE => AddrSpace % PAGESIZE = AddrSpace
    BY <1>1
<1> QED BY <1>1, <1>2, <1>3

\* A turn of the copy loop of loadElf writes one byte of memory.
LEMMA CopyByte ==
    ASSUME Good(ptable), image \in Images, ph \in DOMAIN image.headers,
           j \in Nat, copy_byte
    PROVE  LET a == header.vaddr + j
               b == image.file[header.offset + j + 1]
           IN /\ a \in Addr /\ b \in Bytes /\ j < copy_size(header)
              /\ Good(ptable') /\ Memory' = [Memory EXCEPT ![a] = b]
<1> DEFINE a == header.vaddr + j
           b == image.file[header.offset + j + 1]
           mid == Touch(ptable, pnum(a), header.prot)
<1>1. j < copy_size(header) /\ copy_size(header) \in Nat
  <2>1. /\ header.filesz \in Nat
        /\ header.vaddr % PAGESIZE \in 0..(PAGESIZE - 1)
      BY HeaderFacts DEF header
  <2> QED BY <2>1, PageAssumption DEF copy_byte, copy_size
<1>2. a \in Addr /\ header.prot \in Prots
  <2>1. /\ header.vaddr \in Nat /\ header.filesz \in Nat
        /\ header.vaddr % PAGESIZE \in 0..(PAGESIZE - 1)
        /\ header.vaddr + header.filesz + (header.vaddr % PAGESIZE) <= AddrSpace
        /\ header.prot \in Prots
      BY HeaderFacts DEF header
  <2>2. j < header.filesz + (header.vaddr % PAGESIZE)
      BY <1>1 DEF copy_size
  <2> QED BY <2>1, <2>2, SpaceFacts DEF Addr
<1>3. b \in Bytes
  <2>1. j \in 0..(copy_size(header) - 1)
      BY <1>1
  <2> QED BY <2>1, HeaderFacts DEF header
<1>4. Plus(header.vaddr, j) = a
    BY <1>2, SpaceFacts DEF Plus, Addr
<1>5. ptable' = SetByte(mid, a, b)
    BY <1>4 DEF copy_byte
<1>6. /\ Good(mid) /\ get_page(mid, pnum(a)) # 0
      /\ Contents(mid) = Contents(ptable)
    BY <1>2, AddrSplit, TouchPage
<1> HIDE DEF mid, a, b
<1>7. /\ Good(ptable')
      /\ Contents(ptable') = [Contents(mid) EXCEPT ![a] = b]
    BY <1>2, <1>3, <1>5, <1>6, WriteByte
<1> QED BY <1>1, <1>2, <1>3, <1>6, <1>7 DEF Memory, a, b

\* Mapping uninitialized data changes no byte of memory.
LEMMA MapBss ==
    ASSUME Good(ptable), image \in Images, ph \in DOMAIN image.headers,
           j \in Nat, map_bss
    PROVE  Good(ptable') /\ Memory' = Memory
<1> DEFINE n == f_align(header) + j
           a == Plus(header.vaddr, n)
<1>1. /\ header.vaddr \in Nat /\ header.filesz \in Nat /\ header.memsz \in Nat
      /\ header.vaddr + header.memsz <= AddrSpace /\ header.prot \in Prots
    BY HeaderFacts DEF header
<1>2. j < header.memsz - header.filesz
    BY DEF map_bss, bss_size
<1>3. n \in Nat /\ n < header.memsz + PAGESIZE
  <2> DEFINE m == (header.filesz + header.vaddr) % PAGESIZE
  <2>1. m \in 0..(PAGESIZE - 1)
      BY <1>1, SpaceFacts
  <2>2. n = header.filesz + (PAGESIZE - m) + j
      BY DEF f_align
  <2> HIDE DEF m
  <2> QED BY <1>1, <1>2, <2>1, <2>2, SpaceFacts
<1> HIDE DEF n
<1>4. a \in Addr
    BY <1>1, <1>3, SpaceFacts DEF Plus, Addr
<1>5. ptable' = Touch(ptable, pnum(a), header.prot)
    BY DEF map_bss, n
<1> HIDE DEF a
<1> QED BY <1>1, <1>4, <1>5, AddrSplit, TouchPage DEF Memory

\* A step of an access keeps the table of pages sound and the access typed.
LEMMA AccessStep ==
    ASSUME Good(ptable), Underway, access_step
    PROVE  Good(ptable') /\ Underway'
<1>1. /\ req \in Reads \cup Writes \cup {Idle}
      /\ req.kind = "read" => i \in -1..(req.width - 1)
      /\ req.kind = "write" => i \in 0..Len(req.data)
      /\ retval \in Seq(Bytes) /\ result \in Seq(Bytes)
    BY DEF Underway
<1>2. CASE Mem!mem_read_byte
  <2> DEFINE a == Plus(req.addr, i)
  <2>1. /\ req.kind = "read" /\ i >= 0 /\ i' = i - 1 /\ UNCHANGED <<req, result>>
        /\ ptable' = Touch(ptable, pnum(a), prot_bits(a))
        /\ retval' = <<ByteAt(ptable', a)>> \o retval
      BY <1>2, SamePages DEF Mem!mem_read_byte
  <2>2. /\ req \in Reads /\ req.addr \in Addr /\ req.width \in 1..AddrSpace
        /\ i \in 0..(req.width - 1) /\ req # Idle
      BY <1>1, <2>1, Requests
  <2>3. i \in 0..(AddrSpace - 1)
      BY <2>2, SpaceFacts
  <2>4. /\ a \in Addr /\ pnum(a) \in PageNums /\ prot_bits(a) \in Prots
      BY <2>2, <2>3, PlusOffset, AddrSplit, PageAssumption
  <2> HIDE DEF a
  <2>5. Good(ptable') /\ get_page(ptable', pnum(a)) # 0
      BY <2>1, <2>4, TouchPage
  <2>6. ByteAt(ptable', a) \in Bytes
    <3>1. Contents(ptable')[a] = ByteAt(ptable', a)
        BY <2>4, <2>5 DEF Contents
    <3> QED BY <2>4, <2>5, <3>1, ContentsType
  <2>7. retval' \in Seq(Bytes)
      BY <1>1, <2>1, <2>6
  <2>8. i' \in -1..(req.width - 1)
      BY <2>1, <2>2, SpaceFacts
  <2> QED BY <1>1, <2>1, <2>2, <2>5, <2>7, <2>8 DEF Underway
<1>3. CASE Mem!mem_read_return
  <2>1. /\ result' = retval /\ req' = Idle /\ i' = 0 /\ retval' = <<>>
        /\ ptable' = ptable
      BY <1>3, SamePages DEF Mem!mem_read_return
  <2> QED BY <1>1, <2>1, Requests DEF Underway
<1>4. CASE Mem!mem_write_byte
  <2> DEFINE a == Plus(req.addr, i)
             mid == Touch(ptable, pnum(a), 7)
  <2>1. /\ req.kind = "write" /\ i < Len(req.data) /\ i' = i + 1
        /\ UNCHANGED <<req, retval, result>>
        /\ ptable' = SetByte(mid, a, req.data[i + 1])
      BY <1>4, SamePages DEF Mem!mem_write_byte
  <2>2. /\ req.addr \in Addr /\ req.data \in Data /\ i \in 0..Len(req.data)
        /\ req # Idle
      BY <1>1, <2>1, Requests
  <2>3. /\ Len(req.data) \in 1..AddrSpace
        /\ \A k \in 1..Len(req.data) : req.data[k] \in Bytes
      BY <2>2, DataType
  <2>4. i \in 0..(AddrSpace - 1) /\ i + 1 \in 1..Len(req.data)
      BY <2>1, <2>2, <2>3, SpaceFacts
  <2>5. a \in Addr /\ pnum(a) \in PageNums /\ 7 \in Prots
    <3>1. a \in Addr
        BY <2>2, <2>4, PlusOffset
    <3>2. 7 \in Prots
        BY DEF Prots
    <3> QED BY <3>1, <3>2, AddrSplit
  <2>6. req.data[i + 1] \in Bytes
      BY <2>3, <2>4
  <2> HIDE DEF a
  <2>7. Good(mid) /\ get_page(mid, pnum(a)) # 0
      BY <2>5, TouchPage
  <2> HIDE DEF mid
  <2>8. Good(ptable')
      BY <2>1, <2>5, <2>6, <2>7, WriteByte
  <2>9. i' \in 0..Len(req.data)
      BY <2>1, <2>4
  <2> QED BY <1>1, <2>1, <2>2, <2>8, <2>9 DEF Underway
<1>5. CASE Mem!mem_write_return
  <2>1. /\ req' = Idle /\ i' = 0 /\ UNCHANGED <<ptable, retval, result>>
      BY <1>5, SamePages DEF Mem!mem_write_return
  <2> QED BY <1>1, <2>1, Requests DEF Underway
<1> QED BY <1>2, <1>3, <1>4, <1>5 DEF access_step
\* A call of the program begins an access with nothing done.
LEMMA AccessCall ==
    ASSUME Underway, access
    PROVE  /\ Underway' /\ phase = "run" /\ accesses' = accesses + 1
           /\ accesses < MaxAccess
           /\ UNCHANGED <<ptable, image, phase, loadVars, logVars>>
<1>1. /\ phase = "run" /\ accesses' = accesses + 1 /\ accesses < MaxAccess
      /\ UNCHANGED <<image, phase, loadVars, logVars>>
    BY DEF access
<1>2. retval \in Seq(Bytes) /\ result \in Seq(Bytes)
    BY DEF Underway
<1>3. ASSUME NEW a \in Accessed, NEW width \in Widths, Mem!mem_read(a, width)
      PROVE  Underway' /\ ptable' = ptable
  <2>1. /\ req' = [kind |-> "read", addr |-> a, width |-> width]
        /\ i' = width - 1 /\ UNCHANGED <<ptable, retval, result>>
      BY <1>3 DEF Mem!mem_read
  <2>2. a \in Addr /\ width \in 1..AddrSpace
      BY ImageAssumption, SpaceAssumption
  <2>3. req' \in Reads /\ req'.kind = "read" /\ req'.width = width
      BY <2>1, <2>2 DEF Reads
  <2>4. i' \in -1..(req'.width - 1)
      BY <2>1, <2>2, <2>3, SpaceFacts
  <2>5. req' # Idle
      BY <2>3 DEF Idle
  <2> QED BY <1>2, <2>1, <2>3, <2>4, <2>5 DEF Underway
<1>4. ASSUME NEW a \in Accessed, NEW data \in Data, Mem!mem_write(a, data)
      PROVE  Underway' /\ ptable' = ptable
  <2>1. /\ req' = [kind |-> "write", addr |-> a, data |-> data]
        /\ i' = 0 /\ UNCHANGED <<ptable, retval, result>>
      BY <1>4 DEF Mem!mem_write
  <2>2. a \in Addr
      BY ImageAssumption
  <2>3. req' \in Writes /\ req'.kind = "write" /\ req'.data = data
      BY <2>1, <2>2 DEF Writes
  <2>4. i' \in 0..Len(req'.data)
    <3>1. Len(data) \in 1..AddrSpace
        BY DataType
    <3> QED BY <2>1, <2>3, <3>1, SpaceFacts
  <2>5. req' # Idle
      BY <2>3 DEF Idle
  <2> QED BY <1>2, <2>1, <2>3, <2>4, <2>5 DEF Underway
<1>5. Mem!Data = Data
    BY DEF Mem!Data, Data
<1> QED BY <1>1, <1>3, <1>4, <1>5 DEF access

----------------------------------------------------------------------------
(* The invariant holds: pages and control.                                 *)

\* The table of pages stays sound and accesses typed in every step.
LEMMA MemoryStep == IInv /\ [Next]_vars => MemoryInv'
<1> SUFFICES ASSUME IInv, [Next]_vars PROVE Good(ptable') /\ Underway'
    BY DEF MemoryInv, Good, OnePagePer
<1>1. /\ Good(ptable) /\ Underway /\ image \in Images
      /\ ph \in DOMAIN image.headers /\ j \in Nat
    BY DEF IInv, MemoryInv, Control
<1>2. UNCHANGED <<req, i, retval, result>> => Underway'
    BY <1>1 DEF Underway
<1>3. CASE copy_byte
    BY <1>1, <1>2, <1>3, CopyByte DEF copy_byte
<1>4. CASE map_bss
    BY <1>1, <1>2, <1>4, MapBss DEF map_bss
<1>5. CASE access
    BY <1>1, <1>5, AccessCall
<1>6. CASE access_step
    BY <1>1, <1>6, AccessStep
<1>7. CASE UNCHANGED memVars
    BY <1>1, <1>2, <1>7 DEF memVars
<1> QED
    BY <1>3, <1>4, <1>5, <1>6, <1>7
       DEF Next, vars, copy_end, bss_end, read_sections, log_machine_state,
           log_page, log_section_end, finished

\* The loader's and the checkpoint's counters stay in range, and nothing is
\* loaded or logged while an access is under way.
LEMMA ControlStep == IInv /\ [Next]_vars => Control'
<1> SUFFICES ASSUME IInv, [Next]_vars PROVE Control'
    OBVIOUS
<1>1. /\ Underway /\ Control
    BY DEF IInv, MemoryInv
<1>2. Len(image.headers) \in Nat /\ DOMAIN image.headers = 1..Len(image.headers)
    BY <1>1, ImageAssumption DEF Control, WellFormed
<1>3. MaxAccess \in Nat
    BY ImageAssumption
<1>4. CASE copy_byte \/ map_bss
    BY <1>1, <1>4 DEF Control, copy_byte, map_bss
<1>5. CASE copy_end
    BY <1>1, <1>5 DEF Control, copy_end, memVars
<1>6. CASE bss_end
    BY <1>1, <1>2, <1>6 DEF Control, bss_end, memVars
<1>7. CASE read_sections
  <2>1. seg_start_addr' \in [SectionNames -> Addr]
    <3>1. \A s \in DOMAIN image.sections : image.sections[s] \in Addr
        BY <1>1, ImageAssumption DEF Control, WellFormed
    <3> QED BY <1>1, <1>7, <3>1 DEF Control, read_sections
  <2> QED BY <1>1, <1>7, <2>1 DEF Control, read_sections, memVars
<1>8. CASE access
  <2>1. accesses' \in 0..MaxAccess /\ accesses' # 0
      BY <1>1, <1>3, <1>8, AccessCall DEF Control
  <2>2. UNCHANGED <<image, phase, ph, j, seg_start_addr>> /\ phase = "run"
      BY <1>1, <1>8, AccessCall DEF loadVars
  <2> QED BY <1>1, <2>1, <2>2 DEF Control
<1>9. CASE access_step
  <2>1. req # Idle
    <3>1. req.kind = "read" \/ req.kind = "write"
        BY <1>9 DEF access_step, Mem!mem_read_byte, Mem!mem_read_return,
                    Mem!mem_write_byte, Mem!mem_write_return
    <3> QED BY <3>1 DEF Idle
  <2> QED BY <1>1, <1>9, <2>1 DEF Control, access_step, loadVars
<1>10. CASE log_machine_state \/ log_page \/ log_section_end
    BY <1>1, <1>10 DEF Control, log_machine_state, log_page, log_section_end,
                       memVars, loadVars
<1>11. CASE finished \/ UNCHANGED vars
    BY <1>1, <1>11 DEF Control, finished, vars, memVars, loadVars
<1> QED
    BY <1>4, <1>5, <1>6, <1>7, <1>8, <1>9, <1>10, <1>11 DEF Next
----------------------------------------------------------------------------
(* The invariant holds: the loader.                                        *)

\* The bytes copied for a segment.
LEMMA CopySize ==
    ASSUME image \in Images, NEW h \in DOMAIN image.headers
    PROVE  /\ copy_size(image.headers[h]) >= image.headers[h].filesz
           /\ Reach(h) = image.headers[h].vaddr + copy_size(image.headers[h])
BY HeaderFacts, SpaceFacts DEF copy_size, Reach

\* A byte that is copied takes its place, and no byte of an earlier segment.
LEMMA LoadCopy ==
    ASSUME MemoryInv, Control, LoadInv, copy_byte
    PROVE  LoadInv'
<1> DEFINE a == header.vaddr + j
           b == image.file[header.offset + j + 1]
<1>1. /\ Good(ptable) /\ image \in Images /\ ph \in DOMAIN image.headers
      /\ j \in Nat /\ phase = "copy" /\ Loading
    BY DEF MemoryInv, Control, copy_byte, Loading
<1>2. /\ a \in Addr /\ Memory' = [Memory EXCEPT ![a] = b]
      /\ j < copy_size(header)
    BY <1>1, CopyByte
<1>3. /\ phase' = "copy" /\ j' = j + 1 /\ ph' = ph /\ image' = image
    BY DEF copy_byte
<1>4. Memory \in [Addr -> Bytes]
    BY <1>1, ContentsType DEF Memory
<1>5. ph \in Nat /\ DOMAIN image.headers = 1..Len(image.headers)
      /\ Len(image.headers) \in Nat
    BY <1>1, ImageAssumption DEF WellFormed
<1> DEFINE M == Memory
           N == Memory'
<1>6. M \in [Addr -> Bytes] /\ N = [M EXCEPT ![a] = b]
    BY <1>2, <1>4
<1> HIDE DEF a, b, M, N
<1>7. \A x \in Addr : N[x] = IF x = a THEN b ELSE M[x]
    BY <1>6
<1>8. Loaded'
  <2> SUFFICES ASSUME NEW h \in 1..ph, NEW k \in 0..(image.headers[h].filesz - 1),
                      h < ph \/ k < j + 1
               PROVE  N[Here(h, k)]
                        = image.file[image.headers[h].offset + k + 1]
      BY <1>3 DEF Loaded, Here, N
  <2>1. h \in DOMAIN image.headers /\ h \in Nat
      BY <1>1, <1>5
  <2>2. /\ image.headers[h].vaddr \in Nat /\ image.headers[h].filesz \in Nat
        /\ image.headers[h].memsz \in Nat
        /\ image.headers[h].filesz <= image.headers[h].memsz
        /\ image.headers[h].vaddr + image.headers[h].memsz <= AddrSpace
      BY <1>1, <2>1, HeaderFacts
  <2>3. k \in Nat /\ k < image.headers[h].filesz
      BY <2>2
  <2>4. Here(h, k) \in Addr
      BY <2>2, <2>3, SpaceFacts DEF Here, Addr
  <2>5. CASE h = ph /\ k = j
    <3>1. Here(h, k) = a
        BY <2>5 DEF Here, a, header
    <3> QED BY <1>7, <2>4, <2>5, <3>1 DEF b, header
  <2>6. CASE h = ph /\ k # j
    <3>1. k < j
        BY <1>1, <1>5, <2>3, <2>6
    <3>2. Here(h, k) # a
        BY <1>1, <2>2, <2>3, <2>6 DEF Here, a, header
    <3>3. M[Here(h, k)] = image.file[image.headers[h].offset + k + 1]
        BY <1>1, <3>1 DEF LoadInv, Loaded, M
    <3> QED BY <1>7, <2>4, <3>2, <3>3
  <2>7. CASE h # ph
    <3>1. h < ph /\ h \in 1..(ph - 1)
        BY <1>5, <2>1, <2>7
    <3>2. /\ image.headers[h].vaddr + image.headers[h].memsz <= header.vaddr
          /\ header.vaddr \in Nat
        BY <1>1, <3>1, HeaderFacts DEF header
    <3>3. Here(h, k) # a
        BY <1>1, <2>2, <2>3, <3>2 DEF Here, a
    <3>4. M[Here(h, k)] = image.file[image.headers[h].offset + k + 1]
        BY <1>1, <3>1 DEF LoadInv, Loaded, M
    <3> QED BY <1>7, <2>4, <3>3, <3>4
  <2> QED BY <2>5, <2>6, <2>7
<1>9. Untouched'
  <2> SUFFICES ASSUME NEW x \in Addr, N[x] # 0
               PROVE  \E g \in 1..ph :
                        x \in image.headers[g].vaddr..(Reach(g) - 1)
      BY <1>3 DEF Untouched, Reach, N
  <2>1. CASE x = a
    <3>1. /\ header.vaddr \in Nat /\ copy_size(header) \in Nat
          /\ Reach(ph) = header.vaddr + copy_size(header)
      <4>1. header.filesz \in Nat /\ header.vaddr % PAGESIZE \in Nat
            /\ header.vaddr \in Nat
          BY <1>1, HeaderFacts DEF header
      <4>2. copy_size(header) \in Nat
          BY <4>1 DEF copy_size
      <4> QED BY <1>1, <4>1, <4>2, CopySize DEF header
    <3>2. a \in header.vaddr..(Reach(ph) - 1)
        BY <1>1, <1>2, <3>1 DEF a
    <3>3. ph \in 1..ph
        BY <1>1, <1>5
    <3> QED BY <2>1, <3>2, <3>3 DEF header
  <2>2. CASE x # a
    <3>1. M[x] # 0
        BY <1>7, <2>2
    <3> QED BY <1>1, <3>1 DEF LoadInv, Untouched, M
  <2> QED BY <2>1, <2>2
<1>10. AllHeaders'
    BY <1>3 DEF AllHeaders
<1> QED BY <1>8, <1>9, <1>10 DEF LoadInv

\* The segments are in memory as far as the loader has come, and nothing else.
LEMMA LoadStep == IInv /\ [Next]_vars => LoadInv'
<1> SUFFICES ASSUME IInv, [Next]_vars PROVE LoadInv'
    OBVIOUS
<1>1. /\ MemoryInv /\ Good(ptable) /\ Control /\ LoadInv /\ image \in Images
      /\ ph \in DOMAIN image.headers /\ j \in Nat
    BY DEF IInv, MemoryInv, Control
<1>2. /\ Len(image.headers) \in Nat /\ DOMAIN image.headers = 1..Len(image.headers)
      /\ ph \in Nat /\ ph >= 1
    BY <1>1, ImageAssumption DEF WellFormed
<1>3. CASE copy_byte
    BY <1>1, <1>3, LoadCopy
<1>4. CASE copy_end
  <2>1. /\ phase = "copy" /\ phase' = "bss" /\ j >= copy_size(header)
        /\ Memory' = Memory /\ ph' = ph /\ image' = image
      BY <1>4 DEF copy_end, memVars, Memory
  <2>2. \A k \in 0..(image.headers[ph].filesz - 1) : k < j
    <3>1. /\ copy_size(header) >= header.filesz /\ header.filesz \in Nat
          /\ header.vaddr % PAGESIZE \in Nat
        BY <1>1, CopySize, HeaderFacts DEF header
    <3>2. copy_size(header) \in Nat
        BY <3>1 DEF copy_size
    <3> QED BY <1>1, <2>1, <3>1, <3>2 DEF header
  <2>3. Loaded'
    <3> SUFFICES ASSUME NEW h \in 1..ph,
                        NEW k \in 0..(image.headers[h].filesz - 1)
                 PROVE  Memory[Here(h, k)]
                          = image.file[image.headers[h].offset + k + 1]
        BY <2>1 DEF Loaded, Here
    <3>1. h < ph \/ k < j
        BY <1>2, <2>2
    <3> QED BY <1>1, <2>1, <3>1 DEF LoadInv, Loaded, Loading
  <2>4. Untouched'
      BY <1>1, <2>1 DEF LoadInv, Untouched, Loading, Reach
  <2> QED BY <2>1, <2>3, <2>4 DEF LoadInv, AllHeaders
<1>5. CASE map_bss
  <2>1. /\ phase = "bss" /\ phase' = "bss" /\ Memory' = Memory /\ ph' = ph
        /\ image' = image
      BY <1>1, <1>5, MapBss DEF map_bss
  <2>2. Loaded'
      BY <1>1, <2>1 DEF LoadInv, Loaded, Loading, Here
  <2>3. Untouched'
      BY <1>1, <2>1 DEF LoadInv, Untouched, Loading, Reach
  <2> QED BY <2>1, <2>2, <2>3 DEF LoadInv, AllHeaders
<1>6. CASE bss_end
  <2>1. /\ phase = "bss" /\ Memory' = Memory /\ image' = image /\ j' = 0
        /\ \/ ph < Len(image.headers) /\ ph' = ph + 1 /\ phase' = "copy"
           \/ ph >= Len(image.headers) /\ ph' = ph /\ phase' = "sections"
      BY <1>2, <1>6 DEF bss_end, memVars, Memory
  <2>2. Loaded'
    <3> SUFFICES ASSUME NEW h \in 1..ph',
                        NEW k \in 0..(image.headers[h].filesz - 1),
                        h < ph' \/ phase' # "copy" \/ k < 0
                 PROVE  Memory[Here(h, k)]
                          = image.file[image.headers[h].offset + k + 1]
        BY <2>1 DEF Loaded, Here
    <3>1. h \in 1..ph
      <4>1. ~(k < 0)
        <5> DEFINE n == Len(image.headers)
        <5>1. h \in DOMAIN image.headers
          <6>1. ph \in 1..n /\ n \in Nat /\ DOMAIN image.headers = 1..n
              BY <1>1, <1>2
          <6>2. ph' <= n /\ ph' \in Nat
              BY <2>1, <6>1
          <6> HIDE DEF n
          <6> QED BY <6>1, <6>2
        <5>2. image.headers[h].filesz \in Nat
            BY <1>1, <5>1, HeaderFacts
        <5> QED BY <5>2
      <4> QED BY <1>2, <2>1, <4>1
    <3> QED BY <1>1, <2>1, <3>1 DEF LoadInv, Loaded, Loading
  <2>3. Untouched'
    <3> SUFFICES ASSUME NEW x \in Addr, Memory[x] # 0
                 PROVE  \E g \in 1..ph' :
                            x \in image.headers[g].vaddr..(Reach(g) - 1)
        BY <2>1 DEF Untouched, Reach
    <3>1. PICK g \in 1..ph : x \in image.headers[g].vaddr..(Reach(g) - 1)
        BY <1>1, <2>1 DEF LoadInv, Untouched, Loading
    <3>2. g \in 1..ph'
        BY <1>2, <2>1
    <3> QED BY <3>1, <3>2
  <2>4. AllHeaders'
      BY <1>2, <1>1, <2>1 DEF AllHeaders
  <2> QED BY <2>2, <2>3, <2>4 DEF LoadInv
<1>7. CASE read_sections
  <2>1. /\ phase = "sections" /\ phase' = "run" /\ Memory' = Memory
        /\ ph' = ph /\ image' = image
      BY <1>7 DEF read_sections, memVars, Memory
  <2>2. Loaded'
      BY <1>1, <2>1 DEF LoadInv, Loaded, Loading, Here
  <2>3. Untouched'
      BY <1>1, <2>1 DEF LoadInv, Untouched, Loading, Reach
  <2> QED BY <1>1, <2>1, <2>2, <2>3 DEF LoadInv, AllHeaders
<1>8. CASE access \/ access_step
  <2>1. /\ phase = "run" /\ phase' = "run" /\ ph' = ph /\ image' = image
      BY <1>1, <1>8, AccessCall DEF MemoryInv, access_step, loadVars
  <2>2. accesses' # 0
    <3>1. CASE access
        BY <1>1, <3>1, AccessCall DEF MemoryInv, Control
    <3>2. CASE access_step
      <4>1. req # Idle
        <5>1. req.kind = "read" \/ req.kind = "write"
            BY <3>2 DEF access_step, Mem!mem_read_byte, Mem!mem_read_return,
                        Mem!mem_write_byte, Mem!mem_write_return
        <5> QED BY <5>1 DEF Idle
      <4> QED BY <1>1, <3>2, <4>1 DEF Control, access_step
    <3> QED BY <1>8, <3>1, <3>2
  <2>3. ~Loading'
      BY <2>1, <2>2 DEF Loading, Started
  <2> QED BY <1>1, <2>1, <2>3 DEF LoadInv, Loaded, Untouched, AllHeaders
<1>9. CASE log_machine_state \/ log_page \/ log_section_end \/ finished
  <2>1. /\ phase' \in {"log", "done"} /\ ph' = ph /\ image' = image
        /\ phase \notin {"copy", "bss"}
      BY <1>9 DEF log_machine_state, log_page, log_section_end, finished, vars,
                  loadVars
  <2>2. ~Loading'
      BY <2>1 DEF Loading, Started
  <2> QED BY <1>1, <2>1, <2>2 DEF LoadInv, Loaded, Untouched, AllHeaders
<1>10. CASE UNCHANGED vars
  <2>1. /\ Memory' = Memory /\ Loading' = Loading /\ phase' = phase /\ j' = j
        /\ ph' = ph /\ image' = image
      BY <1>10 DEF vars, memVars, loadVars, Memory, Loading, Started
  <2> QED BY <1>1, <2>1 DEF LoadInv, Loaded, Untouched, AllHeaders, Here, Reach
<1> QED
    BY <1>3, <1>4, <1>5, <1>6, <1>7, <1>8, <1>9, <1>10 DEF Next
----------------------------------------------------------------------------
(* Pages and words.                                                        *)

\* Quotient and remainder are unique.
LEMMA DivMod ==
    ASSUME NEW n \in Nat, n > 0, NEW q \in Int, NEW r \in 0..(n - 1)
    PROVE  (n * q + r) \div n = q /\ (n * q + r) % n = r
<1> DEFINE x == n * q + r
           d == x \div n
           m == x % n
<1>1. x \in Int /\ d \in Int /\ m \in 0..(n - 1) /\ x = n * d + m
    BY Z3
<1> DEFINE e == q - d
<1>2. e \in Int /\ n * e = m - r /\ m \in Int /\ r \in Int
    BY <1>1
<1> HIDE DEF d, m, e
<1>3. n * e < n /\ n * e > -n
    BY <1>1, <1>2
<1>4. e <= 0
  <2>1. e >= 1 => n * e >= n
      BY <1>2, Z3
  <2> QED BY <1>2, <1>3, <2>1
<1>5. e >= 0
  <2>1. e <= -1 => n * e <= -n
      BY <1>2, Z3
  <2> QED BY <1>2, <1>3, <2>1
<1>6. e = 0
    BY <1>2, <1>4, <1>5
<1>7. q = d /\ n * e = 0
    BY <1>1, <1>6 DEF e
<1> HIDE DEF x
<1> QED BY <1>1, <1>2, <1>7 DEF d, m, x

\* What of a number are whole units.
LEMMA WholeUnits ==
    ASSUME NEW n \in Nat, n > 0, NEW a \in Nat
    PROVE  /\ a % n \in 0..(n - 1) /\ a \div n \in Nat
           /\ a = n * (a \div n) + (a % n)
           /\ a - (a % n) \in Nat /\ (a - (a % n)) % n = 0
           /\ (a - (a % n)) \div n = a \div n
<1> DEFINE q == a \div n
           r == a % n
<1>1. q \in Nat /\ r \in 0..(n - 1) /\ a = n * q + r
    BY Z3
<1>2. n * q \in Nat /\ n * q + 0 = n * q /\ 0 \in 0..(n - 1)
    BY <1>1, Z3
<1>3. (n * q) \div n = q /\ (n * q) % n = 0
  <2>1. (n * q + 0) \div n = q /\ (n * q + 0) % n = 0
    <3>1. q \in Int /\ 0 \in 0..(n - 1)
        BY <1>1, <1>2
    <3> HIDE DEF q, r
    <3> QED BY <3>1, DivMod
  <2> QED BY <1>2, <2>1
<1>4. a - r = n * q
    BY <1>1, <1>2
<1> QED BY <1>1, <1>2, <1>3, <1>4

\* A sum of whole units is one, and they leave the rest alone.
LEMMA UnitSum ==
    ASSUME NEW n \in Nat, n > 0, NEW a \in Int, a % n = 0, NEW b \in Int
    PROVE  /\ (a + b) % n = b % n
           /\ (a + b) \div n = (a \div n) + (b \div n)
<1> DEFINE p == a \div n
           q == b \div n
           r == b % n
<1>1. p \in Int /\ a = n * p
    BY Z3
<1>2. q \in Int /\ r \in 0..(n - 1) /\ b = n * q + r
    BY Z3
<1> HIDE DEF p, q, r
<1>3. p + q \in Int /\ a + b = n * (p + q) + r
    BY <1>1, <1>2, Z3
<1>4. (n * (p + q) + r) \div n = p + q /\ (n * (p + q) + r) % n = r
    BY <1>2, <1>3, DivMod
<1> QED BY <1>3, <1>4 DEF p, q, r
\* Between different numbers of whole units lies at least one unit.
LEMMA UnitGap ==
    ASSUME NEW n \in Nat, n > 0, NEW a \in Int, a % n = 0,
           NEW b \in Int, b % n = 0, a < b
    PROVE  a + n <= b
<1> DEFINE p == a \div n
           q == b \div n
<1>1. p \in Int /\ a = n * p
    BY Z3
<1>2. q \in Int /\ b = n * q
    BY Z3
<1> HIDE DEF p, q
<1>3. p < q
  <2>1. p >= q => n * p >= n * q
      BY <1>1, <1>2, Z3
  <2> QED BY <1>1, <1>2, <2>1
<1>4. n * (p + 1) <= n * q /\ n * (p + 1) = n * p + n
    BY <1>1, <1>2, <1>3, Z3
<1> QED BY <1>1, <1>2, <1>4

\* Units of units are units.
LEMMA UnitOfUnits ==
    ASSUME NEW m \in Nat, m > 0, NEW n \in Nat, n > 0, n % m = 0,
           NEW a \in Nat, a % n = 0
    PROVE  a % m = 0
<1> DEFINE p == n \div m
           q == a \div n
<1>1. p \in Int /\ n = m * p
    BY Z3
<1>2. q \in Int /\ a = n * q
    BY Z3
<1> HIDE DEF p, q
<1>3. p * q \in Int /\ a = m * (p * q) + 0
    BY <1>1, <1>2, Z3
<1>4. 0 \in 0..(m - 1)
    OBVIOUS
<1> QED BY <1>3, <1>4, DivMod

\* A page of the address space: its addresses have its number and, counted
\* from its first, their offsets.
LEMMA AlignedPage ==
    ASSUME NEW a \in Addr, a % PAGESIZE = 0, NEW w \in 0..(PAGESIZE - 1)
    PROVE  /\ a + PAGESIZE <= AddrSpace /\ a + w \in Addr
           /\ pnum(a + w) = a \div PAGESIZE /\ poff(a + w) = w
<1>1. a \in Nat /\ a < AddrSpace /\ w \in Nat /\ w < PAGESIZE
    BY SpaceFacts DEF Addr
<1>2. a + PAGESIZE <= AddrSpace
  <2>1. /\ PAGESIZE \in Nat /\ PAGESIZE > 0 /\ a \in Int /\ a % PAGESIZE = 0
        /\ AddrSpace \in Int /\ AddrSpace % PAGESIZE = 0 /\ a < AddrSpace
      BY <1>1, SpaceFacts, ImageAssumption
  <2> QED BY <2>1, UnitGap
<1>3. a + w \in Addr
    BY <1>1, <1>2, SpaceFacts DEF Addr
<1>4. w % PAGESIZE = w /\ w \div PAGESIZE = 0
  <2>1. PAGESIZE * 0 + w = w /\ 0 \in Int
      BY <1>1, SpaceFacts
  <2>2. (PAGESIZE * 0 + w) \div PAGESIZE = 0 /\ (PAGESIZE * 0 + w) % PAGESIZE = w
      BY <2>1, SpaceFacts, DivMod
  <2> QED BY <2>1, <2>2
<1>5. (a + w) % PAGESIZE = w
  <2>1. /\ PAGESIZE \in Nat /\ PAGESIZE > 0 /\ a \in Int /\ a % PAGESIZE = 0
        /\ w \in Int
      BY <1>1, SpaceFacts
  <2>2. (a + w) % PAGESIZE = w % PAGESIZE
      BY <2>1, UnitSum
  <2> QED BY <1>4, <2>2
<1>6. (a + w) \div PAGESIZE = a \div PAGESIZE
  <2>1. (a + w) \div PAGESIZE = (a \div PAGESIZE) + (w \div PAGESIZE)
      BY <1>1, SpaceFacts, UnitSum
  <2>2. a \div PAGESIZE \in Int
      BY <1>1, SpaceFacts
  <2> QED BY <1>4, <2>1, <2>2
<1> QED BY <1>2, <1>3, <1>5, <1>6 DEF pnum, poff

\* An address is on the page that begins before it.
LEMMA PageBegins ==
    ASSUME NEW a \in Addr
    PROVE  /\ PageStart(a) \in Addr /\ PageStart(a) % PAGESIZE = 0
           /\ PageStart(a) \div PAGESIZE = pnum(a) /\ pnum(a) \in PageNums
           /\ poff(a) \in 0..(PAGESIZE - 1) /\ a = PageStart(a) + poff(a)
<1>1. a \in Nat /\ a < AddrSpace
    BY SpaceFacts DEF Addr
<1>2. /\ a % PAGESIZE \in 0..(PAGESIZE - 1)
      /\ a - (a % PAGESIZE) \in Nat /\ (a - (a % PAGESIZE)) % PAGESIZE = 0
      /\ (a - (a % PAGESIZE)) \div PAGESIZE = a \div PAGESIZE
    BY <1>1, SpaceFacts, WholeUnits
<1>3. a - (a % PAGESIZE) \in Addr /\ a = (a - (a % PAGESIZE)) + (a % PAGESIZE)
    BY <1>1, <1>2, SpaceFacts DEF Addr
<1>4. pnum(a) \in PageNums
    BY DEF pnum, PageNums
<1> QED BY <1>2, <1>3, <1>4 DEF PageStart, pnum, poff

\* Page numbers are in the order of the addresses.
LEMMA PageOrder ==
    ASSUME NEW a \in Addr, a % PAGESIZE = 0, NEW n \in PageNums
    PROVE  /\ a \div PAGESIZE \in Nat /\ n \in Nat
           /\ a + PAGESIZE >= AddrSpace => n <= a \div PAGESIZE
           /\ a < PAGESIZE => a \div PAGESIZE = 0
<1> DEFINE q == a \div PAGESIZE
<1>1. PICK x \in Addr : n = x \div PAGESIZE
    BY DEF PageNums
<1>2. /\ a \in Nat /\ x \in Nat /\ x < AddrSpace
    BY SpaceFacts DEF Addr
<1>3. /\ q \in Nat /\ a = PAGESIZE * q + (a % PAGESIZE)
      /\ n \in Nat /\ x = PAGESIZE * n + (x % PAGESIZE)
      /\ x % PAGESIZE \in 0..(PAGESIZE - 1)
    BY <1>1, <1>2, SpaceFacts, WholeUnits
<1>4. a = PAGESIZE * q /\ PAGESIZE * q \in Nat /\ PAGESIZE * n \in Nat
    BY <1>2, <1>3, SpaceFacts, Z3
<1> HIDE DEF q
<1>5. a + PAGESIZE >= AddrSpace => n <= q
  <2>1. n > q => PAGESIZE * n >= PAGESIZE * q + PAGESIZE
    <3>1. n >= q + 1 => PAGESIZE * n >= PAGESIZE * (q + 1)
        BY <1>3, SpaceFacts, Z3
    <3>2. PAGESIZE * (q + 1) = PAGESIZE * q + PAGESIZE
        BY <1>3, SpaceFacts, Z3
    <3> QED BY <1>3, <3>1, <3>2
  <2>2. x >= PAGESIZE * n
      BY <1>3, <1>4
  <2> QED BY <1>2, <1>3, <1>4, <2>1, <2>2, SpaceFacts
<1>6. a < PAGESIZE => q = 0
  <2>1. q >= 1 => PAGESIZE * q >= PAGESIZE
      BY <1>3, SpaceFacts, Z3
  <2> QED BY <1>2, <1>3, <1>4, <2>1, SpaceFacts
<1> QED BY <1>3, <1>5, <1>6 DEF q

\* The walks go to the next page, or round the address space.
LEMMA NextPage ==
    ASSUME NEW a \in Addr, a % PAGESIZE = 0
    PROVE  /\ Plus(a, PAGESIZE) \in Addr /\ Plus(a, PAGESIZE) % PAGESIZE = 0
           /\ \/ Plus(a, PAGESIZE) \div PAGESIZE = (a \div PAGESIZE) + 1
              \/ \A n \in PageNums : n <= a \div PAGESIZE
           /\ Minus(a, PAGESIZE) \in Addr /\ Minus(a, PAGESIZE) % PAGESIZE = 0
           /\ \/ Minus(a, PAGESIZE) \div PAGESIZE = (a \div PAGESIZE) - 1
              \/ \A n \in PageNums : n >= a \div PAGESIZE
<1> DEFINE up == Plus(a, PAGESIZE)
           down == Minus(a, PAGESIZE)
           back == 0 - PAGESIZE
<1>1. a \in Nat /\ a < AddrSpace /\ AddrSpace % PAGESIZE = 0
    BY SpaceFacts, ImageAssumption DEF Addr
<1>2. a + PAGESIZE <= AddrSpace
  <2>1. /\ PAGESIZE \in Nat /\ PAGESIZE > 0 /\ a \in Int /\ a % PAGESIZE = 0
        /\ AddrSpace \in Int /\ AddrSpace % PAGESIZE = 0 /\ a < AddrSpace
      BY <1>1, SpaceFacts, ImageAssumption
  <2> QED BY <2>1, UnitGap
<1>3. PAGESIZE % PAGESIZE = 0 /\ PAGESIZE \div PAGESIZE = 1
  <2>1. PAGESIZE * 1 + 0 = PAGESIZE /\ 1 \in Int /\ 0 \in 0..(PAGESIZE - 1)
      BY SpaceFacts
  <2>2. (PAGESIZE * 1 + 0) \div PAGESIZE = 1 /\ (PAGESIZE * 1 + 0) % PAGESIZE = 0
      BY <2>1, SpaceFacts, DivMod
  <2> QED BY <2>1, <2>2
<1>4. back % PAGESIZE = 0 /\ back \div PAGESIZE = -1 /\ back \in Int
  <2>1. PAGESIZE * (-1) + 0 = back /\ -1 \in Int /\ 0 \in 0..(PAGESIZE - 1)
      BY SpaceFacts
  <2>2. /\ (PAGESIZE * (-1) + 0) \div PAGESIZE = -1
        /\ (PAGESIZE * (-1) + 0) % PAGESIZE = 0
      BY <2>1, SpaceFacts, DivMod
  <2> QED BY <2>1, <2>2, SpaceFacts
<1>5. /\ up \in Addr /\ up % PAGESIZE = 0
      /\ \/ up \div PAGESIZE = (a \div PAGESIZE) + 1
         \/ \A n \in PageNums : n <= a \div PAGESIZE
  <2>1. CASE a + PAGESIZE < AddrSpace
    <3>1. up = a + PAGESIZE /\ up \in Addr
        BY <1>1, <2>1, SpaceFacts DEF Plus, Addr
    <3>2. /\ (a + PAGESIZE) % PAGESIZE = 0
          /\ (a + PAGESIZE) \div PAGESIZE = (a \div PAGESIZE) + 1
        BY <1>1, <1>3, SpaceFacts, UnitSum
    <3> QED BY <3>1, <3>2
  <2>2. CASE a + PAGESIZE >= AddrSpace
    <3>1. up = 0 /\ up \in Addr
        BY <1>1, <1>2, <2>2, SpaceFacts DEF Plus, Addr
    <3>2. 0 % PAGESIZE = 0
        BY SpaceFacts
    <3>3. \A n \in PageNums : n <= a \div PAGESIZE
        BY <2>2, PageOrder
    <3> QED BY <3>1, <3>2, <3>3
  <2> QED BY <1>1, <2>1, <2>2, SpaceFacts
<1>6. /\ down \in Addr /\ down % PAGESIZE = 0
      /\ \/ down \div PAGESIZE = (a \div PAGESIZE) - 1
         \/ \A n \in PageNums : n >= a \div PAGESIZE
  <2>1. /\ (a + back) % PAGESIZE = 0
        /\ (a + back) \div PAGESIZE = (a \div PAGESIZE) + (-1)
    <3>1. /\ PAGESIZE \in Nat /\ PAGESIZE > 0 /\ a \in Int /\ a % PAGESIZE = 0
        BY <1>1, SpaceFacts
    <3> HIDE DEF back
    <3>2. /\ (a + back) % PAGESIZE = back % PAGESIZE
          /\ (a + back) \div PAGESIZE = (a \div PAGESIZE) + (back \div PAGESIZE)
        BY <1>4, <3>1, UnitSum
    <3> QED BY <1>4, <3>2
  <2>2. a + back = a - PAGESIZE /\ a \div PAGESIZE \in Int
      BY <1>1, SpaceFacts
  <2>3. CASE a >= PAGESIZE
    <3>1. down = a + back /\ down \in Addr
        BY <1>1, <2>3, SpaceFacts DEF Minus, Addr
    <3>2. (a \div PAGESIZE) + (-1) = (a \div PAGESIZE) - 1
        BY <2>2
    <3> QED BY <2>1, <3>1, <3>2
  <2>4. CASE a < PAGESIZE
    <3>1. down = (a + back) + AddrSpace /\ down \in Addr
        BY <1>1, <2>4, SpaceFacts DEF Minus, Addr
    <3>2. ((a + back) + AddrSpace) % PAGESIZE = 0
      <4>1. a + back \in Int /\ AddrSpace \in Int
          BY <1>1, SpaceFacts
      <4>2. ((a + back) + AddrSpace) % PAGESIZE = AddrSpace % PAGESIZE
          BY <2>1, <4>1, SpaceFacts, UnitSum
      <4> QED BY <1>1, <4>2
    <3>3. \A n \in PageNums : n >= a \div PAGESIZE
        BY <2>4, PageOrder
    <3> HIDE DEF down
    <3> QED BY <3>1, <3>2, <3>3
  <2> QED BY <1>1, <2>3, <2>4, SpaceFacts
<1> QED BY <1>5, <1>6
----------------------------------------------------------------------------
(* The invariant holds: the checkpoint.                                    *)

\* The sections in the order they are logged.
LEMMA SectionFacts ==
    /\ DOMAIN Sections = 1..4 /\ Len(Sections) = 4
    /\ Sections[1] = "TEXT" /\ Sections[2] = "DATA"
    /\ Sections[3] = "HEAP" /\ Sections[4] = "STACK"
    /\ \A s \in 1..4 : Sections[s] \in SectionNames
<1>1. /\ DOMAIN Sections = 1..4 /\ Len(Sections) = 4
      /\ Sections[1] = "TEXT" /\ Sections[2] = "DATA"
      /\ Sections[3] = "HEAP" /\ Sections[4] = "STACK"
    BY DEF Sections
<1> QED BY <1>1 DEF SectionNames

\* Where the walk of a section begins: on a page, but for the heap's.
LEMMA FirstAddr ==
    ASSUME Control, NEW sec \in SectionNames
    PROVE  /\ first_addr(sec) \in Addr
           /\ sec # "HEAP" => /\ first_addr(sec) % PAGESIZE = 0
                              /\ \A b : first_pnum(sec, b) = Start(sec)
                              /\ Start(sec) \in PageNums
                              /\ Start(sec) \in Side(sec)
<1> DEFINE a == seg_start_addr[sec]
<1>1. a \in Addr
    BY DEF Control
<1>2. CASE sec = "HEAP"
    BY <1>1, <1>2 DEF first_addr
<1>3. CASE sec # "HEAP"
  <2> DEFINE b == IF sec = "STACK" THEN Minus(a, PAGESIZE) ELSE a
  <2>1. b \in Addr
    <3>1. Minus(a, PAGESIZE) \in Addr
        BY <1>1, SpaceFacts DEF Minus, Addr
    <3> QED BY <1>1, <3>1
  <2>2. first_addr(sec) = PageStart(b)
      BY <1>3 DEF first_addr
  <2> HIDE DEF b
  <2>3. /\ first_addr(sec) \in Addr /\ first_addr(sec) % PAGESIZE = 0
      BY <2>1, <2>2, PageBegins
  <2>4. Start(sec) \in PageNums
      BY <2>3 DEF Start, PageNums
  <2>5. Start(sec) \in Nat
      BY <2>3, <2>4, PageOrder
  <2>6. Start(sec) \in Side(sec)
      BY <2>4, <2>5 DEF Side
  <2>7. \A x : first_pnum(sec, x) = Start(sec)
      BY <1>3 DEF first_pnum, Start
  <2> QED BY <2>3, <2>4, <2>6, <2>7
<1> QED BY <1>2, <1>3

\* The byte at an offset of a page, and its word.
LEMMA WordOf ==
    ASSUME NEW o \in 0..(PAGESIZE - 1)
    PROVE  LET w == o - (o % WordBytes) IN
           /\ w \in 0..(PAGESIZE - 1) /\ w % WordBytes = 0
           /\ o % WordBytes \in 0..(WordBytes - 1) /\ o = w + (o % WordBytes)
<1>1. o \in Nat /\ WordBytes \in Nat /\ WordBytes > 0 /\ o < PAGESIZE
    BY SpaceFacts, ImageAssumption
<1>2. /\ o % WordBytes \in 0..(WordBytes - 1) /\ o - (o % WordBytes) \in Nat
      /\ (o - (o % WordBytes)) % WordBytes = 0
    BY <1>1, WholeUnits
<1> QED BY <1>1, <1>2, SpaceFacts

\* The bytes of a word lie in its page.
LEMMA WordInPage ==
    ASSUME NEW w \in 0..(PAGESIZE - 1), w % WordBytes = 0,
           NEW k \in 1..WordBytes
    PROVE  w + k - 1 \in 0..(PAGESIZE - 1)
<1>1. /\ WordBytes \in Nat /\ WordBytes > 0 /\ w \in Int /\ PAGESIZE \in Int
      /\ PAGESIZE % WordBytes = 0 /\ w < PAGESIZE /\ w >= 0
    BY SpaceFacts, ImageAssumption
<1>2. w % WordBytes = 0
    OBVIOUS
<1>3. w + WordBytes <= PAGESIZE
    BY <1>1, <1>2, UnitGap
<1> QED BY <1>1, <1>3

\* The bytes of a page that exists are memory's.
LEMMA PageBytes ==
    ASSUME Good(ptable), NEW a \in Addr, a % PAGESIZE = 0,
           Present(a \div PAGESIZE), NEW o \in 0..(PAGESIZE - 1)
    PROVE  /\ a + o \in Addr
           /\ Memory[a + o] = Page(ptable, a \div PAGESIZE).p_data[o]
           /\ Memory[a + o] \in Bytes
<1>1. a + o \in Addr /\ pnum(a + o) = a \div PAGESIZE /\ poff(a + o) = o
    BY AlignedPage
<1>2. Memory[a + o] \in Bytes
    BY <1>1, ContentsType DEF Memory
<1> QED BY <1>1, <1>2 DEF Memory, Contents, ByteAt, Present

\* A page is logged as it is, and all of it that is not zero.
LEMMA LogPage ==
    ASSUME IInv, log_page
    PROVE  /\ addr \in Addr /\ addr % PAGESIZE = 0
           /\ page_num = addr \div PAGESIZE /\ Sections[section] # "HEAP"
           /\ ptable' = ptable /\ lines \subseteq lines' /\ lines' \subseteq Lines
           /\ LinesAreMemory'
           /\ \A n : n = page_num => PageLogged(n)'
<1> DEFINE data == Page(ptable, page_num).p_data
           new == {Line(addr, data, w) : w \in NonZero(data, addr % PAGESIZE)}
<1>1. /\ Good(ptable) /\ Walking /\ Written /\ phase = "log"
      /\ Present(page_num) /\ lines' = lines \union new /\ ptable' = ptable
    BY DEF IInv, MemoryInv, LogInv, log_page, memVars
<1>2. /\ addr \in Addr /\ addr % PAGESIZE = 0 /\ page_num = addr \div PAGESIZE
      /\ Sections[section] # "HEAP"
    BY <1>1 DEF Walking
<1>3. WordBytes \in Nat /\ WordBytes > 0
    BY ImageAssumption
<1>4. \A o \in 0..(PAGESIZE - 1) :
        addr + o \in Addr /\ Memory[addr + o] = data[o] /\ data[o] \in Bytes
    BY <1>1, <1>2, PageBytes
<1> HIDE DEF data
<1>5. NonZero(data, 0) =
        {w \in 0..(PAGESIZE - 1) :
            w % WordBytes = 0 /\ \E k \in 0..(WordBytes - 1) : data[w + k] # 0}
  <2>1. \A w \in 0..(PAGESIZE - 1) : w - 0 = w
      BY SpaceFacts
  <2> QED BY <2>1 DEF NonZero
<1>6. ASSUME NEW w \in NonZero(data, 0)
      PROVE  /\ Line(addr, data, w) \in Lines
             /\ \A k \in 1..WordBytes :
                    Memory[Line(addr, data, w).addr + k - 1]
                      = Line(addr, data, w).data[k]
  <2>1. w \in 0..(PAGESIZE - 1) /\ w % WordBytes = 0
      BY <1>5
  <2>2. addr + w \in Addr
      BY <1>4, <2>1
  <2>3. \A k \in 1..WordBytes : w + k - 1 \in 0..(PAGESIZE - 1)
      BY <2>1, WordInPage
  <2>4. \A k \in 1..WordBytes : data[w + k - 1] \in Bytes
      BY <1>4, <2>3
  <2>5. Line(addr, data, w) \in Lines
      BY <2>2, <2>4 DEF Line, Lines
  <2>6. ASSUME NEW k \in 1..WordBytes
        PROVE  Memory[Line(addr, data, w).addr + k - 1]
                 = Line(addr, data, w).data[k]
    <3>1. (addr + w) + k - 1 = addr + (w + k - 1)
        BY <1>2, <1>3, <2>1, SpaceFacts DEF Addr
    <3>2. Memory[addr + (w + k - 1)] = data[w + k - 1]
        BY <1>4, <2>3
    <3> QED BY <3>1, <3>2 DEF Line
  <2> QED BY <2>5, <2>6
<1>7. new = {Line(addr, data, w) : w \in NonZero(data, 0)}
    BY <1>2
<1> HIDE DEF new
<1>8. lines' \subseteq Lines /\ lines \subseteq lines'
    BY <1>1, <1>6, <1>7 DEF Written
<1>9. Memory' = Memory
    BY <1>1 DEF Memory
<1>10. LinesAreMemory'
  <2> SUFFICES ASSUME NEW l \in lines', NEW k \in 1..WordBytes
               PROVE  Memory[l.addr + k - 1] = l.data[k]
      BY <1>9 DEF LinesAreMemory
  <2>1. CASE l \in lines
      BY <1>1, <2>1 DEF Written, LinesAreMemory
  <2>2. CASE l \in new
      BY <1>6, <1>7, <2>2
  <2> QED BY <1>1, <2>1, <2>2
<1>11. ASSUME NEW a \in Addr, pnum(a) = page_num, Memory[a] # 0
       PROVE  \E l \in lines' : l.addr = a - (a % WordBytes)
  <2> DEFINE o == poff(a)
             w == o - (o % WordBytes)
  <2>1. /\ o \in 0..(PAGESIZE - 1) /\ a = PageStart(a) + o
        /\ PageStart(a) \in Addr /\ PageStart(a) % PAGESIZE = 0
        /\ PageStart(a) \div PAGESIZE = pnum(a)
      BY PageBegins
  <2>2. PageStart(a) = addr
      BY <1>2, <1>11, <2>1, AddrSplit DEF pnum, poff
  <2>3. a = addr + o /\ o \in Nat /\ addr \in Nat
      BY <1>2, <2>1, <2>2, SpaceFacts DEF Addr
  <2> HIDE DEF o
  <2>4. /\ w \in 0..(PAGESIZE - 1) /\ w % WordBytes = 0
        /\ o % WordBytes \in 0..(WordBytes - 1) /\ o = w + (o % WordBytes)
      BY <2>1, WordOf
  <2>5. data[w + (o % WordBytes)] # 0
      BY <1>4, <1>11, <2>1, <2>3, <2>4
  <2>6. w \in NonZero(data, 0)
      BY <1>5, <2>4, <2>5
  <2>7. Line(addr, data, w) \in lines'
      BY <1>1, <1>7, <2>6
  <2>8. a % WordBytes = o % WordBytes
    <3>1. addr % WordBytes = 0
      <4>1. /\ PAGESIZE \in Nat /\ PAGESIZE > 0 /\ PAGESIZE % WordBytes = 0
            /\ addr % PAGESIZE = 0
          BY <1>2, SpaceFacts, ImageAssumption
      <4> QED BY <1>3, <2>3, <4>1, UnitOfUnits
    <3>2. addr \in Int /\ o \in Int
        BY <2>3
    <3>3. (addr + o) % WordBytes = o % WordBytes
        BY <1>3, <3>1, <3>2, UnitSum
    <3> QED BY <2>3, <3>3
  <2>9. addr + w = a - (a % WordBytes)
    <3>1. o % WordBytes \in Int
        BY <1>3, <2>4
    <3> QED BY <2>3, <2>8, <3>1
  <2>10. Line(addr, data, w).addr = addr + w
      BY DEF Line
  <2> QED BY <2>7, <2>9, <2>10
<1>12. ASSUME NEW n, n = page_num PROVE PageLogged(n)'
    BY <1>9, <1>11, <1>12 DEF PageLogged, Logged
<1> QED BY <1>1, <1>2, <1>8, <1>10, <1>12

\* What is logged stays so as long as memory does not change.
LEMMA LoggedStays ==
    ASSUME ptable' = ptable, lines \subseteq lines',
           seg_start_addr' = seg_start_addr
    PROVE  /\ \A n : PageLogged(n) => PageLogged(n)'
           /\ \A n : Present(n)' = Present(n)
           /\ \A sec : Start(sec)' = Start(sec) /\ Side(sec)' = Side(sec)
           /\ \A sec : Walked(sec) => Walked(sec)'
<1>1. \A n : PageLogged(n) => PageLogged(n)'
    BY DEF PageLogged, Logged, Memory
<1>2. \A n : Present(n)' = Present(n)
    BY DEF Present
<1>3. \A sec : Start(sec)' = Start(sec)
    BY DEF Start, first_addr
<1>4. \A sec : Side(sec)' = Side(sec)
    BY <1>3 DEF Side
<1>5. \A n, m : Connected(n, m)' => Connected(n, m)
    BY <1>2 DEF Connected
<1>6. \A sec : Walked(sec) => Walked(sec)'
    BY <1>1, <1>3, <1>4, <1>5 DEF Walked
<1> QED BY <1>1, <1>2, <1>3, <1>4, <1>6

\* A walk that ends has logged the pages connected to its start.
LEMMA WalkEnds ==
    ASSUME NEW sec \in SectionNames, Walk(sec), ~Present(page_num),
           Control, sec # "HEAP"
    PROVE  Walked(sec)
<1> SUFFICES ASSUME NEW n \in Side(sec), Connected(Start(sec), n)
             PROVE  PageLogged(n)
    BY DEF Walked
<1>1. CASE \A m \in Side(sec) : PageLogged(m)
    BY <1>1
<1>2. CASE /\ page_num \in Side(sec)
           /\ \A m \in Side(sec) :
                PageLogged(m) \/ (IF sec = "STACK" THEN m <= page_num
                                 ELSE m >= page_num)
  <2>1. n \in Nat /\ page_num \in Nat /\ Start(sec) \in Nat
    <3>1. n \in PageNums /\ page_num \in PageNums /\ Start(sec) \in PageNums
        BY <1>2, FirstAddr DEF Side
    <3>2. 0 \in Addr /\ 0 % PAGESIZE = 0
        BY SpaceFacts DEF Addr
    <3> QED BY <3>1, <3>2, PageOrder
  <2>2. SUFFICES ASSUME ~PageLogged(n) PROVE FALSE
      OBVIOUS
  <2>3. page_num \in (n..Start(sec)) \union (Start(sec)..n)
      BY <1>2, <2>1, <2>2 DEF Side
  <2> QED BY <2>3 DEF Connected
<1> QED BY <1>1, <1>2 DEF Walk
\* A turn of a walk logs a page and goes on to the next.
LEMMA WalkOn ==
    ASSUME IInv, log_page
    PROVE  /\ addr' \in Addr /\ addr' % PAGESIZE = 0
           /\ page_num' = addr' \div PAGESIZE /\ page_num' \in PageNums
           /\ Walk(Sections[section])'
<1> DEFINE sec == Sections[section]
           p == addr \div PAGESIZE
<1>1. /\ addr \in Addr /\ addr % PAGESIZE = 0 /\ page_num = p
      /\ sec # "HEAP" /\ ptable' = ptable /\ lines \subseteq lines'
      /\ \A n : n = page_num => PageLogged(n)'
    BY LogPage
<1>2. /\ addr' = next_addr /\ page_num' = next_addr \div PAGESIZE
      /\ seg_start_addr' = seg_start_addr /\ section' = section /\ phase = "log"
    BY DEF log_page, loadVars
<1>3. /\ Control /\ Walk(sec) /\ sec \in SectionNames
      /\ page_num \in PageNums
  <2>1. Walking /\ Walks /\ Control
      BY DEF IInv, LogInv
  <2> QED BY <1>1, <1>2, <2>1, SectionFacts DEF Walking, Walks
<1>4. /\ addr' \in Addr /\ addr' % PAGESIZE = 0
      /\ page_num' = addr' \div PAGESIZE /\ page_num' \in PageNums
  <2>1. next_addr \in Addr /\ next_addr % PAGESIZE = 0
      BY <1>1, NextPage DEF next_addr
  <2> QED BY <1>2, <2>1 DEF PageNums
<1>5. /\ \A n : PageLogged(n) => PageLogged(n)'
      /\ Side(sec)' = Side(sec)
    BY <1>1, <1>2, LoggedStays
<1>6. p \in Nat /\ \A n \in PageNums : n \in Nat
  <2>1. \A n \in PageNums : p \in Nat /\ n \in Nat
      BY <1>1, PageOrder
  <2> QED BY <1>1, <1>3, <2>1
<1>7. SUFFICES ASSUME \E n \in Side(sec) : ~PageLogged(n)'
               PROVE  /\ page_num' \in Side(sec)
                      /\ \A n \in Side(sec) :
                            PageLogged(n)' \/ (IF sec = "STACK"
                                              THEN n <= page_num'
                                              ELSE n >= page_num')
    BY <1>2, <1>4, <1>5 DEF Walk
<1>8. /\ page_num \in Side(sec)
      /\ \A n \in Side(sec) :
            PageLogged(n) \/ (IF sec = "STACK" THEN n <= page_num
                             ELSE n >= page_num)
    BY <1>3, <1>5, <1>7 DEF Walk
<1>9. \A n \in Side(sec) :
        PageLogged(n)' \/ (IF sec = "STACK" THEN n < page_num ELSE n > page_num)
  <2> SUFFICES ASSUME NEW n \in Side(sec), ~PageLogged(n)'
               PROVE  IF sec = "STACK" THEN n < page_num ELSE n > page_num
      OBVIOUS
  <2>1. n # page_num /\ n \in Nat
      BY <1>1, <1>6 DEF Side
  <2>2. IF sec = "STACK" THEN n <= page_num ELSE n >= page_num
      BY <1>5, <1>8
  <2> QED BY <1>1, <1>6, <2>1, <2>2
<1>10. PICK n \in Side(sec) : ~PageLogged(n)'
    BY <1>7
<1>11. n \in PageNums
    BY DEF Side
<1>12. IF sec = "STACK" THEN page_num' = p - 1 ELSE page_num' = p + 1
  <2>1. CASE sec = "STACK"
    <3>1. n < p
        BY <1>1, <1>9, <1>10, <2>1
    <3>2. ~\A m \in PageNums : m >= p
        BY <1>6, <1>11, <3>1
    <3> QED BY <1>1, <1>2, <2>1, <3>2, NextPage DEF next_addr
  <2>2. CASE sec # "STACK"
    <3>1. n > p
        BY <1>1, <1>9, <1>10, <2>2
    <3>2. ~\A m \in PageNums : m <= p
        BY <1>6, <1>11, <3>1
    <3> QED BY <1>1, <1>2, <2>2, <3>2, NextPage DEF next_addr
  <2> QED BY <2>1, <2>2
<1>13. \A m \in Side(sec) : m \in Nat
    BY <1>6 DEF Side
<1>14. \A m \in Side(sec) :
        PageLogged(m)' \/ (IF sec = "STACK" THEN m <= page_num'
                          ELSE m >= page_num')
    BY <1>1, <1>6, <1>9, <1>12, <1>13
<1>15. page_num' \in Side(sec)
  <2>1. Start(sec) \in Nat
      BY <1>1, <1>3, <1>6, FirstAddr
  <2>2. IF sec = "STACK" THEN page_num <= Start(sec) ELSE page_num >= Start(sec)
      BY <1>8 DEF Side
  <2> QED BY <1>1, <1>4, <1>6, <1>12, <2>1, <2>2 DEF Side
<1> QED BY <1>14, <1>15

\* Lines are true, and pages that walks have passed are logged, in every step.
LEMMA LogStep == IInv /\ [Next]_vars => LogInv'
<1> SUFFICES ASSUME IInv, [Next]_vars PROVE LogInv'
    OBVIOUS
<1>1. Control /\ Walking /\ Written /\ Walks
    BY DEF IInv, LogInv
<1>2. ASSUME phase' \notin {"log", "done"}, phase \notin {"log", "done"},
             UNCHANGED logVars
      PROVE  LogInv'
  <2>1. Walking'
      BY <1>1, <1>2 DEF Walking, logVars
  <2>2. Written'
      BY <1>1, <1>2 DEF Written, logVars, LinesAreMemory
  <2>3. Walks'
      BY <1>2 DEF Walks
  <2> QED BY <2>1, <2>2, <2>3 DEF LogInv
<1>3. CASE copy_byte \/ copy_end \/ map_bss \/ bss_end \/ read_sections
    BY <1>2, <1>3 DEF copy_byte, copy_end, map_bss, bss_end, read_sections
<1>4. CASE access \/ access_step
    BY <1>2, <1>4 DEF access, access_step
<1>5. CASE log_machine_state
  <2>1. /\ phase = "run" /\ phase' = "log" /\ section' = 1 /\ lines' = lines
        /\ addr' = first_addr("TEXT") /\ page_num' = first_pnum("TEXT", page_num)
        /\ ptable' = ptable /\ seg_start_addr' = seg_start_addr
      BY <1>5 DEF log_machine_state, memVars, loadVars
  <2>2. "TEXT" \in SectionNames
      BY SectionFacts
  <2>3. /\ addr' \in Addr /\ addr' % PAGESIZE = 0 /\ page_num' = Start("TEXT")
        /\ page_num' \in PageNums /\ Start("TEXT") \in Side("TEXT")
      BY <1>1, <2>1, <2>2, FirstAddr
  <2>4. Walking'
      BY <2>1, <2>3, SectionFacts DEF Walking, Start
  <2>5. Written'
      BY <1>1, <2>1 DEF Written, LinesAreMemory
  <2>6. Walk("TEXT")'
    <3>1. Side("TEXT")' = Side("TEXT")
        BY <2>1, LoggedStays
    <3>2. \A n \in Side("TEXT") : n >= Start("TEXT")
        BY DEF Side
    <3> QED BY <2>3, <3>1, <3>2 DEF Walk
  <2>7. Walks'
      BY <2>1, <2>6, SectionFacts DEF Walks
  <2> QED BY <2>4, <2>5, <2>7 DEF LogInv
<1>6. CASE log_page
  <2>1. /\ phase = "log" /\ phase' = "log" /\ section' = section
        /\ seg_start_addr' = seg_start_addr
      BY <1>6 DEF log_page, loadVars
  <2>2. /\ Sections[section] # "HEAP" /\ ptable' = ptable
        /\ lines \subseteq lines' /\ lines' \subseteq Lines /\ LinesAreMemory'
      BY <1>6, LogPage
  <2>3. /\ addr' \in Addr /\ addr' % PAGESIZE = 0
        /\ page_num' = addr' \div PAGESIZE /\ page_num' \in PageNums
        /\ Walk(Sections[section])'
      BY <1>6, WalkOn
  <2>4. Walking'
      BY <1>1, <2>1, <2>2, <2>3 DEF Walking
  <2>5. Written'
      BY <2>1, <2>2 DEF Written, Lines
  <2>6. \A sec : Walked(sec) => Walked(sec)'
      BY <2>1, <2>2, LoggedStays
  <2>7. Walks'
      BY <1>1, <2>1, <2>3, <2>6 DEF Walks
  <2> QED BY <2>4, <2>5, <2>7 DEF LogInv
<1>7. CASE log_section_end
  <2>1. /\ phase = "log" /\ ~Present(page_num) /\ lines' = lines
        /\ ptable' = ptable /\ seg_start_addr' = seg_start_addr
        /\ section \in 1..4
      BY <1>1, <1>7, SectionFacts
         DEF log_section_end, memVars, loadVars, Walking
  <2>2. \A sec : Walked(sec) => Walked(sec)'
      BY <2>1, LoggedStays
  <2>3. \A s \in 1..section : Sections[s] # "HEAP" => Walked(Sections[s])'
    <3> SUFFICES ASSUME NEW s \in 1..section, Sections[s] # "HEAP"
                 PROVE  Walked(Sections[s])
        BY <2>2
    <3>1. CASE s = section
      <4>1. Walk(Sections[section]) /\ Sections[section] \in SectionNames
          BY <1>1, <2>1, <3>1, SectionFacts DEF Walks
      <4> QED BY <1>1, <2>1, <3>1, <4>1, WalkEnds
    <3>2. CASE s # section
      <4>1. s \in 1..(section - 1)
          BY <2>1, <3>2
      <4> QED BY <1>1, <2>1, <4>1 DEF Walks
    <3> QED BY <3>1, <3>2
  <2>4. Written'
      BY <1>1, <2>1, <1>7 DEF Written, LinesAreMemory, Memory, log_section_end
  <2>5. CASE section < 4
    <3> PICK sec : sec = Sections[section + 1]
        OBVIOUS
    <3>1. /\ section' = section + 1 /\ addr' = first_addr(sec)
          /\ page_num' = first_pnum(sec, page_num) /\ phase' = "log"
        BY <1>7, <2>1, <2>5, SectionFacts DEF log_section_end
    <3>2. section' \in 1..4 /\ sec \in SectionNames /\ section' - 1 = section
        BY <2>1, <2>5, <3>1, SectionFacts
    <3>3. Sections[section'] = sec
        BY <3>1
    <3>4. /\ addr' \in Addr
          /\ sec # "HEAP" => /\ addr' % PAGESIZE = 0
                             /\ page_num' = Start(sec)
                             /\ page_num' \in PageNums /\ Start(sec) \in Side(sec)
        BY <1>1, <3>1, <3>2, FirstAddr
    <3>5. sec = "HEAP" => page_num' = page_num
        BY <3>1 DEF first_pnum
    <3>6. page_num' \in PageNums
        BY <1>1, <3>4, <3>5 DEF Walking
    <3>7. ~Present(page_num)'  \/ sec # "HEAP"
        BY <2>1, <3>5 DEF Present
    <3>8. sec # "HEAP" => page_num' = addr' \div PAGESIZE
        BY <3>1, <3>4 DEF Start
    <3>9. Walking'
        BY <3>2, <3>3, <3>4, <3>6, <3>7, <3>8, SectionFacts DEF Walking
    <3>10. sec # "HEAP" => Walk(sec)'
      <4> SUFFICES ASSUME sec # "HEAP" PROVE Walk(sec)'
          OBVIOUS
      <4>1. Side(sec)' = Side(sec)
          BY <2>1, LoggedStays
      <4>2. \A n \in Side(sec) :
                IF sec = "STACK" THEN n <= Start(sec) ELSE n >= Start(sec)
          BY DEF Side
      <4> QED BY <3>4, <4>1, <4>2 DEF Walk
    <3>11. Walks'
        BY <2>3, <3>1, <3>2, <3>3, <3>10 DEF Walks
    <3> QED BY <2>4, <3>9, <3>11 DEF LogInv
  <2>6. CASE section >= 4
    <3>1. section = 4 /\ phase' = "done" /\ UNCHANGED <<section, addr, page_num>>
        BY <1>7, <2>1, <2>6, SectionFacts DEF log_section_end
    <3>2. Walking'
        BY <1>1, <3>1 DEF Walking
    <3>3. Walks'
        BY <2>3, <3>1, SectionFacts DEF Walks
    <3> QED BY <2>4, <3>2, <3>3 DEF LogInv
  <2> QED BY <2>1, <2>5, <2>6
<1>8. CASE finished \/ UNCHANGED vars
  <2>1. /\ ptable' = ptable /\ phase' = phase /\ seg_start_addr' = seg_start_addr
        /\ addr' = addr /\ page_num' = page_num /\ section' = section
        /\ lines' = lines
      BY <1>8 DEF finished, vars, memVars, loadVars, logVars
  <2>2. Walking'
      BY <1>1, <2>1 DEF Walking, Present
  <2>3. Written'
      BY <1>1, <2>1 DEF Written, LinesAreMemory, Memory
  <2>4. /\ \A sec : Walked(sec) => Walked(sec)'
        /\ \A n : PageLogged(n) => PageLogged(n)'
        /\ \A sec : Side(sec)' = Side(sec)
      BY <2>1, LoggedStays
  <2>5. \A sec : Walk(sec) => Walk(sec)'
      BY <2>1, <2>4 DEF Walk
  <2>6. Walks'
      BY <1>1, <2>1, <2>4, <2>5 DEF Walks
  <2> QED BY <2>2, <2>3, <2>6 DEF LogInv
<1> QED BY <1>3, <1>4, <1>5, <1>6, <1>7, <1>8 DEF Next
----------------------------------------------------------------------------
(* Theorems.                                                               *)

\* The invariant holds before the first segment is loaded.
LEMMA ImageInit == Init => IInv
<1> SUFFICES ASSUME Init PROVE IInv
    OBVIOUS
<1>1. /\ ptable = [h \in Buckets |-> <<>>] /\ req = Idle /\ i = 0
      /\ retval = <<>> /\ result = <<>>
    BY SamePages DEF Init, Mem!Init
<1>2. /\ image \in Images /\ phase = "copy" /\ ph = 1 /\ j = 0
      /\ seg_start_addr = seg_starts /\ accesses = 0 /\ addr = 0
      /\ page_num = 0 /\ section = 1 /\ lines = {}
    BY DEF Init
<1>3. Good(ptable) /\ Memory = [a \in Addr |-> 0]
    BY <1>1, EmptyTable DEF Memory
<1>4. MemoryInv
    BY <1>1, <1>3, Requests DEF MemoryInv, Underway
<1>5. ph \in DOMAIN image.headers
  <2>1. image.headers \in Seq(Headers) \ {<<>>}
      BY <1>2, ImageAssumption DEF WellFormed
  <2> QED BY <1>2, <2>1
<1>6. Control
    BY <1>1, <1>2, <1>5, ImageAssumption DEF Control
<1>7. LoadInv
  <2>1. Loaded
    <3> SUFFICES ASSUME NEW h \in 1..1, NEW k \in 0..(image.headers[h].filesz - 1),
                        h < 1 \/ k < 0
                 PROVE  FALSE
        BY <1>2 DEF Loaded
    <3>1. h \in DOMAIN image.headers
        BY <1>2, <1>5
    <3>2. image.headers[h].filesz \in Nat
        BY <1>2, <3>1, HeaderFacts
    <3> QED BY <3>2
  <2>2. Untouched
      BY <1>3 DEF Untouched
  <2> QED BY <1>2, <2>1, <2>2 DEF LoadInv, AllHeaders
<1>8. 0 \in Addr /\ 0 \in PageNums
  <2>1. 0 \in Addr
      BY SpaceFacts DEF Addr
  <2>2. 0 \div PAGESIZE = 0
      BY SpaceFacts
  <2> QED BY <2>1, <2>2 DEF PageNums
<1>9. LogInv
    BY <1>2, <1>8, SectionFacts DEF LogInv, Walking, Written, Walks, LinesAreMemory
<1> QED BY <1>4, <1>6, <1>7, <1>9 DEF IInv

\* The invariant holds throughout.
LEMMA ImageInvariant == Spec => []IInv
<1>1. IInv /\ [Next]_vars => IInv'
    BY MemoryStep, ControlStep, LoadStep, LogStep DEF IInv
<1> QED BY <1>1, ImageInit, PTL DEF Spec

\* The state stays well typed: loader and walks stay within the executable's
\* headers, the address space and the pages it has.
THEOREM TypeCorrect == Spec => []TypeOK
<1>1. IInv => TypeOK
  <2> SUFFICES ASSUME IInv PROVE TypeOK
      OBVIOUS
  <2>1. /\ Good(ptable) /\ Underway /\ Control /\ Walking /\ Written
      BY DEF IInv, MemoryInv, LogInv
  <2>2. i \in -1..AddrSpace
    <3>1. req \in Reads \cup Writes \cup {Idle}
        BY <2>1 DEF Underway
    <3>2. CASE req.kind = "read"
      <4>1. req.width \in 1..AddrSpace
          BY <3>1, <3>2, Requests
      <4> QED BY <2>1, <3>2, <4>1, SpaceFacts DEF Underway
    <3>3. CASE req.kind = "write"
      <4>1. req.data \in Data
          BY <3>1, <3>3, Requests
      <4>2. Len(req.data) \in 1..AddrSpace
          BY <4>1, DataType
      <4> QED BY <2>1, <3>3, <4>2, SpaceFacts DEF Underway
    <3>4. CASE req.kind \notin {"read", "write"}
      <4>1. req = Idle
          BY <3>1, <3>4, Requests
      <4> QED BY <2>1, <4>1, SpaceFacts DEF Underway
    <3> QED BY <3>2, <3>3, <3>4
  <2>3. Mem!TypeOK
    <3>1. /\ ptable \in [Buckets -> Seq(Pages)]
          /\ req \in Reads \cup Writes \cup {Idle}
          /\ retval \in Seq(Bytes) /\ result \in Seq(Bytes)
        BY <2>1 DEF Good, Underway
    <3> QED BY <2>2, <3>1, SamePages DEF Mem!TypeOK
  <2> QED BY <2>1, <2>3 DEF TypeOK, Control, Walking, Written, Lines
<1> QED BY <1>1, ImageInvariant, PTL

\* When the program starts every byte the file has for a segment is at its
\* address (elf_loader.c:68-80), for every well-formed executable.
THEOREM SegmentsCorrect == Spec => []SegmentsLoaded
<1>1. IInv => SegmentsLoaded
  <2> SUFFICES ASSUME IInv, Started, NEW h \in DOMAIN image.headers,
                      NEW k \in 0..(image.headers[h].filesz - 1)
               PROVE  Memory[image.headers[h].vaddr + k]
                        = image.file[image.headers[h].offset + k + 1]
      BY DEF SegmentsLoaded
  <2>1. Loaded /\ AllHeaders /\ Control /\ Loading /\ phase = "run"
      BY DEF IInv, LoadInv, Loading, Started
  <2>2. h \in 1..ph
    <3>1. ph = Len(image.headers)
        BY <2>1 DEF AllHeaders
    <3>2. WellFormed(image)
        BY <2>1, ImageAssumption DEF Control
    <3> QED BY <3>1, <3>2 DEF WellFormed
  <2> QED BY <2>1, <2>2 DEF Loaded, Here
<1> QED BY <1>1, ImageInvariant, PTL

\* When the program starts uninitialized data is zero (elf_loader.c:81-90)
\* wherever no byte copied beyond a segment's end reaches it.
THEOREM UninitializedCorrect == Spec => []UninitializedIsZero
<1>1. IInv => UninitializedIsZero
  <2> SUFFICES ASSUME IInv, Started, NEW h \in DOMAIN image.headers,
                      NEW k \in image.headers[h].filesz
                                ..(image.headers[h].memsz - 1),
                      \A g \in 1..h : Reach(g) <= image.headers[h].vaddr + k,
                      Memory[image.headers[h].vaddr + k] # 0
               PROVE  FALSE
      BY DEF UninitializedIsZero, Reach
  <2> DEFINE a == image.headers[h].vaddr + k
  <2>1. Untouched /\ AllHeaders /\ Control /\ Loading /\ phase = "run"
        /\ image \in Images
      BY DEF IInv, LoadInv, Loading, Started, Control
  <2>2. ph = Len(image.headers) /\ WellFormed(image)
      BY <2>1, ImageAssumption DEF AllHeaders
  <2>3. /\ DOMAIN image.headers = 1..ph /\ ph \in Nat
      BY <2>2 DEF WellFormed
  <2>4. /\ image.headers[h].vaddr \in Nat /\ image.headers[h].filesz \in Nat
        /\ image.headers[h].memsz \in Nat
        /\ image.headers[h].vaddr + image.headers[h].memsz <= AddrSpace
      BY <2>1, HeaderFacts
  <2>5. a \in Addr /\ a \in Nat /\ a < image.headers[h].vaddr + image.headers[h].memsz
      BY <2>4, SpaceFacts DEF Addr
  <2>6. PICK g \in 1..ph : a \in image.headers[g].vaddr..(Reach(g) - 1)
      BY <2>1, <2>5 DEF Untouched
  <2>7. image.headers[g].vaddr \in Nat /\ Reach(g) \in Int /\ g \in DOMAIN image.headers
    <3>1. g \in DOMAIN image.headers
        BY <2>3
    <3> QED BY <2>1, <3>1, HeaderFacts, SpaceFacts DEF Reach
  <2>8. image.headers[g].vaddr <= a /\ a < Reach(g)
      BY <2>5, <2>6, <2>7
  <2>9. CASE g <= h
    <3>1. g \in 1..h
        BY <2>3, <2>9
    <3>2. Reach(g) <= a
        BY <3>1
    <3> QED BY <2>5, <2>7, <2>8, <3>2
  <2>10. CASE g > h
    <3>1. h \in 1..(g - 1)
        BY <2>3, <2>10
    <3>2. image.headers[h].vaddr + image.headers[h].memsz <= image.headers[g].vaddr
        BY <2>1, <2>7, <3>1, HeaderFacts
    <3> QED BY <2>4, <2>5, <2>7, <2>8, <3>2
  <2> QED BY <2>3, <2>9, <2>10
<1> QED BY <1>1, ImageInvariant, PTL

\* Every line of the checkpoint gives memory's word at the address it names
\* (machine.c:130-190), in whatever order pages were made and hashed.
THEOREM LinesCorrect == Spec => []LinesAreMemory
<1>1. IInv => LinesAreMemory
    BY DEF IInv, LogInv, Written
<1> QED BY <1>1, ImageInvariant, PTL

\* The finished checkpoint has every non-zero byte of text, data and stack
\* that existing pages connect to the start of its section (machine.c:130-190).
THEOREM CheckpointCorrect == Spec => []CheckpointComplete
<1>1. IInv => CheckpointComplete
  <2> SUFFICES ASSUME IInv, phase = "done", NEW a \in Addr, Memory[a] # 0,
                      NEW sec \in {"TEXT", "DATA", "STACK"},
                      IF sec = "STACK" THEN pnum(a) <= Start(sec)
                      ELSE pnum(a) >= Start(sec),
                      Connected(Start(sec), pnum(a))
               PROVE  Logged(a)
      BY DEF CheckpointComplete, Start
  <2>1. Walks
      BY DEF IInv, LogInv
  <2>2. Walked(sec)
      BY <2>1, SectionFacts DEF Walks
  <2>3. pnum(a) \in Side(sec)
      BY AddrSplit DEF Side
  <2> QED BY <2>2, <2>3 DEF Walked, PageLogged
<1> QED BY <1>1, ImageInvariant, PTL
=============================================================================
