------------------------------- MODULE Image -------------------------------
(***************************************************************************)
(* The life of the simulated memory: loadElf (elf_loader.c) copies the     *)
(* segments of an executable into pages, the program loads and stores, and *)
(* log_machine_state (machine.c) walks the pages and writes what is not    *)
(* zero to the checkpoint file.  The pages are those of PageChains; the    *)
(* program accesses them through PageTable's actions.                      *)
(***************************************************************************)
EXTENDS PageChains

CONSTANTS
    WordBytes,          \* bytes per line of the checkpoint, 8
    Images,             \* the executables
    seg_starts,         \* seg_starts of machine.c, by section
    Accessed,           \* addresses the program accesses
    MaxAccess           \* bound: accesses of a run

VARIABLES
    ptable, req, i, retval, result,     \* see PageTable
    image,              \* the executable
    phase,              \* what is being done
    ph, j,              \* program header, and loop counter, of loadElf
    seg_start_addr,     \* guest.mem->seg_start_addr
    accesses,           \* accesses the program has begun
    addr, page_num, section,    \* where log_machine_state is
    lines               \* the memory lines it has written

Mem == INSTANCE PageTable

memVars == <<ptable, req, i, retval, result>>
loadVars == <<ph, j, seg_start_addr>>
logVars == <<addr, page_num, section, lines>>
vars == <<memVars, image, phase, loadVars, accesses, logVars>>

Sections == <<"TEXT", "DATA", "HEAP", "STACK">>
SectionNames == {Sections[k] : k \in DOMAIN Sections}

Headers == [offset : Nat, vaddr : Nat, filesz : Nat, memsz : Nat, prot : Prots]

\* What a linker writes: segments in the order of their addresses that do not
\* overlap, each with its place in the file, and below the end of the address
\* space by the bytes the loader copies too many.
WellFormed(img) ==
    /\ img.file \in Seq(Bytes) /\ img.headers \in Seq(Headers) \ {<<>>}
    /\ DOMAIN img.sections \subseteq SectionNames
    /\ \A s \in DOMAIN img.sections : img.sections[s] \in Addr
    /\ \A h \in DOMAIN img.headers :
        LET s == img.headers[h]
        IN /\ s.filesz <= s.memsz /\ s.vaddr + s.memsz <= AddrSpace
           /\ s.vaddr + s.filesz + (s.vaddr % PAGESIZE) <= AddrSpace
           /\ s.offset + s.filesz + (s.vaddr % PAGESIZE) <= Len(img.file)
           /\ \A g \in 1..(h - 1) :
                img.headers[g].vaddr + img.headers[g].memsz <= s.vaddr

ASSUME ImageAssumption ==
    /\ WordBytes \in Nat \ {0}
    /\ PAGESIZE % WordBytes = 0 /\ AddrSpace % PAGESIZE = 0
    /\ \A img \in Images : WellFormed(img)
    /\ seg_starts \in [SectionNames -> Addr]
    /\ Accessed \subseteq Addr /\ MaxAccess \in Nat

Init ==
    /\ Mem!Init
    /\ image \in Images
    /\ phase = "copy" /\ ph = 1 /\ j = 0
    /\ seg_start_addr = seg_starts
    /\ accesses = 0
    /\ addr = 0 /\ page_num = 0 /\ section = 1 /\ lines = {}

----------------------------------------------------------------------------
(* elf_loader.c: one step per turn of a loop.                              *)

header == image.headers[ph]

\* Mutant: the size is rounded up to whole pages.
copy_size_rounded(h) == h.filesz + (PAGESIZE - (h.filesz % PAGESIZE))

copy_size(h) == h.filesz + (h.vaddr % PAGESIZE)
f_align(h) == h.filesz + (PAGESIZE - ((h.filesz + h.vaddr) % PAGESIZE))
bss_size(h) == h.memsz - h.filesz

\* Mutant: the bytes are taken from the beginning of the file.
copy_byte_start ==
    /\ phase = "copy" /\ j < copy_size(header)
    /\ LET a == Plus(header.vaddr, j)
       IN ptable' = SetByte(Touch(ptable, pnum(a), header.prot), a,
                            image.file[j + 1])
    /\ j' = j + 1
    /\ UNCHANGED <<req, i, retval, result, image, phase, ph, seg_start_addr,
                   accesses, logVars>>

copy_byte ==
    /\ phase = "copy" /\ j < copy_size(header)
    /\ LET a == Plus(header.vaddr, j)
       IN ptable' = SetByte(Touch(ptable, pnum(a), header.prot), a,
                            image.file[header.offset + j + 1])
    /\ j' = j + 1
    /\ UNCHANGED <<req, i, retval, result, image, phase, ph, seg_start_addr,
                   accesses, logVars>>

copy_end ==
    /\ phase = "copy" /\ j >= copy_size(header)
    /\ phase' = "bss" /\ j' = 0
    /\ UNCHANGED <<memVars, image, ph, seg_start_addr, accesses, logVars>>

\* The pages of the uninitialized data, from the page behind the file's bytes.
map_bss ==
    /\ phase = "bss" /\ j < bss_size(header)
    /\ LET a == Plus(header.vaddr, f_align(header) + j)
       IN ptable' = Touch(ptable, pnum(a), header.prot)
    /\ j' = j + 1
    /\ UNCHANGED <<req, i, retval, result, image, phase, ph, seg_start_addr,
                   accesses, logVars>>

\* Mutant: the last program header is not noticed.
bss_end_past ==
    /\ phase = "bss" /\ j >= bss_size(header)
    /\ j' = 0 /\ ph' = ph + 1
    /\ phase' = IF ph <= Len(image.headers) THEN "copy" ELSE "sections"
    /\ UNCHANGED <<memVars, image, seg_start_addr, accesses, logVars>>

bss_end ==
    /\ phase = "bss" /\ j >= bss_size(header)
    /\ IF ph < Len(image.headers)
       THEN ph' = ph + 1 /\ phase' = "copy"
       ELSE ph' = ph /\ phase' = "sections"
    /\ j' = 0
    /\ UNCHANGED <<memVars, image, seg_start_addr, accesses, logVars>>

\* The section headers: .text and .data move their segments if present.
read_sections ==
    /\ phase = "sections"
    /\ seg_start_addr' = [s \in SectionNames |->
                            IF s \in DOMAIN image.sections
                            THEN image.sections[s] ELSE seg_start_addr[s]]
    /\ phase' = "run"
    /\ UNCHANGED <<memVars, image, ph, j, accesses, logVars>>

----------------------------------------------------------------------------
(* The program's loads and stores.                                         *)

access ==
    /\ phase = "run" /\ accesses < MaxAccess
    /\ accesses' = accesses + 1
    /\ \/ \E a \in Accessed, width \in Widths : Mem!mem_read(a, width)
       \/ \E a \in Accessed, data \in Data : Mem!mem_write(a, data)
    /\ UNCHANGED <<image, phase, loadVars, logVars>>

access_step ==
    /\ phase = "run"
    /\ \/ Mem!mem_read_byte \/ Mem!mem_read_return
       \/ Mem!mem_write_byte \/ Mem!mem_write_return
    /\ UNCHANGED <<image, phase, loadVars, accesses, logVars>>

----------------------------------------------------------------------------
(* machine.c: the memory part of the checkpoint, one step per page.        *)

PageStart(a) == a - (a % PAGESIZE)

\* Subtraction in 64-bit arithmetic.
Minus(a, n) == IF a >= n THEN a - n ELSE a - n + AddrSpace

\* Mutant: only the text segment's page number is computed.
first_addr_once(sec) ==
    IF sec = "STACK" THEN PageStart(Minus(seg_start_addr[sec], PAGESIZE))
    ELSE PageStart(seg_start_addr[sec])
first_pnum_once(sec, before) ==
    IF sec = "TEXT" THEN first_addr_once(sec) \div PAGESIZE ELSE before

\* The stack is walked downward from below its start.
first_addr(sec) ==
    CASE sec = "STACK" -> PageStart(Minus(seg_start_addr[sec], PAGESIZE))
      [] sec = "HEAP" -> seg_start_addr[sec]
      [] OTHER -> PageStart(seg_start_addr[sec])

\* The heap's page number is not computed: pnum is what the data walk left.
first_pnum(sec, before) ==
    IF sec = "HEAP" THEN before ELSE first_addr(sec) \div PAGESIZE

log_machine_state ==
    /\ phase = "run" /\ req = Idle
    /\ phase' = "log" /\ section' = 1
    /\ addr' = first_addr("TEXT") /\ page_num' = first_pnum("TEXT", page_num)
    /\ UNCHANGED <<memVars, image, loadVars, accesses, lines>>

\* The words of a page from offset o on that are not zero.
NonZero(data, o) ==
    {w \in o..(PAGESIZE - 1) :
        /\ (w - o) % WordBytes = 0
        /\ \E k \in 0..(WordBytes - 1) : data[w + k] # 0}

Present(n) == get_page(ptable, n) # 0
Line(a, data, w) ==
    [addr |-> a + w, data |-> [k \in 1..WordBytes |-> data[w + k - 1]]]

next_addr == IF Sections[section] = "STACK" THEN Minus(addr, PAGESIZE)
             ELSE Plus(addr, PAGESIZE)

\* Mutant: addresses go upward in every section, pages do not.
log_page_upward ==
    /\ phase = "log" /\ Present(page_num)
    /\ LET data == Page(ptable, page_num).p_data
       IN lines' = lines \union
            {Line(addr, data, w) : w \in NonZero(data, addr % PAGESIZE)}
    /\ addr' = Plus(addr, PAGESIZE)
    /\ page_num' = IF Sections[section] = "STACK" THEN page_num - 1 ELSE page_num + 1
    /\ UNCHANGED <<memVars, image, phase, loadVars, accesses, section>>

log_page ==
    /\ phase = "log" /\ Present(page_num)
    /\ LET data == Page(ptable, page_num).p_data
       IN lines' = lines \union
            {Line(addr, data, w) : w \in NonZero(data, addr % PAGESIZE)}
    /\ addr' = next_addr /\ page_num' = next_addr \div PAGESIZE
    /\ UNCHANGED <<memVars, image, phase, loadVars, accesses, section>>

\* The walk of a section ends at the first page that does not exist.
log_section_end ==
    /\ phase = "log" /\ ~Present(page_num)
    /\ IF section < Len(Sections)
       THEN LET sec == Sections[section + 1]
            IN /\ section' = section + 1
               /\ addr' = first_addr(sec) /\ page_num' = first_pnum(sec, page_num)
               /\ phase' = phase
       ELSE phase' = "done" /\ UNCHANGED <<section, addr, page_num>>
    /\ UNCHANGED <<memVars, image, loadVars, accesses, lines>>

finished == phase = "done" /\ UNCHANGED vars

Next ==
    \/ copy_byte \/ copy_end \/ map_bss \/ bss_end \/ read_sections
    \/ access \/ access_step
    \/ log_machine_state \/ log_page \/ log_section_end \/ finished

Spec == Init /\ [][Next]_vars

----------------------------------------------------------------------------
(* Properties.                                                             *)

TypeOK ==
    /\ Mem!TypeOK
    /\ image \in Images
    /\ phase \in {"copy", "bss", "sections", "run", "log", "done"}
    /\ ph \in DOMAIN image.headers /\ j \in Nat
    /\ seg_start_addr \in [SectionNames -> Addr]
    /\ accesses \in 0..MaxAccess
    /\ section \in DOMAIN Sections /\ addr \in Addr /\ page_num \in PageNums
    /\ lines \subseteq [addr : Addr, data : [1..WordBytes -> Bytes]]

\* The bytes a load would return.
Memory == Contents(ptable)
Started == phase = "run" /\ accesses = 0

\* elf_loader.c:68-80: when the program starts, every byte the file has for a
\* segment is at its address, in spite of the bytes copied beyond the ends of
\* other segments.
SegmentsLoaded ==
    Started => \A h \in DOMAIN image.headers :
        LET s == image.headers[h]
        IN \A k \in 0..(s.filesz - 1) :
            Memory[s.vaddr + k] = image.file[s.offset + k + 1]

\* elf_loader.c:81-90: the uninitialized data of a segment is zero when the
\* program starts, on the last page of the file's bytes and where no page exists
\* as well, unless bytes copied beyond the end of this segment or of an earlier
\* one reach it, which no segment that begins on a page has.
UninitializedIsZero ==
    Started => \A h \in DOMAIN image.headers :
        LET s == image.headers[h]
        IN \A k \in s.filesz..(s.memsz - 1) :
            (\A g \in 1..h :
                LET t == image.headers[g]
                IN t.vaddr + t.filesz + (t.vaddr % PAGESIZE) <= s.vaddr + k)
            => Memory[s.vaddr + k] = 0

\* machine.c:130-190: every line of the checkpoint gives the memory's word at
\* the address it names.
LinesAreMemory ==
    \A l \in lines : \A k \in 1..WordBytes :
        Memory[l.addr + k - 1] = l.data[k]

Logged(a) == \E l \in lines : l.addr = a - (a % WordBytes)

\* Pages n to m, in either order, exist.
Connected(n, m) == \A x \in (n..m) \union (m..n) : Present(x)

\* machine.c:130-190: the finished checkpoint has every non-zero byte of text,
\* data and stack that existing pages connect to the start of its section.
CheckpointComplete ==
    phase = "done" => \A a \in Addr :
        LET n == pnum(a)
            Start(sec) == first_addr(sec) \div PAGESIZE
        IN (/\ Memory[a] # 0
            /\ \/ n >= Start("TEXT") /\ Connected(Start("TEXT"), n)
               \/ n >= Start("DATA") /\ Connected(Start("DATA"), n)
               \/ n <= Start("STACK") /\ Connected(Start("STACK"), n))
           => Logged(a)

\* machine.c:162 "Heap memory", README.md:37 "relevant memory contents": what
\* the program has stored at the start of its heap is in the checkpoint.
HeapIsLogged ==
    phase = "done" => \A a \in Addr :
        (/\ pnum(a) = seg_start_addr["HEAP"] \div PAGESIZE
         /\ Memory[a] # 0) => Logged(a)
============================================================================
