------------------------------ MODULE MCImage ------------------------------
(***************************************************************************)
(* An instance of Image for TLC: nine pages of four bytes, two-byte        *)
(* words, and executables whose segments begin and end on a page, or not,  *)
(* and one whose first segment's copy spills into the next one's zeros.    *)
(***************************************************************************)
EXTENDS Image

MCHash(n) == n % 2
MCProt(a) == 6

MCFile == <<1, 2, 1, 2, 2, 1, 0, 1, 2, 2, 1, 1>>

Segment(offset, vaddr, filesz, memsz) ==
    [offset |-> offset, vaddr |-> vaddr, filesz |-> filesz, memsz |-> memsz,
     prot |-> IF vaddr < 8 THEN 5 ELSE 6]

Executable(headers, sections) ==
    [file |-> MCFile, headers |-> headers, sections |-> sections]

Text == Segment(0, 4, 3, 3)
TextOnly == [s \in {"TEXT"} |-> 4]
TextAndData(a) == [s \in {"TEXT", "DATA"} |-> IF s = "TEXT" THEN 4 ELSE a]

MCImages ==
    {Executable(<<Text>>, TextOnly),
     Executable(<<Text, Segment(4, 8, 2, 6)>>, TextAndData(8)),
     Executable(<<Text, Segment(4, 8, 4, 6)>>, TextAndData(8)),
     Executable(<<Text, Segment(5, 13, 2, 3)>>, TextAndData(13)),
     Executable(<<Segment(1, 5, 2, 2), Segment(3, 7, 3, 4)>>, TextAndData(7)),
     Executable(<<Segment(1, 5, 3, 3), Segment(5, 8, 0, 4)>>, TextAndData(8))}

MCStarts == [s \in SectionNames |->
    CASE s = "TEXT" -> 4 [] s = "DATA" -> 8 [] s = "HEAP" -> 20
      [] s = "STACK" -> 32]
============================================================================
