--------------------------- MODULE PageTableProof ---------------------------
(***************************************************************************)
(* The page table implements a flat memory, for every hash function, page  *)
(* size, address space and width of access.                                *)
(***************************************************************************)
EXTENDS PageTable, PageChainsProof

----------------------------------------------------------------------------
(* The invariant: what _mem_read_LE has collected is what memory holds.    *)

Underway ==
    /\ req = Idle => i = 0 /\ retval = <<>>
    /\ req.kind = "read" =>
           /\ i \in -1..(req.width - 1)
           /\ retval \in [1..(req.width - 1 - i) -> Bytes]
           /\ \A k \in 1..(req.width - 1 - i) :
                  retval[k] = Contents(ptable)[Plus(req.addr, i + k)]
    /\ req.kind = "write" => i \in 0..Len(req.data) /\ retval = <<>>

IInv ==
    /\ Good(ptable)
    /\ req \in Reads \cup Writes \cup {Idle}
    /\ result \in Seq(Bytes)
    /\ Underway

\* What _mem_read_byte does.
LEMMA ReadByte ==
    ASSUME IInv, mem_read_byte
    PROVE  LET addr == Plus(req.addr, i) IN
           /\ addr \in Addr
           /\ Good(ptable') /\ Contents(ptable') = Contents(ptable)
           /\ retval' = <<Contents(ptable)[addr]>> \o retval
<1> DEFINE addr == Plus(req.addr, i)
<1>1. /\ req.addr \in Addr /\ req.width \in 1..AddrSpace
      /\ i \in 0..(req.width - 1)
    BY Requests DEF mem_read_byte, IInv, Underway
<1>2. req.addr \in Addr /\ i \in 0..(AddrSpace - 1)
    BY <1>1, SpaceAssumption
<1>3. addr \in Addr
    BY <1>2, PlusOffset
<1>4. pnum(addr) \in PageNums /\ prot_bits(addr) \in Prots
    BY <1>3, AddrSplit, PageAssumption
<1>5. ptable' = Touch(ptable, pnum(addr), prot_bits(addr))
    BY DEF mem_read_byte
<1>6. /\ Good(ptable') /\ get_page(ptable', pnum(addr)) # 0
      /\ Contents(ptable') = Contents(ptable)
    BY <1>4, <1>5, TouchPage DEF IInv
<1>7. ByteAt(ptable', addr) = Contents(ptable')[addr]
    BY <1>3, <1>6 DEF Contents
<1>8. retval' = <<ByteAt(ptable', addr)>> \o retval
    BY DEF mem_read_byte
<1> QED BY <1>3, <1>6, <1>7, <1>8

\* What _mem_write_byte does.
LEMMA StoreByte ==
    ASSUME IInv, mem_write_byte
    PROVE  LET addr == Plus(req.addr, i) IN
           /\ addr \in Addr
           /\ Good(ptable')
           /\ Contents(ptable') =
                  [Contents(ptable) EXCEPT ![addr] = req.data[i + 1]]
<1> DEFINE addr == Plus(req.addr, i)
           b    == req.data[i + 1]
           mid  == Touch(ptable, pnum(addr), 7)
<1>1. req \in Writes /\ i \in 0..(Len(req.data) - 1)
  <2>1. req \in Writes /\ i \in 0..Len(req.data) /\ i < Len(req.data)
      BY Requests DEF mem_write_byte, IInv, Underway
  <2>2. Len(req.data) \in Nat
      BY <2>1, DataType, SpaceAssumption DEF Writes
  <2> QED BY <2>1, <2>2
<1>2. req.addr \in Addr /\ i \in 0..(AddrSpace - 1) /\ b \in Bytes
  <2>1. req.addr \in Addr /\ req.data \in Data
      BY <1>1 DEF Writes
  <2>2. /\ Len(req.data) \in 1..AddrSpace
        /\ \A k \in 1..Len(req.data) : req.data[k] \in Bytes
      BY <2>1, DataType
  <2>3. i + 1 \in 1..Len(req.data) /\ i \in 0..(AddrSpace - 1)
      BY <1>1, <2>2, SpaceAssumption
  <2> QED BY <2>1, <2>2, <2>3
<1>3. addr \in Addr
    BY <1>2, PlusOffset
<1>4. pnum(addr) \in PageNums /\ 7 \in Prots
    BY <1>3, AddrSplit DEF Prots
<1>5. /\ Good(mid) /\ get_page(mid, pnum(addr)) # 0
      /\ Contents(mid) = Contents(ptable)
    BY <1>4, TouchPage DEF IInv
<1>6. ptable' = SetByte(mid, addr, b)
    BY DEF mem_write_byte
<1> HIDE DEF mid, addr, b
<1>7. /\ Good(ptable')
      /\ Contents(ptable') = [Contents(mid) EXCEPT ![addr] = b]
    BY <1>2, <1>3, <1>5, <1>6, WriteByte
<1> QED BY <1>3, <1>5, <1>7 DEF addr, b

\* The invariant holds at the start.
LEMMA PagesInit == Init => IInv
<1> SUFFICES ASSUME Init PROVE IInv
    OBVIOUS
<1>1. Good(ptable)
    BY DEF Init, Good, OnePagePer
<1> QED BY <1>1 DEF Init, IInv, Underway, Idle

\* Every step keeps the invariant.
LEMMA PagesStep == IInv /\ [Next]_vars => IInv'
<1> SUFFICES ASSUME IInv, [Next]_vars PROVE IInv'
    OBVIOUS
<1>1. ASSUME NEW addr \in Addr, NEW width \in Widths, mem_read(addr, width)
      PROVE  IInv'
  <2>1. width \in 1..AddrSpace /\ AddrSpace \in Nat
      BY SpaceAssumption
  <2>2. /\ req = Idle /\ i' = width - 1
        /\ req' = [kind |-> "read", addr |-> addr, width |-> width]
        /\ UNCHANGED <<ptable, retval, result>>
      BY <1>1 DEF mem_read
  <2>3. req' \in Reads /\ req'.kind = "read" /\ req' # Idle
      BY <2>2 DEF Reads, Idle
  <2>4. retval = <<>> /\ width - 1 - i' = 0 /\ req'.width = width
      BY <2>1, <2>2 DEF IInv, Underway
  <2>5. Underway'
      BY <2>1, <2>2, <2>3, <2>4 DEF Underway
  <2> QED BY <2>2, <2>3, <2>5 DEF IInv
<1>2. ASSUME NEW addr \in Addr, NEW data \in Data, mem_write(addr, data)
      PROVE  IInv'
  <2>1. /\ req = Idle /\ i' = 0
        /\ req' = [kind |-> "write", addr |-> addr, data |-> data]
        /\ UNCHANGED <<ptable, retval, result>>
      BY <1>2 DEF mem_write
  <2>2. req' \in Writes /\ req'.kind = "write" /\ req' # Idle
      BY <2>1 DEF Writes, Idle
  <2>3. Len(data) \in Nat /\ req'.data = data /\ retval = <<>>
      BY <2>1, DataType, SpaceAssumption DEF IInv, Underway
  <2>4. Underway'
      BY <2>1, <2>2, <2>3 DEF Underway
  <2> QED BY <2>1, <2>2, <2>4 DEF IInv
<1>3. CASE mem_read_byte
  <2> DEFINE n == req.width - 1 - i
  <2>1. /\ Plus(req.addr, i) \in Addr
        /\ Good(ptable') /\ Contents(ptable') = Contents(ptable)
        /\ retval' = <<Contents(ptable)[Plus(req.addr, i)]>> \o retval
      BY <1>3, ReadByte
  <2>2. /\ req \in Reads /\ req.kind = "read" /\ req # Idle
        /\ UNCHANGED <<req, result>> /\ i' = i - 1
      BY <1>3, Requests DEF mem_read_byte, IInv, Idle
  <2>3. /\ i \in 0..(req.width - 1)
        /\ retval \in [1..n -> Bytes]
        /\ \A k \in 1..n : retval[k] = Contents(ptable)[Plus(req.addr, i + k)]
      BY <1>3, <2>2 DEF mem_read_byte, IInv, Underway
  <2>4. Contents(ptable)[Plus(req.addr, i)] \in Bytes
      BY <2>1, ContentsType DEF IInv
  <2>5. req.width \in Nat
      BY <2>2, Requests, SpaceAssumption DEF IInv
  <2>6. /\ n \in Nat /\ req.width - 1 - i' = n + 1
        /\ i' \in -1..(req.width - 1)
      BY <2>2, <2>3, <2>5
  <2> DEFINE first == Contents(ptable)[Plus(req.addr, i)]
  <2> HIDE DEF n, first
  <2>7. /\ retval' \in [1..(n + 1) -> Bytes]
        /\ retval'[1] = first
        /\ \A k \in 1..n : retval'[k + 1] = retval[k]
    <3>1. retval \in Seq(Bytes) /\ Len(retval) = n
        BY <2>3, <2>6
    <3>2. retval' = <<first>> \o retval /\ first \in Bytes
        BY <2>1, <2>4 DEF first
    <3>3. retval' \in Seq(Bytes) /\ Len(retval') = n + 1
        BY <3>1, <3>2
    <3>4. n \in Nat
        BY <2>6
    <3>5. retval' \in [1..(n + 1) -> Bytes]
        BY <3>3, <3>4
    <3>6. retval'[1] = first
        BY <3>1, <3>2
    <3>7. \A k \in 1..n : retval'[k + 1] = retval[k]
        BY <3>1, <3>2, <3>4
    <3> QED BY <3>5, <3>6, <3>7
  <2>8. ASSUME NEW k \in 1..(n + 1)
        PROVE  retval'[k] = Contents(ptable)[Plus(req.addr, i' + k)]
    <3>1. CASE k = 1
      <4>1. i' + k = i
          BY <2>2, <2>3, <2>5, <3>1
      <4> QED BY <2>7, <3>1, <4>1 DEF first
    <3>2. CASE k # 1
      <4>1. k - 1 \in 1..n /\ (k - 1) + 1 = k /\ i' + k = i + (k - 1)
          BY <2>2, <2>3, <2>5, <2>6, <3>2
      <4> QED BY <2>3, <2>7, <4>1
    <3> QED BY <3>1, <3>2
  <2>9. Underway'
    <3>1. retval' \in [1..(req.width - 1 - i') -> Bytes]
        BY <2>6, <2>7
    <3> QED BY <2>1, <2>2, <2>6, <2>8, <3>1 DEF Underway
  <2> QED BY <2>1, <2>2, <2>9 DEF IInv
<1>4. CASE mem_read_return
  <2>1. req.kind = "read" /\ req \in Reads /\ i < 0
      BY <1>4, Requests DEF mem_read_return, IInv
  <2>2. retval \in Seq(Bytes)
    <3>1. req.width \in Nat
        BY <2>1, Requests, SpaceAssumption DEF IInv
    <3>2. req.width - 1 - i \in Nat
        BY <2>1, <3>1 DEF IInv, Underway
    <3> QED BY <2>1, <3>2, SMTT(30) DEF IInv, Underway
  <2> QED BY <1>4, <2>2 DEF mem_read_return, IInv, Underway, Idle
<1>5. CASE mem_write_byte
  <2>1. Good(ptable')
      BY <1>5, StoreByte
  <2>2. /\ req \in Writes /\ req # Idle /\ req.kind = "write"
        /\ i \in 0..Len(req.data) /\ i < Len(req.data)
        /\ retval = <<>> /\ i' = i + 1 /\ UNCHANGED <<req, retval, result>>
      BY <1>5, Requests DEF mem_write_byte, IInv, Underway, Idle
  <2>3. Len(req.data) \in Nat
      BY <2>2, DataType, SpaceAssumption DEF Writes
  <2>4. Underway'
      BY <2>2, <2>3 DEF Underway
  <2> QED BY <2>1, <2>2, <2>4 DEF IInv
<1>6. CASE mem_write_return
    BY <1>6 DEF mem_write_return, IInv, Underway, Idle
<1>7. CASE UNCHANGED vars
    BY <1>7 DEF vars, IInv, Underway
<1> QED
    BY <1>1, <1>2, <1>3, <1>4, <1>5, <1>6, <1>7 DEF Next

\* Every number has at most one page, in the chain where get_page looks
\* (get_page, add_page and the byte accesses of mem.c).
THEOREM OnePageCorrect == Spec => []OnePagePerNumber
<1>1. IInv => OnePagePerNumber
    BY DEF IInv, Good, OnePagePerNumber
<1> QED BY <1>1, PagesInit, PagesStep, PTL DEF Spec

\* The state stays well typed; in particular the loop counter of an access
\* never leaves the datum.
THEOREM PageTypeCorrect == Spec => []TypeOK
<1>1. IInv => TypeOK
  <2> SUFFICES ASSUME IInv PROVE TypeOK
      OBVIOUS
  <2>1. CASE req.kind = "read"
    <3>1. req \in Reads /\ req.width \in 1..AddrSpace /\ AddrSpace \in Nat
        BY <2>1, Requests, SpaceAssumption DEF IInv
    <3>2. /\ i \in -1..(req.width - 1)
          /\ retval \in [1..(req.width - 1 - i) -> Bytes]
        BY <2>1 DEF IInv, Underway
    <3>3. i \in -1..AddrSpace /\ req.width - 1 - i \in Nat
        BY <3>1, <3>2
    <3>4. retval \in Seq(Bytes)
        BY <3>2, <3>3
    <3> QED BY <3>3, <3>4 DEF IInv, TypeOK, Good
  <2>2. CASE req.kind = "write"
    <3>1. Len(req.data) \in 1..AddrSpace /\ AddrSpace \in Nat
        BY <2>2, Requests, DataType, SpaceAssumption DEF IInv, Writes
    <3> QED BY <2>2, <3>1 DEF IInv, Underway, TypeOK, Good
  <2>3. CASE req.kind \notin {"read", "write"}
    <3>1. req = Idle
        BY <2>3, Requests DEF IInv
    <3>2. i = 0 /\ retval = <<>>
        BY <3>1 DEF IInv, Underway
    <3>3. i \in -1..AddrSpace /\ retval \in Seq(Bytes)
        BY <3>2, SpaceAssumption
    <3> QED BY <3>3 DEF IInv, TypeOK, Good
  <2> QED BY <2>1, <2>2, <2>3
<1> QED BY <1>1, PagesInit, PagesStep, PTL DEF Spec

----------------------------------------------------------------------------
(* Refinement.  A store takes effect when it is called, a load when it     *)
(* returns; the byte steps in between are stutters of the flat memory.     *)

\* The bytes of the flat memory under the refinement mapping.
FlatBytes == IF req.kind = "write"
             THEN Overlay(Contents(ptable), req.addr, i, req.data)
             ELSE Contents(ptable)

\* The step of a store: the byte it writes leaves the overlay.
LEMMA OverlayStep ==
    ASSUME NEW m \in [Addr -> Bytes], NEW addr \in Addr, NEW d \in Data,
           NEW n \in 0..(Len(d) - 1)
    PROVE  Overlay([m EXCEPT ![Plus(addr, n)] = d[n + 1]], addr, n + 1, d)
             = Overlay(m, addr, n, d)
<1> DEFINE at == Plus(addr, n)
           new == [m EXCEPT ![at] = d[n + 1]]
<1>1. Len(d) \in 1..AddrSpace /\ AddrSpace \in Nat
    BY DataType, SpaceAssumption
<1>2. n \in 0..(AddrSpace - 1) /\ n \in Int /\ Len(d) \in Int
    BY <1>1
<1>3. ASSUME NEW x \in Addr
      PROVE  (IF Offset(addr, x) \in (n + 1)..(Len(d) - 1)
              THEN d[Offset(addr, x) + 1] ELSE new[x])
               = (IF Offset(addr, x) \in n..(Len(d) - 1)
                  THEN d[Offset(addr, x) + 1] ELSE m[x])
  <2>1. /\ Offset(addr, x) \in Int
        /\ Offset(addr, x) = n <=> x = at
        /\ at \in Addr
    <3>1. at \in Addr /\ Offset(addr, at) = n
        BY <1>2, PlusOffset
    <3>2. /\ Offset(addr, x) \in 0..(AddrSpace - 1)
          /\ Plus(addr, Offset(addr, x)) = x
        BY PlusOffset
    <3>3. Offset(addr, x) = n => x = at
        BY <3>2
    <3>4. x = at => Offset(addr, x) = n
        BY <3>1
    <3> QED BY <1>1, <3>1, <3>2, <3>3, <3>4
  <2>2. new[x] = IF x = at THEN d[n + 1] ELSE m[x]
      BY <2>1
  <2> HIDE DEF new, at
  <2> QED BY <1>2, <2>1, <2>2
<1> QED BY <1>3 DEF Overlay

\* An overlay of nothing.
LEMMA OverlayNone ==
    ASSUME NEW m \in [Addr -> Bytes], NEW addr \in Addr, NEW d \in Data,
           NEW n \in Nat, n >= Len(d)
    PROVE  Overlay(m, addr, n, d) = m
<1>1. Len(d) \in Nat
    BY DataType, SpaceAssumption
<1>2. \A o \in Int : o \notin n..(Len(d) - 1)
    BY <1>1
<1>3. \A x \in Addr : Offset(addr, x) \in Int
    BY SpaceAssumption, PlusOffset
<1> QED BY <1>2, <1>3 DEF Overlay

\* The paged memory begins as the flat memory does.
LEMMA FlatInit == Init => Flat!Init
<1> SUFFICES ASSUME Init
             PROVE  /\ FlatBytes = [a \in Addr |-> 0]
                    /\ req = Idle /\ result = <<>>
    BY DEF Flat!Init, FlatBytes, Overlay, Flat!Overlay, Offset, Flat!Offset,
           Addr, Flat!Addr, Idle, Flat!Idle
<1>1. req.kind # "write"
    BY DEF Init, Idle
<1>2. \A num \in PageNums : get_page(ptable, num) = 0
  <2> SUFFICES ASSUME NEW num \in PageNums PROVE get_page(ptable, num) = 0
      OBVIOUS
  <2>1. ptable[hash(num)] = <<>>
      BY PageAssumption DEF Init
  <2> QED BY <2>1 DEF get_page
<1>3. Contents(ptable) = [a \in Addr |-> 0]
    BY <1>2, AddrSplit DEF Contents
<1> QED BY <1>1, <1>3 DEF Init, FlatBytes

\* Every step of the page table is one of the flat memory, or a stutter.
LEMMA FlatStep ==
    IInv /\ IInv' /\ [Next]_vars =>
        \/ \E addr \in Addr, width \in Widths :
               /\ req = Idle
               /\ req' = [kind |-> "read", addr |-> addr, width |-> width]
               /\ FlatBytes' = FlatBytes /\ result' = result
        \/ \E addr \in Addr, d \in Data :
               /\ req = Idle
               /\ req' = [kind |-> "write", addr |-> addr, data |-> d]
               /\ FlatBytes' = Overlay(FlatBytes, addr, 0, d)
               /\ result' = result
        \/ /\ req.kind = "read" /\ req' = Idle
           /\ result' = [n \in 1..req.width |-> FlatBytes[Plus(req.addr, n - 1)]]
           /\ FlatBytes' = FlatBytes
        \/ /\ req.kind = "write" /\ req' = Idle
           /\ FlatBytes' = FlatBytes /\ result' = result
        \/ FlatBytes' = FlatBytes /\ req' = req /\ result' = result
<1> SUFFICES ASSUME IInv, IInv', [Next]_vars
             PROVE  \/ \E addr \in Addr, width \in Widths :
                           /\ req = Idle
                           /\ req' = [kind |-> "read", addr |-> addr,
                                      width |-> width]
                           /\ FlatBytes' = FlatBytes /\ result' = result
                    \/ \E addr \in Addr, d \in Data :
                           /\ req = Idle
                           /\ req' = [kind |-> "write", addr |-> addr,
                                      data |-> d]
                           /\ FlatBytes' = Overlay(FlatBytes, addr, 0, d)
                           /\ result' = result
                    \/ /\ req.kind = "read" /\ req' = Idle
                       /\ result' = [n \in 1..req.width |->
                                         FlatBytes[Plus(req.addr, n - 1)]]
                       /\ FlatBytes' = FlatBytes
                    \/ /\ req.kind = "write" /\ req' = Idle
                       /\ FlatBytes' = FlatBytes /\ result' = result
                    \/ FlatBytes' = FlatBytes /\ req' = req /\ result' = result
    OBVIOUS
<1>1. ASSUME NEW addr \in Addr, NEW width \in Widths, mem_read(addr, width)
      PROVE  /\ req = Idle
             /\ req' = [kind |-> "read", addr |-> addr, width |-> width]
             /\ FlatBytes' = FlatBytes /\ result' = result
    BY <1>1 DEF mem_read, FlatBytes, Idle
<1>2. ASSUME NEW addr \in Addr, NEW data \in Data, mem_write(addr, data)
      PROVE  /\ req = Idle
             /\ req' = [kind |-> "write", addr |-> addr, data |-> data]
             /\ FlatBytes' = Overlay(FlatBytes, addr, 0, data)
             /\ result' = result
    BY <1>2 DEF mem_write, FlatBytes, Idle
<1>3. CASE mem_read_byte
  <2>1. Contents(ptable') = Contents(ptable)
      BY <1>3, ReadByte
  <2> QED BY <1>3, <2>1 DEF mem_read_byte, FlatBytes
<1>4. CASE mem_read_return
  <2>1. /\ req \in Reads /\ req.kind = "read" /\ i < 0 /\ result' = retval
        /\ req' = Idle /\ ptable' = ptable
        /\ req.addr \in Addr /\ req.width \in 1..AddrSpace
      BY <1>4, Requests DEF mem_read_return, IInv
  <2>2. req.width \in Widths
      BY <2>1 DEF Reads
  <2>3. i = -1 /\ req.width \in Nat
      BY <2>1, SpaceAssumption DEF IInv, Underway
  <2>4. /\ req.width - 1 - i = req.width
        /\ retval \in [1..req.width -> Bytes]
        /\ \A k \in 1..req.width :
               retval[k] = Contents(ptable)[Plus(req.addr, k - 1)]
    <3>1. req.width - 1 - i = req.width
        BY <2>3
    <3>2. \A k \in 1..req.width : i + k = k - 1
        BY <2>3
    <3>3. /\ retval \in [1..req.width -> Bytes]
          /\ \A k \in 1..req.width :
                 retval[k] = Contents(ptable)[Plus(req.addr, i + k)]
        BY <2>1, <3>1 DEF IInv, Underway
    <3> QED BY <3>1, <3>2, <3>3
  <2>5. FlatBytes' = Contents(ptable) /\ FlatBytes = Contents(ptable)
      BY <2>1 DEF FlatBytes, Idle
  <2>6. retval = [n \in 1..req.width |-> FlatBytes[Plus(req.addr, n - 1)]]
      BY <2>4, <2>5
  <2> QED BY <2>1, <2>2, <2>5, <2>6
<1>5. CASE mem_write_byte
  <2>1. /\ req \in Writes /\ req.kind = "write" /\ i \in 0..Len(req.data)
        /\ i < Len(req.data) /\ i' = i + 1 /\ UNCHANGED <<req, result>>
      BY <1>5, Requests DEF mem_write_byte, IInv, Underway
  <2>2. req.addr \in Addr /\ req.data \in Data
      BY <2>1 DEF Writes
  <2>3. i \in 0..(Len(req.data) - 1)
      BY <2>1, <2>2, DataType, SpaceAssumption
  <2>4. Contents(ptable') =
            [Contents(ptable) EXCEPT ![Plus(req.addr, i)] = req.data[i + 1]]
      BY <1>5, StoreByte
  <2>5. Contents(ptable) \in [Addr -> Bytes]
      BY ContentsType DEF IInv
  <2>6. Overlay(Contents(ptable'), req.addr, i + 1, req.data)
            = Overlay(Contents(ptable), req.addr, i, req.data)
    <3> DEFINE m == Contents(ptable)
    <3> HIDE DEF m
    <3>1. m \in [Addr -> Bytes]
        BY <2>5 DEF m
    <3>2. Overlay([m EXCEPT ![Plus(req.addr, i)] = req.data[i + 1]],
                  req.addr, i + 1, req.data)
            = Overlay(m, req.addr, i, req.data)
        BY <2>2, <2>3, <3>1, OverlayStep
    <3> QED BY <2>4, <3>2 DEF m
  <2> QED BY <2>1, <2>6 DEF FlatBytes
<1>6. CASE mem_write_return
  <2>1. /\ req \in Writes /\ req.kind = "write" /\ i \in Nat
        /\ i >= Len(req.data) /\ req' = Idle /\ UNCHANGED <<ptable, result>>
      BY <1>6, Requests DEF mem_write_return, IInv, Underway
  <2>2. req.addr \in Addr /\ req.data \in Data
      BY <2>1 DEF Writes
  <2>3. Overlay(Contents(ptable), req.addr, i, req.data) = Contents(ptable)
      BY <2>1, <2>2, ContentsType, OverlayNone DEF IInv
  <2> QED BY <2>1, <2>3 DEF FlatBytes, Idle
<1>7. CASE UNCHANGED vars
    BY <1>7 DEF vars, FlatBytes
<1> QED
    BY <1>1, <1>2, <1>3, <1>4, <1>5, <1>6, <1>7 DEF Next

\* The pages, chains and byte loops of mem.c and ptable.c implement a flat
\* array of bytes whose loads and stores are atomic and wrap around.
THEOREM ImplementsFlat == Spec => FlatSpec
<1>1. IInv /\ IInv' /\ [Next]_vars => [Flat!Next]_<<FlatBytes, req, result>>
    BY FlatStep
       DEF FlatBytes, Flat!Next, Flat!Load, Flat!LoadReturn, Flat!Store,
           Flat!StoreReturn, Overlay, Flat!Overlay, Offset, Flat!Offset, Plus,
           Flat!Plus, Addr, Flat!Addr, Data, Flat!Data, Idle, Flat!Idle
<1> QED
    BY <1>1, FlatInit, PagesInit, PagesStep, PTL
       DEF Spec, FlatSpec, Flat!Spec, FlatBytes
=============================================================================
