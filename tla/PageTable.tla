----------------------------- MODULE PageTable -----------------------------
(***************************************************************************)
(* The simulated memory: ptable.c, a hash table of pages materialized on   *)
(* first touch, and the byte loops of mem.c that go through it.  An access *)
(* is a call that starts, a step per byte, and a return; bytes of one      *)
(* access may lie on two pages.                                            *)
(***************************************************************************)
EXTENDS PageChains

VARIABLES
    ptable,     \* the chains: for each hash value, the pages, newest first
    req,        \* the access under way, or Idle
    i,          \* its loop counter
    retval,     \* the bytes read so far by _mem_read_LE
    result      \* what the last read returned to its caller

vars == <<ptable, req, i, retval, result>>

----------------------------------------------------------------------------
(* mem.c.  ptable is a zeroed static array.                                *)

Init ==
    /\ ptable = [h \in Buckets |-> <<>>]
    /\ req = Idle
    /\ i = 0
    /\ retval = <<>>
    /\ result = <<>>

\* _mem_read_LE is entered: bytes are read from the last to the first.
mem_read(addr, width) ==
    /\ req = Idle
    /\ req' = [kind |-> "read", addr |-> addr, width |-> width]
    /\ i' = width - 1
    /\ UNCHANGED <<ptable, retval, result>>

\* Mutants: the bytes are put together in the order they are read; the loop
\* counter is let run below zero.
mem_read_byte_swapped ==
    /\ req.kind = "read" /\ i >= 0
    /\ LET addr == Plus(req.addr, i)
       IN /\ ptable' = Touch(ptable, pnum(addr), prot_bits(addr))
          /\ retval' = Append(retval, ByteAt(ptable', addr))
    /\ i' = i - 1
    /\ UNCHANGED <<req, result>>
mem_read_byte_past ==
    /\ req.kind = "read" /\ i >= -1
    /\ LET addr == Plus(req.addr, i)
       IN /\ ptable' = Touch(ptable, pnum(addr), prot_bits(addr))
          /\ retval' = <<ByteAt(ptable', addr)>> \o retval
    /\ i' = i - 1
    /\ UNCHANGED <<req, result>>

\* _mem_read_byte; shifting retval by 8 and adding puts the byte in front.
mem_read_byte ==
    /\ req.kind = "read" /\ i >= 0
    /\ LET addr == Plus(req.addr, i)
       IN /\ ptable' = Touch(ptable, pnum(addr), prot_bits(addr))
          /\ retval' = <<ByteAt(ptable', addr)>> \o retval
    /\ i' = i - 1
    /\ UNCHANGED <<req, result>>

mem_read_return ==
    /\ req.kind = "read" /\ i < 0
    /\ result' = retval
    /\ req' = Idle /\ i' = 0 /\ retval' = <<>>
    /\ UNCHANGED ptable

\* _mem_write_LE is entered: bytes are written from the first to the last.
mem_write(addr, data) ==
    /\ req = Idle
    /\ req' = [kind |-> "write", addr |-> addr, data |-> data]
    /\ i' = 0
    /\ UNCHANGED <<ptable, retval, result>>

\* _mem_write_byte: a page first touched by a write gets all permissions.
mem_write_byte ==
    /\ req.kind = "write" /\ i < Len(req.data)
    /\ LET addr == Plus(req.addr, i)
       IN ptable' = SetByte(Touch(ptable, pnum(addr), 7), addr,
                            req.data[i + 1])
    /\ i' = i + 1
    /\ UNCHANGED <<req, retval, result>>

mem_write_return ==
    /\ req.kind = "write" /\ i >= Len(req.data)
    /\ req' = Idle /\ i' = 0
    /\ UNCHANGED <<ptable, retval, result>>

Next ==
    \/ \E addr \in Addr, width \in Widths : mem_read(addr, width)
    \/ \E addr \in Addr, data \in Data : mem_write(addr, data)
    \/ mem_read_byte \/ mem_read_return \/ mem_write_byte \/ mem_write_return

Spec == Init /\ [][Next]_vars

----------------------------------------------------------------------------
(* Properties.                                                             *)

TypeOK ==
    /\ ptable \in [Buckets -> Seq(Pages)]
    /\ req \in Reads \cup Writes \cup {Idle}
    /\ i \in -1..AddrSpace
    /\ retval \in Seq(Bytes) /\ result \in Seq(Bytes)

\* However accesses interleave with the creation of pages, a page number has
\* at most one page, in the chain its hash names: get_page and add_page agree.
OnePagePerNumber == OnePagePer(ptable)

\* Memory as its callers see it: a store counts as done when _mem_write_LE is
\* entered.
Flat == INSTANCE FlatMemory WITH
    call <- req,
    bytes <- IF req.kind = "write"
             THEN Overlay(Contents(ptable), req.addr, i, req.data)
             ELSE Contents(ptable)

\* The paged memory implements a flat array of bytes: no access loses or
\* invents a byte, on whichever pages its bytes lie and whatever the hash.
FlatSpec == Flat!Spec
=============================================================================
