----------------------------- MODULE PageChains -----------------------------
(***************************************************************************)
(* ptable.c: the pages of the simulated memory, in hash chains, and what   *)
(* mem.c and elf_loader.c do to a table of them.  No state is kept here.   *)
(***************************************************************************)
EXTENDS AddressSpace

CONSTANTS
    PAGESIZE,                   \* bytes per page
    HASHSIZE,                   \* number of hash chains
    hash(_),                    \* ptable_hash
    prot_bits(_)                \* get_prot_bits, of an address

PageNums == {a \div PAGESIZE : a \in Addr}
Offsets == 0..(PAGESIZE - 1)
Buckets == 0..(HASHSIZE - 1)
Prots == 0..7
Pages == [p_num : PageNums, p_prot : Prots, p_data : [Offsets -> Bytes]]

ASSUME PageAssumption ==
    /\ PAGESIZE \in Nat \ {0}
    /\ HASHSIZE \in Nat \ {0}
    /\ \A n \in PageNums : hash(n) \in Buckets
    /\ \A a \in Addr : prot_bits(a) \in Prots

----------------------------------------------------------------------------
(* ptable.c.  A page is found by its place in its chain; 0 is NULL.        *)

\* Mutant: only the head of the chain is looked at.
get_page_head(pt, num) ==
    IF pt[hash(num)] # <<>> /\ Head(pt[hash(num)]).p_num = num THEN 1 ELSE 0

get_page(pt, num) ==
    LET chain == pt[hash(num)]
        At(k) == /\ chain[k].p_num = num
                 /\ \A j \in 1..(k - 1) : chain[j].p_num # num
    IN IF \E k \in DOMAIN chain : chain[k].p_num = num
       THEN CHOOSE k \in DOMAIN chain : At(k) ELSE 0

add_page(pt, num, prot) ==
    [pt EXCEPT ![hash(num)] =
        <<[p_num |-> num, p_prot |-> prot, p_data |-> [o \in Offsets |-> 0]]>>
            \o @]

Page(pt, num) == pt[hash(num)][get_page(pt, num)]

\* The table after a page has been looked up, and added if absent.
Touch(pt, num, prot) ==
    IF get_page(pt, num) = 0 THEN add_page(pt, num, prot) ELSE pt

pnum(addr) == addr \div PAGESIZE
poff(addr) == addr % PAGESIZE

\* The access page->p_data[poff].
ByteAt(pt, addr) == Page(pt, pnum(addr)).p_data[poff(addr)]
SetByte(pt, addr, b) ==
    LET num == pnum(addr)
    IN [pt EXCEPT ![hash(num)][get_page(pt, num)].p_data[poff(addr)] = b]

----------------------------------------------------------------------------
(* What a table stands for.                                                *)

\* A page number has at most one page, in the chain its hash names.
OnePagePer(pt) ==
    \A h \in Buckets : \A j, k \in DOMAIN pt[h] :
        /\ hash(pt[h][j].p_num) = h
        /\ pt[h][j].p_num = pt[h][k].p_num => j = k

\* The bytes of memory: absent pages read as zeros.
Contents(pt) ==
    [a \in Addr |-> IF get_page(pt, pnum(a)) = 0 THEN 0 ELSE ByteAt(pt, a)]
=============================================================================
