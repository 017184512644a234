-------------------------- MODULE PageChainsProof --------------------------
(***************************************************************************)
(* What the operations of PageChains return, keep and change, for every    *)
(* hash function, page size and address space.                             *)
(***************************************************************************)
EXTENDS PageChains, TLAPS

Good(pt) == pt \in [Buckets -> Seq(Pages)] /\ OnePagePer(pt)

----------------------------------------------------------------------------
(* Addresses.                                                              *)

\* An address has a page number, an offset, and no other address has both.
LEMMA AddrSplit ==
    /\ \A a \in Addr : /\ pnum(a) \in PageNums /\ poff(a) \in Offsets
                       /\ hash(pnum(a)) \in Buckets
    /\ \A a, b \in Addr : pnum(a) = pnum(b) /\ poff(a) = poff(b) => a = b
<1>1. ASSUME NEW a \in Addr
      PROVE  /\ pnum(a) \in PageNums /\ poff(a) \in Offsets
             /\ hash(pnum(a)) \in Buckets
             /\ a = PAGESIZE * pnum(a) + poff(a)
  <2>1. a \in Int /\ PAGESIZE \in Int /\ PAGESIZE > 0
      BY SpaceAssumption, PageAssumption DEF Addr
  <2>2. pnum(a) \in PageNums
      BY DEF pnum, PageNums
  <2>3. poff(a) \in Offsets
      BY <2>1 DEF poff, Offsets
  <2>4. a = PAGESIZE * (a \div PAGESIZE) + (a % PAGESIZE)
      BY <2>1
  <2> QED BY <2>2, <2>3, <2>4, PageAssumption DEF pnum, poff
<1> QED BY <1>1

\* Address arithmetic wraps within the address space, and Offset undoes it.
LEMMA PlusOffset ==
    ASSUME NEW a \in Addr
    PROVE  /\ \A n \in 0..(AddrSpace - 1) :
                  Plus(a, n) \in Addr /\ Offset(a, Plus(a, n)) = n
           /\ \A x \in Addr : /\ Offset(a, x) \in 0..(AddrSpace - 1)
                              /\ Plus(a, Offset(a, x)) = x
BY SpaceAssumption DEF Addr, Plus, Offset

----------------------------------------------------------------------------
(* Requests.                                                               *)

\* A request is what its kind says.
LEMMA Requests ==
    \A r \in Reads \cup Writes \cup {Idle} :
        /\ r.kind = "read" => /\ r \in Reads /\ r.addr \in Addr
                             /\ r.width \in 1..AddrSpace
        /\ r.kind = "write" => /\ r \in Writes /\ r.addr \in Addr
                              /\ r.data \in Data
        /\ r.kind \notin {"read", "write"} => r = Idle
        /\ r = Idle => r.kind = "idle"
<1>1. \A r \in Reads : r.addr \in Addr /\ r.width \in 1..AddrSpace
  <2> SUFFICES ASSUME NEW r \in Reads
               PROVE  r.addr \in Addr /\ r.width \in Widths
      BY SpaceAssumption
  <2> QED BY DEF Reads
<1>2. \A r \in Writes : r.addr \in Addr /\ r.data \in Data
    BY DEF Writes
<1> QED BY <1>1, <1>2 DEF Reads, Writes, Idle

\* What a store writes is a sequence of bytes of its width.
LEMMA DataType ==
    \A d \in Data : /\ Len(d) \in 1..AddrSpace /\ DOMAIN d = 1..Len(d)
                    /\ \A k \in 1..Len(d) : d[k] \in Bytes
<1> SUFFICES ASSUME NEW w \in Widths, NEW d \in [1..w -> Bytes]
             PROVE  /\ Len(d) \in 1..AddrSpace /\ DOMAIN d = 1..Len(d)
                    /\ \A k \in 1..Len(d) : d[k] \in Bytes
    BY DEF Data
<1>1. w \in 1..AddrSpace /\ w \in Nat
    BY SpaceAssumption
<1>2. d \in Seq(Bytes) /\ Len(d) = w
    BY <1>1
<1> QED BY <1>1, <1>2

----------------------------------------------------------------------------
(* ptable.c.                                                               *)

\* get_page finds the page of a number if there is one.
LEMMA GetPage ==
    ASSUME NEW pt, Good(pt), NEW num \in PageNums
    PROVE  LET chain == pt[hash(num)] IN
           /\ get_page(pt, num) \in 0..Len(chain)
           /\ get_page(pt, num) # 0 => chain[get_page(pt, num)].p_num = num
           /\ \A k \in 1..Len(chain) :
                  chain[k].p_num = num => get_page(pt, num) = k
<1> DEFINE chain == pt[hash(num)]
<1>1. hash(num) \in Buckets /\ chain \in Seq(Pages)
    BY PageAssumption DEF Good
<1>2. DOMAIN chain = 1..Len(chain) /\ Len(chain) \in Nat
    BY <1>1
<1>3. \A j, k \in 1..Len(chain) : chain[j].p_num = chain[k].p_num => j = k
    BY <1>1, <1>2 DEF Good, OnePagePer
<1>4. CASE \E k \in 1..Len(chain) : chain[k].p_num = num
  <2>1. PICK k \in 1..Len(chain) : chain[k].p_num = num
      BY <1>4
  <2>2. \A j \in 1..(k - 1) : chain[j].p_num # num
      BY <1>2, <1>3, <2>1
  <2> DEFINE At(m) == /\ chain[m].p_num = num
                      /\ \A j \in 1..(m - 1) : chain[j].p_num # num
  <2>3. At(k) /\ k \in DOMAIN chain
      BY <1>2, <2>1, <2>2
  <2>4. get_page(pt, num) = CHOOSE m \in DOMAIN chain : At(m)
      BY <1>2, <1>4 DEF get_page
  <2> HIDE DEF At
  <2>5. get_page(pt, num) \in DOMAIN chain /\ At(get_page(pt, num))
      BY <2>3, <2>4
  <2> QED BY <1>2, <1>3, <2>5 DEF At
<1>5. CASE ~\E k \in 1..Len(chain) : chain[k].p_num = num
    BY <1>2, <1>5 DEF get_page
<1> QED BY <1>4, <1>5

\* Conversely, the place of a page in its chain is what get_page returns.
LEMMA NoPage ==
    ASSUME NEW pt, Good(pt), NEW num \in PageNums, get_page(pt, num) = 0
    PROVE  \A k \in 1..Len(pt[hash(num)]) : pt[hash(num)][k].p_num # num
BY GetPage

\* A page added where there is none keeps the table sound, is found at once,
\* reads as zeros, and hides no other page.
LEMMA AddPage ==
    ASSUME NEW pt, Good(pt), NEW num \in PageNums, NEW prot \in Prots,
           get_page(pt, num) = 0
    PROVE  LET new == add_page(pt, num, prot) IN
           /\ Good(new)
           /\ get_page(new, num) # 0
           /\ Page(new, num).p_data = [o \in Offsets |-> 0]
           /\ \A n \in PageNums \ {num} :
                  /\ get_page(new, n) = 0 <=> get_page(pt, n) = 0
                  /\ get_page(new, n) # 0 => Page(new, n) = Page(pt, n)
<1> DEFINE h     == hash(num)
           page  == [p_num |-> num, p_prot |-> prot,
                     p_data |-> [o \in Offsets |-> 0]]
           chain == pt[h]
           new   == add_page(pt, num, prot)
           long  == <<page>> \o chain
<1>1. h \in Buckets /\ chain \in Seq(Pages)
    BY PageAssumption DEF Good
<1>2. page \in Pages
    BY SpaceAssumption DEF Pages
<1>3. new = [pt EXCEPT ![h] = long]
    BY DEF add_page
<1>4. /\ long \in Seq(Pages) /\ Len(long) = Len(chain) + 1
      /\ long[1] = page
      /\ \A k \in 1..Len(chain) : long[k + 1] = chain[k]
      /\ Len(chain) \in Nat
    BY <1>1, <1>2
<1>5. \A k \in 1..Len(chain) : chain[k].p_num # num
    BY NoPage
<1> HIDE DEF page, chain, new, long, h
<1>6. new \in [Buckets -> Seq(Pages)] /\ new[h] = long
      /\ \A g \in Buckets \ {h} : new[g] = pt[g]
    BY <1>1, <1>3, <1>4 DEF Good
<1>7. page.p_num = num /\ page.p_data = [o \in Offsets |-> 0]
    BY DEF page
<1>8. OnePagePer(new)
  <2> SUFFICES ASSUME NEW g \in Buckets,
                      NEW j \in DOMAIN new[g], NEW k \in DOMAIN new[g]
               PROVE  /\ hash(new[g][j].p_num) = g
                      /\ new[g][j].p_num = new[g][k].p_num => j = k
      BY DEF OnePagePer
  <2>1. CASE g # h
      BY <1>6, <2>1 DEF Good, OnePagePer
  <2>2. CASE g = h
    <3>1. j \in 1..(Len(chain) + 1) /\ k \in 1..(Len(chain) + 1)
        BY <1>4, <1>6, <2>2
    <3>2. \A m \in 1..(Len(chain) + 1) :
             long[m] = IF m = 1 THEN page ELSE chain[m - 1]
      <4> SUFFICES ASSUME NEW m \in 1..(Len(chain) + 1), m # 1
                   PROVE  long[m] = chain[m - 1]
          BY <1>4
      <4>1. m - 1 \in 1..Len(chain) /\ (m - 1) + 1 = m
          BY <1>4
      <4> QED BY <1>4, <4>1
    <3>3. DOMAIN chain = 1..Len(chain)
        BY <1>1
    <3>4. \A m, n \in 1..Len(chain) :
             /\ hash(chain[m].p_num) = h
             /\ chain[m].p_num = chain[n].p_num => m = n
        BY <1>1, <3>3 DEF Good, OnePagePer, chain
    <3>5. hash(page.p_num) = h
        BY <1>7 DEF h
    <3>6. /\ j # 1 => j - 1 \in 1..Len(chain)
          /\ k # 1 => k - 1 \in 1..Len(chain)
        BY <1>4, <3>1
    <3> QED BY <1>4, <1>5, <1>6, <1>7, <2>2, <3>1, <3>2, <3>4, <3>5, <3>6,
               SMTT(30)
  <2> QED BY <2>1, <2>2
<1>9. Good(new)
    BY <1>6, <1>8 DEF Good
<1>10. get_page(new, num) = 1
  <2>1. 1 \in 1..Len(new[hash(num)]) /\ new[hash(num)][1].p_num = num
      BY <1>4, <1>6, <1>7 DEF h
  <2> QED BY <1>9, <2>1, GetPage
<1>11. ASSUME NEW n \in PageNums \ {num}
       PROVE  /\ get_page(new, n) = 0 <=> get_page(pt, n) = 0
              /\ get_page(new, n) # 0 => Page(new, n) = Page(pt, n)
  <2>1. hash(n) \in Buckets
      BY PageAssumption
  <2>2. CASE hash(n) # h
    <3>1. new[hash(n)] = pt[hash(n)]
        BY <1>6, <2>1, <2>2
    <3>2. get_page(new, n) = get_page(pt, n)
        BY <1>9, <3>1, GetPage
    <3> QED BY <3>1, <3>2 DEF Page
  <2>3. CASE hash(n) = h
    <3>1. pt[hash(n)] = chain /\ new[hash(n)] = long
        BY <1>6, <2>3 DEF chain
    <3> DEFINE old == get_page(pt, n)
               now == get_page(new, n)
    <3>2. /\ old \in 0..Len(chain)
          /\ old # 0 => chain[old].p_num = n
          /\ \A k \in 1..Len(chain) : chain[k].p_num = n => old = k
        BY <3>1, GetPage
    <3>3. /\ now \in 0..(Len(chain) + 1)
          /\ now # 0 => long[now].p_num = n
          /\ \A k \in 1..(Len(chain) + 1) : long[k].p_num = n => now = k
        BY <1>4, <1>9, <3>1, GetPage
    <3> HIDE DEF old, now
    <3>4. old # 0 => now = old + 1
        BY <1>4, <3>2, <3>3
    <3>5. now # 0 => now # 1 /\ old = now - 1
      <4> SUFFICES ASSUME now # 0 PROVE now # 1 /\ old = now - 1
          OBVIOUS
      <4>1. now # 1
          BY <1>4, <1>7, <3>3
      <4>2. now - 1 \in 1..Len(chain) /\ (now - 1) + 1 = now
          BY <1>4, <3>3, <4>1
      <4>3. chain[now - 1].p_num = n
          BY <1>4, <3>3, <4>2
      <4> QED BY <3>2, <4>1, <4>2, <4>3
    <3>6. now # 0 => long[now] = chain[old]
        BY <1>4, <3>2, <3>3, <3>4, <3>5
    <3> QED BY <1>4, <3>1, <3>2, <3>3, <3>4, <3>5, <3>6 DEF old, now, Page
  <2> QED BY <2>2, <2>3
<1> QED BY <1>6, <1>4, <1>7, <1>9, <1>10, <1>11 DEF Page, h, new

----------------------------------------------------------------------------
(* mem.c: the two things a byte access does to the table.                  *)

\* The entry of a page in the table.
LEMMA PageOf ==
    ASSUME NEW pt, Good(pt), NEW num \in PageNums, get_page(pt, num) # 0
    PROVE  /\ hash(num) \in Buckets
           /\ get_page(pt, num) \in DOMAIN pt[hash(num)]
           /\ Page(pt, num) \in Pages /\ Page(pt, num).p_num = num
<1>1. hash(num) \in Buckets /\ pt[hash(num)] \in Seq(Pages)
    BY PageAssumption DEF Good
<1> QED BY <1>1, GetPage DEF Page

\* The pages hold a byte at every address.
LEMMA ContentsType ==
    ASSUME NEW pt, Good(pt)
    PROVE  Contents(pt) \in [Addr -> Bytes]
<1>1. ASSUME NEW a \in Addr, get_page(pt, pnum(a)) # 0
      PROVE  ByteAt(pt, a) \in Bytes
    BY <1>1, AddrSplit, PageOf DEF ByteAt, Pages
<1> QED BY <1>1, SpaceAssumption DEF Contents

\* Looking a page up, and adding it, is invisible.
LEMMA TouchPage ==
    ASSUME NEW pt, Good(pt), NEW num \in PageNums, NEW prot \in Prots
    PROVE  LET new == Touch(pt, num, prot) IN
           /\ Good(new)
           /\ get_page(new, num) # 0
           /\ Contents(new) = Contents(pt)
<1>1. CASE get_page(pt, num) # 0
    BY <1>1 DEF Touch
<1>2. CASE get_page(pt, num) = 0
  <2> DEFINE new == add_page(pt, num, prot)
  <2>1. Touch(pt, num, prot) = new
      BY <1>2 DEF Touch
  <2>2. /\ Good(new) /\ get_page(new, num) # 0
        /\ Page(new, num).p_data = [o \in Offsets |-> 0]
        /\ \A n \in PageNums \ {num} :
                  /\ get_page(new, n) = 0 <=> get_page(pt, n) = 0
                  /\ get_page(new, n) # 0 => Page(new, n) = Page(pt, n)
      BY <1>2, AddPage
  <2> HIDE DEF new
  <2>3. ASSUME NEW a \in Addr
        PROVE  (IF get_page(new, pnum(a)) = 0 THEN 0 ELSE ByteAt(new, a))
                 = (IF get_page(pt, pnum(a)) = 0 THEN 0 ELSE ByteAt(pt, a))
    <3>1. pnum(a) \in PageNums /\ poff(a) \in Offsets
        BY AddrSplit
    <3>2. CASE pnum(a) = num
        BY <1>2, <2>2, <3>1, <3>2 DEF ByteAt
    <3>3. CASE pnum(a) # num
        BY <2>2, <3>1, <3>3 DEF ByteAt
    <3> QED BY <3>2, <3>3
  <2>4. Contents(new) = Contents(pt)
      BY <2>3 DEF Contents
  <2> QED BY <2>1, <2>2, <2>4
<1> QED BY <1>1, <1>2

\* Writing a byte of a page changes that byte of memory and no other.
LEMMA WriteByte ==
    ASSUME NEW pt, Good(pt), NEW addr \in Addr, NEW b \in Bytes,
           get_page(pt, pnum(addr)) # 0
    PROVE  LET new == SetByte(pt, addr, b) IN
           /\ Good(new)
           /\ Contents(new) = [Contents(pt) EXCEPT ![addr] = b]
<1> DEFINE num   == pnum(addr)
           h     == hash(num)
           at    == get_page(pt, num)
           chain == pt[h]
           page  == [chain[at] EXCEPT !.p_data[poff(addr)] = b]
           long  == [chain EXCEPT ![at] = page]
           new   == SetByte(pt, addr, b)
<1>1. num \in PageNums /\ poff(addr) \in Offsets
    BY AddrSplit
<1>2. /\ h \in Buckets /\ at \in DOMAIN chain /\ chain \in Seq(Pages)
      /\ chain[at] \in Pages /\ chain[at].p_num = num
    BY <1>1, PageOf DEF Page, Good
<1>3. new = [pt EXCEPT ![h] = long]
    BY DEF SetByte
<1>4. /\ page \in Pages /\ page.p_num = num
      /\ page.p_data = [chain[at].p_data EXCEPT ![poff(addr)] = b]
      /\ chain[at].p_data \in [Offsets -> Bytes]
    BY <1>1, <1>2 DEF Pages
<1> HIDE DEF page
<1>5. /\ long \in Seq(Pages) /\ Len(long) = Len(chain)
      /\ \A k \in DOMAIN chain : long[k] = IF k = at THEN page ELSE chain[k]
      /\ DOMAIN long = DOMAIN chain
    BY <1>2, <1>4
<1> HIDE DEF long, new
<1>6. /\ new \in [Buckets -> Seq(Pages)] /\ new[h] = long
      /\ \A g \in Buckets \ {h} : new[g] = pt[g]
    BY <1>2, <1>3, <1>5 DEF Good
<1>7. \A g \in Buckets : /\ DOMAIN new[g] = DOMAIN pt[g]
                         /\ \A k \in DOMAIN pt[g] :
                                new[g][k].p_num = pt[g][k].p_num
    BY <1>2, <1>4, <1>5, <1>6
<1>8. Good(new)
    BY <1>6, <1>7 DEF Good, OnePagePer
<1>9. ASSUME NEW n \in PageNums
      PROVE  get_page(new, n) = get_page(pt, n)
  <2>1. hash(n) \in Buckets
      BY PageAssumption
  <2>2. /\ pt[hash(n)] \in Seq(Pages) /\ new[hash(n)] \in Seq(Pages)
        /\ Len(pt[hash(n)]) = Len(new[hash(n)])
        /\ \A k \in 1..Len(pt[hash(n)]) :
               new[hash(n)][k].p_num = pt[hash(n)][k].p_num
      BY <1>6, <1>7, <2>1 DEF Good
  <2> QED BY <1>8, <2>2, GetPage
<1>10. ASSUME NEW a \in Addr
       PROVE  (IF get_page(new, pnum(a)) = 0 THEN 0 ELSE ByteAt(new, a))
                = (IF a = addr THEN b
                   ELSE IF get_page(pt, pnum(a)) = 0 THEN 0 ELSE ByteAt(pt, a))
  <2>1. /\ pnum(a) \in PageNums /\ poff(a) \in Offsets
        /\ hash(pnum(a)) \in Buckets
      BY AddrSplit
  <2>2. get_page(new, pnum(a)) = get_page(pt, pnum(a))
      BY <1>9, <2>1
  <2>3. CASE get_page(pt, pnum(a)) = 0
      BY <2>2, <2>3
  <2>4. CASE get_page(pt, pnum(a)) # 0 /\ pnum(a) # num
    <3>1. CASE hash(pnum(a)) # h
        BY <1>6, <2>1, <2>2, <2>4, <3>1 DEF ByteAt, Page
    <3>2. CASE hash(pnum(a)) = h
      <4>1. get_page(pt, pnum(a)) \in DOMAIN chain /\ get_page(pt, pnum(a)) # at
          BY <1>2, <2>1, <2>4, <3>2, PageOf DEF Page
      <4> QED BY <1>5, <1>6, <2>2, <2>4, <3>2, <4>1 DEF ByteAt, Page
    <3> QED BY <3>1, <3>2
  <2>5. CASE get_page(pt, pnum(a)) # 0 /\ pnum(a) = num
    <3>1. a = addr <=> poff(a) = poff(addr)
        BY <2>5, AddrSplit
    <3>2. Page(new, num) = page /\ Page(pt, num) = chain[at]
        BY <1>2, <1>5, <1>6, <2>2, <2>5 DEF Page
    <3>3. page.p_data[poff(a)] = IF a = addr THEN b ELSE chain[at].p_data[poff(a)]
        BY <1>4, <2>1, <3>1
    <3> QED BY <2>2, <2>5, <3>2, <3>3 DEF ByteAt
  <2> QED BY <2>3, <2>4, <2>5
<1>11. Contents(new) = [Contents(pt) EXCEPT ![addr] = b]
    BY <1>10 DEF Contents
<1> QED BY <1>8, <1>11 DEF new
\* The zeroed table has no page, and memory is zero.
LEMMA EmptyTable ==
    LET pt == [h \in Buckets |-> <<>>] IN
    Good(pt) /\ Contents(pt) = [a \in Addr |-> 0]
<1> DEFINE pt == [h \in Buckets |-> <<>>]
<1>1. Good(pt)
    BY DEF Good, OnePagePer
<1>2. \A a \in Addr : get_page(pt, pnum(a)) = 0
  <2> SUFFICES ASSUME NEW a \in Addr PROVE get_page(pt, pnum(a)) = 0
      OBVIOUS
  <2>1. pt[hash(pnum(a))] = <<>>
      BY AddrSplit
  <2> QED BY <2>1 DEF get_page
<1> QED BY <1>1, <1>2 DEF Contents
============================================================================
