----------------------------- MODULE CacheProof -----------------------------
(***************************************************************************)
(* Facts about the cache and the steps of DataCache, whoever calls it.     *)
(***************************************************************************)
EXTENDS DataCache, FiniteSetTheorems, TLAPS

\* A line of B bytes.
LineType(B) ==
    [valid : BOOLEAN, tag : Addr, dirty : BOOLEAN, data : [1..B -> Bytes]]

\* A cache, of whatever geometry.
IsCache(c) ==
    /\ c = [A |-> c.A, B |-> c.B, C |-> c.C, d |-> c.d, sets |-> c.sets]
    /\ c.A \in Nat \ {0} /\ c.B \in 1..AddrSpace /\ c.C \in Nat /\ c.d \in Nat
    /\ c.sets \in [0..(NumSets(c) - 1) -> [1..c.A -> LineType(c.B)]]

\* Two caches of one geometry.
SameShape(c, n) == n.A = c.A /\ n.B = c.B /\ n.C = c.C /\ n.d = c.d

----------------------------------------------------------------------------
(* Addresses and blocks.                                                   *)

\* Addresses wrap around and stay addresses.
LEMMA PlusAddr ==
    ASSUME NEW a \in Addr, NEW n \in 0..AddrSpace
    PROVE  Plus(a, n) \in Addr
BY SpaceAssumption DEF Addr, Plus

\* The block of an address begins at an address.
LEMMA BlockAddr ==
    ASSUME NEW c, IsCache(c), NEW a \in Addr
    PROVE  BlockOf(c, a) \in Addr
<1>1. c.B \in Nat \ {0} /\ a \in Nat
    BY SpaceAssumption DEF IsCache, Addr
<1>2. a % c.B \in 0..(c.B - 1)
    BY <1>1
<1>3. a % c.B <= a
    BY <1>1
<1> QED BY <1>1, <1>2, <1>3, SpaceAssumption DEF BlockOf, Addr

----------------------------------------------------------------------------
(* What the operators of Cache do to the lines.                            *)

\* A cache is never NULL.
LEMMA NotNull == \A c : IsCache(c) => c # NULL
BY DEF IsCache, NULL

\* create_cache makes a cache with no valid line.
LEMMA Created ==
    ASSUME NEW A \in Nat \ {0}, NEW B \in 1..AddrSpace, NEW C \in Nat, NEW d \in Nat
    PROVE  LET c == create_cache(A, B, C, d) IN
           /\ IsCache(c) /\ c.d = d
           /\ \A s \in 0..(NumSets(c) - 1), k \in 1..c.A : ~c.sets[s][k].valid
<1> DEFINE c == create_cache(A, B, C, d)
<1>1. EmptyLine(B) \in LineType(B) /\ ~EmptyLine(B).valid
    BY SpaceAssumption DEF EmptyLine, LineType, Zeros, Addr
<1>2. c.A = A /\ c.B = B /\ c.C = C /\ c.d = d
      /\ c.sets = [s \in 0..(NumSets(c) - 1) |-> [k \in 1..A |-> EmptyLine(B)]]
      /\ c = [A |-> c.A, B |-> c.B, C |-> c.C, d |-> c.d, sets |-> c.sets]
    BY DEF create_cache, NumSets
<1>3. c.sets \in [0..(NumSets(c) - 1) -> [1..c.A -> LineType(c.B)]]
    BY <1>1, <1>2
<1> QED BY <1>1, <1>2, <1>3 DEF IsCache

\* One line replaced.
Replace(c, s, k, line) == [c EXCEPT !.sets[s][k] = line]

\* Replacing one line leaves a cache of the same shape and every other line.
LEMMA LineReplaced ==
    ASSUME NEW c, IsCache(c), NEW s, NEW k, NEW line,
           s \in 0..(NumSets(c) - 1) /\ k \in 1..c.A => line \in LineType(c.B)
    PROVE  LET n == Replace(c, s, k, line) IN
           /\ IsCache(n) /\ SameShape(c, n) /\ NumSets(n) = NumSets(c)
           /\ \A r \in 0..(NumSets(c) - 1), w \in 1..c.A :
                 n.sets[r][w] = IF r = s /\ w = k THEN line ELSE c.sets[r][w]
<1> DEFINE n == Replace(c, s, k, line)
           S == 0..(NumSets(c) - 1)
<1>1. /\ SameShape(c, n)
      /\ n = [A |-> n.A, B |-> n.B, C |-> n.C, d |-> n.d, sets |-> n.sets]
      /\ n.sets = [c.sets EXCEPT ![s] = [c.sets[s] EXCEPT ![k] = line]]
  <2>1. c = [A |-> c.A, B |-> c.B, C |-> c.C, d |-> c.d, sets |-> c.sets]
      BY DEF IsCache
  <2>2. n = [c EXCEPT !.sets = [c.sets EXCEPT ![s] = [c.sets[s] EXCEPT ![k] = line]]]
      BY DEF Replace
  <2> DEFINE new == [c.sets EXCEPT ![s] = [c.sets[s] EXCEPT ![k] = line]]
  <2>3. n = [c EXCEPT !.sets = new]
      BY <2>2
  <2> HIDE DEF n, new
  <2>4. n = [A |-> c.A, B |-> c.B, C |-> c.C, d |-> c.d, sets |-> new]
      BY <2>1, <2>3
  <2>5. n.A = c.A /\ n.B = c.B /\ n.C = c.C /\ n.d = c.d /\ n.sets = new
      BY <2>4
  <2>6. n.sets = [c.sets EXCEPT ![s] = [c.sets[s] EXCEPT ![k] = line]]
      BY <2>5 DEF new
  <2> QED BY <2>4, <2>5, <2>6 DEF SameShape
<1>2. NumSets(n) = NumSets(c)
    BY <1>1 DEF NumSets, SameShape
<1>3. \A r \in S, w \in 1..c.A :
         n.sets[r][w] = IF r = s /\ w = k THEN line ELSE c.sets[r][w]
  <2> SUFFICES ASSUME NEW r \in S, NEW w \in 1..c.A
               PROVE  n.sets[r][w] = IF r = s /\ w = k THEN line ELSE c.sets[r][w]
      OBVIOUS
  <2>1. r \in DOMAIN c.sets /\ c.sets[r] \in [1..c.A -> LineType(c.B)]
      BY DEF IsCache
  <2>2. n.sets[r] = IF r = s THEN [c.sets[s] EXCEPT ![k] = line] ELSE c.sets[r]
      BY <1>1, <2>1
  <2>3. CASE r = s
    <3>1. n.sets[r][w] = [c.sets[r] EXCEPT ![k] = line][w]
        BY <2>2, <2>3
    <3>2. w \in DOMAIN c.sets[r]
        BY <2>1
    <3> QED BY <2>3, <3>1, <3>2
  <2>4. CASE r # s
      BY <2>2, <2>4
  <2> QED BY <2>3, <2>4
<1>4. n.sets \in [S -> [1..c.A -> LineType(c.B)]]
  <2>1. CASE s \notin S
      BY <1>1, <2>1 DEF IsCache
  <2>2. CASE s \in S /\ k \notin 1..c.A
    <3>1. [c.sets[s] EXCEPT ![k] = line] = c.sets[s]
        BY <2>2 DEF IsCache
    <3> QED BY <1>1, <2>2, <3>1 DEF IsCache
  <2>3. CASE s \in S /\ k \in 1..c.A
    <3>1. [c.sets[s] EXCEPT ![k] = line] \in [1..c.A -> LineType(c.B)]
        BY <2>3 DEF IsCache
    <3> QED BY <1>1, <2>3, <3>1 DEF IsCache
  <2> QED BY <2>1, <2>2, <2>3
<1> QED BY <1>1, <1>2, <1>3, <1>4 DEF IsCache, SameShape

\* What a hit does to the lines.
LEMMA Touched ==
    ASSUME NEW c, IsCache(c), NEW a, NEW op
    PROVE  LET n == HitLine(c, a, op) IN
           /\ IsCache(n) /\ SameShape(c, n)
           /\ \A s \in 0..(NumSets(c) - 1), w \in 1..c.A :
                 /\ n.sets[s][w].valid = c.sets[s][w].valid
                 /\ n.sets[s][w].tag = c.sets[s][w].tag
                 /\ n.sets[s][w].data = c.sets[s][w].data
                 /\ c.sets[s][w].dirty => n.sets[s][w].dirty
           /\ op # "READ" /\ SetOf(c, a) \in 0..(NumSets(c) - 1)
                 => \A w \in Holds(c, a) : Holds(c, a) = {w}
                        => n.sets[SetOf(c, a)][w].dirty
<1> DEFINE n == HitLine(c, a, op)
           k == CHOOSE w \in Holds(c, a) : TRUE
           s == SetOf(c, a)
           new == [c.sets[s][k] EXCEPT !.dirty = TRUE]
<1>1. CASE op = "READ" \/ ~Resident(c, a)
  <2>1. n = c
      BY <1>1 DEF HitLine
  <2> QED BY <1>1, <2>1 DEF SameShape, Resident
<1>2. CASE op # "READ" /\ Resident(c, a)
  <2>1. n = Replace(c, s, k, new)
      BY <1>2 DEF HitLine, Replace
  <2>5. k \in 1..c.A /\ k \in Holds(c, a) /\ s = SetOf(c, a)
      BY <1>2 DEF Resident, Holds
  <2>2. s \in 0..(NumSets(c) - 1) /\ k \in 1..c.A
            => /\ new \in LineType(c.B)
               /\ new.valid = c.sets[s][k].valid
               /\ new.tag = c.sets[s][k].tag
               /\ new.data = c.sets[s][k].data
               /\ new.dirty = TRUE
    <3>1. \A l \in LineType(c.B) :
             LET m == [l EXCEPT !.dirty = TRUE]
             IN m \in LineType(c.B) /\ m.valid = l.valid /\ m.tag = l.tag
                /\ m.data = l.data /\ m.dirty = TRUE
        BY DEF LineType
    <3>2. s \in 0..(NumSets(c) - 1) /\ k \in 1..c.A
              => c.sets[s][k] \in LineType(c.B)
        BY DEF IsCache
    <3> HIDE DEF s, k
    <3> QED BY <3>1, <3>2
  <2> HIDE DEF s, k, new, n
  <2>3. /\ IsCache(n) /\ SameShape(c, n) /\ NumSets(n) = NumSets(c)
        /\ \A r \in 0..(NumSets(c) - 1), w \in 1..c.A :
              n.sets[r][w] = IF r = s /\ w = k THEN new ELSE c.sets[r][w]
      BY <2>1, <2>2, LineReplaced
  <2>4. \A r \in 0..(NumSets(c) - 1), w \in 1..c.A :
           /\ n.sets[r][w].valid = c.sets[r][w].valid
           /\ n.sets[r][w].tag = c.sets[r][w].tag
           /\ n.sets[r][w].data = c.sets[r][w].data
           /\ c.sets[r][w].dirty => n.sets[r][w].dirty
      BY <2>2, <2>3
  <2>6. s \in 0..(NumSets(c) - 1) => n.sets[s][k].dirty
      BY <2>2, <2>3, <2>5
  <2>7. SetOf(c, a) \in 0..(NumSets(c) - 1)
           => \A w \in Holds(c, a) : Holds(c, a) = {w}
                 => n.sets[SetOf(c, a)][w].dirty
      BY <2>5, <2>6
  <2> QED BY <2>3, <2>4, <2>7 DEF n
<1> QED BY <1>1, <1>2

\* What a store leaves of the lines.
LEMMA WordSet ==
    ASSUME NEW c, IsCache(c), NEW a, NEW val,
           DOMAIN val \in SUBSET Int, \A k \in DOMAIN val : val[k] \in Bytes
    PROVE  LET n == set_word_cache(TRUE, c, a, val) IN
           /\ IsCache(n) /\ SameShape(c, n)
           /\ \A s \in 0..(NumSets(c) - 1), k \in 1..c.A :
                 n.sets[s][k] = Updated(c.sets[s][k], a, val)
<1> DEFINE n == set_word_cache(TRUE, c, a, val)
<1>1. /\ SameShape(c, n)
      /\ n = [A |-> n.A, B |-> n.B, C |-> n.C, d |-> n.d, sets |-> n.sets]
      /\ n.sets = [s \in 0..(NumSets(c) - 1) |->
                      [k \in 1..c.A |-> Updated(c.sets[s][k], a, val)]]
    BY DEF IsCache, SameShape, set_word_cache
<1>2. \A line \in LineType(c.B) : Updated(line, a, val) \in LineType(c.B)
  <2> SUFFICES ASSUME NEW line \in LineType(c.B)
               PROVE  Updated(line, a, val) \in LineType(c.B)
      OBVIOUS
  <2> DEFINE At(m) == Offset(a, Plus(line.tag, m - 1)) + 1
             new == [m \in DOMAIN line.data |->
                        IF line.valid /\ At(m) \in DOMAIN val THEN val[At(m)]
                        ELSE line.data[m]]
  <2>1. new \in [1..c.B -> Bytes]
      BY DEF LineType
  <2>2. Updated(line, a, val) = [line EXCEPT !.data = new]
      BY DEF Updated
  <2> HIDE DEF new
  <2> QED BY <2>1, <2>2 DEF LineType
<1> HIDE DEF n
<1>3. \A s \in 0..(NumSets(c) - 1), k \in 1..c.A :
         Updated(c.sets[s][k], a, val) \in LineType(c.B)
    BY <1>2 DEF IsCache
<1>4. n.sets \in [0..(NumSets(c) - 1) -> [1..c.A -> LineType(c.B)]]
    BY <1>1, <1>3
<1>5. NumSets(n) = NumSets(c)
    BY <1>1 DEF NumSets, SameShape
<1>6. IsCache(n)
    BY <1>1, <1>4, <1>5 DEF IsCache, SameShape
<1>7. \A s \in 0..(NumSets(c) - 1), k \in 1..c.A :
         n.sets[s][k] = Updated(c.sets[s][k], a, val)
    BY <1>1
<1> QED BY <1>1, <1>6, <1>7 DEF n

\* The blocks of the lines in use.
Tags(c) == {b \in Addr : \E s \in 0..(NumSets(c) - 1), k \in 1..c.A :
                            c.sets[s][k].valid /\ c.sets[s][k].tag = b}

\* The tags of the lines in use are those of the valid lines.
LEMMA TagsOfLines ==
    ASSUME NEW c, IsCache(c)
    PROVE  {line.tag : line \in {c.sets[p[1]][p[2]] : p \in InUse(c)}} = Tags(c)
<1>1. \A s \in 0..(NumSets(c) - 1), k \in 1..c.A : c.sets[s][k].tag \in Addr
    BY DEF IsCache, LineType
<1>2. \A p \in InUse(c) :
         /\ p[1] \in 0..(NumSets(c) - 1) /\ p[2] \in 1..c.A
         /\ c.sets[p[1]][p[2]].valid
    BY DEF InUse
<1>3. \A s \in 0..(NumSets(c) - 1), k \in 1..c.A :
         c.sets[s][k].valid => <<s, k>> \in InUse(c)
    BY DEF InUse
<1>4. ASSUME NEW b, b \in {line.tag : line \in {c.sets[p[1]][p[2]] :
                                                  p \in InUse(c)}}
      PROVE  b \in Tags(c)
    BY <1>1, <1>2, <1>4 DEF Tags
<1>5. ASSUME NEW b \in Tags(c)
      PROVE  b \in {line.tag : line \in {c.sets[p[1]][p[2]] : p \in InUse(c)}}
  <2>1. PICK s \in 0..(NumSets(c) - 1), k \in 1..c.A :
                c.sets[s][k].valid /\ c.sets[s][k].tag = b
      BY DEF Tags
  <2>2. <<s, k>> \in InUse(c)
      BY <1>3, <2>1
  <2> QED BY <2>1, <2>2
<1> QED BY <1>4, <1>5

----------------------------------------------------------------------------
(* The blocks brought in, by what cache.c counts.                          *)

Tally == [hit : Nat, miss : Nat, dirty : Nat, clean : Nat]

\* The blocks ever brought into c: those it has evicted, and those it holds.
EverHeld(c, n) == n.dirty + n.clean + Cardinality(InUse(c))

\* A cache has finitely many lines.
LEMMA InUseFinite ==
    ASSUME NEW c, IsCache(c)
    PROVE  IsFiniteSet(InUse(c)) /\ Cardinality(InUse(c)) \in Nat
<1>1. NumSets(c) - 1 \in Int /\ c.A \in Int
    BY SpaceAssumption DEF IsCache, NumSets
<1>2. \A a \in Int, b \in Int : IsFiniteSet(a..b)
    BY FS_Interval
<1>5. IsFiniteSet(0..(NumSets(c) - 1)) /\ IsFiniteSet(1..c.A)
    BY <1>1, <1>2
<1>3. IsFiniteSet((0..(NumSets(c) - 1)) \X (1..c.A))
    BY <1>5, FS_Product
<1>4. InUse(c) \subseteq (0..(NumSets(c) - 1)) \X (1..c.A)
    BY DEF InUse
<1> QED BY <1>3, <1>4, FS_Subset, FS_CardinalityType

\* Lines that stay valid, or not, are in use as before.
LEMMA SameUse ==
    ASSUME NEW c, NEW n, SameShape(c, n),
           \A s \in 0..(NumSets(c) - 1), k \in 1..c.A :
               n.sets[s][k].valid = c.sets[s][k].valid
    PROVE  InUse(n) = InUse(c)
<1>1. NumSets(n) = NumSets(c) /\ n.A = c.A
    BY DEF SameShape, NumSets
<1>2. \A p \in (0..(NumSets(c) - 1)) \X (1..c.A) :
         n.sets[p[1]][p[2]].valid = c.sets[p[1]][p[2]].valid
    OBVIOUS
<1> QED BY <1>1, <1>2 DEF InUse

\* A block brought in takes a line that was free, or evicts one.
LEMMA OneMore ==
    ASSUME NEW c, IsCache(c), NEW s, NEW k, NEW line, line.valid,
           s \in 0..(NumSets(c) - 1) /\ k \in 1..c.A => line \in LineType(c.B),
           NEW m \in Tally
    PROVE  LET n == Replace(c, s, k, line)
               t == CountEviction(m, c.sets[s][k])
           IN /\ t \in Tally /\ t.miss = m.miss
              /\ EverHeld(c, m) \in Nat /\ EverHeld(n, t) \in Nat
              /\ EverHeld(n, t) <= EverHeld(c, m) + 1
              /\ (s \in 0..(NumSets(c) - 1) /\ k \in 1..c.A) =>
                    EverHeld(n, t) = EverHeld(c, m) + 1
<1> DEFINE n == Replace(c, s, k, line)
           old == c.sets[s][k]
           t == CountEviction(m, old)
<1>1. /\ IsCache(n) /\ SameShape(c, n) /\ NumSets(n) = NumSets(c)
      /\ \A r \in 0..(NumSets(c) - 1), w \in 1..c.A :
            n.sets[r][w] = IF r = s /\ w = k THEN line ELSE c.sets[r][w]
    BY LineReplaced
<1>2. /\ IsFiniteSet(InUse(c)) /\ Cardinality(InUse(c)) \in Nat
      /\ IsFiniteSet(InUse(n)) /\ Cardinality(InUse(n)) \in Nat
    BY <1>1, InUseFinite
<1>3. /\ t \in Tally /\ t.miss = m.miss
      /\ t.dirty + t.clean <= m.dirty + m.clean + 1
      /\ ~old.valid => t.dirty + t.clean = m.dirty + m.clean
    BY DEF CountEviction, Count, Tally
<1>4. m.dirty + m.clean \in Nat /\ t.dirty + t.clean \in Nat
    BY <1>3 DEF Tally
<1> HIDE DEF n, t, old
<1>5. InUse(n) \subseteq InUse(c) \cup {<<s, k>>}
    BY <1>1 DEF InUse, SameShape
<1>6. ~old.valid \/ InUse(n) = InUse(c)
  <2>1. CASE s \in 0..(NumSets(c) - 1) /\ k \in 1..c.A /\ old.valid
    <3>1. /\ n.sets[s][k].valid = TRUE /\ c.sets[s][k].valid = TRUE
      <4>1. n.sets[s][k] = line
          BY <1>1, <2>1
      <4>2. line \in LineType(c.B) /\ c.sets[s][k] \in LineType(c.B)
          BY <2>1 DEF IsCache
      <4> QED BY <2>1, <4>1, <4>2 DEF LineType, old
    <3>2. \A r \in 0..(NumSets(c) - 1), w \in 1..c.A :
             n.sets[r][w].valid = c.sets[r][w].valid
        BY <1>1, <3>1
    <3> QED BY <1>1, <3>2, SameUse
  <2>2. CASE ~(s \in 0..(NumSets(c) - 1) /\ k \in 1..c.A)
    <3>1. \A r \in 0..(NumSets(c) - 1), w \in 1..c.A :
             n.sets[r][w].valid = c.sets[r][w].valid
        BY <1>1, <2>2
    <3> QED BY <1>1, <3>1, SameUse
  <2> QED BY <2>1, <2>2
<1>7. Cardinality(InUse(n)) <= Cardinality(InUse(c)) + 1
  <2>1. /\ IsFiniteSet(InUse(c) \cup {<<s, k>>})
        /\ Cardinality(InUse(c) \cup {<<s, k>>}) <= Cardinality(InUse(c)) + 1
    <3>1. /\ IsFiniteSet(InUse(c) \cup {<<s, k>>})
          /\ Cardinality(InUse(c) \cup {<<s, k>>}) =
                IF <<s, k>> \in InUse(c) THEN Cardinality(InUse(c))
                ELSE Cardinality(InUse(c)) + 1
        BY <1>2, FS_AddElement, Zenon
    <3> QED BY <1>2, <3>1
  <2>2. /\ Cardinality(InUse(n)) <= Cardinality(InUse(c) \cup {<<s, k>>})
        /\ Cardinality(InUse(c) \cup {<<s, k>>}) \in Nat
      BY <1>5, <2>1, FS_Subset, FS_CardinalityType
  <2> QED BY <1>2, <2>1, <2>2
<1>8. EverHeld(c, m) = (m.dirty + m.clean) + Cardinality(InUse(c))
      /\ EverHeld(n, t) = (t.dirty + t.clean) + Cardinality(InUse(n))
    BY DEF EverHeld
<1>9. EverHeld(n, t) <= EverHeld(c, m) + 1
  <2>1. CASE ~old.valid
      BY <1>2, <1>3, <1>4, <1>7, <1>8, <2>1
  <2>2. CASE InUse(n) = InUse(c)
      BY <1>2, <1>3, <1>4, <1>8, <2>2
  <2> QED BY <1>6, <2>1, <2>2
<1>10. EverHeld(c, m) \in Nat /\ EverHeld(n, t) \in Nat
    BY <1>2, <1>4, <1>8
<1>11. (s \in 0..(NumSets(c) - 1) /\ k \in 1..c.A) =>
            EverHeld(n, t) = EverHeld(c, m) + 1
  <2> SUFFICES ASSUME s \in 0..(NumSets(c) - 1), k \in 1..c.A
               PROVE  EverHeld(n, t) = EverHeld(c, m) + 1
      OBVIOUS
  <2>1. c.sets[s][k] \in LineType(c.B) /\ line \in LineType(c.B)
      BY DEF IsCache
  <2>2. CASE old.valid
    <3>1. InUse(n) = InUse(c)
        BY <1>6, <2>2
    <3>2. t.dirty + t.clean = m.dirty + m.clean + 1
      <4>1. t = [m EXCEPT !.dirty = @ + 1] \/ t = [m EXCEPT !.clean = @ + 1]
          BY <2>2 DEF t, CountEviction, Count
      <4> QED BY <4>1 DEF Tally
    <3> QED BY <1>2, <1>4, <1>8, <3>1, <3>2
  <2>3. CASE ~old.valid
    <3>1. <<s, k>> \notin InUse(c)
        BY <2>3 DEF InUse, old
    <3>2. InUse(c) \cup {<<s, k>>} \subseteq InUse(n)
      <4>1. n.sets[s][k].valid = TRUE
          BY <1>1, <2>1 DEF LineType
      <4>2. \A p \in InUse(c) : /\ p \in (0..(NumSets(n) - 1)) \X (1..n.A)
                               /\ p[1] \in 0..(NumSets(c) - 1) /\ p[2] \in 1..c.A
                               /\ c.sets[p[1]][p[2]].valid
          BY <1>1 DEF InUse, SameShape
      <4>3. ASSUME NEW p \in InUse(c) PROVE n.sets[p[1]][p[2]].valid
        <5>1. CASE p[1] = s /\ p[2] = k
            BY <4>1, <5>1
        <5>2. CASE ~(p[1] = s /\ p[2] = k)
            BY <1>1, <4>2, <5>2
        <5> QED BY <5>1, <5>2
      <4>4. <<s, k>> \in (0..(NumSets(n) - 1)) \X (1..n.A)
          BY <1>1 DEF SameShape
      <4> QED BY <4>1, <4>2, <4>3, <4>4 DEF InUse
    <3>3. InUse(n) = InUse(c) \cup {<<s, k>>}
        BY <1>5, <3>2
    <3>4. Cardinality(InUse(n)) = Cardinality(InUse(c)) + 1
        BY <1>2, <3>1, <3>3, FS_AddElement, Zenon
    <3>5. t.dirty + t.clean = m.dirty + m.clean
        BY <1>3, <2>3
    <3> QED BY <1>2, <1>4, <1>8, <3>4, <3>5
  <2> QED BY <2>2, <2>3
<1> QED BY <1>3, <1>9, <1>10, <1>11 DEF n, t, old

----------------------------------------------------------------------------
(* The steps of DataCache as its callers take them.                        *)

created ==
    \E A \in 1..(AddrSpace - 1), B \in 1..(AddrSpace - 1), C \in Nat, d \in Nat :
        cache = NULL /\ init_cache(A, B, C, d)
begun ==
    \/ \E r \in Reads :
          mem_read_uncached(r.addr, r.width) \/ mem_read_cached(r.addr, r.width)
    \/ \E r \in Writes :
          mem_write_uncached(r.addr, r.data) \/ mem_write_cached(r.addr, r.data)
loaded == UNCHANGED <<bytes, solved, cache, counts, inflightVars, req, i,
                      data, result>>
DcNext ==
    created \/ begun \/ byte_hit \/ byte_wait \/ byte_fill \/ access_return
      \/ loaded

\* The countdown is that of the miss under way, and an access starts only
\* once there is a cache.  With the stubs an access that takes more than one
\* call gets no further than its second byte.
DcInv ==
    /\ req \in Reads \cup Writes \cup {Idle}
    /\ IF cache = NULL
       THEN req = Idle /\ inflight = FALSE /\ inflight_addr = 0
       ELSE IsCache(cache)
    /\ (cache = NULL \/ NumSets(cache) > 0) => bytes \in [Addr -> Bytes]
    /\ inflight \in BOOLEAN /\ solved \in BOOLEAN
    /\ inflight => inflight_cycles \in 1..(Penalty - 1)
    /\ req # Idle => i \in 0..Width
    /\ req # Idle /\ ~solved /\ cache.d # 1 => i = 0 \/ (i = 1 /\ ~inflight)

\* What a store writes is a non-empty sequence of bytes.
LEMMA DataFacts ==
    \A d \in Data : /\ Len(d) \in 1..AddrSpace /\ DOMAIN d = 1..Len(d)
                    /\ \A k \in 1..Len(d) : d[k] \in Bytes
<1> SUFFICES ASSUME NEW w \in Widths, NEW d \in [1..w -> Bytes]
             PROVE  /\ Len(d) \in 1..AddrSpace /\ DOMAIN d = 1..Len(d)
                    /\ \A k \in 1..Len(d) : d[k] \in Bytes
    BY DEF Data
<1>1. w \in 1..AddrSpace /\ w \in Nat
    BY SpaceAssumption
<1>2. d \in Seq(Bytes) /\ Len(d) = w
    BY <1>1
<1> QED BY <1>1, <1>2

\* The access under way is a load or a store of at least one byte.
LEMMA Underway ==
    ASSUME req \in Reads \cup Writes \cup {Idle}, req # Idle
    PROVE  /\ req.addr \in Addr /\ Width \in 1..AddrSpace
           /\ Reading => req \in Reads
           /\ ~Reading => req \in Writes
<1>1. CASE req \in Reads
    BY <1>1, SpaceAssumption DEF Reads, Reading, Width
<1>2. CASE req \in Writes
    BY <1>2, DataFacts DEF Writes, Reading, Width
<1> QED BY <1>1, <1>2

\* The byte the loop is at has an address and a block.
LEMMA Byte ==
    ASSUME DcInv, InLoop
    PROVE  /\ IsCache(cache) /\ current_address \in Addr /\ block_address \in Addr
           /\ FillFrom \in Addr /\ i \in 0..(Width - 1) /\ Width \in 1..AddrSpace
<1>1. IsCache(cache) /\ req # Idle /\ i \in 0..Width /\ i < Width
    BY DEF DcInv, InLoop
<1>2. req.addr \in Addr /\ Width \in 1..AddrSpace
    BY <1>1, Underway DEF DcInv
<1>3. i \in 0..(Width - 1) /\ i \in 0..AddrSpace
    BY <1>1, <1>2, SpaceAssumption
<1>4. current_address \in Addr
    BY <1>2, <1>3, PlusAddr DEF current_address
<1> QED BY <1>1, <1>2, <1>3, <1>4, BlockAddr DEF block_address, FillFrom

\* A word read from memory has the bytes asked for.
LEMMA WordType ==
    ASSUME NEW m \in [Addr -> Bytes], NEW a \in Addr, NEW w \in 1..AddrSpace
    PROVE  Word(m, a, w) \in [1..w -> Bytes]
<1>1. \A n \in 1..w : n - 1 \in 0..AddrSpace
    BY SpaceAssumption
<1>2. \A n \in 1..w : m[Plus(a, n - 1)] \in Bytes
    BY <1>1, PlusAddr
<1> QED BY <1>2 DEF Word

\* Memory written to is memory.
LEMMA OverlayType ==
    ASSUME NEW m \in [Addr -> Bytes], NEW a \in Addr, NEW w \in Nat,
           NEW d \in [1..w -> Bytes]
    PROVE  Overlay(m, a, 0, d) \in [Addr -> Bytes]
<1>1. d \in Seq(Bytes) /\ Len(d) = w
    OBVIOUS
<1>2. \A x \in Addr : Offset(a, x) \in 0..(w - 1) => Offset(a, x) + 1 \in 1..w
    OBVIOUS
<1> QED BY <1>1, <1>2 DEF Overlay

\* Every address has a set, if there are sets.
LEMMA SetInRange ==
    ASSUME NEW c, IsCache(c), NumSets(c) > 0, NEW a \in Addr
    PROVE  NumSets(c) \in Nat /\ SetOf(c, a) \in 0..(NumSets(c) - 1)
<1>1. c.A * c.B \in Nat \ {0}
    BY SpaceAssumption DEF IsCache
<1>2. NumSets(c) \in Nat
    BY <1>1 DEF IsCache, NumSets
<1>3. a \in Nat /\ c.B \in Nat \ {0}
    BY SpaceAssumption DEF IsCache, Addr
<1>4. a \div c.B \in Nat
    BY <1>3
<1> QED BY <1>2, <1>4 DEF SetOf

\* A block brought in.
LEMMA Filled ==
    ASSUME DcInv, byte_fill
    PROVE  /\ IsCache(cache') /\ SameShape(cache, cache')
           /\ Tags(cache') \subseteq Tags(cache) \cup {block_address}
           /\ NumSets(cache) > 0 => bytes' \in [Addr -> Bytes]
<1>1. IsCache(cache) /\ InLoop
    BY Byte DEF byte_fill
<1> DEFINE incoming == Word(bytes, FillFrom, cache.B)
<1>2. PICK m \in handle_miss(solved, cache, current_address, Op, incoming,
                             Missed) :
             /\ cache' = m.cache
             /\ bytes' = IF m.evicted.valid /\ m.evicted.dirty
                         THEN Overlay(bytes, m.evicted.addr, 0, m.evicted.data)
                         ELSE bytes
    BY DEF byte_fill
<1>3. NumSets(cache) > 0 => /\ bytes \in [Addr -> Bytes]
                            /\ incoming \in [1..cache.B -> Bytes]
    BY <1>1, Byte, WordType DEF DcInv, IsCache
<1>4. cache.B \in Nat
    BY <1>1, SpaceAssumption DEF IsCache
<1> HIDE DEF incoming
<1>5. CASE ~solved
  <2>1. PICK e \in [valid : BOOLEAN, dirty : BOOLEAN, addr : Garbage,
                    data : {Zeros(cache.B)}] :
               m = [cache |-> cache, evicted |-> e, counts |-> Missed]
      BY <1>2, <1>5 DEF handle_miss
  <2>2. e.addr \in Addr /\ e.data \in [1..cache.B -> Bytes]
      BY <2>1, SpaceAssumption, GarbageAssumption DEF Zeros
  <2>3. cache' = cache /\ m.evicted = e
      BY <1>2, <2>1
  <2>4. NumSets(cache) > 0 => bytes' \in [Addr -> Bytes]
      BY <1>2, <1>3, <1>4, <2>2, <2>3, OverlayType
  <2> QED BY <1>1, <2>3, <2>4 DEF SameShape
<1>6. CASE solved
  <2> DEFINE s == SetOf(cache, current_address)
  <2>1. PICK k \in 1..cache.A :
               m = [cache |-> Fill(cache, current_address, Op, incoming, k),
                    evicted |-> [valid |-> cache.sets[s][k].valid,
                                 dirty |-> cache.sets[s][k].dirty,
                                 addr |-> cache.sets[s][k].tag,
                                 data |-> cache.sets[s][k].data],
                    counts |-> CountEviction(Missed, cache.sets[s][k])]
      BY <1>2, <1>6 DEF handle_miss
  <2> DEFINE new == [valid |-> TRUE, tag |-> block_address,
                     dirty |-> Op = "WRITE", data |-> incoming]
  <2> HIDE DEF s
  <2>2. cache' = Replace(cache, s, k, new)
      BY <1>2, <2>1 DEF Fill, Replace, block_address, s
  <2>3. s \in 0..(NumSets(cache) - 1) => NumSets(cache) > 0
    <3>1. NumSets(cache) \in Int
        BY <1>1, SpaceAssumption DEF IsCache, NumSets
    <3> QED BY <3>1
  <2>4. NumSets(cache) > 0 => new \in LineType(cache.B)
      BY <1>1, <1>3, Byte DEF LineType
  <2>5. new.tag = block_address
      OBVIOUS
  <2> HIDE DEF new
  <2>6. /\ IsCache(cache') /\ SameShape(cache, cache')
        /\ NumSets(cache') = NumSets(cache)
        /\ \A r \in 0..(NumSets(cache) - 1), w \in 1..cache.A :
              cache'.sets[r][w] = IF r = s /\ w = k THEN new
                                  ELSE cache.sets[r][w]
      BY <1>1, <2>2, <2>3, <2>4, LineReplaced
  <2>7. Tags(cache') \subseteq Tags(cache) \cup {block_address}
      BY <2>5, <2>6 DEF Tags, SameShape
  <2>8. NumSets(cache) > 0 => bytes' \in [Addr -> Bytes]
    <3> SUFFICES ASSUME NumSets(cache) > 0 PROVE bytes' \in [Addr -> Bytes]
        OBVIOUS
    <3>1. s \in 0..(NumSets(cache) - 1)
        BY <1>1, Byte, SetInRange DEF s
    <3>2. cache.sets[s][k] \in LineType(cache.B)
        BY <1>1, <3>1 DEF IsCache
    <3>3. /\ m.evicted.addr \in Addr
          /\ m.evicted.data \in [1..cache.B -> Bytes]
        BY <2>1, <3>2 DEF LineType
    <3> QED BY <1>2, <1>3, <1>4, <3>3, OverlayType
  <2> QED BY <2>6, <2>7, <2>8
<1> QED BY <1>5, <1>6

\* The decrement in unsigned arithmetic: from the penalty, or one less than
\* before, and never below zero while a countdown goes on.
LEMMA CyclesValue ==
    ASSUME DcInv, InLoop
    PROVE  /\ Penalty \in Nat \ {0}
           /\ Cycles \in 0..(Penalty - 1)
           /\ inflight /\ inflight_addr = block_address
                  => Cycles = inflight_cycles - 1
           /\ ~(inflight /\ inflight_addr = block_address)
                  => Cycles = Penalty - 1
<1>1. cache.d \in Nat
    BY Byte DEF IsCache
<1>2. Penalty \in Nat \ {0}
    BY <1>1, DataCacheAssumption DEF Penalty
<1>3. inflight => inflight_cycles \in 1..(Penalty - 1)
    BY DEF DcInv
<1> QED BY <1>1, <1>2, <1>3 DEF Cycles, Penalty

\* Every step of the data cache keeps the invariant.
LEMMA DcStep == DcInv /\ DcNext => DcInv'
<1> SUFFICES ASSUME DcInv, DcNext PROVE DcInv'
    OBVIOUS
<1> USE DEF inflightVars
<1>1. CASE created
  <2>1. PICK A \in 1..(AddrSpace - 1), B \in 1..(AddrSpace - 1), C \in Nat,
             d \in Nat : cache = NULL /\ init_cache(A, B, C, d)
      BY <1>1 DEF created
  <2>2. A \in Nat \ {0} /\ B \in 1..AddrSpace
      BY SpaceAssumption
  <2>3. IsCache(cache')
      BY <2>1, <2>2, Created DEF init_cache
  <2>4. cache' # NULL
      BY <2>3, NotNull
  <2>5. req = Idle /\ req' = Idle /\ inflight' = FALSE /\ bytes' = bytes
        /\ solved' = solved /\ solved \in BOOLEAN /\ bytes \in [Addr -> Bytes]
      BY <2>1 DEF init_cache, DcInv
  <2> QED BY <2>3, <2>4, <2>5 DEF DcInv
<1>2. CASE begun
  <2>1. \/ /\ req' = req /\ req = Idle
           /\ bytes' = bytes
              \/ \E r \in Writes : bytes' = Overlay(bytes, r.addr, 0, r.data)
        \/ /\ req = Idle /\ cache # NULL /\ i' = 0 /\ bytes' = bytes
           /\ req' \in Reads \cup Writes
    <3>1. ASSUME NEW r \in Reads, mem_read_cached(r.addr, r.width)
          PROVE  req' \in Reads
      <4>1. req' = [kind |-> "read", addr |-> r.addr, width |-> r.width]
          BY <3>1 DEF mem_read_cached
      <4> QED BY <4>1 DEF Reads
    <3>2. ASSUME NEW r \in Writes, mem_write_cached(r.addr, r.data)
          PROVE  req' \in Writes
      <4>1. req' = [kind |-> "write", addr |-> r.addr, data |-> r.data]
          BY <3>2 DEF mem_write_cached
      <4> QED BY <4>1 DEF Writes
    <3>3. CASE \E r \in Reads :
                  mem_read_uncached(r.addr, r.width)
                    \/ mem_read_cached(r.addr, r.width)
        BY <3>1, <3>3 DEF mem_read_uncached, mem_read_cached, Cached
    <3>4. CASE \E r \in Writes :
                  mem_write_uncached(r.addr, r.data)
                    \/ mem_write_cached(r.addr, r.data)
        BY <3>2, <3>4 DEF mem_write_uncached, mem_write_cached, Cached
    <3> QED BY <1>2, <3>3, <3>4 DEF begun
  <2>2. UNCHANGED <<cache, inflight, inflight_addr, inflight_cycles, solved>>
      BY <1>2 DEF begun, mem_read_uncached, mem_read_cached,
                  mem_write_uncached, mem_write_cached
  <2>3. ASSUME NEW r \in Writes, bytes \in [Addr -> Bytes]
        PROVE  Overlay(bytes, r.addr, 0, r.data) \in [Addr -> Bytes]
    <3>1. PICK w \in Widths : r.data \in [1..w -> Bytes]
        BY DEF Writes, Data
    <3>2. w \in Nat /\ r.addr \in Addr
        BY SpaceAssumption DEF Writes
    <3> QED BY <2>3, <3>1, <3>2, OverlayType
  <2>4. (cache = NULL \/ NumSets(cache) > 0) => bytes' \in [Addr -> Bytes]
      BY <2>1, <2>3 DEF DcInv
  <2>5. CASE req' = Idle
      BY <2>1, <2>2, <2>4, <2>5 DEF DcInv, Penalty
  <2>6. CASE req' # Idle
    <3>1. cache # NULL /\ i' = 0 /\ req' \in Reads \cup Writes
        BY <2>1, <2>6
    <3>2. Width' \in Nat
      <4>1. CASE req' \in Reads
        <5>1. req'.kind = "read" /\ req'.width \in Widths
            BY <4>1 DEF Reads
        <5>2. \A w \in Widths : w \in Nat
            BY SpaceAssumption
        <5> QED BY <5>1, <5>2 DEF Reading, Width
      <4>2. CASE req' \in Writes
          BY <4>2, DataFacts DEF Writes, Reading, Width
      <4> QED BY <3>1, <4>1, <4>2
    <3> QED BY <2>2, <2>4, <3>1, <3>2 DEF DcInv, Penalty
  <2> QED BY <2>5, <2>6
<1>3. CASE byte_hit
  <2>1. /\ InLoop /\ Hits /\ i' = i + 1 /\ solved' = solved /\ req' = req
        /\ cache' = HitLine(cache, current_address, Op) /\ bytes' = bytes
        /\ UNCHANGED <<inflight, inflight_addr, inflight_cycles>>
      BY <1>3 DEF byte_hit
  <2>2. solved = TRUE
      BY <2>1 DEF Hits, check_hit
  <2>3. IsCache(cache') /\ SameShape(cache, cache')
      BY <2>1, Byte, Touched
  <2>4. cache # NULL /\ cache' # NULL
      BY <2>1, <2>3, Byte, NotNull
  <2>5. NumSets(cache') = NumSets(cache) /\ Penalty' = Penalty
      BY <2>3 DEF NumSets, SameShape, Penalty
  <2>6. i \in 0..(Width - 1) /\ Width \in 1..AddrSpace /\ Width' = Width
      BY <2>1, Byte DEF Width, Reading
  <2>7. i' \in 0..Width'
      BY <2>1, <2>6, SpaceAssumption
  <2> QED BY <2>1, <2>2, <2>3, <2>4, <2>5, <2>7 DEF DcInv
<1>4. CASE byte_wait
  <2>1. /\ InLoop /\ Cycles > 0 /\ inflight' = TRUE /\ inflight_cycles' = Cycles
        /\ req' = Idle /\ UNCHANGED <<bytes, solved, cache>>
      BY <1>4 DEF byte_wait
  <2>2. Cycles \in 1..(Penalty - 1)
      BY <2>1, CyclesValue
  <2>3. cache # NULL /\ IsCache(cache) /\ Penalty' = Penalty
      BY <2>1, Byte, NotNull DEF Penalty
  <2> QED BY <2>1, <2>2, <2>3 DEF DcInv
<1>5. CASE byte_fill
  <2>1. /\ InLoop /\ Cycles = 0 /\ inflight' = FALSE /\ i' = i + 1
        /\ req' = req /\ solved' = solved
      BY <1>5 DEF byte_fill
  <2>2. /\ IsCache(cache') /\ SameShape(cache, cache')
        /\ NumSets(cache) > 0 => bytes' \in [Addr -> Bytes]
      BY <1>5, Filled
  <2>3. cache # NULL /\ cache' # NULL
      BY <2>1, <2>2, Byte, NotNull
  <2>4. NumSets(cache') = NumSets(cache) /\ cache'.d = cache.d
      BY <2>2 DEF NumSets, SameShape
  <2>5. i \in 0..(Width - 1) /\ Width \in 1..AddrSpace /\ Width' = Width
      BY <2>1, Byte DEF Width, Reading
  <2>6. i' \in 0..Width'
      BY <2>1, <2>5, SpaceAssumption
  <2>7. ~solved /\ cache.d # 1 => i' = 1
    <3>1. SUFFICES ASSUME ~solved, cache.d # 1 PROVE i = 0
        BY <2>1
    <3>2. CASE i = 1 /\ ~inflight
      <4>1. Penalty = 1
          BY <2>1, <3>2, CyclesValue
      <4>2. cache.d \in Nat
          BY <2>1, Byte DEF IsCache
      <4> QED BY <3>1, <4>1, <4>2, DataCacheAssumption DEF Penalty
    <3> QED BY <2>1, <3>1, <3>2 DEF DcInv, InLoop
  <2> QED BY <2>1, <2>2, <2>3, <2>4, <2>6, <2>7 DEF DcInv
<1>6. CASE access_return
  <2>1. /\ req # Idle /\ req' = Idle /\ bytes' = bytes
        /\ UNCHANGED <<inflight, inflight_addr, inflight_cycles, solved>>
        /\ \/ cache' = cache
           \/ /\ ~Reading
              /\ cache' = set_word_cache(solved, cache, req.addr, req.data)
      BY <1>6 DEF access_return
  <2>2. IsCache(cache)
      BY <2>1 DEF DcInv
  <2>3. IsCache(cache') /\ SameShape(cache, cache')
    <3>1. CASE cache' = cache
        BY <2>2, <3>1 DEF SameShape
    <3>2. CASE cache' # cache
      <4>1. req \in Writes /\ (solved = TRUE \/ ~solved)
          BY <2>1, <3>2, Underway DEF DcInv
      <4>2. CASE ~solved
          BY <2>1, <3>2, <4>2 DEF set_word_cache
      <4>3. CASE req \in Writes /\ solved = TRUE
        <5>1. /\ DOMAIN req.data \in SUBSET Int
              /\ \A k \in DOMAIN req.data : req.data[k] \in Bytes
            BY <4>3, DataFacts DEF Writes
        <5>2. cache' = set_word_cache(TRUE, cache, req.addr, req.data)
            BY <2>1, <3>2, <4>3
        <5> QED BY <2>2, <5>1, <5>2, WordSet
      <4> QED BY <4>1, <4>2, <4>3
    <3> QED BY <3>1, <3>2
  <2>4. cache # NULL /\ cache' # NULL
      BY <2>2, <2>3, NotNull
  <2>5. NumSets(cache') = NumSets(cache) /\ Penalty' = Penalty
      BY <2>3 DEF NumSets, SameShape, Penalty
  <2> QED BY <2>1, <2>3, <2>4, <2>5 DEF DcInv
<1>7. CASE loaded
    BY <1>7 DEF loaded, DcInv, Penalty, Width, Reading
<1> QED BY <1>1, <1>2, <1>3, <1>4, <1>5, <1>6, <1>7 DEF DcNext

----------------------------------------------------------------------------
(* The miss penalty.                                                       *)

delay == IF cache = NULL THEN 0 ELSE Penalty
waited == IF inflight THEN Penalty - inflight_cycles ELSE 0

\* The blocks held are the tags of the cache.
LEMMA HeldTags ==
    DcInv => HeldBlocks = IF cache = NULL THEN {} ELSE Tags(cache)
BY TagsOfLines DEF DcInv, HeldBlocks, Lines

\* Lines with the same tags hold the same blocks.
LEMMA SameLinesHeld ==
    ASSUME NEW c, NEW n, SameShape(c, n),
           \A s \in 0..(NumSets(c) - 1), k \in 1..c.A :
               /\ n.sets[s][k].valid = c.sets[s][k].valid
               /\ n.sets[s][k].tag = c.sets[s][k].tag
    PROVE  Tags(n) = Tags(c)
<1>1. NumSets(n) = NumSets(c) /\ n.A = c.A
    BY DEF SameShape, NumSets
<1> QED BY <1>1 DEF Tags

\* Every step of the data cache creates it, waits, brings a block in, or
\* changes nothing MissDelay sees.
LEMMA DelayStep ==
    ASSUME DcInv, DcInv', DcNext
    PROVE  \/ delay = 0 /\ delay' \in Nat \ {0}
              /\ UNCHANGED <<HeldBlocks, inflight_addr, waited>>
           \/ \E b \in Addr : Delay!Wait(b) \/ Delay!Bring(b)
           \/ UNCHANGED <<delay, HeldBlocks, inflight_addr, waited>>
<1>1. CASE created
  <2>1. PICK A \in 1..(AddrSpace - 1), B \in 1..(AddrSpace - 1), C \in Nat,
             d \in Nat : cache = NULL /\ init_cache(A, B, C, d)
      BY <1>1 DEF created
  <2>2. A \in Nat \ {0} /\ B \in 1..AddrSpace
      BY SpaceAssumption
  <2>3. /\ IsCache(cache') /\ cache'.d = d
        /\ \A s \in 0..(NumSets(cache') - 1), k \in 1..cache'.A :
              ~cache'.sets[s][k].valid
      BY <2>1, <2>2, Created DEF init_cache
  <2>4. cache' # NULL
      BY <2>3, NotNull
  <2>5. inflight = FALSE /\ inflight_addr = 0 /\ inflight' = FALSE
        /\ inflight_addr' = 0
      BY <2>1 DEF init_cache, DcInv
  <2>6. HeldBlocks = {} /\ HeldBlocks' = Tags(cache')
    <3>1. HeldBlocks' = IF cache' = NULL THEN {} ELSE Tags(cache')
      <4>1. IsCache(cache') =>
            {line.tag : line \in {cache'.sets[p[1]][p[2]] : p \in InUse(cache')}}
                = Tags(cache')
          BY TagsOfLines
      <4> QED BY <2>3, <4>1 DEF HeldBlocks, Lines
    <3> QED BY <2>1, <2>4, <3>1 DEF HeldBlocks
  <2>7. Tags(cache') = {}
      BY <2>3 DEF Tags
  <2>8. Penalty' \in Nat \ {0}
      BY <2>3, DataCacheAssumption DEF Penalty
  <2> QED BY <2>1, <2>4, <2>5, <2>6, <2>7, <2>8 DEF delay, waited
<1>2. CASE begun
  <2>1. UNCHANGED <<cache, inflight, inflight_addr, inflight_cycles>>
      BY <1>2 DEF begun, mem_read_uncached, mem_read_cached,
                  mem_write_uncached, mem_write_cached, inflightVars
  <2> QED BY <2>1 DEF delay, waited, HeldBlocks, Lines, Penalty
<1>3. CASE byte_hit
  <2>1. /\ InLoop /\ cache' = HitLine(cache, current_address, Op)
        /\ UNCHANGED <<inflight, inflight_addr, inflight_cycles>>
      BY <1>3 DEF byte_hit, inflightVars
  <2>2. cache # NULL /\ IsCache(cache)
      BY <2>1, Byte, NotNull
  <2>3. /\ IsCache(cache') /\ SameShape(cache, cache')
        /\ Tags(cache') = Tags(cache)
      BY <2>1, <2>2, Touched, SameLinesHeld
  <2>4. cache' # NULL /\ Penalty' = Penalty
      BY <2>3, NotNull DEF SameShape, Penalty
  <2>5. HeldBlocks = Tags(cache) /\ HeldBlocks' = Tags(cache')
      BY <2>2, <2>3, <2>4, TagsOfLines DEF HeldBlocks, Lines
  <2> QED BY <2>1, <2>2, <2>3, <2>4, <2>5 DEF delay, waited
<1>4. CASE byte_wait
  <2>1. /\ InLoop /\ Cycles > 0 /\ inflight' = TRUE
        /\ inflight_cycles' = Cycles /\ inflight_addr' = block_address
        /\ cache' = cache
      BY <1>4 DEF byte_wait
  <2>2. cache # NULL /\ Penalty' = Penalty /\ block_address \in Addr
      BY <2>1, Byte, NotNull DEF Penalty
  <2>3. HeldBlocks' = HeldBlocks
      BY <2>1 DEF HeldBlocks, Lines
  <2>4. /\ Penalty \in Nat \ {0} /\ Cycles \in 1..(Penalty - 1)
        /\ inflight => inflight_cycles \in 1..(Penalty - 1)
    <3>1. Penalty \in Nat \ {0} /\ Cycles \in 0..(Penalty - 1)
        BY <2>1, CyclesValue
    <3> QED BY <2>1, <3>1 DEF DcInv
  <2>5. Delay!Wait(block_address)
      BY <2>1, <2>2, <2>3, <2>4, CyclesValue DEF Delay!Wait, Delay!Calls
  <2> QED BY <2>2, <2>5
<1>5. CASE byte_fill
  <2>1. /\ InLoop /\ Cycles = 0 /\ inflight' = FALSE
        /\ inflight_addr' = block_address
      BY <1>5 DEF byte_fill
  <2>2. /\ IsCache(cache) /\ IsCache(cache') /\ SameShape(cache, cache')
        /\ Tags(cache') \subseteq Tags(cache) \cup {block_address}
        /\ block_address \in Addr
      BY <1>5, <2>1, Filled, Byte
  <2>3. cache # NULL /\ cache' # NULL /\ Penalty' = Penalty
      BY <2>2, NotNull DEF SameShape, Penalty
  <2>4. HeldBlocks = Tags(cache) /\ HeldBlocks' = Tags(cache')
      BY <2>2, <2>3, TagsOfLines DEF HeldBlocks, Lines
  <2>5. /\ Penalty \in Nat \ {0}
        /\ inflight => inflight_cycles \in 1..(Penalty - 1)
      BY <2>1, CyclesValue DEF DcInv
  <2>6. Delay!Bring(block_address)
      BY <2>1, <2>2, <2>3, <2>4, <2>5, CyclesValue DEF Delay!Bring, Delay!Calls
  <2> QED BY <2>2, <2>6
<1>6. CASE access_return
  <2>1. /\ req # Idle
        /\ UNCHANGED <<inflight, inflight_addr, inflight_cycles, solved>>
        /\ \/ cache' = cache
           \/ /\ ~Reading
              /\ cache' = set_word_cache(solved, cache, req.addr, req.data)
      BY <1>6 DEF access_return, inflightVars
  <2>2. CASE cache' = cache
      BY <2>1, <2>2 DEF delay, waited, HeldBlocks, Lines, Penalty
  <2>3. CASE cache' # cache
    <3>1. IsCache(cache) /\ req \in Writes /\ solved = TRUE
        BY <2>1, <2>3, Underway DEF DcInv, set_word_cache
    <3>2. /\ DOMAIN req.data \in SUBSET Int
          /\ \A k \in DOMAIN req.data : req.data[k] \in Bytes
        BY <3>1, DataFacts DEF Writes
    <3>8. cache' = set_word_cache(TRUE, cache, req.addr, req.data)
        BY <2>1, <2>3, <3>1
    <3>3. /\ IsCache(cache') /\ SameShape(cache, cache')
          /\ \A s \in 0..(NumSets(cache) - 1), k \in 1..cache.A :
                cache'.sets[s][k] = Updated(cache.sets[s][k], req.addr, req.data)
      <4> DEFINE a == req.addr
                 val == req.data
      <4>1. /\ DOMAIN val \in SUBSET Int
            /\ \A k \in DOMAIN val : val[k] \in Bytes
          BY <3>2
      <4>2. cache' = set_word_cache(TRUE, cache, a, val)
          BY <3>8
      <4> HIDE DEF a, val
      <4>3. /\ IsCache(cache') /\ SameShape(cache, cache')
            /\ \A s \in 0..(NumSets(cache) - 1), k \in 1..cache.A :
                  cache'.sets[s][k] = Updated(cache.sets[s][k], a, val)
        <5>1. cache'.sets =
                  [s \in 0..(NumSets(cache) - 1) |->
                      [k \in 1..cache.A |-> Updated(cache.sets[s][k], a, val)]]
            BY <3>1, <4>2 DEF set_word_cache, IsCache
        <5>2. IsCache(cache') /\ SameShape(cache, cache')
            BY <3>1, <4>1, <4>2, WordSet
        <5> QED BY <5>1, <5>2
      <4> QED BY <4>3 DEF a, val
    <3>4. \A s \in 0..(NumSets(cache) - 1), k \in 1..cache.A :
             /\ cache'.sets[s][k].valid = cache.sets[s][k].valid
             /\ cache'.sets[s][k].tag = cache.sets[s][k].tag
      <4>1. \A line \in LineType(cache.B) :
               /\ Updated(line, req.addr, req.data).valid = line.valid
               /\ Updated(line, req.addr, req.data).tag = line.tag
          BY DEF Updated, LineType
      <4> QED BY <3>1, <3>3, <4>1 DEF IsCache
    <3>5. Tags(cache') = Tags(cache)
        BY <3>3, <3>4, SameLinesHeld
    <3>6. cache # NULL /\ cache' # NULL /\ Penalty' = Penalty
        BY <3>1, <3>3, NotNull DEF SameShape, Penalty
    <3>7. HeldBlocks = Tags(cache) /\ HeldBlocks' = Tags(cache')
        BY <3>1, <3>3, <3>6, TagsOfLines DEF HeldBlocks, Lines
    <3> QED BY <2>1, <3>5, <3>6, <3>7 DEF delay, waited
  <2> QED BY <2>2, <2>3
<1>7. CASE loaded
    BY <1>7 DEF loaded, inflightVars, delay, waited, HeldBlocks, Lines, Penalty
<1> QED BY <1>1, <1>2, <1>3, <1>4, <1>5, <1>6, <1>7 DEF DcNext

\* With the stubs, no access that takes more than one call is served.
LEMMA StubStep ==
    ASSUME DcInv, DcNext, req # Idle, ~solved, Width > 1, cache.d # 1
    PROVE  ~Served
<1>1. i = 0 \/ i = 1
    BY DEF DcInv
<1>2. ~access_return
    BY <1>1 DEF access_return
<1>3. CASE byte_wait
    BY <1>3 DEF byte_wait, Served
<1>4. CASE byte_hit \/ byte_fill \/ loaded
    BY <1>4 DEF byte_hit, byte_fill, loaded, Served
<1>5. ~begun
    BY DEF begun, mem_read_uncached, mem_read_cached, mem_write_uncached,
           mem_write_cached
<1>6. CASE created
    BY <1>6 DEF created, init_cache, Served
<1> QED BY <1>2, <1>3, <1>4, <1>5, <1>6 DEF DcNext
=============================================================================
