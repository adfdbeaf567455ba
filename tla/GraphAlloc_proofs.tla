-------------------------- MODULE GraphAlloc_proofs --------------------------
(* Proofs about DynTallocr for every size of chunks and blocks and every number of them, and about GraphAlloc for all       *)
(* graphs. One chunk is dealt with first, as its free blocks F, the blocks L in use and its max_size m.                    *)
EXTENDS GraphAlloc, SequenceTheorems, FiniteSetTheorems, TLAPS

Blocks == [offset : Nat, size : Nat \ {0}]

Sound(F, L, m) ==
  /\ F \subseteq Blocks /\ L \subseteq Blocks /\ m \in Nat
  /\ L \cap F = {}
  /\ \A a, b \in L \cup F : Disjoint(a, b)
  /\ \A a, b \in F : End(a) # b.offset
  /\ \A b \in L : End(b) <= m

LEMMA BlockFacts ==
  ASSUME NEW o \in Nat, NEW s \in Nat \ {0}
  PROVE Block(o, s) \in Blocks /\ Block(o, s).offset = o /\ Block(o, s).size = s /\ End(Block(o, s)) = o + s
  BY DEF Block, Blocks, End

\* The blocks around b end before it or start after it.
LEMMA Apart ==
  ASSUME NEW F, NEW L, NEW m, Sound(F, L, m), NEW b \in L \cup F
  PROVE \A x \in (L \cup F) \ {b} : x \in Blocks /\ (End(x) <= b.offset \/ End(b) <= x.offset)
  BY DEF Sound, Disjoint, End

\* Taking size from the front of the free block b.
LEMMA TakeSound ==
  ASSUME NEW F, NEW L, NEW m, Sound(F, L, m), NEW b \in F, NEW size \in Nat \ {0}, size <= b.size
  PROVE Sound(Take(F, b, size), L \cup {Block(b.offset, size)}, Larger(m, b.offset + size))
<1> DEFINE n == Block(b.offset, size)
           r == Block(b.offset + size, b.size - size)
           R == IF b.size = size THEN {} ELSE {r}
           k == Larger(m, b.offset + size)
<1>1. b \in Blocks /\ b.offset \in Nat /\ b.size \in Nat \ {0} /\ b \notin L /\ m \in Nat
  BY DEF Sound, Blocks
<1>2. /\ n \in Blocks /\ n.offset = b.offset /\ End(n) = b.offset + size
      /\ b.size # size => r \in Blocks /\ r.offset = b.offset + size /\ End(r) = End(b)
  <2>1. n \in Blocks /\ n.offset = b.offset /\ End(n) = b.offset + size
    BY <1>1, BlockFacts
  <2>2. ASSUME b.size # size PROVE r \in Blocks /\ r.offset = b.offset + size /\ End(r) = End(b)
    <3>1. b.offset + size \in Nat /\ b.size - size \in Nat \ {0}
      BY <1>1, <2>2
    <3>2. r \in Blocks /\ r.offset = b.offset + size /\ End(r) = (b.offset + size) + (b.size - size)
      BY <3>1, BlockFacts
    <3>3. QED
      BY <1>1, <3>2 DEF End
  <2>3. QED
    BY <2>1, <2>2
<1>3. \A x \in L \cup (F \ {b}) : x \in Blocks /\ (End(x) <= b.offset \/ End(b) <= x.offset)
  BY <1>1, Apart
<1>4. \A x \in Blocks : End(x) \in Nat /\ x.offset \in Nat /\ x.offset < End(x)
  BY DEF Blocks, End
<1>5. End(b) = b.offset + b.size
  BY DEF End
<1>6. \A y \in R : y = r /\ b.size # size /\ y \in Blocks /\ y.offset = b.offset + size /\ End(y) = End(b)
  BY <1>2
<1>7. k \in Nat /\ m <= k /\ End(n) <= k
  BY <1>1, <1>2 DEF Larger
<1> HIDE DEF n, r, R, k
<1>8. Take(F, b, size) = (F \ {b}) \cup R
  BY DEF Take, R, r
<1>9. (F \ {b}) \cup R \subseteq Blocks /\ L \cup {n} \subseteq Blocks
  BY <1>2, <1>3, <1>6
<1>10. (L \cup {n}) \cap ((F \ {b}) \cup R) = {}
  <2>1. L \cap (F \ {b}) = {}
    BY DEF Sound
  <2>2. ASSUME NEW x \in L \cup (F \ {b}) PROVE x # n
    BY <2>2, <1>1, <1>2, <1>3, <1>4, <1>5
  <2>3. ASSUME NEW x \in L, NEW y \in R PROVE x # y
    BY <2>3, <1>1, <1>3, <1>4, <1>5, <1>6
  <2>4. ASSUME NEW y \in R PROVE n # y
    BY <2>4, <1>1, <1>2, <1>6
  <2>5. QED
    BY <2>1, <2>2, <2>3, <2>4
<1>11. ASSUME NEW x \in (L \cup {n}) \cup ((F \ {b}) \cup R), NEW y \in (L \cup {n}) \cup ((F \ {b}) \cup R)
       PROVE Disjoint(x, y)
  <2>1. CASE x \in L \cup (F \ {b}) /\ y \in L \cup (F \ {b})
    BY <2>1 DEF Sound
  <2>2. CASE x = n /\ y \in L \cup (F \ {b})
    BY <2>2, <1>1, <1>2, <1>3, <1>4, <1>5 DEF Disjoint
  <2>3. CASE y = n /\ x \in L \cup (F \ {b})
    BY <2>3, <1>1, <1>2, <1>3, <1>4, <1>5 DEF Disjoint
  <2>4. CASE x \in R /\ y \in L \cup (F \ {b})
    BY <2>4, <1>1, <1>3, <1>4, <1>5, <1>6 DEF Disjoint
  <2>5. CASE y \in R /\ x \in L \cup (F \ {b})
    BY <2>5, <1>1, <1>3, <1>4, <1>5, <1>6 DEF Disjoint
  <2>6. CASE x \in R \cup {n} /\ y \in R \cup {n}
    BY <2>6, <1>1, <1>2, <1>6 DEF Disjoint
  <2>7. QED
    BY <2>1, <2>2, <2>3, <2>4, <2>5, <2>6
<1>12. ASSUME NEW x \in (F \ {b}) \cup R, NEW y \in (F \ {b}) \cup R PROVE End(x) # y.offset
  <2>1. CASE x \in F /\ y \in F
    BY <2>1 DEF Sound
  <2>2. CASE x \in F \ {b} /\ y \in R
    BY <2>2, <1>1, <1>3, <1>4, <1>5, <1>6
  <2>3. CASE x \in R /\ y \in F
    BY <2>3, <1>6 DEF Sound
  <2>4. CASE x \in R /\ y \in R
    BY <2>4, <1>4, <1>6
  <2>5. QED
    BY <2>1, <2>2, <2>3, <2>4
<1>13. \A x \in L \cup {n} : End(x) <= k
  <2>1. ASSUME NEW x \in L PROVE End(x) <= k
    <3>1. End(x) <= m /\ x \in Blocks
      BY <2>1 DEF Sound
    <3>2. QED
      BY <3>1, <1>1, <1>4, <1>7
  <2>2. QED
    BY <2>1, <1>7
<1>14. Sound((F \ {b}) \cup R, L \cup {n}, k)
  BY <1>7, <1>9, <1>10, <1>11, <1>12, <1>13 DEF Sound
<1>15. QED
  BY <1>8, <1>14 DEF n, k

\* Freeing the block b but for its first keep.
LEMMA FreeSound ==
  ASSUME NEW F, NEW L, NEW m, Sound(F, L, m), NEW b \in L, NEW keep \in 0..b.size - 1
  PROVE Sound(Merge(F, Block(b.offset + keep, b.size - keep)),
              (L \ {b}) \cup (IF keep = 0 THEN {} ELSE {Block(b.offset, keep)}), m)
<1> DEFINE B == Block(b.offset + keep, b.size - keep)
           before == {x \in F : End(x) = B.offset}
           after == {x \in F : End(B) = x.offset}
           start == IF before = {} THEN B.offset ELSE (CHOOSE x \in before : TRUE).offset
           stop == IF after = {} THEN End(B) ELSE End(CHOOSE x \in after : TRUE)
           M == Block(start, stop - start)
           K == IF keep = 0 THEN {} ELSE {Block(b.offset, keep)}
           G == F \ (before \cup after)
<1>1. b \in Blocks /\ b.offset \in Nat /\ b.size \in Nat \ {0} /\ b \notin F /\ m \in Nat
  BY DEF Sound, Blocks
<1>2. B.offset = b.offset + keep /\ End(B) = End(b) /\ End(b) = b.offset + b.size
  <2>1. b.offset + keep \in Nat /\ b.size - keep \in Nat \ {0}
    BY <1>1
  <2>2. B.offset = b.offset + keep /\ End(B) = (b.offset + keep) + (b.size - keep)
    BY <2>1, BlockFacts
  <2>3. QED
    BY <1>1, <2>2 DEF End
<1>3. \A x \in Blocks : End(x) \in Nat /\ x.offset \in Nat /\ x.offset < End(x)
  BY DEF Blocks, End
<1>4. \A x \in (L \ {b}) \cup F : x \in Blocks /\ (End(x) <= b.offset \/ End(b) <= x.offset)
  BY <1>1, Apart
<1>5. \A x, y \in L \cup F : x = y \/ End(x) <= y.offset \/ End(y) <= x.offset
  BY DEF Sound, Disjoint
<1>6. \A x, y \in F : End(x) # y.offset
  BY DEF Sound
<1>7. \A y \in K : keep # 0 /\ y \in Blocks /\ y.offset = b.offset /\ End(y) = b.offset + keep
  <2>1. ASSUME keep # 0
        PROVE Block(b.offset, keep) \in Blocks /\ Block(b.offset, keep).offset = b.offset
              /\ End(Block(b.offset, keep)) = b.offset + keep
    <3>1. keep \in Nat \ {0}
      BY <1>1, <2>1
    <3>2. QED
      BY <1>1, <3>1, BlockFacts
  <2>2. QED
    BY <2>1
<1> HIDE DEF B, K
<1>8. \/ before = {} /\ start = B.offset
      \/ \E p \in F : before = {p} /\ start = p.offset /\ End(p) = B.offset /\ keep = 0
  <2>1. CASE before = {}
    BY <2>1
  <2>2. CASE before # {}
    <3>1. PICK p \in before : p = CHOOSE x \in before : TRUE
      BY <2>2
    <3>2. \A x \in before : x = p
      BY <1>3, <1>4, <1>5, <3>1
    <3>3. p \in F /\ End(p) = B.offset /\ keep = 0
      <4>1. p \in F /\ End(p) = b.offset + keep
        BY <1>2, <3>1
      <4>2. End(p) <= b.offset \/ b.offset + b.size <= p.offset
        BY <1>2, <1>4, <4>1
      <4>3. p \in Blocks /\ p.offset \in Nat /\ p.offset < End(p) /\ keep \in Nat /\ keep < b.size
        BY <1>1, <1>3, <1>4, <4>1
      <4>4. QED
        BY <1>1, <1>2, <4>1, <4>2, <4>3
    <3>4. QED
      BY <2>2, <3>1, <3>2, <3>3
  <2>3. QED
    BY <2>1, <2>2
<1>9. \/ after = {} /\ stop = End(B)
      \/ \E q \in F : after = {q} /\ stop = End(q) /\ q.offset = End(B)
  <2>1. CASE after = {}
    BY <2>1
  <2>2. CASE after # {}
    <3>1. PICK q \in after : q = CHOOSE x \in after : TRUE
      BY <2>2
    <3>2. \A x \in after : x = q
      BY <1>1, <1>2, <1>3, <1>4, <1>5, <3>1
    <3>3. QED
      BY <2>2, <3>1, <3>2
  <2>3. QED
    BY <2>1, <2>2
<1>10. start \in Nat /\ stop \in Nat /\ start <= B.offset /\ End(B) <= stop /\ start < stop
  BY <1>1, <1>2, <1>3, <1>4, <1>8, <1>9
<1>11. M \in Blocks /\ M.offset = start /\ End(M) = stop
  <2> HIDE DEF start, stop
  <2>1. stop - start \in Nat \ {0} /\ start \in Nat
    BY <1>10
  <2>2. M \in Blocks /\ M.offset = start /\ End(M) = start + (stop - start)
    BY <2>1, BlockFacts
  <2>3. QED
    BY <1>10, <2>2
<1>12. Merge(F, B) = G \cup {M}
  BY DEF Merge
<1> HIDE DEF start, stop, M
<1>13. ASSUME NEW x \in G PROVE End(x) < start \/ stop < x.offset
  <2>1. x \in F /\ x \in Blocks /\ End(x) # B.offset /\ x.offset # End(B)
    BY <1>4, <1>13
  <2>2. End(x) <= b.offset \/ End(b) <= x.offset
    BY <1>4, <1>13
  <2>3. CASE End(x) <= b.offset
    <3>1. CASE before = {} /\ start = B.offset
      BY <1>1, <1>2, <1>3, <2>1, <2>3, <3>1
    <3>2. ASSUME NEW p \in F, before = {p}, start = p.offset, End(p) = B.offset, keep = 0 PROVE End(x) < start
      <4>1. x # p /\ End(x) # p.offset
        BY <1>6, <2>1, <3>2
      <4>2. End(x) <= p.offset \/ End(p) <= x.offset
        BY <1>5, <2>1, <4>1
      <4>3. QED
        BY <1>1, <1>2, <1>3, <1>4, <2>1, <2>3, <3>2, <4>1, <4>2
    <3>3. QED
      BY <1>8, <3>1, <3>2
  <2>4. CASE End(b) <= x.offset
    <3>1. CASE after = {} /\ stop = End(B)
      BY <1>1, <1>2, <1>3, <2>1, <2>4, <3>1
    <3>2. ASSUME NEW q \in F, after = {q}, stop = End(q), q.offset = End(B) PROVE stop < x.offset
      <4>1. x # q /\ End(q) # x.offset
        BY <1>6, <2>1, <3>2
      <4>2. End(x) <= q.offset \/ End(q) <= x.offset
        BY <1>5, <2>1, <4>1
      <4>3. QED
        BY <1>1, <1>2, <1>3, <1>4, <2>1, <2>4, <3>2, <4>1, <4>2
    <3>3. QED
      BY <1>9, <3>1, <3>2
  <2>5. QED
    BY <2>2, <2>3, <2>4
<1>14. ASSUME NEW x \in L \ {b} PROVE End(x) <= start \/ stop <= x.offset
  <2>1. x \in L /\ x \notin F /\ x \in Blocks
    BY <1>14 DEF Sound
  <2>2. End(x) <= b.offset \/ End(b) <= x.offset
    BY <1>4, <1>14
  <2>3. CASE End(x) <= b.offset
    <3>1. CASE before = {} /\ start = B.offset
      BY <1>1, <1>2, <1>3, <2>1, <2>3, <3>1
    <3>2. ASSUME NEW p \in F, start = p.offset, End(p) = B.offset, keep = 0 PROVE End(x) <= start
      <4>1. End(x) <= p.offset \/ End(p) <= x.offset
        BY <1>5, <2>1, <3>2
      <4>2. QED
        BY <1>1, <1>2, <1>3, <1>4, <2>1, <2>3, <3>2, <4>1
    <3>3. QED
      BY <1>8, <3>1, <3>2
  <2>4. CASE End(b) <= x.offset
    <3>1. CASE after = {} /\ stop = End(B)
      BY <1>1, <1>2, <1>3, <2>1, <2>4, <3>1
    <3>2. ASSUME NEW q \in F, stop = End(q), q.offset = End(B) PROVE stop <= x.offset
      <4>1. End(x) <= q.offset \/ End(q) <= x.offset
        BY <1>5, <2>1, <3>2
      <4>2. QED
        BY <1>1, <1>2, <1>3, <1>4, <2>1, <2>4, <3>2, <4>1
    <3>3. QED
      BY <1>9, <3>1, <3>2
  <2>5. QED
    BY <2>2, <2>3, <2>4
<1>15. \A y \in K : y \in Blocks /\ End(y) = start /\ y.offset = b.offset /\ End(y) <= End(b)
  BY <1>1, <1>2, <1>7, <1>8
<1> HIDE DEF G
<1>16. G \subseteq F
  BY DEF G
<1>17. G \cup {M} \subseteq Blocks /\ (L \ {b}) \cup K \subseteq Blocks
  BY <1>4, <1>11, <1>15, <1>16
<1>18. ((L \ {b}) \cup K) \cap (G \cup {M}) = {}
  <2>1. ASSUME NEW x \in L \ {b}, NEW y \in G \cup {M} PROVE x # y
    BY <2>1, <1>3, <1>4, <1>10, <1>11, <1>14, <1>16 DEF Sound
  <2>2. ASSUME NEW x \in K, NEW y \in G PROVE x # y
    BY <2>2, <1>1, <1>2, <1>3, <1>4, <1>15, <1>16
  <2>3. ASSUME NEW x \in K PROVE x # M
    BY <2>3, <1>3, <1>10, <1>11, <1>15
  <2>4. QED
    BY <2>1, <2>2, <2>3
<1>19. ASSUME NEW x \in ((L \ {b}) \cup K) \cup (G \cup {M}), NEW y \in ((L \ {b}) \cup K) \cup (G \cup {M})
       PROVE Disjoint(x, y)
  <2>1. CASE x \in (L \ {b}) \cup G /\ y \in (L \ {b}) \cup G
    BY <2>1, <1>5, <1>16 DEF Disjoint
  <2>2. ASSUME NEW v \in K, NEW w \in (L \ {b}) \cup G PROVE Disjoint(v, w) /\ Disjoint(w, v)
    BY <2>2, <1>1, <1>2, <1>3, <1>4, <1>15, <1>16 DEF Disjoint
  <2>3. ASSUME NEW w \in (L \ {b}) \cup G PROVE Disjoint(M, w) /\ Disjoint(w, M)
    <3>1. w \in Blocks
      BY <2>3, <1>4, <1>16
    <3>2. QED
      BY <2>3, <3>1, <1>3, <1>10, <1>11, <1>13, <1>14 DEF Disjoint
  <2>4. ASSUME NEW v \in K PROVE Disjoint(M, v) /\ Disjoint(v, M)
    BY <2>4, <1>3, <1>10, <1>11, <1>15 DEF Disjoint
  <2>5. CASE x \in K /\ y \in K
    <3>1. x = y
      BY <2>5 DEF K
    <3>2. QED
      BY <3>1 DEF Disjoint
  <2>6. CASE x = M /\ y = M
    BY <2>6 DEF Disjoint
  <2>7. QED
    BY <2>1, <2>2, <2>3, <2>4, <2>5, <2>6
<1>20. ASSUME NEW x \in G \cup {M}, NEW y \in G \cup {M} PROVE End(x) # y.offset
  <2>1. CASE x \in G /\ y \in G
    BY <2>1, <1>6, <1>16
  <2>2. ASSUME NEW w \in G PROVE End(M) # w.offset /\ End(w) # M.offset
    <3>1. w \in Blocks
      BY <2>2, <1>4, <1>16
    <3>2. QED
      BY <2>2, <3>1, <1>3, <1>10, <1>11, <1>13
  <2>3. End(M) # M.offset
    BY <1>3, <1>11
  <2>4. QED
    BY <2>1, <2>2, <2>3
<1>21. ASSUME NEW x \in (L \ {b}) \cup K PROVE End(x) <= m
  <2>1. \A y \in L : End(y) <= m
    BY DEF Sound
  <2>2. CASE x \in K
    BY <2>1, <2>2, <1>1, <1>3, <1>15
  <2>3. QED
    BY <2>1, <2>2, <1>21
<1>22. Sound(G \cup {M}, (L \ {b}) \cup K, m)
  BY <1>1, <1>17, <1>18, <1>19, <1>20, <1>21 DEF Sound
<1>23. QED
  BY <1>12, <1>22 DEF B, K

\* The first block of a new chunk.
LEMMA NewSound ==
  ASSUME NEW t \in Nat \ {0}, NEW size \in Nat \ {0}, size <= t
  PROVE Sound(Take({Block(0, t)}, Block(0, t), size), {Block(0, size)}, size)
<1> DEFINE f == Block(0, t)
<1>1. f \in Blocks /\ f.offset = 0 /\ f.size = t /\ End(f) = t
  BY BlockFacts
<1> HIDE DEF f
<1>2. Sound({f}, {}, 0)
  BY <1>1 DEF Sound, Disjoint
<1>3. Sound(Take({f}, f, size), {} \cup {Block(f.offset, size)}, Larger(0, f.offset + size))
  BY <1>1, <1>2, TakeSound
<1>4. Larger(0, f.offset + size) = size /\ {} \cup {Block(f.offset, size)} = {Block(0, size)}
  BY <1>1 DEF Larger
<1>5. QED
  BY <1>3, <1>4 DEF f
------------------------------------------------------------------------------
ChunkType == [free : SUBSET Blocks, max_size : Nat]

TallocrInv ==
  /\ chunks \in Seq(ChunkType)
  /\ live \in Seq(SUBSET Blocks)
  /\ Len(live) = Len(chunks)
  /\ \A c \in 1..Len(chunks) : Sound(chunks[c].free, live[c], chunks[c].max_size)

LEMMA InitInv == TallocrInit => TallocrInv
  BY DEF TallocrInit, TallocrInv

LEMMA ChunkFields ==
  ASSUME NEW k \in ChunkType, NEW F, NEW m
  PROVE /\ [k EXCEPT !.free = F] = [free |-> F, max_size |-> k.max_size]
        /\ [k EXCEPT !.free = F, !.max_size = m] = [free |-> F, max_size |-> m]
<1> DEFINE r == [free |-> F, max_size |-> k.max_size]
<1>1. [k EXCEPT !.free = F] = r
  BY DEF ChunkType
<1>2. [k EXCEPT !.free = F, !.max_size = m] = [[k EXCEPT !.free = F] EXCEPT !.max_size = m]
  BY DEF ChunkType
<1>3. [r EXCEPT !.max_size = m] = [free |-> F, max_size |-> m]
  OBVIOUS
<1>4. [k EXCEPT !.free = F, !.max_size = m] = [free |-> F, max_size |-> m]
  <2> HIDE DEF r
  <2>1. QED
    BY <1>1, <1>2, <1>3
<1>5. QED
  BY <1>1, <1>4

\* One chunk replaced by a sound one.
LEMMA Replaced ==
  ASSUME TallocrInv, NEW c \in 1..Len(chunks), NEW F, NEW L, NEW m, Sound(F, L, m),
         chunks' = [chunks EXCEPT ![c] = [free |-> F, max_size |-> m]],
         live' = [live EXCEPT ![c] = L]
  PROVE TallocrInv'
<1>1. F \in SUBSET Blocks /\ L \in SUBSET Blocks /\ m \in Nat
  BY DEF Sound
<1> DEFINE k == [free |-> F, max_size |-> m]
<1>2. k \in ChunkType /\ k.free = F /\ k.max_size = m
  BY <1>1 DEF ChunkType
<1> HIDE DEF k
<1>3. chunks' = [chunks EXCEPT ![c] = k]
  BY DEF k
<1>4. chunks' \in Seq(ChunkType) /\ Len(chunks') = Len(chunks)
  BY <1>2, <1>3 DEF TallocrInv
<1>5. live' \in Seq(SUBSET Blocks) /\ Len(live') = Len(live)
  BY <1>1 DEF TallocrInv
<1>6. ASSUME NEW d \in 1..Len(chunks) PROVE Sound(chunks'[d].free, live'[d], chunks'[d].max_size)
  <2>1. CASE d = c
    <3>1. chunks'[d] = k /\ live'[d] = L
      BY <1>3, <2>1 DEF TallocrInv
    <3>2. QED
      BY <1>2, <3>1
  <2>2. CASE d # c
    <3>1. chunks'[d] = chunks[d] /\ live'[d] = live[d]
      BY <1>3, <2>2 DEF TallocrInv
    <3>2. QED
      BY <3>1 DEF TallocrInv
  <2>3. QED
    BY <2>1, <2>2
<1>7. QED
  BY <1>4, <1>5, <1>6 DEF TallocrInv

LEMMA AllocInv ==
  ASSUME TallocrInv, NEW size \in Sizes, NEW c \in 1..Len(chunks) + 1, NEW offset, Alloc(size, c, offset)
  PROVE TallocrInv'
<1>1. size \in Nat \ {0} /\ size <= Endless /\ Len(chunks) \in Nat
  BY SizesAssumption, TallocrAssumption DEF TallocrInv
<1>2. ASSUME c <= Len(chunks), NEW b \in chunks[c].free, Picks(c, b, size), AllocInChunk(c, b, size)
      PROVE TallocrInv'
  <2> DEFINE F == Take(chunks[c].free, b, size)
             L == live[c] \cup {Block(b.offset, size)}
             m == Larger(chunks[c].max_size, b.offset + size)
  <2>1. c \in 1..Len(chunks)
    BY <1>1, <1>2
  <2>2. size <= b.size
    BY <1>1, <1>2, <2>1 DEF Picks, BestInner, BestLast, InnerFits, LastFits, TallocrInv, ChunkType, Blocks
  <2>3. Sound(chunks[c].free, live[c], chunks[c].max_size)
    BY <2>1 DEF TallocrInv
  <2>4. Sound(F, L, m)
    BY <1>1, <1>2, <2>2, <2>3, TakeSound
  <2>5. chunks[c] \in ChunkType
    BY <2>1 DEF TallocrInv
  <2>6. live' = [live EXCEPT ![c] = L]
    BY <1>2 DEF AllocInChunk
  <2> HIDE DEF F, L, m
  <2>7. chunks' = [chunks EXCEPT ![c] = [free |-> F, max_size |-> m]]
    <3>1. chunks' = [chunks EXCEPT ![c].free = F, ![c].max_size = m]
      BY <1>2, <2>1 DEF AllocInChunk, F, m, TallocrInv
    <3>2. chunks' = [chunks EXCEPT ![c] = [chunks[c] EXCEPT !.free = F, !.max_size = m]]
      BY <2>1, <3>1 DEF TallocrInv
    <3>3. [chunks[c] EXCEPT !.free = F, !.max_size = m] = [free |-> F, max_size |-> m]
      BY <2>5, ChunkFields
    <3>4. QED
      BY <3>2, <3>3
  <2>8. QED
    BY <2>1, <2>4, <2>6, <2>7, Replaced
<1>3. ASSUME AllocInNewChunk(size) PROVE TallocrInv'
  <2> DEFINE t == NewChunkSize(size)
             F == Take({Block(0, t)}, Block(0, t), size)
             k == [free |-> F, max_size |-> size]
             l == {Block(0, size)}
  <2>1. t \in Nat \ {0} /\ size <= t
    BY <1>1, TallocrAssumption DEF NewChunkSize, Larger
  <2> HIDE DEF t
  <2>2. Sound(F, l, size)
    BY <1>1, <2>1, NewSound
  <2>3. chunks' = Append(chunks, k) /\ live' = Append(live, l)
    BY <1>3 DEF AllocInNewChunk, t
  <2> HIDE DEF F, l
  <2>4. k \in ChunkType /\ l \in SUBSET Blocks /\ k.free = F /\ k.max_size = size
    BY <1>1, <2>2 DEF Sound, ChunkType
  <2> HIDE DEF k
  <2>5. /\ chunks' \in Seq(ChunkType) /\ Len(chunks') = Len(chunks) + 1
        /\ chunks'[Len(chunks) + 1] = k
        /\ \A d \in 1..Len(chunks) : chunks'[d] = chunks[d]
    BY <2>3, <2>4, AppendProperties DEF TallocrInv
  <2>6. /\ live' \in Seq(SUBSET Blocks) /\ Len(live') = Len(chunks) + 1
        /\ live'[Len(chunks) + 1] = l
        /\ \A d \in 1..Len(chunks) : live'[d] = live[d]
    BY <2>3, <2>4, AppendProperties DEF TallocrInv
  <2>7. ASSUME NEW d \in 1..Len(chunks) + 1 PROVE Sound(chunks'[d].free, live'[d], chunks'[d].max_size)
    <3>1. CASE d = Len(chunks) + 1
      BY <2>2, <2>4, <2>5, <2>6, <3>1
    <3>2. CASE d \in 1..Len(chunks)
      BY <2>5, <2>6, <3>2 DEF TallocrInv
    <3>3. QED
      BY <1>1, <3>1, <3>2
  <2>8. QED
    BY <2>5, <2>6, <2>7 DEF TallocrInv
<1>4. QED
  BY <1>2, <1>3 DEF Alloc

LEMMA FreeInv ==
  ASSUME TallocrInv, NEW c \in Chunks, NEW b \in live[c], NEW keep \in 0..b.size - 1, FreeBytes(c, b, keep)
  PROVE TallocrInv'
<1> DEFINE F == Merge(chunks[c].free, Block(b.offset + keep, b.size - keep))
           L == (live[c] \ {b}) \cup (IF keep = 0 THEN {} ELSE {Block(b.offset, keep)})
           m == chunks[c].max_size
<1>1. c \in 1..Len(chunks)
  BY DEF Chunks
<1>2. Sound(chunks[c].free, live[c], chunks[c].max_size)
  BY <1>1 DEF TallocrInv
<1>3. Sound(F, L, m)
  BY <1>2, FreeSound
<1>4. live' = [live EXCEPT ![c] = L]
  BY DEF FreeBytes
<1> HIDE DEF F, L
<1>5. chunks' = [chunks EXCEPT ![c] = [free |-> F, max_size |-> m]]
  <2>1. chunks' = [chunks EXCEPT ![c].free = F]
    BY DEF FreeBytes, F
  <2>2. chunks' = [chunks EXCEPT ![c] = [chunks[c] EXCEPT !.free = F]]
    BY <1>1, <2>1 DEF TallocrInv
  <2>3. chunks[c] \in ChunkType
    BY <1>1 DEF TallocrInv
  <2>4. QED
    BY <2>2, <2>3, ChunkFields
<1> HIDE DEF m
<1>6. QED
  BY <1>1, <1>3, <1>4, <1>5, Replaced

THEOREM TallocrInvariant == TallocrSpec => []TallocrInv
<1>1. TallocrInit => TallocrInv
  BY InitInv
<1>2. TallocrInv /\ [TallocrNext]_tallocrVars => TallocrInv'
  <2>1. CASE UNCHANGED tallocrVars
    BY <2>1 DEF tallocrVars, TallocrInv, Sound, Disjoint
  <2>2. CASE TallocrNext
    BY <2>2, AllocInv, FreeInv DEF TallocrNext
  <2>3. QED
    BY <2>1, <2>2
<1>3. QED
  BY <1>1, <1>2, PTL DEF TallocrSpec

\* No byte of a chunk belongs to two tensors, or to a tensor and a free block, whatever is allocated and freed.
\* Code: ggml_dyn_tallocr_alloc, ggml_dyn_tallocr_free_bytes.
THEOREM TensorsApart == TallocrSpec => []NoOverlap
<1>1. TallocrInv => NoOverlap
  BY DEF TallocrInv, NoOverlap, Sound, Chunks
<1>2. QED
  BY <1>1, TallocrInvariant, PTL

\* Every tensor ends within the max_size its chunk's buffer is made of. Code: ggml_dyn_tallocr_alloc, ggml_vbuffer_alloc.
THEOREM BufferIsLargeEnough == TallocrSpec => []WithinBuffer
<1>1. TallocrInv => WithinBuffer
  BY DEF TallocrInv, WithinBuffer, Sound, Chunks
<1>2. QED
  BY <1>1, TallocrInvariant, PTL

\* Adjacent free blocks are always merged: no hole is split in two. Code: ggml_dyn_tallocr_free_bytes.
THEOREM NoSplitHoles == TallocrSpec => []HolesAreWhole
<1>1. TallocrInv => HolesAreWhole
  BY DEF TallocrInv, HolesAreWhole, Sound, Chunks
<1>2. QED
  BY <1>1, TallocrInvariant, PTL
------------------------------------------------------------------------------
(* The graph allocator. During the walk the plan is for the graph at hand, between two walks for the reserved one.         *)

Plan == IF node = 0 THEN reserved ELSE cgraph
PlanPlace(t) == Block(addr[t].offset, Plan[t].size)

\* The tensors that the plan is to give a place, and those that have been given it.
PlanOwners == {t \in Tensors(Plan) : Own(Plan, t)}
Placed == {t \in PlanOwners : node = 0 \/ t < node \/ (t = node /\ step > Parents + 1)}

\* What is still to be released in this walk, of tensor s and of its views.
Pending(p) == node < p[1] \/ (p[1] = node /\ step <= Parents + 1 + p[2])
ToCome(s) == {p \in AllReads(cgraph) : Pending(p) /\ Source(cgraph, p) = s}
OpenViews(s) == {u \in ViewsOf(cgraph, s) : ToCome(u) # {} \/ ~IsRead(cgraph, u)}

GraphTyping ==
  /\ TallocrInv
  /\ rounds \in Nat /\ (rounds = 0 => node = 0 /\ cgraph = <<>> /\ reserved = <<>>)
  /\ IsGraph(cgraph) /\ IsGraph(reserved)
  /\ addr \in [Tensors(cgraph) -> [chunk : Nat, offset : Nat]]
  /\ n_children \in [Tensors(cgraph) -> Int] /\ n_views \in [Tensors(cgraph) -> Int]
  /\ buffer \in Seq(Nat)
  /\ node \in 0..Len(cgraph) + 1 /\ step \in Nat
  /\ node \in Tensors(cgraph) => step \in 1..2 * Parents + 1
  /\ node = Len(cgraph) + 1 => step = 1

Counts ==
  node # 0 =>
    \A s \in Tensors(cgraph) : n_children[s] = Cardinality(ToCome(s)) /\ n_views[s] = Cardinality(OpenViews(s))

\* Who owns a place has a block of the tallocr to itself.
OwnBlocks ==
  node # 0 =>
    /\ allocated \subseteq Placed
    /\ \A t \in allocated : addr[t].chunk \in Chunks /\ Place(t) \in live[addr[t].chunk]
    /\ \A t, u \in allocated : addr[t] = addr[u] => t = u

\* Who owns none any more is no output, nobody later than the node at hand reads it, and the views of it are past, of which none
\* stays unread.
KeptWhileRead ==
  node # 0 =>
    \A s \in Placed \ allocated :
      /\ ~cgraph[s].output
      /\ node \notin Leafs(cgraph)
      /\ \A u \in ViewsOf(cgraph, s) : u < node /\ IsRead(cgraph, u)
      /\ \A p \in AllReads(cgraph) : Pending(p) /\ Root(cgraph, Source(cgraph, p)) = s => p[1] = node /\ step > Parents + 1

Overlap(t, s) ==
  /\ addr[t].chunk = addr[s].chunk
  /\ ~(End(PlanPlace(t)) <= addr[s].offset \/ End(PlanPlace(s)) <= addr[t].offset)

TookOver(t, s) == Plan[t].op = "inplace" /\ addr[t] = addr[s] /\ Plan[t].size = Plan[s].size

\* A tensor lies over an earlier one only when that one is no output, its views come before, which all are read, and all that read
\* it come before, itself or through a view, but for the node that took its place over.
PlacesApart ==
  \A s, t \in Placed : s # t /\ Written(Plan, s) <= Written(Plan, t) /\ Overlap(t, s) =>
    /\ ~Plan[s].output
    /\ \A u \in ViewsOf(Plan, s) : u < Written(Plan, t) /\ IsRead(Plan, u)
    /\ \A p \in AllReads(Plan) : Root(Plan, Source(Plan, p)) = s /\ Written(Plan, t) <= p[1] => t = p[1] /\ TookOver(t, s)

InChunk == \A t \in Placed : addr[t].chunk \in Chunks /\ End(PlanPlace(t)) <= chunks[addr[t].chunk].max_size

\* Between two walks the plan fits into the buffers, ...
Reserved ==
  node = 0 =>
    /\ Len(cgraph) = Len(reserved)
    /\ \A t \in PlanOwners : addr[t].chunk <= Len(buffer) /\ End(PlanPlace(t)) <= buffer[addr[t].chunk]

\* ... and the nodes at hand, and what they read, into the plan: the code does not look at leafs that no node reads.
AllFit ==
  node = 0 =>
    \A t \in Tensors(cgraph) \ Leafs(cgraph) :
      /\ StillFits(cgraph, t, t)
      /\ \A i \in 1..Len(cgraph[t].src) : i <= Len(reserved[t].src) => StillFits(cgraph, cgraph[t].src[i], reserved[t].src[i])

GraphInv ==
  /\ GraphTyping /\ Counts /\ OwnBlocks /\ KeptWhileRead /\ PlacesApart /\ InChunk /\ Reserved /\ AllFit

------------------------------------------------------------------------------
(* A graph and the walk through it.                                                                                       *)

LEMMA GraphFacts ==
  ASSUME NEW g, IsGraph(g)
  PROVE  /\ Len(g) \in Nat
         /\ \A t \in Tensors(g) :
              /\ t \in Nat \ {0} /\ g[t] \in TensorRecord /\ g[t].size \in Nat
              /\ Len(g[t].src) \in 0..MaxSrc
              /\ Own(g, t) => g[t].size \in Sizes
              /\ g[t].op = "leaf" => Len(g[t].src) = 0 /\ g[t].view = 0
              /\ g[t].view # 0 => g[t].view \in 1..t - 1 /\ g[g[t].view].view = 0
<1>1. g \in Seq(TensorRecord) /\ Len(g) \in Nat
  BY DEF IsGraph
<1>2. ASSUME NEW t \in Tensors(g)
      PROVE  t \in Nat \ {0} /\ g[t] \in TensorRecord /\ g[t].src \in Seq(Nat) /\ Len(g[t].src) \in Nat /\ g[t].size \in Nat
  <2>1. g \in Seq(TensorRecord) /\ t \in 1..Len(g)
    BY <1>1 DEF Tensors
  <2>2. t \in Nat \ {0} /\ g[t] \in TensorRecord
    BY <2>1
  <2> QED
    BY <2>2 DEF TensorRecord
<1>3. ASSUME NEW t \in Tensors(g) PROVE Len(g[t].src) \in 0..MaxSrc
  BY <1>2, GraphAllocAssumption DEF IsGraph
<1>4. ASSUME NEW t \in Tensors(g), Own(g, t) PROVE g[t].size \in Sizes
  BY <1>4 DEF IsGraph
<1>5. ASSUME NEW t \in Tensors(g), g[t].op = "leaf" PROVE Len(g[t].src) = 0 /\ g[t].view = 0
  BY <1>5 DEF IsGraph
<1>6. ASSUME NEW t \in Tensors(g), g[t].view # 0 PROVE g[t].view \in 1..t - 1 /\ g[g[t].view].view = 0
  BY <1>6 DEF IsGraph
<1> QED
  BY <1>1, <1>2, <1>3, <1>4, <1>5, <1>6

\* A read is of a tensor before the one that reads.
LEMMA ReadFacts ==
  ASSUME NEW g, IsGraph(g), NEW p \in AllReads(g)
  PROVE  /\ p = <<p[1], p[2]>> /\ p[1] \in Tensors(g) /\ p[1] \in Nat /\ p[2] \in 1..Len(g[p[1]].src) /\ p[2] \in Nat
         /\ Source(g, p) = g[p[1]].src[p[2]] /\ Source(g, p) \in Tensors(g) /\ Source(g, p) \in Nat /\ Source(g, p) < p[1]
         /\ g[p[1]].op # "leaf" /\ g[Source(g, p)].op # "dependency"
<1>1. p = <<p[1], p[2]>> /\ p[1] \in Tensors(g) /\ p[2] \in 1..MaxSrc /\ p[2] <= Len(g[p[1]].src)
  BY DEF AllReads
<1>2. p[1] \in Nat /\ Len(g) \in Nat /\ Len(g[p[1]].src) \in Nat /\ p[2] \in Nat
  BY <1>1, GraphFacts, GraphAllocAssumption DEF Tensors
<1>3. p[2] \in 1..Len(g[p[1]].src)
  BY <1>1, <1>2, GraphAllocAssumption
<1>4. g[p[1]].src[p[2]] \in 1..p[1] - 1 /\ g[g[p[1]].src[p[2]]].op # "dependency"
  BY <1>1, <1>3 DEF IsGraph
<1>5. g[p[1]].op # "leaf"
  BY <1>1, <1>3, GraphFacts
<1> QED
  BY <1>1, <1>2, <1>3, <1>4, <1>5 DEF Source, Tensors

LEMMA ReadIs ==
  ASSUME NEW g, IsGraph(g), NEW t \in Tensors(g), NEW i \in 1..Len(g[t].src)
  PROVE  <<t, i>> \in AllReads(g) /\ Source(g, <<t, i>>) = g[t].src[i]
<1>1. Len(g[t].src) \in 0..MaxSrc /\ MaxSrc \in Nat
  BY GraphFacts, GraphAllocAssumption
<1>2. i \in 1..MaxSrc /\ i <= Len(g[t].src)
  BY <1>1
<1> QED
  BY <1>2 DEF AllReads, Source

LEMMA ReadsFinite ==
  ASSUME NEW g, IsGraph(g), NEW R, R \subseteq AllReads(g)
  PROVE  IsFiniteSet(R) /\ Cardinality(R) \in Nat
<1>1. IsFiniteSet(Tensors(g)) /\ IsFiniteSet(1..MaxSrc)
  BY GraphFacts, GraphAllocAssumption, FS_Interval DEF Tensors
<1>2. IsFiniteSet(Tensors(g) \X (1..MaxSrc))
  BY <1>1, FS_Product
<1>3. R \subseteq Tensors(g) \X (1..MaxSrc)
  BY DEF AllReads
<1> QED
  BY <1>2, <1>3, FS_Subset, FS_CardinalityType

LEMMA TensorsFinite ==
  ASSUME NEW g, IsGraph(g), NEW R, R \subseteq Tensors(g)
  PROVE  IsFiniteSet(R) /\ Cardinality(R) \in Nat
<1>1. IsFiniteSet(Tensors(g))
  BY GraphFacts, FS_Interval DEF Tensors
<1> QED
  BY <1>1, FS_Subset, FS_CardinalityType

LEMMA AtNode ==
  ASSUME GraphTyping, node \in Tensors(cgraph)
  PROVE  /\ node \in Nat \ {0} /\ step \in Nat \ {0} /\ Parents \in Nat /\ step <= 2 * Parents + 1 /\ IsGraph(cgraph)
         /\ Len(cgraph) \in Nat /\ node <= Len(cgraph) /\ Parents = Len(cgraph[node].src)
<1>1. IsGraph(cgraph) /\ step \in 1..2 * Parents + 1
  BY DEF GraphTyping
<1>2. Parents \in Nat
  BY <1>1, GraphFacts, GraphAllocAssumption DEF Parents
<1> QED
  BY <1>1, <1>2, GraphFacts DEF Parents, Tensors

\* A step of the walk.
LEMMA WalkStep ==
  ASSUME GraphTyping, node \in Tensors(cgraph), NextStep, cgraph' = cgraph
  PROVE  /\ node' \in 1..Len(cgraph) + 1 /\ step' \in Nat
         /\ node' \in Tensors(cgraph) => step' \in 1..2 * Len(cgraph[node'].src) + 1
         /\ node' = Len(cgraph) + 1 => step' = 1
         /\ \/ node' = node /\ step' = step + 1 /\ step <= 2 * Parents
            \/ node' = node + 1 /\ step' = 1 /\ step = 2 * Parents + 1
<1>1. /\ node \in Nat \ {0} /\ step \in Nat \ {0} /\ Parents \in Nat /\ step <= 2 * Parents + 1
      /\ Len(cgraph) \in Nat /\ node <= Len(cgraph) /\ Parents = Len(cgraph[node].src)
  BY AtNode
<1>2. \A t \in Tensors(cgraph) : Len(cgraph[t].src) \in Nat
  BY AtNode, GraphFacts, GraphAllocAssumption
<1>3. CASE step <= 2 * Parents
  BY <1>1, <1>3 DEF NextStep
<1>4. CASE ~(step <= 2 * Parents)
  <2>1. step = 2 * Parents + 1 /\ step' = 1 /\ node' = node + 1
    BY <1>1, <1>4 DEF NextStep
  <2> QED
    BY <1>1, <1>2, <2>1
<1> QED
  BY <1>3, <1>4

\* Before and at the node itself nothing is released.
LEMMA PendingStays ==
  ASSUME GraphTyping, node \in Tensors(cgraph), NextStep, cgraph' = cgraph, step <= Parents + 1
  PROVE  \A p \in AllReads(cgraph) : Pending(p)' <=> Pending(p)
<1> SUFFICES ASSUME NEW p \in AllReads(cgraph) PROVE Pending(p)' <=> Pending(p)
  OBVIOUS
<1>1. node \in Nat \ {0} /\ step \in Nat \ {0} /\ Parents \in Nat /\ Parents = Len(cgraph[node].src) /\ IsGraph(cgraph)
  BY AtNode
<1>2. p[1] \in Nat /\ p[2] \in Nat /\ p[2] \in 1..Len(cgraph[p[1]].src)
  BY <1>1, ReadFacts
<1>3. CASE node' = node /\ step' = step + 1
  <2>1. Parents' = Parents
    BY <1>3 DEF Parents
  <2>2. CASE p[1] = node
    <3>1. Pending(p) <=> step <= Parents + 1 + p[2]
      BY <1>1, <2>2 DEF Pending
    <3>2. Pending(p)' <=> step + 1 <= Parents + 1 + p[2]
      BY <1>1, <1>3, <2>1, <2>2 DEF Pending
    <3>3. step <= Parents + 1 + p[2] /\ step + 1 <= Parents + 1 + p[2]
      <4>1. step \in Nat /\ Parents \in Nat /\ p[2] \in Nat /\ 1 <= p[2] /\ step <= Parents + 1
        BY <1>1, <1>2
      <4> QED
        BY <4>1
    <3> QED
      BY <3>1, <3>2, <3>3
  <2>3. CASE p[1] # node
    BY <1>3, <2>3 DEF Pending
  <2> QED
    BY <2>2, <2>3
<1>4. CASE node' = node + 1 /\ step' = 1 /\ step = 2 * Parents + 1
  <2>1. Parents = 0 /\ p[1] # node
    BY <1>1, <1>2, <1>4
  <2>2. p[1] = node' => Parents' = Len(cgraph[p[1]].src) /\ Parents' \in Nat
    <3>1. p[1] \in Tensors(cgraph)
      BY <1>1, ReadFacts
    <3> QED
      BY <1>1, <3>1, GraphFacts, GraphAllocAssumption DEF Parents
  <2> QED
    BY <1>1, <1>2, <1>4, <2>1, <2>2 DEF Pending
<1> QED
  BY <1>3, <1>4, WalkStep

\* A release is one read less.
LEMMA PendingLess ==
  ASSUME GraphTyping, node \in Tensors(cgraph), NextStep, cgraph' = cgraph, step > Parents + 1
  PROVE  LET q == <<node, step - Parents - 1>> IN
         /\ q \in AllReads(cgraph) /\ Pending(q) /\ Source(cgraph, q) = cgraph[node].src[step - Parents - 1]
         /\ \A p \in AllReads(cgraph) : Pending(p)' <=> Pending(p) /\ p # q
<1> DEFINE i == step - Parents - 1
           q == <<node, i>>
<1>1. node \in Nat \ {0} /\ step \in Nat \ {0} /\ Parents \in Nat /\ Parents = Len(cgraph[node].src) /\ IsGraph(cgraph)
      /\ step <= 2 * Parents + 1
  BY AtNode
<1>2. i \in 1..Len(cgraph[node].src) /\ i \in Nat
  BY <1>1
<1>3. q \in AllReads(cgraph) /\ Source(cgraph, q) = cgraph[node].src[i]
  BY <1>1, <1>2, ReadIs
<1>4. Pending(q)
  BY <1>1 DEF Pending
<1>5. ASSUME NEW p \in AllReads(cgraph) PROVE Pending(p)' <=> Pending(p) /\ p # q
  <2>1. p[1] \in Nat /\ p[2] \in Nat /\ p[2] \in 1..Len(cgraph[p[1]].src) /\ p = <<p[1], p[2]>> /\ p[1] \in Tensors(cgraph)
    BY <1>1, ReadFacts
  <2>2. p = q <=> p[1] = node /\ p[2] = i
    BY <2>1
  <2> HIDE DEF q
  <2>3. CASE node' = node /\ step' = step + 1
    <3>1. Parents' = Parents
      BY <2>3 DEF Parents
    <3>2. CASE p[1] = node
      <4>1. Pending(p) <=> step <= Parents + 1 + p[2]
        BY <1>1, <3>2 DEF Pending
      <4>2. Pending(p)' <=> step + 1 <= Parents + 1 + p[2]
        BY <1>1, <2>3, <3>1, <3>2 DEF Pending
      <4>3. p = q <=> p[2] = step - Parents - 1
        BY <2>2, <3>2
      <4>4. step + 1 <= Parents + 1 + p[2] <=> step <= Parents + 1 + p[2] /\ p[2] # step - Parents - 1
        <5>1. step \in Nat /\ Parents \in Nat /\ p[2] \in Nat
          BY <1>1, <2>1
        <5> QED
          BY <5>1
      <4> QED
        BY <4>1, <4>2, <4>3, <4>4, Zenon
    <3>3. CASE p[1] # node
      BY <2>2, <2>3, <3>3 DEF Pending
    <3> QED
      BY <3>2, <3>3
  <2>4. CASE node' = node + 1 /\ step' = 1 /\ step = 2 * Parents + 1
    <3>1. p[1] = node' => Parents' = Len(cgraph[p[1]].src) /\ Parents' \in Nat
      BY <1>1, <2>1, GraphFacts, GraphAllocAssumption DEF Parents
    <3>2. Parents = i
      BY <1>1, <2>4
    <3>3. CASE p[1] = node
      <4>1. Pending(p) => p = q
        BY <1>1, <2>1, <2>2, <2>4, <3>2, <3>3 DEF Pending
      <4>2. ~Pending(p)'
        BY <1>1, <2>4, <3>3 DEF Pending
      <4> QED
        BY <4>1, <4>2
    <3>4. CASE p[1] = node'
      <4>1. Pending(p) /\ p # q
        BY <1>1, <2>2, <2>4, <3>4 DEF Pending
      <4>2. step' <= Parents' + 1 + p[2]
        BY <2>1, <2>4, <3>1, <3>4
      <4> QED
        BY <3>4, <4>1, <4>2 DEF Pending
    <3>5. CASE p[1] # node /\ p[1] # node'
      <4>1. node < p[1] <=> node' < p[1]
        BY <1>1, <2>1, <2>4, <3>5
      <4>2. (Pending(p) <=> node < p[1]) /\ (Pending(p)' <=> node' < p[1])
        BY <3>5 DEF Pending
      <4> QED
        BY <2>2, <3>5, <4>1, <4>2
    <3> QED
      BY <3>3, <3>4, <3>5
  <2> QED
    BY <2>3, <2>4, WalkStep
<1> QED
  BY <1>3, <1>4, <1>5

LEMMA PlacedMore ==
  ASSUME GraphTyping, node \in Tensors(cgraph), NextStep, cgraph' = cgraph
  PROVE  /\ node' # 0
         /\ step = Parents + 1 /\ Own(cgraph, node) => Placed' = Placed \cup {node} /\ node \notin Placed
         /\ step # Parents + 1 \/ ~Own(cgraph, node) => Placed' = Placed
         /\ \A t \in Placed : t \in Owners /\ t \in Tensors(cgraph) /\ t \in Nat /\ (t < node \/ (t = node /\ step > Parents + 1))
         /\ Plan = cgraph /\ Plan' = cgraph /\ PlanOwners = Owners
<1>1. node \in Nat \ {0} /\ step \in Nat \ {0} /\ Parents \in Nat /\ Parents = Len(cgraph[node].src) /\ step <= 2 * Parents + 1
      /\ Len(cgraph) \in Nat /\ IsGraph(cgraph)
  BY AtNode
<1>3. node' # 0
  BY <1>1, WalkStep
<1>0. Plan = cgraph /\ Plan' = cgraph
  BY <1>1, <1>3 DEF Plan
<1>2. /\ PlanOwners = Owners /\ PlanOwners' = Owners
      /\ Owners = {t \in Tensors(cgraph) : Own(cgraph, t)} /\ \A t \in Tensors(cgraph) : t \in Nat
  BY <1>0, <1>1, GraphFacts DEF Owners, PlanOwners
<1>4. node' = node /\ step' = step + 1 => Parents' = Parents
  BY DEF Parents
<1>5. node' = node + 1 /\ step' = 1 => Parents' \in Nat \/ node' \notin Tensors(cgraph)
  BY <1>1, GraphFacts, GraphAllocAssumption DEF Parents
<1>6. ASSUME NEW t \in Owners
      PROVE  (t < node' \/ (t = node' /\ step' > Parents' + 1))
               <=> (t < node \/ (t = node /\ step > Parents + 1)) \/ (t = node /\ step = Parents + 1)
  <2>1. t \in Nat /\ t \in Tensors(cgraph)
    BY <1>2
  <2>2. CASE node' = node /\ step' = step + 1
    <3>1. Parents' = Parents
      BY <1>4, <2>2
    <3>2. step' > Parents' + 1 <=> step > Parents + 1 \/ step = Parents + 1
      BY <1>1, <2>2, <3>1
    <3> QED
      BY <2>2, <3>2
  <2>3. CASE node' = node + 1 /\ step' = 1 /\ step = 2 * Parents + 1
    <3>1. t = node' => ~(step' > Parents' + 1)
      BY <1>5, <2>1, <2>3
    <3>2. t < node' <=> t < node \/ t = node
      BY <1>1, <2>1, <2>3
    <3>3. step > Parents + 1 \/ step = Parents + 1
      BY <1>1, <2>3
    <3> QED
      BY <3>1, <3>2, <3>3
  <2> QED
    BY <2>2, <2>3, WalkStep
<1>7. Placed = {t \in Owners : t < node \/ (t = node /\ step > Parents + 1)}
  BY <1>1, <1>2 DEF Placed
<1>8. Placed' = {t \in Owners : t < node' \/ (t = node' /\ step' > Parents' + 1)}
  BY <1>2, <1>3 DEF Placed
<1>9. \A t \in Placed : t \in Owners /\ t \in Tensors(cgraph) /\ t \in Nat /\ (t < node \/ (t = node /\ step > Parents + 1))
  BY <1>2, <1>7
<1>10. CASE step = Parents + 1 /\ Own(cgraph, node)
  <2>1. node \in Owners /\ node \notin Placed
    BY <1>1, <1>2, <1>9, <1>10
  <2>2. \A t \in Owners : t \in Placed' <=> t \in Placed \/ t = node
    BY <1>6, <1>7, <1>8, <1>10
  <2>3. Placed \subseteq Owners /\ Placed' \subseteq Owners
    BY <1>7, <1>8
  <2> QED
    BY <1>0, <1>2, <1>3, <1>9, <1>10, <2>1, <2>2, <2>3
<1>11. CASE step # Parents + 1 \/ ~Own(cgraph, node)
  BY <1>0, <1>1, <1>2, <1>3, <1>6, <1>7, <1>8, <1>9, <1>11
<1> QED
  BY <1>10, <1>11

------------------------------------------------------------------------------
(* What the walk needs to know of the allocator.                                                                          *)

LEMMA AllocGives ==
  ASSUME TallocrInv, NEW size \in Sizes, NEW c \in 1..Len(chunks) + 1, NEW offset \in Offsets(c), Alloc(size, c, offset)
  PROVE  /\ TallocrInv' /\ offset \in Nat /\ size \in Nat \ {0} /\ c \in Chunks' /\ Len(chunks) \in Nat
         /\ Block(offset, size) \in live'[c] /\ offset + size <= chunks'[c].max_size
         /\ c \in Chunks => \A x \in live[c] : End(x) <= offset \/ offset + size <= x.offset
         /\ \A d \in Chunks : d \in Chunks' /\ live[d] \subseteq live'[d] /\ chunks[d].max_size <= chunks'[d].max_size
<1>1. TallocrInv'
  BY AllocInv
<1>2. size \in Nat \ {0} /\ Len(chunks) \in Nat /\ Len(live) = Len(chunks)
  BY SizesAssumption, TallocrAssumption DEF TallocrInv
<1>3. chunks \in Seq(ChunkType) /\ live \in Seq(SUBSET Blocks)
      /\ \A d \in 1..Len(chunks) : chunks[d] \in ChunkType /\ Sound(chunks[d].free, live[d], chunks[d].max_size)
  BY <1>2 DEF TallocrInv
<1>4. ASSUME c <= Len(chunks), NEW b \in chunks[c].free, b.offset = offset, Picks(c, b, size), AllocInChunk(c, b, size)
      PROVE  /\ offset \in Nat /\ c \in Chunks'
             /\ Block(offset, size) \in live'[c] /\ offset + size <= chunks'[c].max_size
             /\ c \in Chunks => \A x \in live[c] : End(x) <= offset \/ offset + size <= x.offset
             /\ \A d \in Chunks : d \in Chunks' /\ live[d] \subseteq live'[d] /\ chunks[d].max_size <= chunks'[d].max_size
  <2>1. c \in 1..Len(chunks)
    BY <1>2, <1>4
  <2>2. b \in Blocks /\ offset \in Nat /\ b.size \in Nat \ {0} /\ chunks[c].max_size \in Nat
    BY <1>3, <1>4, <2>1 DEF Sound, Blocks
  <2>3. size <= b.size
    BY <1>2, <1>4, <2>2 DEF Picks, BestInner, BestLast, InnerFits, LastFits
  <2>4. \A x \in live[c] : End(x) <= offset \/ offset + size <= x.offset
    <3> SUFFICES ASSUME NEW x \in live[c] PROVE End(x) <= offset \/ offset + size <= x.offset
      OBVIOUS
    <3>1. x \in Blocks /\ x # b /\ Disjoint(x, b)
      BY <1>3, <1>4, <2>1 DEF Sound
    <3>2. End(x) <= b.offset \/ b.offset + b.size <= x.offset
      BY <3>1 DEF Disjoint, End
    <3>3. x.offset \in Nat
      BY <3>1 DEF Blocks
    <3> QED
      BY <1>2, <1>4, <2>2, <2>3, <3>2, <3>3
  <2>5. live' = [live EXCEPT ![c] = live[c] \cup {Block(offset, size)}]
    BY <1>4 DEF AllocInChunk
  <2>6. /\ live'[c] = live[c] \cup {Block(offset, size)} /\ \A d \in 1..Len(chunks) : live[d] \subseteq live'[d]
    BY <1>2, <1>3, <2>1, <2>5
  <2> DEFINE F == Take(chunks[c].free, b, size)
             m == Larger(chunks[c].max_size, b.offset + size)
  <2>7. chunks' = [chunks EXCEPT ![c].free = F, ![c].max_size = m]
    BY <1>4 DEF AllocInChunk
  <2>8. chunks[c].max_size <= m /\ offset + size <= m
    BY <1>2, <1>4, <2>2 DEF Larger
  <2> HIDE DEF F, m
  <2>9. Len(chunks') = Len(chunks) /\ chunks'[c].max_size = m /\ \A d \in 1..Len(chunks) \ {c} : chunks'[d] = chunks[d]
    <3>1. chunks' = [chunks EXCEPT ![c] = [chunks[c] EXCEPT !.free = F, !.max_size = m]]
      BY <1>3, <2>1, <2>7
    <3>0. chunks[c] \in ChunkType
      BY <1>3, <2>1
    <3>2. [chunks[c] EXCEPT !.free = F, !.max_size = m] = [free |-> F, max_size |-> m]
      BY <3>0, ChunkFields
    <3> DEFINE k == [free |-> F, max_size |-> m]
    <3>3. k.max_size = m
      OBVIOUS
    <3> HIDE DEF k
    <3>4. chunks' = [chunks EXCEPT ![c] = k]
      BY <3>1, <3>2 DEF k
    <3> QED
      BY <1>2, <1>3, <2>1, <3>3, <3>4
  <2>10. \A d \in 1..Len(chunks) : chunks[d].max_size <= chunks'[d].max_size
    <3> SUFFICES ASSUME NEW d \in 1..Len(chunks) PROVE chunks[d].max_size <= chunks'[d].max_size
      OBVIOUS
    <3>1. chunks[d].max_size \in Nat
      BY <1>3 DEF Sound
    <3> QED
      BY <2>8, <2>9, <3>1
  <2> QED
    BY <2>1, <2>2, <2>4, <2>6, <2>8, <2>9, <2>10 DEF Chunks
<1>5. ASSUME AllocInNewChunk(size), c = Len(chunks) + 1, offset = 0
      PROVE  /\ offset \in Nat /\ c \in Chunks'
             /\ Block(offset, size) \in live'[c] /\ offset + size <= chunks'[c].max_size
             /\ c \in Chunks => \A x \in live[c] : End(x) <= offset \/ offset + size <= x.offset
             /\ \A d \in Chunks : d \in Chunks' /\ live[d] \subseteq live'[d] /\ chunks[d].max_size <= chunks'[d].max_size
  <2> DEFINE k == [free |-> Take({Block(0, NewChunkSize(size))}, Block(0, NewChunkSize(size)), size), max_size |-> size]
             l == {Block(0, size)}
  <2>1. chunks' = Append(chunks, k) /\ live' = Append(live, l)
    BY <1>5 DEF AllocInNewChunk
  <2>2. k.max_size = size
    OBVIOUS
  <2> HIDE DEF k
  <2>3. Len(chunks') = Len(chunks) + 1 /\ chunks'[Len(chunks) + 1] = k /\ \A d \in 1..Len(chunks) : chunks'[d] = chunks[d]
    BY <1>2, <1>3, <2>1
  <2>4. live'[Len(chunks) + 1] = l /\ \A d \in 1..Len(chunks) : live'[d] = live[d]
    BY <1>2, <1>3, <2>1
  <2>5. \A d \in 1..Len(chunks) : chunks[d].max_size \in Nat
    BY <1>3 DEF Sound
  <2> QED
    BY <1>2, <1>5, <2>2, <2>3, <2>4, <2>5 DEF Chunks
<1> QED
  BY <1>1, <1>2, <1>4, <1>5 DEF Alloc

LEMMA FreeGives ==
  ASSUME TallocrInv, NEW c \in Chunks, NEW b \in live[c], FreeBytes(c, b, 0)
  PROVE  /\ TallocrInv' /\ Chunks' = Chunks
         /\ \A d \in Chunks : live[d] \ {b} \subseteq live'[d] /\ chunks'[d].max_size = chunks[d].max_size
         /\ \A d \in Chunks \ {c} : live'[d] = live[d]
<1>1. chunks \in Seq(ChunkType) /\ live \in Seq(SUBSET Blocks) /\ Len(live) = Len(chunks) /\ c \in 1..Len(chunks)
      /\ b \in Blocks /\ chunks[c] \in ChunkType /\ Len(chunks) \in Nat
  BY DEF TallocrInv, Chunks
<1>2. 0 \in 0..b.size - 1
  BY <1>1 DEF Blocks
<1>3. TallocrInv'
  BY <1>2, FreeInv
<1> DEFINE F == Merge(chunks[c].free, Block(b.offset + 0, b.size - 0))
<1>4. chunks' = [chunks EXCEPT ![c].free = F]
  BY DEF FreeBytes
<1>5. live' = [live EXCEPT ![c] = live[c] \ {b}]
  BY DEF FreeBytes
<1> HIDE DEF F
<1>6. \A d \in 1..Len(chunks) : live[d] \ {b} \subseteq live'[d] /\ (d # c => live'[d] = live[d])
  BY <1>1, <1>5
<1>7. Len(chunks') = Len(chunks) /\ \A d \in 1..Len(chunks) : chunks'[d].max_size = chunks[d].max_size
  <2>1. chunks' = [chunks EXCEPT ![c] = [chunks[c] EXCEPT !.free = F]]
    BY <1>1, <1>4
  <2>2. [chunks[c] EXCEPT !.free = F] = [free |-> F, max_size |-> chunks[c].max_size]
    BY <1>1, ChunkFields
  <2> DEFINE k == [free |-> F, max_size |-> chunks[c].max_size]
  <2>3. k.max_size = chunks[c].max_size
    OBVIOUS
  <2>4. chunks' = [chunks EXCEPT ![c] = k]
    BY <2>1, <2>2
  <2> HIDE DEF k
  <2> QED
    BY <1>1, <2>3, <2>4
<1> QED
  BY <1>3, <1>6, <1>7 DEF Chunks

\* Blocks that are handed out are apart.
LEMMA LiveApart ==
  ASSUME TallocrInv, NEW c \in Chunks, NEW a \in live[c], NEW b \in live[c], a # b
  PROVE  a \in Blocks /\ b \in Blocks /\ (End(a) <= b.offset \/ End(b) <= a.offset)
BY DEF TallocrInv, Chunks, Sound, Disjoint

LEMMA LiveInChunk ==
  ASSUME TallocrInv, NEW c \in Chunks, NEW b \in live[c]
  PROVE  End(b) <= chunks[c].max_size
BY DEF TallocrInv, Chunks, Sound

------------------------------------------------------------------------------
(* The steps of the walk.                                                                                                 *)

LEMMA WalkTyping ==
  ASSUME GraphTyping, node \in Tensors(cgraph), NextStep, UNCHANGED <<cgraph, reserved, buffer, rounds>>, TallocrInv',
         addr' \in [Tensors(cgraph) -> [chunk : Nat, offset : Nat]],
         n_children' \in [Tensors(cgraph) -> Int], n_views' \in [Tensors(cgraph) -> Int]
  PROVE  GraphTyping' /\ Reserved' /\ AllFit' /\ node' # 0
<1>1. node \in Nat \ {0} /\ Len(cgraph) \in Nat /\ IsGraph(cgraph)
  BY AtNode
<1>2. /\ node' \in 1..Len(cgraph) + 1 /\ step' \in Nat
      /\ node' \in Tensors(cgraph) => step' \in 1..2 * Len(cgraph[node'].src) + 1
      /\ node' = Len(cgraph) + 1 => step' = 1
  BY WalkStep
<1>3. rounds # 0
  BY <1>1 DEF GraphTyping
<1>4. node' # 0 /\ node' \in 0..Len(cgraph') + 1
  BY <1>1, <1>2
<1>5. GraphTyping'
  BY <1>1, <1>2, <1>3, <1>4 DEF GraphTyping, Parents
<1> QED
  BY <1>4, <1>5 DEF Reserved, AllFit

\* Leafs come first.
LEMMA LeafsFirst ==
  ASSUME GraphTyping, node \in Tensors(cgraph), NextStep, cgraph' = cgraph, node \notin Leafs(cgraph)
  PROVE  node' \notin Leafs(cgraph)
<1>1. node \in Nat /\ IsGraph(cgraph)
  BY AtNode
<1> SUFFICES ASSUME node' \in Leafs(cgraph) PROVE FALSE
  OBVIOUS
<1>2. node' \in Tensors(cgraph) /\ cgraph[node'].op = "leaf" /\ node' = node + 1
  BY WalkStep DEF Leafs
<1>3. node \in 1..node' - 1
  BY <1>1, <1>2 DEF Tensors
<1>4. cgraph[node].op = "leaf"
  BY <1>1, <1>2, <1>3 DEF IsGraph
<1> QED
  BY <1>4 DEF Leafs

LEMMA CountsStay ==
  ASSUME GraphTyping, Counts, node \in Tensors(cgraph), NextStep, cgraph' = cgraph, step <= Parents + 1,
         UNCHANGED <<n_children, n_views>>
  PROVE  Counts'
<1>1. \A p \in AllReads(cgraph) : Pending(p)' <=> Pending(p)
  BY PendingStays
<1>2. \A s : ToCome(s)' = ToCome(s)
  BY <1>1 DEF ToCome
<1>3. \A s : OpenViews(s)' = OpenViews(s)
  BY <1>2 DEF OpenViews
<1>4. node # 0
  BY AtNode
<1> QED
  BY <1>2, <1>3, <1>4 DEF Counts

\* Until the node is allocated, the parents it reads, and all that later nodes read, are there.
LEMMA StillOwned ==
  ASSUME GraphTyping, KeptWhileRead, node \in Tensors(cgraph), step <= Parents + 1,
         NEW s \in Placed \ allocated, NEW p \in AllReads(cgraph), Root(cgraph, Source(cgraph, p)) = s
  PROVE  p[1] \in Nat /\ p[1] < node
<1>1. node \in Nat \ {0} /\ step \in Nat /\ Parents \in Nat /\ IsGraph(cgraph)
  BY AtNode
<1>2. p[1] \in Nat /\ p[2] \in Nat
  BY <1>1, ReadFacts
<1>3. ~Pending(p)
  BY <1>1 DEF KeptWhileRead
<1> QED
  BY <1>1, <1>2, <1>3 DEF Pending

LEMMA RootFacts ==
  ASSUME NEW g, IsGraph(g), NEW t \in Tensors(g)
  PROVE  Root(g, t) \in Tensors(g) /\ Root(g, t) \in Nat /\ Root(g, t) <= t /\ g[Root(g, t)].view = 0
         /\ (g[t].view # 0 => Root(g, t) < t)
<1>1. t \in Nat /\ Len(g) \in Nat /\ 1 <= t /\ t <= Len(g)
  BY GraphFacts DEF Tensors
<1>2. CASE g[t].view # 0
  <2>1. g[t].view \in 1..t - 1 /\ g[g[t].view].view = 0
    BY <1>2, GraphFacts
  <2> QED
    BY <1>1, <1>2, <2>1 DEF Root, Tensors
<1>3. CASE g[t].view = 0
  BY <1>1, <1>3 DEF Root
<1> QED
  BY <1>2, <1>3

\* Who has no place yet is the node itself.
LEMMA ParentsHavePlaces ==
  ASSUME GraphTyping, KeptWhileRead, NEW t, Allocates(t)
  PROVE  /\ node \in Tensors(cgraph) /\ step <= Parents + 1
         /\ ~HasPlace(t) => t = node /\ step = Parents + 1 /\ Own(cgraph, node)
<1>1. /\ node \in Nat \ {0} /\ step \in Nat \ {0} /\ Parents \in Nat /\ IsGraph(cgraph) /\ node \in Tensors(cgraph)
      /\ Parents = Len(cgraph[node].src)
  BY AtNode DEF Allocates
<1>2. CASE step <= Parents /\ t = cgraph[node].src[step]
  <2> DEFINE p == <<node, step>>
  <2>1. p \in AllReads(cgraph) /\ Source(cgraph, p) = t
    BY <1>1, <1>2, ReadIs
  <2>2. t \in Tensors(cgraph) /\ t \in Nat /\ t < node
    BY <1>1, <2>1, ReadFacts
  <2>3. CASE ~Own(cgraph, t)
    BY <1>1, <1>2, <2>3 DEF HasPlace
  <2>4. CASE Own(cgraph, t)
    <3>1. t \in Placed
      BY <1>1, <2>2, <2>4 DEF Placed, PlanOwners, Plan
    <3>2. Root(cgraph, Source(cgraph, p)) = t
      BY <2>1, <2>4 DEF Root, Own
    <3>3. t \in allocated
      BY <1>1, <1>2, <2>1, <3>1, <3>2, StillOwned
    <3> QED
      BY <1>1, <1>2, <3>3 DEF HasPlace
  <2> QED
    BY <2>3, <2>4
<1>3. CASE step = Parents + 1 /\ t = node
  BY <1>1, <1>3 DEF HasPlace
<1> QED
  BY <1>1, <1>2, <1>3 DEF Allocates

\* What was placed stays where it is in a step that places nothing.
LEMMA NothingPlaced ==
  ASSUME PlacesApart, InChunk, Placed' = Placed, Plan' = Plan, UNCHANGED addr,
         \A d \in Chunks : d \in Chunks' /\ chunks'[d].max_size = chunks[d].max_size
  PROVE  PlacesApart' /\ InChunk'
<1>1. \A u : PlanPlace(u)' = PlanPlace(u)
  BY DEF PlanPlace
<1>2. \A u, s : (TookOver(u, s)' <=> TookOver(u, s)) /\ (Overlap(u, s)' <=> Overlap(u, s))
  BY <1>1 DEF TookOver, Overlap, End
<1>3. PlacesApart'
  BY <1>2 DEF PlacesApart
<1>4. InChunk'
  BY <1>1 DEF InChunk, End
<1> QED
  BY <1>3, <1>4

LEMMA NothingStep ==
  ASSUME GraphInv, NEW t \in Tensors(cgraph), AllocateNothing(t)
  PROVE  GraphInv'
<1>1. /\ GraphTyping /\ Counts /\ OwnBlocks /\ KeptWhileRead /\ PlacesApart /\ InChunk /\ Allocates(t) /\ HasPlace(t) /\ NextStep
      /\ UNCHANGED <<tallocrVars, cgraph, n_children, n_views, allocated, addr, reserved, buffer, rounds>>
  BY DEF GraphInv, AllocateNothing
<1>2. /\ node \in Nat \ {0} /\ step \in Nat /\ Parents \in Nat /\ IsGraph(cgraph) /\ node \in Tensors(cgraph) /\ step <= Parents + 1
  <2>1. node \in Tensors(cgraph) /\ step <= Parents + 1
    BY <1>1, ParentsHavePlaces
  <2> QED
    BY <1>1, <2>1, AtNode
<1>3. TallocrInv'
  BY <1>1 DEF GraphTyping, TallocrInv, tallocrVars
<1>4. GraphTyping' /\ Reserved' /\ AllFit' /\ node' # 0
  <2>1. addr \in [Tensors(cgraph) -> [chunk : Nat, offset : Nat]] /\ n_children \in [Tensors(cgraph) -> Int]
        /\ n_views \in [Tensors(cgraph) -> Int]
    BY <1>1 DEF GraphTyping
  <2> QED
    BY <1>1, <1>2, <1>3, <2>1, WalkTyping
<1>5. Counts'
  BY <1>1, <1>2, CountsStay
<1>6. allocated \subseteq Placed
  BY <1>1, <1>2 DEF OwnBlocks
<1>7. Placed' = Placed
  <2>1. step = Parents + 1 => t = node
    BY <1>1, <1>2 DEF Allocates
  <2>2. step = Parents + 1 => ~Own(cgraph, node)
    <3> SUFFICES ASSUME step = Parents + 1, Own(cgraph, node) PROVE FALSE
      OBVIOUS
    <3>1. node \in allocated
      BY <1>1, <2>1 DEF HasPlace
    <3>2. node \notin Placed
      BY <1>1, <1>2, PlacedMore
    <3> QED
      BY <1>6, <3>1, <3>2
  <2> QED
    BY <1>1, <1>2, <2>2, PlacedMore
<1>8. OwnBlocks'
  BY <1>1, <1>2, <1>7 DEF OwnBlocks, Place, Chunks, tallocrVars
<1>9. KeptWhileRead'
  <2>1. \A p \in AllReads(cgraph) : Pending(p)' <=> Pending(p)
    BY <1>1, <1>2, PendingStays
  <2>2. node \in Nat /\ node' \in Nat /\ node <= node' /\ \A u \in Tensors(cgraph) : u \in Nat
    <3>1. Len(cgraph) \in Nat /\ \A u \in Tensors(cgraph) : u \in Nat
      BY <1>2, GraphFacts
    <3>2. node' \in 1..Len(cgraph) + 1 /\ (node' = node \/ node' = node + 1)
      BY <1>1, <1>2, WalkStep
    <3> QED
      BY <1>2, <3>1, <3>2
  <2>3. node \notin Leafs(cgraph) => node' \notin Leafs(cgraph)
    BY <1>1, <1>2, LeafsFirst
  <2> SUFFICES ASSUME NEW s \in Placed \ allocated
               PROVE  /\ ~cgraph[s].output /\ node' \notin Leafs(cgraph)
                      /\ \A u \in ViewsOf(cgraph, s) : u < node' /\ IsRead(cgraph, u)
                      /\ \A p \in AllReads(cgraph) : ~(Pending(p)' /\ Root(cgraph, Source(cgraph, p)) = s)
    BY <1>1, <1>7 DEF KeptWhileRead
  <2>4. /\ ~cgraph[s].output /\ node \notin Leafs(cgraph)
        /\ \A u \in ViewsOf(cgraph, s) : u < node /\ IsRead(cgraph, u)
        /\ \A p \in AllReads(cgraph) : Pending(p) /\ Root(cgraph, Source(cgraph, p)) = s => step > Parents + 1
    BY <1>1, <1>2 DEF KeptWhileRead
  <2>5. \A u \in ViewsOf(cgraph, s) : u < node'
    BY <2>2, <2>4 DEF ViewsOf
  <2> QED
    BY <1>2, <2>1, <2>3, <2>4, <2>5
<1>10. Plan' = Plan
  BY <1>1, <1>2, PlacedMore
<1>11. PlacesApart' /\ InChunk'
  BY <1>1, <1>2, <1>4, <1>7, <1>10, NothingPlaced DEF Chunks, tallocrVars
<1> QED
  BY <1>4, <1>5, <1>8, <1>9, <1>11 DEF GraphInv

\* The sizes of what owns a place.
LEMMA OwnerFacts ==
  ASSUME GraphTyping, NEW t \in Owners
  PROVE  /\ t \in Tensors(cgraph) /\ cgraph[t].size \in Sizes /\ cgraph[t].size \in Nat \ {0}
         /\ addr[t] \in [chunk : Nat, offset : Nat] /\ addr[t].offset \in Nat /\ addr[t].chunk \in Nat
         /\ Place(t).offset = addr[t].offset /\ Place(t).size = cgraph[t].size /\ End(Place(t)) = addr[t].offset + cgraph[t].size
<1>1. IsGraph(cgraph) /\ t \in Tensors(cgraph) /\ Own(cgraph, t)
  BY DEF GraphTyping, Owners
<1>2. cgraph[t].size \in Sizes
  BY <1>1, GraphFacts
<1>3. addr[t] \in [chunk : Nat, offset : Nat]
  BY <1>1 DEF GraphTyping
<1>4. cgraph[t].size \in Nat \ {0}
  <2>1. \A x \in Sizes : x \in Nat \ {0}
    BY SizesAssumption, TallocrAssumption
  <2> QED
    BY <1>2, <2>1
<1>5. addr[t].offset \in Nat /\ addr[t].chunk \in Nat
  BY <1>3
<1> QED
  BY <1>1, <1>2, <1>3, <1>4, <1>5, BlockFacts DEF Place

\* The node's own place, apart from every place that is still owned, breaks nothing.
LEMMA NodePlaced ==
  ASSUME GraphTyping, KeptWhileRead, PlacesApart, InChunk, NEW n \in Tensors(cgraph), n = node,
         step = Parents + 1, Own(cgraph, n), NextStep, cgraph' = cgraph, NEW a \in [chunk : Nat, offset : Nat], addr' = [addr EXCEPT ![n] = a],
         a.chunk \in Chunks', a.offset + cgraph[n].size <= chunks'[a.chunk].max_size,
         \A d \in Chunks : d \in Chunks' /\ chunks[d].max_size \in Nat /\ chunks'[d].max_size \in Nat
                           /\ chunks[d].max_size <= chunks'[d].max_size,
         \A s \in Placed \cap allocated : s # n /\ Overlap(s, n)' =>
            /\ n \notin Leafs(cgraph) /\ ~cgraph[s].output /\ TookOver(n, s)'
            /\ \A u \in ViewsOf(cgraph, s) : u < n /\ IsRead(cgraph, u)
            /\ \A p \in AllReads(cgraph) : Root(cgraph, Source(cgraph, p)) = s => p[1] <= n
  PROVE  PlacesApart' /\ InChunk'
<1>1. n \in Nat \ {0} /\ node \in Tensors(cgraph) /\ step \in Nat /\ Parents \in Nat /\ IsGraph(cgraph)
  BY AtNode
<1>2. node' # 0 /\ Placed' = Placed \cup {n} /\ n \notin Placed
      /\ \A t \in Placed : t \in Tensors(cgraph) /\ t \in Nat /\ t < n /\ t \in Owners
  BY <1>1, PlacedMore
<1>3. Plan = cgraph /\ Plan' = cgraph
  BY <1>1, PlacedMore
<1>4. addr \in [Tensors(cgraph) -> [chunk : Nat, offset : Nat]]
  BY DEF GraphTyping
<1>5. addr'[n] = a /\ \A t \in Placed : addr'[t] = addr[t]
  BY <1>2, <1>4
<1>8. \A t \in Placed : PlanPlace(t)' = PlanPlace(t) /\ PlanPlace(t) = Place(t)
  BY <1>3, <1>5 DEF PlanPlace, Place
<1>9. PlanPlace(n)' = Block(a.offset, cgraph[n].size)
  BY <1>3, <1>5 DEF PlanPlace
<1>10. InChunk'
  <2> SUFFICES ASSUME NEW t \in Placed'
               PROVE  addr'[t].chunk \in Chunks' /\ End(PlanPlace(t)') <= chunks'[addr'[t].chunk].max_size
    BY DEF InChunk, End
  <2>1. CASE t = n
    BY <1>5, <1>9, <2>1 DEF End, Block
  <2>2. CASE t \in Placed
    <3>1. addr[t].chunk \in Chunks /\ End(PlanPlace(t)) <= chunks[addr[t].chunk].max_size
      BY <2>2 DEF InChunk
    <3>2. End(PlanPlace(t)) \in Nat
      BY <1>2, <1>8, <2>2, OwnerFacts
    <3> QED
      BY <1>5, <1>8, <2>2, <3>1, <3>2
  <2> QED
    BY <1>2, <2>1, <2>2
<1>11. PlacesApart'
  <2> SUFFICES ASSUME NEW s \in Placed', NEW t \in Placed', s # t, Written(cgraph, s) <= Written(cgraph, t), Overlap(t, s)'
               PROVE  /\ ~cgraph[s].output
                      /\ \A u \in ViewsOf(cgraph, s) : u < Written(cgraph, t) /\ IsRead(cgraph, u)
                      /\ \A p \in AllReads(cgraph) :
                           Root(cgraph, Source(cgraph, p)) = s /\ Written(cgraph, t) <= p[1] => t = p[1] /\ TookOver(t, s)'
    BY <1>3 DEF PlacesApart
  <2>1. CASE s \in Placed /\ t \in Placed
    <3>1. Overlap(t, s)
      BY <1>5, <1>8, <2>1 DEF Overlap, End
    <3>2. TookOver(t, s)' <=> TookOver(t, s)
      BY <1>3, <1>5, <2>1 DEF TookOver
    <3> QED
      BY <1>3, <2>1, <3>1, <3>2 DEF PlacesApart
  <2>2. CASE s \in Placed /\ t = n
    <3>1. CASE s \in allocated
      <4>1. Overlap(s, n)'
        <5>1. addr'[t].chunk = addr'[s].chunk
              /\ ~(End(PlanPlace(t))' <= addr'[s].offset \/ End(PlanPlace(s))' <= addr'[t].offset)
          BY DEF Overlap
        <5> QED
          BY <2>2, <5>1 DEF Overlap
      <4>2. /\ n \notin Leafs(cgraph) /\ ~cgraph[s].output /\ TookOver(n, s)'
            /\ \A u \in ViewsOf(cgraph, s) : u < n /\ IsRead(cgraph, u)
            /\ \A p \in AllReads(cgraph) : Root(cgraph, Source(cgraph, p)) = s => p[1] <= n
        BY <2>2, <3>1, <4>1
      <4>3. Written(cgraph, t) = n
        BY <2>2, <4>2 DEF Written
      <4>4. \A p \in AllReads(cgraph) : p[1] \in Nat
        BY <1>1, ReadFacts
      <4> QED
        <5> SUFFICES ASSUME NEW p \in AllReads(cgraph), Root(cgraph, Source(cgraph, p)) = s, Written(cgraph, t) <= p[1]
                     PROVE  p[1] = t
          BY <2>2, <4>2, <4>3
        <5>1. p[1] <= n /\ n <= p[1]
          BY <2>2, <4>2, <4>3
        <5> QED
          BY <1>1, <2>2, <4>4, <5>1
    <3>2. CASE s \notin allocated
      <4>1. ~cgraph[s].output /\ n \notin Leafs(cgraph) /\ \A u \in ViewsOf(cgraph, s) : u < n /\ IsRead(cgraph, u)
        BY <1>1, <2>2, <3>2 DEF KeptWhileRead
      <4>2. Written(cgraph, t) = n
        BY <2>2, <4>1 DEF Written
      <4>3. \A p \in AllReads(cgraph) : Root(cgraph, Source(cgraph, p)) = s => p[1] \in Nat /\ p[1] < n
        BY <1>1, <2>2, <3>2, StillOwned
      <4> QED
        BY <1>1, <4>1, <4>2, <4>3
    <3> QED
      BY <3>1, <3>2
  <2>3. CASE s = n /\ t \in Placed
    <3>1. n \in Leafs(cgraph)
      BY <1>1, <1>2, <2>3 DEF Written
    <3>2. t \in allocated
      BY <1>1, <2>3, <3>1 DEF KeptWhileRead
    <3> QED
      <4>1. Overlap(t, n)' /\ t \in Placed \cap allocated /\ t # n
        BY <2>3, <3>2
      <4> QED
        BY <3>1, <4>1
  <2> QED
    BY <1>2, <2>1, <2>2, <2>3
<1> QED
  BY <1>10, <1>11

\* What AllocateNode and AllocateInplace have in common.
LEMMA PlacingStep ==
  ASSUME GraphInv, NEW n \in Tensors(cgraph), n = node, step = Parents + 1, Own(cgraph, n), NextStep,
         UNCHANGED <<cgraph, n_children, n_views, reserved, buffer, rounds>>, TallocrInv',
         NEW a \in [chunk : Nat, offset : Nat], addr' = [addr EXCEPT ![n] = a]
  PROVE  /\ n \in Nat \ {0} /\ IsGraph(cgraph) /\ node \in Tensors(cgraph) /\ n \notin Placed /\ Placed' = Placed \cup {n} /\ n \in Owners
         /\ \A t \in Placed : t \in Owners /\ t \in Tensors(cgraph) /\ t # n
         /\ GraphTyping' /\ Reserved' /\ AllFit' /\ Counts' /\ node' # 0
         /\ allocated \subseteq Placed
         /\ \A t \in Placed : addr'[t] = addr[t] /\ Place(t)' = Place(t)
         /\ addr'[n] = a /\ Place(n)' = Block(a.offset, cgraph[n].size)
         /\ \A p \in AllReads(cgraph) : Pending(p)' <=> Pending(p)
         /\ Plan = cgraph /\ Plan' = cgraph /\ node' \in Nat /\ node <= node'
<1>1. GraphTyping /\ Counts /\ OwnBlocks /\ KeptWhileRead
  BY DEF GraphInv
<1>2. n \in Nat \ {0} /\ node \in Tensors(cgraph) /\ step \in Nat /\ Parents \in Nat /\ IsGraph(cgraph)
  BY <1>1, AtNode
<1>3. Placed' = Placed \cup {n} /\ n \notin Placed /\ \A t \in Placed : t \in Tensors(cgraph) /\ t \in Owners /\ t # n
  BY <1>1, <1>2, PlacedMore
<1>4. addr \in [Tensors(cgraph) -> [chunk : Nat, offset : Nat]] /\ n_children \in [Tensors(cgraph) -> Int]
      /\ n_views \in [Tensors(cgraph) -> Int]
  BY <1>1 DEF GraphTyping
<1>5. addr' \in [Tensors(cgraph) -> [chunk : Nat, offset : Nat]] /\ addr'[n] = a /\ \A t \in Placed : addr'[t] = addr[t]
  BY <1>3, <1>4
<1>6. GraphTyping' /\ Reserved' /\ AllFit' /\ node' # 0
  BY <1>1, <1>2, <1>4, <1>5, WalkTyping
<1>7. Counts'
  BY <1>1, <1>2, CountsStay
<1>8. Place(n)' = Block(a.offset, cgraph[n].size) /\ \A t \in Placed : Place(t)' = Place(t)
  BY <1>5 DEF Place
<1>9. \A p \in AllReads(cgraph) : Pending(p)' <=> Pending(p)
  BY <1>1, <1>2, PendingStays
<1>10. Plan = cgraph /\ Plan' = cgraph /\ node' \in Nat /\ node <= node'
  BY <1>1, <1>2, PlacedMore, WalkStep
<1>11. allocated \subseteq Placed
  BY <1>1, <1>2 DEF OwnBlocks
<1> QED
  BY <1>2, <1>3, <1>5, <1>6, <1>7, <1>8, <1>9, <1>10, <1>11 DEF Owners

LEMMA MaxSizes ==
  ASSUME TallocrInv
  PROVE  \A d \in Chunks : chunks[d].max_size \in Nat
BY DEF TallocrInv, Chunks, Sound

LEMMA AllocateStep ==
  ASSUME GraphInv, NEW n \in Tensors(cgraph), AllocateNode(n)
  PROVE  GraphInv'
<1>1. /\ GraphTyping /\ OwnBlocks /\ KeptWhileRead /\ PlacesApart /\ InChunk /\ Allocates(n) /\ ~HasPlace(n) /\ NextStep
      /\ UNCHANGED <<cgraph, n_children, n_views, reserved, buffer, rounds>>
      /\ allocated' = allocated \cup {n}
      /\ TallocrInv
  BY DEF GraphInv, AllocateNode, GraphTyping
<1>2. n = node /\ step = Parents + 1 /\ Own(cgraph, n) /\ node \in Tensors(cgraph) /\ step <= Parents + 1
  BY <1>1, ParentsHavePlaces
<1>3. cgraph[n].size \in Sizes
  BY <1>1, <1>2, OwnerFacts DEF Owners
<1>4. PICK c \in 1..Len(chunks) + 1 : \E offset \in Offsets(c) :
        Alloc(cgraph[n].size, c, offset) /\ addr' = [addr EXCEPT ![n] = [chunk |-> c, offset |-> offset]]
  BY DEF AllocateNode
<1>5. PICK offset \in Offsets(c) : Alloc(cgraph[n].size, c, offset) /\ addr' = [addr EXCEPT ![n] = [chunk |-> c, offset |-> offset]]
  BY <1>4
<1> DEFINE a == [chunk |-> c, offset |-> offset]
           size == cgraph[n].size
<1>6. /\ TallocrInv' /\ offset \in Nat /\ size \in Nat \ {0} /\ c \in Chunks' /\ Len(chunks) \in Nat
      /\ Block(offset, size) \in live'[c] /\ offset + size <= chunks'[c].max_size
      /\ c \in Chunks => \A x \in live[c] : End(x) <= offset \/ offset + size <= x.offset
      /\ \A d \in Chunks : d \in Chunks' /\ live[d] \subseteq live'[d] /\ chunks[d].max_size <= chunks'[d].max_size
  BY <1>1, <1>3, <1>5, AllocGives
<1>7. a \in [chunk : Nat, offset : Nat] /\ a.chunk = c /\ a.offset = offset
  BY <1>4, <1>6
<1> HIDE DEF a
<1>8. /\ n \in Nat \ {0} /\ IsGraph(cgraph) /\ n \notin Placed /\ Placed' = Placed \cup {n} /\ n \in Owners
      /\ \A t \in Placed : t \in Owners /\ t \in Tensors(cgraph) /\ t # n
      /\ GraphTyping' /\ Reserved' /\ AllFit' /\ Counts' /\ node' # 0
      /\ allocated \subseteq Placed
      /\ \A t \in Placed : addr'[t] = addr[t] /\ Place(t)' = Place(t)
      /\ addr'[n] = a /\ Place(n)' = Block(offset, size)
      /\ \A p \in AllReads(cgraph) : Pending(p)' <=> Pending(p)
      /\ Plan = cgraph /\ Plan' = cgraph /\ node' \in Nat /\ node <= node'
  <2>1. addr' = [addr EXCEPT ![n] = a]
    BY <1>5 DEF a
  <2> QED
    BY <1>1, <1>2, <1>6, <1>7, <2>1, PlacingStep
<1>9. \A t \in allocated : addr[t].chunk \in Chunks /\ Place(t) \in live[addr[t].chunk]
  BY <1>1, <1>2, <1>8 DEF OwnBlocks
<1>10. ASSUME NEW t \in allocated, addr[t].chunk = c
       PROVE  addr[t].offset + cgraph[t].size <= offset \/ offset + size <= addr[t].offset
  <2>1. t \in Owners
    BY <1>8
  <2>2. End(Place(t)) = addr[t].offset + cgraph[t].size /\ Place(t).offset = addr[t].offset
    BY <1>1, <2>1, OwnerFacts
  <2>3. c \in Chunks /\ Place(t) \in live[c]
    BY <1>9, <1>10
  <2> QED
    BY <1>6, <2>2, <2>3
<1>11. OwnBlocks'
  <2>1. \A t \in allocated' : addr'[t].chunk \in Chunks' /\ Place(t)' \in live'[addr'[t].chunk]
    <3>1. \A t \in allocated : addr'[t].chunk \in Chunks' /\ Place(t)' \in live'[addr'[t].chunk]
      BY <1>6, <1>8, <1>9
    <3>2. addr'[n].chunk \in Chunks' /\ Place(n)' \in live'[addr'[n].chunk]
      BY <1>6, <1>7, <1>8
    <3> QED
      BY <1>1, <3>1, <3>2
  <2>2. \A t \in allocated : addr[t] # a
    <3> SUFFICES ASSUME NEW t \in allocated, addr[t] = a PROVE FALSE
      OBVIOUS
    <3>1. addr[t].offset = offset /\ addr[t].chunk = c
      BY <1>7
    <3>2. t \in Owners
      BY <1>8
    <3>3. cgraph[t].size \in Nat \ {0}
      BY <1>1, <3>2, OwnerFacts
    <3>4. offset + cgraph[t].size <= offset \/ offset + size <= offset
      BY <1>10, <3>1
    <3> QED
      BY <1>6, <3>3, <3>4
  <2>3. \A t, u \in allocated' : addr'[t] = addr'[u] => t = u
    <3>1. \A t, u \in allocated : addr[t] = addr[u] => t = u
      BY <1>1, <1>2, <1>8 DEF OwnBlocks
    <3> QED
      BY <1>1, <1>8, <2>2, <3>1
  <2>4. allocated' \subseteq Placed'
    BY <1>1, <1>8
  <2> QED
    BY <2>1, <2>3, <2>4 DEF OwnBlocks
<1>12. KeptWhileRead'
  <2> SUFFICES ASSUME NEW s \in Placed' \ allocated'
               PROVE  /\ ~cgraph[s].output /\ node' \notin Leafs(cgraph)
                      /\ \A u \in ViewsOf(cgraph, s) : u < node' /\ IsRead(cgraph, u)
                      /\ \A p \in AllReads(cgraph) : ~(Pending(p)' /\ Root(cgraph, Source(cgraph, p)) = s)
    BY <1>1, <1>8 DEF KeptWhileRead
  <2>1. s \in Placed \ allocated
    BY <1>1, <1>8
  <2>2. /\ ~cgraph[s].output /\ node \notin Leafs(cgraph)
        /\ \A u \in ViewsOf(cgraph, s) : u < node /\ IsRead(cgraph, u)
        /\ \A p \in AllReads(cgraph) : Pending(p) /\ Root(cgraph, Source(cgraph, p)) = s => step > Parents + 1
    BY <1>1, <1>2, <1>8, <2>1 DEF KeptWhileRead
  <2>3. node' \notin Leafs(cgraph)
    BY <1>1, <1>2, <2>2, LeafsFirst
  <2>4. ~(step > Parents + 1)
    BY <1>1, <1>2, AtNode
  <2>5. \A u \in ViewsOf(cgraph, s) : u \in Nat
    BY <1>8, GraphFacts DEF ViewsOf
  <2>6. \A u \in ViewsOf(cgraph, s) : u < node' /\ IsRead(cgraph, u)
    BY <1>2, <1>8, <2>2, <2>5
  <2>7. ASSUME NEW p \in AllReads(cgraph), Pending(p)', Root(cgraph, Source(cgraph, p)) = s PROVE FALSE
    <3>1. Pending(p)
      BY <1>8, <2>7
    <3> QED
      BY <2>2, <2>4, <2>7, <3>1
  <2> QED
    BY <2>2, <2>3, <2>6, <2>7
<1>13. PlacesApart' /\ InChunk'
  <2>1. \A d \in Chunks : d \in Chunks' /\ chunks[d].max_size \in Nat /\ chunks'[d].max_size \in Nat
                          /\ chunks[d].max_size <= chunks'[d].max_size
    <3>1. \A d \in Chunks : chunks[d].max_size \in Nat
      BY <1>1, MaxSizes
    <3>2. \A d \in Chunks' : chunks'[d].max_size \in Nat
      BY <1>6 DEF TallocrInv, Chunks, Sound
    <3> QED
      BY <1>6, <3>1, <3>2
  <2>2. ASSUME NEW s \in Placed \cap allocated, s # n, Overlap(s, n)' PROVE FALSE
    <3>1. Plan' = cgraph
      BY <1>8
    <3>2. PlanPlace(s)' = Place(s) /\ PlanPlace(n)' = Block(offset, size)
      <4>1. PlanPlace(s)' = Place(s)' /\ PlanPlace(n)' = Place(n)'
        BY <1>1, <3>1 DEF PlanPlace, Place
      <4> QED
        BY <1>8, <2>2, <4>1
    <3>3. End(PlanPlace(n))' = offset + size
      BY <3>2 DEF End, Block
    <3>4. s \in Owners
      BY <1>8, <2>2
    <3>5. End(PlanPlace(s))' = addr[s].offset + cgraph[s].size
      BY <1>1, <3>2, <3>4, OwnerFacts DEF End
    <3>6. addr'[s] = addr[s] /\ addr'[n] = a
      BY <1>8, <2>2
    <3> QED
      BY <1>7, <1>10, <2>2, <3>3, <3>5, <3>6 DEF Overlap
  <2>3. addr' = [addr EXCEPT ![n] = a] /\ a.chunk \in Chunks' /\ a.offset + cgraph[n].size <= chunks'[a.chunk].max_size
    BY <1>5, <1>6, <1>7 DEF a
  <2> QED
    BY <1>1, <1>2, <1>7, <2>1, <2>2, <2>3, NodePlaced
<1> QED
  BY <1>8, <1>11, <1>12, <1>13 DEF GraphInv

LEMMA OneRead ==
  ASSUME NEW R, NEW q \in R, IsFiniteSet(R), Cardinality(R) = 1
  PROVE  R = {q}
<1> SUFFICES ASSUME NEW x \in R, x # q PROVE FALSE
  OBVIOUS
<1>1. IsFiniteSet(R \ {q}) /\ Cardinality(R \ {q}) = 0
  BY FS_RemoveElement
<1>2. R \ {q} = {}
  BY <1>1, FS_EmptySet
<1> QED
  BY <1>2

\* Nobody reads s or a view of it any more, but for what is set apart.
LEMMA NoReads ==
  ASSUME IsGraph(cgraph), NEW s \in Owners, NEW Q, ToCome(s) \subseteq Q, OpenViews(s) = {},
         NEW p \in AllReads(cgraph), Pending(p), Root(cgraph, Source(cgraph, p)) = s
  PROVE  p \in Q
<1> DEFINE u == Source(cgraph, p)
<1>1. u \in Tensors(cgraph)
  BY ReadFacts
<1>2. CASE IsView(u)
  <2>1. cgraph[u].view = s
    BY <1>2 DEF Root, IsView
  <2>2. p \in ToCome(u) /\ cgraph[u].op # "dependency"
    BY ReadFacts DEF ToCome
  <2>3. u \in OpenViews(s)
    BY <1>1, <2>1, <2>2 DEF OpenViews, ViewsOf
  <2> QED
    BY <2>3
<1>3. CASE ~IsView(u)
  BY <1>3 DEF Root, ToCome, IsView
<1> QED
  BY <1>2, <1>3

\* The views of s are past, and all of them are read.
LEMMA ViewsPast ==
  ASSUME IsGraph(cgraph), node \in Nat, NEW s, OpenViews(s) = {}, NEW u \in ViewsOf(cgraph, s)
  PROVE  /\ u \in Nat /\ IsRead(cgraph, u) /\ u < node
         /\ \E p \in AllReads(cgraph) : ~Pending(p) /\ u < p[1]
<1>1. u \in Tensors(cgraph) /\ ToCome(u) = {} /\ IsRead(cgraph, u)
  BY DEF OpenViews, ViewsOf
<1>2. PICK p \in AllReads(cgraph) : Source(cgraph, p) = u
  BY <1>1 DEF IsRead
<1>3. ~Pending(p)
  BY <1>1, <1>2 DEF ToCome
<1>4. p[1] \in Nat /\ u \in Nat /\ u < p[1]
  BY <1>2, ReadFacts
<1>5. ~(node < p[1])
  BY <1>3 DEF Pending
<1> QED
  BY <1>1, <1>3, <1>4, <1>5

LEMMA InplaceStep ==
  ASSUME GraphInv, NEW n \in Tensors(cgraph), AllocateInplace(n)
  PROVE  GraphInv'
<1>1. /\ GraphTyping /\ OwnBlocks /\ KeptWhileRead /\ PlacesApart /\ InChunk /\ Counts /\ Allocates(n) /\ ~HasPlace(n) /\ NextStep
      /\ UNCHANGED <<chunks, live>> /\ UNCHANGED <<cgraph, n_children, n_views, reserved, buffer, rounds>>
      /\ TallocrInv
  BY DEF GraphInv, AllocateInplace, GraphTyping, tallocrVars
<1>2. n = node /\ step = Parents + 1 /\ Own(cgraph, n) /\ node \in Tensors(cgraph) /\ step <= Parents + 1
  BY <1>1, ParentsHavePlaces
<1>3. PICK i \in 1..Len(cgraph[n].src) :
        LET s == cgraph[n].src[i] IN
          /\ Reusable(n, s)
          /\ addr' = [addr EXCEPT ![n] = addr[s]]
          /\ allocated' = (allocated \cup {n}) \ {s}
  BY DEF AllocateInplace
<1> DEFINE r == cgraph[n].src[i]
           a == addr[r]
           q == <<n, i>>
<1>4. /\ Reusable(n, r) /\ addr' = [addr EXCEPT ![n] = a] /\ allocated' = (allocated \cup {n}) \ {r}
  BY <1>3
<1>5. /\ r \in allocated /\ ~cgraph[r].output /\ cgraph[n].size = cgraph[r].size /\ n_children[r] = 1 /\ n_views[r] = 0
      /\ cgraph[n].op = "inplace"
  BY <1>4 DEF Reusable, SameLayout
<1>6. /\ n \in Nat \ {0} /\ node # 0 /\ IsGraph(cgraph) /\ step \in Nat /\ Parents \in Nat /\ Parents = Len(cgraph[n].src)
  BY <1>1, <1>2, AtNode
<1>7. /\ q \in AllReads(cgraph) /\ Source(cgraph, q) = r /\ r \in Tensors(cgraph) /\ r < n /\ r \in Nat /\ r # n
  <2>1. q \in AllReads(cgraph) /\ Source(cgraph, q) = r
    BY <1>3, <1>6, ReadIs
  <2> QED
    BY <1>6, <2>1, ReadFacts
<1>8. r \in Placed /\ r \in Owners /\ allocated \subseteq Placed
  BY <1>1, <1>2, <1>5, <1>6, PlacedMore DEF OwnBlocks
<1>9. a \in [chunk : Nat, offset : Nat] /\ a.chunk \in Chunks /\ Place(r) \in live[a.chunk]
  BY <1>1, <1>5, <1>6, <1>8, OwnerFacts DEF OwnBlocks
<1> HIDE DEF a
<1>10. /\ n \notin Placed /\ Placed' = Placed \cup {n} /\ n \in Owners
       /\ \A t \in Placed : t \in Owners /\ t \in Tensors(cgraph) /\ t # n
       /\ GraphTyping' /\ Reserved' /\ AllFit' /\ Counts' /\ node' # 0
       /\ \A t \in Placed : addr'[t] = addr[t] /\ Place(t)' = Place(t)
       /\ addr'[n] = a /\ Place(n)' = Block(a.offset, cgraph[n].size)
       /\ \A p \in AllReads(cgraph) : Pending(p)' <=> Pending(p)
       /\ Plan = cgraph /\ Plan' = cgraph /\ node' \in Nat /\ node <= node'
  <2>1. TallocrInv'
    BY <1>1 DEF TallocrInv
  <2>2. addr' = [addr EXCEPT ![n] = a]
    BY <1>4
  <2> QED
    BY <1>1, <1>2, <1>9, <2>1, <2>2, PlacingStep
<1>11. Place(n)' = Place(r)
  BY <1>5, <1>10 DEF Place, a
\* The node is the last to read its parent.
<1>12. ToCome(r) \subseteq {q} /\ OpenViews(r) = {}
  <2>1. Cardinality(ToCome(r)) = 1 /\ Cardinality(OpenViews(r)) = 0
    BY <1>1, <1>5, <1>6, <1>7 DEF Counts
  <2>2. IsFiniteSet(ToCome(r)) /\ IsFiniteSet(OpenViews(r))
    <3>1. ToCome(r) \subseteq AllReads(cgraph) /\ OpenViews(r) \subseteq Tensors(cgraph)
      BY DEF ToCome, OpenViews, ViewsOf
    <3> QED
      BY <1>6, <3>1, ReadsFinite, TensorsFinite
  <2>3. q \in ToCome(r)
    <3>1. Pending(q)
      BY <1>2, <1>3, <1>6 DEF Pending
    <3> QED
      BY <1>7, <3>1 DEF ToCome
  <2> HIDE DEF q, r
  <2> QED
    BY <2>1, <2>2, <2>3, OneRead, FS_EmptySet
<1>13. \A p \in AllReads(cgraph) : Pending(p) /\ Root(cgraph, Source(cgraph, p)) = r => p = q
  BY <1>6, <1>8, <1>12, NoReads
<1>14. n \notin Leafs(cgraph) /\ \A u \in ViewsOf(cgraph, r) : u \in Nat /\ u < n /\ IsRead(cgraph, u)
  <2>1. n \notin Leafs(cgraph)
    BY <1>5 DEF Leafs
  <2>2. \A u \in ViewsOf(cgraph, r) : u \in Nat /\ u < n /\ IsRead(cgraph, u)
    BY <1>2, <1>6, <1>12, ViewsPast
  <2> QED
    BY <2>1, <2>2
<1>15. \A p \in AllReads(cgraph) : p[1] \in Nat /\ (n <= p[1] => Pending(p))
  <2> SUFFICES ASSUME NEW p \in AllReads(cgraph) PROVE p[1] \in Nat /\ (n <= p[1] => Pending(p))
    OBVIOUS
  <2>1. p[1] \in Nat /\ p[2] \in Nat
    BY <1>6, ReadFacts
  <2> QED
    BY <1>2, <1>6, <2>1 DEF Pending
<1>16. OwnBlocks'
  <2>1. \A t \in allocated : addr[t].chunk \in Chunks /\ Place(t) \in live[addr[t].chunk]
    BY <1>1, <1>6 DEF OwnBlocks
  <2>2. \A t, u \in allocated : addr[t] = addr[u] => t = u
    BY <1>1, <1>6 DEF OwnBlocks
  <2>3. Chunks' = Chunks /\ live' = live
    BY <1>1 DEF Chunks
  <2>4. \A t \in allocated' : addr'[t].chunk \in Chunks' /\ Place(t)' \in live'[addr'[t].chunk]
    <3>1. addr'[n].chunk \in Chunks' /\ Place(n)' \in live'[addr'[n].chunk]
      BY <1>9, <1>10, <1>11, <2>3
    <3>2. \A t \in allocated : addr'[t].chunk \in Chunks' /\ Place(t)' \in live'[addr'[t].chunk]
      BY <1>8, <1>10, <2>1, <2>3
    <3> QED
      BY <1>4, <3>1, <3>2
  <2>5. \A t \in allocated : addr[t] = a => t = r
    BY <1>5, <2>2 DEF a
  <2>6. \A t, u \in allocated' : addr'[t] = addr'[u] => t = u
    BY <1>4, <1>8, <1>10, <2>2, <2>5
  <2> QED
    BY <1>4, <1>8, <1>10, <2>4, <2>6 DEF OwnBlocks
<1>17. KeptWhileRead'
  <2> SUFFICES ASSUME NEW s \in Placed' \ allocated'
               PROVE  /\ ~cgraph[s].output /\ node' \notin Leafs(cgraph)
                      /\ \A u \in ViewsOf(cgraph, s) : u < node' /\ IsRead(cgraph, u)
                      /\ \A p \in AllReads(cgraph) :
                           Pending(p)' /\ Root(cgraph, Source(cgraph, p)) = s => p[1] = node' /\ step' > Parents' + 1
    BY <1>1, <1>10 DEF KeptWhileRead
  <2>1. node' \notin Leafs(cgraph)
    BY <1>1, <1>2, <1>14, LeafsFirst
  <2>2. CASE s = r
    <3>1. node' = n /\ step' = Parents + 2 /\ Parents' = Parents
      BY <1>1, <1>2, <1>3, <1>6 DEF NextStep, Parents
    <3>2. \A p \in AllReads(cgraph) : Pending(p)' /\ Root(cgraph, Source(cgraph, p)) = s => p[1] = n
      BY <1>10, <1>13, <2>2
    <3> QED
      BY <1>5, <1>6, <1>14, <2>1, <2>2, <3>1, <3>2
  <2>3. CASE s # r
    <3>1. s \in Placed \ allocated
      BY <1>4, <1>10, <2>3
    <3>4. \A u \in ViewsOf(cgraph, s) : u \in Nat
      BY <1>6, GraphFacts DEF ViewsOf
    <3>2. /\ ~cgraph[s].output
          /\ \A u \in ViewsOf(cgraph, s) : u < node /\ IsRead(cgraph, u)
          /\ \A p \in AllReads(cgraph) : Pending(p) /\ Root(cgraph, Source(cgraph, p)) = s => step > Parents + 1
      BY <1>1, <1>6, <3>1 DEF KeptWhileRead
    <3>3. ~(step > Parents + 1)
      BY <1>2, <1>6
    <3>5. \A u \in ViewsOf(cgraph, s) : u < node' /\ IsRead(cgraph, u)
      BY <1>2, <1>6, <1>10, <3>2, <3>4
    <3>6. ASSUME NEW p \in AllReads(cgraph), Pending(p)', Root(cgraph, Source(cgraph, p)) = s PROVE FALSE
      <4>1. Pending(p)
        BY <1>10, <3>6
      <4> QED
        BY <3>2, <3>3, <3>6, <4>1
    <3> QED
      BY <2>1, <3>2, <3>5, <3>6
  <2> QED
    BY <2>2, <2>3
<1>18. PlacesApart' /\ InChunk'
  <2>1. \A d \in Chunks : d \in Chunks' /\ chunks[d].max_size \in Nat /\ chunks'[d].max_size \in Nat
                          /\ chunks[d].max_size <= chunks'[d].max_size
    <3>1. \A d \in Chunks : chunks[d].max_size \in Nat
      BY <1>1, MaxSizes
    <3> QED
      BY <1>1, <3>1 DEF Chunks
  <2>2. a.chunk \in Chunks' /\ a.offset + cgraph[n].size <= chunks'[a.chunk].max_size
    <3>1. End(Place(r)) <= chunks[a.chunk].max_size
      BY <1>1, <1>9, LiveInChunk
    <3>2. End(Place(r)) = a.offset + cgraph[n].size
      BY <1>1, <1>5, <1>8, OwnerFacts DEF a
    <3> QED
      BY <1>1, <1>9, <3>1, <3>2 DEF Chunks
  <2>3. ASSUME NEW s \in Placed \cap allocated, s # n, Overlap(s, n)'
        PROVE  s = r
    <3> SUFFICES ASSUME s # r PROVE FALSE
      OBVIOUS
    <3>1. s \in Owners /\ addr[s].chunk \in Chunks /\ Place(s) \in live[addr[s].chunk] /\ addr[s] # a
      BY <1>1, <1>5, <1>6, <1>10, <2>3 DEF OwnBlocks, a
    <3>2. Plan' = cgraph
      BY <1>10
    <3>3. PlanPlace(s)' = Place(s) /\ PlanPlace(n)' = Place(r)
      <4>1. PlanPlace(s)' = Place(s)' /\ PlanPlace(n)' = Place(n)'
        BY <1>1, <3>2 DEF PlanPlace, Place
      <4> QED
        BY <1>10, <1>11, <2>3, <4>1
    <3>4. addr'[s] = addr[s] /\ addr'[n] = a
      BY <1>10, <2>3
    <3>5. addr[s].chunk = a.chunk /\ ~(End(Place(s)) <= a.offset \/ End(Place(r)) <= addr[s].offset)
      BY <2>3, <3>3, <3>4 DEF Overlap, End
    <3>6. Place(s).offset = addr[s].offset /\ Place(r).offset = a.offset
      BY <1>1, <1>8, <3>1, OwnerFacts DEF a
    <3>7. Place(s) # Place(r)
      <4>1. addr[s] \in [chunk : Nat, offset : Nat] /\ a \in [chunk : Nat, offset : Nat]
        BY <1>1, <1>9, <3>1, OwnerFacts
      <4>2. addr[s].offset # a.offset
        BY <3>1, <3>5, <4>1
      <4> QED
        BY <3>6, <4>2
    <3>8. End(Place(s)) <= Place(r).offset \/ End(Place(r)) <= Place(s).offset
      BY <1>1, <1>9, <3>1, <3>5, <3>7, LiveApart
    <3> QED
      BY <3>5, <3>6, <3>8
  <2>4. ASSUME NEW s \in Placed, s = r PROVE TookOver(n, s)'
    BY <1>1, <1>5, <1>8, <1>10, <2>4 DEF TookOver, a
  <2>5. \A p \in AllReads(cgraph) : Root(cgraph, Source(cgraph, p)) = r => p[1] <= n
    <3> SUFFICES ASSUME NEW p \in AllReads(cgraph), Root(cgraph, Source(cgraph, p)) = r, ~(p[1] <= n) PROVE FALSE
      OBVIOUS
    <3>1. p[1] \in Nat /\ n <= p[1]
      BY <1>6, <1>15
    <3>2. p = q
      BY <1>13, <1>15, <3>1
    <3> QED
      BY <1>6, <3>2
  <2>6. \A s \in Placed \cap allocated : s # n /\ Overlap(s, n)' =>
            /\ n \notin Leafs(cgraph) /\ ~cgraph[s].output /\ TookOver(n, s)'
            /\ \A u \in ViewsOf(cgraph, s) : u < n /\ IsRead(cgraph, u)
            /\ \A p \in AllReads(cgraph) : Root(cgraph, Source(cgraph, p)) = s => p[1] <= n
    BY <1>5, <1>14, <2>3, <2>4, <2>5
  <2> QED
    BY <1>1, <1>2, <1>4, <1>9, <2>1, <2>2, <2>6, NodePlaced
<1> QED
  BY <1>10, <1>16, <1>17, <1>18 DEF GraphInv

\* A parent's turn after its reader: what remains to be read.
LEMMA ReleaseCounts ==
  ASSUME GraphTyping, Counts, NEW s \in Tensors(cgraph), Release(s), NEW root, root = Root(cgraph, s)
  PROVE  /\ Counts'
         /\ n_children' \in [Tensors(cgraph) -> Int] /\ n_views' \in [Tensors(cgraph) -> Int]
         /\ node \in Tensors(cgraph) /\ step > Parents + 1 /\ node \notin Leafs(cgraph)
         /\ \A p \in AllReads(cgraph) : Pending(p)' => Pending(p) /\ (p[1] = node => p[1] = node' /\ step' > Parents' + 1)
         /\ n_views'[root] = 0 /\ n_children'[root] = 0 => ToCome(root)' = {} /\ OpenViews(root)' = {}
<1> DEFINE over == n_children[s] = 1 /\ n_views[s] = 0
           q == <<node, step - Parents - 1>>
<1>1. /\ node \in Tensors(cgraph) /\ step > Parents + 1 /\ s = cgraph[node].src[step - Parents - 1]
      /\ n_children' = [n_children EXCEPT ![s] = @ - 1]
      /\ n_views' = IF over /\ IsView(s) THEN [n_views EXCEPT ![root] = @ - 1] ELSE n_views
      /\ NextStep /\ cgraph' = cgraph
  BY DEF Release, Releases
<1>2. /\ node \in Nat \ {0} /\ step \in Nat /\ Parents \in Nat /\ IsGraph(cgraph) /\ Parents = Len(cgraph[node].src)
      /\ step <= 2 * Parents + 1
  BY <1>1, AtNode
<1>3. /\ q \in AllReads(cgraph) /\ Pending(q) /\ Source(cgraph, q) = s
      /\ \A p \in AllReads(cgraph) : Pending(p)' <=> Pending(p) /\ p # q
  BY <1>1, PendingLess
<1> HIDE DEF q
<1>4. \A u \in Tensors(cgraph) : IsFiniteSet(ToCome(u)) /\ Cardinality(ToCome(u)) \in Nat
                                 /\ IsFiniteSet(OpenViews(u)) /\ Cardinality(OpenViews(u)) \in Nat
  <2> SUFFICES ASSUME NEW u \in Tensors(cgraph)
               PROVE  IsFiniteSet(ToCome(u)) /\ Cardinality(ToCome(u)) \in Nat
                      /\ IsFiniteSet(OpenViews(u)) /\ Cardinality(OpenViews(u)) \in Nat
    OBVIOUS
  <2>1. ToCome(u) \subseteq AllReads(cgraph) /\ OpenViews(u) \subseteq Tensors(cgraph)
    BY DEF ToCome, OpenViews, ViewsOf
  <2> QED
    BY <1>2, <2>1, ReadsFinite, TensorsFinite
<1>5. \A u \in Tensors(cgraph) : n_children[u] = Cardinality(ToCome(u)) /\ n_views[u] = Cardinality(OpenViews(u))
  BY <1>2 DEF Counts
<1>6. /\ n_children \in [Tensors(cgraph) -> Int] /\ n_views \in [Tensors(cgraph) -> Int]
  BY DEF GraphTyping
<1>7. root \in Tensors(cgraph) /\ ~IsView(root)
  BY <1>2, RootFacts DEF IsView
\* The reads of s are one less.
<1>8. ToCome(s)' = ToCome(s) \ {q} /\ q \in ToCome(s) /\ \A u \in Tensors(cgraph) \ {s} : ToCome(u)' = ToCome(u)
  BY <1>1, <1>3 DEF ToCome
<1>9. Cardinality(ToCome(s)') = Cardinality(ToCome(s)) - 1 /\ IsFiniteSet(ToCome(s)')
  BY <1>4, <1>8, FS_RemoveElement
<1>10. ASSUME NEW u \in Tensors(cgraph) PROVE n_children'[u] = Cardinality(ToCome(u)')
  BY <1>1, <1>5, <1>6, <1>8, <1>9
<1>11. n_children' \in [Tensors(cgraph) -> Int] /\ n_views' \in [Tensors(cgraph) -> Int]
  BY <1>1, <1>6, <1>7
<1>12. ToCome(s)' = {} <=> n_children[s] = 1
  <2>1. ToCome(s)' = {} <=> Cardinality(ToCome(s)') = 0
    BY <1>9, FS_EmptySet
  <2> QED
    BY <1>4, <1>5, <1>9, <2>1
<1>13. IsRead(cgraph, s) /\ cgraph[s].op # "dependency"
  BY <1>2, <1>3, ReadFacts DEF IsRead
<1>14. ASSUME NEW r \in Tensors(cgraph)
       PROVE  OpenViews(r)' = IF IsView(s) /\ r = root /\ n_children[s] = 1 THEN OpenViews(r) \ {s} ELSE OpenViews(r)
  <2>1. ASSUME NEW u \in Tensors(cgraph), u # s PROVE u \in OpenViews(r)' <=> u \in OpenViews(r)
    BY <1>1, <1>8, <2>1 DEF OpenViews, ViewsOf
  <2>5. s \in ViewsOf(cgraph, r) <=> IsView(s) /\ root = r
    <3>1. r \in Nat \ {0}
      BY <1>2, GraphFacts
    <3> QED
      BY <1>13, <3>1 DEF ViewsOf, IsView, Root
  <2>2. s \in OpenViews(r)' <=> IsView(s) /\ root = r /\ n_children[s] # 1
    BY <1>1, <1>12, <1>13, <2>5 DEF OpenViews
  <2>3. s \in OpenViews(r) <=> IsView(s) /\ root = r
    BY <1>8, <2>5 DEF OpenViews
  <2>4. OpenViews(r) \subseteq Tensors(cgraph) /\ OpenViews(r)' \subseteq Tensors(cgraph)
    BY <1>1 DEF OpenViews, ViewsOf
  <2> QED
    BY <2>1, <2>2, <2>3, <2>4
<1>15. IsView(s) => n_views[s] = 0 /\ s \in OpenViews(root)
  <2> SUFFICES ASSUME IsView(s) PROVE n_views[s] = 0 /\ s \in OpenViews(root)
    OBVIOUS
  <2>1. OpenViews(s) = {}
    <3> SUFFICES ASSUME NEW u \in OpenViews(s) PROVE FALSE
      OBVIOUS
    <3>1. u \in Tensors(cgraph) /\ cgraph[u].view = s
      BY DEF OpenViews, ViewsOf
    <3>2. s \in Nat \ {0}
      BY <1>2, GraphFacts
    <3>3. cgraph[s].view = 0
      BY <1>2, <3>1, <3>2, GraphFacts
    <3> QED
      BY <3>3 DEF IsView
  <2>2. s \in OpenViews(root)
    BY <1>8, <1>13 DEF OpenViews, ViewsOf, Root, IsView
  <2> QED
    BY <1>5, <2>1, <2>2, FS_EmptySet
<1>16. ASSUME NEW r \in Tensors(cgraph) PROVE n_views'[r] = Cardinality(OpenViews(r)')
  <2>1. CASE IsView(s) /\ r = root /\ n_children[s] = 1
    <3>1. n_views' = [n_views EXCEPT ![root] = @ - 1]
      BY <1>1, <1>15, <2>1
    <3>2. n_views'[r] = n_views[r] - 1
      BY <1>6, <1>7, <2>1, <3>1
    <3>3. Cardinality(OpenViews(r) \ {s}) = Cardinality(OpenViews(r)) - 1
      BY <1>4, <1>15, <2>1, FS_RemoveElement
    <3>4. OpenViews(r)' = OpenViews(r) \ {s}
      BY <1>14, <2>1
    <3> QED
      BY <1>5, <3>2, <3>3, <3>4
  <2>2. CASE ~(IsView(s) /\ r = root /\ n_children[s] = 1)
    <3>1. n_views'[r] = n_views[r]
      BY <1>1, <1>6, <1>7, <2>2
    <3>2. OpenViews(r)' = OpenViews(r)
      BY <1>14, <2>2
    <3> QED
      BY <1>5, <3>1, <3>2
  <2> QED
    BY <2>1, <2>2
<1>17. Counts'
  BY <1>1, <1>10, <1>16 DEF Counts
<1>18. n_views'[root] = 0 /\ n_children'[root] = 0 => ToCome(root)' = {} /\ OpenViews(root)' = {}
  <2>1. IsFiniteSet(ToCome(root)') /\ IsFiniteSet(OpenViews(root)')
    <3>1. ToCome(root)' \subseteq AllReads(cgraph) /\ OpenViews(root)' \subseteq Tensors(cgraph)
      BY <1>1 DEF ToCome, OpenViews, ViewsOf
    <3> QED
      BY <1>2, <3>1, ReadsFinite, TensorsFinite
  <2>2. n_children'[root] = Cardinality(ToCome(root)') /\ n_views'[root] = Cardinality(OpenViews(root)')
    BY <1>7, <1>10, <1>16
  <2> QED
    BY <2>1, <2>2, FS_EmptySet
<1>19. node \notin Leafs(cgraph)
  <2>1. Parents # 0
    BY <1>1, <1>2
  <2> QED
    BY <1>1, <1>2, <2>1, GraphFacts DEF Leafs
<1>20. ASSUME NEW p \in AllReads(cgraph), Pending(p)', p[1] = node PROVE p[1] = node' /\ step' > Parents' + 1
  <2>1. node' = node
    BY <1>1, <1>2, <1>20, WalkStep DEF Pending
  <2>2. step' = step + 1 /\ Parents' = Parents
    BY <1>1, <1>2, <2>1, WalkStep DEF Parents
  <2> QED
    BY <1>1, <1>2, <1>20, <2>1, <2>2
<1> QED
  BY <1>1, <1>3, <1>11, <1>17, <1>18, <1>19, <1>20

\* ViewsPast after a step.
LEMMA ViewsPastNext ==
  ASSUME IsGraph(cgraph), cgraph' = cgraph, node' \in Nat, NEW s, OpenViews(s)' = {}, NEW u \in ViewsOf(cgraph, s)
  PROVE  IsRead(cgraph, u) /\ u < node'
<1>1. u \in Tensors(cgraph) /\ ToCome(u)' = {} /\ IsRead(cgraph, u)
  BY DEF OpenViews, ViewsOf
<1>2. PICK p \in AllReads(cgraph) : Source(cgraph, p) = u
  BY <1>1 DEF IsRead
<1>3. ~Pending(p)'
  BY <1>1, <1>2 DEF ToCome
<1>4. p[1] \in Nat /\ u \in Nat /\ u < p[1]
  BY <1>2, ReadFacts
<1>5. ~(node' < p[1])
  BY <1>3 DEF Pending
<1> QED
  BY <1>1, <1>4, <1>5

LEMMA ReleaseStep ==
  ASSUME GraphInv, NEW s \in Tensors(cgraph), Release(s)
  PROVE  GraphInv'
<1>0. PICK r : r = Root(cgraph, s)
  OBVIOUS
<1>1. /\ GraphTyping /\ OwnBlocks /\ KeptWhileRead /\ PlacesApart /\ InChunk /\ Counts /\ TallocrInv
  BY DEF GraphInv, GraphTyping
<1>2. /\ NextStep /\ UNCHANGED <<cgraph, addr, reserved, buffer, rounds>>
  BY DEF Release
<1>3. /\ Counts'
      /\ n_children' \in [Tensors(cgraph) -> Int] /\ n_views' \in [Tensors(cgraph) -> Int]
      /\ node \in Tensors(cgraph) /\ step > Parents + 1 /\ node \notin Leafs(cgraph)
      /\ \A p \in AllReads(cgraph) : Pending(p)' => Pending(p) /\ (p[1] = node => p[1] = node' /\ step' > Parents' + 1)
      /\ n_views'[r] = 0 /\ n_children'[r] = 0 => ToCome(r)' = {} /\ OpenViews(r)' = {}
  BY <1>0, <1>1, ReleaseCounts
<1>4. node # 0 /\ IsGraph(cgraph) /\ step \in Nat /\ Parents \in Nat /\ step # Parents + 1
  BY <1>1, <1>3, AtNode
<1>5. Placed' = Placed /\ node' # 0 /\ Plan' = Plan /\ \A t \in Placed : t \in Owners
  BY <1>1, <1>2, <1>3, <1>4, PlacedMore
<1>6. node' \notin Leafs(cgraph)
  BY <1>1, <1>2, <1>3, LeafsFirst
<1>7. /\ allocated \subseteq Placed
      /\ \A t \in allocated : addr[t].chunk \in Chunks /\ Place(t) \in live[addr[t].chunk]
      /\ \A t, u \in allocated : addr[t] = addr[u] => t = u
  BY <1>1, <1>4 DEF OwnBlocks
<1>8. \A t : Place(t)' = Place(t)
  BY <1>2 DEF Place
<1>9. ASSUME NEW t \in Placed, t \notin allocated
      PROVE  /\ ~cgraph[t].output
             /\ \A u \in ViewsOf(cgraph, t) : u < node' /\ IsRead(cgraph, u)
             /\ \A p \in AllReads(cgraph) :
                  Pending(p)' /\ Root(cgraph, Source(cgraph, p)) = t => p[1] = node' /\ step' > Parents' + 1
  <2>1. /\ ~cgraph[t].output
        /\ \A u \in ViewsOf(cgraph, t) : u < node /\ IsRead(cgraph, u)
        /\ \A p \in AllReads(cgraph) : Pending(p) /\ Root(cgraph, Source(cgraph, p)) = t => p[1] = node
    BY <1>1, <1>4, <1>9 DEF KeptWhileRead
  <2>2. \A u \in ViewsOf(cgraph, t) : u \in Nat
    BY <1>4, GraphFacts DEF ViewsOf
  <2>3. node \in Nat /\ node' \in Nat /\ node <= node'
    <3>1. node' \in 1..Len(cgraph) + 1 /\ (node' = node \/ node' = node + 1)
      BY <1>1, <1>2, <1>3, WalkStep
    <3>2. node \in Nat /\ Len(cgraph) \in Nat
      BY <1>1, <1>3, AtNode
    <3> QED
      BY <3>1, <3>2
  <2>4. \A u \in ViewsOf(cgraph, t) : u < node' /\ IsRead(cgraph, u)
    BY <2>1, <2>2, <2>3
  <2>5. ASSUME NEW p \in AllReads(cgraph), Pending(p)', Root(cgraph, Source(cgraph, p)) = t
        PROVE  p[1] = node' /\ step' > Parents' + 1
    <3>1. Pending(p) /\ (p[1] = node => p[1] = node' /\ step' > Parents' + 1)
      BY <1>3, <2>5
    <3>2. p[1] = node
      BY <2>1, <2>5, <3>1
    <3> QED
      BY <3>1, <3>2
  <2> QED
    BY <2>1, <2>4, <2>5
\* Nothing is given back ...
<1>10. CASE UNCHANGED <<chunks, live, allocated>>
  <2>1. TallocrInv' /\ Chunks' = Chunks
    BY <1>1, <1>10 DEF TallocrInv, Chunks
  <2>2. GraphTyping' /\ Reserved' /\ AllFit'
    <3>1. addr' \in [Tensors(cgraph) -> [chunk : Nat, offset : Nat]]
      BY <1>1, <1>2 DEF GraphTyping
    <3> QED
      BY <1>1, <1>2, <1>3, <2>1, <3>1, WalkTyping
  <2>3. OwnBlocks'
    BY <1>2, <1>5, <1>7, <1>8, <1>10, <2>1 DEF OwnBlocks
  <2>4. KeptWhileRead'
    BY <1>2, <1>5, <1>6, <1>8, <1>9, <1>10 DEF KeptWhileRead
  <2>5. PlacesApart' /\ InChunk'
    BY <1>1, <1>2, <1>5, <1>10, <2>1, NothingPlaced
  <2> QED
    BY <1>3, <2>2, <2>3, <2>4, <2>5 DEF GraphInv
\* ... or one place is, and nobody will read what is there.
<1>11. CASE /\ n_views'[r] = 0 /\ n_children'[r] = 0 /\ r \in allocated /\ ~cgraph[r].output
            /\ FreeBytes(addr[r].chunk, Place(r), 0) /\ allocated' = allocated \ {r}
  <2> DEFINE c == addr[r].chunk
             b == Place(r)
  <2>1. c \in Chunks /\ b \in live[c]
    BY <1>7, <1>11
  <2>2. /\ TallocrInv' /\ Chunks' = Chunks
        /\ \A d \in Chunks : live[d] \ {b} \subseteq live'[d] /\ chunks'[d].max_size = chunks[d].max_size
        /\ \A d \in Chunks \ {c} : live'[d] = live[d]
    BY <1>1, <1>11, <2>1, FreeGives
  <2>3. GraphTyping' /\ Reserved' /\ AllFit'
    <3>1. addr' \in [Tensors(cgraph) -> [chunk : Nat, offset : Nat]]
      BY <1>1, <1>2 DEF GraphTyping
    <3> QED
      BY <1>1, <1>2, <1>3, <2>2, <3>1, WalkTyping
  <2>4. ASSUME NEW t \in allocated, t # r
        PROVE  addr[t].chunk \in Chunks' /\ Place(t) \in live'[addr[t].chunk]
    <3>1. t \in Owners /\ r \in Owners
      BY <1>5, <1>7, <1>11
    <3>2. Place(t).offset = addr[t].offset /\ b.offset = addr[r].offset
          /\ addr[t] \in [chunk : Nat, offset : Nat] /\ addr[r] \in [chunk : Nat, offset : Nat]
      BY <1>1, <3>1, OwnerFacts
    <3>3. addr[t] # addr[r]
      BY <1>7, <1>11, <2>4
    <3>4. addr[t].chunk = c => Place(t) # b
      BY <3>2, <3>3
    <3>5. addr[t].chunk \in Chunks /\ Place(t) \in live[addr[t].chunk]
      BY <1>7
    <3> QED
      BY <2>2, <3>4, <3>5
  <2>5. OwnBlocks'
    <3>1. allocated' \subseteq Placed' /\ \A t \in allocated' : t \in allocated /\ t # r
      BY <1>5, <1>7, <1>11
    <3> QED
      BY <1>2, <1>7, <1>8, <2>4, <3>1 DEF OwnBlocks
  <2>6. KeptWhileRead'
    <3>1. ASSUME NEW p \in AllReads(cgraph), Pending(p)', Root(cgraph, Source(cgraph, p)) = r PROVE FALSE
      <4> DEFINE u == Source(cgraph, p)
      <4>1. u \in Tensors(cgraph)
        BY <1>4, ReadFacts
      <4>2. CASE IsView(u)
        <5>1. cgraph[u].view = r /\ cgraph[u].op # "dependency"
          BY <1>4, <3>1, <4>2, ReadFacts DEF Root, IsView
        <5>2. p \in ToCome(u)'
          BY <1>2, <3>1 DEF ToCome
        <5>3. u \in OpenViews(r)'
          BY <1>2, <4>1, <5>1, <5>2 DEF OpenViews, ViewsOf
        <5> QED
          BY <1>3, <1>11, <5>3
      <4>3. CASE ~IsView(u)
        <5>1. p \in ToCome(r)'
          BY <1>2, <3>1, <4>3 DEF ToCome, Root, IsView
        <5> QED
          BY <1>3, <1>11, <5>1
      <4> QED
        BY <4>2, <4>3
    <3>2. \A t \in Placed' \ allocated' : t = r \/ (t \in Placed /\ t \notin allocated)
      BY <1>5, <1>11
    <3>3. \A u \in ViewsOf(cgraph, r) : u < node' /\ IsRead(cgraph, u)
      <4>1. node' \in Nat
        BY <1>1, <1>2, <1>3, AtNode, WalkStep
      <4> QED
        BY <1>2, <1>3, <1>4, <1>11, <4>1, ViewsPastNext
    <3> QED
      BY <1>2, <1>6, <1>9, <1>11, <3>1, <3>2, <3>3 DEF KeptWhileRead
  <2>7. PlacesApart' /\ InChunk'
    BY <1>1, <1>2, <1>5, <2>2, NothingPlaced
  <2> QED
    BY <1>3, <2>3, <2>5, <2>6, <2>7 DEF GraphInv
<1> QED
  BY <1>0, <1>10, <1>11 DEF Release, FreeNode, tallocrVars

LEMMA ReallocStep ==
  ASSUME GraphInv, ReallocBuffers
  PROVE  GraphInv'
<1>1. /\ GraphTyping /\ PlacesApart /\ InChunk /\ TallocrInv
      /\ node = Len(cgraph) + 1 /\ reserved' = cgraph /\ node' = 0 /\ step' = 0
      /\ UNCHANGED <<chunks, live>> /\ UNCHANGED <<cgraph, n_children, n_views, allocated, addr, rounds>>
  BY DEF GraphInv, GraphTyping, ReallocBuffers, tallocrVars
<1>2. IsGraph(cgraph) /\ Len(cgraph) \in Nat /\ node # 0 /\ \A t \in Tensors(cgraph) : t \in Nat /\ t < node
  <2>1. IsGraph(cgraph)
    BY <1>1 DEF GraphTyping
  <2> QED
    BY <1>1, <2>1, GraphFacts DEF Tensors
<1>4. Plan' = Plan /\ Plan = cgraph
  BY <1>1, <1>2 DEF Plan
<1>3. Placed = Owners /\ Placed' = Owners /\ PlanOwners' = Owners /\ Owners \subseteq Tensors(cgraph)
  BY <1>1, <1>2, <1>4 DEF Placed, PlanOwners, Owners
<1>5. \A u : PlanPlace(u)' = PlanPlace(u)
  BY <1>1, <1>4 DEF PlanPlace
<1>7. PlacesApart' /\ InChunk'
  BY <1>1, <1>3, <1>4, NothingPlaced DEF Chunks
<1>8. \A c \in Chunks : chunks[c].max_size \in Nat /\ c \in Nat
  BY <1>1, MaxSizes DEF Chunks
<1>9. buffer' \in Seq(Nat) /\ \A c \in Chunks : c <= Len(buffer') /\ chunks[c].max_size <= buffer'[c]
  <2>1. CASE \E c \in Chunks : c > Len(buffer) \/ chunks[c].max_size > buffer[c]
    <3>1. buffer' = [c \in 1..Len(chunks) |-> chunks[c].max_size]
      BY <2>1 DEF ReallocBuffers, Chunks
    <3>2. Len(chunks) \in Nat
      BY <1>1 DEF TallocrInv
    <3>3. buffer' \in Seq(Nat) /\ Len(buffer') = Len(chunks)
      BY <1>8, <3>1, <3>2 DEF Chunks
    <3> QED
      BY <1>8, <3>1, <3>3 DEF Chunks
  <2>2. CASE \A c \in Chunks : ~(c > Len(buffer) \/ chunks[c].max_size > buffer[c])
    <3>1. buffer' = buffer /\ buffer \in Seq(Nat) /\ Len(buffer) \in Nat
      BY <1>1, <2>2 DEF ReallocBuffers, GraphTyping
    <3>2. ASSUME NEW c \in Chunks PROVE c <= Len(buffer) /\ chunks[c].max_size <= buffer[c]
      <4>1. c <= Len(buffer)
        BY <1>8, <2>2, <3>1
      <4>2. c \in 1..Len(buffer)
        BY <3>1, <4>1 DEF Chunks
      <4>3. buffer[c] \in Nat
        BY <3>1, <4>2
      <4> QED
        BY <1>8, <2>2, <4>1, <4>3
    <3> QED
      BY <3>1, <3>2
  <2> QED
    BY <2>1, <2>2
<1>10. GraphTyping'
  <2>1. TallocrInv' /\ rounds # 0
    BY <1>1, <1>2 DEF TallocrInv, GraphTyping
  <2>2. Len(cgraph) + 1 \in Nat /\ 0 \in 0..Len(cgraph) + 1 /\ 0 \notin Tensors(cgraph) /\ 0 # Len(cgraph) + 1
    BY <1>2 DEF Tensors
  <2> QED
    BY <1>1, <1>2, <1>9, <2>1, <2>2 DEF GraphTyping
<1>11. Reserved'
  <2>2. ASSUME NEW t \in Owners
        PROVE  addr[t].chunk <= Len(buffer') /\ End(PlanPlace(t)) <= buffer'[addr[t].chunk]
    <3> DEFINE c == addr[t].chunk
    <3>1. c \in Chunks /\ End(PlanPlace(t)) <= chunks[c].max_size
      BY <1>1, <1>3 DEF InChunk
    <3>2. c <= Len(buffer') /\ chunks[c].max_size <= buffer'[c] /\ chunks[c].max_size \in Nat /\ c \in Nat /\ c >= 1
      BY <1>8, <1>9, <3>1 DEF Chunks
    <3>3. c \in 1..Len(buffer') /\ buffer'[c] \in Nat
      BY <1>9, <3>2
    <3>4. End(PlanPlace(t)) \in Nat
      <4>1. PlanPlace(t) = Place(t)
        BY <1>4 DEF PlanPlace, Place
      <4> QED
        BY <1>1, <4>1, OwnerFacts
    <3> QED
      BY <3>1, <3>2, <3>3, <3>4
  <2> QED
    BY <1>1, <1>3, <1>5, <2>2 DEF Reserved, End
<1>12. AllFit'
  <2>1. \A t \in Tensors(cgraph) : cgraph[t].size \in Nat /\ \A i \in 1..Len(cgraph[t].src) : cgraph[t].src[i] \in Tensors(cgraph)
    <3> SUFFICES ASSUME NEW t \in Tensors(cgraph)
                 PROVE  cgraph[t].size \in Nat /\ \A i \in 1..Len(cgraph[t].src) : cgraph[t].src[i] \in Tensors(cgraph)
      OBVIOUS
    <3>1. ASSUME NEW i \in 1..Len(cgraph[t].src) PROVE cgraph[t].src[i] \in Tensors(cgraph)
      <4>1. <<t, i>> \in AllReads(cgraph) /\ Source(cgraph, <<t, i>>) = cgraph[t].src[i]
        BY <1>2, ReadIs
      <4>2. Source(cgraph, <<t, i>>) \in Tensors(cgraph)
        BY <1>2, <4>1, ReadFacts
      <4> QED
        BY <4>1, <4>2
    <3> QED
      BY <1>2, <3>1, GraphFacts
  <2>2. \A t \in Tensors(cgraph) : StillFits(cgraph, t, t)'
    BY <1>1, <2>1 DEF StillFits
  <2> QED
    BY <1>1, <2>1, <2>2 DEF AllFit, StillFits
<1> QED
  BY <1>1, <1>7, <1>10, <1>11, <1>12 DEF GraphInv, Counts, OwnBlocks, KeptWhileRead

------------------------------------------------------------------------------
(* Another graph.                                                                                                         *)

\* A graph in other sizes is a graph.
LEMMA ResizedFacts ==
  ASSUME NEW g, IsGraph(g), NEW h \in Resized(g)
  PROVE  IsGraph(h)
<1>1. PICK f \in [Sizes -> Sizes] : h = [t \in Tensors(g) |-> [g[t] EXCEPT !.size = IF @ = 0 THEN 0 ELSE f[@]]]
  BY DEF Resized
<1>2. /\ Len(g) \in Nat
      /\ \A t \in Tensors(g) : /\ g[t] \in TensorRecord
                               /\ IF Own(g, t) THEN g[t].size \in Sizes ELSE g[t].size = 0
  BY GraphFacts DEF IsGraph
<1> DEFINE Size(t) == IF g[t].size = 0 THEN 0 ELSE f[g[t].size]
<1>3. \A x \in Sizes : x \in Nat \ {0}
  BY SizesAssumption, TallocrAssumption
<1>4. ASSUME NEW t \in Tensors(g)
      PROVE  /\ h[t] \in TensorRecord
             /\ h[t].op = g[t].op /\ h[t].src = g[t].src /\ h[t].view = g[t].view /\ h[t].external = g[t].external
             /\ h[t].size = Size(t)
             /\ IF Own(g, t) THEN Size(t) \in Sizes ELSE Size(t) = 0
  <2>1. h[t] = [g[t] EXCEPT !.size = Size(t)]
    BY <1>1
  <2>2. IF Own(g, t) THEN Size(t) \in Sizes ELSE Size(t) = 0
    BY <1>2, <1>3
  <2>3. Size(t) \in Nat
    BY <1>3, <2>2
  <2> HIDE DEF Size
  <2>4. g[t] \in TensorRecord
    BY <1>2
  <2> QED
    BY <2>1, <2>2, <2>3, <2>4 DEF TensorRecord
<1>5. Len(h) = Len(g) /\ Tensors(h) = Tensors(g) /\ h \in Seq(TensorRecord)
  <2> DEFINE e(t) == [g[t] EXCEPT !.size = IF @ = 0 THEN 0 ELSE f[@]]
  <2>1. h = [t \in 1..Len(g) |-> e(t)] /\ \A t \in 1..Len(g) : h[t] \in TensorRecord
    BY <1>1, <1>4 DEF Tensors
  <2> HIDE DEF e
  <2>2. h \in [1..Len(g) -> TensorRecord]
    BY <2>1
  <2>3. h \in Seq(TensorRecord) /\ Len(h) = Len(g)
    BY <1>2, <2>2
  <2> QED
    BY <2>3 DEF Tensors
<1> SUFFICES ASSUME NEW t \in Tensors(g)
             PROVE  /\ Len(h[t].src) <= MaxSrc
                    /\ \A i \in 1..Len(h[t].src) : h[t].src[i] \in 1..t - 1 /\ h[h[t].src[i]].op # "dependency"
                    /\ h[t].op = "leaf" => h[t].src = <<>> /\ h[t].view = 0 /\ \A u \in 1..t - 1 : h[u].op = "leaf"
                    /\ h[t].op \in {"view", "dependency"} => h[t].view # 0
                    /\ h[t].view # 0 => h[t].view \in 1..t - 1 /\ h[h[t].view].view = 0 /\ ~h[t].external
                    /\ IF Own(h, t) THEN h[t].size \in Sizes ELSE h[t].size = 0
  BY <1>5 DEF IsGraph
<1>6. /\ Len(g[t].src) <= MaxSrc
      /\ \A i \in 1..Len(g[t].src) : g[t].src[i] \in 1..t - 1 /\ g[g[t].src[i]].op # "dependency"
      /\ g[t].op = "leaf" => g[t].src = <<>> /\ g[t].view = 0 /\ \A u \in 1..t - 1 : g[u].op = "leaf"
      /\ g[t].op \in {"view", "dependency"} => g[t].view # 0
      /\ g[t].view # 0 => g[t].view \in 1..t - 1 /\ g[g[t].view].view = 0 /\ ~g[t].external
  BY DEF IsGraph
<1>7. \A u \in 1..t - 1 : u \in Tensors(g)
  BY <1>2 DEF Tensors
<1>8. Own(h, t) <=> Own(g, t)
  BY <1>4 DEF Own
<1> QED
  BY <1>4, <1>6, <1>7, <1>8

\* The walk starts, with everything to come.
LEMMA StartStep ==
  ASSUME GraphInv, NEW g, IsGraph(g), StartWalk(g), node = 0, rounds' = rounds + 1, UNCHANGED <<reserved, buffer>>
  PROVE  GraphInv'
<1>1. /\ GraphTyping
      /\ cgraph' = g /\ node' = 1 /\ step' = 1 /\ allocated' = {} /\ chunks' = <<>> /\ live' = <<>>
      /\ n_children' = [t \in Tensors(g) |-> Reads(g, t)]
      /\ n_views' = [t \in Tensors(g) |-> Cardinality(ViewsOf(g, t))]
      /\ addr' = [t \in Tensors(g) |-> NoPlace]
  BY DEF GraphInv, StartWalk
<1>2. Len(g) \in Nat /\ \A t \in Tensors(g) : Len(g[t].src) \in Nat /\ t \in Nat \ {0}
  BY GraphFacts, GraphAllocAssumption
<1>3. TallocrInv'
  BY <1>1, InitInv DEF TallocrInit, TallocrInv
<1>4. \A s \in Tensors(g) : Reads(g, s) \in Nat /\ Cardinality(ViewsOf(g, s)) \in Nat
  <2> SUFFICES ASSUME NEW s \in Tensors(g) PROVE Reads(g, s) \in Nat /\ Cardinality(ViewsOf(g, s)) \in Nat
    OBVIOUS
  <2>1. {p \in AllReads(g) : Source(g, p) = s} \subseteq AllReads(g) /\ ViewsOf(g, s) \subseteq Tensors(g)
    BY DEF ViewsOf
  <2> QED
    BY <2>1, ReadsFinite, TensorsFinite DEF Reads
<1>5. GraphTyping'
  <2>1. addr' \in [Tensors(g) -> [chunk : Nat, offset : Nat]]
    BY <1>1 DEF NoPlace
  <2>2. n_children' \in [Tensors(g) -> Int] /\ n_views' \in [Tensors(g) -> Int]
    BY <1>1, <1>4
  <2>3. rounds' \in Nat /\ rounds' # 0 /\ IsGraph(reserved) /\ buffer \in Seq(Nat)
    BY <1>1 DEF GraphTyping
  <2>4. 1 \in 0..Len(g) + 1 /\ (1 \in Tensors(g) => 1 \in 1..2 * Len(g[1].src) + 1)
    BY <1>2
  <2> QED
    BY <1>1, <1>3, <2>1, <2>2, <2>3, <2>4 DEF GraphTyping, Parents
<1>6. Placed' = {}
  <2> SUFFICES ASSUME NEW t \in Placed' PROVE FALSE
    OBVIOUS
  <2>0. Plan' = g
    BY <1>1 DEF Plan
  <2>1. t \in Tensors(g) /\ t \in Nat \ {0} /\ (t < 1 \/ (t = 1 /\ 1 > Parents' + 1))
    BY <1>1, <1>2, <2>0 DEF Placed, PlanOwners
  <2>2. t = 1 => Parents' \in Nat
    BY <1>1, <1>2, <2>1 DEF Parents
  <2> QED
    BY <2>1, <2>2
<1>7. ASSUME NEW p \in AllReads(g) PROVE Pending(p)'
  <2>1. p[1] \in Tensors(g) /\ p[1] \in Nat \ {0} /\ p[2] \in Nat /\ p[2] >= 1
    BY <1>2, ReadFacts
  <2>2. p[1] = 1 => Parents' \in Nat
    BY <1>1, <1>2, <2>1 DEF Parents
  <2> QED
    BY <1>1, <2>1, <2>2 DEF Pending
<1>8. Counts'
  <2>1. \A s : ToCome(s)' = {p \in AllReads(g) : Source(g, p) = s}
    BY <1>1, <1>7 DEF ToCome
  <2>2. \A s \in Tensors(g) : n_children'[s] = Cardinality(ToCome(s)')
    BY <1>1, <2>1 DEF Reads
  <2>3. \A u : ToCome(u)' = {} => ~IsRead(g, u)
    BY <2>1 DEF IsRead
  <2>4. \A s : OpenViews(s)' = ViewsOf(g, s)
    BY <1>1, <2>3 DEF OpenViews, ViewsOf
  <2>5. \A s \in Tensors(g) : n_views'[s] = Cardinality(OpenViews(s)')
    BY <1>1, <2>4
  <2> QED
    BY <1>1, <2>2, <2>5 DEF Counts
<1>9. OwnBlocks' /\ KeptWhileRead' /\ PlacesApart' /\ InChunk' /\ Reserved' /\ AllFit'
  BY <1>1, <1>6 DEF OwnBlocks, KeptWhileRead, PlacesApart, InChunk, Reserved, AllFit
<1> QED
  BY <1>5, <1>8, <1>9 DEF GraphInv

\* The plan is used again for a graph that fits.
LEMMA ReuseStep ==
  ASSUME GraphInv, NEW g, IsGraph(g), ~NeedsRealloc(g), node = 0, rounds' = rounds + 1, cgraph' = g,
         UNCHANGED <<tallocrVars, node, step, n_children, n_views, allocated, addr, reserved, buffer>>
  PROVE  GraphInv'
<1>1. /\ GraphTyping /\ PlacesApart /\ InChunk /\ Reserved /\ UNCHANGED <<chunks, live>>
  BY DEF GraphInv, tallocrVars
<1>2. Len(g) = Len(cgraph) /\ Len(g) = Len(reserved) /\ Tensors(g) = Tensors(cgraph)
  BY <1>1 DEF Reserved, NeedsRealloc, Tensors
<1>3. Len(g) \in Nat /\ 0 \notin Tensors(g)
  BY GraphFacts DEF Tensors
<1>4. GraphTyping'
  <2>1. TallocrInv' /\ rounds' \in Nat /\ rounds' # 0
    BY <1>1 DEF TallocrInv, GraphTyping
  <2>2. node' \in 0..Len(g) + 1 /\ step' \in Nat /\ node' \notin Tensors(g) /\ node' # Len(g) + 1
    BY <1>1, <1>3 DEF GraphTyping
  <2> QED
    BY <1>1, <1>2, <2>1, <2>2 DEF GraphTyping
<1>5. Plan' = Plan /\ PlanOwners' = PlanOwners /\ Placed' = Placed
  <2>1. Plan' = Plan
    BY DEF Plan
  <2>2. PlanOwners' = PlanOwners
    BY <2>1 DEF PlanOwners
  <2> QED
    BY <2>1, <2>2 DEF Placed
<1>6. PlacesApart' /\ InChunk'
  BY <1>1, <1>5, NothingPlaced DEF Chunks
<1>7. Reserved'
  <2>1. \A t : PlanPlace(t)' = PlanPlace(t)
    BY <1>5 DEF PlanPlace
  <2> QED
    BY <1>1, <1>2, <1>5, <2>1 DEF Reserved, End
<1>8. AllFit'
  BY DEF AllFit, NeedsRealloc, StillFits
<1> QED
  BY <1>1, <1>4, <1>6, <1>7, <1>8 DEF GraphInv, Counts, OwnBlocks, KeptWhileRead

------------------------------------------------------------------------------
(* The theorems.                                                                                                           *)

LEMMA GraphInitInv == GraphInit => GraphInv
<1> SUFFICES ASSUME GraphInit PROVE GraphInv
  OBVIOUS
<1>1. /\ cgraph = <<>> /\ node = 0 /\ step = 0 /\ n_children = <<>> /\ n_views = <<>> /\ allocated = {} /\ addr = <<>>
      /\ reserved = <<>> /\ buffer = <<>> /\ rounds = 0 /\ TallocrInit
  BY DEF GraphInit, GraphInitIn
<1>2. Tensors(cgraph) = {} /\ Tensors(reserved) = {} /\ IsGraph(<<>>) /\ Len(<<>>) = 0
  BY <1>1 DEF Tensors, IsGraph
<1>3. GraphTyping
  BY <1>1, <1>2, InitInv DEF GraphTyping, Tensors
<1>4. PlanOwners = {} /\ Placed = {}
  BY <1>1, <1>2 DEF PlanOwners, Placed, Plan
<1> QED
  BY <1>1, <1>2, <1>3, <1>4
  DEF GraphInv, Counts, OwnBlocks, KeptWhileRead, PlacesApart, InChunk, Reserved, AllFit

LEMMA AllocGraphStep ==
  ASSUME GraphInv, NEW g \in NextGraphs, AllocGraph(g)
  PROVE  GraphInv'
<1>1. /\ node = 0 /\ rounds' = rounds + 1 /\ UNCHANGED <<reserved, buffer>>
      /\ IF NeedsRealloc(g)
         THEN StartWalk(g)
         ELSE cgraph' = g /\ UNCHANGED <<tallocrVars, node, step, n_children, n_views, allocated, addr>>
  BY DEF AllocGraph
<1>2. IsGraph(g)
  <2>1. CASE rounds = 0 \/ AnyTopology
    BY <2>1, GraphAllocAssumption DEF NextGraphs
  <2>2. CASE ~(rounds = 0 \/ AnyTopology)
    <3>1. g \in Resized(cgraph) /\ IsGraph(cgraph)
      BY <2>2 DEF NextGraphs, GraphInv, GraphTyping
    <3> QED
      BY <3>1, ResizedFacts
  <2> QED
    BY <2>1, <2>2
<1>3. CASE NeedsRealloc(g)
  BY <1>1, <1>2, <1>3, StartStep
<1>4. CASE ~NeedsRealloc(g)
  BY <1>1, <1>2, <1>4, ReuseStep
<1> QED
  BY <1>3, <1>4

\* What holds of the plan at every step, for all graphs that ggml can build with inputs for leafs, all sizes and any number of chunks:
\* the counts are the reads and views to come; a place is given back or taken over only when nobody reads it any more, itself or
\* through a view; what lies over an earlier tensor comes after all its readers and views; and between two walks the plan fits the
\* buffers, and the nodes at hand the plan.
\* Code: ggml_gallocr_alloc_graph_impl, ggml_gallocr_allocate_node, ggml_gallocr_free_node, ggml_gallocr_needs_realloc.
THEOREM GraphInvariant == GraphAllocSpec => []GraphInv
<1>1. GraphInit => GraphInv
  BY GraphInitInv
<1>2. GraphInv /\ [GraphNext]_<<tallocrVars, graphVars>> => GraphInv'
  <2> SUFFICES ASSUME GraphInv, [GraphNext]_<<tallocrVars, graphVars>> PROVE GraphInv'
    OBVIOUS
  <2>1. ASSUME NEW g \in NextGraphs, AllocGraph(g) PROVE GraphInv'
    BY <2>1, AllocGraphStep
  <2>2. ASSUME NEW t \in Tensors(cgraph), AllocateNothing(t) PROVE GraphInv'
    BY <2>2, NothingStep
  <2>3. ASSUME NEW t \in Tensors(cgraph), AllocateInplace(t) PROVE GraphInv'
    BY <2>3, InplaceStep
  <2>4. ASSUME NEW t \in Tensors(cgraph), AllocateNode(t) PROVE GraphInv'
    BY <2>4, AllocateStep
  <2>5. ASSUME NEW t \in Tensors(cgraph), Release(t) PROVE GraphInv'
    BY <2>5, ReleaseStep
  <2>6. CASE ReallocBuffers
    BY <2>6, ReallocStep
  <2>7. CASE UNCHANGED <<tallocrVars, graphVars>>
    <3>1. UNCHANGED <<chunks, live>> /\ UNCHANGED graphVars
      BY <2>7 DEF tallocrVars
    <3>2. TallocrInv' <=> TallocrInv
      BY <3>1 DEF TallocrInv
    <3>3. GraphTyping' <=> GraphTyping
      BY <3>1, <3>2 DEF GraphTyping, graphVars, Parents
    <3>4. \A u : Place(u)' = Place(u) /\ ToCome(u)' = ToCome(u)
      BY <3>1 DEF Place, ToCome, Pending, Parents, graphVars
    <3>5. \A u : OpenViews(u)' = OpenViews(u)
      BY <3>1, <3>4 DEF OpenViews, graphVars
    <3>6. Plan' = Plan /\ PlanOwners' = PlanOwners /\ Placed' = Placed /\ \A p : Pending(p)' <=> Pending(p)
      BY <3>1 DEF Plan, PlanOwners, Placed, Pending, Parents, graphVars
    <3>7. Counts' /\ OwnBlocks'
      BY <3>1, <3>4, <3>5, <3>6 DEF GraphInv, Counts, OwnBlocks, Chunks, graphVars
    <3>8. KeptWhileRead'
      BY <3>1, <3>6 DEF GraphInv, KeptWhileRead, Parents, graphVars
    <3>9. PlacesApart' /\ InChunk'
      BY <3>1, <3>6, NothingPlaced DEF GraphInv, Chunks, graphVars
    <3>10. Reserved' /\ AllFit'
      <4>1. \A u : PlanPlace(u)' = PlanPlace(u)
        BY <3>1, <3>6 DEF PlanPlace, graphVars
      <4> QED
        BY <3>1, <3>6, <4>1 DEF GraphInv, Reserved, AllFit, StillFits, End, graphVars
    <3> QED
      BY <3>3, <3>7, <3>8, <3>9, <3>10 DEF GraphInv
  <2> QED
    BY <2>1, <2>2, <2>3, <2>4, <2>5, <2>6, <2>7 DEF GraphNext
<1> QED
  BY <1>1, <1>2, PTL DEF GraphAllocSpec

\* What is planned and what is at hand, when the plan is for such a graph.
LEMMA PlanHolds ==
  ASSUME GraphInv, node = 0, PlanApplies
  PROVE  /\ IsGraph(cgraph) /\ IsGraph(reserved) /\ Plan = reserved /\ Tensors(reserved) = Tensors(cgraph)
         /\ \A t \in Tensors(cgraph) : /\ cgraph[t].op = reserved[t].op /\ cgraph[t].src = reserved[t].src
                                        /\ cgraph[t].view = reserved[t].view /\ cgraph[t].output = reserved[t].output
                                        /\ cgraph[t].external = reserved[t].external
         /\ Placed = Owners
         /\ \A t \in Owners : /\ addr[t].offset \in Nat
                              /\ End(Place(t)) <= End(PlanPlace(t)) /\ End(Place(t)) \in Nat /\ End(PlanPlace(t)) \in Nat
         /\ \A s, t \in Owners : Shares(t, s) => Overlap(t, s)
<1>1. GraphTyping /\ AllFit /\ Reserved /\ IsGraph(cgraph) /\ IsGraph(reserved)
  BY DEF GraphInv, GraphTyping
<1>2. Plan = reserved /\ Tensors(reserved) = Tensors(cgraph)
  BY <1>1 DEF Plan, Reserved, Tensors
<1>3. ASSUME NEW t \in Tensors(cgraph)
      PROVE  /\ cgraph[t].op = reserved[t].op /\ cgraph[t].src = reserved[t].src /\ cgraph[t].view = reserved[t].view
             /\ cgraph[t].output = reserved[t].output /\ cgraph[t].external = reserved[t].external
  <2>1. [cgraph[t] EXCEPT !.size = 0] = [reserved[t] EXCEPT !.size = 0]
    BY DEF PlanApplies
  <2>2. cgraph[t] \in TensorRecord /\ reserved[t] \in TensorRecord
    BY <1>1, <1>2, GraphFacts
  <2>3. ASSUME NEW x \in TensorRecord, NEW y \in TensorRecord, [x EXCEPT !.size = 0] = [y EXCEPT !.size = 0]
        PROVE  x.op = y.op /\ x.src = y.src /\ x.view = y.view /\ x.output = y.output /\ x.external = y.external
    <3>1. \A z \in TensorRecord :
            /\ [z EXCEPT !.size = 0].op = z.op /\ [z EXCEPT !.size = 0].src = z.src /\ [z EXCEPT !.size = 0].view = z.view
            /\ [z EXCEPT !.size = 0].output = z.output /\ [z EXCEPT !.size = 0].external = z.external
      BY DEF TensorRecord
    <3>2. [x EXCEPT !.size = 0].op = [y EXCEPT !.size = 0].op /\ [x EXCEPT !.size = 0].src = [y EXCEPT !.size = 0].src
          /\ [x EXCEPT !.size = 0].view = [y EXCEPT !.size = 0].view /\ [x EXCEPT !.size = 0].output = [y EXCEPT !.size = 0].output
          /\ [x EXCEPT !.size = 0].external = [y EXCEPT !.size = 0].external
      BY <2>3
    <3> QED
      BY <3>1, <3>2
  <2> QED
    BY <2>1, <2>2, <2>3
<1>4. \A t \in Tensors(cgraph) : Own(cgraph, t) <=> Own(reserved, t)
  BY <1>3 DEF Own
<1>5. Placed = Owners
  BY <1>2, <1>4 DEF Placed, PlanOwners, Owners
<1>6. ASSUME NEW t \in Owners PROVE cgraph[t].size <= reserved[t].size
  <2>1. t \in Tensors(cgraph) /\ Own(cgraph, t)
    BY DEF Owners
  <2>2. CASE t \notin Leafs(cgraph)
    BY <1>1, <2>1, <2>2 DEF AllFit, StillFits
  <2>3. CASE t \in Leafs(cgraph) /\ IsRead(cgraph, t)
    <3>1. PICK p \in AllReads(cgraph) : Source(cgraph, p) = t
      BY <2>3 DEF IsRead
    <3>2. /\ p[1] \in Tensors(cgraph) \ Leafs(cgraph) /\ p[2] \in 1..Len(cgraph[p[1]].src) /\ t = cgraph[p[1]].src[p[2]]
          /\ Len(cgraph[p[1]].src) \in Nat
      BY <1>1, <3>1, ReadFacts, GraphFacts, GraphAllocAssumption DEF Leafs
    <3>3. reserved[p[1]].src = cgraph[p[1]].src
      BY <1>3, <3>2
    <3>4. StillFits(cgraph, t, t)
      BY <1>1, <3>2, <3>3 DEF AllFit
    <3> QED
      BY <2>1, <3>4 DEF StillFits
  <2>4. CASE t \in Leafs(cgraph) /\ ~IsRead(cgraph, t)
    BY <2>4 DEF PlanApplies
  <2> QED
    BY <2>2, <2>3, <2>4
<1>7. ASSUME NEW t \in Owners
      PROVE  /\ addr[t].offset \in Nat
             /\ End(Place(t)) <= End(PlanPlace(t)) /\ End(Place(t)) \in Nat /\ End(PlanPlace(t)) \in Nat
  <2>1. reserved[t].size \in Nat
    BY <1>1, <1>2, GraphFacts DEF Owners
  <2>2. cgraph[t].size \in Nat /\ addr[t].offset \in Nat /\ End(Place(t)) = addr[t].offset + cgraph[t].size
    BY <1>1, OwnerFacts
  <2>3. End(PlanPlace(t)) = addr[t].offset + reserved[t].size
    BY <1>2 DEF PlanPlace, End, Block
  <2> QED
    BY <1>6, <2>1, <2>2, <2>3
<1>8. ASSUME NEW s \in Owners, NEW t \in Owners, Shares(t, s) PROVE Overlap(t, s)
  BY <1>7, <1>8 DEF Shares, Overlap
<1> QED
  BY <1>1, <1>2, <1>3, <1>5, <1>7, <1>8

\* Who may spoil what s holds after its tensor o was written: only the one node that takes the place of s over, and it neither after
\* an output, nor after a view of s that is not read.
LEMMA Spoilers ==
  ASSUME GraphInv, node = 0, PlanApplies, NEW o \in Tensors(cgraph), NEW s, s = Root(cgraph, o), s \in Owners,
         NEW k \in Nat, NEW w \in Tensors(cgraph), Overwrites(w, s, o, k)
  PROVE  LET r == Root(cgraph, w) IN
         /\ r \in Owners /\ r # s /\ Written(cgraph, s) <= Written(cgraph, r) /\ Overlap(r, s)
         /\ Written(cgraph, r) <= Written(cgraph, w) /\ Written(cgraph, w) \in Nat /\ Written(cgraph, r) \in Nat
         /\ w # r => w \in ViewsOf(cgraph, r)
<1> DEFINE r == Root(cgraph, w)
<1>1. /\ Writes(w) /\ r \in Owners /\ r # s /\ Written(cgraph, o) <= Written(cgraph, w) /\ Written(cgraph, w) <= k
      /\ Shares(r, s)
  BY DEF Overwrites
<1>2. IsGraph(cgraph)
  BY PlanHolds
<1>3. /\ w \in Nat /\ o \in Nat /\ r \in Tensors(cgraph) /\ r \in Nat /\ r <= w /\ s \in Tensors(cgraph) /\ s \in Nat /\ s <= o
      /\ (cgraph[w].view # 0 => r < w) /\ (cgraph[o].view # 0 => s < o)
  BY <1>2, GraphFacts, RootFacts
<1>4. \A t \in Tensors(cgraph) : t \in Nat /\ Written(cgraph, t) \in Nat /\ Written(cgraph, t) <= t
                                /\ (t \in Leafs(cgraph) => Root(cgraph, t) = t)
  BY <1>2, GraphFacts DEF Written, Leafs, Root
<1>5. \A t \in Tensors(cgraph) : Written(cgraph, Root(cgraph, t)) <= Written(cgraph, t)
  <2> SUFFICES ASSUME NEW t \in Tensors(cgraph) PROVE Written(cgraph, Root(cgraph, t)) <= Written(cgraph, t)
    OBVIOUS
  <2>1. Root(cgraph, t) \in Tensors(cgraph) /\ Root(cgraph, t) \in Nat /\ Root(cgraph, t) <= t
    BY <1>2, RootFacts
  <2> QED
    BY <1>4, <2>1 DEF Written
<1>6. w # r => w \in ViewsOf(cgraph, r)
  <2> SUFFICES ASSUME w # r PROVE w \in ViewsOf(cgraph, r)
    OBVIOUS
  <2>1. cgraph[w].view = r /\ w \notin Leafs(cgraph)
    BY <1>4 DEF Root
  <2>2. cgraph[w].op # "dependency"
    BY <1>1, <2>1 DEF Writes, Computes
  <2> QED
    BY <2>1, <2>2 DEF ViewsOf
<1>7. Overlap(r, s) /\ Overlap(s, r)
  <2>1. Overlap(r, s)
    BY <1>1, PlanHolds
  <2> QED
    BY <2>1 DEF Overlap
\* Had s come later, then over r, whose views would all be past; but w writes into r after s is written.
<1>8. Written(cgraph, s) <= Written(cgraph, r)
  <2> SUFFICES ASSUME ~(Written(cgraph, s) <= Written(cgraph, r)) PROVE FALSE
    OBVIOUS
  <2>1. Written(cgraph, r) <= Written(cgraph, s) /\ Written(cgraph, r) < Written(cgraph, s)
    BY <1>3, <1>4
  <2>2. Written(cgraph, s) <= Written(cgraph, w)
    <3>1. Written(cgraph, s) <= Written(cgraph, o)
      BY <1>5
    <3> QED
      BY <1>1, <1>3, <1>4, <3>1
  <2>3. w # r
    BY <1>3, <1>4, <2>1, <2>2
  <2>4. w < Written(cgraph, s)
    <3>1. \A t \in Tensors(cgraph) : Written(Plan, t) = Written(cgraph, t)
      BY PlanHolds DEF Written, Leafs
    <3>2. ViewsOf(Plan, r) = ViewsOf(cgraph, r)
      BY PlanHolds DEF ViewsOf
    <3>3. r \in Placed /\ s \in Placed
      BY <1>1, PlanHolds
    <3> QED
      BY <1>1, <1>3, <1>6, <1>7, <2>1, <2>3, <3>1, <3>2, <3>3 DEF GraphInv, PlacesApart
  <2> QED
    BY <1>3, <1>4, <2>2, <2>4
<1> QED
  BY <1>1, <1>3, <1>4, <1>5, <1>6, <1>7, <1>8

\* While a node is computed, each tensor that it reads, itself or through a view, still has what was written to it: for all graphs,
\* all sizes and any number of chunks, also when an old plan is used again for a graph of the same wiring.
\* Code: ggml_gallocr_allocate_node, ggml_gallocr_free_node.
THEOREM NodesReadWhatWasWritten == GraphAllocSpec => []ReadsWhatWasWritten
<1>1. GraphInv => ReadsWhatWasWritten
  <2> SUFFICES ASSUME GraphInv, node = 0, PlanApplies, NEW k \in Tensors(cgraph), Computes(k),
                      NEW i \in 1..Len(cgraph[k].src), NEW w \in Tensors(cgraph),
                      NEW s, s = Root(cgraph, cgraph[k].src[i]), s \in Owners, Overwrites(w, s, s, k)
               PROVE  w = k /\ cgraph[k].op = "inplace" /\ addr[k] = addr[s] /\ SameLayout(k, s)
    BY DEF ReadsWhatWasWritten, GraphReads
  <2> DEFINE p == <<k, i>>
             r == Root(cgraph, w)
  <2>1. /\ IsGraph(cgraph) /\ IsGraph(reserved) /\ Plan = reserved /\ Tensors(reserved) = Tensors(cgraph) /\ Placed = Owners
        /\ \A t \in Tensors(cgraph) : cgraph[t].op = reserved[t].op /\ cgraph[t].src = reserved[t].src
                                       /\ cgraph[t].view = reserved[t].view
    BY PlanHolds
  <2>2. p \in AllReads(cgraph) /\ Source(cgraph, p) = cgraph[k].src[i] /\ p[1] = k
    BY <2>1, ReadIs
  <2>3. s \in Tensors(cgraph) /\ s = Root(cgraph, s) /\ k \in Nat
    <3>1. s \in Tensors(cgraph) /\ Own(cgraph, s)
      BY DEF Owners
    <3> QED
      BY <2>1, <3>1, GraphFacts DEF Own, Root
  <2>4. /\ r \in Owners /\ r # s /\ Written(cgraph, s) <= Written(cgraph, r) /\ Overlap(r, s)
        /\ Written(cgraph, r) <= Written(cgraph, w) /\ Written(cgraph, w) \in Nat /\ Written(cgraph, r) \in Nat
    BY <2>3, Spoilers
  <2>5. Written(cgraph, w) <= k /\ Written(cgraph, r) <= k
    BY <2>3, <2>4 DEF Overwrites
  <2>6. r = k /\ TookOver(r, s)
    <3>1. p \in AllReads(Plan) /\ Source(Plan, p) = Source(cgraph, p)
      BY <2>1, <2>2 DEF AllReads, Source
    <3>2. Root(Plan, Source(Plan, p)) = s
      <4>1. Source(cgraph, p) \in Tensors(cgraph)
        BY <2>1, <2>2, ReadFacts
      <4> QED
        BY <2>1, <2>2, <3>1, <4>1 DEF Root
    <3>3. \A t \in Tensors(cgraph) : Written(Plan, t) = Written(cgraph, t)
      BY <2>1 DEF Written, Leafs
    <3>4. r \in Tensors(cgraph) /\ r \in Placed /\ s \in Placed
      BY <2>1, <2>4 DEF Owners
    <3> HIDE DEF r, p
    <3> QED
      BY <2>2, <2>3, <2>4, <2>5, <3>1, <3>2, <3>3, <3>4 DEF GraphInv, PlacesApart
  <2>7. w = k
    <3>1. w \in Nat /\ r <= w /\ (w \in Leafs(cgraph) => r = w)
      BY <2>1, GraphFacts, RootFacts DEF Leafs, Root
    <3> QED
      BY <2>3, <2>5, <2>6, <3>1 DEF Written
  <2>8. cgraph[k].op = "inplace" /\ addr[k] = addr[s] /\ reserved[k].size = reserved[s].size
    BY <2>1, <2>3, <2>6 DEF TookOver
  <2> QED
    BY <2>3, <2>7, <2>8 DEF PlanApplies
<1> QED
  BY <1>1, GraphInvariant, PTL

\* An output that owns its place, or is a view that no node reads, is there when the graph is done: in any graph that the plan is
\* for. Code: ggml_gallocr_free_node, ggml_gallocr_allocate_node.
THEOREM OutputsAreKept == GraphAllocSpec => []OutputsStay
<1>1. GraphInv => OutputsStay
  <2> SUFFICES ASSUME GraphInv, node = 0, PlanApplies, NEW o \in Tensors(cgraph), cgraph[o].output,
                      IsView(o) => cgraph[o].op # "dependency" /\ ~IsRead(cgraph, o),
                      NEW s, s = Root(cgraph, o), s \in Owners, NEW w \in Tensors(cgraph), Overwrites(w, s, o, Len(cgraph))
               PROVE  FALSE
    BY DEF OutputsStay, StaysUntilDone
  <2> DEFINE r == Root(cgraph, w)
  <2>1. /\ IsGraph(cgraph) /\ Plan = reserved /\ Tensors(reserved) = Tensors(cgraph) /\ Placed = Owners
        /\ \A t \in Tensors(cgraph) : cgraph[t].op = reserved[t].op /\ cgraph[t].src = reserved[t].src
                                       /\ cgraph[t].view = reserved[t].view /\ cgraph[t].output = reserved[t].output
    BY PlanHolds
  <2>2. Len(cgraph) \in Nat
    BY <2>1, GraphFacts
  <2>3. r \in Owners /\ r # s /\ Written(cgraph, s) <= Written(cgraph, r) /\ Overlap(r, s)
    BY <2>2, Spoilers
  <2>4. /\ \A t \in Tensors(cgraph) : Written(Plan, t) = Written(cgraph, t)
        /\ ViewsOf(Plan, s) = ViewsOf(cgraph, s) /\ AllReads(Plan) = AllReads(cgraph)
        /\ \A p \in AllReads(cgraph) : Source(Plan, p) = Source(cgraph, p)
    BY <2>1 DEF Written, Leafs, ViewsOf, AllReads, Source
  <2>5. /\ ~reserved[s].output
        /\ \A u \in ViewsOf(cgraph, s) : IsRead(Plan, u)
    <3>1. r \in Tensors(cgraph) /\ s \in Tensors(cgraph) /\ r \in Placed /\ s \in Placed
      BY <2>1, <2>3 DEF Owners
    <3> HIDE DEF r
    <3> QED
      BY <2>1, <2>3, <2>4, <3>1 DEF GraphInv, PlacesApart
  <2>6. CASE IsView(o)
    <3>1. o \in ViewsOf(cgraph, s)
      BY <2>6 DEF ViewsOf, Root, IsView
    <3>2. IsRead(cgraph, o)
      BY <2>4, <2>5, <3>1 DEF IsRead
    <3> QED
      BY <2>6, <3>2
  <2>7. CASE ~IsView(o)
    BY <2>1, <2>5, <2>7 DEF Root, IsView
  <2> QED
    BY <2>6, <2>7
<1> QED
  BY <1>1, GraphInvariant, PTL

\* Every tensor lies in its chunk's buffer, also when old buffers and an old plan are used again for another graph: the nodes
\* whatever its wiring is, and the leafs when it is the plan's and none that is not read has grown.
\* Code: ggml_gallocr_reserve_n_impl, ggml_gallocr_needs_realloc.
THEOREM TensorsInBuffer == GraphAllocSpec => []InBuffer
<1>1. GraphInv => InBuffer
  <2> SUFFICES ASSUME GraphInv, node = 0, NEW t \in Owners, t \in Leafs(cgraph) => PlanApplies
               PROVE  addr[t].chunk \in 1..Len(buffer) /\ End(Place(t)) <= buffer[addr[t].chunk]
    BY DEF InBuffer
  <2>1. GraphTyping /\ AllFit /\ Reserved /\ InChunk /\ IsGraph(cgraph) /\ IsGraph(reserved) /\ Plan = reserved
    BY DEF GraphInv, GraphTyping, Plan
  <2>2. t \in Tensors(cgraph) /\ Own(cgraph, t) /\ Tensors(reserved) = Tensors(cgraph)
    BY <2>1 DEF Owners, Reserved, Tensors
  <2>3. t \in PlanOwners /\ End(Place(t)) <= End(PlanPlace(t)) /\ End(Place(t)) \in Nat /\ End(PlanPlace(t)) \in Nat
    <3>1. CASE t \in Leafs(cgraph)
      BY <3>1, PlanHolds DEF Placed
    <3>2. CASE t \notin Leafs(cgraph)
      <4>1. Own(reserved, t) /\ reserved[t].size >= cgraph[t].size
        BY <2>1, <2>2, <3>2 DEF AllFit, StillFits
      <4>2. reserved[t].size \in Nat
        BY <2>1, <2>2, GraphFacts
      <4>3. cgraph[t].size \in Nat /\ addr[t].offset \in Nat /\ End(Place(t)) = addr[t].offset + cgraph[t].size
        BY <2>1, OwnerFacts
      <4>4. End(PlanPlace(t)) = addr[t].offset + reserved[t].size
        BY <2>1 DEF PlanPlace, End, Block
      <4>5. t \in PlanOwners
        BY <2>1, <2>2, <4>1 DEF PlanOwners
      <4> QED
        BY <4>1, <4>2, <4>3, <4>4, <4>5
    <3> QED
      BY <3>1, <3>2
  <2>4. addr[t].chunk <= Len(buffer) /\ End(PlanPlace(t)) <= buffer[addr[t].chunk] /\ addr[t].chunk \in Chunks
    BY <2>1, <2>3 DEF Reserved, InChunk, Placed
  <2>5. addr[t].chunk \in 1..Len(buffer) /\ buffer \in Seq(Nat)
    BY <2>1, <2>4 DEF Chunks, GraphTyping
  <2>6. buffer[addr[t].chunk] \in Nat
    BY <2>5
  <2> QED
    BY <2>3, <2>4, <2>5, <2>6
<1> QED
  BY <1>1, GraphInvariant, PTL
=============================================================================
