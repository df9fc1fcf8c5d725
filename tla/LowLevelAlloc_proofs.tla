---- MODULE LowLevelAlloc_proofs ----
(* Proofs about the low level allocator, for any blocks, sizes, requests, levels and width of
   a word: the properties of its free list, and that it implements BlockPool. *)
EXTENDS LowLevelAlloc, AllocMath_proofs, FiniteSetTheorems, SequenceTheorems

\* An outcome that ends the process.
Dead(m) == m.status \in {"hung", "fault", "check", "refused"}

\* A list head and the null pointer are no blocks, and there are finitely many blocks in a word.
LEMMA BlockFacts ==
    /\ Blocks \subseteq Nat /\ freelist \notin Blocks /\ NULL \notin Blocks /\ NULL # freelist
    /\ Nodes = Blocks \cup {freelist} /\ Blocks \subseteq Nodes /\ freelist \in Nodes
    /\ 0 \in Levels /\ Levels \subseteq Nat
    /\ IsFiniteSet(Blocks) /\ Cardinality(Blocks) \in Nat
    /\ \A b \in Blocks : SizeOf[b] \in Nat /\ SizeOf[b] > HeaderSize
<1>1. Blocks \subseteq 0 .. WordSize
    BY AllocAssumption, MathAssumption
<1>2. IsFiniteSet(Blocks)
    <2>1. 0 \in Int /\ WordSize \in Int
        BY MathAssumption
    <2>2. IsFiniteSet(0 .. WordSize)
        BY <2>1, FS_Interval, Zenon
    <2> QED
        BY <1>1, <2>2, FS_Subset, Zenon
<1>3. Cardinality(Blocks) \in Nat
    BY <1>2, FS_CardinalityType
<1> QED
    BY <1>2, <1>3, AllocAssumption, MathAssumption DEF Nodes, freelist, NULL, Levels

\* A failed check, a wild access and an endless loop end the process.
LEMMA EndsDead ==
    ASSUME NEW m \in Memories, NEW how \in SUBSET {"hung", "fault", "check"}, NEW x \in Ends(m, how)
    PROVE  Dead(x)
BY DEF Ends, Dead, Memories

\* A search changes nothing (low_level_alloc.c:84-92).
LEMMA SearchOutcome ==
    ASSUME NEW m \in Memories, NEW e, NEW known \in BOOLEAN,
           NEW x \in lla_skip_list_search(m, e, known)
    PROVE  x = m \/ Dead(x)
BY EndsDead DEF lla_skip_list_search

\* An insertion links the element in front (low_level_alloc.c:94-103).
LEMMA InsertOutcome ==
    ASSUME NEW m \in Memories, m.status = "running", NEW e, NEW known \in BOOLEAN,
           NEW x \in lla_skip_list_insert(m, e, known)
    PROVE  x = LinkFirst(m, e) \/ Dead(x)
BY SearchOutcome DEF lla_skip_list_insert, Then, Dead

\* A deletion unlinks the first element and no other (low_level_alloc.c:105-114).
LEMMA DeleteOutcome ==
    ASSUME NEW m \in Memories, m.status = "running", NEW e, NEW known \in BOOLEAN,
           NEW x \in lla_skip_list_delete(m, e, known)
    PROVE  (e = Found(m) /\ x = Unlink(m, e)) \/ Dead(x)
BY SearchOutcome, EndsDead DEF lla_skip_list_delete, Then, Dead

\* A block gets between one level and the most (low_level_alloc.c:75-82).
LEMMA SetLevelsOutcome ==
    ASSUME NEW m \in Memories, NEW b \in Nodes, arena.min_size \in Nat, NEW x \in SetLevels(m, b)
    PROVE  (\E l \in 1 .. MaxLevel - 1 : x = [m EXCEPT !.levels[b] = l]) \/ Dead(x)
<1>1. m.size[b] \in Nat
    BY DEF Memories
<1>2. PICK l \in lla_skip_list_levels(m.size[b], arena.min_size, TRUE) :
          x \in IF l = 0 THEN Ends(m, {"check"}) ELSE {[m EXCEPT !.levels[b] = l]}
    BY DEF SetLevels
<1>3. l \in 0 .. MaxLevel - 1
    BY <1>1, <1>2, LevelsOK
<1>4. CASE l = 0
    BY <1>2, <1>4, EndsDead
<1>5. CASE l # 0
    BY <1>2, <1>3, <1>5, MathAssumption
<1> QED
    BY <1>4, <1>5

\* Nothing is merged: coalesce leaves the first block as it is, or ends the process
\* in the deletion of its neighbour, which is not the first (low_level_alloc.c:245-258).
LEMMA CoalesceOutcome ==
    ASSUME NEW m \in Memories, m.status = "running", NEW a \in Blocks, m.next[freelist][0] = a,
           m.levels[freelist] # 0, m.size[a] > 0, NEW x \in coalesce(m, a)
    PROVE  x = m \/ Dead(x)
<1> DEFINE n == m.next[a][0]
           w == [m EXCEPT !.size[a] = @ + m.size[n], !.magic[n] = "none"]
<1>1. CASE n = NULL \/ a + m.size[a] # n
    BY <1>1 DEF coalesce
<1>2. CASE n # NULL /\ a + m.size[a] = n
    <2>1. n \in Blocks /\ n # a /\ a \in Nodes /\ n \in Nodes
        BY <1>2, BlockFacts DEF Memories
    <2>2. w \in Memories /\ w.status = "running" /\ w.next = m.next /\ w.levels = m.levels
        <3>1. m.size[a] + m.size[n] \in Nat
            BY <2>1 DEF Memories
        <3>2. [m.size EXCEPT ![a] = @ + m.size[n]] \in [Nodes -> Nat]
            BY <3>1 DEF Memories
        <3>3. [m.magic EXCEPT ![n] = "none"] \in [Nodes -> {"unallocated", "allocated", "none"}]
            BY DEF Memories
        <3>4. w = [m EXCEPT !.size = [m.size EXCEPT ![a] = @ + m.size[n]],
                            !.magic = [m.magic EXCEPT ![n] = "none"]]
            BY DEF Memories
        <3> QED
            BY <3>2, <3>3, <3>4 DEF Memories
    <2>3. Found(w) # n
        BY <2>1, <2>2 DEF Found
    <2>4. \A y \in lla_skip_list_delete(w, n, FALSE) : Dead(y)
        BY <2>2, <2>3, DeleteOutcome
    <2>5. x \in lla_skip_list_delete(w, n, FALSE)
        <3> HIDE DEF w
        <3>1. \A y \in lla_skip_list_delete(w, n, FALSE) : y.status # "running"
            BY <2>4 DEF Dead
        <3>2. x \in Then(lla_skip_list_delete(w, n, FALSE),
                  LAMBDA z : Then(lla_skip_list_delete(z, a, TRUE),
                  LAMBDA y : Then(SetLevels(y, a),
                  LAMBDA u : lla_skip_list_insert(u, a, TRUE))))
            BY <1>2 DEF coalesce, w
        <3> QED
            BY <3>1, <3>2 DEF Then
    <2> QED
        BY <2>4, <2>5
<1> QED
    BY <1>1, <1>2

\* Block f in front of the free list, with l levels.
Pushed(m, f, l) == [LinkFirst([m EXCEPT !.levels[f] = l], f) EXCEPT !.magic[f] = "unallocated"]

\* A block that is linked in front changes the head, and nothing of the blocks behind it
\* (low_level_alloc.c:94-103, 260-270).
LEMMA LinkedFields ==
    ASSUME NEW m \in Memories, NEW f \in Blocks, NEW l \in 1 .. MaxLevel - 1,
           NEW x, x = LinkFirst([m EXCEPT !.levels[f] = l], f)
    PROVE  /\ x \in Memories
           /\ x.size = m.size /\ x.count = m.count /\ x.asked = m.asked /\ x.status = m.status
           /\ x.magic = m.magic
           /\ x.levels[freelist] \in {m.levels[freelist], l}
           /\ x.levels[freelist] >= m.levels[freelist] /\ x.levels[freelist] >= l
           /\ \A b \in Blocks : x.levels[b] = IF b = f THEN l ELSE m.levels[b]
           /\ \A k \in Levels : x.next[freelist][k] = IF k < l THEN f ELSE m.next[freelist][k]
           /\ \A b \in Blocks, k \in Levels :
                 x.next[b][k] = IF b = f /\ k < l THEN m.next[freelist][k] ELSE m.next[b][k]
<1> DEFINE w == [m EXCEPT !.levels[f] = l]
           lev == [w.levels EXCEPT ![freelist] = Max({@, l})]
           fnext == [k \in Levels |-> IF k \in 0 .. l - 1 THEN m.next[freelist][k] ELSE m.next[f][k]]
           hnext == [k \in Levels |-> IF k \in 0 .. l - 1 THEN f ELSE m.next[freelist][k]]
           nxt == [[m.next EXCEPT ![f] = fnext] EXCEPT ![freelist] = hnext]
<1>0. f \in Nodes /\ freelist \in Nodes /\ f # freelist /\ l \in Levels /\ l \in Nat /\ Levels \subseteq Nat
    BY BlockFacts, MathAssumption DEF Levels
<1>1. w = [m EXCEPT !.levels = [m.levels EXCEPT ![f] = l]] /\ w \in Memories
    BY <1>0 DEF Memories
<1>2. w.levels = [m.levels EXCEPT ![f] = l] /\ w.next = m.next /\ w.size = m.size
      /\ w.magic = m.magic /\ w.count = m.count /\ w.asked = m.asked /\ w.status = m.status
    BY <1>1 DEF Memories
<1>3. w.levels[f] = l /\ w.levels[freelist] = m.levels[freelist] /\ m.levels[freelist] \in Levels
    BY <1>0, <1>2 DEF Memories
<1>4. x = [w EXCEPT !.levels = lev, !.next = nxt]
    <2> HIDE DEF w
    <2>1. x = LinkFirst(w, f)
        BY DEF w
    <2>2. m.next \in [Nodes -> [Levels -> Blocks \cup {NULL}]]
        BY DEF Memories
    <2>3. nxt = [w.next EXCEPT ![f] = [k \in Levels |-> IF k \in 0 .. l - 1 THEN w.next[freelist][k] ELSE @[k]],
                               ![freelist] = [k \in Levels |-> IF k \in 0 .. l - 1 THEN f ELSE @[k]]]
        BY <1>0, <1>2, <2>2
    <2>4. x = [w EXCEPT !.levels[freelist] = Max({@, l}),
                        !.next[f] = [k \in Levels |-> IF k \in 0 .. l - 1 THEN w.next[freelist][k] ELSE @[k]],
                        !.next[freelist] = [k \in Levels |-> IF k \in 0 .. l - 1 THEN f ELSE @[k]]]
        BY <1>3, <2>1 DEF LinkFirst
    <2> QED
        BY <1>1, <2>3, <2>4 DEF Memories
<1>5. Max({m.levels[freelist], l}) \in {m.levels[freelist], l}
      /\ Max({m.levels[freelist], l}) >= m.levels[freelist] /\ Max({m.levels[freelist], l}) >= l
    BY <1>0, <1>3, MaxOK
<1>6. lev \in [Nodes -> Levels] /\ lev[freelist] = Max({m.levels[freelist], l})
      /\ \A b \in Blocks : lev[b] = IF b = f THEN l ELSE m.levels[b]
    BY <1>0, <1>1, <1>2, <1>3, <1>5, BlockFacts DEF Memories
<1>7. fnext \in [Levels -> Blocks \cup {NULL}] /\ hnext \in [Levels -> Blocks \cup {NULL}]
    BY <1>0 DEF Memories
<1>8. nxt \in [Nodes -> [Levels -> Blocks \cup {NULL}]] /\ nxt[freelist] = hnext /\ nxt[f] = fnext
      /\ \A b \in Blocks \ {f} : nxt[b] = m.next[b]
    <2> HIDE DEF fnext, hnext
    <2> QED
        BY <1>0, <1>7, BlockFacts DEF Memories
<1>9. x \in Memories /\ x.levels = lev /\ x.next = nxt
      /\ x.size = w.size /\ x.count = w.count /\ x.asked = w.asked /\ x.status = w.status
      /\ x.magic = w.magic
    <2> HIDE DEF lev, nxt, w
    <2> QED
        BY <1>1, <1>4, <1>6, <1>8 DEF Memories
<1>10. /\ \A k \in Levels : hnext[k] = IF k < l THEN f ELSE m.next[freelist][k]
       /\ \A k \in Levels : fnext[k] = IF k < l THEN m.next[freelist][k] ELSE m.next[f][k]
    BY <1>0
<1> HIDE DEF w, lev, nxt, fnext, hnext
<1>11. \A b \in Blocks, k \in Levels :
          x.next[b][k] = IF b = f /\ k < l THEN m.next[freelist][k] ELSE m.next[b][k]
    BY <1>8, <1>9, <1>10
<1> QED
    BY <1>0, <1>2, <1>5, <1>6, <1>8, <1>9, <1>10, <1>11

\* The largest of some numbers up to a bound.
LEMMA MaxBounded ==
    ASSUME NEW n \in Nat, NEW S \in SUBSET (0 .. n), S # {}
    PROVE  Max(S) \in S /\ \A s \in S : s <= Max(S)
<1> DEFINE T == {n - s : s \in S}
<1>0. \A s \in S : s \in Int /\ s <= n
    OBVIOUS
<1>1. T \in SUBSET Nat /\ T # {}
    <2>1. \A t \in T : t \in Nat
        BY <1>0
    <2>2. PICK s \in S : TRUE
        OBVIOUS
    <2>3. n - s \in T
        OBVIOUS
    <2> QED
        BY <2>1, <2>3
<1>2. Min(T) \in T /\ \A t \in T : Min(T) <= t
    BY <1>1, MinOK
<1>3. PICK x \in S : Min(T) = n - x
    BY <1>2
<1>4. \A y \in S : x >= y
    <2> TAKE y \in S
    <2>1. n - y \in T
        OBVIOUS
    <2>2. n - x <= n - y
        BY <1>2, <1>3, <2>1
    <2> QED
        BY <1>0, <2>2
<1> QED
    BY <1>4 DEF Max

\* The first block that leaves the list gives its links to the head, which sinks to the
\* highest link that is left (low_level_alloc.c:105-114).
LEMMA UnlinkedFields ==
    ASSUME NEW m \in Memories, NEW f \in Blocks,
           \A k \in Levels : k < m.levels[f] => m.next[freelist][k] = f,
           NEW x, x = Unlink(m, f)
    PROVE  /\ x \in Memories
           /\ x.size = m.size /\ x.count = m.count /\ x.asked = m.asked /\ x.status = m.status
           /\ x.magic = m.magic
           /\ x.levels[freelist] <= m.levels[freelist]
           /\ \/ x.levels[freelist] = 0
              \/ x.levels[freelist] > 0 /\ x.next[freelist][x.levels[freelist] - 1] # NULL
           /\ \A k \in 1 .. m.levels[freelist] :
                 x.next[freelist][k - 1] # NULL => k <= x.levels[freelist]
           /\ \A b \in Blocks : x.levels[b] = m.levels[b] /\ x.next[b] = m.next[b]
           /\ \A k \in Levels :
                 x.next[freelist][k] = IF k < m.levels[f] THEN m.next[f][k] ELSE m.next[freelist][k]
<1> DEFINE off == {k \in 0 .. m.levels[f] - 1 : \A j \in 0 .. k : m.next[freelist][j] = f}
           links == [k \in Levels |-> IF k \in off THEN m.next[f][k] ELSE m.next[freelist][k]]
           H == m.levels[freelist]
           left == {0} \cup {k \in 1 .. H : links[k - 1] # NULL}
<1>0. f \in Nodes /\ freelist \in Nodes /\ f # freelist /\ m.levels[f] \in Levels /\ H \in Levels
    BY BlockFacts DEF Memories
<1>a. m.levels[f] \in Nat /\ Levels \subseteq Nat
    BY <1>0, BlockFacts
<1>1. off = 0 .. m.levels[f] - 1
    <2>1. 0 .. m.levels[f] - 1 \subseteq Levels
        BY <1>0, MathAssumption DEF Levels
    <2>2. ASSUME NEW k \in 0 .. m.levels[f] - 1, NEW j \in 0 .. k PROVE m.next[freelist][j] = f
        <3>1. j \in 0 .. m.levels[f] - 1 /\ j < m.levels[f]
            BY <1>a
        <3> QED
            BY <2>1, <3>1
    <2> QED
        BY <2>2
<1>2. links \in [Levels -> Blocks \cup {NULL}]
    <2> HIDE DEF off
    <2> QED
        BY <1>0 DEF Memories
<1>3. x = [m EXCEPT !.next[freelist] = links, !.levels[freelist] = Max(left)]
    BY DEF Unlink
<1>4. H \in Nat /\ left \in SUBSET (0 .. H) /\ left # {}
    <2>1. H \in Nat
        BY <1>0, BlockFacts
    <2> HIDE DEF H, links
    <2> QED
        BY <2>1
<1> HIDE DEF left
<1>5. Max(left) \in left /\ \A k \in left : k <= Max(left)
    BY <1>4, MaxBounded
<1>6. Max(left) \in Levels
    <2>1. PICK h \in 0 .. H : h = Max(left)
        BY <1>4, <1>5
    <2>2. MaxLevel \in Nat /\ H \in 0 .. MaxLevel - 1
        BY <1>0, MathAssumption DEF Levels
    <2> HIDE DEF H, links
    <2>3. h \in 0 .. MaxLevel - 1
        BY <2>2
    <2> QED
        BY <2>1, <2>3 DEF Levels
<1> HIDE DEF links
<1>7. x = [m EXCEPT !.next = [m.next EXCEPT ![freelist] = links],
                    !.levels = [m.levels EXCEPT ![freelist] = Max(left)]]
    BY <1>3 DEF Memories
<1>8. /\ [m.next EXCEPT ![freelist] = links] \in [Nodes -> [Levels -> Blocks \cup {NULL}]]
      /\ [m.levels EXCEPT ![freelist] = Max(left)] \in [Nodes -> Levels]
    BY <1>2, <1>6 DEF Memories
<1>9. /\ x \in Memories
      /\ x.size = m.size /\ x.count = m.count /\ x.asked = m.asked /\ x.status = m.status
      /\ x.magic = m.magic
      /\ x.next = [m.next EXCEPT ![freelist] = links]
      /\ x.levels = [m.levels EXCEPT ![freelist] = Max(left)]
    BY <1>7, <1>8 DEF Memories
<1>10. x.levels[freelist] = Max(left) /\ x.next[freelist] = links
       /\ \A b \in Blocks : x.levels[b] = m.levels[b] /\ x.next[b] = m.next[b]
    BY <1>0, <1>9, BlockFacts DEF Memories
<1>11. \A k \in Levels : links[k] = IF k < m.levels[f] THEN m.next[f][k] ELSE m.next[freelist][k]
    <2>1. \A k \in Levels : k \in off <=> k < m.levels[f]
        <3> HIDE DEF off
        <3> QED
            BY <1>1, <1>a
    <2> HIDE DEF off
    <2> QED
        BY <2>1 DEF links
<1>12. Max(left) <= H /\ (Max(left) = 0 \/ (Max(left) > 0 /\ links[Max(left) - 1] # NULL))
    BY <1>4, <1>5 DEF left
<1>13. \A k \in 1 .. H : links[k - 1] # NULL => k <= Max(left)
    BY <1>5 DEF left
<1> QED
    BY <1>9, <1>10, <1>11, <1>12, <1>13

\* What coalesce does with the list head, whose size is 0: nothing (low_level_alloc.c:245-258).
LEMMA CoalesceHead ==
    ASSUME NEW m, m.size[freelist] = 0, m.next[freelist][0] # freelist
    PROVE  coalesce(m, freelist) = {m}
<1>1. freelist + m.size[freelist] = freelist
    BY DEF freelist
<1> QED
    BY <1>1 DEF coalesce

\* A block that is handed over by its user's address goes in front of the list if it is
\* marked allocated, and anything else ends the process (low_level_alloc.c:260-270).
LEMMA AddOutcome ==
    ASSUME NEW m \in Memories, m.status = "running", arena.min_size \in Nat, NEW v,
           m.size[freelist] = 0, \A b \in Blocks : m.size[b] > 0,
           NEW x \in add_to_free_list(m, v)
    PROVE  \/ Dead(x)
           \/ LET f == v - HeaderSize
              IN  /\ f \in Blocks /\ m.magic[f] = "allocated"
                  /\ \E l \in 1 .. MaxLevel - 1 : x = Pushed(m, f, l)
<1> DEFINE f == v - HeaderSize
<1>1. CASE f \notin Blocks \/ m.magic[f] # "allocated"
    BY <1>1, EndsDead DEF add_to_free_list
<1>2. CASE f \in Blocks /\ m.magic[f] = "allocated"
    <2> DEFINE Marked(y) == [y EXCEPT !.magic[f] = "unallocated"]
               Last(y) == coalesce(y, freelist)
               Merge(y) == Then(coalesce(Marked(y), f), Last)
               Link(w) == Then(lla_skip_list_insert(w, f, FALSE), Merge)
    <2>0. f \in Nodes /\ freelist \in Nodes /\ f # freelist
        BY <1>2, BlockFacts
    <2>1. x \in Then(SetLevels(m, f), Link)
        BY <1>2 DEF add_to_free_list
    <2> HIDE DEF Link
    <2>2. PICK w \in SetLevels(m, f) : x \in IF w.status = "running" THEN Link(w) ELSE {w}
        BY <2>1 DEF Then
    <2>3. CASE Dead(w)
        BY <2>2, <2>3 DEF Dead
    <2>4. ASSUME NEW l \in 1 .. MaxLevel - 1, w = [m EXCEPT !.levels[f] = l]
          PROVE  Dead(x) \/ x = Pushed(m, f, l)
        <3>1. w \in Memories /\ w.status = "running"
            <4>1. l \in Levels
                BY MathAssumption DEF Levels
            <4>2. w = [m EXCEPT !.levels = [m.levels EXCEPT ![f] = l]]
                BY <2>4 DEF Memories
            <4> QED
                BY <4>1, <4>2 DEF Memories
        <3> HIDE DEF Merge
        <3>2. PICK y \in lla_skip_list_insert(w, f, FALSE) :
                  x \in IF y.status = "running" THEN Merge(y) ELSE {y}
            BY <2>2, <3>1 DEF Then, Link
        <3>3. CASE Dead(y)
            BY <3>2, <3>3 DEF Dead
        <3>4. CASE y = LinkFirst(w, f)
            <4> DEFINE z == Marked(y)
            <4>1. /\ y \in Memories /\ y.size = m.size /\ y.status = "running"
                  /\ y.levels[freelist] >= l
                  /\ y.next[freelist][0] = f /\ y.next[f][0] = m.next[freelist][0]
                <5>1. 0 \in Levels /\ 0 < l /\ l \in Int
                    BY BlockFacts, MathAssumption
                <5> QED
                    BY <1>2, <2>4, <3>4, <5>1, LinkedFields
            <4>2. z = Pushed(m, f, l)
                BY <2>4, <3>4 DEF Pushed
            <4>3. z = [y EXCEPT !.magic = [y.magic EXCEPT ![f] = "unallocated"]]
                BY <4>1 DEF Memories
            <4>4. /\ z \in Memories /\ z.size = m.size /\ z.status = "running"
                  /\ z.levels[freelist] # 0
                  /\ z.next[freelist][0] = f /\ z.next[f][0] = m.next[freelist][0]
                <5>1. [y.magic EXCEPT ![f] = "unallocated"]
                         \in [Nodes -> {"unallocated", "allocated", "none"}]
                    BY <4>1 DEF Memories
                <5>2. z \in Memories /\ z.size = y.size /\ z.status = y.status /\ z.levels = y.levels
                      /\ z.next = y.next
                    <6> HIDE DEF z
                    <6> QED
                        BY <4>1, <4>3, <5>1 DEF Memories
                <5>3. y.levels[freelist] # 0
                    BY <2>0, <4>1, BlockFacts, MathAssumption DEF Memories
                <5> QED
                    BY <4>1, <5>2, <5>3
            <4>5. x \in Then(coalesce(z, f), Last)
                BY <3>2, <4>1 DEF Merge
            <4> HIDE DEF z, Last
            <4>6. PICK u \in coalesce(z, f) : x \in IF u.status = "running" THEN Last(u) ELSE {u}
                BY <4>5 DEF Then
            <4>7. CASE Dead(u)
                BY <4>6, <4>7 DEF Dead
            <4>8. CASE u = z
                <5>1. Last(u) = {z}
                    BY <2>0, <4>4, <4>8, CoalesceHead DEF Last
                <5> QED
                    BY <4>2, <4>4, <4>6, <4>8, <5>1
            <4> QED
                BY <1>2, <4>4, <4>6, <4>7, <4>8, CoalesceOutcome
        <3> QED
            BY <3>1, <3>2, <3>3, <3>4, InsertOutcome
    <2> QED
        BY <1>2, <2>0, <2>2, <2>3, <2>4, SetLevelsOutcome
<1> QED
    BY <1>1, <1>2

----
(* The skip list as a sequence. *)

\* The node before the first block is the head.
At(L, k) == IF k = 0 THEN freelist ELSE L[k]

\* The link of the kth node at a level goes to the next node that is high enough.
LinkOK(m, L, l, k) ==
    \/ /\ m.next[At(L, k)][l] = NULL
       /\ \A j \in k + 1 .. Len(L) : m.levels[L[j]] <= l
    \/ \E j \in k + 1 .. Len(L) :
          /\ m.next[At(L, k)][l] = L[j] /\ m.levels[L[j]] > l
          /\ \A i \in k + 1 .. j - 1 : m.levels[L[i]] <= l

\* The free list of m is L, and the magic words say so.
Listed(m, L) ==
    /\ L \in Seq(Blocks)
    /\ \A i, j \in 1 .. Len(L) : L[i] = L[j] => i = j
    /\ \A b \in Blocks : m.magic[b] = "unallocated" <=> \E k \in 1 .. Len(L) : L[k] = b
    /\ \A l \in Levels, k \in 0 .. Len(L) : (k = 0 \/ m.levels[L[k]] > l) => LinkOK(m, L, l, k)
    /\ \A k \in 1 .. Len(L) : m.levels[L[k]] > 0 /\ m.levels[L[k]] <= m.levels[freelist]
    /\ m.levels[freelist] = 0 \/ \E k \in 1 .. Len(L) : m.levels[L[k]] = m.levels[freelist]

\* A list without repetition is no longer than there are blocks.
LEMMA ListLength ==
    ASSUME NEW m, NEW L, Listed(m, L)
    PROVE  /\ Len(L) \in Nat /\ Len(L) <= Cardinality(Blocks)
           /\ \A k \in 1 .. Len(L) : L[k] \in Blocks
           /\ L = [k \in 1 .. Len(L) |-> L[k]] /\ Cardinality(1 .. Len(L)) = Len(L)
<1>1. L \in Seq(Blocks) /\ \A i, j \in 1 .. Len(L) : L[i] = L[j] => i = j
    BY DEF Listed
<1>2. Len(L) \in Nat /\ L \in [1 .. Len(L) -> Blocks]
    BY <1>1, LenProperties
<1>3. L \in Injection(1 .. Len(L), Blocks)
    BY <1>1, <1>2 DEF Injection, IsInjective
<1>4. Cardinality(1 .. Len(L)) <= Cardinality(Blocks)
    BY <1>3, BlockFacts, FS_Injection
<1>5. Cardinality(1 .. Len(L)) = Len(L)
    <2>1. 1 \in Int /\ Len(L) \in Int
        BY <1>2
    <2>2. Cardinality(1 .. Len(L)) = IF 1 > Len(L) THEN 0 ELSE Len(L) - 1 + 1
        BY <2>1, FS_Interval, Zenon
    <2> QED
        BY <1>2, <2>2
<1> QED
    BY <1>2, <1>4, <1>5

\* The walk along one level is what its recursion says.
LEMMA ChainSteps ==
    ASSUME NEW m, NEW l
    PROVE  LET N == Cardinality(Blocks) + 1
               c == Chain(m, l)
           IN  /\ DOMAIN c = 0 .. N /\ c[0] = freelist
               /\ \A k \in 1 .. N : c[k] = IF c[k - 1] = NULL THEN NULL ELSE m.next[c[k - 1]][l]
<1> DEFINE N == Cardinality(Blocks) + 1
           Step(f, k) == IF k = 0 THEN freelist
                         ELSE IF f[k - 1] = NULL THEN NULL ELSE m.next[f[k - 1]][l]
           Solves(f, n) == f = [k \in 0 .. n |-> Step(f, k)]
           Unsolved == {n \in Nat : ~ \E f : Solves(f, n)}
<1>1. Unsolved = {}
    <2>1. ASSUME NEW n \in Unsolved PROVE \E k \in Unsolved : k < n
        <3>1. n # 0
            <4> DEFINE f == [k \in 0 .. 0 |-> freelist]
            <4>1. Solves(f, 0)
                OBVIOUS
            <4> QED
                BY <4>1
        <3>2. n - 1 \in Nat /\ n - 1 < n
            BY <3>1
        <3>3. ASSUME NEW f, Solves(f, n - 1) PROVE FALSE
            <4> DEFINE g == [k \in 0 .. n |-> IF k = n THEN Step(f, n) ELSE f[k]]
            <4>1. ASSUME NEW k \in 0 .. n PROVE g[k] = Step(g, k)
                <5>1. k # 0 => k - 1 \in 0 .. n - 1 /\ g[k - 1] = f[k - 1]
                    OBVIOUS
                <5>2. CASE k = n
                    BY <5>1, <5>2, <3>1
                <5>3. CASE k # n
                    <6>1. k \in 0 .. n - 1
                        BY <3>1, <5>3
                    <6>2. f[k] = Step(f, k)
                        BY <3>3, <6>1
                    <6>3. g[k] = f[k]
                        BY <5>3
                    <6> QED
                        BY <5>1, <6>2, <6>3
                <5> QED
                    BY <5>2, <5>3
            <4>2. Solves(g, n)
                BY <4>1
            <4> QED
                BY <4>2
        <3> QED
            BY <3>2, <3>3
    <2>2. Unsolved \in SUBSET Nat
        OBVIOUS
    <2> HIDE DEF Unsolved
    <2> QED
        BY <2>1, <2>2, Descent
<1>2. N \in Nat
    BY BlockFacts
<1> DEFINE h == CHOOSE f : Solves(f, N)
<1>3. Solves(h, N)
    BY <1>1, <1>2
<1>4. Chain(m, l) = h
    BY DEF Chain, h
<1> HIDE DEF h
<1>5. DOMAIN h = 0 .. N /\ h[0] = freelist
    BY <1>2, <1>3
<1>6. \A k \in 1 .. N : h[k] = IF h[k - 1] = NULL THEN NULL ELSE m.next[h[k - 1]][l]
    BY <1>2, <1>3
<1> QED
    BY <1>4, <1>5, <1>6

\* Heads and blocks have as many levels as there are at most, or fewer.
LEMMA MemoryLevels ==
    ASSUME NEW m \in Memories, NEW n \in Nodes
    PROVE  m.levels[n] \in Levels /\ m.levels[n] \in Nat
BY BlockFacts DEF Memories

\* A walk along a level passes blocks of the list that are high enough, each further down
\* than the one before, and comes to the null pointer.
LEMMA ChainWalk ==
    ASSUME NEW m, NEW L, Listed(m, L), NEW l \in Levels
    PROVE  \A k \in 1 .. Cardinality(Blocks) + 1 :
              \/ Chain(m, l)[k] = NULL
              \/ \E j \in k .. Len(L) : Chain(m, l)[k] = L[j] /\ m.levels[L[j]] > l
<1> DEFINE c == Chain(m, l)
           N == Cardinality(Blocks) + 1
           On(k) == c[k] = NULL \/ \E j \in k .. Len(L) : c[k] = L[j] /\ m.levels[L[j]] > l
           Off == {k \in 1 .. N : ~ On(k)}
<1>0. N \in Nat /\ Len(L) \in Nat /\ \A k \in 1 .. Len(L) : L[k] \in Blocks
    BY BlockFacts, ListLength
<1>1. /\ c[0] = freelist
      /\ \A k \in 1 .. N : c[k] = IF c[k - 1] = NULL THEN NULL ELSE m.next[c[k - 1]][l]
    BY ChainSteps
<1>2. \A k \in 0 .. Len(L) : (k = 0 \/ m.levels[L[k]] > l) => LinkOK(m, L, l, k)
    BY DEF Listed
<1> HIDE DEF c, N
<1>3. ASSUME NEW k \in 1 .. N, NEW j \in k - 1 .. Len(L), c[k - 1] = At(L, j),
             j = 0 \/ m.levels[L[j]] > l
      PROVE  On(k)
    <2>1. j \in 0 .. Len(L) /\ LinkOK(m, L, l, j)
        BY <1>0, <1>2, <1>3
    <2>2. c[k - 1] # NULL
        BY <1>0, <1>3, <2>1, BlockFacts DEF At
    <2>3. c[k] = m.next[At(L, j)][l]
        BY <1>1, <1>3, <2>2
    <2>4. CASE m.next[At(L, j)][l] = NULL
        BY <2>3, <2>4
    <2>5. CASE \E i \in j + 1 .. Len(L) : m.next[At(L, j)][l] = L[i] /\ m.levels[L[i]] > l
        <3>1. PICK i \in j + 1 .. Len(L) : m.next[At(L, j)][l] = L[i] /\ m.levels[L[i]] > l
            BY <2>5
        <3>2. i \in k .. Len(L)
            BY <1>0, <2>1
        <3> QED
            BY <2>3, <3>1, <3>2
    <2> QED
        BY <2>1, <2>4, <2>5 DEF LinkOK
<1>4. Off = {}
    <2>1. ASSUME NEW k \in Off PROVE \E i \in Off : i < k
        <3>1. k \in 1 .. N /\ ~ On(k)
            OBVIOUS
        <3> HIDE DEF On
        <3>2. k # 1
            <4> SUFFICES ASSUME k = 1 PROVE FALSE
                OBVIOUS
            <4>1. 0 \in k - 1 .. Len(L) /\ c[k - 1] = At(L, 0)
                BY <1>0, <1>1 DEF At
            <4> QED
                BY <1>3, <3>1, <4>1
        <3>3. k - 1 \in 1 .. N /\ k - 1 < k
            BY <1>0, <3>1, <3>2
        <3>4. ~ On(k - 1)
            <4> SUFFICES ASSUME On(k - 1) PROVE FALSE
                OBVIOUS
            <4>1. CASE c[k - 1] = NULL
                BY <1>1, <3>1, <4>1 DEF On
            <4>2. CASE \E j \in k - 1 .. Len(L) : c[k - 1] = L[j] /\ m.levels[L[j]] > l
                <5>1. PICK j \in k - 1 .. Len(L) : c[k - 1] = L[j] /\ m.levels[L[j]] > l
                    BY <4>2
                <5>2. c[k - 1] = At(L, j)
                    BY <3>3, <5>1 DEF At
                <5> QED
                    BY <1>3, <3>1, <5>1, <5>2
            <4> QED
                BY <4>1, <4>2 DEF On
        <3> QED
            BY <3>3, <3>4
    <2>2. Off \in SUBSET Nat
        BY <1>0
    <2> HIDE DEF Off
    <2> QED
        BY <2>1, <2>2, Descent
<1> QED
    BY <1>4 DEF c, N

\* The walk along the bottom level passes every block of the list.
LEMMA ChainBottom ==
    ASSUME NEW m \in Memories, NEW L, Listed(m, L)
    PROVE  \A k \in 1 .. Cardinality(Blocks) + 1 :
              Chain(m, 0)[k] = IF k <= Len(L) THEN L[k] ELSE NULL
<1> DEFINE c == Chain(m, 0)
           N == Cardinality(Blocks) + 1
           On(k) == c[k] = IF k <= Len(L) THEN L[k] ELSE NULL
           Off == {k \in 1 .. N : ~ On(k)}
<1>0. N \in Nat /\ Len(L) \in Nat /\ \A k \in 1 .. Len(L) : L[k] \in Blocks
    BY BlockFacts, ListLength
<1>1. /\ c[0] = freelist
      /\ \A k \in 1 .. N : c[k] = IF c[k - 1] = NULL THEN NULL ELSE m.next[c[k - 1]][0]
    BY ChainSteps
<1>2. \A k \in 0 .. Len(L) :
         m.next[At(L, k)][0] = IF k + 1 <= Len(L) THEN L[k + 1] ELSE NULL
    <2> TAKE k \in 0 .. Len(L)
    <2>1. \A j \in 1 .. Len(L) : m.levels[L[j]] \in Nat \ {0}
        <3>1. \A j \in 1 .. Len(L) : m.levels[L[j]] > 0
            BY DEF Listed
        <3> TAKE j \in 1 .. Len(L)
        <3>2. L[j] \in Nodes
            BY <1>0, BlockFacts
        <3>3. m.levels[L[j]] \in Nat
            BY <3>2, MemoryLevels
        <3> QED
            BY <3>1, <3>3
    <2>2. LinkOK(m, L, 0, k)
        BY <2>1, BlockFacts DEF Listed
    <2>3. CASE m.next[At(L, k)][0] = NULL /\ \A j \in k + 1 .. Len(L) : m.levels[L[j]] <= 0
        <3>1. k + 1 > Len(L)
            <4> SUFFICES ASSUME k + 1 <= Len(L) PROVE FALSE
                BY <1>0
            <4>1. k + 1 \in k + 1 .. Len(L) /\ k + 1 \in 1 .. Len(L)
                BY <1>0
            <4> QED
                BY <2>1, <2>3, <4>1
        <3> QED
            BY <2>3, <3>1
    <2>4. ASSUME NEW j \in k + 1 .. Len(L), m.next[At(L, k)][0] = L[j],
                 \A i \in k + 1 .. j - 1 : m.levels[L[i]] <= 0
          PROVE  k + 1 <= Len(L) /\ m.next[At(L, k)][0] = L[k + 1]
        <3>1. j = k + 1
            <4> SUFFICES ASSUME j > k + 1 PROVE FALSE
                BY <1>0
            <4>1. k + 1 \in k + 1 .. j - 1 /\ k + 1 \in 1 .. Len(L)
                BY <1>0
            <4> QED
                BY <2>1, <2>4, <4>1
        <3> QED
            BY <1>0, <2>4, <3>1
    <2> QED
        BY <2>2, <2>3, <2>4 DEF LinkOK
<1> HIDE DEF c, N
<1>3. Off = {}
    <2>1. ASSUME NEW k \in Off PROVE \E i \in Off : i < k
        <3>1. k \in 1 .. N /\ ~ On(k)
            OBVIOUS
        <3>2. k # 1
            <4> SUFFICES ASSUME k = 1 PROVE FALSE
                OBVIOUS
            <4>1. c[1] = m.next[freelist][0] /\ At(L, 0) = freelist
                BY <1>0, <1>1, <3>1, BlockFacts DEF At
            <4> QED
                BY <1>0, <1>2, <3>1, <4>1
        <3>3. k - 1 \in 1 .. N /\ k - 1 < k
            BY <1>0, <3>1, <3>2
        <3>4. ~ On(k - 1)
            <4> SUFFICES ASSUME On(k - 1) PROVE FALSE
                OBVIOUS
            <4>1. CASE k - 1 <= Len(L)
                <5>1. c[k - 1] = At(L, k - 1) /\ c[k - 1] # NULL /\ k - 1 \in 0 .. Len(L)
                    BY <1>0, <3>3, <4>1, BlockFacts DEF At
                <5>2. c[k] = m.next[At(L, k - 1)][0]
                    BY <1>1, <3>1, <5>1
                <5> QED
                    BY <1>0, <1>2, <3>1, <5>1, <5>2
            <4>2. CASE k - 1 > Len(L)
                BY <1>0, <1>1, <3>1, <3>3, <4>2
            <4> QED
                BY <1>0, <3>3, <4>1, <4>2
        <3> QED
            BY <3>3, <3>4
    <2>2. Off \in SUBSET Nat
        BY <1>0
    <2> HIDE DEF Off
    <2> QED
        BY <2>1, <2>2, Descent
<1> QED
    BY <1>3 DEF c, N

\* FreeList, of any memory.
ListOf(m) ==
    LET c == Chain(m, 0)
    IN  [k \in 1 .. Cardinality({k \in DOMAIN c : c[k] \in Blocks}) |-> c[k]]

\* A list that m has is the one FreeList gives, and the blocks that the walk passes are
\* the blocks on it.
LEMMA ListIsFreeList ==
    ASSUME NEW m \in Memories, NEW L, Listed(m, L)
    PROVE  /\ ListOf(m) = L
           /\ {b \in Blocks : \E k \in DOMAIN Chain(m, 0) : Chain(m, 0)[k] = b}
                 = {L[k] : k \in 1 .. Len(L)}
<1> DEFINE c == Chain(m, 0)
           N == Cardinality(Blocks) + 1
<1>0. /\ N \in Nat /\ Len(L) \in Nat /\ Len(L) < N /\ \A k \in 1 .. Len(L) : L[k] \in Blocks
      /\ L = [k \in 1 .. Len(L) |-> L[k]]
    <2>1. N \in Nat /\ Cardinality(Blocks) < N
        BY BlockFacts
    <2> HIDE DEF N
    <2> QED
        BY <2>1, ListLength, BlockFacts
<1>1. /\ DOMAIN c = 0 .. N /\ c[0] = freelist
      /\ \A k \in 1 .. N : c[k] = IF k <= Len(L) THEN L[k] ELSE NULL
    BY ChainSteps, ChainBottom
<1>2. {k \in DOMAIN c : c[k] \in Blocks} = 1 .. Len(L)
    <2> HIDE DEF c, N
    <2>1. \A k \in 0 .. N : c[k] \in Blocks <=> k \in 1 .. Len(L)
        BY <1>0, <1>1, BlockFacts
    <2> QED
        BY <1>0, <1>1, <2>1
<1>3. Cardinality(1 .. Len(L)) = Len(L)
    BY ListLength
<1>4. ListOf(m) = [k \in 1 .. Len(L) |-> c[k]]
    BY <1>2, <1>3 DEF ListOf
<1> HIDE DEF c, N
<1>5. ListOf(m) = L
    BY <1>0, <1>1, <1>4
<1>6. \A b \in Blocks : (\E k \in DOMAIN c : c[k] = b) <=> \E k \in 1 .. Len(L) : L[k] = b
    BY <1>0, <1>1, BlockFacts
<1>7. {b \in Blocks : \E k \in DOMAIN c : c[k] = b} = {L[k] : k \in 1 .. Len(L)}
    BY <1>0, <1>6
<1> QED
    BY <1>5, <1>7 DEF c

\* A block that is pushed is linked in front and marked as on the list, and no other mark
\* changes (low_level_alloc.c:94-103, 267-268).
LEMMA PushedFields ==
    ASSUME NEW m \in Memories, NEW f \in Blocks, NEW l \in 1 .. MaxLevel - 1,
           NEW x, x = Pushed(m, f, l)
    PROVE  /\ x \in Memories
           /\ x.size = m.size /\ x.count = m.count /\ x.asked = m.asked /\ x.status = m.status
           /\ \A b \in Blocks : x.magic[b] = IF b = f THEN "unallocated" ELSE m.magic[b]
           /\ x.levels[freelist] \in {m.levels[freelist], l}
           /\ x.levels[freelist] >= m.levels[freelist] /\ x.levels[freelist] >= l
           /\ \A b \in Blocks : x.levels[b] = IF b = f THEN l ELSE m.levels[b]
           /\ \A k \in Levels : x.next[freelist][k] = IF k < l THEN f ELSE m.next[freelist][k]
           /\ \A b \in Blocks, k \in Levels :
                 x.next[b][k] = IF b = f /\ k < l THEN m.next[freelist][k] ELSE m.next[b][k]
<1> DEFINE y == LinkFirst([m EXCEPT !.levels[f] = l], f)
<1>1. /\ y \in Memories
      /\ y.size = m.size /\ y.count = m.count /\ y.asked = m.asked /\ y.status = m.status
      /\ y.magic = m.magic
      /\ y.levels[freelist] \in {m.levels[freelist], l}
      /\ y.levels[freelist] >= m.levels[freelist] /\ y.levels[freelist] >= l
      /\ \A b \in Blocks : y.levels[b] = IF b = f THEN l ELSE m.levels[b]
      /\ \A k \in Levels : y.next[freelist][k] = IF k < l THEN f ELSE m.next[freelist][k]
      /\ \A b \in Blocks, k \in Levels :
            y.next[b][k] = IF b = f /\ k < l THEN m.next[freelist][k] ELSE m.next[b][k]
    BY LinkedFields
<1>2. x = [y EXCEPT !.magic[f] = "unallocated"]
    BY DEF Pushed
<1> HIDE DEF y
<1>3. x = [y EXCEPT !.magic = [y.magic EXCEPT ![f] = "unallocated"]]
    BY <1>1, <1>2 DEF Memories
<1>4. [y.magic EXCEPT ![f] = "unallocated"] \in [Nodes -> {"unallocated", "allocated", "none"}]
    BY <1>1 DEF Memories
<1>5. /\ x \in Memories
      /\ x.size = m.size /\ x.count = m.count /\ x.asked = m.asked /\ x.status = m.status
      /\ x.levels = y.levels /\ x.next = y.next
      /\ x.magic = [y.magic EXCEPT ![f] = "unallocated"]
    BY <1>1, <1>3, <1>4 DEF Memories
<1>6. \A b \in Blocks : x.magic[b] = IF b = f THEN "unallocated" ELSE m.magic[b]
    BY <1>1, <1>5, BlockFacts DEF Memories
<1> QED
    BY <1>1, <1>5, <1>6

\* A block that is pushed becomes the first of the list (low_level_alloc.c:94-103, 260-270).
LEMMA PushListed ==
    ASSUME NEW m \in Memories, NEW L, Listed(m, L), NEW f \in Blocks, m.magic[f] # "unallocated",
           NEW l \in 1 .. MaxLevel - 1,
           NEW x, x = Pushed(m, f, l)
    PROVE  /\ x \in Memories
           /\ x.size = m.size /\ x.count = m.count /\ x.asked = m.asked /\ x.status = m.status
           /\ \A b \in Blocks : x.magic[b] = IF b = f THEN "unallocated" ELSE m.magic[b]
           /\ Listed(x, <<f>> \o L)
<1> DEFINE n == Len(L)
           K == <<f>> \o L
<1>0. /\ n \in Nat /\ L \in Seq(Blocks) /\ \A k \in 1 .. n : L[k] \in Blocks /\ L[k] # f
      /\ l \in Nat /\ l > 0 /\ f \in Nodes /\ f # freelist
    <2>1. n \in Nat /\ L \in Seq(Blocks) /\ \A k \in 1 .. n : L[k] \in Blocks
        BY ListLength DEF Listed
    <2>2. \A k \in 1 .. n : L[k] # f
        BY <2>1 DEF Listed
    <2>3. l \in Nat /\ l > 0 /\ f \in Nodes /\ f # freelist
        BY BlockFacts, MathAssumption
    <2> QED
        BY <2>1, <2>2, <2>3
<1>1. /\ K \in Seq(Blocks) /\ Len(K) = n + 1 /\ K[1] = f
      /\ \A k \in 1 .. n : K[k + 1] = L[k]
      /\ \A k \in 2 .. n + 1 : k - 1 \in 1 .. n /\ K[k] = L[k - 1]
    <2>1. <<f>> \in Seq(Blocks) /\ Len(<<f>>) = 1 /\ <<f>>[1] = f
        OBVIOUS
    <2>2. /\ K \in Seq(Blocks) /\ Len(K) = 1 + n
          /\ \A k \in 1 .. 1 + n : K[k] = IF k <= 1 THEN <<f>>[k] ELSE L[k - 1]
        BY <1>0, <2>1, ConcatProperties
    <2> HIDE DEF K
    <2>3. K[1] = f
        BY <1>0, <2>1, <2>2
    <2>4. \A k \in 1 .. n : K[k + 1] = L[k]
        <3> TAKE k \in 1 .. n
        <3>1. k + 1 \in 1 .. 1 + n /\ ~(k + 1 <= 1) /\ (k + 1) - 1 = k
            BY <1>0
        <3> QED
            BY <2>2, <3>1
    <2>5. \A k \in 2 .. n + 1 : k - 1 \in 1 .. n /\ K[k] = L[k - 1]
        <3> TAKE k \in 2 .. n + 1
        <3>1. k \in 1 .. 1 + n /\ ~(k <= 1) /\ k - 1 \in 1 .. n
            BY <1>0
        <3> QED
            BY <2>2, <3>1
    <2> QED
        BY <1>0, <2>2, <2>3, <2>4, <2>5
<1>2. /\ x \in Memories
      /\ x.size = m.size /\ x.count = m.count /\ x.asked = m.asked /\ x.status = m.status
      /\ \A b \in Blocks : x.magic[b] = IF b = f THEN "unallocated" ELSE m.magic[b]
      /\ x.levels[freelist] \in {m.levels[freelist], l}
      /\ x.levels[freelist] >= m.levels[freelist] /\ x.levels[freelist] >= l
      /\ \A b \in Blocks : x.levels[b] = IF b = f THEN l ELSE m.levels[b]
      /\ \A k \in Levels : x.next[freelist][k] = IF k < l THEN f ELSE m.next[freelist][k]
      /\ \A b \in Blocks, k \in Levels :
            x.next[b][k] = IF b = f /\ k < l THEN m.next[freelist][k] ELSE m.next[b][k]
    BY PushedFields
<1> HIDE DEF K
<1>4. /\ x.levels[K[1]] = l
      /\ \A k \in 1 .. n : x.levels[K[k + 1]] = m.levels[L[k]]
      /\ \A k \in 2 .. n + 1 : x.levels[K[k]] = m.levels[L[k - 1]]
    <2>1. \A b \in Blocks : x.levels[b] = IF b = f THEN l ELSE m.levels[b]
        BY <1>2
    <2>2. \A k \in 1 .. n : x.levels[L[k]] = m.levels[L[k]]
        BY <1>0, <2>1
    <2> QED
        BY <1>1, <2>1, <2>2
<1>5. ASSUME NEW v \in Levels, NEW k \in 0 .. n, NEW p \in 0 .. n + 1,
             p = k + 1 \/ (p = 0 /\ k = 0 /\ l <= v),
             LinkOK(m, L, v, k), x.next[At(K, p)][v] = m.next[At(L, k)][v]
      PROVE  LinkOK(x, K, v, p)
    <2>1. CASE m.next[At(L, k)][v] = NULL /\ \A j \in k + 1 .. n : m.levels[L[j]] <= v
        <3>1. ASSUME NEW j \in p + 1 .. n + 1 PROVE x.levels[K[j]] <= v
            <4>1. CASE j = 1
                BY <1>4, <1>5, <4>1
            <4>2. CASE j # 1
                <5>1. j \in 2 .. n + 1 /\ j - 1 \in k + 1 .. n
                    BY <1>0, <1>5, <4>2
                <5> QED
                    BY <1>4, <2>1, <5>1
            <4> QED
                BY <4>1, <4>2
        <3> QED
            BY <1>1, <1>5, <2>1, <3>1 DEF LinkOK
    <2>2. ASSUME NEW j \in k + 1 .. n, m.next[At(L, k)][v] = L[j], m.levels[L[j]] > v,
                 \A i \in k + 1 .. j - 1 : m.levels[L[i]] <= v
          PROVE  LinkOK(x, K, v, p)
        <3>1. j + 1 \in p + 1 .. n + 1 /\ j \in 1 .. n
            BY <1>0, <1>5
        <3>2. ASSUME NEW i \in p + 1 .. j PROVE x.levels[K[i]] <= v
            <4>1. CASE i = 1
                BY <1>4, <1>5, <4>1
            <4>2. CASE i # 1
                <5>1. i \in 2 .. n + 1 /\ i - 1 \in k + 1 .. j - 1
                    BY <1>0, <1>5, <4>2
                <5> QED
                    BY <1>4, <2>2, <5>1
            <4> QED
                BY <4>1, <4>2
        <3>3. (j + 1) - 1 = j
            BY <3>1
        <3> QED
            <4>1. K[j + 1] = L[j] /\ x.levels[K[j + 1]] > v /\ x.next[At(K, p)][v] = K[j + 1]
                BY <1>1, <1>4, <1>5, <2>2, <3>1
            <4>2. \A i \in p + 1 .. (j + 1) - 1 : x.levels[K[i]] <= v
                BY <3>2, <3>3
            <4> QED
                BY <1>1, <3>1, <4>1, <4>2 DEF LinkOK
    <2> QED
        BY <1>5, <2>1, <2>2 DEF LinkOK
<1>6. ASSUME NEW v \in Levels, NEW k \in 0 .. n + 1, k = 0 \/ x.levels[K[k]] > v
      PROVE  LinkOK(x, K, v, k)
    <2>1. LinkOK(m, L, v, 0) /\ 0 \in 0 .. n /\ v \in Nat
        BY <1>0, BlockFacts DEF Listed
    <2>2. CASE k = 0 /\ v < l
        <3>1. x.next[At(K, 0)][v] = K[1] /\ x.levels[K[1]] > v
            BY <1>0, <1>1, <1>2, <1>4, <2>1, <2>2 DEF At
        <3>2. 1 \in 0 + 1 .. n + 1 /\ (0 + 1 .. 1 - 1) = {}
            BY <1>0
        <3> QED
            BY <1>1, <2>2, <3>1, <3>2 DEF LinkOK
    <2>3. CASE k = 0 /\ v >= l
        <3>1. x.next[At(K, 0)][v] = m.next[At(L, 0)][v] /\ l <= v
            BY <1>0, <1>2, <2>1, <2>3 DEF At
        <3> QED
            BY <1>0, <1>5, <2>1, <2>3, <3>1
    <2>4. CASE k = 1
        <3>1. x.next[At(K, 1)][v] = m.next[At(L, 0)][v]
            <4>1. v < l
                BY <1>0, <1>4, <1>6, <2>1, <2>4
            <4> QED
                BY <1>1, <1>2, <4>1 DEF At
        <3> QED
            BY <1>0, <1>5, <2>1, <2>4, <3>1
    <2>5. CASE k > 1
        <3>1. k - 1 \in 1 .. n /\ k \in 2 .. n + 1
            BY <1>0, <2>5
        <3>2. m.levels[L[k - 1]] > v
            BY <1>4, <1>6, <2>5, <3>1
        <3>3. LinkOK(m, L, v, k - 1)
            BY <3>1, <3>2 DEF Listed
        <3>4. x.next[At(K, k)][v] = m.next[At(L, k - 1)][v]
            BY <1>0, <1>1, <1>2, <3>1 DEF At
        <3> QED
            BY <1>0, <1>5, <3>1, <3>3, <3>4
    <2> QED
        BY <1>0, <2>1, <2>2, <2>3, <2>4, <2>5
<1>7. Listed(x, K)
    <2>1. ASSUME NEW i \in 1 .. n + 1, NEW j \in 1 .. n + 1, K[i] = K[j] PROVE i = j
        <3>1. \A k \in 2 .. n + 1 : K[k] # f
            BY <1>0, <1>1
        <3>2. CASE i = 1 \/ j = 1
            BY <1>0, <1>1, <2>1, <3>1, <3>2
        <3>3. CASE i # 1 /\ j # 1
            <4>1. i - 1 \in 1 .. n /\ j - 1 \in 1 .. n /\ L[i - 1] = L[j - 1]
                BY <1>0, <1>1, <2>1, <3>3
            <4>2. i - 1 = j - 1
                BY <4>1 DEF Listed
            <4> QED
                BY <4>2
        <3> QED
            BY <3>2, <3>3
    <2>2. \A b \in Blocks : x.magic[b] = "unallocated" <=> \E k \in 1 .. n + 1 : K[k] = b
        <3> TAKE b \in Blocks
        <3>1. CASE b = f
            <4>1. x.magic[f] = "unallocated"
                BY <1>0, <1>2 DEF Memories
            <4> QED
                BY <1>0, <1>1, <3>1, <4>1
        <3>2. CASE b # f
            <4>1. x.magic[b] = m.magic[b]
                BY <1>0, <1>2, <3>2, BlockFacts DEF Memories
            <4>2. (\E k \in 1 .. n + 1 : K[k] = b) <=> \E k \in 1 .. n : L[k] = b
                <5>1. ASSUME NEW k \in 1 .. n, L[k] = b PROVE \E j \in 1 .. n + 1 : K[j] = b
                    <6>1. k + 1 \in 1 .. n + 1 /\ K[k + 1] = b
                        BY <1>0, <1>1, <5>1
                    <6> QED
                        BY <6>1
                <5>2. ASSUME NEW k \in 1 .. n + 1, K[k] = b PROVE \E j \in 1 .. n : L[j] = b
                    <6>1. k \in 2 .. n + 1
                        BY <1>0, <1>1, <3>2, <5>2
                    <6> QED
                        BY <1>1, <5>2, <6>1
                <5> QED
                    BY <5>1, <5>2
            <4> QED
                BY <4>1, <4>2 DEF Listed
        <3> QED
            BY <3>1, <3>2
    <2>3. \A k \in 1 .. n : /\ m.levels[L[k]] > 0 /\ m.levels[L[k]] <= m.levels[freelist]
                            /\ m.levels[L[k]] \in Nat
        BY <1>0, MemoryLevels, BlockFacts DEF Listed
    <2>4. m.levels[freelist] \in Nat /\ x.levels[freelist] \in Nat
        BY <1>2, MemoryLevels, BlockFacts
    <2>5. \A k \in 1 .. n + 1 : x.levels[K[k]] > 0 /\ x.levels[K[k]] <= x.levels[freelist]
        <3> TAKE k \in 1 .. n + 1
        <3>1. CASE k = 1
            BY <1>0, <1>2, <1>4, <2>4, <3>1
        <3>2. CASE k # 1
            <4>1. k \in 2 .. n + 1 /\ k - 1 \in 1 .. n
                BY <1>0, <3>2
            <4>2. x.levels[K[k]] = m.levels[L[k - 1]] /\ x.levels[freelist] >= m.levels[freelist]
                BY <1>2, <1>4, <4>1
            <4> QED
                BY <2>3, <2>4, <4>1, <4>2
        <3> QED
            BY <3>1, <3>2
    <2>6. x.levels[freelist] = 0 \/ \E k \in 1 .. n + 1 : x.levels[K[k]] = x.levels[freelist]
        <3>1. CASE x.levels[freelist] = l
            BY <1>0, <1>4, <3>1
        <3>2. CASE x.levels[freelist] = m.levels[freelist] /\ x.levels[freelist] # 0
            <4>1. PICK k \in 1 .. n : m.levels[L[k]] = m.levels[freelist]
                BY <3>2 DEF Listed
            <4>2. k + 1 \in 1 .. n + 1 /\ x.levels[K[k + 1]] = x.levels[freelist]
                BY <1>0, <1>4, <3>2, <4>1
            <4> QED
                BY <4>2
        <3> QED
            BY <1>2, <3>1, <3>2
    <2> QED
        BY <1>1, <1>6, <2>1, <2>2, <2>5, <2>6 DEF Listed
<1> QED
    BY <1>2, <1>7 DEF K

\* The links of the head go to the first block, at each level it has, and the search for a
\* block finds the first one, if any (low_level_alloc.c:84-92).
LEMMA FirstBlock ==
    ASSUME NEW m \in Memories, NEW L, Listed(m, L)
    PROVE  /\ Len(L) > 0 => /\ \A v \in Levels : v < m.levels[L[1]] => m.next[freelist][v] = L[1]
                            /\ Found(m) = L[1] /\ m.next[freelist][0] = L[1]
           /\ Len(L) = 0 => Found(m) = NULL /\ m.next[freelist][0] = NULL
<1> DEFINE n == Len(L)
<1>0. n \in Nat /\ \A k \in 1 .. n : L[k] \in Blocks /\ m.levels[L[k]] \in Nat
                     /\ m.levels[L[k]] > 0 /\ m.levels[L[k]] <= m.levels[freelist]
    BY ListLength, MemoryLevels, BlockFacts DEF Listed
<1>1. m.levels[freelist] = 0 \/ \E k \in 1 .. n : m.levels[L[k]] = m.levels[freelist]
    BY DEF Listed
<1>2. m.levels[freelist] \in Nat /\ 0 \in Levels /\ Levels \subseteq Nat
    BY MemoryLevels, BlockFacts
<1>3. \A v \in Levels : LinkOK(m, L, v, 0)
    BY <1>0 DEF Listed
<1>4. ASSUME n > 0, NEW v \in Levels, v < m.levels[L[1]]
      PROVE  m.next[freelist][v] = L[1]
    <2>1. LinkOK(m, L, v, 0) /\ At(L, 0) = freelist
        BY <1>3 DEF At
    <2>2. 1 \in 0 + 1 .. n /\ ~(m.levels[L[1]] <= v)
        BY <1>0, <1>2, <1>4
    <2>3. PICK j \in 0 + 1 .. n : /\ m.next[freelist][v] = L[j]
                                  /\ \A i \in 0 + 1 .. j - 1 : m.levels[L[i]] <= v
        BY <2>1, <2>2 DEF LinkOK
    <2>4. j = 1
        <3> SUFFICES ASSUME j > 1 PROVE FALSE
            BY <2>3
        <3>1. 1 \in 0 + 1 .. j - 1
            OBVIOUS
        <3> QED
            BY <2>2, <2>3, <3>1
    <2> QED
        BY <2>3, <2>4
<1>5. ASSUME n > 0
      PROVE  m.next[freelist][0] = L[1] /\ Found(m) = L[1]
    <2>1. m.levels[L[1]] > 0 /\ m.levels[L[1]] <= m.levels[freelist] /\ m.levels[L[1]] \in Nat
        BY <1>0, <1>5
    <2>2. m.next[freelist][0] = L[1]
        BY <1>2, <1>4, <1>5, <2>1
    <2> QED
        BY <1>2, <2>1, <2>2 DEF Found
<1>6. ASSUME n = 0
      PROVE  Found(m) = NULL /\ m.next[freelist][0] = NULL
    <2>1. m.levels[freelist] = 0
        BY <1>1, <1>6
    <2>2. 0 + 1 .. n = {}
        BY <1>6
    <2>3. LinkOK(m, L, 0, 0) /\ At(L, 0) = freelist
        BY <1>2, <1>3 DEF At
    <2> QED
        BY <2>1, <2>2, <2>3 DEF LinkOK, Found
<1> QED
    BY <1>4, <1>5, <1>6

\* A block that is popped leaves the rest of the list (low_level_alloc.c:105-114, 335-346).
LEMMA PopListed ==
    ASSUME NEW m \in Memories, NEW L, Listed(m, L), Len(L) > 0,
           NEW y, y = Unlink(m, L[1]), NEW x, x.levels = y.levels, x.next = y.next, x.size = y.size,
           \A b \in Blocks : x.magic[b] = IF b = L[1] THEN "allocated" ELSE m.magic[b]
    PROVE  y \in Memories /\ Listed(x, Tail(L))
           /\ y.size = m.size /\ y.count = m.count /\ y.asked = m.asked /\ y.status = m.status
           /\ y.magic = m.magic
<1> DEFINE n == Len(L)
           f == L[1]
           K == Tail(L)
<1>0. n \in Nat /\ n > 0 /\ L \in Seq(Blocks) /\ f \in Blocks
      /\ \A k \in 1 .. n : /\ L[k] \in Blocks /\ m.levels[L[k]] \in Nat
                           /\ m.levels[L[k]] > 0 /\ m.levels[L[k]] <= m.levels[freelist]
    BY ListLength, MemoryLevels, BlockFacts DEF Listed
<1>1. K \in Seq(Blocks) /\ Len(K) = n - 1 /\ \A k \in 1 .. n - 1 : K[k] = L[k + 1]
    <2>1. L # << >>
        BY <1>0
    <2> QED
        BY <1>0, <2>1, HeadTailProperties
<1>2. /\ y \in Memories
      /\ y.size = m.size /\ y.count = m.count /\ y.asked = m.asked /\ y.status = m.status
      /\ y.magic = m.magic
      /\ y.levels[freelist] <= m.levels[freelist]
      /\ \/ y.levels[freelist] = 0
         \/ y.levels[freelist] > 0 /\ y.next[freelist][y.levels[freelist] - 1] # NULL
      /\ \A k \in 1 .. m.levels[freelist] :
            y.next[freelist][k - 1] # NULL => k <= y.levels[freelist]
      /\ \A b \in Blocks : y.levels[b] = m.levels[b] /\ y.next[b] = m.next[b]
      /\ \A k \in Levels :
            y.next[freelist][k] = IF k < m.levels[f] THEN m.next[f][k] ELSE m.next[freelist][k]
    <2>1. \A k \in Levels : k < m.levels[f] => m.next[freelist][k] = f
        BY <1>0, FirstBlock
    <2> QED
        BY <1>0, <2>1, UnlinkedFields
<1> HIDE DEF K
<1>3. \A k \in 1 .. n - 1 : k + 1 \in 1 .. n /\ x.levels[K[k]] = m.levels[L[k + 1]] /\ K[k] \in Blocks
    BY <1>0, <1>1, <1>2
<1>4. ASSUME NEW v \in Levels, NEW k \in 0 .. n - 1, NEW p \in 0 .. n,
             p = k + 1 \/ (p = 0 /\ k = 0 /\ m.levels[f] <= v),
             LinkOK(m, L, v, p), x.next[At(K, k)][v] = m.next[At(L, p)][v]
      PROVE  LinkOK(x, K, v, k)
    <2>0. v \in Nat
        BY BlockFacts
    <2>1. CASE m.next[At(L, p)][v] = NULL /\ \A j \in p + 1 .. n : m.levels[L[j]] <= v
        <3>1. ASSUME NEW j \in k + 1 .. n - 1 PROVE x.levels[K[j]] <= v
            <4>1. j \in 1 .. n - 1 /\ j + 1 \in p + 1 .. n
                BY <1>0, <1>4
            <4> QED
                BY <1>3, <2>1, <4>1
        <3> QED
            BY <1>1, <1>4, <2>1, <3>1 DEF LinkOK
    <2>2. ASSUME NEW j \in p + 1 .. n, m.next[At(L, p)][v] = L[j], m.levels[L[j]] > v,
                 \A i \in p + 1 .. j - 1 : m.levels[L[i]] <= v
          PROVE  LinkOK(x, K, v, k)
        <3>1. j - 1 \in k + 1 .. n - 1 /\ j - 1 \in 1 .. n - 1 /\ (j - 1) + 1 = j
            <4>1. j # 1
                BY <1>0, <1>4, <2>0, <2>2
            <4> QED
                BY <1>0, <1>4, <4>1
        <3>2. ASSUME NEW i \in k + 1 .. (j - 1) - 1 PROVE x.levels[K[i]] <= v
            <4>1. i \in 1 .. n - 1 /\ i + 1 \in p + 1 .. j - 1
                BY <1>0, <1>4, <3>1
            <4> QED
                BY <1>3, <2>2, <4>1
        <3>3. K[j - 1] = L[j] /\ x.levels[K[j - 1]] > v /\ x.next[At(K, k)][v] = K[j - 1]
            BY <1>1, <1>3, <1>4, <2>2, <3>1
        <3> QED
            BY <1>1, <3>1, <3>2, <3>3 DEF LinkOK
    <2> QED
        BY <1>4, <2>1, <2>2 DEF LinkOK
<1>5. ASSUME NEW v \in Levels, NEW k \in 0 .. n - 1, k = 0 \/ x.levels[K[k]] > v
      PROVE  LinkOK(x, K, v, k)
    <2>1. LinkOK(m, L, v, 0) /\ 0 \in 0 .. n /\ 1 \in 0 .. n /\ v \in Nat /\ m.levels[f] \in Nat
        BY <1>0, BlockFacts DEF Listed
    <2>2. CASE k = 0 /\ v < m.levels[f]
        <3>1. LinkOK(m, L, v, 1)
            BY <2>1, <2>2 DEF Listed
        <3>2. x.next[At(K, 0)][v] = m.next[At(L, 1)][v]
            BY <1>2, <2>2 DEF At
        <3> QED
            BY <1>0, <1>4, <2>1, <2>2, <3>1, <3>2
    <2>3. CASE k = 0 /\ v >= m.levels[f]
        <3>1. x.next[At(K, 0)][v] = m.next[At(L, 0)][v] /\ m.levels[f] <= v
            BY <1>2, <2>1, <2>3 DEF At
        <3> QED
            BY <1>0, <1>4, <2>1, <2>3, <3>1
    <2>4. CASE k > 0
        <3>1. k \in 1 .. n - 1 /\ k + 1 \in 1 .. n /\ k + 1 \in 0 .. n /\ k + 1 # 0
            BY <1>0, <2>4
        <3>2. m.levels[L[k + 1]] > v
            BY <1>3, <1>5, <2>4, <3>1
        <3>3. LinkOK(m, L, v, k + 1)
            BY <3>1, <3>2 DEF Listed
        <3>4. x.next[At(K, k)][v] = m.next[At(L, k + 1)][v]
            BY <1>1, <1>2, <1>3, <2>4, <3>1 DEF At
        <3> QED
            BY <1>4, <3>1, <3>3, <3>4
    <2> QED
        BY <1>0, <2>1, <2>2, <2>3, <2>4
<1>6. m.levels[freelist] \in Levels /\ m.levels[freelist] \in Nat /\ x.levels[freelist] \in Nat
    BY <1>2, MemoryLevels, BlockFacts
<1>7. ASSUME NEW k \in 1 .. n - 1
      PROVE  x.levels[K[k]] > 0 /\ x.levels[K[k]] <= x.levels[freelist]
    <2> DEFINE h == m.levels[L[k + 1]]
    <2>1. h \in Nat /\ h > 0 /\ h <= m.levels[freelist] /\ x.levels[K[k]] = h
        BY <1>0, <1>3
    <2> HIDE DEF h
    <2>2. h - 1 \in Levels /\ h \in 1 .. m.levels[freelist] /\ ~(h <= h - 1)
        <3>1. m.levels[freelist] <= MaxLevel - 1 /\ MaxLevel \in Nat
            BY <1>6, MathAssumption DEF Levels
        <3>2. h - 1 \in Nat /\ h - 1 <= MaxLevel - 1
            BY <1>6, <2>1, <3>1
        <3>3. h - 1 \in Levels
            BY <3>1, <3>2 DEF Levels
        <3>4. h \in 1 .. m.levels[freelist] /\ ~(h <= h - 1)
            BY <1>6, <2>1
        <3> QED
            BY <3>3, <3>4
    <2>3. LinkOK(x, K, h - 1, 0) /\ k \in 0 + 1 .. n - 1 /\ ~(x.levels[K[k]] <= h - 1)
        BY <1>0, <1>5, <2>1, <2>2
    <2>4. \E j \in 0 + 1 .. n - 1 : x.next[freelist][h - 1] = K[j]
        BY <1>1, <2>3 DEF LinkOK, At
    <2>5. x.next[freelist][h - 1] # NULL
        BY <1>3, <2>4, BlockFacts
    <2> QED
        BY <1>2, <2>1, <2>2, <2>5
<1>8. x.levels[freelist] = 0 \/ \E k \in 1 .. n - 1 : x.levels[K[k]] = x.levels[freelist]
    <2> DEFINE h == x.levels[freelist]
    <2>1. SUFFICES ASSUME h # 0 PROVE \E k \in 1 .. n - 1 : x.levels[K[k]] = h
        OBVIOUS
    <2>2. h > 0 /\ x.next[freelist][h - 1] # NULL /\ h <= m.levels[freelist] /\ h \in Nat
        BY <1>2, <1>6, <2>1
    <2>3. h - 1 \in Levels
        BY <1>6, <2>2, MathAssumption DEF Levels
    <2>4. LinkOK(x, K, h - 1, 0)
        BY <1>0, <1>5, <2>3
    <2>5. PICK k \in 0 + 1 .. n - 1 : x.levels[K[k]] > h - 1
        BY <1>1, <2>2, <2>4 DEF LinkOK, At
    <2>6. x.levels[K[k]] <= h /\ x.levels[K[k]] \in Nat
        BY <1>0, <1>3, <1>7
    <2> QED
        BY <2>2, <2>5, <2>6
<1>9. ASSUME NEW i \in 1 .. n - 1, NEW j \in 1 .. n - 1, K[i] = K[j] PROVE i = j
    <2>1. i + 1 \in 1 .. n /\ j + 1 \in 1 .. n /\ L[i + 1] = L[j + 1]
        BY <1>0, <1>1, <1>9
    <2>2. i + 1 = j + 1
        BY <2>1 DEF Listed
    <2> QED
        BY <2>2
<1>10. ASSUME NEW b \in Blocks
       PROVE  x.magic[b] = "unallocated" <=> \E k \in 1 .. n - 1 : K[k] = b
    <2>0. \A k \in 1 .. n - 1 : K[k] # f
        <3> TAKE k \in 1 .. n - 1
        <3> SUFFICES ASSUME K[k] = f PROVE FALSE
            OBVIOUS
        <3>1. k + 1 \in 1 .. n /\ L[k + 1] = L[1] /\ 1 \in 1 .. n
            BY <1>0, <1>1
        <3>2. k + 1 = 1
            BY <3>1 DEF Listed
        <3> QED
            BY <3>2
    <2>1. CASE b = f
        <3>1. x.magic[f] = "allocated"
            BY <1>0, BlockFacts DEF Memories
        <3> QED
            BY <2>0, <2>1, <3>1
    <2>2. CASE b # f
        <3>1. x.magic[b] = m.magic[b]
            BY <2>2, BlockFacts DEF Memories
        <3>2. ASSUME NEW k \in 1 .. n, L[k] = b PROVE \E j \in 1 .. n - 1 : K[j] = b
            <4>1. k # 1
                BY <2>2, <3>2
            <4>2. k - 1 \in 1 .. n - 1 /\ (k - 1) + 1 = k
                BY <1>0, <4>1
            <4>3. K[k - 1] = b
                BY <1>1, <3>2, <4>2
            <4> QED
                BY <4>2, <4>3
        <3>3. ASSUME NEW k \in 1 .. n - 1, K[k] = b PROVE \E j \in 1 .. n : L[j] = b
            BY <1>1, <1>3, <3>3
        <3> QED
            BY <3>1, <3>2, <3>3 DEF Listed
    <2> QED
        BY <2>1, <2>2
<1>11. Listed(x, K)
    BY <1>1, <1>5, <1>7, <1>8, <1>9, <1>10 DEF Listed
<1> QED
    BY <1>2, <1>11 DEF K

----
(* The calls, on a memory m whose list is L. *)

\* A memory as the allocator keeps it: the sizes are those of the regions.
Kept(m, L) ==
    /\ m \in Memories /\ Listed(m, L)
    /\ m.size[freelist] = 0 /\ \A b \in Blocks : m.size[b] = SizeOf[b]

\* Nothing but the user's address of a block has a header below it (low_level_alloc.c:260-262).
LEMMA AddElsewhere ==
    ASSUME NEW m \in Memories, NEW v, v - HeaderSize \notin Blocks, NEW x \in add_to_free_list(m, v)
    PROVE  x.status \in {"check", "fault"}
BY DEF add_to_free_list, Ends, Memories

\* The region that FirstFit finds is large enough (low_level_alloc.c:299-310).
LEMMA FirstFitOutcome ==
    ASSUME NEW m \in Memories, NEW L, Listed(m, L), NEW l \in Levels, NEW req \in Nat
    PROVE  LET s == FirstFit(m, l, req)
           IN  s \in {freelist, NULL} \/ (s \in Blocks /\ m.size[s] >= req)
<1> DEFINE c == Chain(m, l)
           N == Cardinality(Blocks) + 1
           T == {k \in DOMAIN c : k > 0 /\ (c[k] = NULL \/ m.size[c[k]] >= req)}
<1>1. N \in Nat /\ N > 0 /\ Len(L) \in Nat /\ Len(L) < N /\ \A k \in 1 .. Len(L) : L[k] \in Blocks
    BY BlockFacts, ListLength
<1>2. DOMAIN c = 0 .. N
    BY ChainSteps
<1>3. \A k \in 1 .. N : c[k] = NULL \/ \E j \in k .. Len(L) : c[k] = L[j] /\ m.levels[L[j]] > l
    BY ChainWalk
<1> HIDE DEF c, N
<1>4. N \in T
    <2>1. N .. Len(L) = {} /\ N \in 1 .. N
        BY <1>1
    <2>2. c[N] = NULL
        BY <1>3, <2>1
    <2> QED
        BY <1>1, <1>2, <2>2
<1>5. T \in SUBSET Nat
    BY <1>1, <1>2
<1>6. Min(T) \in T
    BY <1>4, <1>5, MinOK
<1> DEFINE stop == Min(T)
<1>7. stop \in 1 .. N /\ (c[stop] = NULL \/ m.size[c[stop]] >= req)
    <2>1. /\ Min(T) \in 0 .. N /\ Min(T) > 0
          /\ c[Min(T)] = NULL \/ m.size[c[Min(T)]] >= req
        BY <1>2, <1>6
    <2> HIDE DEF T
    <2>2. Min(T) \in 1 .. N
        BY <1>1, <2>1
    <2> QED
        BY <2>1, <2>2
<1>8. FirstFit(m, l, req) \in {c[stop], freelist}
    BY DEF FirstFit, c
<1> HIDE DEF stop
<1>9. c[stop] = NULL \/ c[stop] \in Blocks
    BY <1>1, <1>3, <1>7
<1> QED
    BY <1>7, <1>8, <1>9

\* The first block, given to a caller who has asked for r bytes.
Popped(m, s, r) ==
    [Unlink(m, s) EXCEPT !.magic[s] = "allocated", !.count = @ + 1, !.asked[s] = r]

\* A region that is found is given away whole if it is the first of the list; what the code splits
\* off at the end of req bytes has no header below it (low_level_alloc.c:335-346).
LEMMA CarveOutcome ==
    ASSUME NEW m, NEW L, Kept(m, L), m.status = "running", NEW s \in Blocks,
           NEW req \in Nat, HeaderSize < req, req <= m.size[s], NEW r, NEW x \in Carve(m, s, req, r)
    PROVE  Dead(x) \/ (Len(L) > 0 /\ s = L[1] /\ x = Popped(m, s, r))
<1> DEFINE least == checked_add(req, arena.min_size)
           Give(y) == {[y EXCEPT !.magic[s] = "allocated", !.count = @ + 1, !.asked[s] = r]}
           Split(y) == IF least <= y.size[s]
                       THEN add_to_free_list([y EXCEPT !.size[s] = req], s + req)
                       ELSE {y}
           Rest(y) == IF least = Failed THEN Ends(y, {"check"}) ELSE Then(Split(y), Give)
<1>0. m \in Memories /\ Listed(m, L) /\ s \in Nodes /\ s # NULL
    BY BlockFacts DEF Kept
<1>1. x \in Then(lla_skip_list_delete(m, s, FALSE), Rest)
    BY DEF Carve
<1> HIDE DEF Rest
<1>2. PICK y \in lla_skip_list_delete(m, s, FALSE) : x \in IF y.status = "running" THEN Rest(y) ELSE {y}
    BY <1>1 DEF Then
<1>3. CASE Dead(y)
    BY <1>2, <1>3 DEF Dead
<1>4. CASE s = Found(m) /\ y = Unlink(m, s)
    <2>1. Len(L) > 0 /\ s = L[1]
        <3>1. Len(L) \in Nat
            BY <1>0, ListLength
        <3> QED
            BY <1>0, <1>4, <3>1, FirstBlock
    <2>2. y \in Memories /\ y.status = "running" /\ y.size = m.size
        <3> DEFINE u == [y EXCEPT !.magic = [m.magic EXCEPT ![s] = "allocated"]]
        <3>1. \A k \in Levels : k < m.levels[s] => m.next[freelist][k] = s
            BY <1>0, <2>1, FirstBlock
        <3> QED
            BY <1>0, <1>4, <3>1, UnlinkedFields
    <2>3. x \in Rest(y)
        BY <1>2, <2>2
    <2>4. CASE least = Failed
        BY <2>2, <2>3, <2>4, EndsDead DEF Rest
    <2>5. CASE least # Failed
        <3> HIDE DEF Split, Give
        <3>1. PICK z \in Split(y) : x \in IF z.status = "running" THEN Give(z) ELSE {z}
            BY <2>3, <2>5 DEF Rest, Then
        <3>2. CASE z \in add_to_free_list([y EXCEPT !.size[s] = req], s + req)
            <4>1. (s + req) - HeaderSize \notin Blocks
                <5>1. s \in Nat /\ HeaderSize \in Nat /\ m.size[s] = SizeOf[s] /\ SizeOf[s] \in Nat
                    BY BlockFacts, MathAssumption DEF Kept
                <5> SUFFICES ASSUME NEW b \in Blocks, b = (s + req) - HeaderSize PROVE FALSE
                    OBVIOUS
                <5>2. s < b /\ b < s + SizeOf[s] /\ b \in Nat
                    BY <5>1, BlockFacts, MathAssumption
                <5>3. s + SizeOf[s] <= b
                    BY <5>2, AllocAssumption
                <5> QED
                    BY <5>1, <5>2, <5>3
            <4>2. [y EXCEPT !.size[s] = req] \in Memories
                <5>1. [y EXCEPT !.size[s] = req] = [y EXCEPT !.size = [y.size EXCEPT ![s] = req]]
                    BY <2>2 DEF Memories
                <5>2. [y.size EXCEPT ![s] = req] \in [Nodes -> Nat]
                    BY <2>2 DEF Memories
                <5> QED
                    BY <2>2, <5>1, <5>2 DEF Memories
            <4>3. z.status \in {"check", "fault"}
                BY <3>2, <4>1, <4>2, AddElsewhere
            <4> QED
                BY <3>1, <4>3 DEF Dead
        <3>3. CASE z = y
            BY <1>4, <2>1, <2>2, <3>1, <3>3 DEF Give, Popped
        <3> QED
            BY <3>1, <3>2, <3>3 DEF Split
    <2> QED
        BY <2>4, <2>5
<1> QED
    BY <1>0, <1>2, <1>3, <1>4, DeleteOutcome

\* An allocation gives nothing, ends the process, or takes the first block of the list, and
\* that one has room for its header and for the request (low_level_alloc.c:272-363).
LEMMA AllocOutcome ==
    ASSUME NEW m, NEW L, Kept(m, L), m.status = "running",
           arena.min_size \in Nat, arena.round_up \in 0 .. WordSize, NEW r \in Requests,
           NEW x \in do_alloc_with_arena(m, r)
    PROVE  \/ x = m
           \/ Dead(x)
           \/ /\ Len(L) > 0 /\ r > 0 /\ r + HeaderSize <= m.size[L[1]]
              /\ x = Popped(m, L[1], r)
<1> DEFINE sum == checked_add(r, HeaderSize)
           req == IF sum = Failed THEN Failed ELSE round_up(sum, arena.round_up)
           l == (CHOOSE n \in lla_skip_list_levels(req, arena.min_size, FALSE) : TRUE) - 1
           s == IF l < m.levels[freelist] THEN FirstFit(m, l, req) ELSE NULL
<1>0. m \in Memories /\ Listed(m, L)
    BY DEF Kept
<1>1. x \in IF r = 0 THEN {m}
            ELSE IF req = Failed \/ l < 0 THEN Ends(m, {"check"})
            ELSE IF s = freelist THEN Ends(m, {"check"})
            ELSE IF s = NULL THEN
                IF round_up(req, arena.pagesize * 16) = Failed THEN Ends(m, {"check"}) ELSE MapPages(m)
            ELSE Carve(m, s, req, r)
    BY DEF do_alloc_with_arena
<1>2. CASE x = m
    BY <1>2
<1>3. CASE x \in Ends(m, {"check"})
    BY <1>0, <1>3, EndsDead
<1>4. CASE x \in MapPages(m)
    <2>1. CASE x \in Ends(m, {"fault"})
        BY <1>0, <2>1, EndsDead
    <2>2. CASE x \in {[y EXCEPT !.status = IF @ = "check" THEN "refused" ELSE @] :
                         y \in add_to_free_list(m, NewPages)}
        <3>1. PICK y \in add_to_free_list(m, NewPages) :
                  x = [y EXCEPT !.status = IF @ = "check" THEN "refused" ELSE @]
            BY <2>2
        <3>2. y \in Ends(m, {"check", "fault"})
            BY AllocAssumption DEF add_to_free_list
        <3>3. PICK t \in {"check", "fault"} : y = [m EXCEPT !.status = t]
            BY <3>2 DEF Ends
        <3>4. x.status \in {"refused", "fault"}
            BY <1>0, <3>1, <3>3 DEF Memories
        <3> QED
            BY <3>4 DEF Dead
    <2> QED
        BY <1>4, <2>1, <2>2 DEF MapPages
<1>5. CASE r # 0 /\ req # Failed /\ ~(l < 0) /\ s \notin {freelist, NULL} /\ x \in Carve(m, s, req, r)
    <2>1. r \in 1 .. WordSize - 1 /\ HeaderSize \in 0 .. WordSize - 1 /\ HeaderSize > 0
        BY <1>5, AllocAssumption, MathAssumption
    <2>2. sum = r + HeaderSize /\ sum \in 1 .. WordSize - 1
        <3>1. sum = IF r + HeaderSize < WordSize THEN r + HeaderSize ELSE Failed
            BY <2>1, CheckedAdd
        <3> QED
            BY <1>5, <2>1, <3>1, MathAssumption
    <2>3. req = round_up(sum, arena.round_up)
        BY <2>2, MathAssumption DEF Failed
    <2> HIDE DEF sum
    <2>4. req \in Nat /\ req >= sum
        BY <1>5, <2>2, <2>3, RoundUpAbove
    <2> HIDE DEF req
    <2>5. l \in Levels
        <3> DEFINE lv == CHOOSE n \in lla_skip_list_levels(req, arena.min_size, FALSE) : TRUE
        <3>1. lla_skip_list_levels(req, arena.min_size, FALSE) # {}
            BY DEF lla_skip_list_levels
        <3>2. lv \in lla_skip_list_levels(req, arena.min_size, FALSE)
            BY <3>1
        <3>3. lv \in 0 .. MaxLevel - 1
            BY <2>4, <3>2, LevelsOK
        <3> HIDE DEF lv
        <3> QED
            BY <1>5, <3>3, MathAssumption DEF Levels, lv
    <2> HIDE DEF l
    <2>6. s \in Blocks /\ m.size[s] >= req
        BY <1>0, <1>5, <2>4, <2>5, FirstFitOutcome
    <2> HIDE DEF s
    <2>7. HeaderSize < req /\ req <= m.size[s] /\ r + HeaderSize <= m.size[s]
        BY <1>0, <2>1, <2>2, <2>4, <2>6, BlockFacts DEF Memories
    <2>8. Dead(x) \/ (Len(L) > 0 /\ s = L[1] /\ x = Popped(m, s, r))
        BY <1>5, <2>4, <2>6, <2>7, CarveOutcome
    <2> QED
        BY <2>1, <2>7, <2>8
<1> HIDE DEF sum, req, l, s
<1> QED
    BY <1>1, <1>2, <1>3, <1>4, <1>5

----
(* The inductive invariant. *)

\* The sizes are those of the regions: a call that merges two blocks or splits one ends the
\* process before it is through (low_level_alloc.c:245-258, 335-341).
SizesInv == mem.size[freelist] = 0 /\ \A b \in Blocks : mem.size[b] = SizeOf[b]

\* The free list is a list, and gone when the arena is.
ListInv ==
    /\ mem.status # "deleted" => Listed(mem, FreeList)
    /\ mem.status = "deleted" => FreeList = << >> /\ Held = {}

\* What a caller has is marked so, and is large enough.
OwnerInv ==
    \A b \in Held : mem.magic[b] = "allocated" /\ mem.asked[b] + HeaderSize <= mem.size[b]

CountInv == mem.count = Cardinality(Held)

\* The rounding of an arena is none, or the block size that init_arena has computed.
ArenaInv == arena.round_up \in 0 .. WordSize

IInv == TypeOK /\ SizesInv /\ ListInv /\ OwnerInv /\ CountInv /\ ArenaInv

\* What a step may do to the memory.
Ending == \E t \in {"hung", "fault", "check", "refused"} : mem' = [mem EXCEPT !.status = t]

Seeding(b, l) == Fresh(b) /\ mem' = Pushed(mem, b, l)

Freed(m, b, l) == [Pushed(m, b, l) EXCEPT !.count = @ - 1, !.asked[b] = 0]

Freeing(b, l) ==
    /\ b \in Held /\ mem.magic[b] = "allocated" /\ mem.count # 0
    /\ mem' = Freed(mem, b, l)

Taking(r) ==
    /\ Len(FreeList) > 0 /\ r > 0 /\ r + HeaderSize <= mem.size[FreeList[1]]
    /\ mem' = Popped(mem, FreeList[1], r)

Closing == mem.count = 0 /\ mem' = [mem EXCEPT !.next[freelist][0] = NULL, !.status = "deleted"]

\* A step from a memory that the invariant describes is one of these, or changes nothing.
Outcomes ==
    /\ UNCHANGED arena
    /\ \/ UNCHANGED mem
       \/ /\ mem.status = "running"
          /\ \/ Ending \/ Closing
             \/ \E b \in Blocks, l \in 1 .. MaxLevel - 1 : Seeding(b, l) \/ Freeing(b, l)
             \/ \E r \in Requests : Taking(r)

\* A call has one of its outcomes, or ends the process as that outcome says.
LEMMA CallOutcome ==
    ASSUME NEW outcomes, Call(outcomes)
    PROVE  /\ mem.status = "running" /\ arena' = arena
           /\ \E x \in outcomes : /\ Dead(x) => Ending
                                  /\ x.status \in {"running", "deleted"} => mem' = x
<1>1. PICK x \in outcomes : mem' = IF x.status \in {"running", "deleted"} THEN x
                                   ELSE [mem EXCEPT !.status = x.status]
    BY DEF Call
<1>2. Dead(x) => Ending
    BY <1>1 DEF Dead, Ending
<1> QED
    BY <1>1, <1>2 DEF Call

\* A block that comes back is pushed, and counted as back (low_level_alloc.c:272-282).
LEMMA FreeOutcome ==
    ASSUME NEW m, NEW L, Kept(m, L), m.status = "running", arena.min_size \in Nat, NEW v,
           NEW x \in low_level_alloc_free(m, v)
    PROVE  \/ Dead(x)
           \/ LET f == v - HeaderSize
              IN  /\ f \in Blocks /\ m.magic[f] = "allocated" /\ m.count # 0
                  /\ \E l \in 1 .. MaxLevel - 1 : x = Freed(m, f, l)
<1> DEFINE f == v - HeaderSize
           Count(y) == IF y.count = 0 THEN Ends(y, {"check"})
                       ELSE {[y EXCEPT !.count = @ - 1, !.asked[f] = 0]}
<1>0. /\ m \in Memories /\ Listed(m, L) /\ m.size[freelist] = 0
      /\ \A b \in Blocks : m.size[b] > 0
    BY BlockFacts, MathAssumption DEF Kept
<1>1. x \in Then(add_to_free_list(m, v), Count)
    BY DEF low_level_alloc_free
<1> HIDE DEF Count
<1>2. PICK y \in add_to_free_list(m, v) : x \in IF y.status = "running" THEN Count(y) ELSE {y}
    BY <1>1 DEF Then
<1>3. CASE Dead(y)
    BY <1>2, <1>3 DEF Dead
<1>4. ASSUME f \in Blocks, m.magic[f] = "allocated", NEW l \in 1 .. MaxLevel - 1, y = Pushed(m, f, l)
      PROVE  Dead(x) \/ (m.count # 0 /\ x = Freed(m, f, l))
    <2>1. y \in Memories /\ y.status = "running" /\ y.count = m.count
        BY <1>0, <1>4, PushedFields
    <2>2. x \in Count(y)
        BY <1>2, <2>1
    <2>3. CASE y.count = 0
        BY <2>1, <2>2, <2>3, EndsDead DEF Count
    <2>4. CASE y.count # 0
        BY <1>4, <2>1, <2>2, <2>4 DEF Count, Freed
    <2> QED
        BY <2>3, <2>4
<1> QED
    BY <1>0, <1>2, <1>3, <1>4, AddOutcome

\* A block that is pushed leaves the process running.
LEMMA PushedStatus ==
    ASSUME NEW m \in Memories, m.status = "running", NEW f \in Blocks, NEW l \in 1 .. MaxLevel - 1
    PROVE  Pushed(m, f, l).status = "running" /\ Freed(m, f, l).status = "running"
<1> DEFINE x == Pushed(m, f, l)
<1>1. x \in Memories /\ x.status = "running"
    BY PushedFields
<1> HIDE DEF x
<1>2. [x EXCEPT !.count = @ - 1, !.asked[f] = 0].status = "running"
    BY <1>1 DEF Memories
<1> QED
    BY <1>1, <1>2 DEF x, Freed

\* What the invariant says of a process that is running.
LEMMA Running ==
    ASSUME IInv, mem.status = "running"
    PROVE  Kept(mem, FreeList) /\ arena.min_size \in Nat /\ arena.round_up \in 0 .. WordSize
BY DEF IInv, TypeOK, SizesInv, ListInv, ArenaInv, Kept

\* What the free of a block is, whatever address the caller gives (low_level_alloc.c:272-282).
LEMMA FreeCall ==
    ASSUME IInv, NEW v, Call(low_level_alloc_free(mem, v)),
           LET f == v - HeaderSize IN (f \in Blocks /\ mem.magic[f] = "allocated") => f \in Held
    PROVE  Outcomes
<1> DEFINE f == v - HeaderSize
<1>0. mem.status = "running" /\ arena' = arena
    BY CallOutcome
<1>1. Kept(mem, FreeList) /\ arena.min_size \in Nat
    BY <1>0, Running
<1>2. PICK x \in low_level_alloc_free(mem, v) :
          (Dead(x) => Ending) /\ (x.status \in {"running", "deleted"} => mem' = x)
    BY CallOutcome
<1>3. CASE Dead(x)
    BY <1>0, <1>2, <1>3 DEF Outcomes
<1>4. ASSUME f \in Blocks, mem.magic[f] = "allocated", mem.count # 0,
             NEW l \in 1 .. MaxLevel - 1, x = Freed(mem, f, l)
      PROVE  Outcomes
    <2>1. x.status = "running"
        BY <1>0, <1>1, <1>4, PushedStatus DEF Kept
    <2>2. Freeing(f, l)
        BY <1>2, <1>4, <2>1 DEF Freeing
    <2> QED
        BY <1>0, <1>4, <2>2 DEF Outcomes
<1> QED
    BY <1>0, <1>1, <1>2, <1>3, <1>4, FreeOutcome

\* A region that is seeded is pushed (low_level_alloc.c:260-270).
LEMMA SeedCall ==
    ASSUME IInv, NEW b \in Blocks, Seed(b)
    PROVE  Outcomes
<1>0. mem.status = "running" /\ arena' = arena /\ Fresh(b)
    BY CallOutcome DEF Seed
<1>1. Kept(mem, FreeList) /\ arena.min_size \in Nat /\ mem \in Memories
      /\ mem.size[freelist] = 0 /\ \A c \in Blocks : mem.size[c] > 0
    BY <1>0, Running, BlockFacts, MathAssumption DEF Kept
<1>2. PICK x \in add_to_free_list(mem, b + HeaderSize) :
          (Dead(x) => Ending) /\ (x.status \in {"running", "deleted"} => mem' = x)
    BY CallOutcome DEF Seed
<1>3. (b + HeaderSize) - HeaderSize = b
    BY BlockFacts, MathAssumption
<1>4. CASE Dead(x)
    BY <1>0, <1>2, <1>4 DEF Outcomes
<1>5. ASSUME mem.magic[b] = "allocated", NEW l \in 1 .. MaxLevel - 1, x = Pushed(mem, b, l)
      PROVE  Outcomes
    <2>1. x.status = "running"
        BY <1>0, <1>1, <1>5, PushedStatus DEF Kept
    <2>2. Seeding(b, l)
        BY <1>0, <1>2, <1>5, <2>1 DEF Seeding
    <2> QED
        BY <1>0, <2>2 DEF Outcomes
<1>6. \/ Dead(x)
      \/ /\ mem.magic[b] = "allocated"
         /\ \E l \in 1 .. MaxLevel - 1 : x = Pushed(mem, b, l)
        
    BY <1>0, <1>1, <1>2, <1>3, AddOutcome
<1> QED
    BY <1>4, <1>5, <1>6

\* An allocation takes the first block or none (low_level_alloc.c:284-352).
LEMMA AllocCall ==
    ASSUME IInv, NEW r \in Requests, Alloc(r)
    PROVE  Outcomes
<1>0. mem.status = "running" /\ arena' = arena
    BY CallOutcome DEF Alloc
<1>1. Kept(mem, FreeList) /\ arena.min_size \in Nat /\ arena.round_up \in 0 .. WordSize
    BY <1>0, Running
<1>2. PICK x \in do_alloc_with_arena(mem, r) :
          (Dead(x) => Ending) /\ (x.status \in {"running", "deleted"} => mem' = x)
    BY CallOutcome DEF Alloc
<1>3. CASE x = mem
    BY <1>0, <1>2, <1>3 DEF Outcomes
<1>4. CASE Dead(x)
    BY <1>0, <1>2, <1>4 DEF Outcomes
<1>5. CASE /\ Len(FreeList) > 0 /\ r > 0 /\ r + HeaderSize <= mem.size[FreeList[1]]
           /\ x = Popped(mem, FreeList[1], r)
    <2> DEFINE y == Unlink(mem, FreeList[1])
    <2>0. mem \in Memories /\ Listed(mem, FreeList)
        BY <1>1 DEF Kept
    <2>1. y \in Memories /\ y.status = "running"
        <3>1. 1 \in 1 .. Len(FreeList)
            BY <1>5, <2>0, ListLength
        <3>2. FreeList[1] \in Blocks
            BY <2>0, <3>1, ListLength
        <3>3. \A k \in Levels : k < mem.levels[FreeList[1]] => mem.next[freelist][k] = FreeList[1]
            BY <1>5, <2>0, FirstBlock
        <3> QED
            BY <1>0, <2>0, <3>2, <3>3, UnlinkedFields
    <2>2. x.status = "running"
        BY <1>5, <2>1 DEF Popped, Memories
    <2> QED
        BY <1>0, <1>2, <1>5, <2>2 DEF Outcomes, Taking
<1> QED
    BY <1>0, <1>1, <1>2, <1>3, <1>4, <1>5, AllocOutcome

\* The deletion of an arena ends the process, is refused, or leaves no list (low_level_alloc.c:385-425).
LEMMA DeleteCall ==
    ASSUME IInv, DeleteArena
    PROVE  Outcomes
<1> DEFINE gone == [mem EXCEPT !.next[freelist][0] = NULL, !.status = "deleted"]
<1>0. mem.status = "running" /\ arena' = arena
    BY CallOutcome DEF DeleteArena
<1>1. mem \in Memories
    BY <1>0, Running DEF Kept
<1>2. PICK x \in delete_arena(mem) :
          (Dead(x) => Ending) /\ (x.status \in {"running", "deleted"} => mem' = x)
    BY CallOutcome DEF DeleteArena
<1>3. \/ x \in Ends(mem, {"check"}) \/ x \in Ends(mem, {"fault"})
      \/ x = mem \/ (mem.count = 0 /\ x = gone)
    BY DEF delete_arena
<1>4. CASE x \in Ends(mem, {"check"}) \/ x \in Ends(mem, {"fault"})
    BY <1>0, <1>1, <1>2, <1>4, EndsDead DEF Outcomes
<1>5. CASE x = mem
    BY <1>0, <1>2, <1>5 DEF Outcomes
<1>6. CASE mem.count = 0 /\ x = gone
    <2>1. x.status = "deleted"
        BY <1>1, <1>6 DEF Memories
    <2> QED
        BY <1>0, <1>2, <1>6, <2>1 DEF Outcomes, Closing
<1> QED
    BY <1>3, <1>4, <1>5, <1>6

\* Every step is one of the outcomes.
LEMMA StepOutcome ==
    ASSUME IInv, [Next]_vars
    PROVE  Outcomes
<1>1. ASSUME NEW b \in Blocks, Free(b) PROVE Outcomes
    <2>1. (b + HeaderSize) - HeaderSize = b
        BY BlockFacts, MathAssumption
    <2>2. mem.magic[b] = "allocated" => b \in Held
        BY <1>1 DEF Free, Fresh, Held, IInv, TypeOK, Memories
    <2> QED
        BY <1>1, <2>1, <2>2, FreeCall DEF Free
<1>2. ASSUME NEW b \in Blocks, FreeReturned(b) PROVE Outcomes
    <2>1. b - HeaderSize \notin Blocks
        <3> SUFFICES ASSUME NEW c \in Blocks, c = b - HeaderSize PROVE FALSE
            OBVIOUS
        <3>1. c < b /\ b \in Nat /\ c \in Nat /\ c + HeaderSize = b
            BY BlockFacts, MathAssumption
        <3>2. c + SizeOf[c] <= b
            BY <3>1, AllocAssumption
        <3> QED
            BY <3>1, <3>2, BlockFacts, MathAssumption
    <2> QED
        BY <1>2, <2>1, FreeCall DEF FreeReturned
<1>3. ASSUME NewArena PROVE Outcomes
    <2> DEFINE calls == IF round_up(checked_add(1, HeaderSize), 0) = Failed
                        THEN Ends(mem, {"check"}) ELSE {mem}
    <2>0. Call(calls)
        BY <1>3 DEF NewArena
    <2>1. mem.status = "running" /\ arena' = arena
        BY <2>0, CallOutcome
    <2>2. PICK x \in calls : (Dead(x) => Ending) /\ (x.status \in {"running", "deleted"} => mem' = x)
        BY <2>0, CallOutcome
    <2>3. mem \in Memories
        BY <2>1, Running DEF Kept
    <2> QED
        BY <2>1, <2>2, <2>3, EndsDead DEF Outcomes
<1>4. CASE UNCHANGED vars
    BY <1>4 DEF vars, Outcomes
<1> QED
    BY <1>1, <1>2, <1>3, <1>4, SeedCall, AllocCall, DeleteCall DEF Next

----
(* Each outcome keeps the invariant, and is a step of the pool. *)

\* Held and the free list, of the next memory.
LEMMA Primed == FreeList = ListOf(mem) /\ FreeList' = ListOf(mem')
                /\ Held' = {b \in Blocks : mem'.asked[b] > 0}
BY DEF FreeList, ListOf, Held

\* OnList(0), of any memory.
FreeIn(m) == {b \in Blocks : \E k \in DOMAIN Chain(m, 0) : Chain(m, 0)[k] = b}

LEMMA PrimedFree == OnList(0) = FreeIn(mem) /\ OnList(0)' = FreeIn(mem')
BY DEF OnList, FreeIn

\* The blocks that the walk of a list passes are those marked so.
LEMMA FreeIsMarked ==
    ASSUME NEW m \in Memories, NEW L, Listed(m, L)
    PROVE  FreeIn(m) = {b \in Blocks : m.magic[b] = "unallocated"}
<1>1. /\ FreeIn(m) = {L[k] : k \in 1 .. Len(L)}
      /\ \A k \in 1 .. Len(L) : L[k] \in Blocks
    BY ListIsFreeList, ListLength DEF FreeIn
<1>2. \A b \in Blocks : m.magic[b] = "unallocated" <=> \E k \in 1 .. Len(L) : L[k] = b
    BY DEF Listed
<1> QED
    BY <1>1, <1>2

\* Held is finite, so that its cardinality counts.
LEMMA HeldFinite == IsFiniteSet(Held) /\ Held \in SUBSET Blocks
<1>1. Held \in SUBSET Blocks
    BY DEF Held
<1> QED
    BY <1>1, BlockFacts, FS_Subset

\* A memory with the same links, levels, marks and sizes has the same list.
LEMMA SameList ==
    ASSUME NEW m, NEW L, Listed(m, L),
           NEW x, x.levels = m.levels, x.next = m.next, x.magic = m.magic, x.size = m.size
    PROVE  Listed(x, L)
<1>1. \A l, k : LinkOK(m, L, l, k) => LinkOK(x, L, l, k)
    BY DEF LinkOK
<1> QED
    BY <1>1 DEF Listed

\* A call that ends the process changes nothing but the status.
LEMMA EndingStep ==
    ASSUME IInv, mem.status = "running", UNCHANGED arena, Ending
    PROVE  IInv' /\ OnList(0)' = OnList(0) /\ mem'.asked = mem.asked
<1>1. PICK t \in {"hung", "fault", "check", "refused"} : mem' = [mem EXCEPT !.status = t]
    BY DEF Ending
<1>2. mem \in Memories /\ Listed(mem, FreeList)
    BY DEF IInv, TypeOK, ListInv
<1>3. /\ mem' \in Memories /\ mem'.status = t
      /\ mem'.levels = mem.levels /\ mem'.next = mem.next /\ mem'.size = mem.size
      /\ mem'.magic = mem.magic /\ mem'.count = mem.count /\ mem'.asked = mem.asked
    BY <1>1, <1>2 DEF Memories, Statuses
<1>4. Held' = Held
    BY <1>3 DEF Held
<1>5. Listed(mem', FreeList)
    BY <1>2, <1>3, SameList
<1>6. FreeList' = FreeList
    BY <1>3, <1>5, ListIsFreeList, Primed
<1>7. TypeOK' /\ SizesInv' /\ OwnerInv' /\ CountInv' /\ ArenaInv'
    BY <1>3, <1>4 DEF IInv, TypeOK, SizesInv, OwnerInv, CountInv, ArenaInv
<1>8. ListInv'
    BY <1>3, <1>5, <1>6 DEF ListInv
<1>9. OnList(0)' = OnList(0)
    BY <1>2, <1>3, <1>5, FreeIsMarked, PrimedFree
<1> QED
    BY <1>3, <1>7, <1>8, <1>9 DEF IInv

\* A memory in which block b was pushed, with the count and the requests as they may be.
LEMMA PushStep ==
    ASSUME IInv, mem.status = "running", NEW b \in Blocks, mem.magic[b] = "allocated",
           NEW l \in 1 .. MaxLevel - 1
    PROVE  LET x == Pushed(mem, b, l)
           IN  /\ x \in Memories /\ x.status = "running"
               /\ x.size = mem.size /\ x.count = mem.count /\ x.asked = mem.asked
               /\ \A c \in Blocks : x.magic[c] = IF c = b THEN "unallocated" ELSE mem.magic[c]
               /\ Listed(x, <<b>> \o FreeList)
<1>1. mem \in Memories /\ Listed(mem, FreeList) /\ mem.magic[b] # "unallocated"
    BY DEF IInv, TypeOK, ListInv
<1> QED
    BY <1>1, PushListed

\* A region that is seeded goes to the pool (low_level_alloc.c:260-270).
LEMMA SeedingStep ==
    ASSUME IInv, mem.status = "running", UNCHANGED arena,
           NEW b \in Blocks, NEW l \in 1 .. MaxLevel - 1, Seeding(b, l)
    PROVE  /\ IInv' /\ b \notin OnList(0) /\ OnList(0)' = OnList(0) \cup {b}
           /\ mem.asked[b] = 0 /\ mem'.asked = mem.asked
<1>0. mem.magic[b] = "allocated" /\ mem.asked[b] = 0 /\ mem' = Pushed(mem, b, l)
    BY DEF Seeding, Fresh
<1>1. /\ mem' \in Memories /\ mem'.status = "running"
      /\ mem'.size = mem.size /\ mem'.count = mem.count /\ mem'.asked = mem.asked
      /\ \A c \in Blocks : mem'.magic[c] = IF c = b THEN "unallocated" ELSE mem.magic[c]
      /\ Listed(mem', <<b>> \o FreeList)
    BY <1>0, PushStep
<1>2. FreeList' = <<b>> \o FreeList
    BY <1>1, ListIsFreeList, Primed
<1>3. Held' = Held /\ b \notin Held
    BY <1>0, <1>1 DEF Held
<1>4. OwnerInv'
    <2>1. \A c \in Held : c \in Blocks /\ c # b /\ mem.magic[c] = "allocated"
                          /\ mem.asked[c] + HeaderSize <= mem.size[c]
        BY <1>3, HeldFinite DEF IInv, OwnerInv
    <2> QED
        BY <1>1, <1>3, <2>1 DEF OwnerInv
<1>5. TypeOK' /\ SizesInv' /\ CountInv' /\ ArenaInv'
    BY <1>1, <1>3 DEF IInv, TypeOK, SizesInv, CountInv, ArenaInv
<1>6. ListInv'
    BY <1>1, <1>2 DEF ListInv
<1>7. b \notin OnList(0) /\ OnList(0)' = OnList(0) \cup {b}
    <2>1. mem \in Memories /\ Listed(mem, FreeList)
        BY DEF IInv, TypeOK, ListInv
    <2>2. /\ OnList(0) = {c \in Blocks : mem.magic[c] = "unallocated"}
          /\ OnList(0)' = {c \in Blocks : mem'.magic[c] = "unallocated"}
        BY <1>1, <2>1, FreeIsMarked, PrimedFree
    <2> QED
        BY <1>0, <1>1, <2>2
<1> QED
    BY <1>0, <1>1, <1>4, <1>5, <1>6, <1>7 DEF IInv

\* A block that is freed goes from its caller to the pool (low_level_alloc.c:272-282).
LEMMA FreeingStep ==
    ASSUME IInv, mem.status = "running", UNCHANGED arena,
           NEW b \in Blocks, NEW l \in 1 .. MaxLevel - 1, Freeing(b, l)
    PROVE  /\ IInv' /\ OnList(0)' = OnList(0) \cup {b}
           /\ b \in Held /\ mem'.asked = [mem.asked EXCEPT ![b] = 0]
<1> DEFINE x == Pushed(mem, b, l)
<1>0. b \in Held /\ mem.magic[b] = "allocated" /\ mem.count # 0
      /\ mem' = [x EXCEPT !.count = @ - 1, !.asked[b] = 0] /\ mem \in Memories
    BY DEF Freeing, Freed, IInv, TypeOK
<1>1. /\ x \in Memories /\ x.status = "running"
      /\ x.size = mem.size /\ x.count = mem.count /\ x.asked = mem.asked
      /\ \A c \in Blocks : x.magic[c] = IF c = b THEN "unallocated" ELSE mem.magic[c]
      /\ Listed(x, <<b>> \o FreeList)
    BY <1>0, PushStep
<1> HIDE DEF x
<1>2. mem' = [x EXCEPT !.count = mem.count - 1, !.asked = [mem.asked EXCEPT ![b] = 0]]
    BY <1>0, <1>1 DEF Memories
<1>3. mem.count - 1 \in Nat /\ [mem.asked EXCEPT ![b] = 0] \in [Blocks -> Nat]
    BY <1>0 DEF Memories
<1>4. /\ mem' \in Memories /\ mem'.status = "running"
      /\ mem'.levels = x.levels /\ mem'.next = x.next /\ mem'.magic = x.magic
      /\ mem'.size = mem.size /\ mem'.count = mem.count - 1
      /\ mem'.asked = [mem.asked EXCEPT ![b] = 0]
    BY <1>1, <1>2, <1>3 DEF Memories
<1>5. Listed(mem', <<b>> \o FreeList)
    BY <1>1, <1>4, SameList
<1>6. FreeList' = <<b>> \o FreeList
    BY <1>4, <1>5, ListIsFreeList, Primed
<1>7. Held' = Held \ {b}
    BY <1>0, <1>4 DEF Held, Memories
<1>8. CountInv'
    <2>1. Cardinality(Held \ {b}) = Cardinality(Held) - 1
        BY <1>0, HeldFinite, FS_RemoveElement
    <2> QED
        BY <1>4, <1>7, <2>1 DEF IInv, CountInv
<1>9. OwnerInv'
    <2>1. \A c \in Held \ {b} : /\ c \in Blocks /\ c # b /\ mem.magic[c] = "allocated"
                                /\ mem.asked[c] + HeaderSize <= mem.size[c]
        BY HeldFinite DEF IInv, OwnerInv
    <2>2. \A c \in Held \ {b} : mem'.asked[c] = mem.asked[c] /\ mem'.magic[c] = mem.magic[c]
        BY <1>0, <1>1, <1>4, <2>1 DEF Memories
    <2> QED
        BY <1>4, <1>7, <2>1, <2>2 DEF OwnerInv
<1>10. TypeOK' /\ SizesInv' /\ ArenaInv'
    BY <1>4 DEF IInv, TypeOK, SizesInv, ArenaInv
<1>11. ListInv'
    BY <1>4, <1>5, <1>6 DEF ListInv
<1>12. OnList(0)' = OnList(0) \cup {b}
    <2>1. Listed(mem, FreeList)
        BY DEF IInv, ListInv
    <2>2. /\ OnList(0) = {c \in Blocks : mem.magic[c] = "unallocated"}
          /\ OnList(0)' = {c \in Blocks : mem'.magic[c] = "unallocated"}
        BY <1>0, <1>4, <1>5, <2>1, FreeIsMarked, PrimedFree
    <2> QED
        BY <1>1, <1>4, <2>2
<1> QED
    BY <1>0, <1>4, <1>8, <1>9, <1>10, <1>11, <1>12 DEF IInv

\* A block that is allocated goes from the front of the pool to its caller (low_level_alloc.c:335-346).
LEMMA TakingStep ==
    ASSUME IInv, mem.status = "running", UNCHANGED arena, NEW r \in Requests, Taking(r)
    PROVE  /\ IInv'
           /\ \E b \in OnList(0) : /\ r > 0 /\ r + HeaderSize <= SizeOf[b]
                                   /\ OnList(0)' = OnList(0) \ {b}
                                   /\ mem'.asked = [mem.asked EXCEPT ![b] = r]
<1> DEFINE s == FreeList[1]
           y == Unlink(mem, s)
<1>0. /\ mem \in Memories /\ Listed(mem, FreeList) /\ Len(FreeList) > 0
      /\ r > 0 /\ r + HeaderSize <= mem.size[s]
      /\ mem' = [y EXCEPT !.magic[s] = "allocated", !.count = @ + 1, !.asked[s] = r]
    BY DEF Taking, Popped, IInv, TypeOK, ListInv
<1>1. s \in Blocks /\ mem.magic[s] = "unallocated" /\ r \in Nat /\ FreeList \in Seq(Blocks)
    <2>1. 1 \in 1 .. Len(FreeList)
        BY <1>0, ListLength
    <2>2. s \in Blocks
        BY <1>0, <2>1, ListLength
    <2>3. mem.magic[s] = "unallocated"
        BY <1>0, <2>1, <2>2 DEF Listed
    <2> QED
        BY <1>0, <2>2, <2>3, AllocAssumption, MathAssumption DEF Listed
<1>2. s \notin Held
    BY <1>1 DEF IInv, OwnerInv
<1>3. /\ y \in Memories
      /\ y.size = mem.size /\ y.count = mem.count /\ y.asked = mem.asked /\ y.status = "running"
      /\ y.magic = mem.magic
    <2>1. \A k \in Levels : k < mem.levels[s] => mem.next[freelist][k] = s
        BY <1>0, FirstBlock
    <2> QED
        BY <1>0, <1>1, <2>1, UnlinkedFields
<1> HIDE DEF y, s
<1>4. mem' = [y EXCEPT !.magic = [mem.magic EXCEPT ![s] = "allocated"], !.count = mem.count + 1,
                       !.asked = [mem.asked EXCEPT ![s] = r]]
    BY <1>0, <1>3 DEF Memories
<1>5. /\ mem.count + 1 \in Nat /\ [mem.asked EXCEPT ![s] = r] \in [Blocks -> Nat]
      /\ [mem.magic EXCEPT ![s] = "allocated"] \in [Nodes -> {"unallocated", "allocated", "none"}]
    <2>1. /\ mem.count \in Nat /\ mem.asked \in [Blocks -> Nat]
          /\ mem.magic \in [Nodes -> {"unallocated", "allocated", "none"}]
        BY <1>0 DEF Memories
    <2>2. r \in Nat
        BY <1>1
    <2>3. [mem.asked EXCEPT ![s] = r] \in [Blocks -> Nat]
        BY <2>1, <2>2
    <2>4. [mem.magic EXCEPT ![s] = "allocated"] \in [Nodes -> {"unallocated", "allocated", "none"}]
        BY <2>1
    <2>5. mem.count + 1 \in Nat
        BY <2>1
    <2> QED
        BY <2>3, <2>4, <2>5
<1>6. /\ mem' \in Memories /\ mem'.status = "running"
      /\ mem'.levels = y.levels /\ mem'.next = y.next
      /\ mem'.magic = [mem.magic EXCEPT ![s] = "allocated"]
      /\ mem'.size = mem.size /\ mem'.count = mem.count + 1
      /\ mem'.asked = [mem.asked EXCEPT ![s] = r]
    BY <1>3, <1>4, <1>5 DEF Memories
<1>7. \A b \in Blocks : /\ mem'.magic[b] = IF b = s THEN "allocated" ELSE mem.magic[b]
                        /\ mem'.asked[b] = IF b = s THEN r ELSE mem.asked[b]
    BY <1>0, <1>6, BlockFacts DEF Memories
<1>8. Listed(mem', Tail(FreeList))
    <2>1. y = Unlink(mem, FreeList[1])
        BY DEF y, s
    <2>2. mem'.levels = y.levels /\ mem'.next = y.next /\ mem'.size = y.size
        BY <1>3, <1>6
    <2>3. \A b \in Blocks : mem'.magic[b] = IF b = FreeList[1] THEN "allocated" ELSE mem.magic[b]
        BY <1>7 DEF s
    <2>4. mem \in Memories /\ Listed(mem, FreeList) /\ Len(FreeList) > 0
        BY <1>0
    <2> QED
        BY <2>1, <2>2, <2>3, <2>4, PopListed
<1>9. FreeList' = Tail(FreeList)
    BY <1>6, <1>8, ListIsFreeList, Primed
<1>10. Held' = Held \cup {s}
    BY <1>0, <1>1, <1>7, MathAssumption DEF Held
<1>11. CountInv'
    <2>1. Cardinality(Held \cup {s}) = Cardinality(Held) + 1
        BY <1>2, HeldFinite, FS_AddElement
    <2> QED
        BY <1>6, <1>10, <2>1 DEF IInv, CountInv
<1>12. OwnerInv'
    <2>1. \A c \in Held : /\ c \in Blocks /\ c # s /\ mem.magic[c] = "allocated"
                          /\ mem.asked[c] + HeaderSize <= mem.size[c]
        BY <1>2, HeldFinite DEF IInv, OwnerInv
    <2> QED
        BY <1>0, <1>1, <1>6, <1>7, <1>10, <2>1 DEF OwnerInv, s
<1>13. TypeOK' /\ SizesInv' /\ ArenaInv'
    BY <1>6 DEF IInv, TypeOK, SizesInv, ArenaInv
<1>14. ListInv'
    BY <1>6, <1>8, <1>9 DEF ListInv
<1>15. s \in OnList(0) /\ OnList(0)' = OnList(0) \ {s}
    <2>1. /\ OnList(0) = {c \in Blocks : mem.magic[c] = "unallocated"}
          /\ OnList(0)' = {c \in Blocks : mem'.magic[c] = "unallocated"}
        BY <1>0, <1>6, <1>8, FreeIsMarked, PrimedFree
    <2> QED
        BY <1>1, <1>7, <2>1
<1>16. mem.size[s] = SizeOf[s]
    BY <1>1 DEF IInv, SizesInv
<1>17. IInv'
    BY <1>11, <1>12, <1>13, <1>14 DEF IInv
<1> QED
    BY <1>0, <1>6, <1>15, <1>16, <1>17

\* The walk along a level stops at once where the head has no link.
LEMMA EmptyWalk ==
    ASSUME NEW m, m.next[freelist][0] = NULL
    PROVE  ListOf(m) = << >> /\ FreeIn(m) = {}
<1> DEFINE c == Chain(m, 0)
           N == Cardinality(Blocks) + 1
           Off == {k \in 1 .. N : c[k] # NULL}
<1>1. /\ DOMAIN c = 0 .. N /\ c[0] = freelist
      /\ \A k \in 1 .. N : c[k] = IF c[k - 1] = NULL THEN NULL ELSE m.next[c[k - 1]][0]
    BY ChainSteps
<1>2. N \in Nat
    BY BlockFacts
<1> HIDE DEF c, N
<1>3. Off = {}
    <2>1. ASSUME NEW k \in Off PROVE \E i \in Off : i < k
        <3>1. k # 1
            BY <1>1, BlockFacts
        <3>2. k - 1 \in 1 .. N /\ k - 1 < k
            BY <1>2, <3>1
        <3> QED
            BY <1>1, <3>2
    <2>2. Off \in SUBSET Nat
        BY <1>2
    <2> HIDE DEF Off
    <2> QED
        BY <2>1, <2>2, Descent
<1>4. \A k \in DOMAIN c : c[k] \notin Blocks
    BY <1>1, <1>2, <1>3, BlockFacts
<1>5. {k \in DOMAIN c : c[k] \in Blocks} = {}
    BY <1>4
<1>6. ListOf(m) = [k \in 1 .. 0 |-> c[k]]
    BY <1>5, FS_EmptySet DEF ListOf, c
<1>7. FreeIn(m) = {}
    BY <1>4 DEF FreeIn, c
<1> QED
    BY <1>6, <1>7

\* An arena that is deleted leaves neither a list nor a block with a caller (low_level_alloc.c:385-425).
LEMMA ClosingStep ==
    ASSUME IInv, mem.status = "running", UNCHANGED arena, Closing
    PROVE  IInv' /\ Held = {} /\ OnList(0)' = {} /\ mem'.asked = mem.asked
<1>1. mem \in Memories /\ mem.count = 0
      /\ mem' = [mem EXCEPT !.next[freelist][0] = NULL, !.status = "deleted"]
    BY DEF Closing, IInv, TypeOK
<1>2. mem' = [mem EXCEPT !.next = [mem.next EXCEPT ![freelist] = [@ EXCEPT ![0] = NULL]],
                         !.status = "deleted"]
    BY <1>1 DEF Memories
<1>3. /\ [mem.next EXCEPT ![freelist] = [@ EXCEPT ![0] = NULL]]
            \in [Nodes -> [Levels -> Blocks \cup {NULL}]]
      /\ [mem.next EXCEPT ![freelist] = [@ EXCEPT ![0] = NULL]][freelist][0] = NULL
    <2>1. mem.next \in [Nodes -> [Levels -> Blocks \cup {NULL}]] /\ freelist \in Nodes /\ 0 \in Levels
        BY <1>1, BlockFacts DEF Memories
    <2>2. [mem.next[freelist] EXCEPT ![0] = NULL] \in [Levels -> Blocks \cup {NULL}]
        BY <2>1
    <2> QED
        BY <2>1, <2>2
<1>4. /\ mem' \in Memories /\ mem'.status = "deleted" /\ mem'.next[freelist][0] = NULL
      /\ mem'.levels = mem.levels /\ mem'.size = mem.size
      /\ mem'.magic = mem.magic /\ mem'.count = mem.count /\ mem'.asked = mem.asked
    BY <1>1, <1>2, <1>3 DEF Memories, Statuses
<1>5. FreeList' = << >> /\ OnList(0)' = {}
    BY <1>4, EmptyWalk, Primed, PrimedFree
<1>6. Held = {}
    BY <1>1, HeldFinite, FS_EmptySet DEF IInv, CountInv
<1>7. Held' = {}
    BY <1>4, <1>6 DEF Held
<1>8. TypeOK' /\ SizesInv' /\ OwnerInv' /\ CountInv' /\ ArenaInv'
    BY <1>4, <1>6, <1>7 DEF IInv, TypeOK, SizesInv, OwnerInv, CountInv, ArenaInv
<1>9. ListInv'
    BY <1>4, <1>5, <1>7 DEF ListInv
<1> QED
    BY <1>4, <1>5, <1>6, <1>8, <1>9 DEF IInv

\* The invariant holds in the beginning: the arena has no list, and no block is held.
LEMMA InitInv == Init => IInv /\ OnList(0) = {} /\ mem.asked = [b \in Blocks |-> 0]
<1> SUFFICES ASSUME Init PROVE IInv /\ OnList(0) = {} /\ mem.asked = [b \in Blocks |-> 0]
    OBVIOUS
<1>1. /\ mem.levels = [n \in Nodes |-> 0] /\ mem.next = [n \in Nodes |-> [l \in Levels |-> NULL]]
      /\ mem.size = [n \in Nodes |-> IF n = freelist THEN 0 ELSE SizeOf[n]]
      /\ mem.magic = [n \in Nodes |-> IF n = freelist THEN "unallocated" ELSE "allocated"]
      /\ mem.count = 0 /\ mem.asked = [b \in Blocks |-> 0] /\ mem.status = "running"
      /\ mem = [levels |-> mem.levels, next |-> mem.next, size |-> mem.size, magic |-> mem.magic,
                count |-> mem.count, asked |-> mem.asked, status |-> mem.status]
    BY DEF Init
<1>2. mem \in Memories
    <2>1. mem.levels \in [Nodes -> Levels] /\ mem.next \in [Nodes -> [Levels -> Blocks \cup {NULL}]]
        BY <1>1, BlockFacts
    <2>2. mem.size \in [Nodes -> Nat]
        <3>1. \A n \in Nodes : (IF n = freelist THEN 0 ELSE SizeOf[n]) \in Nat
            BY BlockFacts
        <3> QED
            BY <1>1, <3>1
    <2>3. mem.magic \in [Nodes -> {"unallocated", "allocated", "none"}]
        BY <1>1
    <2>4. mem.count \in Nat /\ mem.asked \in [Blocks -> Nat] /\ mem.status \in Statuses
        BY <1>1 DEF Statuses
    <2> QED
        BY <1>1, <2>1, <2>2, <2>3, <2>4 DEF Memories
<1>3. TypeOK /\ ArenaInv
    <2>1. rounded_up_block_size \in 0 .. WordSize /\ 0 \in 0 .. WordSize
        BY RoundedOK, MathAssumption
    <2>2. arena \in [kind : Globals \cup {"own"}, round_up : Nat, pagesize : Nat, min_size : Nat]
          /\ arena.round_up \in 0 .. WordSize
        BY <2>1, AllocAssumption, MathAssumption DEF Init
    <2> QED
        BY <1>2, <2>2 DEF TypeOK, ArenaInv
<1>4. Held = {}
    BY <1>1 DEF Held
<1>5. SizesInv
    BY <1>1, BlockFacts DEF SizesInv
<1>6. OwnerInv /\ CountInv
    BY <1>1, <1>4, FS_EmptySet DEF OwnerInv, CountInv
<1>7. freelist \in Nodes /\ 0 \in Levels /\ mem.next[freelist][0] = NULL /\ mem.levels[freelist] = 0
    BY <1>1, BlockFacts
<1>8. FreeList = << >> /\ OnList(0) = {}
    BY <1>7, EmptyWalk, Primed, PrimedFree
<1>9. Listed(mem, << >>)
    <2>1. << >> \in Seq(Blocks) /\ Len(<< >>) = 0
        OBVIOUS
    <2>2. \A b \in Blocks : mem.magic[b] # "unallocated"
        BY <1>1, BlockFacts
    <2>3. \A l \in Levels : LinkOK(mem, << >>, l, 0)
        BY <1>1, <1>7, <2>1 DEF LinkOK, At
    <2> QED
        BY <1>7, <2>1, <2>2, <2>3 DEF Listed
<1>10. ListInv
    BY <1>1, <1>8, <1>9 DEF ListInv
<1> QED
    BY <1>1, <1>3, <1>5, <1>6, <1>8, <1>10 DEF IInv

\* No step breaks the invariant.
LEMMA StepInv == IInv /\ [Next]_vars => IInv'
<1> SUFFICES ASSUME IInv, [Next]_vars PROVE IInv'
    OBVIOUS
<1>1. Outcomes
    BY StepOutcome
<1>2. CASE UNCHANGED mem
    <2>1. FreeList' = FreeList /\ Held' = Held
        BY <1>2, Primed DEF Held
    <2>2. Listed(mem', FreeList') <=> Listed(mem, FreeList)
        BY <1>2, <2>1
    <2> QED
        BY <1>1, <1>2, <2>1, <2>2
        DEF Outcomes, IInv, TypeOK, SizesInv, ListInv, OwnerInv, CountInv, ArenaInv
<1>3. CASE mem.status = "running" /\ UNCHANGED arena /\ Ending
    BY <1>3, EndingStep
<1>4. CASE mem.status = "running" /\ UNCHANGED arena /\ Closing
    BY <1>4, ClosingStep
<1>5. ASSUME mem.status = "running", UNCHANGED arena, NEW b \in Blocks, NEW l \in 1 .. MaxLevel - 1,
             Seeding(b, l) \/ Freeing(b, l)
      PROVE  IInv'
    BY <1>5, SeedingStep, FreeingStep
<1>6. ASSUME mem.status = "running", UNCHANGED arena, NEW r \in Requests, Taking(r)
      PROVE  IInv'
    BY <1>6, TakingStep
<1> QED
    BY <1>1, <1>2, <1>3, <1>4, <1>5, <1>6 DEF Outcomes

\* The invariant holds in every state of every behaviour.
THEOREM Inductive == Spec => []IInv
BY InitInv, StepInv, PTL DEF Spec

\* The state has its type; no block gets more levels than its header has links, whatever
\* its size and the random number (low_level_alloc.c:75-82).
THEOREM TypeCorrect == Spec => []TypeOK
<1>1. IInv => TypeOK
    BY DEF IInv
<1> QED
    BY <1>1, Inductive, PTL

\* The blocks that the walk of the bottom level passes are those of the list.
LEMMA OnTheList ==
    ASSUME IInv, mem.status # "deleted"
    PROVE  /\ mem \in Memories /\ Listed(mem, FreeList)
           /\ OnList(0) = {FreeList[k] : k \in 1 .. Len(FreeList)}
<1>1. mem \in Memories /\ Listed(mem, FreeList)
    BY DEF IInv, TypeOK, ListInv
<1> QED
    BY <1>1, ListIsFreeList DEF OnList

\* While the process runs, the list is a skip list at every level: each link goes to the next
\* block that is high enough, and the head is as high as the highest block; whatever
\* blocks were put on it and taken from it (low_level_alloc.c:84-114).
THEOREM LevelsCorrect == Spec => []LevelsAgree
<1>1. IInv => LevelsAgree
    <2> SUFFICES ASSUME IInv, mem.status = "running" PROVE LevelsAgree
        BY DEF LevelsAgree
    <2> DEFINE L == FreeList
               n == Len(L)
               Higher(l, k) == {j \in k + 1 .. n : mem.levels[L[j]] > l}
    <2>1. mem \in Memories /\ Listed(mem, L) /\ OnList(0) = {L[k] : k \in 1 .. n}
        BY OnTheList
    <2> HIDE DEF L
    <2>2. n \in Nat /\ \A k \in 1 .. n : L[k] \in Blocks /\ mem.levels[L[k]] \in Nat
                                         /\ mem.levels[L[k]] <= mem.levels[freelist]
        BY <2>1, ListLength, MemoryLevels, BlockFacts DEF Listed
    <2>3. mem.levels[freelist] \in Nat /\ Levels \subseteq Nat
        BY <2>1, MemoryLevels, BlockFacts
    <2>4. ASSUME NEW l \in Levels, NEW k \in 0 .. n, k = 0 \/ mem.levels[At(L, k)] > l
          PROVE  mem.next[At(L, k)][l] = IF Higher(l, k) = {} THEN NULL ELSE L[Min(Higher(l, k))]
        <3>1. LinkOK(mem, L, l, k)
            BY <2>1, <2>4 DEF Listed, At
        <3>2. CASE mem.next[At(L, k)][l] = NULL /\ \A j \in k + 1 .. n : mem.levels[L[j]] <= l
            <4>1. Higher(l, k) = {}
                BY <2>2, <2>3, <3>2
            <4> QED
                BY <3>2, <4>1
        <3>3. ASSUME NEW j \in k + 1 .. n, mem.next[At(L, k)][l] = L[j], mem.levels[L[j]] > l,
                     \A i \in k + 1 .. j - 1 : mem.levels[L[i]] <= l
              PROVE  Higher(l, k) # {} /\ mem.next[At(L, k)][l] = L[Min(Higher(l, k))]
            <4>1. j \in Higher(l, k) /\ Higher(l, k) \in SUBSET Nat
                BY <2>2, <3>3
            <4>2. \A i \in Higher(l, k) : j <= i
                <5> SUFFICES ASSUME NEW i \in Higher(l, k), i < j PROVE FALSE
                    BY <2>2
                <5>1. i \in k + 1 .. j - 1 /\ i \in 1 .. n /\ mem.levels[L[i]] > l
                    BY <2>2
                <5>2. mem.levels[L[i]] <= l /\ mem.levels[L[i]] \in Nat /\ l \in Nat
                    BY <2>2, <2>3, <3>3, <5>1
                <5> QED
                    BY <5>1, <5>2
            <4> HIDE DEF Higher
            <4>3. Min(Higher(l, k)) \in Higher(l, k) /\ Min(Higher(l, k)) <= j
                BY <4>1, MinOK
            <4>4. Min(Higher(l, k)) = j
                BY <4>1, <4>2, <4>3
            <4> QED
                BY <3>3, <4>1, <4>4
        <3> QED
            BY <3>1, <3>2, <3>3 DEF LinkOK
    <2>5. mem.levels[freelist] = Max({0} \cup {mem.levels[b] : b \in OnList(0)})
        <3> DEFINE S == {0} \cup {mem.levels[b] : b \in OnList(0)}
                   H == mem.levels[freelist]
        <3>1. S \in SUBSET (0 .. H)
            BY <2>1, <2>2, <2>3
        <3>2. H \in S
            <4>1. H = 0 \/ \E k \in 1 .. n : mem.levels[L[k]] = H
                BY <2>1 DEF Listed
            <4> QED
                BY <2>1, <4>1
        <3> HIDE DEF S
        <3>3. Max(S) \in S /\ H <= Max(S)
            BY <2>3, <3>1, <3>2, MaxBounded
        <3>4. Max(S) = H
            BY <2>3, <3>1, <3>3
        <3> QED
            BY <3>4 DEF S
    <2>6. ASSUME NEW l \in Levels, NEW k \in 0 .. n
          PROVE  LET node == IF k = 0 THEN freelist ELSE L[k]
                     higher == {j \in k + 1 .. n : mem.levels[L[j]] > l}
                 IN  k = 0 \/ mem.levels[node] > l =>
                         mem.next[node][l] = IF higher = {} THEN NULL ELSE L[Min(higher)]
        BY <2>4 DEF At
    <2> QED
        BY <2>5, <2>6 DEF LevelsAgree, L
<1> QED
    BY <1>1, Inductive, PTL

\* While the process runs, the blocks on the list are those marked unallocated, and none of
\* them is with a caller: a second free of a block, or a free of what is on the list,
\* never goes by unseen (low_level_alloc.c:260-270, 344).
THEOREM MagicCorrect == Spec => []MagicTellsOwner
<1>1. IInv => MagicTellsOwner
    <2> SUFFICES ASSUME IInv, mem.status = "running"
                 PROVE  /\ OnList(0) = {b \in Blocks : mem.magic[b] = "unallocated"}
                        /\ Held \cap OnList(0) = {}
        BY DEF MagicTellsOwner
    <2>1. /\ Listed(mem, FreeList) /\ OnList(0) = {FreeList[k] : k \in 1 .. Len(FreeList)}
          /\ \A k \in 1 .. Len(FreeList) : FreeList[k] \in Blocks
        BY OnTheList, ListLength
    <2>2. OnList(0) = {b \in Blocks : mem.magic[b] = "unallocated"}
        BY <2>1 DEF Listed
    <2>3. \A b \in Held : mem.magic[b] = "allocated"
        BY DEF IInv, OwnerInv
    <2> QED
        BY <2>2, <2>3
<1> QED
    BY <1>1, Inductive, PTL

\* The count is the number of blocks that callers have, so delete_arena refuses as long as
\* there is one (low_level_alloc.c:278, 346, 390).
THEOREM CountCorrect == Spec => []CountIsBlocksOut
<1>1. IInv => CountIsBlocksOut
    BY DEF IInv, CountInv, ListInv, CountIsBlocksOut
<1> QED
    BY <1>1, Inductive, PTL

\* A block that a caller has holds its header and what the caller has asked for
\* (low_level_alloc.c:290-310, 335-346).
THEOREM RoomCorrect == Spec => []BlockHoldsRequest
<1>1. IInv => BlockHoldsRequest
    BY DEF IInv, OwnerInv, BlockHoldsRequest
<1> QED
    BY <1>1, Inductive, PTL

\* What a caller gets of an arena was free and has room for what it asked, with its header;
\* nobody else gets it before the caller gives it back, and no block that someone has
\* goes with the arena. Nothing is said of which free block it is
\* (low_level_alloc.c:272-363, 385-425).
THEOREM PoolImplemented == Spec => ImplementsPool
<1>1. Init => Pool!Init
    BY InitInv DEF Pool!Init
<1>2. IInv /\ [Next]_vars => [Pool!Next]_Pool!vars
    <2> SUFFICES ASSUME IInv, [Next]_vars PROVE [Pool!Next]_Pool!vars
        OBVIOUS
    <2>1. Outcomes
        BY StepOutcome
    <2>2. CASE UNCHANGED mem
        <3>1. OnList(0)' = OnList(0) /\ mem'.asked = mem.asked
            BY <2>2, PrimedFree
        <3> QED
            BY <3>1 DEF Pool!vars
    <2>3. CASE mem.status = "running" /\ UNCHANGED arena /\ Ending
        BY <2>3, EndingStep DEF Pool!vars
    <2>4. CASE mem.status = "running" /\ UNCHANGED arena /\ Closing
        <3>1. OnList(0)' = {} /\ Held = {} /\ mem'.asked = mem.asked
            BY <2>4, ClosingStep
        <3>2. \A b \in Blocks : mem.asked[b] = 0
            BY <3>1 DEF Held, IInv, TypeOK, Memories
        <3> QED
            BY <3>1, <3>2 DEF Pool!Next, Pool!Close
    <2>5. ASSUME mem.status = "running", UNCHANGED arena,
                 NEW b \in Blocks, NEW l \in 1 .. MaxLevel - 1, Seeding(b, l)
          PROVE  Pool!Donate(b)
        BY <2>5, SeedingStep DEF Pool!Donate
    <2>6. ASSUME mem.status = "running", UNCHANGED arena,
                 NEW b \in Blocks, NEW l \in 1 .. MaxLevel - 1, Freeing(b, l)
          PROVE  Pool!GiveBack(b)
        BY <2>6, FreeingStep DEF Pool!GiveBack, Held
    <2>7. ASSUME mem.status = "running", UNCHANGED arena, NEW r \in Requests, Taking(r)
          PROVE  \E b \in Blocks : Pool!Take(b, r)
        <3>1. PICK b \in OnList(0) : /\ r > 0 /\ r + HeaderSize <= SizeOf[b]
                                    /\ OnList(0)' = OnList(0) \ {b}
                                    /\ mem'.asked = [mem.asked EXCEPT ![b] = r]
            BY <2>7, TakingStep
        <3>2. b \in Blocks
            BY DEF OnList
        <3>3. r <= SizeOf[b] - HeaderSize /\ 0 < r
            BY <3>1, <3>2, BlockFacts, AllocAssumption, MathAssumption
        <3> QED
            BY <3>1, <3>2, <3>3 DEF Pool!Take
    <2> QED
        BY <2>1, <2>2, <2>3, <2>4, <2>5, <2>6, <2>7 DEF Outcomes, Pool!Next
<1> QED
    BY <1>1, <1>2, Inductive, PTL DEF Spec, ImplementsPool, Pool!Spec
====
