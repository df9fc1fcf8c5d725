---- MODULE LowLevelAlloc ----
(* The low level allocator (low_level_alloc.c): one arena with its free list,
   a skip list, called by one thread. A block is named by the address its
   HEADER belongs to. Each operation gives the set of its outcomes, as the
   entries of prev are indeterminate before the first search with them. *)
EXTENDS AllocMath, FiniteSets, FiniteSetsExt, Sequences

CONSTANTS Blocks,      \* addresses of the regions handed to add_to_free_list
          SizeOf,      \* their sizes
          NewPages,    \* the address of the next pages of mmap
          Requests,    \* sizes asked for
          PageSize,
          MinSizes     \* what init_arena may leave in min_size: it does not set it

ASSUME AllocAssumption ==
    /\ Blocks \subseteq Nat \ {0} /\ SizeOf \in [Blocks -> Nat]
    /\ \A b \in Blocks : SizeOf[b] > HeaderSize  \* new_pages_size has room for more
    /\ \A b \in Blocks : b + SizeOf[b] < WordSize
    /\ \A b, c \in Blocks : b < c => b + SizeOf[b] <= c
    \* Behind a region too small for its own links there is none that they would run into.
    /\ \A b, c \in Blocks : b < c /\ SizeOf[b] < NextOffset
                              => b + NextOffset + MaxLevel * PointerSize <= c
    /\ NewPages - HeaderSize \notin Blocks
    /\ Requests \subseteq 0 .. WordSize - 1 /\ MinSizes \subseteq Nat /\ PageSize \in Nat \ {0}

NULL == -1
freelist == 0              \* &arena->freelist
Nodes == Blocks \cup {freelist}
Levels == 0 .. MaxLevel - 1

VARIABLES arena,  \* its kind and its parameters
          mem     \* the list heads and block headers, the count, how the process is

vars == <<arena, mem>>

Globals == {"default", "unhooked", "async"}

\* What the code hands out is held by the caller until it is freed.
Held == {b \in Blocks : mem.asked[b] > 0}

\* The three global arenas are zeroed storage, as no one calls
\* create_global_arenas; "own" has been through init_arena.
Init ==
    /\ arena \in {[kind |-> k, round_up |-> 0, pagesize |-> 0, min_size |-> 0] : k \in Globals}
            \cup {[kind |-> "own", round_up |-> rounded_up_block_size,
                   pagesize |-> PageSize, min_size |-> s] : s \in MinSizes}
    /\ mem = [levels |-> [n \in Nodes |-> 0],
              next |-> [n \in Nodes |-> [l \in Levels |-> NULL]],
              size |-> [n \in Nodes |-> IF n = freelist THEN 0 ELSE SizeOf[n]],
              magic |-> [n \in Nodes |-> IF n = freelist THEN "unallocated" ELSE "allocated"],
              count |-> 0,
              asked |-> [b \in Blocks |-> 0],
              status |-> "running"]

\* A failed check runs into CIC_UNREACHABLE.
Ends(m, how) == {[m EXCEPT !.status = s] : s \in how}

\* The outcomes of what comes after ms.
Then(ms, After(_)) == UNION {IF m.status = "running" THEN After(m) ELSE {m} : m \in ms}

\* The skip list. *prev is prev[0] for every level, and no step of the
\* inner loop changes it: a smaller successor keeps the loop for ever. known
\* tells that prev[0] is set, and then it is the head.
lla_skip_list_search(m, e, known) ==
    IF m.levels[freelist] = 0 THEN {m}
    ELSE IF ~known THEN {m} \cup Ends(m, {"hung", "fault"})
    ELSE IF \E l \in 0 .. m.levels[freelist] - 1 :
               m.next[freelist][l] \in Blocks /\ m.next[freelist][l] < e
         THEN Ends(m, {"hung"})
         ELSE {m}

Found(m) == IF m.levels[freelist] = 0 THEN NULL ELSE m.next[freelist][0]

\* Slip: the new element is linked one level short of its own.
LinkFirstShort(m, e) ==
    LET on == 0 .. m.levels[e] - 2
    IN  [m EXCEPT !.levels[freelist] = Max({@, m.levels[e]}),
                  !.next[e] = [l \in Levels |-> IF l \in on THEN m.next[freelist][l] ELSE @[l]],
                  !.next[freelist] = [l \in Levels |-> IF l \in on THEN e ELSE @[l]]]

\* After the search prev holds the head at each level.
LinkFirst(m, e) ==
    LET on == 0 .. m.levels[e] - 1
    IN  [m EXCEPT !.levels[freelist] = Max({@, m.levels[e]}),
                  !.next[e] = [l \in Levels |-> IF l \in on THEN m.next[freelist][l] ELSE @[l]],
                  !.next[freelist] = [l \in Levels |-> IF l \in on THEN e ELSE @[l]]]

lla_skip_list_insert(m, e, known) ==
    Then(lla_skip_list_search(m, e, known), LAMBDA x : {LinkFirst(x, e)})

\* The element goes from each level at which prev points to it, and the head
\* loses the levels that are empty.
Unlink(m, e) ==
    LET off == {l \in 0 .. m.levels[e] - 1 : \A k \in 0 .. l : m.next[freelist][k] = e}
        links == [l \in Levels |-> IF l \in off THEN m.next[e][l] ELSE m.next[freelist][l]]
    IN  [m EXCEPT !.next[freelist] = links,
                  !.levels[freelist] = Max({0} \cup {l \in 1 .. @ : links[l - 1] # NULL})]

\* Slip: whatever comes first is taken for the element.
lla_skip_list_deleteUnchecked(m, e, known) ==
    Then(lla_skip_list_search(m, e, known), LAMBDA x : {Unlink(x, e)})

lla_skip_list_delete(m, e, known) ==
    Then(lla_skip_list_search(m, e, known),
         LAMBDA x : IF e = Found(x) THEN {Unlink(x, e)} ELSE Ends(x, {"check"}))

SetLevels(m, b) ==
    UNION {IF l = 0 THEN Ends(m, {"check"}) ELSE {[m EXCEPT !.levels[b] = l]} :
              l \in lla_skip_list_levels(m.size[b], arena.min_size, TRUE)}

coalesce(m, a) ==
    LET n == m.next[a][0]
    IN  IF n = NULL \/ a + m.size[a] # n THEN {m}
        ELSE Then(lla_skip_list_delete([m EXCEPT !.size[a] = @ + m.size[n], !.magic[n] = "none"],
                                       n, FALSE),
                  LAMBDA x : Then(lla_skip_list_delete(x, a, TRUE),
                  LAMBDA y : Then(SetLevels(y, a),
                  LAMBDA z : lla_skip_list_insert(z, a, TRUE))))

\* Slip: the header of the new element still says that it is allocated.
add_to_free_listOldMagic(m, v) ==
    LET f == v - HeaderSize
    IN  IF f \notin Blocks THEN Ends(m, {"check", "fault"})
        ELSE IF m.magic[f] # "allocated" THEN Ends(m, {"check"})
        ELSE Then(SetLevels(m, f),
                  LAMBDA w : Then(lla_skip_list_insert(w, f, FALSE),
                  LAMBDA x : Then(coalesce(x, f), LAMBDA y : coalesce(y, freelist))))

\* The free list. The header is looked for below v; at an address that is
\* not below a block's user bytes there is no header, or no memory.
add_to_free_list(m, v) ==
    LET f == v - HeaderSize
    IN  IF f \notin Blocks THEN Ends(m, {"check", "fault"})
        ELSE IF m.magic[f] # "allocated" THEN Ends(m, {"check"})
        ELSE Then(SetLevels(m, f),
                  LAMBDA w : Then(lla_skip_list_insert(w, f, FALSE),
                  LAMBDA x : Then(coalesce([x EXCEPT !.magic[f] = "unallocated"], f),
                  LAMBDA y : coalesce(y, freelist))))

\* Slip: the count is left as it is.
low_level_alloc_freeUncounted(m, v) ==
    Then(add_to_free_list(m, v), LAMBDA x : {[x EXCEPT !.asked[v - HeaderSize] = 0]})

low_level_alloc_free(m, v) ==
    Then(add_to_free_list(m, v),
         LAMBDA x : IF x.count = 0 THEN Ends(x, {"check"})
                    ELSE {[x EXCEPT !.count = @ - 1, !.asked[v - HeaderSize] = 0]})

\* The nodes of one level, from the head to the null pointer.
Chain(m, l) ==
    LET node[k \in 0 .. Cardinality(Blocks) + 1] ==
            IF k = 0 THEN freelist
            ELSE IF node[k - 1] = NULL THEN NULL ELSE m.next[node[k - 1]][l]
    IN  node

next_(m, l, prev, n) ==
    /\ l < m.levels[prev]
    /\ n # NULL => m.magic[n] = "unallocated"
    /\ n # NULL /\ prev # freelist => prev < n /\ prev + m.size[prev] < n

\* Allocation. The first region of a level that is large enough; 0 where
\* a check of next_ fails on the way, NULL where there is no such region.
FirstFit(m, l, req) ==
    LET c == Chain(m, l)
        stop == Min({k \in DOMAIN c : k > 0 /\ (c[k] = NULL \/ m.size[c[k]] >= req)})
    IN  IF \A k \in 1 .. stop : next_(m, l, c[k - 1], c[k]) THEN c[stop] ELSE freelist

\* The region leaves the list; what is left of it behind req bytes is handed to
\* add_to_free_list at its very start.
Carve(m, s, req, request) ==
    LET least == checked_add(req, arena.min_size)
    IN  Then(lla_skip_list_delete(m, s, FALSE),
             LAMBDA x : IF least = Failed THEN Ends(x, {"check"})
                        ELSE Then(IF least <= x.size[s]
                                  THEN add_to_free_list([x EXCEPT !.size[s] = req], s + req)
                                  ELSE {x},
             LAMBDA y : {[y EXCEPT !.magic[s] = "allocated", !.count = @ + 1,
                                   !.asked[s] = request]}))

\* New pages: mmap fails and nobody looks, or the pages are handed to
\* add_to_free_list at their very start. No outcome of that is running, so
\* the loop around it never comes to a second round.
MapPages(m) == Ends(m, {"fault"}) \cup
    {[x EXCEPT !.status = IF @ = "check" THEN "refused" ELSE @] :
        x \in add_to_free_list(m, NewPages)}

do_alloc_with_arena(m, request) ==
    LET sum == checked_add(request, HeaderSize)
        req == IF sum = Failed THEN Failed ELSE round_up(sum, arena.round_up)
        l   == (CHOOSE n \in lla_skip_list_levels(req, arena.min_size, FALSE) : TRUE) - 1
        s   == IF l < m.levels[freelist] THEN FirstFit(m, l, req) ELSE NULL
    IN  IF request = 0 THEN {m}
        ELSE IF req = Failed \/ l < 0 THEN Ends(m, {"check"})
        ELSE IF s = freelist THEN Ends(m, {"check"})
        ELSE IF s = NULL THEN
            IF round_up(req, arena.pagesize * 16) = Failed THEN Ends(m, {"check"}) ELSE MapPages(m)
        ELSE Carve(m, s, req, request)

\* The regions of the bottom level go one after the other. A failed munmap is
\* a FATAL record, like a failed check.
delete_arena(m) ==
    LET regions == {Chain(m, 0)[k] : k \in DOMAIN Chain(m, 0)} \ {freelist, NULL}
        odd == \E b \in regions : \/ m.magic[b] # "unallocated"
                                  \/ m.size[b] % arena.pagesize # 0
                                  \/ b % arena.pagesize # 0
        gone == [m EXCEPT !.next[freelist][0] = NULL, !.status = "deleted"]
    IN  IF arena.kind \in {"default", "unhooked"} THEN Ends(m, {"check"})
        ELSE IF m.count # 0 THEN {m}
        ELSE IF regions # {} /\ arena.pagesize = 0 THEN Ends(m, {"fault"})
        ELSE IF regions # {} /\ odd THEN Ends(m, {"check"})
        ELSE (IF arena.kind = "async" THEN Ends(m, {"fault"}) ELSE {gone})
             \cup (IF regions # {} THEN Ends(m, {"check"}) ELSE {})

\* The calls. A process that has ended is left with what it had.
Call(outcomes) ==
    /\ mem.status = "running"
    /\ \E m \in outcomes : mem' = IF m.status \in {"running", "deleted"} THEN m
                                  ELSE [mem EXCEPT !.status = m.status]
    /\ UNCHANGED arena

Fresh(b) == mem.magic[b] = "allocated" /\ mem.asked[b] = 0

\* The caller (external): a region with the header that do_alloc_with_arena writes,
\* handed over at the address that add_to_free_list takes. No line of the code does
\* that; without it nothing ever comes onto a list.
Seed(b) == Fresh(b) /\ Call(add_to_free_list(mem, b + HeaderSize))

Alloc(request) == Call(do_alloc_with_arena(mem, request))

\* The caller (external): a block held or free at the address that free takes, and one
\* at the address that alloc has returned. Callers do not write into their
\* blocks: alloc returns the start of the block, so they would write over its header.
Free(b) == ~Fresh(b) /\ Call(low_level_alloc_free(mem, b + HeaderSize))
FreeReturned(b) == b \in Held /\ Call(low_level_alloc_free(mem, b))

\* The structure of a new arena comes from a global one.
NewArena ==
    Call(IF round_up(checked_add(1, HeaderSize), 0) = Failed THEN Ends(mem, {"check"}) ELSE {mem})

DeleteArena == Call(delete_arena(mem))

Next ==
    \/ \E b \in Blocks : Seed(b) \/ Free(b) \/ FreeReturned(b)
    \/ \E r \in Requests : Alloc(r)
    \/ NewArena \/ DeleteArena

Spec == Init /\ [][Next]_vars

----
(* Properties *)

\* The bottom level as a sequence.
FreeList ==
    LET c == Chain(mem, 0)
    IN  [k \in 1 .. Cardinality({k \in DOMAIN c : c[k] \in Blocks}) |-> c[k]]

OnList(l) == {b \in Blocks : \E k \in DOMAIN Chain(mem, l) : Chain(mem, l)[k] = b}

Statuses == {"running", "hung", "fault", "check", "refused", "deleted"}

Memories ==
    [levels : [Nodes -> Levels],
     next : [Nodes -> [Levels -> Blocks \cup {NULL}]],
     size : [Nodes -> Nat],
     magic : [Nodes -> {"unallocated", "allocated", "none"}],
     count : Nat,
     asked : [Blocks -> Nat],
     status : Statuses]

\* Every variable has its type; no block gets more levels than next has entries, which
\* only the caps of lla_skip_list_levels see to (low_level_alloc.c:75-82).
TypeOK ==
    /\ arena \in [kind : Globals \cup {"own"}, round_up : Nat, pagesize : Nat, min_size : Nat]
    /\ mem \in Memories

\* Each link of the skip list, from the head or a block that is high enough, goes to the
\* next block of the free list that is high enough, and is null if there is none; the
\* head is as high as the highest block: what search and delete take for granted
\* at every level (low_level_alloc.c:84-114).
LevelsAgree ==
    mem.status = "running" =>
        /\ \A l \in Levels, k \in 0 .. Len(FreeList) :
              LET node == IF k = 0 THEN freelist ELSE FreeList[k]
                  higher == {j \in k + 1 .. Len(FreeList) : mem.levels[FreeList[j]] > l}
              IN  k = 0 \/ mem.levels[node] > l =>
                      mem.next[node][l] = IF higher = {} THEN NULL ELSE FreeList[Min(higher)]
        /\ mem.levels[freelist] = Max({0} \cup {mem.levels[b] : b \in OnList(0)})

\* The magic word of a block tells who has it: the free list, or a caller; so a
\* block that is freed twice is stopped by the check in add_to_free_list (low_level_alloc.c:260-270, 344).
MagicTellsOwner ==
    mem.status = "running" =>
        /\ OnList(0) = {b \in Blocks : mem.magic[b] = "unallocated"}
        /\ Held \cap OnList(0) = {}

\* allocation_count is the number of blocks out, whatever calls came, so
\* delete_arena never gives a block back to the system that someone holds (low_level_alloc.c:278, 346, 390).
CountIsBlocksOut ==
    mem.status \in {"running", "deleted"} =>
        /\ mem.count = Cardinality(Held)
        /\ mem.status = "deleted" => Held = {}

\* A block that is out has room for its header and for what was asked for, in
\* spite of the rounding modulo the word size (low_level_alloc.c:290-297, 335-341).
BlockHoldsRequest ==
    \A b \in Held : mem.asked[b] + HeaderSize <= mem.size[b]

\* Each block of the free list lies behind the one before it, as next_ asserts:
\* "unordered freelist" (low_level_alloc.c:238-239).
FreeListOrdered ==
    mem.status = "running" =>
        \A k \in 1 .. Len(FreeList) - 1 : FreeList[k] < FreeList[k + 1]

\* What the callers see of an arena is the abstract pool: what one of them gets was free,
\* large enough and with nobody else, whatever block of the list it is
\* (low_level_alloc.c:272-363, 385-425).
Pool == INSTANCE BlockPool WITH
            pool <- OnList(0), asked <- mem.asked, Room <- [b \in Blocks |-> SizeOf[b] - HeaderSize]
ImplementsPool == Pool!Spec

\* Pages that were just mapped pass the magic check of add_to_free_list and
\* become part of the free list, as the comment at the call says
\* (low_level_alloc.c:330-331).
NewPagesReachTheList == mem.status # "refused"
====
