---- MODULE Bytes ----
(* Byte order, unaligned access and hidden pointers (endian.h,
   unaligned_access.h, hide_ptr.h). A word is the sequence of its bytes, the
   least significant first; memory is a sequence of bytes; host is the byte
   order of the machine, "little" or "big". Where it is the bits of a byte that
   matter, a byte is the set of those that are one. *)
EXTENDS Integers, Sequences, FiniteSetsExt

\* Byte k of x, masked out, is shifted by shifts[k] bytes.
MoveBytes(x, shifts) == [j \in DOMAIN x |-> x[CHOOSE k \in DOMAIN x : k + shifts[k] = j]]

\* Slip: the middle bytes of each half change places with the wrong ones.
gbswap_64Crossed(x) == MoveBytes(x, <<7, 5, 2, 2, -1, -3, -5, -7>>)

gbswap_64(x) == MoveBytes(x, <<7, 5, 3, 1, -1, -3, -5, -7>>)
gbswap_32(x) == MoveBytes(x, <<3, 1, -1, -3>>)
gbswap_16(x) == MoveBytes(x, <<1, -1>>)

\* The function for the width of x.
gbswap(x) == CASE Len(x) = 8 -> gbswap_64(x)
               [] Len(x) = 4 -> gbswap_32(x)
               [] Len(x) = 2 -> gbswap_16(x)

ghton(x, host) == IF host = "little" THEN gbswap(x) ELSE x
gntoh(x, host) == ghton(x, host)

\* Both directions are one function.
little_endian_host(x, host) == IF host = "little" THEN x ELSE gbswap(x)
big_endian_host(x, host) == IF host = "little" THEN gbswap(x) ELSE x

\* memcpy between memory and a variable of the host's byte order.
unaligned_load(mem, p, n, host) ==
    [i \in 1 .. n |-> mem[p + (IF host = "little" THEN i - 1 ELSE n - i)]]
unaligned_store(mem, p, v, host) ==
    [a \in DOMAIN mem |->
        IF a \in p .. p + Len(v) - 1
        THEN v[IF host = "little" THEN a - p + 1 ELSE Len(v) - (a - p)]
        ELSE mem[a]]

little_endian_load(mem, p, n, host) == little_endian_host(unaligned_load(mem, p, n, host), host)
little_endian_store(mem, p, v, host) == unaligned_store(mem, p, little_endian_host(v, host), host)
big_endian_load(mem, p, n, host) == big_endian_host(unaligned_load(mem, p, n, host), host)
big_endian_store(mem, p, v, host) == unaligned_store(mem, p, big_endian_host(v, host), host)

\* 0xF03A5F7B.
Literal == <<{0, 1, 3, 4, 5, 6}, {0, 1, 2, 3, 4, 6}, {1, 3, 4, 5}, {4, 5, 6, 7}>>

\* Slip: only the high half is masked.
hide_maskHigh(n) == [i \in 1 .. n |-> IF i > n - 4 THEN Literal[i - n + 4] ELSE {}]

\* The literal in the high four bytes and in the low four.
hide_mask(n) ==
    LET At(i) == IF i \in 1 .. 4 THEN Literal[i] ELSE {}
    IN  [i \in 1 .. n |-> At(i - (n - 4)) \cup At(i)]

hide_ptr(p) == [i \in DOMAIN p |-> SymDiff(p[i], hide_mask(Len(p))[i])]
unhide_ptr(hidden) == [i \in DOMAIN hidden |-> SymDiff(hidden[i], hide_mask(Len(hidden))[i])]
====
