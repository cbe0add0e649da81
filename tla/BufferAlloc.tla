----------------------------- MODULE BufferAlloc -----------------------------
(***************************************************************************)
(* The allocator on a static buffer: platform/memory_buffer_alloc.c. A     *)
(* block is a header and its data. All blocks form a list in the order of  *)
(* their addresses, the free ones a second list in any order. An address   *)
(* is a position of the buffer; NULL is 0.                                 *)
(*                                                                         *)
(* A call is one step: the mutex of the heap is held by the callers with   *)
(* threads, and locking it does not fail.                                  *)
(***************************************************************************)
EXTENDS Status, FiniteSets, Functions

CONSTANTS
    HeaderSize,     \* sizeof(memory_header)
    AlignMultiple,  \* MBEDTLS_MEMORY_ALIGN_MULTIPLE
    SizeModulus,    \* 2^w of size_t
    BufferLengths,  \* of the buffers given to mbedtls_memory_buffer_alloc_init()
    CallocArgs      \* bound: pairs of arguments of calloc()

ASSUME BufferAssumption ==
    /\ {HeaderSize, AlignMultiple, SizeModulus} \subseteq Nat \ {0}
    /\ AlignMultiple < SizeModulus
    /\ \A len \in BufferLengths :
         len \in Nat /\ HeaderSize + AlignMultiple <= len /\ len < SizeModulus
    /\ CallocArgs \subseteq (0 .. SizeModulus - 1) \X (0 .. SizeModulus - 1)

VARIABLES
    bheap,      \* heap: its fields, and the headers at their addresses
    blive       \* what the program got and has not freed: address -> n * size
bufferVars == <<bheap, blive>>

NULL == 0
Header(size, alloc, prev, next, prev_free, next_free) ==
    [size |-> size, alloc |-> alloc, prev |-> prev, next |-> next,
     prev_free |-> prev_free, next_free |-> next_free]

\* The buffer starts at address 1, which is taken to be aligned.
mbedtls_memory_buffer_alloc_init(len) ==
    [len |-> len, first |-> 1, first_free |-> 1,
     hdr |-> [b \in {1} |-> Header(len - HeaderSize, 0, NULL, NULL, NULL, NULL)]]

BufferInit ==
    /\ \E len \in BufferLengths : bheap = mbedtls_memory_buffer_alloc_init(len)
    /\ blive = <<>>

\* The function f with one more argument.
With(f, x, value) == [y \in DOMAIN f \cup {x} |-> IF y = x THEN value ELSE f[y]]

\* Assignments through pointers that may be NULL.
SetHdr(h, p, field, value) ==
    IF p = NULL THEN h ELSE [h EXCEPT !.hdr[p][field] = value]
SetNextFree(h, p, value) ==
    IF p = NULL THEN [h EXCEPT !.first_free = value]
    ELSE [h EXCEPT !.hdr[p].next_free = value]

-----------------------------------------------------------------------------
(* calloc                                                                  *)

LengthAllowed(n, size) ==
    LET len == (n * size) % SizeModulus IN
    n > 0 /\ size > 0 /\ len \div n = size /\ len <= SizeModulus - AlignMultiple
AlignUp(n, size) ==
    LET len == (n * size) % SizeModulus IN
    IF len % AlignMultiple = 0 THEN len
    ELSE (len - (len % AlignMultiple) + AlignMultiple) % SizeModulus

\* The free blocks in the order of their list. It has no more than h.len.
FreeBlocks(h) ==
    LET at[n \in Nat] == IF n = 0 THEN h.first_free
                         ELSE LET b == at[n - 1]
                              IN  IF b = NULL THEN NULL ELSE h.hdr[b].next_free
        length == CHOOSE n \in 0 .. h.len : /\ at[n] = NULL \/ n = h.len
                                           /\ \A m \in 0 .. n - 1 : at[m] # NULL
    IN  [n \in 1 .. length |-> at[n - 1]]

\* The first that fits, or NULL.
FindBlock(h, len) ==
    LET free == FreeBlocks(h)
        fits == {i \in DOMAIN free : h.hdr[free[i]].size >= len}
    IN  IF fits = {} THEN NULL ELSE free[CHOOSE i \in fits : \A j \in fits : i <= j]

Splits(h, cur, len) == h.hdr[cur].size - len >= HeaderSize + AlignMultiple

TakeWhole(h, cur) ==
    LET c == h.hdr[cur]
        unlinked == SetHdr(SetNextFree(h, c.prev_free, c.next_free),
                           c.next_free, "prev_free", c.prev_free)
    IN  [unlinked EXCEPT !.hdr[cur].alloc = 1, !.hdr[cur].prev_free = NULL,
                         !.hdr[cur].next_free = NULL]

LinkBack(h, next, new) == SetHdr(h, next, "prev", new)

Split(h, cur, len) ==
    LET c == h.hdr[cur]
        new == cur + HeaderSize + len
        rest == Header(c.size - len - HeaderSize, 0, cur, c.next, c.prev_free, c.next_free)
        linked == LinkBack([h EXCEPT !.hdr = With(@, new, rest)], c.next, new)
        listed == SetHdr(SetNextFree(linked, c.prev_free, new), c.next_free, "prev_free", new)
    IN  [listed EXCEPT !.hdr[cur] = Header(len, 1, c.prev, new, NULL, NULL)]

buffer_alloc_calloc(n, size) ==
    LET len == AlignUp(n, size)
        cur == FindBlock(bheap, len)
        took == IF Splits(bheap, cur, len) THEN Split(bheap, cur, len) ELSE TakeWhole(bheap, cur)
    IN  /\ LengthAllowed(n, size) /\ cur # NULL
        /\ bheap' = took
        /\ blive' = With(blive, cur + HeaderSize, n * size)

-----------------------------------------------------------------------------
(* free                                                                    *)

Without(h, p) == [h EXCEPT !.hdr = Restrict(@, DOMAIN @ \ {p})]

\* mutant: the free block that grows backwards stays where it was in the list too
UnlistNothing(h, p) == h
\* p leaves the list of free blocks, if it is in one with others.
Unlist(h, p) ==
    LET c == h.hdr[p] IN
    IF c.prev_free = NULL /\ c.next_free = NULL THEN h
    ELSE SetHdr(SetNextFree(h, c.prev_free, c.next_free), c.next_free, "prev_free", c.prev_free)

MergeBefore(h, p) ==
    LET c == h.hdr[p] IN
    SetHdr(Without([h EXCEPT !.hdr[c.prev].size = @ + HeaderSize + c.size,
                             !.hdr[c.prev].next = c.next], p),
           c.next, "prev", c.prev)

\* The block after p is free: p takes its place in the list.
MergeAfter(h, p) ==
    LET old == h.hdr[p].next
        unlisted == Unlist(h, p)
        o == unlisted.hdr[old]
        grown == [unlisted EXCEPT !.hdr[p].size = @ + HeaderSize + o.size,
                                  !.hdr[p].next = o.next,
                                  !.hdr[p].prev_free = o.prev_free,
                                  !.hdr[p].next_free = o.next_free]
        listed == SetHdr(SetNextFree(grown, o.prev_free, p), o.next_free, "prev_free", p)
    IN  Without(SetHdr(listed, o.next, "prev", p), old)

Prepend(h, p) ==
    [SetHdr(h, h.first_free, "prev_free", p)
       EXCEPT !.hdr[p].next_free = h.first_free, !.first_free = p]

IsFree(h, p) == p # NULL /\ h.hdr[p].alloc = 0

Regrouped(h, p) ==
    LET before == IsFree(h, h.hdr[p].prev)
        q == IF before THEN h.hdr[p].prev ELSE p
        joined == IF before THEN MergeBefore(h, p) ELSE h
    IN  IF IsFree(joined, joined.hdr[q].next) THEN MergeAfter(joined, q)
        ELSE IF before THEN joined
        ELSE Prepend(joined, q)

buffer_alloc_free(ptr) ==
    /\ bheap' = Regrouped([bheap EXCEPT !.hdr[ptr - HeaderSize].alloc = 0], ptr - HeaderSize)
    /\ blive' = Restrict(blive, DOMAIN blive \ {ptr})

BufferNext ==
    \/ \E args \in CallocArgs : buffer_alloc_calloc(args[1], args[2])
    \/ \E ptr \in DOMAIN blive : buffer_alloc_free(ptr)

BufferSpec == BufferInit /\ [][BufferNext]_bufferVars

-----------------------------------------------------------------------------
(* Properties.                                                             *)

Blocks == DOMAIN bheap.hdr
End(b) == b + HeaderSize + bheap.hdr[b].size

\* The blocks tile the buffer: each one ends where the next begins, the last at
\* the end, and the list runs both ways (what verify_chain() looks at, and more).
BufferTiled ==
    /\ bheap.first = 1 /\ 1 \in Blocks
    /\ \A b \in Blocks :
         LET c == bheap.hdr[b] IN
         /\ IF c.next = NULL THEN End(b) = bheap.len + 1
            ELSE c.next = End(b) /\ c.next \in Blocks /\ bheap.hdr[c.next].prev = b
         /\ IF b = 1 THEN c.prev = NULL
            ELSE c.prev \in Blocks /\ bheap.hdr[c.prev].next = b

\* The list of free blocks has every free block once, linked both ways, and no
\* other: nothing that is free is lost, and nothing that is in use is handed out.
BufferFreeListExact ==
    LET free == FreeBlocks(bheap) IN
    /\ \A i, j \in DOMAIN free : i # j => free[i] # free[j]
    /\ {free[i] : i \in DOMAIN free} = {b \in Blocks : bheap.hdr[b].alloc = 0}
    /\ \A i \in DOMAIN free :
         bheap.hdr[free[i]].prev_free = IF i = 1 THEN NULL ELSE free[i - 1]

\* The program owns what it got: every live pointer has a block of its own, with
\* room for all the elements it asked for, whatever the product overflowed to.
BufferOwned ==
    /\ {ptr - HeaderSize : ptr \in DOMAIN blive} = {b \in Blocks : bheap.hdr[b].alloc = 1}
    /\ \A ptr \in DOMAIN blive : blive[ptr] <= bheap.hdr[ptr - HeaderSize].size

\* No two free blocks are neighbours; so when everything has been freed the heap
\* is one block again, after any sequence of calls, and a buffer that was large
\* enough once is large enough for ever.
BufferCompact ==
    /\ \A b \in Blocks :
         IsFree(bheap, b) => ~IsFree(bheap, bheap.hdr[b].next)
    /\ blive = <<>> => bheap = mbedtls_memory_buffer_alloc_init(bheap.len)
\* After any sequence of allocations and frees the blocks tile the buffer, the
\* free list holds the free ones in order, memory in use is in one block of the
\* size that was asked for, and free neighbours are merged.
BufferCorrect ==
    /\ BufferTiled
    /\ BufferFreeListExact
    /\ BufferOwned
    /\ BufferCompact
=============================================================================
