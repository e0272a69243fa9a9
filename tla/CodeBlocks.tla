------------------------------ MODULE CodeBlocks ------------------------------
(***************************************************************************)
(* The cache of translated guest code: the lists of code blocks            *)
(* (core/src/codegen/codegen_block.c), their chunks (codegen_allocator.c)  *)
(* and WebAssembly functions (wasm/jit/codegen_backend_wasm.c), the way of *)
(* exec_recompiler through them (cpu/386_dynarec.c) and the lookups by     *)
(* which the guest's own writes are noticed (memory/mem.c).                *)
(*                                                                         *)
(* One thread runs all of it; what interleaves are the guest's writes,     *)
(* made by the instructions a block is built from or by others.  A page    *)
(* is its number, its code linearly mapped at the same number, and a block *)
(* may run on into the next page.  A cell is the 64 bytes of a mask bit.   *)
(* The byte masks, a second try with finer cells, are left out; so are the *)
(* hash and the tree, by which a block may or may not be found.            *)
(***************************************************************************)
EXTENDS Integers, FiniteSets, SequencesExt

CONSTANTS
    Blocks, Chunks, None,
    Pages,          \* 1 .. n
    Cells,          \* <<page, number>>
    Alias,          \* a second linear mapping, of page 1, through which no code runs
    DirtyMax        \* DIRTY_LIST_MAX_SIZE

ASSUME CodeBlocksAssumption ==
    /\ None \notin Blocks \cup Chunks \cup Pages \cup {Alias}
    /\ IsFiniteSet(Blocks) /\ IsFiniteSet(Chunks) /\ IsFiniteSet(Pages)
    /\ Pages = 1 .. Cardinality(Pages) /\ Pages # {}
    /\ Alias \notin Pages
    /\ Cells \subseteq Pages \X Nat /\ {c[1] : c \in Cells} = Pages
    /\ DirtyMax \in Nat \ {0}
    \* "one chunk per codeblock slot (+headroom) suffices" (codegen_allocator.h:22)
    /\ Cardinality(Blocks) <= Cardinality(Chunks)

Of(p) == {c \in Cells : c[1] = p}
Mappings == Pages \cup {Alias}
PageOf(v) == IF v = Alias THEN 1 ELSE v

VARIABLES
    k,          \* what the nested calls change: see TypeOK
    home,       \* phys, its page; phys_2 is the next one
    mask,       \* page_mask and page_mask2
    code,       \* blocks with CODEBLOCK_WAS_RECOMPILED
    dirty,      \* dirty_mask of the pages
    at,         \* place of exec_recompiler
    found,      \* valid_block, or None
    here,       \* page of the program counter
    current,    \* block_current
    recomp,     \* recomp_page
    stale,      \* history: blocks with a recorded cell written since
    missed,     \* history: ... through a lookup that bypasses the masks
    leaked      \* history: chunks overwritten in head_mem_block

ghosts == <<stale, missed, leaked>>
vars == <<k, home, mask, code, dirty, at, found, here, current, recomp, ghosts>>

TypeOK ==
    /\ k.free \subseteq Blocks                        \* block_free_list
    /\ k.aged \in Seq(Blocks)                         \* the dirty list, newest first
    /\ k.list \in [Pages -> Seq(Blocks)]              \* block, newest first
    /\ k.list2 \in [Pages -> Seq(Blocks)]             \* block_2
    /\ k.head \in [Blocks -> Chunks \cup {None}]      \* head_mem_block
    /\ k.owner \in [Chunks -> Blocks \cup {None}]     \* code_block; None is a free chunk
    /\ k.fn \subseteq Blocks                          \* blocks with a wasm_fn_idx
    /\ k.map \in [Mappings -> {"none", "direct", "tracked"}]  \* writelookup2, page_lookup
    /\ home \in [Blocks -> Pages]
    /\ mask \in [Blocks -> SUBSET Cells]
    /\ code \subseteq Blocks /\ dirty \subseteq Cells
    /\ at \in {"idle", "looked", "get", "mark", "allocate", "record"}
    /\ found \in Blocks \cup {None} /\ current \in Blocks \cup {None}
    /\ here \in Pages /\ recomp \in Pages \cup {None}
    /\ stale \subseteq Blocks /\ missed \subseteq Blocks /\ leaked \subseteq Chunks

Init ==
    /\ k = [free |-> Blocks, aged |-> <<>>,
            list |-> [p \in Pages |-> <<>>], list2 |-> [p \in Pages |-> <<>>],
            head |-> [b \in Blocks |-> None], owner |-> [c \in Chunks |-> None],
            fn |-> {}, map |-> [v \in Mappings |-> "none"]]
    /\ home = [b \in Blocks |-> 1] /\ mask = [b \in Blocks |-> {}]
    /\ code = {} /\ dirty = {}
    /\ at = "idle" /\ found = None /\ here = 1 /\ current = None /\ recomp = None
    /\ stale = {} /\ missed = {} /\ leaked = {}

----------------------------------------------------------------------------
(* The nested calls, each from one k to the next *)

\* mem_flush_write_page: the direct entry of v, no other, and all tracked ones of p.
\* (The code compares offsets: it may throw out more.)
FlushWrites(s, p, v) ==
    [s EXCEPT !.map = [w \in Mappings |->
        IF (@[w] = "direct" /\ w = v) \/ (@[w] = "tracked" /\ PageOf(w) = p)
        THEN "none" ELSE @[w]]]

FlushIf(empty, s, p, v) == IF empty THEN FlushWrites(s, p, v) ELSE s

\* remove_from_block_list: from the list of the block's page ...
UnlistFirst(s, b) ==
    LET p == home[b]
        t == [s EXCEPT !.list[p] = RemoveFirst(@, b)]
    IN  FlushIf(t.list[p] = <<>>, t, p, None)

\* ... and, with CODEBLOCK_HAS_PAGE2, from that of the next page ...
UnlistSecond(s, b) ==
    LET q == home[b] + 1
        t == [s EXCEPT !.list2[q] = RemoveFirst(@, b)]
    IN  IF q \in Pages /\ Contains(s.list2[q], b) THEN FlushIf(t.list2[q] = <<>>, t, q, None) ELSE s

\* ... unless no mask was given to it yet.
Unlist(s, b) ==
    IF mask[b] \cap Of(home[b]) = {} THEN s ELSE UnlistSecond(UnlistFirst(s, b), b)

\* Mutant: the block keeps the freed chunk.
FreeCodeKeepsHead(s, b) ==
    [s EXCEPT !.owner = [c \in Chunks |-> IF c = s.head[b] THEN None ELSE @[c]],
              !.fn = @ \ {b}]

\* codegen_allocator_free and codegen_wasm_free_block
FreeCode(s, b) ==
    [s EXCEPT !.owner = [c \in Chunks |-> IF c = s.head[b] THEN None ELSE @[c]],
              !.head[b] = None,
              !.fn = @ \ {b}]

\* delete_dirty_block: the block is off the list and has no chunk.
DeleteDirty(s, b) == [s EXCEPT !.fn = @ \ {b}, !.free = @ \cup {b}]

\* block_dirty_list_add, which moves the oldest to the free list
Age(s, b) ==
    LET s1 == [s EXCEPT !.aged = <<b>> \o @]
    IN  IF Len(s1.aged) > DirtyMax
        THEN DeleteDirty([s1 EXCEPT !.aged = Front(@)], Last(s1.aged))
        ELSE s1

\* invalidate_block
Invalidate(s, b) == FreeCode(Age(Unlist(s, b), b), b)

\* block_dirty_list_remove of a block that is on the dirty list; or remove_from_block_list
TakeOut(s, b) ==
    IF Contains(s.aged, b) THEN [s EXCEPT !.aged = RemoveFirst(@, b)] ELSE Unlist(s, b)

\* delete_block
Delete(s, b) ==
    [FreeCode(TakeOut(s, b), b) EXCEPT !.free = @ \cup {b}]

\* A mask of b meets the dirty mask of p.
Dirty(b, p) == mask[b] \cap Of(p) \cap dirty # {}

InvalidateIf(s, b, p) == IF Dirty(b, p) THEN Invalidate(s, b) ELSE s

\* One list of a page, from its head: done[i] is what i blocks leave.
CheckEach(s, l, p) ==
    LET done[i \in 0 .. Len(l)] == IF i = 0 THEN s ELSE InvalidateIf(done[i - 1], l[i], p)
    IN  done[Len(l)]

\* codegen_check_flush; the page's dirty mask is clear afterwards
CheckFlush(s, p) ==
    LET t == CheckEach(s, s.list[p], p)
    IN  CheckEach(t, t.list2[p], p)

\* The masks' last step: a second page that had no block in its list is flushed.
EndMask(s, b, cells) ==
    LET q == home[b] + 1
    IN  IF cells \subseteq Of(home[b]) THEN s ELSE FlushIf(s.list2[q] = <<>>, s, q, q)

\* add_to_block_list
Enlist(s, b, cells) ==
    LET p  == home[b]
        s1 == [s EXCEPT !.list[p] = <<b>> \o @]
    IN  IF cells \subseteq Of(p) THEN s1 ELSE [s1 EXCEPT !.list2[p + 1] = <<b>> \o @]

\* codegen_backend_epilogue: the block gives up its function, and has a new one or is
\* rejected.
Epilogue(s, b, compiled) ==
    [s EXCEPT !.fn = IF compiled THEN @ \cup {b} ELSE @ \ {b}]

----------------------------------------------------------------------------
(* The guest's writes *)

Guest == at \in {"idle", "mark", "record"}

\* Mutant: a page is watched once a block of it is listed.
WatchedIfListed(p) == k.list[p] # <<>>

Watched(p) == k.list[p] # <<>> \/ recomp = p

\* writemembl and its like: a direct entry bypasses the masks; without an entry
\* addwritelookup makes one.
Write(v, c) ==
    /\ Guest /\ PageOf(v) = c[1]
    /\ k' = IF k.map[v] # "none" THEN k
            ELSE [k EXCEPT !.map[v] = IF Watched(c[1]) THEN "tracked" ELSE "direct"]
    /\ dirty' = IF k.map[v] = "direct" THEN dirty ELSE dirty \cup {c}
    /\ LET hit    == {b \in code : c \in mask[b]}
           bypass == {b \in hit : k.map[v] = "direct" /\ (v = Alias \/ c[1] # home[b])}
       IN  stale' = stale \cup (hit \ bypass) /\ missed' = missed \cup bypass
    /\ UNCHANGED <<home, mask, code, at, found, here, current, recomp, leaked>>

\* flushmmucache, or the entry's place in the ring of 256 is taken
Forget(v) ==
    /\ Guest /\ k.map[v] # "none"
    /\ k' = [k EXCEPT !.map[v] = "none"]
    /\ UNCHANGED <<home, mask, code, dirty, at, found, here, current, recomp, ghosts>>

----------------------------------------------------------------------------
(* exec_recompiler: looking *)

\* Mutant: only a block that was just invalidated is translated again.
AgedByThisCheck(s, b) == Contains(s.aged, b) /\ ~Contains(k.aged, b)

Aged(s, b) == Contains(s.aged, b)

\* A block for the program counter is found.  If its first page is dirty the page is
\* flushed, then the second, unless another page is mapped there by now: which may
\* evict the block.  A block on the dirty list is to be translated again.
Find(b) ==
    /\ at = "idle" /\ b \notin k.free
    /\ LET p  == home[b]
           k1 == IF Dirty(b, p) THEN CheckFlush(k, p) ELSE k
           d1 == IF Dirty(b, p) THEN dirty \ Of(p) ELSE dirty
           k2 == IF Dirty(b, p + 1) THEN CheckFlush(k1, p + 1) ELSE k1
           d2 == IF Dirty(b, p + 1) THEN d1 \ Of(p + 1) ELSE d1
       IN  \/ /\ b \in k1.free \/ mask[b] \cap Of(p + 1) # {}
              /\ k' = k1 /\ dirty' = d1 /\ found' = None
              /\ code' = (IF Dirty(b, p) THEN code \ {b} ELSE code) \ k1.free
           \/ /\ b \notin k1.free
              /\ k' = k2 /\ dirty' = d2
              /\ found' = IF b \in k2.free THEN None ELSE b
              /\ code' = (IF Aged(k2, b) THEN code \ {b} ELSE code) \ k2.free
    /\ here' = home[b]
    /\ at' = "looked"
    /\ UNCHANGED <<home, mask, current, recomp, ghosts>>

\* No block is found.
Miss(p) ==
    /\ at = "idle"
    /\ here' = p /\ found' = None /\ at' = "looked"
    /\ UNCHANGED <<k, home, mask, code, dirty, current, recomp, ghosts>>

\* The compiled block runs; or one that is not compiled is interpreted: not hot yet,
\* over the budget, or not worth it.
RunOrInterpret ==
    /\ at = "looked" /\ found # None
    /\ at' = "idle" /\ found' = None
    /\ UNCHANGED <<k, home, mask, code, dirty, here, current, recomp, ghosts>>

\* The FPU's top of stack is not that of the block: it is to be translated again.
TopDiffers ==
    /\ at = "looked" /\ found \in code
    /\ code' = code \ {found}
    /\ UNCHANGED <<k, home, mask, dirty, at, found, here, current, recomp, ghosts>>

----------------------------------------------------------------------------
(* exec_recompiler: marking a new block *)

\* codegen_block_init ...
BlockInit ==
    /\ at = "looked" /\ found = None
    /\ k' = FlushIf(k.list[here] = <<>>, k, here, here)
    /\ at' = "get"
    /\ UNCHANGED <<home, mask, code, dirty, found, here, current, recomp, ghosts>>

\* ... block_free_list_get without a free block: the oldest of the dirty list, or what
\* flushing a page of the evict list brings (which page is left open), or any block.
MakeRoom ==
    /\ at = "get" /\ k.free = {}
    /\ IF k.aged # <<>>
       THEN k' = DeleteDirty([k EXCEPT !.aged = Front(@)], Last(k.aged)) /\ UNCHANGED dirty
       ELSE \E p \in Pages \cup {None} :
                LET k1 == IF p = None THEN k ELSE CheckFlush(k, p)
                IN  /\ p # None => Of(p) \cap dirty # {}
                    /\ dirty' = IF p = None THEN dirty ELSE dirty \ Of(p)
                    /\ IF k1.free # {} THEN k' = k1
                       ELSE \E b \in Blocks \ {current} : k' = Delete(k1, b)
    /\ code' = code \ k'.free
    /\ UNCHANGED <<home, mask, at, found, here, current, recomp, ghosts>>

\* ... and the block is taken.
Take(b) ==
    /\ at = "get" /\ b \in k.free
    /\ k' = [k EXCEPT !.free = @ \ {b}]
    /\ home' = [home EXCEPT ![b] = here]
    /\ mask' = [mask EXCEPT ![b] = {}]
    /\ stale' = stale \ {b} /\ missed' = missed \ {b}
    /\ current' = b /\ recomp' = here
    /\ at' = "mark"
    /\ UNCHANGED <<code, dirty, found, here, leaked>>

\* codegen_block_end, of a block that runs over the given cells.
BlockEnd(cells) ==
    /\ at = "mark"
    /\ cells \cap Of(here) # {}
    /\ mask' = [mask EXCEPT ![current] = cells]
    /\ k' = Enlist(EndMask(k, current, cells), current, cells)
    /\ recomp' = None /\ at' = "idle"
    /\ UNCHANGED <<home, code, dirty, found, here, current, ghosts>>

----------------------------------------------------------------------------
(* exec_recompiler: translating a block that is hot *)

\* codegen_block_start_recompile ...
StartRecompile ==
    /\ at = "looked" /\ found \notin code \cup {None}
    /\ k' = FlushIf(k.list[here] = <<>>, k, here, here)
    /\ current' = found /\ found' = None
    /\ at' = "allocate"
    /\ UNCHANGED <<home, mask, code, dirty, here, recomp, ghosts>>

FreeChunks == {c \in Chunks : k.owner[c] = None}

\* ... codegen_allocator_allocate without a free chunk: the block a chunk names, which
\* may have lost it, is deleted.
Reclaim(c) ==
    /\ at = "allocate" /\ FreeChunks = {}
    /\ k.owner[c] \notin k.free \cup {current}
    /\ k' = Delete(k, k.owner[c])
    /\ code' = code \ k'.free
    /\ UNCHANGED <<home, mask, dirty, at, found, here, current, recomp, ghosts>>

\* ... or with one.  A block that has a chunk already forgets it.
Allocate(c) ==
    /\ at = "allocate" /\ c \in FreeChunks
    /\ k' = [k EXCEPT !.owner[c] = current, !.head[current] = c]
    /\ leaked' = leaked \cup ({k.head[current]} \ {None})
    /\ mask' = [mask EXCEPT ![current] = {}]
    /\ code' = code \cup {current}
    /\ stale' = stale \ {current} /\ missed' = missed \ {current}
    /\ recomp' = here
    /\ at' = "record"
    /\ UNCHANGED <<home, dirty, found, here, current>>

\* codegen_generate_call and codegen_mark_code_present: an instruction in cell c is
\* translated; it is executed next.
Record(c) ==
    /\ at = "record"
    /\ c \in Of(here) \cup Of(here + 1) /\ c \notin mask[current]
    /\ c[1] # here => mask[current] # {}
    /\ mask' = [mask EXCEPT ![current] = @ \cup {c}]
    /\ UNCHANGED <<k, home, code, dirty, at, found, here, current, recomp, ghosts>>

\* codegen_block_end_recompile: the block goes to the head of its page's list, and is
\* compiled or not.
EndRecompile(compiled) ==
    /\ at = "record" /\ mask[current] # {}
    /\ LET k2 == EndMask(TakeOut(k, current), current, mask[current])
       IN  k' = Epilogue(Enlist(k2, current, mask[current]), current, compiled)
    /\ code' = IF compiled THEN code ELSE code \ {current}
    /\ recomp' = None /\ at' = "idle"
    /\ UNCHANGED <<home, mask, dirty, found, here, current, ghosts>>

\* codegen_block_remove: an instruction faults.  The first one fetched does not, as
\* the lookup has just translated both pages of the block.
BlockRemove ==
    /\ at = "mark" \/ (at = "record" /\ mask[current] # {})
    /\ k' = Delete(k, current)
    /\ code' = code \ {current}
    /\ recomp' = None /\ at' = "idle"
    /\ UNCHANGED <<home, mask, dirty, found, here, current, ghosts>>

\* resetx86 and codegen_reset: the blocks' chunks are freed with them, and no others.
Reset ==
    /\ Guest
    /\ LET kept == {c \in Chunks : \A b \in Blocks : k.head[b] # c}
       IN  k' = [free |-> Blocks, aged |-> <<>>,
                 list |-> [p \in Pages |-> <<>>], list2 |-> [p \in Pages |-> <<>>],
                 head |-> [b \in Blocks |-> None],
                 owner |-> [c \in Chunks |-> IF c \in kept THEN k.owner[c] ELSE None],
                 fn |-> {}, map |-> [v \in Mappings |-> "none"]]
    /\ code' = {} /\ mask' = [b \in Blocks |-> {}]
    /\ stale' = {} /\ missed' = {}
    /\ home' = [b \in Blocks |-> 1]
    /\ at' = "idle"
    /\ UNCHANGED <<dirty, found, here, current, recomp, leaked>>

----------------------------------------------------------------------------

Next ==
    \/ \E v \in Mappings : Forget(v) \/ \E c \in Cells : Write(v, c)
    \/ \E b \in Blocks : Find(b) \/ Take(b)
    \/ \E p \in Pages : Miss(p)
    \/ RunOrInterpret \/ TopDiffers \/ BlockInit \/ MakeRoom
    \/ \E cells \in SUBSET (Of(here) \cup Of(here + 1)) : BlockEnd(cells)
    \/ StartRecompile
    \/ \E c \in Chunks : Reclaim(c) \/ Allocate(c)
    \/ \E c \in Cells : Record(c)
    \/ \E compiled \in BOOLEAN : EndRecompile(compiled)
    \/ BlockRemove \/ Reset

Spec == Init /\ [][Next]_vars

----------------------------------------------------------------------------
(* Properties *)

\* "When a codeblock is about to be executed, the code masks are compared with the
\* dirty masks" (codegen.h:23): whatever was written since a block was translated, in
\* whichever state of the lists and of the lookups, the code entered is that of the
\* bytes in memory.  Unless the write went round the masks: through another mapping
\* of the page, of which mem_flush_write_page leaves the direct entry, or to the
\* block's second page, which addwritelookup does not take for one with code.
RunsCurrentCodeUnlessMissed ==
    at = "looked" /\ found \in code => found \notin stale \/ found \in missed

\* Every block is in exactly one of the lists, as what it is: the dirty list holds
\* none with a chunk or a function (delete_dirty_block frees no chunk), and a block
\* about to be entered has a function: calling index 0 traps.
ListsMatchBlocks ==
    /\ TypeOK
    /\ LET made == IF at = "mark" THEN {current} ELSE {}
       IN  /\ \A b \in Blocks :
                Cardinality({x \in {"free", "aged", "made"} :
                    b \in CASE x = "free" -> k.free [] x = "aged" -> ToSet(k.aged) [] x = "made" -> made})
                = IF b \in ToSet(k.list[home[b]]) THEN 0 ELSE 1
           /\ \A p \in Pages : \A b \in ToSet(k.list[p]) : home[b] = p
           /\ \A p \in Pages : \A b \in ToSet(k.list2[p]) : b \in ToSet(k.list[home[b]]) /\ home[b] + 1 = p
           /\ Len(k.aged) <= DirtyMax
           /\ \A b \in ToSet(k.aged) : b \notin k.fn /\ (k.head[b] # None => at = "record" /\ b = current)
           /\ at = "looked" /\ found \in code => found \in k.fn

\* "One chunk per codeblock slot (+headroom) suffices" (codegen_allocator.h:22): a chunk
\* is free or the one of the block that owns it, so that the allocator finds one free
\* and never deletes a block for it.  Unless start_recompile has overwritten the chunk
\* of a block that has one: it is not freed again, and when all are lost the loop has
\* nothing left to delete.
ChunksSufficeUnlessLeaked ==
    /\ \A b \in Blocks : k.head[b] # None => k.owner[k.head[b]] = b
    /\ \A c \in Chunks : k.owner[c] # None => c \in leaked \/ k.head[k.owner[c]] = c
    /\ at = "allocate" /\ leaked = {} /\ k.head[current] = None => FreeChunks # {}
=============================================================================
