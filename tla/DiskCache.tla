------------------------------ MODULE DiskCache ------------------------------
(***************************************************************************)
(* The block engine of src/wasm/platform/wasm-diskio.c: hard disk and CD   *)
(* images that live in the browser are read in blocks on demand, a bounded *)
(* set of clean blocks is cached, and a guest write turns a block into a   *)
(* session overlay that is never evicted.                                  *)
(*                                                                         *)
(* A request is one call of diskio_rw(): it checks its bounds, takes       *)
(* table_mutex, and moves one block's chunk at a time, faulting absent     *)
(* blocks in through the mailbox.  The fetch itself is one step here: it   *)
(* fails or delivers the source's bytes; DiskMailbox models its protocol.  *)
(* The unit of data is a sector; BlockSectors sectors make a block.        *)
(***************************************************************************)
EXTENDS Integers, Sequences, FiniteSets

CONSTANTS
    Slots,         \* disks[], DISKIO_MAX_DISKS of them
    Files,         \* the sources a user can attach
    Sectors,       \* Sectors[f]: the size of source f
    BlockSectors,  \* DISKIO_BLOCK_SIZE
    CleanBudget,   \* DISKIO_CLEAN_BUDGET
    FetchRun,      \* DISKIO_FETCH_RUN
    Threads,       \* the threads that read media
    Main,          \* the browser main thread, one of Threads
    Values,        \* what the guest writes
    Asks,          \* bound: Asks[t], the <<write, offset, length>> t may ask
    OverlappedUI,  \* may a sweep free a slot whose header read is awaited?
    NoFile, NoThread, Guest, Padding

ASSUME SizeAssumption ==
    /\ Sectors \in [Files -> Nat \ {0}]
    /\ BlockSectors \in Nat \ {0}
    /\ CleanBudget \in Nat \ {0}
    /\ FetchRun \in 1 .. CleanBudget
    /\ Asks \in [Threads -> SUBSET (BOOLEAN \X Nat \X (Nat \ {0}))]
    /\ Values \subseteq Nat
    /\ OverlappedUI \in BOOLEAN

ASSUME NameAssumption ==
    /\ Slots \subseteq Nat
    /\ NoFile \notin Files
    /\ Main \in Threads
    /\ NoThread \notin Threads
    /\ Guest \notin Files
    /\ Padding \notin Files
    /\ Guest # Padding

VARIABLES
    file,    \* file[s]: the source in slot s, or NoFile (in_use = 0)
    state,   \* state[s][b]: BLK_ABSENT, BLK_CLEAN or BLK_DIRTY
    block,   \* block[s][b]: the cached bytes, or Null
    ring,    \* clean_ring: <<slot, block>>, oldest first
    pinned,  \* history: <<slot, block>> placed by preload in this attachment
    header,  \* header reads JS awaits: [slot, file] records
    req,     \* req[t]: the diskio_rw call thread t is in, or NoReq
    owner,   \* holder of table_mutex
    run      \* diskio_block's placing loop of the owner, or NoRun

vars == <<file, state, block, ring, pinned, header, req, owner, run>>

----------------------------------------------------------------------------
(* Data *)

Sector == [from : Files \cup {Guest, Padding}, at : Nat]
Offsets == 0 .. BlockSectors - 1
Content == [Offsets -> Sector]
Null == <<>>

\* Number of blocks of source f: size rounded up to whole blocks.
NBlocks(f) == (Sectors[f] + BlockSectors - 1) \div BlockSectors
Blocks(f) == IF f = NoFile THEN {} ELSE 0 .. NBlocks(f) - 1

\* Sector i of source f; past its end a block is padded with zeros.
SourceSector(f, i) ==
    IF i < Sectors[f] THEN [from |-> f, at |-> i] ELSE [from |-> Padding, at |-> 0]
SourceBlock(f, b) == [o \in Offsets |-> SourceSector(f, b * BlockSectors + o)]

NoReq == [st |-> "none"]
NoRun == [n |-> 0]

BlkStates == {"absent", "clean", "dirty"}
Entries == Slots \X Nat

Request == [st : {"waiting", "running"}, write : BOOLEAN, slot : Slots,
            off : Nat, len : Nat, val : Values, moved : Nat, buf : Seq(Sector)]
Reply == [st : {"ok", "error"}, buf : Seq(Sector)]
Answer(st, buf) == [st |-> st, buf |-> IF st = "ok" THEN buf ELSE <<>>]
Run == [slot : Slots, idx : Nat, n : Nat, k : Nat]

\* The invariant of types.
TypeOK ==
    /\ file \in [Slots -> Files \cup {NoFile}]
    /\ DOMAIN state = Slots /\ DOMAIN block = Slots
    /\ \A s \in Slots :
        /\ state[s] \in [Blocks(file[s]) -> BlkStates]
        /\ block[s] \in [Blocks(file[s]) -> Content \cup {Null}]
        /\ \A b \in Blocks(file[s]) : state[s][b] = "absent" <=> block[s][b] = Null
    /\ ring \in Seq(Entries)
    /\ Len(ring) <= CleanBudget
    /\ pinned \subseteq Entries
    /\ header \subseteq [slot : Slots, file : Files]
    /\ req \in [Threads -> Request \cup Reply \cup {NoReq}]
    /\ owner \in Threads \cup {NoThread}
    /\ run \in Run \cup {NoRun}

Init ==
    /\ file = [s \in Slots |-> NoFile]
    /\ state = [s \in Slots |-> <<>>]
    /\ block = [s \in Slots |-> <<>>]
    /\ ring = <<>>
    /\ pinned = {}
    /\ header = {}
    /\ req = [t \in Threads |-> NoReq]
    /\ owner = NoThread
    /\ run = NoRun

Busy(t) == req[t].st \in {"waiting", "running"}

----------------------------------------------------------------------------
(* Registration and header preload: the page, on the browser main thread *)

\* wasm_diskio_register: the lowest free slot takes the source.
Register(s, f) ==
    /\ ~Busy(Main)
    /\ file[s] = NoFile
    /\ \A r \in Slots : file[r] = NoFile => s <= r
    /\ file' = [file EXCEPT ![s] = f]
    /\ state' = [state EXCEPT ![s] = [b \in Blocks(f) |-> "absent"]]
    /\ block' = [block EXCEPT ![s] = [b \in Blocks(f) |-> Null]]
    /\ UNCHANGED <<ring, pinned, header, req, owner, run>>

\* wasm_diskio_unregister: frees the slot's blocks, takes no lock and leaves
\* clean_ring alone.  Assumed: no request is using the slot, as sweepOrphanDisks
\* means to ensure (EmuControl shows when it does not).  Its header may still be
\* being read.
Unregister(s) ==
    /\ ~Busy(Main)
    /\ file[s] # NoFile
    /\ \A t \in Threads : Busy(t) => req[t].slot # s
    /\ OverlappedUI \/ \A h \in header : h.slot # s
    /\ file' = [file EXCEPT ![s] = NoFile]
    /\ state' = [state EXCEPT ![s] = <<>>]
    /\ block' = [block EXCEPT ![s] = <<>>]
    /\ pinned' = {e \in pinned : e[1] # s}
    /\ UNCHANGED <<ring, header, req, owner, run>>

\* preloadDiskHeader up to its await: the slot and the File are remembered.
\* Bound: the page awaits one header at a time.
BeginPreload(s) ==
    /\ ~Busy(Main)
    /\ header = {}
    /\ file[s] # NoFile
    /\ header' = {[slot |-> s, file |-> file[s]]}
    /\ UNCHANGED <<file, state, block, ring, pinned, req, owner, run>>

\* The header read rejects (network error): nothing reaches the engine.
PreloadFails(h) ==
    /\ ~Busy(Main)
    /\ header' = header \ {h}
    /\ UNCHANGED <<file, state, block, ring, pinned, req, owner, run>>

\* Leading sectors staged for file f, and the blocks of slot s they cover:
\* whole blocks only, except the disk's own final one.
Staged(f) == IF Sectors[f] < FetchRun * BlockSectors
             THEN Sectors[f] ELSE FetchRun * BlockSectors
Covered(s, f) ==
    {b \in Blocks(file[s]) : \A c \in 0 .. b :
        /\ c * BlockSectors < Staged(f)
        /\ (c + 1) * BlockSectors <= Staged(f) \/ c = NBlocks(file[s]) - 1}
StagedBlock(f, b) ==
    [o \in Offsets |-> IF b * BlockSectors + o < Staged(f)
                       THEN SourceSector(f, b * BlockSectors + o)
                       ELSE [from |-> Padding, at |-> 0]]

\* Mutant: a block that is resident is loaded again.
AbsentOfReloaded(s, blocks) == blocks

AbsentOf(s, blocks) == {b \in blocks : state[s][b] = "absent"}

\* wasm_diskio_preload under table_mutex, for whatever the slot holds by now:
\* absent leading blocks become clean without entering the ring.  Running out
\* of memory stops it before an absent block.
Preload(h) ==
    /\ ~Busy(Main)
    /\ owner = NoThread
    /\ header' = header \ {h}
    /\ LET s == h.slot IN
       \E placed \in SUBSET AbsentOf(s, Covered(s, h.file)) :
        /\ \A b \in placed : AbsentOf(s, 0 .. b) \subseteq placed
        /\ state' = [state EXCEPT ![s] =
                [b \in DOMAIN @ |-> IF b \in placed THEN "clean" ELSE @[b]]]
        /\ block' = [block EXCEPT ![s] =
                [b \in DOMAIN @ |-> IF b \in placed THEN StagedBlock(h.file, b) ELSE @[b]]]
        /\ pinned' = pinned \cup ({s} \X placed)
    /\ UNCHANGED <<file, ring, req, owner, run>>

----------------------------------------------------------------------------
(* diskio_rw: one request of thread t *)

\* The bounds are checked before the lock is taken.
Begin(t, write, s, off, len, val) ==
    /\ req[t] = NoReq
    /\ req' = [req EXCEPT ![t] =
            IF file[s] # NoFile /\ off + len <= Sectors[file[s]]
            THEN [st |-> "waiting", write |-> write, slot |-> s, off |-> off,
                  len |-> len, val |-> val, moved |-> 0, buf |-> <<>>]
            ELSE Answer("error", <<>>)]
    /\ UNCHANGED <<file, state, block, ring, pinned, header, owner, run>>

\* The caller has used the answer.
Return(t) ==
    /\ req[t].st \in {"ok", "error"}
    /\ req' = [req EXCEPT ![t] = NoReq]
    /\ UNCHANGED <<file, state, block, ring, pinned, header, owner, run>>

Lock(t) ==
    /\ req[t].st = "waiting"
    /\ owner = NoThread
    /\ owner' = t
    /\ req' = [req EXCEPT ![t].st = "running"]
    /\ UNCHANGED <<file, state, block, ring, pinned, header, run>>

\* Mutant: an error path that forgets to unlock.
FinishLeaksLock(t, st) ==
    /\ owner' = IF st = "ok" THEN NoThread ELSE owner
    /\ run' = NoRun
    /\ req' = [req EXCEPT ![t] = Answer(st, @.buf)]
    /\ UNCHANGED <<file, state, block, ring, pinned, header>>

\* Leave diskio_rw: unlock and answer.
Finish(t, st) ==
    /\ owner' = NoThread
    /\ run' = NoRun
    /\ req' = [req EXCEPT ![t] = Answer(st, @.buf)]
    /\ UNCHANGED <<file, state, block, ring, pinned, header>>

\* The loop is over: everything has been moved.
Done(t) ==
    /\ owner = t
    /\ run = NoRun
    /\ req[t].moved = req[t].len
    /\ Finish(t, "ok")

At(r) == (r.off + r.moved) \div BlockSectors
From(r) == (r.off + r.moved) % BlockSectors
Chunk(r) == IF r.len - r.moved < BlockSectors - From(r)
            THEN r.len - r.moved ELSE BlockSectors - From(r)

\* Mutant: a write that does not pin its block.
AfterWriteUnpinned(old) == old

\* BLK_DIRTY: never evicted.
AfterWrite(old) == "dirty"

\* The block is resident: copy the chunk out, or copy it in and pin the block.
Transfer(t) ==
    LET r == req[t]
        b == At(r)
    IN /\ owner = t
       /\ run = NoRun
       /\ r.moved < r.len
       /\ state[r.slot][b] # "absent"
       /\ \/ /\ ~r.write
             /\ req' = [req EXCEPT
                    ![t].moved = @ + Chunk(r),
                    ![t].buf = @ \o [i \in 1 .. Chunk(r) |-> block[r.slot][b][From(r) + i - 1]]]
             /\ UNCHANGED <<state, block>>
          \/ /\ r.write
             /\ block' = [block EXCEPT ![r.slot][b] =
                    [o \in Offsets |-> IF o >= From(r) /\ o < From(r) + Chunk(r)
                                       THEN [from |-> Guest, at |-> r.val] ELSE @[o]]]
             /\ state' = [state EXCEPT ![r.slot][b] = AfterWrite(@)]
             /\ req' = [req EXCEPT ![t].moved = @ + Chunk(r)]
       /\ UNCHANGED <<file, ring, pinned, header, owner, run>>

----------------------------------------------------------------------------
(* diskio_block: fault a run of absent blocks in *)

NeedsBlock(t) ==
    /\ owner = t
    /\ run = NoRun
    /\ req[t].moved < req[t].len
    /\ state[req[t].slot][At(req[t])] = "absent"

\* Refused on the main thread, or no answer, or a failed read.
FetchFails(t) ==
    /\ NeedsBlock(t)
    /\ Finish(t, "error")

\* The consecutive absent blocks from b on, at most FetchRun of them.
AbsentRun(s, b) ==
    {n \in 1 .. FetchRun : \A c \in b .. b + n - 1 :
        c \in DOMAIN state[s] /\ state[s][c] = "absent"}

\* The mailbox delivered the run into fetch_stage.
FetchOk(t) ==
    LET s == req[t].slot
        b == At(req[t])
    IN /\ NeedsBlock(t)
       /\ t # Main
       /\ \E n \in AbsentRun(s, b) :
            /\ n + 1 \notin AbsentRun(s, b)
            /\ run' = [slot |-> s, idx |-> b, n |-> n, k |-> 0]
       /\ UNCHANGED <<file, state, block, ring, pinned, header, req, owner>>

\* What eviction finds at ring entry e, in table tab: a block it may free.  An
\* entry left by an earlier, larger disk of the slot reads past the table, where
\* the byte may or may not look like BLK_CLEAN.
InTable(tab, e) == e[2] \in DOMAIN tab[e[1]]
StillClean(tab, e) == InTable(tab, e) /\ tab[e[1]][e[2]] = "clean"

\* Mutant: eviction that trusts the ring instead of revalidating.
MayLookCleanTrusted(tab, e) == file[e[1]] # NoFile

MayLookClean(tab, e) ==
    file[e[1]] # NoFile /\ (InTable(tab, e) => tab[e[1]][e[2]] = "clean")

\* Mutant: a scan that drops every entry and frees nothing.
VictimsDropAll(tab) == {0}

\* Positions at which the scan of clean_ring_insert can stop; 0 when it runs
\* through the whole ring without freeing anything.
Victims(tab) ==
    {v \in 0 .. Len(ring) :
        /\ v > 0 => MayLookClean(tab, ring[v])
        /\ \A i \in 1 .. Len(ring) : i < v \/ v = 0 => ~StillClean(tab, ring[i])}

\* Mutant: the freed block's pointer is not cleared.
FreedDangling(blk, e) == blk

Freed(blk, e) == [blk EXCEPT ![e[1]][e[2]] = Null]

\* One pass of the placing loop: the block becomes resident and clean, and its
\* entry goes into the ring, which frees the oldest still-clean block when full.
PlaceBlock(t) ==
    LET s == run.slot
        b == run.idx + run.k
        tab == [state EXCEPT ![s][b] = "clean"]
        blk == [block EXCEPT ![s][b] = SourceBlock(file[s], b)]
    IN /\ owner = t
       /\ run # NoRun
       /\ run.k < run.n
       /\ \/ /\ Len(ring) < CleanBudget
             /\ ring' = Append(ring, <<s, b>>)
             /\ state' = tab
             /\ block' = blk
          \/ /\ Len(ring) = CleanBudget
             /\ \E v \in Victims(tab) :
                 LET e == ring[v]
                     frees == v > 0 /\ InTable(tab, e)
                 IN /\ ring' = Append(SubSeq(ring, IF v = 0 THEN Len(ring) + 1 ELSE v + 1,
                                             Len(ring)), <<s, b>>)
                    /\ state' = IF frees THEN [tab EXCEPT ![e[1]][e[2]] = "absent"] ELSE tab
                    /\ block' = IF frees THEN Freed(blk, e) ELSE blk
       /\ run' = [run EXCEPT !.k = @ + 1]
       /\ UNCHANGED <<file, pinned, header, req, owner>>

\* malloc fails: keep what has been placed so far.
OutOfMemory(t) ==
    /\ owner = t
    /\ run # NoRun
    /\ run.k < run.n
    /\ run' = [run EXCEPT !.n = run.k]
    /\ UNCHANGED <<file, state, block, ring, pinned, header, req, owner>>

\* diskio_block returns the block, or NULL if it is not resident.
EndFault(t) ==
    /\ owner = t
    /\ run # NoRun
    /\ run.k = run.n
    /\ IF state[run.slot][run.idx] = "absent"
       THEN Finish(t, "error")
       ELSE /\ run' = NoRun
            /\ UNCHANGED <<file, state, block, ring, pinned, header, req, owner>>

----------------------------------------------------------------------------

Page ==
    \/ \E s \in Slots, f \in Files : Register(s, f)
    \/ \E s \in Slots : Unregister(s) \/ BeginPreload(s)
    \/ \E h \in header : Preload(h) \/ PreloadFails(h)

Requests(t) ==
    \/ \E s \in Slots, a \in Asks[t], val \in Values : Begin(t, a[1], s, a[2], a[3], val)
    \/ Return(t)
    \/ Lock(t)
    \/ Done(t)
    \/ Transfer(t)
    \/ FetchFails(t)
    \/ FetchOk(t)
    \/ PlaceBlock(t)
    \/ OutOfMemory(t)
    \/ EndFault(t)

Next == Page \/ \E t \in Threads : Requests(t)

Spec == Init /\ [][Next]_vars

----------------------------------------------------------------------------
(* Properties *)

\* wasm_diskio_block_state promises "1 clean (identical to source)"; export and
\* every guest read rely on it.  Holds of each cached clean block whatever the
\* order of faults, header reads, evictions and slot reuse, as long as no header
\* read outlives its slot (OverlappedUI = FALSE).
CleanIdenticalToSource ==
    \A s \in Slots : \A b \in DOMAIN state[s] :
        state[s][b] = "clean" => block[s][b] = SourceBlock(file[s], b)

\* Copy on write: a written block is kept for the session.  No fault, eviction
\* or preload may drop or refill it, only unregistering its slot frees it.
DirtyIsPinned ==
    [][\A s \in Slots : \A b \in DOMAIN state[s] :
        (state[s][b] = "dirty" /\ file'[s] # NoFile) =>
            /\ state'[s][b] = "dirty"
            /\ \A o \in Offsets : block[s][b][o].from = Guest => block'[s][b][o].from = Guest
      ]_vars

\* Every clean block except the preloaded ones has an entry in the ring, so that
\* eviction can still find it: the cache is bounded, nothing leaks, even with
\* stale and duplicated entries left behind by earlier disks of the slot.
CleanIsEvictable ==
    \A s \in Slots : \A b \in DOMAIN state[s] :
        (state[s][b] = "clean" /\ <<s, b>> \notin pinned) =>
            \E i \in 1 .. Len(ring) : ring[i] = <<s, b>>

\* table_mutex is released on every path out of diskio_rw, early failures
\* included, and only its holder is inside the engine.
LockIsHeldExactlyInside ==
    \A t \in Threads : owner = t <=> req[t].st = "running"

\* "they stay resident for the disk's lifetime ... because a later hard reset
\* re-opens the image on the main thread and must still find them"
\* (wasm-diskio.c, header preload).
PreloadStaysResident ==
    \A e \in pinned : state[e[1]][e[2]] # "absent"

\* What the engine promises its callers: a private session copy of each disk.
Overlay(s) ==
    IF file[s] = NoFile THEN <<>>
    ELSE [i \in 0 .. Sectors[file[s]] - 1 |->
            IF state[s][i \div BlockSectors] = "dirty"
            THEN block[s][i \div BlockSectors][i % BlockSectors]
            ELSE SourceSector(file[s], i)]
Promise == INSTANCE CowDisk WITH
    disk <- [s \in Slots |-> Overlay(s)],
    call <- [t \in Threads |-> IF req[t].st = "running" THEN [req[t] EXCEPT !.st = "waiting"]
                               ELSE req[t]],
    server <- owner
CowDisk == Promise!Spec
=============================================================================
