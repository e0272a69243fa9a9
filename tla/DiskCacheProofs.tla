--------------------------- MODULE DiskCacheProofs ---------------------------
(***************************************************************************)
(* Proofs about DiskCache, for any number of slots, sources and threads,   *)
(* sources, blocks and rings of any size: the lock, what the blocks hold,  *)
(* what eviction may and must find, and that the engine implements         *)
(* CowDisk, a private session copy of each disk.                           *)
(***************************************************************************)
EXTENDS DiskCache, SequenceTheorems, TLAPS

----------------------------------------------------------------------------
(* Division of integers: what the provers do not know of \div and % *)

\* A multiple of a larger number is larger.
LEMMA TimesMonotone ==
    ASSUME NEW m \in Int, NEW n \in Int, NEW d \in Nat, m <= n
    PROVE  m * d <= n * d
<1>1. (n - m) * d >= 0 BY Z3
<1> QED BY <1>1, Z3

\* A number is its quotient times the divisor and a remainder below the divisor.
LEMMA IntDivision ==
    ASSUME NEW a \in Int, NEW d \in Nat \ {0}
    PROVE  /\ a \div d \in Int /\ a % d \in 0 .. d - 1
           /\ a = (a \div d) * d + (a % d)
<1>1. /\ a \div d \in Int /\ a % d \in 0 .. d - 1
      /\ a = d * (a \div d) + (a % d)
  BY Z3
<1> QED BY <1>1, Z3

\* The quotient of a natural number is one.
LEMMA Division ==
    ASSUME NEW a \in Nat, NEW d \in Nat \ {0}
    PROVE  /\ a \div d \in Nat /\ a % d \in 0 .. d - 1
           /\ a = (a \div d) * d + (a % d)
<1>1. a \div d >= 0
  BY Z3
<1> QED BY <1>1, IntDivision

\* There is only one such quotient and remainder.
LEMMA DivisionUnique ==
    ASSUME NEW a \in Int, NEW d \in Nat \ {0}, NEW q \in Int, NEW r \in 0 .. d - 1, a = q * d + r
    PROVE  a \div d = q /\ a % d = r
<1> DEFINE p == a \div d
           s == a % d
<1>1. p \in Int /\ s \in 0 .. d - 1 /\ p * d + s = q * d + r
  BY IntDivision
<1> HIDE DEF p, s
<1>2. ~(p + 1 <= q)
  <2> SUFFICES ASSUME p + 1 <= q PROVE FALSE OBVIOUS
  <2>1. (p + 1) * d <= q * d
    BY <1>1, TimesMonotone
  <2>2. (p + 1) * d = p * d + d
    BY <1>1
  <2> QED BY <1>1, <2>1, <2>2
<1>3. ~(q + 1 <= p)
  <2> SUFFICES ASSUME q + 1 <= p PROVE FALSE OBVIOUS
  <2>1. (q + 1) * d <= p * d
    BY <1>1, TimesMonotone
  <2>2. (q + 1) * d = q * d + d
    BY <1>1
  <2> QED BY <1>1, <2>1, <2>2
<1>4. p = q
  BY <1>1, <1>2, <1>3
<1>5. s = r
  BY <1>1, <1>4
<1> QED BY <1>4, <1>5 DEF p, s

----------------------------------------------------------------------------
\* A request in the engine is for a disk that is attached and lies inside it.
ReqInv == \A t \in Threads : Busy(t) =>
    /\ file[req[t].slot] # NoFile
    /\ req[t].off + req[t].len <= Sectors[file[req[t].slot]]
    /\ req[t].moved <= req[t].len

\* The placing loop works for the request that holds the lock, at the block it wants,
\* and what it has still to place is absent.
RunInv == run # NoRun =>
    /\ owner # NoThread
    /\ run.slot = req[owner].slot
    /\ req[owner].moved < req[owner].len
    /\ run.idx = At(req[owner])
    /\ run.k <= run.n
    /\ \A c \in run.idx + run.k .. run.idx + run.n - 1 :
        c \in Blocks(file[run.slot]) /\ state[run.slot][c] = "absent"

\* A header that is read belongs to the source its slot still has.
HeaderInv == ~OverlappedUI => \A h \in header : file[h.slot] = h.file

\* What a clean block holds.
CleanInv == ~OverlappedUI => CleanIdenticalToSource

\* The inductive invariant.
IInv ==
    /\ TypeOK /\ LockIsHeldExactlyInside /\ ReqInv /\ RunInv
    /\ HeaderInv /\ CleanInv /\ CleanIsEvictable

----------------------------------------------------------------------------
(* Sizes and blocks *)

\* What the assumptions say of single sizes.
LEMMA Sizes ==
    /\ BlockSectors \in Nat \ {0} /\ CleanBudget \in Nat \ {0}
    /\ FetchRun \in Nat /\ 1 <= FetchRun
    /\ \A f \in Files : Sectors[f] \in Nat \ {0}
  BY SizeAssumption

\* A source has at least one block, and a sector of it lies in one of them.
LEMMA BlockOf ==
    ASSUME NEW f \in Files, NEW i \in Nat, i < Sectors[f]
    PROVE  /\ NBlocks(f) \in Nat
           /\ i \div BlockSectors \in Blocks(f)
           /\ i % BlockSectors \in Offsets
           /\ i = (i \div BlockSectors) * BlockSectors + (i % BlockSectors)
<1> DEFINE d == BlockSectors
           n == Sectors[f] + d - 1
           q == i \div d
           r == i % d
           m == n \div d
<1>1. d \in Nat \ {0} /\ n \in Nat /\ Sectors[f] \in Nat
  BY Sizes
<1>2. q \in Nat /\ r \in 0 .. d - 1 /\ i = q * d + r
  BY <1>1, Division
<1>3. m \in Nat /\ n % d \in 0 .. d - 1 /\ n = m * d + (n % d)
  BY <1>1, Division
<1>4. NBlocks(f) = m
  BY DEF NBlocks
<1> HIDE DEF d, q, r, m
<1>5. ~(m <= q)
  <2> SUFFICES ASSUME m <= q PROVE FALSE
    OBVIOUS
  <2>1. m * d <= q * d
    BY <1>1, <1>2, <1>3, TimesMonotone
  <2>2. m * d \in Int /\ q * d \in Int
    BY <1>1, <1>2, <1>3
  <2> HIDE DEF n
  <2>3. n = Sectors[f] + d - 1
    BY DEF n
  <2>4. n % d <= d - 1 /\ n % d \in Int
    BY <1>3
  <2> QED BY <1>1, <1>2, <1>3, <2>1, <2>2, <2>3, <2>4
<1>6. q \in 0 .. m - 1
  BY <1>2, <1>3, <1>5
<1>7. f # NoFile
  BY NameAssumption
<1> QED BY <1>2, <1>3, <1>4, <1>6, <1>7 DEF Blocks, Offsets, d, q, r

\* The requests that are in the engine have all their fields.
LEMMA BusyIsRequest ==
    ASSUME TypeOK, NEW t \in Threads, Busy(t)
    PROVE  req[t] \in Request
  BY DEF TypeOK, Busy, Reply, NoReq

\* The chunk of a request that is not done lies in one block of its disk.
LEMMA ChunkInBlock ==
    ASSUME TypeOK, ReqInv, NEW t \in Threads, Busy(t), req[t].moved < req[t].len
    PROVE  LET r == req[t] IN
           /\ At(r) \in Blocks(file[r.slot]) /\ At(r) \in Nat
           /\ From(r) \in Offsets
           /\ Chunk(r) \in Nat \ {0}
           /\ Chunk(r) <= r.len - r.moved
           /\ From(r) + Chunk(r) <= BlockSectors
           /\ r.off + r.moved = At(r) * BlockSectors + From(r)
<1> DEFINE r == req[t]
           i == r.off + r.moved
<1>1. r \in Request /\ file[r.slot] \in Files
  BY BusyIsRequest DEF TypeOK, ReqInv, Request
<1>2. /\ i \in Nat /\ i < Sectors[file[r.slot]]
      /\ r.off \in Nat /\ r.len \in Nat /\ r.moved \in Nat
  BY <1>1, Sizes DEF ReqInv, Request
<1>3. /\ At(r) \in Blocks(file[r.slot]) /\ At(r) \in Nat
      /\ From(r) \in Offsets
      /\ i = At(r) * BlockSectors + From(r)
  BY <1>1, <1>2, BlockOf, Division, Sizes DEF At, From
<1> HIDE DEF r
<1>4. From(r) \in 0 .. BlockSectors - 1 /\ BlockSectors \in Nat \ {0}
  BY <1>3, Sizes DEF Offsets
<1>5. /\ Chunk(r) \in Nat \ {0} /\ Chunk(r) <= r.len - r.moved
      /\ From(r) + Chunk(r) <= BlockSectors
  BY <1>2, <1>4 DEF Chunk, r
<1> QED BY <1>3, <1>5 DEF r

----------------------------------------------------------------------------
(* The steps that leave the blocks alone *)

\* The invariant's parts about blocks, and about requests.
DataType ==
    /\ file \in [Slots -> Files \cup {NoFile}]
    /\ DOMAIN state = Slots /\ DOMAIN block = Slots
    /\ \A s \in Slots :
        /\ state[s] \in [Blocks(file[s]) -> BlkStates]
        /\ block[s] \in [Blocks(file[s]) -> Content \cup {Null}]
        /\ \A b \in Blocks(file[s]) : state[s][b] = "absent" <=> block[s][b] = Null
    /\ ring \in Seq(Entries)
    /\ Len(ring) <= CleanBudget
    /\ pinned \subseteq Entries
DataInv == DataType /\ CleanInv /\ CleanIsEvictable

CallType ==
    /\ header \subseteq [slot : Slots, file : Files]
    /\ req \in [Threads -> Request \cup Reply \cup {NoReq}]
    /\ owner \in Threads \cup {NoThread}
    /\ run \in Run \cup {NoRun}
CallInv == CallType /\ LockIsHeldExactlyInside /\ ReqInv /\ RunInv

\* The invariant is these two parts and what is known of header reads.
LEMMA Parts == IInv <=> DataInv /\ CallInv /\ HeaderInv
  BY DEF IInv, DataInv, CallInv, DataType, CallType, TypeOK

\* The same of the next state.
LEMMA PartsNext == DataInv' /\ CallInv' /\ HeaderInv' => IInv'
  BY DEF IInv, DataInv, CallInv, DataType, CallType, TypeOK

data == <<file, state, block, ring, pinned>>

\* What does not touch the blocks keeps what is known of them.
LEMMA DataKept == DataInv /\ UNCHANGED data => DataInv'
<1> SUFFICES ASSUME DataInv, UNCHANGED data PROVE DataInv'
  OBVIOUS
<1> USE DEF DataInv, data
<1>1. DataType'
  BY DEF DataType
<1>2. CleanInv'
  BY DEF CleanInv, CleanIdenticalToSource
<1>3. CleanIsEvictable'
  BY DEF CleanIsEvictable
<1> QED BY <1>1, <1>2, <1>3

\* A thread holds the lock if its request runs, and its request is in the engine.
LEMMA OwnerRuns ==
    ASSUME IInv, NEW t \in Threads, owner = t
    PROVE  /\ Busy(t) /\ req[t] \in Request /\ req[t].st = "running"
           /\ file[req[t].slot] \in Files
  BY BusyIsRequest DEF IInv, LockIsHeldExactlyInside, Busy, ReqInv, Request, TypeOK

\* Asking, diskio_rw up to its bounds check, keeps the invariant: what it lets through fits.
LEMMA BeginKeeps ==
    ASSUME IInv, NEW t \in Threads, NEW s \in Slots, NEW a \in Asks[t], NEW val \in Values,
           Begin(t, a[1], s, a[2], a[3], val)
    PROVE  IInv'
<1> USE DEF Begin
<1>1. DataInv' /\ HeaderInv'
  BY DataKept, Parts DEF data, HeaderInv
<1>2. a[1] \in BOOLEAN /\ a[2] \in Nat /\ a[3] \in Nat \ {0} /\ val \in Nat
  BY SizeAssumption
<1>3. req[t] = NoReq /\ \A u \in Threads \ {t} : req'[u] = req[u]
  BY DEF IInv, TypeOK
<1>4. req'[t] \in Request \cup Reply /\ req'[t].st \in {"waiting", "error"}
  BY <1>2 DEF IInv, TypeOK, Request, Reply, Answer
<1>5. req'[t].st = "waiting" => /\ file[s] # NoFile /\ req'[t].slot = s
                                /\ req'[t].off + req'[t].len <= Sectors[file[s]]
                                /\ req'[t].moved <= req'[t].len
  BY <1>2 DEF IInv, TypeOK, Answer
<1>6. CallType'
  BY <1>4 DEF IInv, TypeOK, CallType
<1>7. LockIsHeldExactlyInside' /\ owner # t
  BY <1>3, <1>4, NameAssumption DEF IInv, LockIsHeldExactlyInside, NoReq
<1>8. ReqInv'
  BY <1>3, <1>4, <1>5 DEF IInv, ReqInv, Busy
<1>9. RunInv'
  BY <1>3, <1>7 DEF IInv, TypeOK, RunInv, At, Blocks, NBlocks
<1> QED BY <1>1, <1>6, <1>7, <1>8, <1>9, PartsNext DEF CallInv

\* The caller takes its answer.
LEMMA ReturnKeeps ==
    ASSUME IInv, NEW t \in Threads, Return(t)
    PROVE  IInv'
<1> USE DEF Return
<1>1. DataInv' /\ HeaderInv'
  BY DataKept, Parts DEF data, HeaderInv
<1>2. req'[t] = NoReq /\ \A u \in Threads \ {t} : req'[u] = req[u]
  BY DEF IInv, TypeOK
<1>3. CallType'
  BY DEF IInv, TypeOK, CallType
<1>4. LockIsHeldExactlyInside' /\ owner # t
  BY <1>2, NameAssumption DEF IInv, LockIsHeldExactlyInside, NoReq
<1>5. ReqInv'
  BY <1>2 DEF IInv, ReqInv, Busy, NoReq
<1>6. RunInv'
  BY <1>2, <1>4 DEF IInv, TypeOK, RunInv, At, Blocks, NBlocks
<1> QED BY <1>1, <1>3, <1>4, <1>5, <1>6, PartsNext DEF CallInv

\* Taking table_mutex keeps the invariant: nobody else is inside.
LEMMA LockKeeps ==
    ASSUME IInv, NEW t \in Threads, Lock(t)
    PROVE  IInv'
<1> USE DEF Lock
<1>1. DataInv' /\ HeaderInv'
  BY DataKept, Parts DEF data, HeaderInv
<1>2. req[t] \in Request
  BY BusyIsRequest DEF IInv, Busy
<1>3. /\ req'[t] = [req[t] EXCEPT !.st = "running"]
      /\ \A u \in Threads \ {t} : req'[u] = req[u]
  BY DEF IInv, TypeOK
<1>4. /\ req'[t] \in Request /\ req'[t].st = "running" /\ req'[t].slot = req[t].slot
      /\ req'[t].off = req[t].off /\ req'[t].len = req[t].len /\ req'[t].moved = req[t].moved
  BY <1>2, <1>3 DEF Request
<1>5. CallType'
  BY <1>4 DEF IInv, TypeOK, CallType
<1>6. LockIsHeldExactlyInside'
  BY <1>3, <1>4, NameAssumption DEF IInv, LockIsHeldExactlyInside
<1>7. ReqInv'
  BY <1>3, <1>4 DEF IInv, ReqInv, Busy
<1>8. RunInv'
  BY DEF IInv, RunInv
<1> QED BY <1>1, <1>5, <1>6, <1>7, <1>8, PartsNext DEF CallInv

\* Leaving the engine, in whichever way.
LEMMA FinishKeeps ==
    ASSUME IInv, NEW t \in Threads, owner = t, NEW st \in {"ok", "error"}, Finish(t, st)
    PROVE  IInv'
<1> USE DEF Finish
<1>1. DataInv' /\ HeaderInv'
  BY DataKept, Parts DEF data, HeaderInv
<1>2. req[t] \in Request
  BY OwnerRuns
<1>3. /\ req'[t] = Answer(st, req[t].buf)
      /\ \A u \in Threads \ {t} : req'[u] = req[u]
  BY DEF IInv, TypeOK
<1>4. req'[t] \in Reply /\ req'[t].st = st
  BY <1>2, <1>3 DEF Request, Reply, Answer
<1>5. CallType'
  BY <1>4 DEF IInv, TypeOK, CallType
<1>6. LockIsHeldExactlyInside'
  BY <1>3, <1>4, NameAssumption DEF IInv, LockIsHeldExactlyInside
<1>7. ReqInv'
  BY <1>3, <1>4 DEF IInv, ReqInv, Busy
<1>8. RunInv'
  BY DEF RunInv
<1> QED BY <1>1, <1>5, <1>6, <1>7, <1>8, PartsNext DEF CallInv

\* The read is answered: the run it brought is of absent blocks.
LEMMA FetchKeeps ==
    ASSUME IInv, NEW t \in Threads, FetchOk(t)
    PROVE  IInv'
<1> USE DEF FetchOk, NeedsBlock
<1>1. DataInv' /\ HeaderInv'
  BY DataKept, Parts DEF data, HeaderInv
<1>2. /\ owner = t /\ run = NoRun /\ req[t].moved < req[t].len
      /\ req[t] \in Request /\ Busy(t)
  BY OwnerRuns
<1>3. /\ At(req[t]) \in Blocks(file[req[t].slot])
      /\ file[req[t].slot] \in Files
      /\ At(req[t]) \in Nat
  BY <1>2, ChunkInBlock, OwnerRuns DEF IInv
<1>4. PICK n \in AbsentRun(req[t].slot, At(req[t])) :
        run' = [slot |-> req[t].slot, idx |-> At(req[t]), n |-> n, k |-> 0]
  OBVIOUS
<1>5. /\ n \in Nat /\ run' \in Run
      /\ \A c \in At(req[t]) .. At(req[t]) + n - 1 :
            c \in DOMAIN state[req[t].slot] /\ state[req[t].slot][c] = "absent"
  BY <1>2, <1>3, <1>4, Sizes DEF AbsentRun, Run, Request
<1>6. DOMAIN state[req[t].slot] = Blocks(file[req[t].slot])
  BY <1>2 DEF IInv, TypeOK, Request
<1>7. CallType' /\ LockIsHeldExactlyInside' /\ ReqInv'
  BY <1>5 DEF IInv, TypeOK, CallType, LockIsHeldExactlyInside, ReqInv, Busy
<1>8. RunInv'
  BY <1>2, <1>3, <1>4, <1>5, <1>6, NameAssumption DEF RunInv, At, Blocks, NBlocks
<1> QED BY <1>1, <1>7, <1>8, PartsNext DEF CallInv

\* A run cut short by malloc keeps the invariant.
LEMMA OutOfMemoryKeeps ==
    ASSUME IInv, NEW t \in Threads, OutOfMemory(t)
    PROVE  IInv'
<1> USE DEF OutOfMemory
<1>1. DataInv' /\ HeaderInv'
  BY DataKept, Parts DEF data, HeaderInv
<1>2. run \in Run /\ run' = [run EXCEPT !.n = run.k]
  BY DEF IInv, TypeOK
<1>3. /\ run' \in Run /\ run'.slot = run.slot /\ run'.idx = run.idx /\ run'.k = run.k /\ run'.n = run.k
  BY <1>2 DEF Run
<1>4. CallType' /\ LockIsHeldExactlyInside' /\ ReqInv'
  BY <1>3 DEF IInv, TypeOK, CallType, LockIsHeldExactlyInside, ReqInv, Busy
<1>5. RunInv'
  BY <1>2, <1>3 DEF IInv, RunInv, Run, At, Blocks, NBlocks
<1> QED BY <1>1, <1>4, <1>5, PartsNext DEF CallInv

\* The end of diskio_block keeps the invariant, whether the block came or not.
LEMMA EndFaultKeeps ==
    ASSUME IInv, NEW t \in Threads, EndFault(t)
    PROVE  IInv'
<1>1. CASE Finish(t, "error")
  BY <1>1, FinishKeeps DEF EndFault
<1>2. CASE run' = NoRun /\ UNCHANGED <<file, state, block, ring, pinned, header, req, owner>>
  <2>1. DataInv' /\ HeaderInv'
    BY <1>2, DataKept, Parts DEF data, HeaderInv
  <2>2. CallInv'
    BY <1>2 DEF IInv, TypeOK, CallType, LockIsHeldExactlyInside, ReqInv, RunInv, CallInv, Busy
  <2> QED BY <2>1, <2>2, PartsNext
<1> QED BY <1>1, <1>2 DEF EndFault

\* Reading a header, up to the engine.
LEMMA HeaderKeeps ==
    ASSUME IInv, \/ \E s \in Slots : BeginPreload(s)
                 \/ \E h \in header : PreloadFails(h)
    PROVE  IInv'
<1>1. UNCHANGED <<file, state, block, ring, pinned, req, owner, run>>
  BY DEF BeginPreload, PreloadFails
<1>2. DataInv'
  BY <1>1, DataKept, Parts DEF data
<1>3. HeaderInv' /\ header' \subseteq [slot : Slots, file : Files]
  <2>1. CASE \E s \in Slots : BeginPreload(s)
    BY <2>1 DEF IInv, TypeOK, HeaderInv, BeginPreload
  <2>2. CASE \E h \in header : PreloadFails(h)
    BY <2>2 DEF IInv, TypeOK, HeaderInv, PreloadFails
  <2> QED BY <2>1, <2>2
<1>4. CallInv'
  BY <1>1, <1>3 DEF IInv, TypeOK, CallType, LockIsHeldExactlyInside, ReqInv, RunInv, CallInv, Busy, At,
                   Blocks, NBlocks
<1> QED BY <1>2, <1>3, <1>4, PartsNext

----------------------------------------------------------------------------
(* The steps that change the blocks *)

\* A cached block is never mistaken for a missing one.
LEMMA ContentIsNotNull == \A c \in Content : c # Null
<1> SUFFICES ASSUME NEW c \in Content, c = <<>> PROVE FALSE
  BY DEF Null
<1>1. DOMAIN c = Offsets /\ 0 \in Offsets
  BY Sizes DEF Content, Offsets
<1>2. DOMAIN c = 1 .. 0
  OBVIOUS
<1> QED BY <1>1, <1>2

\* A source's sectors and blocks have their types.
LEMMA SourceType ==
    ASSUME NEW f \in Files
    PROVE  /\ \A i \in Nat : SourceSector(f, i) \in Sector
           /\ \A b \in Nat : SourceBlock(f, b) \in Content
<1>1. \A i \in Nat : SourceSector(f, i) \in Sector
  BY DEF SourceSector, Sector
<1>2. \A b \in Nat, o \in Offsets : b * BlockSectors + o \in Nat
  BY Sizes DEF Offsets
<1> QED BY <1>1, <1>2 DEF SourceBlock, Content

\* The blocks of a source are numbered from zero.
LEMMA BlocksAreNat ==
    ASSUME NEW f \in Files
    PROVE  NBlocks(f) \in Nat /\ Blocks(f) = 0 .. NBlocks(f) - 1 /\ Blocks(f) \subseteq Nat
<1>1. 0 \in Nat /\ 0 < Sectors[f]
  BY Sizes
<1>2. NBlocks(f) \in Nat
  BY <1>1, BlockOf
<1> QED BY <1>2, NameAssumption DEF Blocks

\* A step that changes tables of blocks consistently: each block stays, is freed, is
\* written, or is filled from its source.
LEMMA TablesKeep ==
    ASSUME DataInv, UNCHANGED file, DOMAIN state' = Slots, DOMAIN block' = Slots,
           \A s \in Slots :
                /\ state'[s] \in [Blocks(file[s]) -> BlkStates]
                /\ block'[s] \in [Blocks(file[s]) -> Content \cup {Null}]
                /\ \A b \in Blocks(file[s]) :
                    \/ state'[s][b] = state[s][b] /\ block'[s][b] = block[s][b]
                    \/ state'[s][b] = "absent" /\ block'[s][b] = Null
                    \/ state'[s][b] = "dirty" /\ block'[s][b] \in Content
                    \/ /\ state'[s][b] = "clean" /\ block'[s][b] \in Content
                       /\ ~OverlappedUI => block'[s][b] = SourceBlock(file[s], b),
           ring' \in Seq(Entries), Len(ring') <= CleanBudget, pinned' \subseteq Entries
    PROVE  DataType' /\ CleanInv'
<1>1. DataType'
  BY ContentIsNotNull DEF DataInv, DataType
<1>2. CleanInv'
  <2> SUFFICES ASSUME ~OverlappedUI, NEW s \in Slots, NEW b \in DOMAIN state'[s], state'[s][b] = "clean"
               PROVE  block'[s][b] = SourceBlock(file'[s], b)
    BY DEF CleanInv, CleanIdenticalToSource
  <2>1. b \in Blocks(file[s]) /\ b \in DOMAIN state[s]
    BY DEF DataInv, DataType
  <2> QED BY <2>1 DEF DataInv, CleanInv, CleanIdenticalToSource
<1> QED BY <1>1, <1>2

\* No block is dropped, refilled or changed that was written, and none becomes written:
\* what the guest stored stays as it is.
SessionKept ==
    \A s \in Slots : \A b \in Blocks(file[s]) :
        "dirty" \in {state[s][b], state'[s][b]} =>
            state'[s][b] = state[s][b] /\ block'[s][b] = block[s][b]

\* Calls see nothing of a change to another slot.
LEMMA CallsKept ==
    ASSUME CallInv, UNCHANGED <<req, owner, run>>, header' \subseteq [slot : Slots, file : Files],
           \A t \in Threads : Busy(t) =>
                /\ file'[req[t].slot] = file[req[t].slot]
                /\ state'[req[t].slot] = state[req[t].slot]
    PROVE  CallInv'
<1> USE DEF CallInv
<1>1. CallType' /\ LockIsHeldExactlyInside'
  BY DEF CallType, LockIsHeldExactlyInside
<1>2. ReqInv'
  BY DEF ReqInv, Busy
<1>3. RunInv'
  <2> SUFFICES ASSUME run # NoRun PROVE RunInv'
    BY DEF RunInv
  <2>1. owner \in Threads /\ run.slot = req[owner].slot
    BY DEF RunInv, CallType
  <2>2. Busy(owner)
    BY <2>1 DEF LockIsHeldExactlyInside, Busy
  <2>3. file'[run.slot] = file[run.slot] /\ state'[run.slot] = state[run.slot]
    BY <2>1, <2>2
  <2> QED BY <2>3 DEF RunInv
<1> QED BY <1>1, <1>2, <1>3

\* Registering a source keeps the invariant: all its blocks are absent, whatever the ring
\* still holds for the slot.
LEMMA RegisterKeeps ==
    ASSUME IInv, NEW s \in Slots, NEW f \in Files, Register(s, f)
    PROVE  IInv'
<1> USE DEF Register
<1>1. /\ file[s] = NoFile /\ file'[s] = f /\ state'[s] = [b \in Blocks(f) |-> "absent"]
      /\ block'[s] = [b \in Blocks(f) |-> Null]
      /\ \A r \in Slots \ {s} : file'[r] = file[r] /\ state'[r] = state[r] /\ block'[r] = block[r]
      /\ DOMAIN state' = Slots /\ DOMAIN block' = Slots
  BY DEF IInv, TypeOK
<1>2. DataType'
  BY <1>1 DEF IInv, TypeOK, DataType, BlkStates
<1>3. CleanInv' /\ CleanIsEvictable'
  <2>1. \A b \in DOMAIN state'[s] : state'[s][b] # "clean"
    BY <1>1
  <2>2. CleanInv'
    BY <1>1, <2>1 DEF IInv, CleanInv, CleanIdenticalToSource
  <2>3. CleanIsEvictable'
    <3> SUFFICES ASSUME NEW r \in Slots, NEW b \in DOMAIN state'[r],
                        state'[r][b] = "clean", <<r, b>> \notin pinned'
                 PROVE  \E i \in 1 .. Len(ring) : ring[i] = <<r, b>>
      BY DEF CleanIsEvictable
    <3>1. r # s
      BY <2>1
    <3> QED BY <1>1, <3>1 DEF IInv, CleanIsEvictable
  <2> QED BY <2>2, <2>3
<1>4. HeaderInv'
  BY <1>1, NameAssumption DEF IInv, TypeOK, HeaderInv
<1>5. \A t \in Threads : Busy(t) => req[t].slot # s /\ req[t].slot \in Slots
  BY <1>1, BusyIsRequest DEF IInv, ReqInv, Request
<1>6. CallInv'
  BY <1>1, <1>5, CallsKept, Parts DEF IInv, TypeOK
<1> QED BY <1>2, <1>3, <1>4, <1>6, PartsNext DEF DataInv

\* Unregistering keeps the invariant: no request is in the slot, and no header read.
LEMMA UnregisterKeeps ==
    ASSUME IInv, NEW s \in Slots, Unregister(s)
    PROVE  IInv'
<1> USE DEF Unregister
<1>1. /\ file'[s] = NoFile /\ state'[s] = <<>> /\ block'[s] = <<>>
      /\ \A r \in Slots \ {s} : file'[r] = file[r] /\ state'[r] = state[r] /\ block'[r] = block[r]
      /\ DOMAIN state' = Slots /\ DOMAIN block' = Slots
  BY DEF IInv, TypeOK
<1>2. Blocks(NoFile) = {} /\ \A T : <<>> \in [{} -> T]
  BY DEF Blocks
<1>3. DataType'
  BY <1>1, <1>2 DEF IInv, TypeOK, DataType
<1>4. DOMAIN state'[s] = {}
  BY <1>1
<1>5. CleanInv'
  BY <1>1, <1>4 DEF IInv, CleanInv, CleanIdenticalToSource
<1>6. CleanIsEvictable'
  BY <1>1, <1>4 DEF IInv, CleanIsEvictable
<1>7. HeaderInv'
  BY <1>1 DEF IInv, TypeOK, HeaderInv
<1>8. \A t \in Threads : Busy(t) => req[t].slot # s /\ req[t].slot \in Slots
  BY <1>1, BusyIsRequest DEF IInv, ReqInv, Request
<1>9. CallInv'
  BY <1>1, <1>8, CallsKept, Parts DEF IInv, TypeOK
<1> QED BY <1>3, <1>5, <1>6, <1>7, <1>9, PartsNext DEF DataInv

\* A block that a header covers is staged whole, up to the end of the source.
LEMMA StagedIsSource ==
    ASSUME NEW f \in Files, NEW b \in Blocks(f), b * BlockSectors < Staged(f),
           (b + 1) * BlockSectors <= Staged(f) \/ b = NBlocks(f) - 1
    PROVE  StagedBlock(f, b) = SourceBlock(f, b)
<1> DEFINE d == BlockSectors
<1>1. d \in Nat \ {0} /\ b \in Nat /\ Sectors[f] \in Nat \ {0} /\ FetchRun \in Nat
  BY Sizes, BlocksAreNat
<1>2. b * d \in Nat /\ (b + 1) * d = b * d + d /\ FetchRun * d \in Nat
  BY <1>1
<1>3. Staged(f) = Sectors[f] \/ (Staged(f) = FetchRun * d /\ FetchRun * d <= Sectors[f])
  BY <1>1, <1>2 DEF Staged
<1> HIDE DEF d
<1> SUFFICES ASSUME NEW o \in Offsets
             PROVE  (IF b * d + o < Staged(f) THEN SourceSector(f, b * d + o)
                     ELSE [from |-> Padding, at |-> 0]) = SourceSector(f, b * d + o)
  BY DEF StagedBlock, SourceBlock, d
<1>4. o \in Nat /\ o < d
  BY <1>1 DEF Offsets, d
<1>5. CASE Staged(f) = Sectors[f]
  BY <1>5 DEF SourceSector
<1>6. CASE Staged(f) = FetchRun * d /\ FetchRun * d <= Sectors[f]
  <2>1. b + 1 <= FetchRun
    <3> SUFFICES ASSUME FetchRun <= b PROVE FALSE
      BY <1>1
    <3>1. FetchRun * d <= b * d
      BY <1>1, TimesMonotone
    <3> QED BY <1>2, <1>6, <3>1 DEF d
  <2>2. (b + 1) * d <= FetchRun * d
    BY <1>1, <2>1, TimesMonotone
  <2> QED BY <1>1, <1>2, <1>4, <1>6, <2>2
<1> QED BY <1>3, <1>5, <1>6

\* Filling a slot from its header keeps the invariant, and what the guest wrote.
LEMMA PreloadKeeps ==
    ASSUME IInv, NEW h \in header, Preload(h)
    PROVE  IInv' /\ SessionKept
<1> DEFINE s == h.slot
           f == h.file
<1>1. s \in Slots /\ f \in Files /\ (~OverlappedUI => file[s] = f)
  BY DEF IInv, TypeOK, HeaderInv
<1>2. PICK placed \in SUBSET AbsentOf(s, Covered(s, f)) :
        /\ state' = [state EXCEPT ![s] = [b \in DOMAIN @ |-> IF b \in placed THEN "clean" ELSE @[b]]]
        /\ block' = [block EXCEPT ![s] = [b \in DOMAIN @ |-> IF b \in placed THEN StagedBlock(f, b) ELSE @[b]]]
        /\ pinned' = pinned \cup ({s} \X placed)
  BY Zenon DEF Preload
<1> HIDE DEF s, f
<1>3. /\ placed \subseteq Blocks(file[s]) /\ \A b \in placed : state[s][b] = "absent"
      /\ \A b \in placed : /\ b * BlockSectors < Staged(f)
                           /\ (b + 1) * BlockSectors <= Staged(f) \/ b = NBlocks(file[s]) - 1
  <2>1. placed \subseteq Blocks(file[s]) /\ \A b \in placed : state[s][b] = "absent"
    BY <1>2 DEF AbsentOf, Covered
  <2>2. \A b \in Blocks(file[s]) : b \in 0 .. b
    BY <1>1, BlocksAreNat DEF Blocks, IInv, TypeOK
  <2> QED BY <1>2, <2>1, <2>2 DEF AbsentOf, Covered
<1>4. /\ DOMAIN state' = Slots /\ DOMAIN block' = Slots
      /\ DOMAIN state[s] = Blocks(file[s]) /\ DOMAIN block[s] = Blocks(file[s])
      /\ \A r \in Slots \ {s} : state'[r] = state[r] /\ block'[r] = block[r]
      /\ state'[s] = [b \in Blocks(file[s]) |-> IF b \in placed THEN "clean" ELSE state[s][b]]
      /\ block'[s] = [b \in Blocks(file[s]) |-> IF b \in placed THEN StagedBlock(f, b) ELSE block[s][b]]
  BY <1>1, <1>2 DEF IInv, TypeOK
<1>5. UNCHANGED <<file, ring, req, owner, run>> /\ header' = header \ {h} /\ owner = NoThread
  BY DEF Preload
<1>6. Blocks(file[s]) \subseteq Nat
  BY <1>1, BlocksAreNat DEF Blocks, IInv, TypeOK
<1>7. \A b \in Nat : StagedBlock(f, b) \in Content
  <2>1. \A b \in Nat, o \in Offsets : b * BlockSectors + o \in Nat
    BY Sizes DEF Offsets
  <2>2. [from |-> Padding, at |-> 0] \in Sector
    BY DEF Sector, SourceSector
  <2> QED BY <1>1, <2>1, <2>2, SourceType DEF StagedBlock, Content
<1>8. \A b \in placed : ~OverlappedUI => StagedBlock(f, b) = SourceBlock(file[s], b)
  BY <1>1, <1>3, StagedIsSource
<1>9. DataType' /\ CleanInv'
  <2>1. /\ state'[s] \in [Blocks(file[s]) -> BlkStates]
        /\ block'[s] \in [Blocks(file[s]) -> Content \cup {Null}]
    BY <1>1, <1>4, <1>6, <1>7 DEF IInv, TypeOK, BlkStates
  <2>2. pinned' \subseteq Entries
    BY <1>1, <1>2, <1>3, <1>6 DEF IInv, TypeOK, Entries
  <2>3. \A b \in placed : state'[s][b] = "clean" /\ block'[s][b] \in Content
                          /\ (~OverlappedUI => block'[s][b] = SourceBlock(file[s], b))
    BY <1>3, <1>4, <1>6, <1>7, <1>8
  <2>4. \A b \in Blocks(file[s]) \ placed : state'[s][b] = state[s][b] /\ block'[s][b] = block[s][b]
    BY <1>4
  <2> QED BY <1>1, <1>4, <1>5, <2>1, <2>2, <2>3, <2>4, TablesKeep, Parts DEF IInv, TypeOK
<1>10. CleanIsEvictable'
  <2> SUFFICES ASSUME NEW r \in Slots, NEW b \in DOMAIN state'[r],
                      state'[r][b] = "clean", <<r, b>> \notin pinned'
               PROVE  \E i \in 1 .. Len(ring) : ring[i] = <<r, b>>
    BY <1>5 DEF CleanIsEvictable
  <2>1. b \in DOMAIN state[r] /\ state[r][b] = "clean"
    BY <1>2, <1>4
  <2>2. <<r, b>> \notin pinned
    BY <1>2
  <2> QED BY <2>1, <2>2 DEF IInv, CleanIsEvictable
<1>11. HeaderInv'
  BY <1>5 DEF IInv, HeaderInv
<1>12. run = NoRun /\ \A t \in Threads : req[t].st # "running"
  BY <1>5, NameAssumption DEF IInv, RunInv, LockIsHeldExactlyInside
<1>13. CallInv'
  BY <1>5, <1>12 DEF IInv, TypeOK, CallInv, CallType, LockIsHeldExactlyInside, ReqInv, RunInv, Busy
<1>14. SessionKept
  BY <1>3, <1>4 DEF SessionKept
<1> QED BY <1>9, <1>10, <1>11, <1>13, <1>14, PartsNext DEF DataInv

\* A sequence is what maps the numbers up to its length.
LEMMA IsSequence ==
    ASSUME NEW S, NEW n \in Nat, NEW f \in [1 .. n -> S]
    PROVE  f \in Seq(S) /\ Len(f) = n
<1>1. f \in Seq(S)
  OBVIOUS
<1>2. Len(f) = n
  OBVIOUS
<1> QED BY <1>1, <1>2

\* Moving a chunk keeps the invariant: a block that is written into is no longer clean.
LEMMA TransferKeeps ==
    ASSUME IInv, NEW t \in Threads, Transfer(t)
    PROVE  IInv'
<1> DEFINE r == req[t]
           s == r.slot
           b == At(r)
<1>1. /\ owner = t /\ run = NoRun /\ r.moved < r.len /\ state[s][b] # "absent"
      /\ UNCHANGED <<file, ring, pinned, header, owner, run>>
  BY DEF Transfer
<1>2. /\ Busy(t) /\ r \in Request /\ r.st = "running" /\ file[s] \in Files
  BY <1>1, OwnerRuns
<1>3. /\ s \in Slots /\ b \in Blocks(file[s]) /\ b \in Nat
      /\ From(r) \in 0 .. BlockSectors - 1
      /\ Chunk(r) \in Nat \ {0} /\ Chunk(r) <= r.len - r.moved
      /\ From(r) + Chunk(r) <= BlockSectors
      /\ r.len \in Nat /\ r.moved \in Nat /\ r.val \in Nat /\ r.buf \in Seq(Sector)
      /\ BlockSectors \in Nat
  BY <1>1, <1>2, ChunkInBlock, SizeAssumption DEF IInv, Request, Offsets
<1>4. block[s][b] \in Content
  BY <1>1, <1>3 DEF IInv, TypeOK
<1> HIDE DEF r, s, b
<1>5. HeaderInv'
  BY <1>1 DEF IInv, HeaderInv
<1>6. \/ /\ ~r.write /\ UNCHANGED <<state, block>>
         /\ req' = [req EXCEPT ![t].moved = @ + Chunk(r),
                               ![t].buf = @ \o [i \in 1 .. Chunk(r) |-> block[s][b][From(r) + i - 1]]]
      \/ /\ r.write
         /\ block' = [block EXCEPT ![s][b] =
                [o \in Offsets |-> IF o >= From(r) /\ o < From(r) + Chunk(r)
                                   THEN [from |-> Guest, at |-> r.val] ELSE @[o]]]
         /\ state' = [state EXCEPT ![s][b] = "dirty"]
         /\ req' = [req EXCEPT ![t].moved = @ + Chunk(r)]
  BY DEF Transfer, r, s, b, AfterWrite
<1>7. DataInv'
  <2>1. CASE UNCHANGED <<state, block>>
    BY <1>1, <2>1, DataKept, Parts DEF data
  <2>2. CASE /\ block' = [block EXCEPT ![s][b] =
                    [o \in Offsets |-> IF o >= From(r) /\ o < From(r) + Chunk(r)
                                       THEN [from |-> Guest, at |-> r.val] ELSE @[o]]]
             /\ state' = [state EXCEPT ![s][b] = "dirty"]
    <3> DEFINE new == [o \in Offsets |-> IF o >= From(r) /\ o < From(r) + Chunk(r)
                                         THEN [from |-> Guest, at |-> r.val] ELSE block[s][b][o]]
    <3>1. new \in Content
      <4>1. [from |-> Guest, at |-> r.val] \in Sector
        BY <1>3 DEF Sector
      <4> QED BY <1>4, <4>1 DEF Content
    <3>2. /\ DOMAIN state' = Slots /\ DOMAIN block' = Slots
          /\ \A x \in Slots \ {s} : state'[x] = state[x] /\ block'[x] = block[x]
          /\ state'[s] = [state[s] EXCEPT ![b] = "dirty"]
          /\ block'[s] = [block[s] EXCEPT ![b] = new]
      BY <1>3, <2>2 DEF IInv, TypeOK
    <3> HIDE DEF new
    <3>3. /\ state'[s] \in [Blocks(file[s]) -> BlkStates]
          /\ block'[s] \in [Blocks(file[s]) -> Content \cup {Null}]
          /\ state'[s][b] = "dirty" /\ block'[s][b] \in Content
          /\ \A c \in Blocks(file[s]) \ {b} : state'[s][c] = state[s][c] /\ block'[s][c] = block[s][c]
      BY <1>3, <3>1, <3>2 DEF IInv, TypeOK, BlkStates
    <3>4. DataType' /\ CleanInv'
      BY <1>1, <1>3, <3>2, <3>3, TablesKeep, Parts DEF IInv, TypeOK
    <3>5. CleanIsEvictable'
      <4> SUFFICES ASSUME NEW x \in Slots, NEW c \in DOMAIN state'[x],
                          state'[x][c] = "clean", <<x, c>> \notin pinned
                   PROVE  \E i \in 1 .. Len(ring) : ring[i] = <<x, c>>
        BY <1>1 DEF CleanIsEvictable
      <4>1. c \in DOMAIN state[x] /\ state[x][c] = "clean"
        BY <1>3, <3>2, <3>3
      <4> QED BY <4>1 DEF IInv, CleanIsEvictable
    <3> QED BY <3>4, <3>5 DEF DataInv
  <2> QED BY <1>6, <2>1, <2>2
<1> DEFINE m == r.moved + Chunk(r)
<1>8. m \in Nat
  BY <1>3
<1> HIDE DEF m
<1>9. /\ req'[t] \in Request /\ req'[t].st = "running" /\ req'[t].slot = s /\ req'[t].off = r.off
      /\ req'[t].len = r.len /\ req'[t].moved = m
      /\ \A u \in Threads \ {t} : req'[u] = req[u]
  <2>1. CASE req' = [req EXCEPT ![t].moved = @ + Chunk(r)]
    <3>1. req'[t] = [r EXCEPT !.moved = m] /\ \A u \in Threads \ {t} : req'[u] = req[u]
      BY <2>1 DEF IInv, TypeOK, r, m
    <3> QED BY <1>2, <1>8, <3>1 DEF Request, s
  <2>2. CASE req' = [req EXCEPT ![t].moved = @ + Chunk(r),
                                ![t].buf = @ \o [i \in 1 .. Chunk(r) |-> block[s][b][From(r) + i - 1]]]
    <3> DEFINE piece == [i \in 1 .. Chunk(r) |-> block[s][b][From(r) + i - 1]]
    <3>1. \A i \in 1 .. Chunk(r) : From(r) + i - 1 \in Offsets
      BY <1>3 DEF Offsets
    <3>2. piece \in [1 .. Chunk(r) -> Sector]
      BY <1>4, <3>1 DEF Content
    <3>3. piece \in Seq(Sector)
      BY <1>3, <3>2, IsSequence
    <3>4. /\ req'[t] = [r EXCEPT !.moved = m, !.buf = @ \o piece]
          /\ \A u \in Threads \ {t} : req'[u] = req[u]
      BY <2>2 DEF IInv, TypeOK, r, m
    <3> HIDE DEF piece
    <3>5. r.buf \o piece \in Seq(Sector)
      BY <1>3, <3>3, ConcatProperties
    <3> QED BY <1>2, <1>8, <3>4, <3>5 DEF Request, s
  <2> QED BY <1>6, <2>1, <2>2
<1>10. CallType' /\ LockIsHeldExactlyInside'
  <2>1. \A u \in Threads : req'[u].st = req[u].st
    BY <1>2, <1>9 DEF r
  <2>2. LockIsHeldExactlyInside'
    BY <1>1, <2>1 DEF IInv, LockIsHeldExactlyInside
  <2>3. DOMAIN req' = Threads /\ req' \in [Threads -> Request \cup Reply \cup {NoReq}]
    BY <1>6, <1>9 DEF IInv, TypeOK
  <2> QED BY <1>1, <2>2, <2>3 DEF IInv, TypeOK, CallType
<1>11. ReqInv'
  <2>1. m <= r.len
    BY <1>3 DEF m
  <2> QED BY <1>1, <1>2, <1>9, <2>1 DEF IInv, ReqInv, Busy, r, s
<1>12. RunInv'
  BY <1>1 DEF RunInv
<1> QED BY <1>5, <1>7, <1>10, <1>11, <1>12, PartsNext DEF CallInv

\* What is left of the ring after its first v entries, with a new one behind.
Shifted(r, v, e) == Append(SubSeq(r, v + 1, Len(r)), e)

\* It holds the new entry and those after the first v.
LEMMA RingShifted ==
    ASSUME NEW r \in Seq(Entries), NEW v \in Nat, v <= Len(r), NEW e \in Entries
    PROVE  LET q == Shifted(r, v, e) IN
           /\ q \in Seq(Entries) /\ Len(q) = Len(r) - v + 1
           /\ q[Len(q)] = e
           /\ \A i \in 1 .. Len(r) : i > v => i - v \in 1 .. Len(q) /\ q[i - v] = r[i]
<1> DEFINE rest == SubSeq(r, v + 1, Len(r))
           q == Shifted(r, v, e)
<1>1. Len(r) \in Nat /\ \A i \in v + 1 .. Len(r) : r[i] \in Entries
  BY LenProperties
<1>2. /\ rest \in Seq(Entries)
      /\ Len(rest) = IF v + 1 <= Len(r) THEN Len(r) - (v + 1) + 1 ELSE 0
      /\ \A i \in 1 .. Len(r) - (v + 1) + 1 : rest[i] = r[v + 1 + i - 1]
  BY <1>1, SubSeqProperties
<1>3. Len(rest) = Len(r) - v /\ \A i \in 1 .. Len(r) - v : rest[i] = r[v + i]
  BY <1>1, <1>2
<1>4. q = Append(rest, e)
  BY DEF Shifted
<1> HIDE DEF rest, q
<1>5. /\ q \in Seq(Entries) /\ Len(q) = Len(rest) + 1
      /\ \A i \in 1 .. Len(rest) : q[i] = rest[i]
      /\ q[Len(rest) + 1] = e
  BY ONLY <1>2, <1>4, e \in Entries, AppendProperties
<1>6. Len(q) = Len(r) - v + 1 /\ q[Len(q)] = e
  BY <1>1, <1>3, <1>5
<1>7. ASSUME NEW i \in 1 .. Len(r), i > v
      PROVE  i - v \in 1 .. Len(q) /\ q[i - v] = r[i]
  <2>1. i - v \in 1 .. Len(r) - v /\ v + (i - v) = i
    BY <1>1, <1>7
  <2> QED BY <1>1, <1>3, <1>5, <1>6, <2>1
<1> QED BY <1>5, <1>6, <1>7 DEF q

\* Placing a block keeps the invariant, and what the guest wrote: an entry that eviction
\* may free and that is in the table is clean there, and the ring loses no entry of a
\* block that stays clean.
LEMMA PlaceKeeps ==
    ASSUME IInv, NEW t \in Threads, PlaceBlock(t)
    PROVE  IInv' /\ SessionKept
<1> DEFINE s == run.slot
           b == run.idx + run.k
           tab == [state EXCEPT ![s][b] = "clean"]
           blk == [block EXCEPT ![s][b] = SourceBlock(file[s], b)]
<1>1. /\ owner = t /\ run # NoRun /\ run.k < run.n
      /\ run' = [run EXCEPT !.k = @ + 1]
      /\ UNCHANGED <<file, pinned, header, req, owner>>
  BY DEF PlaceBlock
<1>2. /\ run \in Run /\ s \in Slots /\ b \in Nat
      /\ run.idx \in Nat /\ run.k \in Nat /\ run.n \in Nat
  BY <1>1 DEF IInv, TypeOK, Run
<1>3. file[s] \in Files /\ b \in Blocks(file[s]) /\ state[s][b] = "absent"
  <2>1. b \in run.idx + run.k .. run.idx + run.n - 1
    BY <1>1, <1>2
  <2>2. b \in Blocks(file[s]) /\ state[s][b] = "absent"
    BY <1>1, <2>1 DEF IInv, RunInv
  <2> QED BY <1>2, <2>2 DEF IInv, TypeOK, Blocks
<1>4. /\ DOMAIN tab = Slots /\ DOMAIN blk = Slots
      /\ \A x \in Slots : /\ tab[x] \in [Blocks(file[x]) -> BlkStates]
                          /\ blk[x] \in [Blocks(file[x]) -> Content \cup {Null}]
      /\ tab[s][b] = "clean" /\ blk[s][b] = SourceBlock(file[s], b)
      /\ \A x \in Slots : \A c \in Blocks(file[x]) : <<x, c>> # <<s, b>> =>
            tab[x][c] = state[x][c] /\ blk[x][c] = block[x][c]
  BY <1>2, <1>3, SourceType DEF IInv, TypeOK, BlkStates
<1> DEFINE Frees(v) == v > 0 /\ InTable(tab, ring[v])
<1> DEFINE Step(v) ==
        /\ \/ Len(ring) = CleanBudget /\ v \in Victims(tab)
           \/ Len(ring) < CleanBudget /\ v = 0
        /\ ring' = Append(SubSeq(ring, IF v = 0 /\ Len(ring) = CleanBudget THEN Len(ring) + 1 ELSE v + 1,
                                 Len(ring)), <<s, b>>)
        /\ state' = IF Frees(v) THEN [tab EXCEPT ![ring[v][1]][ring[v][2]] = "absent"] ELSE tab
        /\ block' = IF Frees(v) THEN [blk EXCEPT ![ring[v][1]][ring[v][2]] = Null] ELSE blk
<1>5. \E v \in 0 .. Len(ring) : Step(v)
  <2>1. CASE /\ Len(ring) < CleanBudget
             /\ ring' = Append(ring, <<s, b>>) /\ state' = tab /\ block' = blk
    <3>1. SubSeq(ring, 1, Len(ring)) = ring /\ Len(ring) \in Nat
      BY SubSeqFull, LenProperties DEF IInv, TypeOK
    <3>2. 0 \in 0 .. Len(ring) /\ ~Frees(0) /\ Len(ring) # CleanBudget
      BY <2>1, <3>1, Sizes
    <3> HIDE DEF Frees, s, b, tab, blk
    <3>3. Step(0)
      <4>1. ring' = Append(SubSeq(ring, IF 0 = 0 /\ Len(ring) = CleanBudget THEN Len(ring) + 1 ELSE 0 + 1,
                                  Len(ring)), <<s, b>>)
        <5>1. (IF 0 = 0 /\ Len(ring) = CleanBudget THEN Len(ring) + 1 ELSE 0 + 1) = 1
          BY <3>2
        <5> QED BY <2>1, <3>1, <5>1
      <4> QED BY <2>1, <3>2, <4>1
    <3> HIDE DEF Step
    <3> QED BY <3>2, <3>3
  <2>2. CASE /\ Len(ring) = CleanBudget
             /\ \E v \in Victims(tab) :
                 LET e == ring[v]
                     frees == v > 0 /\ InTable(tab, e)
                 IN /\ ring' = Append(SubSeq(ring, IF v = 0 THEN Len(ring) + 1 ELSE v + 1,
                                             Len(ring)), <<s, b>>)
                    /\ state' = IF frees THEN [tab EXCEPT ![e[1]][e[2]] = "absent"] ELSE tab
                    /\ block' = IF frees THEN Freed(blk, e) ELSE blk
    <3>1. PICK v \in Victims(tab) :
            /\ ring' = Append(SubSeq(ring, IF v = 0 THEN Len(ring) + 1 ELSE v + 1, Len(ring)), <<s, b>>)
            /\ state' = IF Frees(v) THEN [tab EXCEPT ![ring[v][1]][ring[v][2]] = "absent"] ELSE tab
            /\ block' = IF Frees(v) THEN [blk EXCEPT ![ring[v][1]][ring[v][2]] = Null] ELSE blk
      BY <2>2 DEF Freed
    <3>2. v \in 0 .. Len(ring)
      BY DEF Victims
    <3> HIDE DEF Frees, s, b, tab, blk
    <3>3. Step(v)
      <4>1. ring' = Append(SubSeq(ring, IF v = 0 /\ Len(ring) = CleanBudget THEN Len(ring) + 1 ELSE v + 1,
                                  Len(ring)), <<s, b>>)
        BY <2>2, <3>1
      <4> QED BY <2>2, <3>1, <4>1
    <3> HIDE DEF Step
    <3> QED BY <3>2, <3>3
  <2> QED BY <2>1, <2>2 DEF PlaceBlock
<1> HIDE DEF s, b, tab, blk
<1>6. PICK v \in 0 .. Len(ring) : Step(v)
  BY <1>5
<1> DEFINE drop == IF v = 0 /\ Len(ring) = CleanBudget THEN Len(ring) ELSE v
<1>7. /\ ring \in Seq(Entries) /\ Len(ring) \in Nat /\ Len(ring) <= CleanBudget
      /\ CleanBudget \in Nat \ {0} /\ <<s, b>> \in Entries
      /\ v \in Nat /\ drop \in Nat /\ drop <= Len(ring)
  BY <1>2, <1>6, Sizes, LenProperties DEF IInv, TypeOK, Entries
<1>8. ring' = Shifted(ring, drop, <<s, b>>)
  BY <1>6 DEF Shifted
<1>9. /\ ring' \in Seq(Entries) /\ Len(ring') = Len(ring) - drop + 1
      /\ ring'[Len(ring')] = <<s, b>>
      /\ \A i \in 1 .. Len(ring) : i > drop => i - drop \in 1 .. Len(ring') /\ ring'[i - drop] = ring[i]
  <2> HIDE DEF drop
  <2>1. ring \in Seq(Entries) /\ drop \in Nat /\ drop <= Len(ring) /\ <<s, b>> \in Entries
    BY <1>7
  <2> QED BY ONLY <1>8, <2>1, RingShifted
<1>10. Len(ring') <= CleanBudget
  <2>1. Len(ring) < CleanBudget \/ drop >= 1
    <3>1. CASE Len(ring) < CleanBudget
      BY <3>1
    <3>2. CASE Len(ring) = CleanBudget /\ v = 0
      BY <1>7, <3>2
    <3>3. CASE v # 0
      BY <1>7, <3>3
    <3> QED BY <1>6, <3>1, <3>2, <3>3
  <2> HIDE DEF drop, Step
  <2> QED BY <1>7, <1>9, <2>1
<1>11. Frees(v) => /\ ring[v][1] \in Slots /\ ring[v][2] \in Blocks(file[ring[v][1]])
                   /\ tab[ring[v][1]][ring[v][2]] = "clean"
                   /\ v \in Victims(tab) /\ ring[v] = <<ring[v][1], ring[v][2]>>
  <2> SUFFICES ASSUME Frees(v) PROVE /\ ring[v][1] \in Slots /\ ring[v][2] \in Blocks(file[ring[v][1]])
                   /\ tab[ring[v][1]][ring[v][2]] = "clean"
                   /\ v \in Victims(tab) /\ ring[v] = <<ring[v][1], ring[v][2]>>
    OBVIOUS
  <2>1. v \in 1 .. Len(ring) /\ v \in Victims(tab)
    BY <1>6, <1>7
  <2>2. ring[v] \in Entries
    BY <1>7, <2>1, ElementOfSeq
  <2>3. ring[v][1] \in Slots /\ ring[v] = <<ring[v][1], ring[v][2]>>
    BY <2>2 DEF Entries
  <2>4. MayLookClean(tab, ring[v])
    BY <1>7, <2>1 DEF Victims
  <2> QED BY <1>4, <2>1, <2>3, <2>4 DEF MayLookClean, InTable
<1>12. /\ DOMAIN state' = Slots /\ DOMAIN block' = Slots
       /\ \A x \in Slots : /\ state'[x] \in [Blocks(file[x]) -> BlkStates]
                           /\ block'[x] \in [Blocks(file[x]) -> Content \cup {Null}]
       /\ \A x \in Slots : \A c \in Blocks(file[x]) :
            IF Frees(v) /\ ring[v] = <<x, c>>
            THEN state'[x][c] = "absent" /\ block'[x][c] = Null
            ELSE state'[x][c] = tab[x][c] /\ block'[x][c] = blk[x][c]
  <2>1. CASE Frees(v)
    <3> DEFINE x == ring[v][1]
               c == ring[v][2]
    <3>1. x \in Slots /\ c \in Blocks(file[x]) /\ ring[v] = <<x, c>>
      BY <1>11, <2>1
    <3>2. state' = [tab EXCEPT ![x][c] = "absent"] /\ block' = [blk EXCEPT ![x][c] = Null]
      BY <1>6, <2>1, <3>1
    <3> HIDE DEF x, c
    <3>3. /\ DOMAIN state' = Slots /\ DOMAIN block' = Slots
          /\ state'[x] = [tab[x] EXCEPT ![c] = "absent"] /\ block'[x] = [blk[x] EXCEPT ![c] = Null]
          /\ \A y \in Slots \ {x} : state'[y] = tab[y] /\ block'[y] = blk[y]
      BY <1>4, <3>1, <3>2
    <3> HIDE DEF Frees
    <3>4. /\ state'[x] \in [Blocks(file[x]) -> BlkStates]
          /\ block'[x] \in [Blocks(file[x]) -> Content \cup {Null}]
          /\ state'[x][c] = "absent" /\ block'[x][c] = Null
          /\ \A y \in Blocks(file[x]) \ {c} : state'[x][y] = tab[x][y] /\ block'[x][y] = blk[x][y]
      BY <1>4, <3>1, <3>3 DEF BlkStates
    <3>5. \A y \in Slots : /\ state'[y] \in [Blocks(file[y]) -> BlkStates]
                            /\ block'[y] \in [Blocks(file[y]) -> Content \cup {Null}]
      BY <1>4, <3>3, <3>4
    <3>6. ASSUME NEW y \in Slots, NEW z \in Blocks(file[y])
          PROVE  IF ring[v] = <<y, z>>
                 THEN state'[y][z] = "absent" /\ block'[y][z] = Null
                 ELSE state'[y][z] = tab[y][z] /\ block'[y][z] = blk[y][z]
      <4>1. CASE y = x /\ z = c
        BY <3>1, <3>4, <4>1
      <4>2. CASE y = x /\ z # c
        BY <3>1, <3>4, <4>2
      <4>3. CASE y # x
        BY <3>1, <3>3, <4>3
      <4> QED BY <4>1, <4>2, <4>3
    <3> QED BY <2>1, <3>3, <3>5, <3>6
  <2>2. CASE ~Frees(v)
    BY <1>4, <1>6, <2>2
  <2> QED BY <2>1, <2>2
<1>13. DataType' /\ CleanInv'
  <2>1. SourceBlock(file[s], b) \in Content
    BY <1>2, <1>3, SourceType DEF s, b
  <2>2. \A x \in Slots : \A c \in Blocks(file[x]) :
            \/ state'[x][c] = state[x][c] /\ block'[x][c] = block[x][c]
            \/ state'[x][c] = "absent" /\ block'[x][c] = Null
            \/ /\ state'[x][c] = "clean" /\ block'[x][c] \in Content
               /\ block'[x][c] = SourceBlock(file[x], c)
    <3> SUFFICES ASSUME NEW x \in Slots, NEW c \in Blocks(file[x])
                 PROVE  \/ state'[x][c] = state[x][c] /\ block'[x][c] = block[x][c]
                        \/ state'[x][c] = "absent" /\ block'[x][c] = Null
                        \/ /\ state'[x][c] = "clean" /\ block'[x][c] \in Content
                           /\ block'[x][c] = SourceBlock(file[x], c)
      OBVIOUS
    <3> HIDE DEF Frees
    <3>1. CASE <<x, c>> = <<s, b>>
      BY <1>4, <1>12, <2>1, <3>1
    <3>2. CASE <<x, c>> # <<s, b>>
      BY <1>4, <1>12, <3>2
    <3> QED BY <3>1, <3>2
  <2>3. UNCHANGED file /\ pinned' \subseteq Entries
    BY <1>1 DEF IInv, TypeOK
  <2> QED BY <1>9, <1>10, <1>12, <2>2, <2>3, TablesKeep, Parts
<1>14. CleanIsEvictable'
  <2> SUFFICES ASSUME NEW x \in Slots, NEW c \in DOMAIN state'[x],
                      state'[x][c] = "clean", <<x, c>> \notin pinned
               PROVE  \E i \in 1 .. Len(ring') : ring'[i] = <<x, c>>
    BY <1>1 DEF CleanIsEvictable
  <2>1. c \in Blocks(file[x]) /\ c \in DOMAIN state[x]
    BY <1>12 DEF IInv, TypeOK
  <2>2. CASE <<x, c>> = <<s, b>>
    BY <1>7, <1>9, <2>2
  <2>3. CASE <<x, c>> # <<s, b>>
    <3>1. /\ ~(Frees(v) /\ ring[v] = <<x, c>>)
          /\ tab[x][c] = "clean" /\ state[x][c] = "clean"
      <4> HIDE DEF Frees
      <4> QED BY <1>4, <1>12, <2>1, <2>3
    <3>2. PICK i \in 1 .. Len(ring) : ring[i] = <<x, c>>
      BY <2>1, <3>1 DEF IInv, CleanIsEvictable
    <3>3. InTable(tab, ring[i]) /\ StillClean(tab, ring[i])
      BY <1>4, <2>1, <3>1, <3>2 DEF StillClean, InTable
    <3>4. i > drop
      <4>1. CASE v \in Victims(tab)
        <5>1. v # 0 /\ i >= v
          BY <1>7, <3>2, <3>3, <4>1 DEF Victims
        <5>2. i # v
          <6> SUFFICES ASSUME i = v PROVE FALSE
            OBVIOUS
          <6>1. v > 0
            BY <1>7, <5>1
          <6> QED BY <3>1, <3>2, <3>3, <6>1
        <5> QED BY <1>7, <5>1, <5>2
      <4>2. CASE Len(ring) < CleanBudget /\ v = 0
        BY <1>7, <3>2, <4>2
      <4> QED BY <1>6, <4>1, <4>2
    <3> QED BY <1>9, <3>2, <3>4
  <2> QED BY <2>2, <2>3
<1>15. /\ run' \in Run /\ run'.slot = run.slot /\ run'.idx = run.idx /\ run'.n = run.n
       /\ run'.k = run.k + 1
  BY <1>1, <1>2 DEF Run
<1>16. RunInv'
  <2>1. /\ run.slot = req[owner].slot /\ run.idx = At(req[owner]) /\ owner # NoThread
        /\ req[owner].moved < req[owner].len
        /\ \A c \in run.idx + run.k .. run.idx + run.n - 1 :
                c \in Blocks(file[s]) /\ state[s][c] = "absent"
    BY <1>1 DEF IInv, RunInv, s
  <2>2. \A c \in run.idx + run.k + 1 .. run.idx + run.n - 1 :
            /\ c \in run.idx + run.k .. run.idx + run.n - 1 /\ c # b
    BY <1>2 DEF b
  <2>3. \A c \in run.idx + run.k + 1 .. run.idx + run.n - 1 :
            c \in Blocks(file[s]) /\ state'[s][c] = "absent"
    <3> SUFFICES ASSUME NEW c \in run.idx + run.k + 1 .. run.idx + run.n - 1
                 PROVE  c \in Blocks(file[s]) /\ state'[s][c] = "absent"
      OBVIOUS
    <3>1. c \in Blocks(file[s]) /\ state[s][c] = "absent" /\ c # b
      BY <2>1, <2>2
    <3>2. tab[s][c] = "absent"
      BY <1>2, <1>4, <3>1 DEF s
    <3> HIDE DEF Frees
    <3> QED BY <1>2, <1>12, <3>1, <3>2 DEF s
  <2>4. run'.k <= run'.n
    BY <1>1, <1>2, <1>15
  <2>5. run'.idx + run'.k = run.idx + run.k + 1
    BY <1>2, <1>15
  <2> QED BY <1>1, <1>15, <2>1, <2>3, <2>4, <2>5 DEF RunInv, At, s
<1>17. HeaderInv' /\ CallType' /\ LockIsHeldExactlyInside' /\ ReqInv'
  BY <1>1, <1>15 DEF IInv, TypeOK, HeaderInv, CallType, LockIsHeldExactlyInside, ReqInv, Busy
<1>18. SessionKept
  <2> SUFFICES ASSUME NEW x \in Slots, NEW c \in Blocks(file[x]),
                      "dirty" \in {state[x][c], state'[x][c]}
               PROVE  state'[x][c] = state[x][c] /\ block'[x][c] = block[x][c]
    BY DEF SessionKept
  <2>1. <<x, c>> # <<s, b>>
    <3> SUFFICES ASSUME x = s, c = b PROVE FALSE
      OBVIOUS
    <3> HIDE DEF Frees
    <3> QED BY <1>3, <1>4, <1>12 DEF s, b
  <2>2. ~(Frees(v) /\ ring[v] = <<x, c>>)
    <3> SUFFICES ASSUME Frees(v), ring[v] = <<x, c>> PROVE FALSE
      OBVIOUS
    <3>1. tab[x][c] = "clean" /\ state'[x][c] = "absent"
      BY <1>11, <1>12
    <3>2. tab[x][c] = state[x][c]
      BY <1>4, <2>1
    <3> QED BY <3>1, <3>2
  <2> HIDE DEF Frees
  <2> QED BY <1>4, <1>12, <2>1, <2>2
<1> QED BY <1>13, <1>14, <1>16, <1>17, <1>18, PartsNext DEF DataInv, CallInv

----------------------------------------------------------------------------
(* The invariant *)

\* The invariant holds at the start.
LEMMA InitHolds == Init => IInv
<1> SUFFICES ASSUME Init PROVE IInv
  OBVIOUS
<1> USE DEF Init
<1>1. \A t \in Threads : req[t] = NoReq /\ ~Busy(t) /\ req[t].st # "running"
  BY DEF NoReq, Busy
<1>2. \A s \in Slots : Blocks(file[s]) = {} /\ DOMAIN state[s] = {}
  BY DEF Blocks
<1>3. TypeOK
  <2>1. <<>> \in Seq(Entries) /\ Len(<<>>) = 0 /\ \A T : <<>> \in [{} -> T]
    OBVIOUS
  <2> QED BY <1>2, <2>1, Sizes DEF TypeOK
<1>4. LockIsHeldExactlyInside /\ ReqInv /\ RunInv
  BY <1>1, NameAssumption DEF LockIsHeldExactlyInside, ReqInv, RunInv
<1>5. HeaderInv /\ CleanInv /\ CleanIsEvictable
  BY <1>2 DEF HeaderInv, CleanInv, CleanIdenticalToSource, CleanIsEvictable
<1> QED BY <1>3, <1>4, <1>5 DEF IInv

\* Every step keeps the invariant.
LEMMA StepHolds == IInv /\ [Next]_vars => IInv'
<1> SUFFICES ASSUME IInv, [Next]_vars PROVE IInv'
  OBVIOUS
<1>1. ASSUME NEW s \in Slots, NEW f \in Files, Register(s, f) PROVE IInv'
  BY <1>1, RegisterKeeps
<1>2. ASSUME NEW s \in Slots, Unregister(s) PROVE IInv'
  BY <1>2, UnregisterKeeps
<1>3. ASSUME NEW s \in Slots, BeginPreload(s) PROVE IInv'
  BY <1>3, HeaderKeeps
<1>4. ASSUME NEW h \in header, Preload(h) PROVE IInv'
  BY <1>4, PreloadKeeps
<1>5. ASSUME NEW h \in header, PreloadFails(h) PROVE IInv'
  BY <1>5, HeaderKeeps
<1>6. CASE Page
  BY <1>1, <1>2, <1>3, <1>4, <1>5, <1>6 DEF Page
<1>7. ASSUME NEW t \in Threads, Requests(t) PROVE IInv'
  <2>1. ASSUME NEW s \in Slots, NEW a \in Asks[t], NEW val \in Values,
               Begin(t, a[1], s, a[2], a[3], val)
        PROVE  IInv'
    BY <2>1, BeginKeeps
  <2>2. CASE Return(t)
    BY <2>2, ReturnKeeps
  <2>3. CASE Lock(t)
    BY <2>3, LockKeeps
  <2>4. CASE Done(t)
    BY <2>4, FinishKeeps DEF Done
  <2>5. CASE Transfer(t)
    BY <2>5, TransferKeeps
  <2>6. CASE FetchFails(t)
    BY <2>6, FinishKeeps DEF FetchFails, NeedsBlock
  <2>7. CASE FetchOk(t)
    BY <2>7, FetchKeeps
  <2>8. CASE PlaceBlock(t)
    BY <2>8, PlaceKeeps
  <2>9. CASE OutOfMemory(t)
    BY <2>9, OutOfMemoryKeeps
  <2>10. CASE EndFault(t)
    BY <2>10, EndFaultKeeps
  <2> QED BY <1>7, <2>1, <2>2, <2>3, <2>4, <2>5, <2>6, <2>7, <2>8, <2>9, <2>10 DEF Requests
<1>8. CASE UNCHANGED vars
  <2>1. DataInv' /\ HeaderInv'
    BY <1>8, DataKept, Parts DEF vars, data, HeaderInv
  <2>2. CallInv'
    BY <1>8, CallsKept, Parts DEF vars, CallInv, CallType
  <2> QED BY <2>1, <2>2, PartsNext
<1> QED BY <1>6, <1>7, <1>8 DEF Next

\* The inductive invariant holds in every state the engine reaches.
THEOREM Inductive == Spec => []IInv
  BY InitHolds, StepHolds, PTL DEF Spec

----------------------------------------------------------------------------
(* What the engine promises *)

\* Every variable of the engine keeps its type, and a block has data exactly if it is
\* resident: wasm-diskio.c never hands out a block it has freed.
THEOREM TypeCorrect == Spec => []TypeOK
  BY Inductive, PTL DEF IInv

\* table_mutex is released on every way out of diskio_rw, and whoever is inside holds it.
THEOREM LockCorrect == Spec => []LockIsHeldExactlyInside
  BY Inductive, PTL DEF IInv

\* Every clean block outside the preloaded header is in clean_ring, for eviction to find:
\* whatever stale and repeated entries slots in reuse have left there.
THEOREM CleanStaysEvictable == Spec => []CleanIsEvictable
  BY Inductive, PTL DEF IInv

\* A clean block is its source's, as wasm_diskio_block_state promises, if the page does
\* not free a slot whose header it is still reading.
THEOREM CleanIsSource == ~OverlappedUI => (Spec => []CleanIdenticalToSource)
<1>1. ~OverlappedUI => (IInv => CleanIdenticalToSource)
  BY DEF IInv, CleanInv
<1>2. CASE OverlappedUI
  BY <1>2
<1>3. CASE ~OverlappedUI
  <2>1. IInv => CleanIdenticalToSource
    BY <1>1, <1>3
  <2> QED BY <2>1, Inductive, PTL
<1> QED BY <1>2, <1>3, SizeAssumption

\* A step changes written blocks only by writing them again, or freeing their slot.
LEMMA DirtyKept ==
    ASSUME IInv, [Next]_vars, NEW s \in Slots, NEW b \in DOMAIN state[s],
           state[s][b] = "dirty", file'[s] # NoFile
    PROVE  /\ state'[s][b] = "dirty"
           /\ \A o \in Offsets : block[s][b][o].from = Guest => block'[s][b][o].from = Guest
<1>1. b \in Blocks(file[s]) /\ file[s] # NoFile
  BY DEF IInv, TypeOK, Blocks
<1>2. CASE SessionKept
  BY <1>1, <1>2 DEF SessionKept
<1>3. CASE state' = state /\ block' = block
  BY <1>3
<1>4. ASSUME NEW x \in Slots, NEW f \in Files, Register(x, f)
      PROVE  state'[s] = state[s] /\ block'[s] = block[s]
  BY <1>1, <1>4 DEF Register, IInv, TypeOK
<1>5. ASSUME NEW x \in Slots, Unregister(x)
      PROVE  state'[s] = state[s] /\ block'[s] = block[s]
  BY <1>1, <1>5 DEF Unregister, IInv, TypeOK
<1>6. ASSUME NEW t \in Threads, Transfer(t)
      PROVE  /\ state'[s][b] = "dirty"
             /\ \A o \in Offsets : block[s][b][o].from = Guest => block'[s][b][o].from = Guest
  <2> DEFINE x == req[t].slot
             c == At(req[t])
             Hit(o) == o >= From(req[t]) /\ o < From(req[t]) + Chunk(req[t])
             put == [from |-> Guest, at |-> req[t].val]
  <2>1. CASE state' = state /\ block' = block
    BY <2>1
  <2>2. CASE /\ block' = [block EXCEPT ![x][c] = [o \in Offsets |-> IF Hit(o) THEN put ELSE @[o]]]
             /\ state' = [state EXCEPT ![x][c] = "dirty"]
    <3>1. put.from = Guest
      OBVIOUS
    <3> HIDE DEF x, c, Hit, put
    <3>2. CASE s = x /\ b = c
      <4>1. state'[s][b] = "dirty"
        BY <1>1, <2>2, <3>2 DEF IInv, TypeOK
      <4>2. block'[s][b] = [o \in Offsets |-> IF Hit(o) THEN put ELSE block[s][b][o]]
        BY <1>1, <2>2, <3>2 DEF IInv, TypeOK
      <4> QED BY <3>1, <4>1, <4>2
    <3>3. CASE ~(s = x /\ b = c)
      BY <1>1, <2>2, <3>3 DEF IInv, TypeOK
    <3> QED BY <3>2, <3>3
  <2> QED BY <1>6, <2>1, <2>2 DEF Transfer, AfterWrite
<1>7. CASE Page
  BY <1>3, <1>4, <1>5, <1>2, <1>7, PreloadKeeps DEF Page, BeginPreload, PreloadFails
<1>8. ASSUME NEW t \in Threads, Requests(t)
      PROVE  Transfer(t) \/ PlaceBlock(t) \/ (state' = state /\ block' = block)
  BY <1>8 DEF Requests, Begin, Return, Lock, Done, Finish, FetchFails, FetchOk, OutOfMemory, EndFault
<1>9. CASE \E t \in Threads : Requests(t)
  BY <1>2, <1>3, <1>6, <1>8, <1>9, PlaceKeeps
<1>10. CASE UNCHANGED vars
  BY <1>3, <1>10 DEF vars
<1> QED BY <1>7, <1>9, <1>10 DEF Next

\* Copy on write: what the guest wrote stays until its slot is unregistered, whatever is
\* faulted in, evicted or preloaded meanwhile.
THEOREM DirtyStaysPinned == Spec => DirtyIsPinned
<1>1. IInv /\ [Next]_vars =>
        [\A s \in Slots : \A b \in DOMAIN state[s] :
            (state[s][b] = "dirty" /\ file'[s] # NoFile) =>
                /\ state'[s][b] = "dirty"
                /\ \A o \in Offsets : block[s][b][o].from = Guest => block'[s][b][o].from = Guest]_vars
  BY DirtyKept
<1> QED BY <1>1, Inductive, PTL DEF Spec, DirtyIsPinned

----------------------------------------------------------------------------
(* The engine implements CowDisk *)

\* What CowDisk sees of the engine.
disks == [s \in Slots |-> Overlay(s)]
CallOf(t) == IF req[t].st = "running" THEN [req[t] EXCEPT !.st = "waiting"] ELSE req[t]
calls == [t \in Threads |-> CallOf(t)]

\* A session copy has exactly the sectors of its source, and each of them lies in a block.
LEMMA OverlayDomain ==
    ASSUME IInv, NEW s \in Slots
    PROVE  /\ file[s] = NoFile => Overlay(s) = <<>>
           /\ file[s] # NoFile =>
                /\ DOMAIN Overlay(s) = 0 .. Sectors[file[s]] - 1
                /\ Overlay(s) # <<>>
                /\ \A i \in 0 .. Sectors[file[s]] - 1 :
                    /\ i \div BlockSectors \in Blocks(file[s])
                    /\ i \div BlockSectors \in DOMAIN state[s]
                    /\ i % BlockSectors \in Offsets
                    /\ i = (i \div BlockSectors) * BlockSectors + (i % BlockSectors)
<1>1. CASE file[s] = NoFile
  BY <1>1 DEF Overlay
<1>2. CASE file[s] # NoFile
  <2>1. file[s] \in Files /\ Sectors[file[s]] \in Nat \ {0}
    BY <1>2, Sizes DEF IInv, TypeOK
  <2>2. DOMAIN Overlay(s) = 0 .. Sectors[file[s]] - 1
    BY <1>2 DEF Overlay
  <2>3. Overlay(s) # <<>>
    <3>1. 0 \in DOMAIN Overlay(s) /\ DOMAIN <<>> = {}
      BY <2>1, <2>2
    <3> QED BY <3>1
  <2>4. DOMAIN state[s] = Blocks(file[s])
    BY DEF IInv, TypeOK
  <2> QED BY <1>2, <2>1, <2>2, <2>3, <2>4, BlockOf
<1> QED BY <1>1, <1>2

\* A resident block holds what the session copy has in its sectors.
LEMMA OverlayRead ==
    ASSUME IInv, ~OverlappedUI, NEW s \in Slots, file[s] # NoFile,
           NEW i \in 0 .. Sectors[file[s]] - 1, state[s][i \div BlockSectors] # "absent"
    PROVE  Overlay(s)[i] = block[s][i \div BlockSectors][i % BlockSectors]
<1> DEFINE q == i \div BlockSectors
           o == i % BlockSectors
<1>1. /\ q \in Blocks(file[s]) /\ q \in DOMAIN state[s] /\ o \in Offsets
      /\ i = q * BlockSectors + o
  BY OverlayDomain
<1>2. Overlay(s)[i] = IF state[s][q] = "dirty" THEN block[s][q][o] ELSE SourceSector(file[s], i)
  BY DEF Overlay
<1> HIDE DEF q, o
<1>3. CASE state[s][q] = "clean"
  <2>1. block[s][q] = SourceBlock(file[s], q)
    BY <1>1, <1>3 DEF IInv, CleanInv, CleanIdenticalToSource
  <2>2. block[s][q][o] = SourceSector(file[s], q * BlockSectors + o)
    BY <1>1, <2>1 DEF SourceBlock
  <2>3. SourceSector(file[s], q * BlockSectors + o) = SourceSector(file[s], i)
    BY <1>1
  <2> QED BY <1>2, <1>3, <2>2, <2>3 DEF q, o
<1>4. state[s][q] \in BlkStates
  BY <1>1 DEF IInv, TypeOK
<1> QED BY <1>2, <1>3, <1>4 DEF BlkStates, q, o

\* Filling and freeing blocks that are not written is invisible.
LEMMA OverlayKept ==
    ASSUME IInv, SessionKept, UNCHANGED file
    PROVE  UNCHANGED disks
<1> SUFFICES ASSUME NEW s \in Slots PROVE Overlay(s)' = Overlay(s)
  BY DEF disks
<1>1. CASE file[s] = NoFile
  BY <1>1 DEF Overlay
<1>2. CASE file[s] # NoFile
  <2>1. \A i \in 0 .. Sectors[file[s]] - 1 : i \div BlockSectors \in Blocks(file[s])
    BY <1>2, OverlayDomain
  <2>2. \A b \in Blocks(file[s]) : \/ state'[s][b] = state[s][b] /\ block'[s][b] = block[s][b]
                                   \/ state[s][b] # "dirty" /\ state'[s][b] # "dirty"
    BY DEF SessionKept
  <2> QED BY <1>2, <2>1, <2>2 DEF Overlay
<1> QED BY <1>1, <1>2

\* Nothing CowDisk sees changes.
LEMMA Stutters ==
    ASSUME UNCHANGED disks, UNCHANGED <<req, owner>>
    PROVE  UNCHANGED Promise!vars
  BY DEF Promise!vars, disks, calls, CallOf

\* At the start nothing is attached and nobody asks.
LEMMA InitRefines == Init => Promise!Init
<1> SUFFICES ASSUME Init PROVE Promise!Init
  OBVIOUS
<1>1. disks = [s \in Slots |-> <<>>]
  BY DEF Init, disks, Overlay
<1>2. calls = [t \in Threads |-> [st |-> "none"]]
  BY DEF Init, calls, CallOf, NoReq
<1> QED BY <1>1, <1>2 DEF Init, Promise!Init, Promise!NoCall, disks, calls, CallOf

\* Registering a source attaches a pristine copy of it.
LEMMA RegisterRefines ==
    ASSUME IInv, NEW s \in Slots, NEW f \in Files, Register(s, f)
    PROVE  Promise!Attach(s, f)
<1>1. /\ file[s] = NoFile /\ file'[s] = f /\ state'[s] = [b \in Blocks(f) |-> "absent"]
      /\ \A r \in Slots \ {s} : file'[r] = file[r] /\ state'[r] = state[r] /\ block'[r] = block[r]
      /\ UNCHANGED <<req, owner>>
  BY DEF IInv, TypeOK, Register
<1>2. f # NoFile /\ Overlay(s) = <<>>
  BY <1>1, NameAssumption DEF Overlay
<1>3. Overlay(s)' = Promise!Pristine(f)
  <2>1. \A i \in 0 .. Sectors[f] - 1 : i \div BlockSectors \in Blocks(f)
    BY BlockOf, Sizes
  <2>2. \A i \in 0 .. Sectors[f] - 1 : state'[s][i \div BlockSectors] # "dirty"
    BY <1>1, <2>1
  <2>3. \A i \in 0 .. Sectors[f] - 1 : SourceSector(f, i) = [from |-> f, at |-> i]
    BY Sizes DEF SourceSector
  <2> QED BY <1>1, <1>2, <2>2, <2>3 DEF Overlay, Promise!Pristine
<1>4. \A r \in Slots \ {s} : Overlay(r)' = Overlay(r)
  BY <1>1 DEF Overlay
<1>5. disks[s] = <<>> /\ disks' = [disks EXCEPT ![s] = Promise!Pristine(f)]
  BY <1>2, <1>3, <1>4 DEF disks
<1>6. UNCHANGED calls
  BY <1>1 DEF calls, CallOf
<1> QED BY <1>1, <1>5, <1>6 DEF Promise!Attach, disks, calls, CallOf

\* Unregistering detaches the copy, while no request is being served on it.
LEMMA UnregisterRefines ==
    ASSUME IInv, NEW s \in Slots, Unregister(s)
    PROVE  Promise!Detach(s)
<1>1. /\ file[s] # NoFile /\ file'[s] = NoFile
      /\ \A r \in Slots \ {s} : file'[r] = file[r] /\ state'[r] = state[r] /\ block'[r] = block[r]
      /\ UNCHANGED <<req, owner>>
  BY DEF IInv, TypeOK, Unregister
<1>2. disks[s] # <<>> /\ Overlay(s)' = <<>>
  BY <1>1, OverlayDomain DEF disks, Overlay
<1>3. \A r \in Slots \ {s} : Overlay(r)' = Overlay(r)
  BY <1>1 DEF Overlay
<1>4. disks' = [disks EXCEPT ![s] = <<>>]
  BY <1>2, <1>3 DEF disks
<1>5. \A t \in Threads : calls[t].st = "waiting" => calls[t].slot # s
  <2> SUFFICES ASSUME NEW t \in Threads, CallOf(t).st = "waiting" PROVE CallOf(t).slot # s
    BY DEF calls
  <2>1. Busy(t)
    BY DEF CallOf, Busy
  <2>2. req[t] \in Request /\ req[t].slot # s
    BY <2>1, BusyIsRequest DEF IInv, Unregister
  <2>3. CallOf(t).slot = req[t].slot
    BY <2>2 DEF CallOf, Request
  <2> QED BY <2>2, <2>3
<1>6. UNCHANGED calls
  BY <1>1 DEF calls, CallOf
<1> QED BY <1>1, <1>2, <1>4, <1>5, <1>6 DEF Promise!Detach, disks, calls, CallOf

\* A call is in CowDisk from when it enters diskio_rw to its answer.
LEMMA BeginRefines ==
    ASSUME IInv, NEW t \in Threads, NEW s \in Slots, NEW a \in Asks[t], NEW val \in Values,
           Begin(t, a[1], s, a[2], a[3], val)
    PROVE  Promise!Request(t, a[1], s, a[2], a[3], val)
<1> DEFINE off == a[2]
           len == a[3]
           fresh == [st |-> "waiting", write |-> a[1], slot |-> s, off |-> off,
                     len |-> len, val |-> val, moved |-> 0, buf |-> <<>>]
           refused == [st |-> "error", buf |-> <<>>]
           Fits == \A i \in off .. off + len - 1 : i \in DOMAIN disks[s]
<1>1. off \in Nat /\ len \in Nat \ {0}
  BY SizeAssumption
<1>2. /\ req[t] = NoReq
      /\ req' = [req EXCEPT ![t] = IF file[s] # NoFile /\ off + len <= Sectors[file[s]]
                                   THEN fresh ELSE refused]
      /\ UNCHANGED <<file, state, block, owner>>
  BY DEF Begin, Answer
<1> HIDE DEF off, len
<1>3. Fits <=> file[s] # NoFile /\ off + len <= Sectors[file[s]]
  <2>1. CASE file[s] = NoFile
    <3>1. disks[s] = <<>>
      BY <2>1, OverlayDomain DEF disks
    <3>2. off \in off .. off + len - 1 /\ off \notin DOMAIN <<>>
      BY <1>1
    <3> QED BY <2>1, <3>1, <3>2
  <2>2. CASE file[s] # NoFile
    <3>1. Sectors[file[s]] \in Nat \ {0} /\ DOMAIN disks[s] = 0 .. Sectors[file[s]] - 1
      BY <2>2, OverlayDomain, Sizes DEF disks, IInv, TypeOK
    <3>2. off + len - 1 \in off .. off + len - 1
      BY <1>1
    <3> QED BY <1>1, <2>2, <3>1, <3>2
  <2> QED BY <2>1, <2>2
<1> HIDE DEF Fits
<1>4. calls[t] = [st |-> "none"]
  BY <1>2 DEF calls, CallOf, NoReq
<1>5. calls' = [calls EXCEPT ![t] = IF Fits THEN fresh ELSE refused]
  <2> DEFINE new == IF Fits THEN fresh ELSE refused
  <2>1. req'[t] = new /\ \A u \in Threads \ {t} : req'[u] = req[u]
    BY <1>2, <1>3 DEF IInv, TypeOK
  <2>2. new.st # "running"
    BY DEF fresh, refused
  <2> HIDE DEF new, fresh, refused
  <2>3. CallOf(t)' = new /\ \A u \in Threads \ {t} : CallOf(u)' = CallOf(u)
    BY <2>1, <2>2 DEF CallOf
  <2>4. calls' = [calls EXCEPT ![t] = new]
    BY <2>3 DEF calls
  <2> QED BY <2>4 DEF new
<1>6. UNCHANGED <<disks, owner>>
  BY <1>2 DEF disks, Overlay
<1> QED BY <1>4, <1>5, <1>6 DEF Promise!Request, Promise!Reply, Promise!NoCall, disks, calls, CallOf,
           Fits, off, len

\* What a change of one request is to CowDisk.
LEMMA CallChanges ==
    ASSUME NEW t \in Threads, DOMAIN req = Threads, NEW r, req' = [req EXCEPT ![t] = r]
    PROVE  calls' = [calls EXCEPT ![t] = IF r.st = "running" THEN [r EXCEPT !.st = "waiting"] ELSE r]
<1> DEFINE c == IF r.st = "running" THEN [r EXCEPT !.st = "waiting"] ELSE r
<1>1. req'[t] = r /\ \A u \in Threads \ {t} : req'[u] = req[u]
  OBVIOUS
<1>2. CallOf(t)' = c /\ \A u \in Threads \ {t} : CallOf(u)' = CallOf(u)
  BY <1>1 DEF CallOf
<1> QED BY <1>2 DEF calls

\* Taking the answer is forgetting the call.
LEMMA ReturnRefines ==
    ASSUME IInv, NEW t \in Threads, Return(t)
    PROVE  Promise!Forget(t)
<1>1. /\ req[t].st \in {"ok", "error"}
      /\ req' = [req EXCEPT ![t] = NoReq] /\ DOMAIN req = Threads
      /\ UNCHANGED <<file, state, block, owner>>
  BY DEF Return, IInv, TypeOK
<1>2. UNCHANGED <<disks, owner>>
  BY <1>1 DEF disks, Overlay
<1>3. calls' = [calls EXCEPT ![t] = NoReq]
  BY <1>1, CallChanges DEF NoReq
<1>4. calls[t].st \in {"ok", "error"}
  BY <1>1 DEF calls, CallOf
<1> QED BY <1>2, <1>3, <1>4 DEF Promise!Forget, Promise!NoCall, NoReq, disks, calls, CallOf

\* Taking table_mutex is being served.
LEMMA LockRefines ==
    ASSUME IInv, NEW t \in Threads, Lock(t)
    PROVE  Promise!Serve(t)
<1>1. /\ req[t].st = "waiting" /\ owner = NoThread /\ owner' = t
      /\ req' = [req EXCEPT ![t].st = "running"] /\ DOMAIN req = Threads
      /\ UNCHANGED <<file, state, block>>
  BY DEF Lock, IInv, TypeOK
<1>2. UNCHANGED disks
  BY <1>1 DEF disks, Overlay
<1>3. CallOf(t) = req[t] /\ req[t] \in Request
  BY <1>1, BusyIsRequest DEF CallOf, Busy, IInv
<1>4. /\ req'[t] = [req[t] EXCEPT !.st = "running"]
      /\ \A u \in Threads \ {t} : req'[u] = req[u]
  BY <1>1
<1>5. /\ req'[t].st = "running"
      /\ [[req[t] EXCEPT !.st = "running"] EXCEPT !.st = "waiting"] = req[t]
  BY <1>1, <1>3, <1>4 DEF Request
<1>6. CallOf(t)' = CallOf(t) /\ \A u \in Threads \ {t} : CallOf(u)' = CallOf(u)
  BY <1>3, <1>4, <1>5 DEF CallOf
<1>7. UNCHANGED calls
  BY <1>6 DEF calls
<1>8. calls[t].st = "waiting"
  BY <1>1, <1>3 DEF calls
<1> QED BY <1>1, <1>2, <1>7, <1>8 DEF Promise!Serve, disks, calls, CallOf

\* Leaving the engine is answering: with success only if all has been moved.
LEMMA FinishRefines ==
    ASSUME IInv, NEW t \in Threads, owner = t, NEW st \in {"ok", "error"}, Finish(t, st),
           st = "ok" <=> req[t].moved = req[t].len
    PROVE  Promise!Answer(t)
<1>1. /\ owner' = NoThread
      /\ req' = [req EXCEPT ![t] = Answer(st, req[t].buf)] /\ DOMAIN req = Threads
      /\ UNCHANGED <<file, state, block>>
  BY DEF Finish, IInv, TypeOK
<1>2. UNCHANGED disks
  BY <1>1 DEF disks, Overlay
<1>3. req[t] \in Request /\ req[t].st = "running"
  BY OwnerRuns
<1>4. /\ calls[t].buf = req[t].buf /\ calls[t].moved = req[t].moved
      /\ calls[t].len = req[t].len
  BY <1>3 DEF calls, CallOf, Request
<1>5. Answer(st, req[t].buf).st # "running"
  BY DEF Answer
<1>6. calls' = [calls EXCEPT ![t] = Answer(st, req[t].buf)]
  <2> DEFINE r == Answer(st, req[t].buf)
  <2> HIDE DEF r
  <2> QED BY <1>1, <1>5, CallChanges DEF r
<1>7. calls' = [calls EXCEPT ![t] = Promise!Reply(st, calls[t].buf)]
  BY <1>4, <1>6 DEF Answer, Promise!Reply
<1>8. st = "ok" <=> calls[t].moved = calls[t].len
  BY <1>4
<1> HIDE DEF calls
<1>9. \E x \in {"ok", "error"} : /\ x = "ok" <=> calls[t].moved = calls[t].len
                                 /\ calls' = [calls EXCEPT ![t] = Promise!Reply(x, @.buf)]
  BY <1>7, <1>8
<1> QED BY <1>1, <1>2, <1>9 DEF Promise!Answer, disks, calls, CallOf

\* The sectors of a chunk are those of its block from its offset on.
LEMMA ChunkSectors ==
    ASSUME NEW i \in Nat, NEW b \in Nat, NEW from \in Offsets, NEW n \in Nat,
           from + n <= BlockSectors
    PROVE  i \in b * BlockSectors + from .. b * BlockSectors + from + n - 1
           <=> /\ i \div BlockSectors = b
               /\ i % BlockSectors >= from /\ i % BlockSectors < from + n
<1> DEFINE d == BlockSectors
           q == i \div d
           o == i % d
           base == b * d
<1>1. d \in Nat \ {0} /\ base \in Nat /\ from \in 0 .. d - 1
  BY Sizes DEF Offsets
<1>2. q \in Nat /\ o \in 0 .. d - 1 /\ i = q * d + o
  BY <1>1, Division
<1> HIDE DEF d, q, o
<1>3. ASSUME i \in base + from .. base + from + n - 1
      PROVE  q = b /\ o >= from /\ o < from + n
  <2> DEFINE r == i - base
  <2>1. r \in 0 .. d - 1 /\ i = base + r /\ r >= from /\ r < from + n
    <3> HIDE DEF base
    <3> QED BY <1>1, <1>3 DEF d
  <2> HIDE DEF r
  <2>2. q = b /\ o = r
    BY <1>1, <2>1, DivisionUnique DEF q, o
  <2> QED BY <2>1, <2>2
<1>4. ASSUME q = b, o >= from, o < from + n
      PROVE  i \in base + from .. base + from + n - 1
  <2>1. i = base + o
    BY <1>2, <1>4
  <2> HIDE DEF base
  <2> QED BY <1>1, <1>2, <1>4, <2>1
<1> QED BY <1>3, <1>4 DEF d, q, o

\* Reading a resident block reads the session copy.
LEMMA ReadSees ==
    ASSUME IInv, ~OverlappedUI, NEW s \in Slots, file[s] # NoFile, NEW b \in Nat, NEW o \in Offsets,
           b * BlockSectors + o < Sectors[file[s]], state[s][b] # "absent"
    PROVE  Overlay(s)[b * BlockSectors + o] = block[s][b][o]
<1> DEFINE j == b * BlockSectors + o
<1>1. BlockSectors \in Nat \ {0} /\ o \in 0 .. BlockSectors - 1 /\ Sectors[file[s]] \in Nat
  BY Sizes DEF Offsets, IInv, TypeOK
<1>2. j \in 0 .. Sectors[file[s]] - 1 /\ j \in Nat
  BY <1>1
<1> HIDE DEF j
<1>3. j = b * BlockSectors + o
  BY DEF j
<1>4. j \div BlockSectors = b /\ j % BlockSectors = o
  <2>1. b \in Int /\ j \in Int /\ BlockSectors \in Nat \ {0} /\ o \in 0 .. BlockSectors - 1
    BY <1>1, <1>2
  <2> QED BY ONLY <1>3, <2>1, DivisionUnique, Zenon
<1>5. Overlay(s)[j] = block[s][b][o]
  BY <1>2, <1>4, OverlayRead
<1> QED BY <1>5 DEF j

\* What Transfer knows of the chunk it moves.
LEMMA ChunkFacts ==
    ASSUME IInv, NEW t \in Threads, Transfer(t)
    PROVE  LET r == req[t] IN
           /\ owner = t /\ r.moved < r.len /\ state[r.slot][At(r)] # "absent"
           /\ Busy(t) /\ r \in Request /\ r.st = "running" /\ r.slot \in Slots
           /\ file[r.slot] \in Files /\ file[r.slot] # NoFile
           /\ At(r) \in Blocks(file[r.slot]) /\ At(r) \in Nat
           /\ From(r) \in Offsets /\ From(r) \in 0 .. BlockSectors - 1
           /\ Chunk(r) \in Nat \ {0} /\ Chunk(r) <= r.len - r.moved
           /\ From(r) + Chunk(r) <= BlockSectors
           /\ r.off + r.moved = At(r) * BlockSectors + From(r)
           /\ r.off \in Nat /\ r.len \in Nat /\ r.moved \in Nat
           /\ r.off + r.len <= Sectors[file[r.slot]] /\ Sectors[file[r.slot]] \in Nat
<1> DEFINE r == req[t]
<1>1. owner = t /\ r.moved < r.len /\ state[r.slot][At(r)] # "absent"
  BY DEF Transfer
<1>2. Busy(t) /\ r \in Request /\ r.st = "running" /\ file[r.slot] \in Files
  BY <1>1, OwnerRuns
<1> HIDE DEF r
<1>3. r.slot \in Slots /\ r.off \in Nat /\ r.len \in Nat /\ r.moved \in Nat
  BY <1>2 DEF Request
<1>4. file[r.slot] # NoFile
  BY <1>2, NameAssumption
<1>5. r.off + r.len <= Sectors[file[r.slot]] /\ Sectors[file[r.slot]] \in Nat
  BY <1>2, Sizes DEF IInv, ReqInv, r
<1> QED BY <1>1, <1>2, <1>3, <1>4, <1>5, ChunkInBlock, Sizes DEF IInv, Offsets, r

\* What the chunk of request r makes of the sectors d of its disk.
Overwritten(d, r) ==
    LET first == r.off + r.moved IN
    [i \in DOMAIN d |-> IF i \in first .. first + Chunk(r) - 1
                        THEN [from |-> Guest, at |-> r.val] ELSE d[i]]

\* Writing to a resident block, which pins it, writes to the session copy.
LEMMA WriteShows ==
    ASSUME IInv, ~OverlappedUI, NEW t \in Threads, Transfer(t), req[t].write,
           NEW s \in Slots, s = req[t].slot
    PROVE  disks' = [disks EXCEPT ![s] = Overwritten(disks[s], req[t])]
<1> DEFINE b == At(req[t])
           from == From(req[t])
           n == Chunk(req[t])
           first == req[t].off + req[t].moved
           put == [from |-> Guest, at |-> req[t].val]
           size == Sectors[file[s]]
           new == [o \in Offsets |-> IF o >= from /\ o < from + n THEN put ELSE block[s][b][o]]
           after == [i \in 0 .. size - 1 |-> IF i \in first .. first + n - 1 THEN put
                                             ELSE Overlay(s)[i]]
<1>1. /\ file[s] # NoFile /\ b \in Blocks(file[s]) /\ from \in Offsets /\ n \in Nat
      /\ from + n <= BlockSectors /\ state[s][b] # "absent" /\ UNCHANGED file
      /\ first = b * BlockSectors + from
      /\ state' = [state EXCEPT ![s][b] = "dirty"]
      /\ block' = [block EXCEPT ![s][b] = new]
  <2>1. UNCHANGED file /\ state' = [state EXCEPT ![s][b] = "dirty"] /\ block' = [block EXCEPT ![s][b] = new]
    BY DEF Transfer, AfterWrite
  <2> HIDE DEF new
  <2> QED BY <2>1, ChunkFacts
<1>2. \A o \in Offsets : new[o] = IF o >= from /\ o < from + n THEN put ELSE block[s][b][o]
  OBVIOUS
<1> HIDE DEF b, from, n, first, put, size, new
<1>3. file[s] \in Files /\ b \in Nat /\ size \in Nat /\ state[s] \in [Blocks(file[s]) -> BlkStates]
  BY <1>1, BlocksAreNat, Sizes DEF IInv, TypeOK, size
<1>4. /\ \A x \in Slots \ {s} : state'[x] = state[x] /\ block'[x] = block[x]
      /\ state'[s] = [state[s] EXCEPT ![b] = "dirty"]
      /\ block'[s] = [block[s] EXCEPT ![b] = new]
      /\ DOMAIN block[s] = Blocks(file[s])
  BY <1>1, <1>3 DEF IInv, TypeOK
<1>5. \A x \in Slots \ {s} : Overlay(x)' = Overlay(x)
  <2>1. file' = file
    BY <1>1
  <2> QED BY ONLY <1>4, <2>1 DEF Overlay
<1>6. Overlay(s)' = [i \in 0 .. size - 1 |->
                        IF state'[s][i \div BlockSectors] = "dirty"
                        THEN block'[s][i \div BlockSectors][i % BlockSectors]
                        ELSE SourceSector(file[s], i)]
  BY <1>1 DEF Overlay, size
<1>7. ASSUME NEW i \in 0 .. size - 1
      PROVE  (IF state'[s][i \div BlockSectors] = "dirty"
              THEN block'[s][i \div BlockSectors][i % BlockSectors]
              ELSE SourceSector(file[s], i))
             = IF i \in first .. first + n - 1 THEN put ELSE Overlay(s)[i]
  <2> DEFINE q == i \div BlockSectors
             o == i % BlockSectors
  <2>1. i \in Nat /\ i \in 0 .. Sectors[file[s]] - 1
    BY <1>3, <1>7 DEF size
  <2>2. q \in Blocks(file[s]) /\ o \in Offsets
    BY <1>1, <2>1, OverlayDomain
  <2>3. i \in first .. first + n - 1 <=> q = b /\ o >= from /\ o < from + n
    BY <1>1, <1>3, <2>1, ChunkSectors
  <2>4. Overlay(s)[i] = IF state[s][q] = "dirty" THEN block[s][q][o] ELSE SourceSector(file[s], i)
    BY <1>1, <2>1 DEF Overlay
  <2>5. state[s][q] # "absent" => Overlay(s)[i] = block[s][q][o]
    BY <1>1, <2>1, OverlayRead
  <2> HIDE DEF q, o
  <2>6. CASE q = b
    <3>1. state'[s][q] = "dirty" /\ block'[s][q] = new
      BY <1>1, <1>3, <1>4, <2>6
    <3>2. new[o] = IF o >= from /\ o < from + n THEN put ELSE block[s][b][o]
      BY <1>2, <2>2
    <3>3. Overlay(s)[i] = block[s][b][o]
      BY <1>1, <2>5, <2>6
    <3>4. block'[s][q][o] = IF i \in first .. first + n - 1 THEN put ELSE Overlay(s)[i]
      BY <2>3, <2>6, <3>1, <3>2, <3>3
    <3> QED BY <3>1, <3>4 DEF q, o
  <2>7. CASE q # b
    <3>1. state'[s][q] = state[s][q] /\ block'[s][q] = block[s][q]
      BY <1>3, <1>4, <2>2, <2>7
    <3> QED BY <2>3, <2>4, <2>7, <3>1 DEF q, o
  <2> QED BY <2>6, <2>7
<1>8. Overlay(s)' = after
  BY <1>6, <1>7
<1>9. disks[s] = Overlay(s) /\ DOMAIN Overlay(s) = 0 .. size - 1
  BY <1>1, OverlayDomain DEF disks, size
<1> HIDE DEF after
<1>10. disks' = [disks EXCEPT ![s] = after]
  BY <1>5, <1>8 DEF disks
<1>11. after = [i \in DOMAIN disks[s] |-> IF i \in first .. first + n - 1 THEN put ELSE disks[s][i]]
  BY <1>9 DEF after
<1> QED BY <1>10, <1>11 DEF first, n, put, Overwritten

\* One pass of the loop moves a chunk between the caller and the session copy.
LEMMA TransferRefines ==
    ASSUME IInv, ~OverlappedUI, NEW t \in Threads, Transfer(t), NEW n, n = Chunk(req[t])
    PROVE  /\ owner = t
           /\ n \in 1 .. calls[t].len - calls[t].moved
           /\ Promise!Move(t, n)
<1> DEFINE r == req[t]
           s == r.slot
           b == At(r)
           from == From(r)
           first == r.off + r.moved
           put == [from |-> Guest, at |-> r.val]
           m == r.moved + n
           c == [r EXCEPT !.st = "waiting"]
<1>1. /\ owner = t /\ UNCHANGED <<file, owner>> /\ DOMAIN req = Threads
      /\ state[s][b] # "absent" /\ r \in Request /\ r.st = "running" /\ file[s] # NoFile
  BY ChunkFacts DEF Transfer, IInv, TypeOK
<1>2. /\ s \in Slots /\ b \in Nat /\ from \in Offsets /\ from \in 0 .. BlockSectors - 1
      /\ n \in Nat \ {0} /\ n <= r.len - r.moved
      /\ from + n <= BlockSectors
      /\ first = b * BlockSectors + from
      /\ r.off \in Nat /\ r.len \in Nat /\ r.moved \in Nat
      /\ BlockSectors \in Nat
      /\ r.off + r.len <= Sectors[file[s]] /\ Sectors[file[s]] \in Nat
  BY ChunkFacts, Sizes
<1>3. first \in Nat /\ first + n <= Sectors[file[s]]
  BY <1>2
<1>4. \/ /\ ~r.write /\ UNCHANGED <<state, block>>
         /\ req' = [req EXCEPT ![t].moved = @ + n,
                               ![t].buf = @ \o [i \in 1 .. n |-> block[s][b][from + i - 1]]]
      \/ /\ r.write
         /\ block' = [block EXCEPT ![s][b] =
                [o \in Offsets |-> IF o >= from /\ o < from + n THEN put ELSE @[o]]]
         /\ state' = [state EXCEPT ![s][b] = "dirty"]
         /\ req' = [req EXCEPT ![t].moved = @ + n]
  BY DEF Transfer, AfterWrite
<1> HIDE DEF r, s, b, from, first, put, m
<1>5. /\ calls[t] = c
      /\ c.st = "waiting" /\ c.write = r.write /\ c.slot = s
      /\ c.off = r.off /\ c.len = r.len /\ c.val = r.val
      /\ c.moved = r.moved /\ c.buf = r.buf
  BY <1>1 DEF calls, CallOf, r, s, Request
<1>6. n \in 1 .. calls[t].len - calls[t].moved
  BY <1>2, <1>5
<1>7. CASE /\ ~r.write /\ UNCHANGED <<state, block>>
           /\ req' = [req EXCEPT ![t].moved = @ + n,
                                 ![t].buf = @ \o [i \in 1 .. n |-> block[s][b][from + i - 1]]]
  <2> DEFINE got == [i \in 1 .. n |-> block[s][b][from + i - 1]]
             seen == [i \in 1 .. n |-> disks[s][first + i - 1]]
             buf == r.buf \o got
             nr == [r EXCEPT !.moved = m, !.buf = buf]
             nc == [c EXCEPT !.moved = m, !.buf = buf]
  <2>1. UNCHANGED disks
    BY <1>1, <1>7 DEF disks, Overlay
  <2>2. \A i \in 1 .. n : disks[s][first + i - 1] = block[s][b][from + i - 1]
    <3> SUFFICES ASSUME NEW i \in 1 .. n
                 PROVE  Overlay(s)[first + i - 1] = block[s][b][from + i - 1]
      BY <1>2 DEF disks
    <3> DEFINE base == b * BlockSectors
               o == from + i - 1
    <3>1. base \in Nat /\ o \in Offsets /\ o \in Nat
      BY <1>2 DEF Offsets
    <3>2. first + i - 1 = base + o /\ base + o < Sectors[file[s]]
      <4>1. first = base + from
        BY <1>2
      <4> HIDE DEF base
      <4> QED BY <1>2, <1>3, <3>1, <4>1
    <3> HIDE DEF o
    <3>3. Overlay(s)[base + o] = block[s][b][o]
      BY <1>1, <1>2, <3>1, <3>2, ReadSees
    <3> HIDE DEF base
    <3> QED BY <3>2, <3>3 DEF o
  <2>3. got = seen
    BY <2>2
  <2> HIDE DEF got, seen, buf
  <2>4. req' = [req EXCEPT ![t] = nr]
    BY <1>1, <1>7 DEF got, buf, m, r
  <2>5. (IF nr.st = "running" THEN [nr EXCEPT !.st = "waiting"] ELSE nr) = nc
    BY <1>1 DEF Request
  <2> HIDE DEF nr, nc, c
  <2>6. calls' = [calls EXCEPT ![t] = nc]
    BY <1>1, <2>4, <2>5, CallChanges
  <2>7. calls' = [calls EXCEPT ![t].moved = @ + n, ![t].buf = @ \o seen]
    <3>1. nc = [calls[t] EXCEPT !.moved = @ + n, !.buf = @ \o seen]
      BY <1>5, <2>3 DEF nc, m, buf
    <3> HIDE DEF calls
    <3> QED BY <2>6, <3>1
  <2>8. calls' = [calls EXCEPT ![t].moved = @ + n, ![t].buf = @ \o
                [i \in 1 .. n |-> disks[calls[t].slot][calls[t].off + calls[t].moved + i - 1]]]
    BY <1>5, <2>7 DEF seen, first
  <2>9. Promise!Move(t, n)
    <3>1. ~calls[t].write
      BY <1>5, <1>7
    <3> QED BY <1>1, <2>1, <2>8, <3>1 DEF Promise!Move, calls, disks, CallOf
  <2> QED BY <1>1, <1>6, <2>9
<1>8. CASE /\ r.write
           /\ block' = [block EXCEPT ![s][b] =
                [o \in Offsets |-> IF o >= from /\ o < from + n THEN put ELSE @[o]]]
           /\ state' = [state EXCEPT ![s][b] = "dirty"]
           /\ req' = [req EXCEPT ![t].moved = @ + n]
  <2> DEFINE nr == [r EXCEPT !.moved = m]
             nc == [c EXCEPT !.moved = m]
  <2>1. req' = [req EXCEPT ![t] = nr]
    BY <1>1, <1>8 DEF r, m
  <2>2. (IF nr.st = "running" THEN [nr EXCEPT !.st = "waiting"] ELSE nr) = nc
    BY <1>1 DEF Request
  <2> HIDE DEF nr, nc, c
  <2>3. calls' = [calls EXCEPT ![t] = nc]
    BY <1>1, <2>1, <2>2, CallChanges
  <2>4. calls' = [calls EXCEPT ![t].moved = @ + n]
    BY <1>5, <2>3 DEF nc, m
  <2>5. disks' = [disks EXCEPT ![s] = Overwritten(disks[s], r)]
    BY <1>2, <1>8, WriteShows DEF r, s
  <2>6. disks' = [disks EXCEPT ![calls[t].slot] =
            [i \in DOMAIN @ |->
                IF i \in calls[t].off + calls[t].moved .. calls[t].off + calls[t].moved + n - 1
                THEN [from |-> Guest, at |-> calls[t].val] ELSE @[i]]]
    <3> DEFINE k == calls[t]
    <3>1. k.slot = s /\ k.off = r.off /\ k.moved = r.moved /\ k.val = r.val /\ n = Chunk(r)
      BY <1>5 DEF r
    <3> HIDE DEF k
    <3>2. Overwritten(disks[s], r) =
            [i \in DOMAIN disks[s] |->
                IF i \in k.off + k.moved .. k.off + k.moved + n - 1
                THEN [from |-> Guest, at |-> k.val] ELSE disks[s][i]]
      BY <3>1 DEF Overwritten
    <3> HIDE DEF disks
    <3> QED BY <2>5, <3>1, <3>2 DEF k
  <2>7. Promise!Move(t, n)
    <3>1. calls[t].write
      BY <1>5, <1>8
    <3> QED BY <1>1, <2>4, <2>6, <3>1 DEF Promise!Move, calls, disks, CallOf
  <2> QED BY <1>1, <1>6, <2>7
<1> QED BY <1>4, <1>7, <1>8

\* Every step of the engine is a step of CowDisk, or changes nothing there.
LEMMA StepRefines ==
    ASSUME IInv, ~OverlappedUI, [Next]_vars
    PROVE  [Promise!Next]_Promise!vars
<1>1. ASSUME UNCHANGED <<file, state, block, req, owner>>
      PROVE  UNCHANGED Promise!vars
  <2>1. UNCHANGED disks
    BY <1>1 DEF disks, Overlay
  <2> QED BY <1>1, <2>1, Stutters
<1>2. CASE Page
  <2>1. ASSUME NEW s \in Slots, NEW f \in Files, Register(s, f) PROVE Promise!Next
    BY <2>1, RegisterRefines DEF Promise!Next
  <2>2. ASSUME NEW s \in Slots, Unregister(s) PROVE Promise!Next
    BY <2>2, UnregisterRefines DEF Promise!Next
  <2>3. ASSUME NEW s \in Slots, BeginPreload(s) PROVE UNCHANGED Promise!vars
    BY <1>1, <2>3 DEF BeginPreload
  <2>4. ASSUME NEW h \in header, PreloadFails(h) PROVE UNCHANGED Promise!vars
    BY <1>1, <2>4 DEF PreloadFails
  <2>5. ASSUME NEW h \in header, Preload(h) PROVE UNCHANGED Promise!vars
    <3>1. SessionKept
      BY <2>5, PreloadKeeps
    <3>2. UNCHANGED <<file, req, owner>>
      BY <2>5 DEF Preload
    <3> QED BY <3>1, <3>2, OverlayKept, Stutters
  <2> QED BY <1>2, <2>1, <2>2, <2>3, <2>4, <2>5 DEF Page
<1>3. ASSUME NEW t \in Threads, Requests(t)
      PROVE  Promise!Next \/ UNCHANGED Promise!vars
  <2>1. ASSUME NEW s \in Slots, NEW a \in Asks[t], NEW val \in Values,
               Begin(t, a[1], s, a[2], a[3], val)
        PROVE  Promise!Next
    BY <2>1, BeginRefines DEF Promise!Next
  <2>2. CASE Return(t)
    BY <2>2, ReturnRefines DEF Promise!Next
  <2>3. CASE Lock(t)
    BY <2>3, LockRefines DEF Promise!Next
  <2>4. ASSUME owner = t, NEW st \in {"ok", "error"}, Finish(t, st),
               st = "ok" <=> req[t].moved = req[t].len
        PROVE  Promise!Next
    BY <2>4, FinishRefines DEF Promise!Next
  <2>5. CASE Done(t)
    BY <2>4, <2>5 DEF Done
  <2>6. CASE Transfer(t)
    <3>1. PICK n : n = Chunk(req[t])
      OBVIOUS
    <3>2. owner = t /\ \E m \in 1 .. calls[t].len - calls[t].moved : Promise!Move(t, m)
      BY <2>6, <3>1, TransferRefines
    <3> QED BY <3>2 DEF Promise!Next, calls, CallOf
  <2>7. CASE FetchFails(t)
    <3>1. owner = t /\ Finish(t, "error") /\ req[t].moved < req[t].len
      BY <2>7 DEF FetchFails, NeedsBlock
    <3>2. req[t].moved \in Nat /\ req[t].len \in Nat
      BY <3>1, OwnerRuns DEF Request
    <3>3. req[t].moved # req[t].len
      BY <3>1, <3>2
    <3> QED BY <2>4, <3>1, <3>3
  <2>8. CASE FetchOk(t)
    BY <1>1, <2>8 DEF FetchOk
  <2>9. CASE PlaceBlock(t)
    <3>1. SessionKept
      BY <2>9, PlaceKeeps
    <3>2. UNCHANGED <<file, req, owner>>
      BY <2>9 DEF PlaceBlock
    <3> QED BY <3>1, <3>2, OverlayKept, Stutters
  <2>10. CASE OutOfMemory(t)
    BY <1>1, <2>10 DEF OutOfMemory
  <2>11. CASE EndFault(t)
    <3>1. CASE owner = t /\ Finish(t, "error") /\ run # NoRun
      <4>1. req[t].moved \in Nat /\ req[t].len \in Nat /\ req[t].moved < req[t].len
        BY <3>1, OwnerRuns DEF Request, IInv, RunInv
      <4>2. req[t].moved # req[t].len
        BY <4>1
      <4> QED BY <2>4, <3>1, <4>2
    <3>2. CASE UNCHANGED <<file, state, block, req, owner>>
      BY <1>1, <3>2
    <3> QED BY <2>11, <3>1, <3>2 DEF EndFault
  <2> QED BY <1>3, <2>1, <2>2, <2>3, <2>5, <2>6, <2>7, <2>8, <2>9, <2>10, <2>11 DEF Requests
<1>4. CASE UNCHANGED vars
  BY <1>1, <1>4 DEF vars
<1> QED BY <1>2, <1>3, <1>4 DEF Next

\* The engine implements CowDisk: with blocks, faults, eviction, preloading and slots
\* in reuse, every caller of diskio_rw sees a private copy of its disk, if the page does
\* not free a slot whose header it is still reading.
THEOREM ImplementsCowDisk == ~OverlappedUI => (Spec => CowDisk)
<1>1. CASE ~OverlappedUI
  <2>1. IInv /\ [Next]_vars => [Promise!Next]_Promise!vars
    BY <1>1, StepRefines
  <2> QED BY <2>1, InitRefines, Inductive, PTL DEF Spec, CowDisk, Promise!Spec
<1>2. CASE OverlappedUI
  BY <1>2
<1> QED BY <1>1, <1>2, SizeAssumption
=============================================================================
