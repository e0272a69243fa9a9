----------------------------- MODULE DiskMailbox -----------------------------
(***************************************************************************)
(* The disk request mailbox of src/wasm/platform/wasm-diskio.c and its     *)
(* service in src/web/js/emulator.js.  A thread that misses a block takes  *)
(* table_mutex (for the whole request) and fetch_mutex, posts one request  *)
(* and polls; the browser main thread picks it up from its frame tick or   *)
(* from a poke, starts an asynchronous read, and its promise callback      *)
(* stores the bytes into fetch_stage and completes the request.  The       *)
(* waiter gives up after DISKIO_REQ_TIMEOUT_MS, here at any moment.        *)
(*                                                                         *)
(* The volatile fields of req and fetch_stage are shared memory; each      *)
(* access is a step and steps are sequentially consistent.                 *)
(***************************************************************************)
EXTENDS Integers, FiniteSets

CONSTANTS
    Fetchers,   \* the threads that may fault: emulation, CD audio
    Main,       \* the browser main thread
    Wants,      \* the <disk, offset, length> triples that are requested
    MaxPokes,   \* bound: pokes queued for the main thread
    NoThread, NoWant

ASSUME NameAssumption ==
    /\ Main \notin Fetchers
    /\ NoThread \notin Fetchers \cup {Main}
    /\ NoWant \notin Wants
    /\ MaxPokes \in Nat

VARIABLES
    stage,     \* req.stage: 0 idle, 1 posted, 2 in service, 3 done
    ok,        \* req.ok
    want,      \* req.disk, req.offset, req.len
    bytes,     \* fetch_stage: whose bytes it holds
    table,     \* holder of table_mutex
    fetch,     \* holder of fetch_mutex
    pc,        \* pc[t]: where fetcher t is
    mine,      \* mine[t]: what fetcher t needs
    main,      \* what the main thread's current task waits for or holds
    pokes,     \* __pcemDiskTick calls queued by MAIN_THREAD_ASYNC_EM_ASM
    job,       \* the read JS has in hand; _diskBusy is job.at # "none"
    overlap    \* history: the last post found JS still busy with an older read

vars == <<stage, ok, want, bytes, table, fetch, pc, mine, main, pokes, job, overlap>>
mailbox == <<stage, ok, want, bytes, overlap>>
locks == <<table, fetch>>
threads == <<pc, mine>>
page == <<main, pokes, job>>

\* idle: not in the engine.  table, fetch: waiting for the mutex.  fill, post,
\* wait: in diskio_fetch_locked.  giveup: decided to time out.  take: has seen
\* stage 3.  copy, fail: back in diskio_block with the answer.
Places == {"idle", "table", "fetch", "fill", "post", "wait", "giveup", "take", "copy", "fail"}
HoldsFetch == {"fill", "post", "wait", "giveup", "take"}
HoldsTable == HoldsFetch \cup {"fetch", "copy", "fail"}

\* none: _diskBusy is false.  polled: between pcem_diskreq_poll's test and its
\* store.  reading: the promise is pending.  stored, answered: in the promise
\* callback, about to set ok, about to set stage.
JobPlaces == {"none", "polled", "reading", "stored", "answered"}
NoJob == [at |-> "none", want |-> NoWant]

\* free: in the event loop.  blocked: waiting for table_mutex in
\* wasm_diskio_preload or diskio_rw.  holding: inside with the mutex.
\* refusing: inside diskio_fetch with fetch_mutex too.
MainPlaces == {"free", "blocked", "holding", "refusing"}

TypeOK ==
    /\ stage \in 0 .. 3
    /\ ok \in BOOLEAN
    /\ want \in Wants \cup {NoWant}
    /\ bytes \in Wants \cup {NoWant}
    /\ table \in Fetchers \cup {Main, NoThread}
    /\ fetch \in Fetchers \cup {Main, NoThread}
    /\ pc \in [Fetchers -> Places]
    /\ mine \in [Fetchers -> Wants \cup {NoWant}]
    /\ main \in MainPlaces
    /\ pokes \in 0 .. MaxPokes
    /\ job \in [at : JobPlaces, want : Wants \cup {NoWant}]
    /\ overlap \in BOOLEAN

Init ==
    /\ stage = 0
    /\ ok = FALSE
    /\ want = NoWant
    /\ bytes = NoWant
    /\ table = NoThread
    /\ fetch = NoThread
    /\ pc = [t \in Fetchers |-> "idle"]
    /\ mine = [t \in Fetchers |-> NoWant]
    /\ main = "free"
    /\ pokes = 0
    /\ job = NoJob
    /\ overlap = FALSE

Goto(t, place) == pc' = [pc EXCEPT ![t] = place]

----------------------------------------------------------------------------
(* A fetcher: diskio_rw -> diskio_block -> diskio_fetch *)

\* A request reaches a block that is absent.
Miss(t, w) ==
    /\ pc[t] = "idle"
    /\ Goto(t, "table")
    /\ mine' = [mine EXCEPT ![t] = w]
    /\ UNCHANGED <<mailbox, locks, page>>

\* Mutant: table_mutex is not taken around a fetch.
TakeTableUnlocked(t) ==
    /\ pc[t] = "table"
    /\ table' = t
    /\ Goto(t, "fetch")
    /\ UNCHANGED <<mailbox, fetch, mine, page>>

TakeTable(t) ==
    /\ pc[t] = "table"
    /\ table = NoThread
    /\ table' = t
    /\ Goto(t, "fetch")
    /\ UNCHANGED <<mailbox, fetch, mine, page>>

\* Mutant: the table is given up while the fetch is in progress.
TakeFetchReleases(t) ==
    /\ pc[t] = "fetch"
    /\ fetch = NoThread
    /\ fetch' = t
    /\ table' = NoThread
    /\ Goto(t, "fill")
    /\ UNCHANGED <<mailbox, mine, page>>

TakeFetch(t) ==
    /\ pc[t] = "fetch"
    /\ fetch = NoThread
    /\ fetch' = t
    /\ Goto(t, "fill")
    /\ UNCHANGED <<mailbox, table, mine, page>>

\* req.disk, offset, len, buf and ok are written before the request is posted.
Fill(t) ==
    /\ pc[t] = "fill"
    /\ want' = mine[t]
    /\ ok' = FALSE
    /\ Goto(t, "post")
    /\ UNCHANGED <<stage, bytes, overlap, locks, mine, page>>

\* Mutant: the stage is advanced instead of set.
PostAdvances(t) ==
    /\ pc[t] = "post"
    /\ stage' = stage + 1
    /\ overlap' = (job.at # "none")
    /\ pokes' = IF pokes < MaxPokes THEN pokes + 1 ELSE pokes
    /\ Goto(t, "wait")
    /\ UNCHANGED <<ok, want, bytes, locks, mine, main, job>>

\* stage = 1, and a nudge for the main thread.
Post(t) ==
    /\ pc[t] = "post"
    /\ stage' = 1
    /\ overlap' = (job.at # "none")
    /\ pokes' = IF pokes < MaxPokes THEN pokes + 1 ELSE pokes
    /\ Goto(t, "wait")
    /\ UNCHANGED <<ok, want, bytes, locks, mine, main, job>>

SeeDone(t) ==
    /\ pc[t] = "wait"
    /\ stage = 3
    /\ stage' = 0
    /\ Goto(t, "take")
    /\ UNCHANGED <<ok, want, bytes, overlap, locks, mine, page>>

\* Mutant: no deadline.
TimeOutNever(t) == FALSE

\* The deadline has passed and stage was not 3 when it was read.
TimeOut(t) ==
    /\ pc[t] = "wait"
    /\ stage # 3
    /\ Goto(t, "giveup")
    /\ UNCHANGED <<mailbox, locks, mine, page>>

\* Mutant: giving up without unlocking.
GiveUpLocked(t) ==
    /\ pc[t] = "giveup"
    /\ stage' = 0
    /\ Goto(t, "fail")
    /\ UNCHANGED <<ok, want, bytes, overlap, locks, mine, page>>

GiveUp(t) ==
    /\ pc[t] = "giveup"
    /\ stage' = 0
    /\ fetch' = NoThread
    /\ Goto(t, "fail")
    /\ UNCHANGED <<ok, want, bytes, overlap, table, mine, page>>

\* return req.ok
Take(t) ==
    /\ pc[t] = "take"
    /\ fetch' = NoThread
    /\ Goto(t, IF ok THEN "copy" ELSE "fail")
    /\ UNCHANGED <<mailbox, table, mine, page>>

\* The staged bytes become clean blocks, or the request fails; either way
\* diskio_rw releases the table.
Leave(t) ==
    /\ pc[t] \in {"copy", "fail"}
    /\ table' = NoThread
    /\ Goto(t, "idle")
    /\ mine' = [mine EXCEPT ![t] = NoWant]
    /\ UNCHANGED <<mailbox, fetch, page>>

----------------------------------------------------------------------------
(* The browser main thread *)

\* A JS task is running: nothing else of the page can.
InTask == job.at \in {"polled", "stored", "answered"}
EventLoop == main = "free" /\ ~InTask

\* __pcemDiskTick up to pcem_diskreq_poll's test of the stage.
Tick ==
    IF job.at = "none" /\ stage = 1
    THEN job' = [job EXCEPT !.at = "polled"]
    ELSE UNCHANGED job

\* main_tick's backstop, once per frame.
FrameTick ==
    /\ EventLoop
    /\ stage = 1
    /\ Tick
    /\ UNCHANGED <<mailbox, locks, threads, main, pokes>>

\* A queued poke.  A main thread blocked on a mutex runs its queue, too.
PokeTick ==
    /\ pokes > 0
    /\ ~InTask
    /\ main \in {"free", "blocked"}
    /\ pokes' = pokes - 1
    /\ Tick
    /\ UNCHANGED <<mailbox, locks, threads, main>>

\* The request is in service: JS remembers it and starts the read.
StartRead ==
    /\ job.at = "polled"
    /\ stage' = 2
    /\ job' = [at |-> "reading", want |-> want]
    /\ UNCHANGED <<ok, want, bytes, overlap, locks, threads, main, pokes>>

\* The disk is not in browserDisks: complete(0) in the same task.
NoEntry ==
    /\ job.at = "polled"
    /\ stage' = 2
    /\ ok' = FALSE
    /\ job' = [at |-> "answered", want |-> want]
    /\ UNCHANGED <<want, bytes, overlap, locks, threads, main, pokes>>

\* The promise resolves: HEAPU8.set(bytes, buf).
StoreBytes ==
    /\ EventLoop
    /\ job.at = "reading"
    /\ bytes' = job.want
    /\ job' = [job EXCEPT !.at = "stored"]
    /\ UNCHANGED <<stage, ok, want, overlap, locks, threads, main, pokes>>

\* Mutant: a failed read is completed as if it had succeeded.
ReadFailsAsOk ==
    /\ EventLoop
    /\ job.at = "reading"
    /\ ok' = TRUE
    /\ job' = [job EXCEPT !.at = "answered"]
    /\ UNCHANGED <<stage, want, bytes, overlap, locks, threads, main, pokes>>

\* The promise rejects: complete(0).
ReadFails ==
    /\ EventLoop
    /\ job.at = "reading"
    /\ ok' = FALSE
    /\ job' = [job EXCEPT !.at = "answered"]
    /\ UNCHANGED <<stage, want, bytes, overlap, locks, threads, main, pokes>>

\* pcem_diskreq_complete(1): ok, then stage.
SetOk ==
    /\ job.at = "stored"
    /\ ok' = TRUE
    /\ job' = [job EXCEPT !.at = "answered"]
    /\ UNCHANGED <<stage, want, bytes, overlap, locks, threads, main, pokes>>

\* Mutant: _diskBusy is cleared, complete is forgotten.
SetDoneForgets ==
    /\ job.at = "answered"
    /\ job' = NoJob
    /\ UNCHANGED <<stage, ok, want, bytes, overlap, locks, threads, main, pokes>>

SetDone ==
    /\ job.at = "answered"
    /\ stage' = 3
    /\ job' = NoJob
    /\ UNCHANGED <<ok, want, bytes, overlap, locks, threads, main, pokes>>

\* The page enters the engine itself: a header preload, or image_open's reads.
MainEnter ==
    /\ EventLoop
    /\ main' = "blocked"
    /\ UNCHANGED <<mailbox, locks, threads, pokes, job>>

MainLock ==
    /\ main = "blocked"
    /\ ~InTask
    /\ table = NoThread
    /\ table' = Main
    /\ main' = "holding"
    /\ UNCHANGED <<mailbox, fetch, threads, pokes, job>>

\* An absent block: diskio_fetch takes fetch_mutex, then refuses.
MainMiss ==
    /\ main = "holding"
    /\ fetch = NoThread
    /\ fetch' = Main
    /\ main' = "refusing"
    /\ UNCHANGED <<mailbox, table, threads, pokes, job>>

MainLeave ==
    /\ main \in {"holding", "refusing"}
    /\ table' = NoThread
    /\ fetch' = IF main = "refusing" THEN NoThread ELSE fetch
    /\ main' = "free"
    /\ UNCHANGED <<mailbox, threads, pokes, job>>

----------------------------------------------------------------------------

Fetching(t) ==
    \/ TakeFetch(t) \/ Fill(t) \/ Post(t) \/ SeeDone(t) \/ TimeOut(t)
    \/ GiveUp(t) \/ Take(t) \/ Leave(t)

Service == FrameTick \/ StartRead \/ NoEntry \/ StoreBytes \/ ReadFails \/ SetOk \/ SetDone

Next ==
    \/ \E t \in Fetchers : TakeTable(t) \/ Fetching(t) \/ \E w \in Wants : Miss(t, w)
    \/ Service \/ PokeTick
    \/ MainEnter \/ MainLock \/ MainMiss \/ MainLeave

\* Threads run and time passes; frames come and reads settle while the main
\* thread is free.  Nothing obliges the page or a guest to start a request, a
\* poke to arrive, or table_mutex to be fair.
Fairness ==
    /\ \A t \in Fetchers : WF_vars(Fetching(t))
    /\ WF_vars(Service)
    /\ WF_vars(MainLeave)

Spec == Init /\ [][Next]_vars /\ Fairness

----------------------------------------------------------------------------
(* Properties *)

\* Whoever is between lock and unlock holds the mutex, and the main thread
\* never waits for fetch_mutex: it holds table_mutex by then.
LocksMatchPlaces ==
    /\ \A t \in Fetchers : (table = t <=> pc[t] \in HoldsTable)
                         /\ (fetch = t <=> pc[t] \in HoldsFetch)
    /\ table = Main <=> main \in {"holding", "refusing"}
    /\ fetch = Main <=> main = "refusing"

MainNeverWaitsForFetch == main = "holding" => fetch = NoThread

\* A request in service has a read behind it that will complete it: stage 2 is
\* never left behind with _diskBusy false, where no tick would look at it again.
InServiceHasJob == stage = 2 => job.at # "none"

\* diskio_block uses fetch_stage for the blocks it asked for.  Holds of every
\* fetch that was posted when JS was not still reading for an older one.
StagedIsMineUnlessOverlap ==
    \A t \in Fetchers : pc[t] = "copy" /\ ~overlap => bytes = mine[t]

\* The same without the exception: what makes a clean block "identical to
\* source" (wasm-diskio.c, wasm_diskio_block_state).
StagedIsMine == \A t \in Fetchers : pc[t] = "copy" => bytes = mine[t]

\* fetch_stage does not change under the thread that copies from it.
StageIsStable ==
    [][\A t \in Fetchers : pc[t] = "copy" => bytes' = bytes]_vars

\* Whoever holds table_mutex lets go of it, even when the read it waits for
\* cannot complete because the main thread itself is waiting for the table:
\* only the deadline breaks that circle.
TableIsReleased == \A t \in Fetchers \cup {Main} : table = t ~> table # t
=============================================================================
