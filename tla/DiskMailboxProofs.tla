-------------------------- MODULE DiskMailboxProofs --------------------------
(***************************************************************************)
(* Proofs about DiskMailbox for any number of fetchers and of requests:    *)
(* the two mutexes, the request in service, and whose bytes are staged.    *)
(***************************************************************************)
EXTENDS DiskMailbox, TLAPS

\* Where a request and its read are while somebody waits, takes or copies.
\* A posted request has its poster behind it, a done one has no read any more,
\* and nothing can start a read once the poster has seen stage 3.
RequestInv ==
    /\ stage = 1 => \E t \in Fetchers : pc[t] \in {"wait", "giveup"}
    /\ stage = 3 => job.at = "none"
    /\ \A t \in Fetchers : pc[t] \in {"take", "copy"} => job.at = "none"

\* The read in hand is the waiter's own: stage by stage, what makes the staged
\* bytes the requested ones if JS was not busy when the request was posted.
MyRead(t) ==
    /\ stage \in {1, 2, 3}
    /\ stage = 1 => job.at \in {"none", "polled"}
    /\ stage = 2 => /\ job.at \in {"reading", "stored", "answered"}
                    /\ job.want = mine[t]
                    /\ job.at = "stored" \/ (job.at = "answered" /\ ok) => bytes = mine[t]
    /\ stage = 3 => (ok => bytes = mine[t])

OwnBytesInv ==
    \A t \in Fetchers :
        /\ pc[t] \in {"post", "wait"} => want = mine[t]
        /\ ~overlap =>
            /\ pc[t] = "wait" => MyRead(t)
            /\ pc[t] = "take" /\ ok => bytes = mine[t]
            /\ pc[t] = "copy" => bytes = mine[t]

LockInv == TypeOK /\ LocksMatchPlaces
ServiceInv == InServiceHasJob /\ RequestInv

\* The inductive invariant.
IInv == LockInv /\ ServiceInv /\ OwnBytesInv

----------------------------------------------------------------------------
(* The mutexes *)

\* No lock is held and nobody is inside when the page has loaded.
LEMMA LockInvInit == Init => LockInv
<1> SUFFICES ASSUME Init PROVE LockInv
  OBVIOUS
<1>1. TypeOK
  <2>1. job \in [at : JobPlaces, want : Wants \cup {NoWant}]
    BY DEF Init, NoJob, JobPlaces
  <2>2. ok \in BOOLEAN /\ overlap \in BOOLEAN
    BY Zenon DEF Init
  <2>3. stage \in 0 .. 3 /\ pokes \in 0 .. MaxPokes
    BY NameAssumption DEF Init
  <2>4. pc \in [Fetchers -> Places] /\ mine \in [Fetchers -> Wants \cup {NoWant}]
    BY DEF Init, Places
  <2>5. /\ want \in Wants \cup {NoWant} /\ bytes \in Wants \cup {NoWant}
        /\ table \in Fetchers \cup {Main, NoThread} /\ fetch \in Fetchers \cup {Main, NoThread}
        /\ main \in MainPlaces
    BY DEF Init, MainPlaces
  <2> QED BY <2>1, <2>2, <2>3, <2>4, <2>5, Zenon DEF TypeOK
<1>2. LocksMatchPlaces
  BY NameAssumption DEF Init, LocksMatchPlaces, HoldsFetch, HoldsTable
<1> QED BY <1>1, <1>2 DEF LockInv

\* Every step of a fetcher takes or releases exactly the mutex its new place says.
LEMMA LockInvFetcher ==
    ASSUME LockInv, NEW t \in Fetchers,
           TakeTable(t) \/ Fetching(t) \/ \E w \in Wants : Miss(t, w)
    PROVE  LockInv'
<1> USE NameAssumption DEF LockInv, TypeOK, LocksMatchPlaces, Places, HoldsFetch, HoldsTable, Goto
<1>1. CASE TakeTable(t)  BY <1>1 DEF TakeTable, mailbox, page
<1>2. CASE TakeFetch(t)  BY <1>2 DEF TakeFetch, mailbox, page
<1>3. CASE Fill(t)       BY <1>3 DEF Fill, locks, page
<1>4. CASE Post(t)       BY <1>4 DEF Post, locks
<1>5. CASE SeeDone(t)    BY <1>5 DEF SeeDone, locks, page
<1>6. CASE TimeOut(t)    BY <1>6 DEF TimeOut, mailbox, locks, page
<1>7. CASE GiveUp(t)     BY <1>7 DEF GiveUp, page
<1>8. CASE Take(t)       BY <1>8 DEF Take, mailbox, page
<1>9. CASE Leave(t)      BY <1>9 DEF Leave, mailbox, page
<1>10. CASE \E w \in Wants : Miss(t, w)  BY <1>10 DEF Miss, mailbox, locks, page
<1> QED BY <1>1, <1>2, <1>3, <1>4, <1>5, <1>6, <1>7, <1>8, <1>9, <1>10 DEF Fetching

\* The disk service touches no mutex; the page's own calls do.
LEMMA LockInvMain ==
    ASSUME LockInv, Service \/ PokeTick \/ MainEnter \/ MainLock \/ MainMiss \/ MainLeave
    PROVE  LockInv'
<1> USE NameAssumption DEF LockInv, TypeOK, LocksMatchPlaces, JobPlaces, NoJob, MainPlaces
<1>1. CASE FrameTick   BY <1>1 DEF FrameTick, Tick, mailbox, locks, threads
<1>2. CASE StartRead   BY <1>2 DEF StartRead, locks, threads
<1>3. CASE NoEntry
  <2>1. job' \in [at : JobPlaces, want : Wants \cup {NoWant}]
    BY <1>3 DEF NoEntry
  <2>2. ok' = FALSE /\ stage' = 2
    BY <1>3 DEF NoEntry
  <2>3. UNCHANGED <<want, bytes, overlap, table, fetch, pc, mine, main, pokes>>
    BY <1>3 DEF NoEntry, locks, threads
  <2>4. ok' \in BOOLEAN
    BY <2>2, Zenon
  <2>5. stage' \in 0 .. 3
    BY <2>2
  <2>6. TypeOK'
    BY <2>1, <2>3, <2>4, <2>5
  <2>7. LocksMatchPlaces'
    BY <2>3
  <2> QED BY <2>6, <2>7
<1>4. CASE StoreBytes  BY <1>4 DEF StoreBytes, locks, threads
<1>5. CASE ReadFails   BY <1>5 DEF ReadFails, locks, threads
<1>6. CASE SetOk       BY <1>6 DEF SetOk, locks, threads
<1>7. CASE SetDone     BY <1>7 DEF SetDone, locks, threads
<1>8. CASE PokeTick    BY <1>8 DEF PokeTick, Tick, mailbox, locks, threads
<1>9. CASE MainEnter   BY <1>9 DEF MainEnter, EventLoop, mailbox, locks, threads
<1>10. CASE MainLock   BY <1>10 DEF MainLock, mailbox, threads, HoldsTable, HoldsFetch
<1>11. CASE MainMiss   BY <1>11 DEF MainMiss, mailbox, threads, HoldsTable, HoldsFetch
<1>12. CASE MainLeave  BY <1>12 DEF MainLeave, mailbox, threads, HoldsTable, HoldsFetch
<1> QED BY <1>1, <1>2, <1>3, <1>4, <1>5, <1>6, <1>7, <1>8, <1>9, <1>10, <1>11, <1>12 DEF Service

\* Every step keeps the lock invariant: one case per action.
LEMMA LockInvStep == LockInv /\ [Next]_vars => LockInv'
<1> SUFFICES ASSUME LockInv, [Next]_vars PROVE LockInv'
  OBVIOUS
<1>1. CASE Next
  BY <1>1, LockInvFetcher, LockInvMain DEF Next
<1>2. CASE UNCHANGED vars
  BY <1>2 DEF vars, LockInv, TypeOK, LocksMatchPlaces
<1> QED BY <1>1, <1>2

\* Each mutex is held exactly between its lock and its unlock, by at most one
\* thread, on every path through a fetch: diskio_rw, diskio_fetch, preload.
THEOREM LocksCorrect == Spec => []LocksMatchPlaces
<1>1. LockInv => LocksMatchPlaces
  BY DEF LockInv
<1> QED BY LockInvInit, LockInvStep, <1>1, PTL DEF Spec

\* The types of the mailbox: the stages, one caller, one read at a time.
THEOREM TypeCorrect == Spec => []TypeOK
<1>1. LockInv => TypeOK
  BY DEF LockInv
<1> QED BY LockInvInit, LockInvStep, <1>1, PTL DEF Spec

\* The browser main thread, inside the engine, finds fetch_mutex free: refusing
\* a fault there never blocks the page.
THEOREM MainGetsFetchMutex == Spec => []MainNeverWaitsForFetch
<1>1. LockInv => MainNeverWaitsForFetch
  BY NameAssumption DEF LockInv, TypeOK, LocksMatchPlaces, MainNeverWaitsForFetch,
     HoldsTable, HoldsFetch
<1> QED BY LockInvInit, LockInvStep, <1>1, PTL DEF Spec

----------------------------------------------------------------------------
(* The request in service *)

\* Nothing is in service when the page has loaded.
LEMMA ServiceInvInit == Init => ServiceInv
  BY DEF Init, ServiceInv, InServiceHasJob, RequestInv

\* A fetcher's step: the poster of a request stays with it until it is answered
\* or given up, and there is no other fetcher inside.
LEMMA ServiceInvFetcher ==
    ASSUME LockInv, ServiceInv, NEW t \in Fetchers,
           TakeTable(t) \/ Fetching(t) \/ \E w \in Wants : Miss(t, w)
    PROVE  ServiceInv'
<1> USE DEF LockInv, TypeOK, LocksMatchPlaces, ServiceInv, InServiceHasJob, RequestInv,
        HoldsFetch, HoldsTable, Goto
<1>1. CASE TakeTable(t)  BY <1>1 DEF TakeTable, mailbox, page
<1>2. CASE TakeFetch(t)  BY <1>2 DEF TakeFetch, mailbox, page
<1>3. CASE Fill(t)       BY <1>3 DEF Fill, locks, page
<1>4. CASE Post(t)       BY <1>4 DEF Post, locks
<1>5. CASE SeeDone(t)    BY <1>5 DEF SeeDone, locks, page
<1>6. CASE TimeOut(t)    BY <1>6 DEF TimeOut, mailbox, locks, page
<1>7. CASE GiveUp(t)     BY <1>7 DEF GiveUp, page
<1>8. CASE Take(t)       BY <1>8 DEF Take, mailbox, page
<1>9. CASE Leave(t)      BY <1>9 DEF Leave, mailbox, page
<1>10. CASE \E w \in Wants : Miss(t, w)  BY <1>10 DEF Miss, mailbox, locks, page
<1> QED BY <1>1, <1>2, <1>3, <1>4, <1>5, <1>6, <1>7, <1>8, <1>9, <1>10 DEF Fetching

\* A step of the main thread: only a posted request starts a read, and then
\* nobody is past the wait.
LEMMA ServiceInvMain ==
    ASSUME LockInv, ServiceInv,
           Service \/ PokeTick \/ MainEnter \/ MainLock \/ MainMiss \/ MainLeave
    PROVE  ServiceInv'
<1> USE DEF LockInv, TypeOK, LocksMatchPlaces, ServiceInv, InServiceHasJob, RequestInv,
        HoldsFetch, HoldsTable, NoJob
<1>1. CASE FrameTick   BY <1>1 DEF FrameTick, Tick, mailbox, locks, threads
<1>2. CASE StartRead   BY <1>2 DEF StartRead, locks, threads
<1>3. CASE NoEntry     BY <1>3 DEF NoEntry, locks, threads
<1>4. CASE StoreBytes  BY <1>4 DEF StoreBytes, locks, threads
<1>5. CASE ReadFails   BY <1>5 DEF ReadFails, locks, threads
<1>6. CASE SetOk       BY <1>6 DEF SetOk, locks, threads
<1>7. CASE SetDone     BY <1>7 DEF SetDone, locks, threads
<1>8. CASE PokeTick    BY <1>8 DEF PokeTick, Tick, mailbox, locks, threads
<1>9. CASE MainEnter   BY <1>9 DEF MainEnter, mailbox, locks, threads
<1>10. CASE MainLock   BY <1>10 DEF MainLock, mailbox, threads
<1>11. CASE MainMiss   BY <1>11 DEF MainMiss, mailbox, threads
<1>12. CASE MainLeave  BY <1>12 DEF MainLeave, mailbox, threads
<1> QED BY <1>1, <1>2, <1>3, <1>4, <1>5, <1>6, <1>7, <1>8, <1>9, <1>10, <1>11, <1>12 DEF Service

\* Every step keeps the service invariant; only the service's own steps matter.
LEMMA ServiceInvStep == LockInv /\ ServiceInv /\ [Next]_vars => ServiceInv'
<1> SUFFICES ASSUME LockInv, ServiceInv, [Next]_vars PROVE ServiceInv'
  OBVIOUS
<1>1. CASE Next
  BY <1>1, ServiceInvFetcher, ServiceInvMain DEF Next
<1>2. CASE UNCHANGED vars
  BY <1>2 DEF vars, ServiceInv, InServiceHasJob, RequestInv
<1> QED BY <1>1, <1>2

\* A request that is in service is always completed: no path leaves stage 2
\* behind with _diskBusy false, where no tick looks at it.
THEOREM ServiceCompletes == Spec => []InServiceHasJob
<1>1. ServiceInv => InServiceHasJob
  BY DEF ServiceInv
<1> QED BY LockInvInit, LockInvStep, ServiceInvInit, ServiceInvStep, <1>1, PTL DEF Spec

\* fetch_stage is quiet while diskio_block copies the run out of it: the read
\* that filled it is over, and no other can have started.
THEOREM StageQuiet == Spec => StageIsStable
<1>1. LockInv /\ ServiceInv /\ [Next]_vars =>
        [\A t \in Fetchers : pc[t] = "copy" => bytes' = bytes]_vars
  <2> SUFFICES ASSUME LockInv, ServiceInv, Next, NEW t \in Fetchers, pc[t] = "copy"
               PROVE  bytes' = bytes
    OBVIOUS
  <2>1. job.at = "none"
    BY DEF ServiceInv, RequestInv
  <2>2. ~StoreBytes
    BY <2>1 DEF StoreBytes
  <2> QED BY <2>2 DEF Next, Fetching, Service, mailbox, TakeTable, TakeFetch, Fill, Post,
          SeeDone, TimeOut, GiveUp, Take, Leave, Miss, FrameTick, StartRead, NoEntry,
          ReadFails, SetOk, SetDone, PokeTick, MainEnter, MainLock, MainMiss, MainLeave
<1> QED BY LockInvInit, LockInvStep, ServiceInvInit, ServiceInvStep, <1>1, PTL
        DEF Spec, StageIsStable

----------------------------------------------------------------------------
(* Whose bytes are staged *)

\* Nobody waits for bytes when the page has loaded.
LEMMA OwnBytesInit == Init => OwnBytesInv
  BY DEF Init, OwnBytesInv

\* A fetcher's step: it alone is past the table's lock, so the request and the
\* answer can only be its own.
LEMMA OwnBytesFetcher ==
    ASSUME LockInv, ServiceInv, OwnBytesInv, NEW t \in Fetchers,
           TakeTable(t) \/ Fetching(t) \/ \E w \in Wants : Miss(t, w)
    PROVE  OwnBytesInv'
<1> USE DEF LockInv, TypeOK, LocksMatchPlaces, OwnBytesInv, MyRead, HoldsFetch, HoldsTable, Goto
<1>1. CASE TakeTable(t)  BY <1>1 DEF TakeTable, mailbox, page
<1>2. CASE TakeFetch(t)  BY <1>2 DEF TakeFetch, mailbox, page
<1>3. CASE Fill(t)       BY <1>3 DEF Fill, locks, page
<1>4. CASE Post(t)
  <2>1. overlap' = (job.at # "none") /\ stage' = 1 /\ pc' = [pc EXCEPT ![t] = "wait"]
    BY <1>4 DEF Post
  <2>2. UNCHANGED <<ok, want, bytes, mine, job>>
    BY <1>4 DEF Post
  <2>3. ~overlap' => job'.at = "none"
    BY <2>1, <2>2, Zenon
  <2>4. \A u \in Fetchers : pc'[u] \in {"post", "wait", "take", "copy"} => u = t
    BY <1>4, <2>1 DEF Post
  <2>5. want' = mine'[t] /\ pc'[t] = "wait" /\ (~overlap' => MyRead(t)')
    BY <1>4, <2>1, <2>2, <2>3 DEF Post
  <2> QED BY <2>4, <2>5
<1>5. CASE SeeDone(t)    BY <1>5 DEF SeeDone, locks, page
<1>6. CASE TimeOut(t)    BY <1>6 DEF TimeOut, mailbox, locks, page
<1>7. CASE GiveUp(t)     BY <1>7 DEF GiveUp, page
<1>8. CASE Take(t)       BY <1>8 DEF Take, mailbox, page
<1>9. CASE Leave(t)      BY <1>9 DEF Leave, mailbox, page
<1>10. CASE \E w \in Wants : Miss(t, w)  BY <1>10 DEF Miss, mailbox, locks, page
<1> QED BY <1>1, <1>2, <1>3, <1>4, <1>5, <1>6, <1>7, <1>8, <1>9, <1>10 DEF Fetching

\* A step of the main thread: the read moves one stage on for the one fetcher
\* that waits; for those that take or copy there is no read to move.
LEMMA OwnBytesMain ==
    ASSUME LockInv, ServiceInv, OwnBytesInv,
           Service \/ PokeTick \/ MainEnter \/ MainLock \/ MainMiss \/ MainLeave
    PROVE  OwnBytesInv'
<1> USE DEF LockInv, TypeOK, ServiceInv, InServiceHasJob, RequestInv, OwnBytesInv, MyRead,
        JobPlaces, NoJob
<1>1. CASE FrameTick   BY <1>1 DEF FrameTick, Tick, mailbox, locks, threads
<1>2. CASE StartRead   BY <1>2 DEF StartRead, locks, threads
<1>3. CASE NoEntry     BY <1>3 DEF NoEntry, locks, threads
<1>4. CASE StoreBytes  BY <1>4 DEF StoreBytes, locks, threads
<1>5. CASE ReadFails   BY <1>5 DEF ReadFails, locks, threads
<1>6. CASE SetOk       BY <1>6 DEF SetOk, locks, threads
<1>7. CASE SetDone     BY <1>7 DEF SetDone, locks, threads
<1>8. CASE PokeTick    BY <1>8 DEF PokeTick, Tick, mailbox, locks, threads
<1>9. CASE MainEnter   BY <1>9 DEF MainEnter, mailbox, locks, threads
<1>10. CASE MainLock   BY <1>10 DEF MainLock, mailbox, threads
<1>11. CASE MainMiss   BY <1>11 DEF MainMiss, mailbox, threads
<1>12. CASE MainLeave  BY <1>12 DEF MainLeave, mailbox, threads
<1> QED BY <1>1, <1>2, <1>3, <1>4, <1>5, <1>6, <1>7, <1>8, <1>9, <1>10, <1>11, <1>12 DEF Service

\* Every step keeps the ownership of the staged bytes.
LEMMA OwnBytesStep == LockInv /\ ServiceInv /\ OwnBytesInv /\ [Next]_vars => OwnBytesInv'
<1> SUFFICES ASSUME LockInv, ServiceInv, OwnBytesInv, [Next]_vars PROVE OwnBytesInv'
  OBVIOUS
<1>1. CASE Next
  BY <1>1, OwnBytesFetcher, OwnBytesMain DEF Next
<1>2. CASE UNCHANGED vars
  BY <1>2 DEF vars, OwnBytesInv, MyRead
<1> QED BY <1>1, <1>2

\* The inductive invariant holds throughout: locks, service and bytes together.
THEOREM Inductive == Spec => []IInv
<1>1. Init => IInv
  BY LockInvInit, ServiceInvInit, OwnBytesInit DEF IInv
<1>2. IInv /\ [Next]_vars => IInv'
  BY LockInvStep, ServiceInvStep, OwnBytesStep DEF IInv
<1> QED BY <1>1, <1>2, PTL DEF Spec

\* The bytes a fault uses are the bytes it asked for, whenever JS was not still
\* reading for an older request when this one was posted.
THEOREM StagedBytesAreMine == Spec => []StagedIsMineUnlessOverlap
<1>1. IInv => StagedIsMineUnlessOverlap
  BY DEF IInv, OwnBytesInv, StagedIsMineUnlessOverlap
<1> QED BY Inductive, <1>1, PTL
=============================================================================
