--------------------------- MODULE EmuControlProofs ---------------------------
(***************************************************************************)
(* Proofs about EmuControl for any number of disk slots: emu_mutex keeps   *)
(* the page and the guest apart, a stopped machine neither runs nor holds  *)
(* unsaved CMOS, and the drive agrees with the page.                       *)
(***************************************************************************)
EXTENDS EmuControl, TLAPS

\* Pausing is a main-thread task that started with a machine up; nothing can
\* stop it in between, so its second assignment never revives a stopped machine.
PausingIsUp == main = "pausing" => emu_state # "IDLE"

\* The inductive invariant.  Each part needs the mutex: a stop or a swap happens
\* where the emulation thread is outside its burst.
Core == TypeOK /\ LockMatchesPlaces
StopInv == PausingIsUp /\ IdleIsQuiet /\ IdleIsSaved

\* Until a sweep overtakes a pick, every token the page uses names a disc that
\* is in its slot, and a pick has a slot of its own.
NamesLive ==
    ~overtaken =>
        /\ mounted = NoToken \/ Registered(mounted)
        /\ picked = NoToken \/ (Registered(picked) /\ picked.slot # mounted.slot)
        /\ main # "free" /\ call.op = "cdload" => Registered(call.arg)
        /\ main # "free" /\ call.op = "cdeject" => call.arg = NoToken

CdInv == NamesLive /\ CdAgreesUnlessSlipped
IInv == Core /\ StopInv /\ CdInv

Emu ==
    \/ EmuRuns \/ WantBurst \/ WantSecond
    \/ GuestWritesCmos \/ GuestPowersOff \/ GuestReads \/ FaultEnds \/ EndSlice

Page == User \/ TickStop \/ Control \/ Critical

----------------------------------------------------------------------------
(* Types and the mutex *)

\* No mutex is held when the page has loaded.
LEMMA CoreInit == Init => Core
<1> SUFFICES ASSUME Init PROVE Core
  OBVIOUS
<1>1. call \in [op : Ops, arg : Tokens \cup {NoToken}]
  BY DEF Init, NoOp, Ops
<1>2. /\ pause \in BOOLEAN /\ stop_requested \in BOOLEAN /\ unsaved \in BOOLEAN
      /\ boot \in BOOLEAN /\ gave_up \in BOOLEAN /\ overtaken \in BOOLEAN
  BY Zenon DEF Init
<1>3. browserDisks \in [Slots -> Discs \cup {NoDisc}]
  BY DEF Init, Tokens, NoToken
<1>4. TypeOK
  BY <1>1, <1>2, <1>3 DEF Init, TypeOK, EmuPlaces, MainPlaces
<1>5. LockMatchesPlaces
  BY DEF Init, LockMatchesPlaces, EmuInside
<1> QED BY <1>4, <1>5 DEF Core

\* The emulation thread locks before and unlocks after a burst or onesec().
LEMMA CoreEmu == ASSUME Core, Emu PROVE Core'
<1> USE DEF Core, TypeOK, LockMatchesPlaces, EmuPlaces, EmuInside
<1>1. CASE WantBurst   BY <1>1 DEF WantBurst, state, media, page
<1>2. CASE WantSecond  BY <1>2 DEF WantSecond, state, media, page
<1>3. CASE EmuLock     BY <1>3 DEF EmuLock, state, media, page
<1>4. CASE StartSlice  BY <1>4 DEF StartSlice, state, media, page
<1>5. CASE EndBurst    BY <1>5 DEF EndBurst, state, media, page
<1>6. CASE GuestWritesCmos  BY <1>6 DEF GuestWritesCmos, state, media, page
<1>7. CASE GuestPowersOff   BY <1>7 DEF GuestPowersOff, emuVars, media, page
<1>8. CASE FaultEnds   BY <1>8 DEF FaultEnds, state, media, page
<1>9. CASE EndSlice    BY <1>9 DEF EndSlice, state, media, page
<1>10. CASE EmuUnlock  BY <1>10 DEF EmuUnlock, state, media, page
<1>11. CASE GuestReads
  BY <1>11 DEF GuestReads, state, media, page
<1> QED BY <1>1, <1>2, <1>3, <1>4, <1>5, <1>6, <1>7, <1>8, <1>9, <1>10, <1>11 DEF Emu, EmuRuns

\* A request of the user or of the guest takes no lock yet.
LEMMA CoreUser == ASSUME Core, User \/ TickStop PROVE Core'
<1> USE DEF Core, TypeOK, LockMatchesPlaces, MainPlaces, Ops, Enter
<1>1. CASE UserStart
  <2>1. CASE emu_state = "RUNNING"
    BY <1>1, <2>1 DEF UserStart, state, emuVars, media
  <2>2. CASE emu_state # "RUNNING"
    <3>1. boot' = FALSE /\ main' = "plain" /\ call' = [op |-> "start", arg |-> NoToken]
      BY <1>1, <2>2 DEF UserStart
    <3>2. boot' \in BOOLEAN
      BY <3>1, Zenon
    <3>3. call' \in [op : Ops, arg : Tokens \cup {NoToken}] /\ main' \in MainPlaces
      BY <3>1
    <3>4. main # "inside" /\ UNCHANGED <<state, emu_mutex, emuVars, media, gave_up>>
      BY <1>1 DEF UserStart
    <3> QED BY <3>1, <3>2, <3>3, <3>4, SMTT(20) DEF state, emuVars, media
  <2> QED BY <2>1, <2>2
<1>2. CASE UserEjectsCd  BY <1>2 DEF UserEjectsCd, state, emuVars, media
<1>3. ASSUME NEW b \in BOOLEAN, UserStop(b) PROVE Core'
  BY <1>3 DEF UserStop, state, emuVars, media
<1>4. ASSUME NEW b \in BOOLEAN, UserPause(b) PROVE Core'
  BY <1>4 DEF UserPause, emuVars, media
<1>5. ASSUME NEW b \in BOOLEAN, UserReset(b) PROVE Core'
  BY <1>5 DEF UserReset, state, emuVars, media
<1>6. ASSUME NEW s \in Slots, NEW d \in Discs, UserPicksCd(s, d) PROVE Core'
  <2>1. picked' \in Tokens
    BY <1>6 DEF UserPicksCd, Tokens
  <2> QED BY <1>6, <2>1 DEF UserPicksCd, state, emuVars, page
<1>8. CASE HeaderRead
  <2>1. call' \in [op : Ops, arg : Tokens \cup {NoToken}] /\ main' \in MainPlaces
    BY <1>8 DEF HeaderRead
  <2> QED BY <1>8, <2>1 DEF HeaderRead, state, emuVars
<1>9. CASE HeaderFails
  <2>1. browserDisks' \in [Slots -> Discs \cup {NoDisc}] /\ picked' = NoToken
    BY <1>9 DEF HeaderFails
  <2> QED BY <1>9, <2>1 DEF HeaderFails, state, emuVars, page
<1>7. CASE TickStop
  <2>1. CASE emu_state = "IDLE"
    BY <1>7, <2>1 DEF TickStop, emuVars, media
  <2>2. CASE emu_state # "IDLE"
    <3>1. stop_requested' = FALSE /\ main' = "timed" /\ call' = [op |-> "stop", arg |-> NoToken]
      BY <1>7, <2>2 DEF TickStop
    <3>2. stop_requested' \in BOOLEAN
      BY <3>1, Zenon
    <3>3. call' \in [op : Ops, arg : Tokens \cup {NoToken}] /\ main' \in MainPlaces
      BY <3>1
    <3>4. main # "inside" /\ UNCHANGED <<emu_state, pause, emu_mutex, emuVars, media, boot, gave_up>>
      BY <1>7 DEF TickStop
    <3> QED BY <3>1, <3>2, <3>3, <3>4, SMTT(20) DEF emuVars, media
  <2> QED BY <2>1, <2>2
<1> QED BY <1>1, <1>2, <1>3, <1>4, <1>5, <1>6, <1>7, <1>8, <1>9 DEF User

\* A sweep leaves every slot with its disc or free.
LEMMA SweepType ==
    ASSUME TypeOK, NEW keep, Sweep(keep)
    PROVE  browserDisks' \in [Slots -> Discs \cup {NoDisc}] /\ overtaken' \in BOOLEAN
<1>1. browserDisks' \in [Slots -> Discs \cup {NoDisc}]
  <2>1. \A s \in Slots : browserDisks[s] \in Discs \cup {NoDisc}
    BY DEF TypeOK
  <2>2. browserDisks' = [s \in Slots |->
            IF keep = [slot |-> s, disc |-> browserDisks[s]] THEN keep.disc ELSE NoDisc]
    BY DEF Sweep
  <2>3. ASSUME NEW s \in Slots, keep = [slot |-> s, disc |-> browserDisks[s]]
        PROVE  keep.disc = browserDisks[s]
    BY <2>3
  <2> QED BY <2>1, <2>2, <2>3
<1>2. overtaken' \in BOOLEAN
  BY DEF Sweep
<1> QED BY <1>1, <1>2

\* A control call ends with the mutex released, whichever way it ends.
LEMMA CoreControl == ASSUME Core, Control \/ Critical PROVE Core'
<1> USE NameAssumption DEF Core, TypeOK, LockMatchesPlaces, MainPlaces, EmuPlaces, EmuInside, Ops,
        Enter, Unlock, Inside
<1>1. CASE SetPausedState  BY <1>1 DEF SetPausedState, emuVars, media
<1>2. CASE Lock            BY <1>2 DEF Lock, state, emuVars, media
<1>3. CASE LockFails
  <2>1. CASE call.op \in {"cdload", "cdeject"}
    <3>1. mounted' = call.arg /\ Sweep(call.arg)
      BY <1>3, <2>1 DEF LockFails, AfterCd
    <3>2. browserDisks' \in [Slots -> Discs \cup {NoDisc}] /\ overtaken' \in BOOLEAN
      BY <3>1, SweepType
    <3>3. /\ main = "timed" /\ gave_up' = TRUE /\ main' = "free"
          /\ call' = [op |-> "none", arg |-> NoToken]
          /\ UNCHANGED <<state, emu_mutex, emuVars, core_cd, picked, boot>>
      BY <1>3 DEF LockFails
    <3>4. gave_up' \in BOOLEAN
      BY <3>3, Zenon
    <3>5. TypeOK'
      BY <3>1, <3>2, <3>3, <3>4, Zenon DEF state, emuVars
    <3>6. LockMatchesPlaces'
      BY <3>3 DEF state, emuVars
    <3> QED BY <3>5, <3>6
  <2>2. CASE call.op \notin {"cdload", "cdeject"}
    <3>1. /\ main = "timed" /\ gave_up' = TRUE /\ main' = "free"
          /\ call' = [op |-> "none", arg |-> NoToken]
          /\ UNCHANGED <<state, emu_mutex, emuVars, media, boot>>
      BY <1>3, <2>2 DEF LockFails, media
    <3>2. gave_up' \in BOOLEAN
      BY <3>1, Zenon
    <3> QED BY <3>1, <3>2 DEF state, emuVars, media
  <2> QED BY <2>1, <2>2
<1>4. CASE Stop
  <2>1. browserDisks' \in [Slots -> Discs \cup {NoDisc}] /\ overtaken' \in BOOLEAN
    BY <1>4, SweepType DEF Stop
  <2>2. /\ emu_state' = "IDLE" /\ pause' = FALSE /\ unsaved' = FALSE
        /\ main = "inside" /\ main' = "free" /\ emu_mutex' = "none"
        /\ call' = [op |-> "none", arg |-> NoToken]
        /\ UNCHANGED <<stop_requested, epc, core_cd, mounted, picked, boot, gave_up>>
    BY <1>4 DEF Stop
  <2> QED BY <2>1, <2>2
<1>5. CASE Start
  <2>1. browserDisks' \in [Slots -> Discs \cup {NoDisc}] /\ overtaken' \in BOOLEAN
    BY <1>5, SweepType DEF Start
  <2>2. core_cd' \in Slots \cup {NoSlot}
    BY <1>5 DEF Start, Opens
  <2>3. /\ emu_state' = "RUNNING" /\ pause' = FALSE /\ stop_requested' = FALSE
        /\ unsaved' = FALSE /\ epc' = (IF epc = "off" THEN "top" ELSE epc)
        /\ main = "inside" /\ main' = "free" /\ emu_mutex' = "none"
        /\ call' = [op |-> "none", arg |-> NoToken]
        /\ UNCHANGED <<mounted, picked, boot, gave_up>>
    BY <1>5 DEF Start
  <2>4. pause' \in BOOLEAN /\ stop_requested' \in BOOLEAN /\ unsaved' \in BOOLEAN
    BY <2>3, Zenon
  <2>5. emu_state' \in {"IDLE", "RUNNING", "PAUSED"} /\ epc' \in EmuPlaces
    BY <2>3
  <2>6. TypeOK'
    BY <2>1, <2>2, <2>3, <2>4, <2>5, SMTT(20)
  <2>7. LockMatchesPlaces'
    BY <2>3
  <2> QED BY <2>6, <2>7
<1>6. CASE StartFails      BY <1>6 DEF StartFails, state, emuVars, media
<1>7. CASE SoftReset       BY <1>7 DEF SoftReset, state, emuVars, media
<1>8. CASE HardReset       BY <1>8 DEF HardReset, Opens, state
<1>9. CASE SwapCd          BY <1>9 DEF SwapCd, Opens, AfterCd, Sweep, state, emuVars
<1> QED BY <1>1, <1>2, <1>3, <1>4, <1>5, <1>6, <1>7, <1>8, <1>9 DEF Control, Critical

\* Every step keeps types and mutex.
LEMMA CoreStep == Core /\ [Next]_vars => Core'
<1> SUFFICES ASSUME Core, [Next]_vars PROVE Core'
  OBVIOUS
<1>1. CASE Next
  BY <1>1, CoreEmu, CoreUser, CoreControl DEF Next, Emu
<1>2. CASE UNCHANGED vars
  BY <1>2 DEF vars, state, emuVars, media, page, Core, TypeOK, LockMatchesPlaces
<1> QED BY <1>1, <1>2

\* emu_mutex is held exactly inside the critical sections, on every path out of
\* them: a burst, onesec(), each pcem_wasm_* control call and its early returns.
THEOREM MutexCorrect == Spec => []LockMatchesPlaces
<1>1. Core => LockMatchesPlaces
  BY DEF Core
<1> QED BY CoreInit, CoreStep, <1>1, PTL DEF Spec

\* The types of the control plane: the three machine states and the flags.
THEOREM TypeCorrect == Spec => []TypeOK
<1>1. Core => TypeOK
  BY DEF Core
<1> QED BY CoreInit, CoreStep, <1>1, PTL DEF Spec

----------------------------------------------------------------------------
(* A stopped machine *)

\* The machine starts out stopped and quiet.
LEMMA StopInvInit == Init => StopInv
  BY DEF Init, StopInv, PausingIsUp, IdleIsQuiet, IdleIsSaved

\* The guest runs, and dirties CMOS, only in a slice, and a slice starts only
\* where the state was found RUNNING under the mutex.
LEMMA StopInvEmu == ASSUME Core, StopInv, Emu PROVE StopInv'
<1> USE DEF Core, TypeOK, LockMatchesPlaces, EmuInside, StopInv, PausingIsUp, IdleIsQuiet,
        IdleIsSaved
<1>1. CASE WantBurst   BY <1>1 DEF WantBurst, state, media, page
<1>2. CASE WantSecond  BY <1>2 DEF WantSecond, state, media, page
<1>3. CASE EmuLock     BY <1>3 DEF EmuLock, state, media, page
<1>4. CASE StartSlice  BY <1>4 DEF StartSlice, MayRun, state, media, page
<1>5. CASE EndBurst    BY <1>5 DEF EndBurst, state, media, page
<1>6. CASE GuestWritesCmos  BY <1>6 DEF GuestWritesCmos, state, media, page
<1>7. CASE GuestPowersOff   BY <1>7 DEF GuestPowersOff, emuVars, media, page
<1>8. CASE FaultEnds   BY <1>8 DEF FaultEnds, state, media, page
<1>9. CASE EndSlice    BY <1>9 DEF EndSlice, state, media, page
<1>10. CASE EmuUnlock  BY <1>10 DEF EmuUnlock, state, media, page
<1>11. CASE GuestReads
  BY <1>11 DEF GuestReads, state, media, page
<1> QED BY <1>1, <1>2, <1>3, <1>4, <1>5, <1>6, <1>7, <1>8, <1>9, <1>10, <1>11 DEF Emu, EmuRuns

\* The page stops a machine only with the mutex, hence between bursts, and saves
\* NVR then; pausing, without the mutex, applies to a machine that is up.
LEMMA StopInvPage == ASSUME Core, StopInv, Page PROVE StopInv'
<1> USE DEF Core, LockMatchesPlaces, EmuInside, StopInv, PausingIsUp, IdleIsQuiet,
        IdleIsSaved, Enter, Unlock, Inside
<1>1. CASE User
  BY <1>1 DEF User, UserStart, UserEjectsCd, UserStop, UserPause, UserReset, UserPicksCd,
     HeaderRead, HeaderFails, state, emuVars, media, page
<1>2. CASE TickStop        BY <1>2 DEF TickStop, emuVars, media
<1>3. CASE SetPausedState  BY <1>3 DEF SetPausedState, emuVars, media
<1>4. CASE Lock            BY <1>4 DEF Lock, state, emuVars, media
<1>5. CASE LockFails       BY <1>5 DEF LockFails, state, emuVars
<1>6. CASE Stop            BY <1>6 DEF Stop
<1>7. CASE Start           BY <1>7 DEF Start
<1>8. CASE StartFails      BY <1>8 DEF StartFails, state, emuVars, media
<1>9. CASE SoftReset       BY <1>9 DEF SoftReset, state, emuVars, media
<1>10. CASE HardReset      BY <1>10 DEF HardReset, state
<1>11. CASE SwapCd         BY <1>11 DEF SwapCd, state, emuVars
<1> QED BY <1>1, <1>2, <1>3, <1>4, <1>5, <1>6, <1>7, <1>8, <1>9, <1>10, <1>11
        DEF Page, Control, Critical

\* Every step keeps what is known of a stopped machine.
LEMMA StopInvStep == Core /\ StopInv /\ [Next]_vars => StopInv'
<1> SUFFICES ASSUME Core, StopInv, [Next]_vars PROVE StopInv'
  OBVIOUS
<1>1. CASE Next
  BY <1>1, StopInvEmu, StopInvPage DEF Next, Emu, Page
<1>2. CASE UNCHANGED vars
  BY <1>2 DEF vars, state, emuVars, media, page, StopInv, PausingIsUp, IdleIsQuiet, IdleIsSaved
<1> QED BY <1>1, <1>2

\* A machine that is IDLE executes no guest code and waits for no disk block.
THEOREM StoppedIsQuiet == Spec => []IdleIsQuiet
<1>1. StopInv => IdleIsQuiet
  BY DEF StopInv
<1> QED BY CoreInit, CoreStep, StopInvInit, StopInvStep, <1>1, PTL DEF Spec

\* A machine that is IDLE has its CMOS in the NVR file: pcem_wasm_stop saves it
\* under the mutex and no slice can dirty it after.
THEOREM StoppedIsSaved == Spec => []IdleIsSaved
<1>1. StopInv => IdleIsSaved
  BY DEF StopInv
<1> QED BY CoreInit, CoreStep, StopInvInit, StopInvStep, <1>1, PTL DEF Spec

----------------------------------------------------------------------------
(* The CD drive *)

\* A page that has loaded names at most a disc that is in its slot, and no
\* machine is up.
LEMMA CdInit == Init => CdInv
<1> SUFFICES ASSUME Init PROVE CdInv
  OBVIOUS
<1>1. mounted = NoToken \/ Registered(mounted)
  BY DEF Init, Registered, Tokens
<1> QED BY <1>1 DEF Init, NoOp, CdInv, NamesLive, CdAgreesUnlessSlipped

\* A sweep that overtakes no pick spares exactly the disc it is told to keep.
LEMMA SweepSpares ==
    ASSUME NEW keep \in Tokens \cup {NoToken}, Sweep(keep),
           ~overtaken => keep = NoToken \/ Registered(keep), ~overtaken'
    PROVE  /\ ~overtaken
           /\ picked = NoToken
           /\ keep = NoToken \/ (keep \in Tokens /\ browserDisks[keep.slot] = keep.disc
                                               /\ browserDisks'[keep.slot] = keep.disc)
<1>1. ~overtaken /\ picked = NoToken
  BY DEF Sweep
<1>2. CASE keep = NoToken
  BY <1>1, <1>2
<1>3. CASE Registered(keep)
  <2>1. keep \in Tokens /\ browserDisks[keep.slot] = keep.disc
    BY <1>3 DEF Registered
  <2>2. keep.slot \in Slots /\ keep = [slot |-> keep.slot, disc |-> keep.disc]
    BY <2>1 DEF Tokens
  <2>3. browserDisks'[keep.slot] = keep.disc
    BY <2>1, <2>2 DEF Sweep
  <2> QED BY <1>1, <2>1, <2>3
<1> QED BY <1>1, <1>2, <1>3

\* The emulation thread changes neither the drive nor the page's names.
LEMMA CdEmu == ASSUME CdInv, Emu PROVE CdInv'
<1>1. UNCHANGED <<emu_state, media, page>>
  BY DEF Emu, EmuRuns, WantBurst, WantSecond, EmuLock, StartSlice, EndBurst, GuestWritesCmos,
     GuestPowersOff, GuestReads, FaultEnds, EndSlice, EmuUnlock, state
<1> QED BY <1>1 DEF media, page, CdInv, NamesLive, CdAgreesUnlessSlipped, Registered

\* Choosing a disc takes a free slot, hence not the drive's; a failed header
\* read gives back that slot.
LEMMA CdPick ==
    ASSUME Core, CdInv,
           HeaderRead \/ HeaderFails \/ \E s \in Slots, d \in Discs : UserPicksCd(s, d)
    PROVE  CdInv'
<1> USE NameAssumption DEF Core, TypeOK, CdInv, NamesLive, CdAgreesUnlessSlipped, Registered
<1>1. CASE HeaderRead
  BY <1>1 DEF HeaderRead, Enter, state
<1>2. CASE HeaderFails
  <2>0. picked \in Tokens
    BY <1>2 DEF HeaderFails
  <2>1. /\ UNCHANGED <<emu_state, core_cd, mounted, overtaken, main, call, gave_up>>
        /\ picked' = NoToken /\ picked # NoToken /\ main = "free"
        /\ browserDisks' = [browserDisks EXCEPT ![picked.slot] = NoDisc]
    BY <1>2 DEF HeaderFails, page, state
  <2>2. ~overtaken => picked.slot # mounted.slot /\ (mounted = NoToken \/ Registered(mounted))
    BY <2>1
  <2>3. Registered(mounted) /\ picked.slot # mounted.slot => Registered(mounted)'
    BY <2>0, <2>1 DEF Tokens
  <2> QED BY <2>1, <2>2, <2>3
<1>3. ASSUME NEW s \in Slots, NEW d \in Discs, UserPicksCd(s, d) PROVE CdInv'
  BY <1>3 DEF UserPicksCd, page, state, Tokens, NoToken
<1> QED BY <1>1, <1>2, <1>3

\* setCd's own half of a swap, whatever became of the core's: the page names the
\* disc it swapped in, and the sweep keeps that disc.
LEMMA SwapNames ==
    ASSUME Core, CdInv, main # "free", call.op \in {"cdload", "cdeject"},
           mounted' = call.arg, picked' = picked, call' = [op |-> "none", arg |-> NoToken], Sweep(call.arg)
    PROVE  NamesLive'
<1>1. call.arg \in Tokens \cup {NoToken}
  BY DEF Core, TypeOK
<1>2. ~overtaken => call.arg = NoToken \/ Registered(call.arg)
  BY DEF CdInv, NamesLive
<1>3. ~overtaken' => /\ picked = NoToken
                     /\ call.arg = NoToken \/ (call.arg \in Tokens
                            /\ browserDisks'[call.arg.slot] = call.arg.disc)
  BY <1>1, <1>2, SweepSpares
<1> QED BY <1>3 DEF NamesLive, Registered

\* A start and a swap change what the drive holds and what the page shows; they
\* and a stop sweep the slots with the new name; a swap that misses its deadline does
\* the page's half only.
LEMMA CdPage == ASSUME Core, StopInv, CdInv, Page PROVE CdInv'
<1> USE DEF Enter, Unlock, Inside
<1>1. CASE UserStart \/ UserEjectsCd \/ \E b \in BOOLEAN : UserStop(b) \/ UserPause(b) \/ UserReset(b)
  BY <1>1 DEF UserStart, UserEjectsCd, UserStop, UserPause, UserReset, state, media,
     CdInv, NamesLive, CdAgreesUnlessSlipped, Registered
<1>2. CASE TickStop
  BY <1>2 DEF TickStop, media, CdInv, NamesLive, CdAgreesUnlessSlipped, Registered
<1>3. CASE SetPausedState
  BY <1>3 DEF SetPausedState, media, StopInv, PausingIsUp, CdInv, NamesLive,
     CdAgreesUnlessSlipped, Registered
<1>4. CASE Lock
  BY <1>4 DEF Lock, state, media, CdInv, NamesLive, CdAgreesUnlessSlipped, Registered
<1>5. CASE LockFails
  <2>1. CdAgreesUnlessSlipped'
    BY <1>5, Zenon DEF LockFails, CdAgreesUnlessSlipped
  <2>2. call' = [op |-> "none", arg |-> NoToken] /\ picked' = picked
    BY <1>5 DEF LockFails
  <2>3. CASE call.op \in {"cdload", "cdeject"}
    <3>1. mounted' = call.arg /\ Sweep(call.arg)
      BY <1>5, <2>3 DEF LockFails, AfterCd
    <3>2. NamesLive'
      BY <1>5, <2>2, <2>3, <3>1, SwapNames DEF LockFails
    <3> QED BY <2>1, <3>2 DEF CdInv
  <2>4. CASE call.op \notin {"cdload", "cdeject"}
    BY <1>5, <2>1, <2>2, <2>4 DEF LockFails, CdInv, NamesLive, Registered
  <2> QED BY <2>3, <2>4
<1>6. CASE Stop
  <2>1. /\ emu_state' = "IDLE" /\ mounted' = mounted /\ picked' = picked
        /\ call' = [op |-> "none", arg |-> NoToken] /\ Sweep(mounted)
    BY <1>6 DEF Stop
  <2>2. ~overtaken' => /\ picked = NoToken
                       /\ mounted = NoToken \/ (mounted \in Tokens
                              /\ browserDisks'[mounted.slot] = mounted.disc)
    BY <2>1, SweepSpares DEF CdInv, NamesLive, Core, TypeOK
  <2> QED BY <2>1, <2>2 DEF CdInv, NamesLive, CdAgreesUnlessSlipped, Registered
<1>10. CASE StartFails \/ SoftReset
  BY <1>10 DEF StartFails, SoftReset, state, media, CdInv, NamesLive,
     CdAgreesUnlessSlipped, Registered
<1>7. CASE Start
  <2>1. /\ mounted' = mounted /\ picked' = picked
        /\ call' = [op |-> "none", arg |-> NoToken]
        /\ Sweep(mounted) /\ Opens(mounted.slot)
    BY <1>7 DEF Start
  <2>2. ~overtaken' => /\ picked = NoToken
                       /\ mounted = NoToken \/ (mounted \in Tokens
                              /\ browserDisks[mounted.slot] = mounted.disc
                              /\ browserDisks'[mounted.slot] = mounted.disc)
    BY <2>1, SweepSpares DEF CdInv, NamesLive, Core, TypeOK
  <2>3. NamesLive'
    BY <2>1, <2>2 DEF NamesLive, Registered
  <2>4. CdAgreesUnlessSlipped'
    BY <2>1, <2>2, NameAssumption DEF Opens, CdAgreesUnlessSlipped, Registered, NoToken
  <2> QED BY <2>3, <2>4 DEF CdInv
<1>8. CASE HardReset
  BY <1>8 DEF HardReset, Opens, state, CdInv, NamesLive, CdAgreesUnlessSlipped, Registered
<1>9. CASE SwapCd
  <2>1. /\ mounted' = call.arg /\ picked' = picked
        /\ call' = [op |-> "none", arg |-> NoToken]
        /\ Sweep(call.arg) /\ Opens(call.arg.slot)
        /\ call.op \in {"cdload", "cdeject"}
    BY <1>9 DEF SwapCd, AfterCd
  <2>2. NamesLive'
    BY <1>9, <2>1, SwapNames DEF SwapCd
  <2>3. ~overtaken' => call.arg = NoToken \/ (call.arg \in Tokens
                           /\ browserDisks'[call.arg.slot] = call.arg.disc)
    BY <2>1, <2>2 DEF NamesLive, Registered
  <2>4. CdAgreesUnlessSlipped'
    BY <2>1, <2>3, NameAssumption DEF Opens, CdAgreesUnlessSlipped, Registered, NoToken
  <2> QED BY <2>2, <2>4 DEF CdInv
<1> QED BY CdPick, <1>1, <1>2, <1>3, <1>4, <1>5, <1>6, <1>7, <1>8, <1>9, <1>10
        DEF Page, User, Control, Critical

\* Every step keeps the drive and the page's names in agreement.
LEMMA CdStep == Core /\ StopInv /\ CdInv /\ [Next]_vars => CdInv'
<1> SUFFICES ASSUME Core, StopInv, CdInv, [Next]_vars PROVE CdInv'
  OBVIOUS
<1>1. CASE Next
  BY <1>1, CdEmu, CdPage DEF Next, Emu, Page
<1>2. CASE UNCHANGED vars
  BY <1>2 DEF vars, state, media, page, CdInv, NamesLive, CdAgreesUnlessSlipped, Registered
<1> QED BY <1>1, <1>2

\* The inductive invariant holds throughout.
THEOREM Inductive == Spec => []IInv
<1>1. Init => IInv
  BY CoreInit, StopInvInit, CdInit DEF IInv
<1>2. IInv /\ [Next]_vars => IInv'
  BY CoreStep, StopInvStep, CdStep DEF IInv
<1> QED BY <1>1, <1>2, PTL DEF Spec

\* Through starts, hard resets, picks and swaps in any order, the drive is empty
\* or holds the disc the page shows, in a slot that is still registered - as long
\* as no control call missed its deadline and no sweep overtook a pick.
THEOREM DriveAgreesWithPage == Spec => []CdAgreesUnlessSlipped
<1>1. IInv => CdAgreesUnlessSlipped
  BY DEF IInv, CdInv
<1> QED BY Inductive, <1>1, PTL
=============================================================================
