------------------------------ MODULE EmuControl ------------------------------
(***************************************************************************)
(* The control plane of src/wasm/platform/wasm-main.c with the front end   *)
(* that drives it (src/web/js/ui.js): the emulation thread runs runpc()    *)
(* slices in bursts under emu_mutex, the browser main thread starts,       *)
(* stops, pauses and resets the machine and swaps its CD, taking emu_mutex *)
(* with a deadline.  A slice may miss a disk block and then waits, mutex   *)
(* held, for the main thread to serve it.                                  *)
(*                                                                         *)
(* One CD drive and one profile; a hard disk that is never detached.  A    *)
(* page names a CD by its token "browser:<slot>:<name>"; the core looks    *)
(* at the slot only.                                                       *)
(* Slices, backlog and wall clock are nondeterministic.  Floppy swaps have *)
(* the shape of a CD swap without a slot and are not modelled.             *)
(***************************************************************************)
EXTENDS Integers, FiniteSets

CONSTANTS
    Slots,      \* browser-disk slots a CD image can be registered in
    Discs,      \* the CD images the user has
    NoSlot,     \* an empty drive
    NoDisc      \* a free slot

ASSUME NameAssumption ==
    /\ NoSlot \notin Slots
    /\ NoDisc \notin Discs

VARIABLES
    emu_state, pause, stop_requested,
    emu_mutex,   \* its holder: "none", "emu" or "main"
    epc,         \* where the emulation thread is
    unsaved,     \* guest CMOS changes since NVR was last saved (nvr_dosave)
    main,        \* where the main thread is
    call,        \* the control call it is in: [op, arg]
    boot,        \* bootMachine waits to call start()
    core_cd,     \* the slot the core's image backend has open
    mounted,     \* the token in the profile and, while the machine is up, this.mounted.cd
    browserDisks, \* the disc registered in each slot
    picked,      \* the token whose header _swapCdFiles awaits
    gave_up,     \* history: a control call missed its deadline
    overtaken    \* history: a sweep ran while a header was awaited

emuVars == <<epc, unsaved>>
state == <<emu_state, pause, stop_requested>>
media == <<core_cd, mounted, browserDisks, picked, overtaken>>
page == <<main, call, boot, gave_up>>
vars == <<state, emu_mutex, emuVars, media, page>>

\* off: not created yet.  top: between bursts.  burst, second: waiting for
\* emu_mutex to run a burst or onesec().  check: the burst loop's condition.
\* slice: in runpc().  fault: in runpc(), waiting for a disk block.
\* leave: about to unlock.
EmuPlaces == {"off", "top", "burst", "second", "check", "slice", "fault", "leave"}
EmuInside == {"check", "slice", "fault", "leave"}

\* free: in the event loop.  timed, plain: waiting for emu_mutex.  inside: has
\* it.  pausing: between the two assignments of pcem_wasm_set_paused.
MainPlaces == {"free", "timed", "plain", "inside", "pausing"}
Ops == {"none", "start", "stop", "pause", "resume", "soft", "hard", "cdload", "cdeject"}
Tokens == [slot : Slots, disc : Discs]
NoToken == [slot |-> NoSlot, disc |-> NoDisc]
NoOp == [op |-> "none", arg |-> NoToken]

\* Is the token's disc the one in its slot?
Registered(token) == token \in Tokens /\ browserDisks[token.slot] = token.disc

TypeOK ==
    /\ emu_state \in {"IDLE", "RUNNING", "PAUSED"}
    /\ pause \in BOOLEAN /\ stop_requested \in BOOLEAN
    /\ emu_mutex \in {"none", "emu", "main"}
    /\ epc \in EmuPlaces
    /\ unsaved \in BOOLEAN
    /\ main \in MainPlaces
    /\ call \in [op : Ops, arg : Tokens \cup {NoToken}]
    /\ boot \in BOOLEAN
    /\ core_cd \in Slots \cup {NoSlot}
    /\ mounted \in Tokens \cup {NoToken}
    /\ browserDisks \in [Slots -> Discs \cup {NoDisc}]
    /\ picked \in Tokens \cup {NoToken}
    /\ gave_up \in BOOLEAN /\ overtaken \in BOOLEAN

\* The page has loaded; a profile may name a CD that was just attached.
Init ==
    /\ emu_state = "IDLE" /\ pause = FALSE /\ stop_requested = FALSE
    /\ emu_mutex = "none"
    /\ epc = "off" /\ unsaved = FALSE
    /\ main = "free" /\ call = NoOp /\ boot = FALSE /\ gave_up = FALSE
    /\ core_cd = NoSlot
    /\ mounted \in Tokens \cup {NoToken}
    /\ browserDisks = [s \in Slots |-> IF s = mounted.slot THEN mounted.disc ELSE NoDisc]
    /\ picked = NoToken /\ overtaken = FALSE

----------------------------------------------------------------------------
(* The emulation thread: emu_thread_fn *)

MayRun == emu_state = "RUNNING" /\ ~pause /\ ~stop_requested

WantBurst ==
    /\ epc = "top"
    /\ MayRun
    /\ epc' = "burst"
    /\ UNCHANGED <<state, emu_mutex, unsaved, media, page>>

\* A second has passed while running: onesec() wants the mutex, too.
WantSecond ==
    /\ epc = "top"
    /\ emu_state = "RUNNING"
    /\ epc' = "second"
    /\ UNCHANGED <<state, emu_mutex, unsaved, media, page>>

EmuLock ==
    /\ epc \in {"burst", "second"}
    /\ emu_mutex = "none"
    /\ emu_mutex' = "emu"
    /\ epc' = IF epc = "burst" THEN "check" ELSE "leave"
    /\ UNCHANGED <<state, unsaved, media, page>>

\* Mutant: the state is not looked at again under the mutex.
StartSliceUnchecked ==
    /\ epc = "check"
    /\ epc' = "slice"
    /\ UNCHANGED <<state, emu_mutex, unsaved, media, page>>

\* The loop's condition is evaluated again under the mutex.
StartSlice ==
    /\ epc = "check"
    /\ MayRun
    /\ epc' = "slice"
    /\ UNCHANGED <<state, emu_mutex, unsaved, media, page>>

\* The condition is false, the backlog is used up, or the wall cap is hit.
EndBurst ==
    /\ epc = "check"
    /\ epc' = "leave"
    /\ UNCHANGED <<state, emu_mutex, unsaved, media, page>>

GuestWritesCmos ==
    /\ epc = "slice"
    /\ unsaved' = TRUE
    /\ UNCHANGED <<state, emu_mutex, epc, media, page>>

\* ACPI power-off: stop_emulation_now() -> pcem_wasm_request_stop().  The CPU
\* gets no more cycles, but device timers may still run in this slice.
GuestPowersOff ==
    /\ epc = "slice"
    /\ stop_requested' = TRUE
    /\ UNCHANGED <<emu_state, pause, emu_mutex, emuVars, media, page>>

\* A read of an absent block, of the hard disk or the CD, posts to the mailbox.
GuestReads ==
    /\ epc = "slice"
    /\ epc' = "fault"
    /\ UNCHANGED <<state, emu_mutex, unsaved, media, page>>

\* Mutant: a mailbox without a deadline.
FaultEndsOnlyIfServed ==
    /\ epc = "fault"
    /\ main = "free"
    /\ epc' = "slice"
    /\ UNCHANGED <<state, emu_mutex, unsaved, media, page>>

\* Served by the main thread's event loop, or failed by the 15 s deadline.
FaultEnds ==
    /\ epc = "fault"
    /\ epc' = "slice"
    /\ UNCHANGED <<state, emu_mutex, unsaved, media, page>>

\* The slice ends; every 200 slices NVR is saved if the guest changed it.
EndSlice ==
    /\ epc = "slice"
    /\ epc' = "check"
    /\ unsaved' \in {unsaved, FALSE}
    /\ UNCHANGED <<state, emu_mutex, media, page>>

EmuUnlock ==
    /\ epc = "leave"
    /\ emu_mutex' = "none"
    /\ epc' = "top"
    /\ UNCHANGED <<state, unsaved, media, page>>

----------------------------------------------------------------------------
(* The browser main thread: requests of the user and of the guest *)

Enter(place, op, arg) ==
    /\ main' = place
    /\ call' = [op |-> op, arg |-> arg]

\* Mutant: the tick drops a stop that finds the machine paused.
TickStopIfRunning ==
    /\ main = "free"
    /\ stop_requested
    /\ stop_requested' = FALSE
    /\ IF emu_state # "RUNNING" THEN UNCHANGED <<main, call>> ELSE Enter("timed", "stop", NoToken)
    /\ UNCHANGED <<emu_state, pause, emu_mutex, emuVars, media, boot, gave_up>>

\* main_tick relays a requested stop.  pcem_wasm_stop ignores an idle machine.
TickStop ==
    /\ main = "free"
    /\ stop_requested
    /\ stop_requested' = FALSE
    /\ IF emu_state = "IDLE" THEN UNCHANGED <<main, call>> ELSE Enter("timed", "stop", NoToken)
    /\ UNCHANGED <<emu_state, pause, emu_mutex, emuVars, media, boot, gave_up>>

\* stop(), or bootMachine while a machine is up.
UserStop(booting) ==
    /\ main = "free"
    /\ emu_state # "IDLE"
    /\ Enter("timed", "stop", NoToken)
    /\ boot' = (boot \/ booting)
    /\ UNCHANGED <<state, emu_mutex, emuVars, media, gave_up>>

\* bootMachine's start(), at once or 50 ms after its stop(): pcem_wasm_start
\* refuses a running machine, and waits for emu_mutex without a deadline.
UserStart ==
    /\ main = "free"
    /\ boot \/ emu_state = "IDLE"
    /\ boot' = FALSE
    /\ IF emu_state = "RUNNING" THEN UNCHANGED <<main, call>> ELSE Enter("plain", "start", NoToken)
    /\ UNCHANGED <<state, emu_mutex, emuVars, media, gave_up>>

\* pcem_wasm_set_paused takes no lock.
UserPause(p) ==
    /\ main = "free"
    /\ emu_state # "IDLE"
    /\ pause' = p
    /\ Enter("pausing", IF p THEN "pause" ELSE "resume", NoToken)
    /\ UNCHANGED <<emu_state, stop_requested, emu_mutex, emuVars, media, boot, gave_up>>

\* Mutant: the request is stored as the state.
SetPausedOp ==
    /\ main = "pausing"
    /\ emu_state' = call.op
    /\ Enter("free", "none", NoToken)
    /\ UNCHANGED <<pause, stop_requested, emu_mutex, emuVars, media, boot, gave_up>>

SetPausedState ==
    /\ main = "pausing"
    /\ emu_state' = IF pause THEN "PAUSED" ELSE "RUNNING"
    /\ Enter("free", "none", NoToken)
    /\ UNCHANGED <<pause, stop_requested, emu_mutex, emuVars, media, boot, gave_up>>

UserReset(hard) ==
    /\ main = "free"
    /\ emu_state # "IDLE"
    /\ Enter("timed", IF hard THEN "hard" ELSE "soft", NoToken)
    /\ UNCHANGED <<state, emu_mutex, emuVars, media, boot, gave_up>>

\* _swapCdFiles up to its await: the chosen file takes a free slot.  Bound: one
\* header is awaited at a time.
UserPicksCd(s, d) ==
    /\ main = "free"
    /\ emu_state # "IDLE"
    /\ picked = NoToken
    /\ browserDisks[s] = NoDisc
    /\ browserDisks' = [browserDisks EXCEPT ![s] = d]
    /\ picked' = [slot |-> s, disc |-> d]
    /\ UNCHANGED <<state, emu_mutex, emuVars, core_cd, mounted, overtaken, page>>

\* The header has been read: setCd(path), ignored if the machine has stopped.
HeaderRead ==
    /\ main = "free"
    /\ picked # NoToken
    /\ picked' = NoToken
    /\ IF emu_state = "IDLE" THEN UNCHANGED <<main, call>> ELSE Enter("timed", "cdload", picked)
    /\ UNCHANGED <<state, emu_mutex, emuVars, core_cd, mounted, browserDisks, overtaken, boot, gave_up>>

\* The read fails: whatever is in its slot by now is unregistered.
HeaderFails ==
    /\ main = "free"
    /\ picked # NoToken
    /\ browserDisks' = [browserDisks EXCEPT ![picked.slot] = NoDisc]
    /\ picked' = NoToken
    /\ UNCHANGED <<state, emu_mutex, emuVars, core_cd, mounted, overtaken, page>>

UserEjectsCd ==
    /\ main = "free"
    /\ emu_state # "IDLE"
    /\ Enter("timed", "cdeject", NoToken)
    /\ UNCHANGED <<state, emu_mutex, emuVars, media, boot, gave_up>>

----------------------------------------------------------------------------
(* The browser main thread: control calls *)

\* sweepOrphanDisks: what neither the profile nor this.mounted names is freed.
Sweep(keep) ==
    /\ browserDisks' = [s \in Slots |->
            IF keep = [slot |-> s, disc |-> browserDisks[s]] THEN keep.disc ELSE NoDisc]
    /\ overtaken' = (overtaken \/ picked # NoToken)

\* Mutant: the sweep runs before this.mounted is updated.
AfterCdStale ==
    /\ mounted' = call.arg
    /\ Sweep(mounted)

\* What setCd does after the core call returns, whatever became of it.
AfterCd ==
    /\ mounted' = call.arg
    /\ Sweep(call.arg)

Lock ==
    /\ main \in {"timed", "plain"}
    /\ emu_mutex = "none"
    /\ emu_mutex' = "main"
    /\ main' = "inside"
    /\ UNCHANGED <<state, emuVars, media, call, boot, gave_up>>

\* emu_lock_timeout: the 2 s deadline passes, the call returns without acting.
\* Bursts are capped at 25 ms of wall time, so only a disk wait outlasts it.
LockFails ==
    /\ main = "timed"
    /\ epc = "fault"
    /\ gave_up' = TRUE
    /\ Enter("free", "none", NoToken)
    /\ IF call.op \in {"cdload", "cdeject"} THEN AfterCd ELSE UNCHANGED <<mounted, browserDisks, overtaken>>
    /\ UNCHANGED <<state, emu_mutex, emuVars, core_cd, picked, boot>>

Unlock ==
    /\ emu_mutex' = "none"
    /\ Enter("free", "none", NoToken)

Inside(op) == main = "inside" /\ call.op = op

\* Mutant: stopping does not save NVR.
StopWithoutNvr ==
    /\ Inside("stop")
    /\ emu_state' = "IDLE"
    /\ pause' = FALSE
    /\ Sweep(mounted)
    /\ Unlock
    /\ UNCHANGED <<stop_requested, emuVars, core_cd, mounted, picked, boot, gave_up>>

\* pcem_wasm_stop, and _stateChanged(IDLE) that it calls: this.mounted is
\* cleared, so the sweep spares what the profile names.
Stop ==
    /\ Inside("stop")
    /\ emu_state' = "IDLE"
    /\ pause' = FALSE
    /\ unsaved' = FALSE
    /\ Sweep(mounted)
    /\ Unlock
    /\ UNCHANGED <<stop_requested, epc, core_cd, mounted, picked, boot, gave_up>>

\* image_open of slot s, whatever it holds: an empty drive if it cannot be read.
Opens(s) == core_cd' \in {NoSlot} \cup {r \in Slots : r = s /\ browserDisks[r] # NoDisc}

\* loadconfig, loadbios, resetpchard, and the emulation thread on first use.
Start ==
    /\ Inside("start")
    /\ emu_state' = "RUNNING"
    /\ pause' = FALSE
    /\ stop_requested' = FALSE
    /\ unsaved' = FALSE
    /\ Opens(mounted.slot)
    /\ Sweep(mounted)
    /\ epc' = IF epc = "off" THEN "top" ELSE epc
    /\ Unlock
    /\ UNCHANGED <<mounted, picked, boot, gave_up>>

\* Mutant: the early return keeps the mutex.
StartFailsLocked ==
    /\ Inside("start")
    /\ Enter("free", "none", NoToken)
    /\ UNCHANGED <<emu_mutex, state, emuVars, media, boot, gave_up>>

\* loadbios fails: -2, nothing started.
StartFails ==
    /\ Inside("start")
    /\ Unlock
    /\ UNCHANGED <<state, emuVars, media, boot, gave_up>>

\* resetpc_cad only queues scan codes.
SoftReset ==
    /\ Inside("soft")
    /\ Unlock
    /\ UNCHANGED <<state, emuVars, media, boot, gave_up>>

\* resetpchard reloads NVR from its file and reopens the CD image.
HardReset ==
    /\ Inside("hard")
    /\ unsaved' = FALSE
    /\ Opens(core_cd)
    /\ Unlock
    /\ UNCHANGED <<state, epc, mounted, browserDisks, picked, overtaken, boot, gave_up>>

SwapCd ==
    /\ main = "inside"
    /\ call.op \in {"cdload", "cdeject"}
    /\ Opens(call.arg.slot)
    /\ AfterCd
    /\ Unlock
    /\ UNCHANGED <<state, emuVars, picked, boot, gave_up>>

----------------------------------------------------------------------------

EmuRuns == EmuLock \/ StartSlice \/ EndBurst \/ EmuUnlock

User ==
    \/ UserStart \/ UserEjectsCd \/ HeaderRead \/ HeaderFails
    \/ \E b \in BOOLEAN : UserStop(b) \/ UserPause(b) \/ UserReset(b)
    \/ \E s \in Slots, d \in Discs : UserPicksCd(s, d)

Control == SetPausedState \/ Lock \/ LockFails
Critical == Stop \/ Start \/ StartFails \/ SoftReset \/ HardReset \/ SwapCd

Next ==
    \/ EmuRuns \/ WantBurst \/ WantSecond
    \/ GuestWritesCmos \/ GuestPowersOff \/ GuestReads \/ FaultEnds \/ EndSlice
    \/ User \/ TickStop \/ Control \/ Critical

\* Threads run, disk waits end, frames come, a slice executes finitely many
\* instructions and a burst is capped in wall time.  Lock is strongly fair:
\* whether it keeps up or sheds its backlog, the emulation thread sleeps between
\* bursts while the main thread waits for emu_mutex.  The user, the guest and a
\* header that is awaited need not do anything.
Fairness ==
    /\ WF_vars(EmuRuns) /\ WF_vars(FaultEnds) /\ SF_vars(EndSlice) /\ SF_vars(EndBurst)
    /\ WF_vars(SetPausedState) /\ WF_vars(Critical)
    /\ SF_vars(Lock) /\ SF_vars(TickStop)

Spec == Init /\ [][Next]_vars /\ Fairness

----------------------------------------------------------------------------
(* Properties *)

\* emu_mutex is held exactly in the critical sections, on every path out of
\* them: the core is never changed by the page while the guest runs.
LockMatchesPlaces ==
    /\ emu_mutex = "emu" <=> epc \in EmuInside
    /\ emu_mutex = "main" <=> main = "inside"

\* A stopped machine is not executing: a burst decided on before the stop finds
\* out under the mutex.
IdleIsQuiet == emu_state = "IDLE" => epc \notin {"slice", "fault"}

\* "written by the core on Stop / autosave" (export.js): a stopped machine has
\* no CMOS change that is not in its file.
IdleIsSaved == emu_state = "IDLE" => ~unsaved

\* The drive is empty or holds the disc the page shows, and its slot is in use -
\* through starts, resets and swaps, as long as no control call has missed its
\* deadline and no swap or boot was made while a chosen disc's header was read.
CdAgreesUnlessSlipped ==
    ~gave_up /\ ~overtaken /\ emu_state # "IDLE" =>
        core_cd = NoSlot \/ (core_cd = mounted.slot /\ Registered(mounted))

\* Every control call gives the page its thread back, even while the emulation
\* thread holds the mutex in a disk wait that only the page can serve.
MainReturns == main # "free" ~> main = "free"

\* A guest that powers itself off is stopped, unless a call missed its deadline.
StopHappensUnlessGaveUp == stop_requested ~> emu_state = "IDLE" \/ gave_up

\* "it only posts a request; the main-thread UI tick performs the actual stop"
\* (wasm-main.c, stop_emulation_now).
StopHappens == stop_requested ~> emu_state = "IDLE"

\* "Never touches a slot that is still mounted in the running machine"
\* (ui.js, sweepOrphanDisks).
SweepSparesMounted ==
    emu_state # "IDLE" /\ core_cd # NoSlot => browserDisks[core_cd] # NoDisc
=============================================================================
