------------------------------- MODULE NetLink -------------------------------
(***************************************************************************)
(* The way of an ethernet frame between the guest and the relay: the       *)
(* NE2000's slirp calls and the two rings (src/wasm/platform/wasm-net.c),  *)
(* the page's relay client with its sockets and its retry timer            *)
(* (src/web/js/net.js), and the boots and stops that open and close them   *)
(* (src/web/js/ui.js).                                                     *)
(*                                                                         *)
(* Frames are counted; NetRing shows that each ring carries them whole and *)
(* in order.  A BroadcastChannel ("local") is a socket that is open from   *)
(* the start and never fails.  The emulation thread holds emu_mutex while  *)
(* it pushes or pumps, so that starts, stops and resets come in between;   *)
(* EmuControl has the mutex.                                               *)
(***************************************************************************)
EXTENDS Integers, FiniteSets

CONSTANTS
    Sockets, NoSocket,
    MaxTx, MaxRx,   \* frames that fit a ring
    PumpMax,        \* NET_PUMP_MAX_PER_TICK
    Headroom,       \* NET_QUEUE_HEADROOM, below MAX_QUEUE_SIZE of queue.c
    MaxPokes        \* bound: pokes on their way to the page; more change nothing

ASSUME LinkAssumption ==
    /\ NoSocket \notin Sockets
    /\ {MaxTx, MaxRx, PumpMax, Headroom, MaxPokes} \subseteq Nat \ {0}

VARIABLES
    state,           \* emu_state
    net_enabled,     \* a backend is wanted at the next device init
    alive,           \* net_instance.alive
    tx, rx,          \* frames in the rings
    slirpq,          \* frames in the card's queue
    deaf,            \* the card takes none: not set up by the guest, or in loopback
    push,            \* slirp_input: out, or the ring looked empty or busy to it
    pokes,           \* async calls of __pcemNetTx under way
    drain,           \* the page is in _drainTx
    boot,            \* bootMachine waits to call start()
    mode, armed, stopped, status, ws, bc, retry,   \* the fields of NetService
    socket,          \* what each is: free, connecting, open, closing, or an open channel
    doubled,         \* history: machineStarted without machineStopped before it
    refused          \* history: machineStopped, and the machine is still up

page == <<mode, armed, stopped, status, ws, bc, retry>>
links == <<socket, doubled, refused>>
card == <<slirpq, deaf>>
core == <<state, net_enabled, alive, tx, rx, card>>
vars == <<core, push, pokes, drain, boot, page, links>>

TypeOK ==
    /\ state \in {"IDLE", "RUNNING", "PAUSED"}
    /\ net_enabled \in BOOLEAN /\ alive \in BOOLEAN
    /\ tx \in 0 .. MaxTx /\ rx \in 0 .. MaxRx
    /\ slirpq \in 0 .. Headroom /\ deaf \in BOOLEAN
    /\ push \in {"out", "empty", "busy"} /\ pokes \in 0 .. MaxPokes
    /\ drain \in BOOLEAN /\ boot \in BOOLEAN
    /\ mode \in {"relay", "local", "off"}
    /\ armed \in BOOLEAN /\ stopped \in BOOLEAN /\ retry \in BOOLEAN
    /\ status \in {"off", "connecting", "online", "error"}
    /\ ws \in Sockets \cup {NoSocket} /\ bc \in Sockets \cup {NoSocket}
    /\ socket \in [Sockets -> {"free", "connecting", "open", "closing", "channel"}]
    /\ doubled \in BOOLEAN /\ refused \in BOOLEAN

Init ==
    /\ state = "IDLE" /\ net_enabled = FALSE /\ alive = FALSE
    /\ tx = 0 /\ rx = 0 /\ slirpq = 0 /\ deaf = TRUE
    /\ push = "out" /\ pokes = 0 /\ drain = FALSE /\ boot = FALSE
    /\ mode = "off" /\ armed = FALSE /\ stopped = TRUE /\ status = "off"
    /\ ws = NoSocket /\ bc = NoSocket /\ retry = FALSE
    /\ socket = [s \in Sockets |-> "free"]
    /\ doubled = FALSE /\ refused = FALSE

Smaller(a, b) == IF a < b THEN a ELSE b
Live == {s \in Sockets : socket[s] \in {"connecting", "open", "channel"}}

----------------------------------------------------------------------------
(* The emulation thread: the guest sends, the vlan timer brings frames in *)

\* slirp_input looks whether the ring is empty ...
Look ==
    /\ state = "RUNNING" /\ alive /\ push = "out"
    /\ push' = IF tx = 0 THEN "empty" ELSE "busy"
    /\ UNCHANGED <<core, pokes, drain, boot, page, links>>

\* ... and pushes the frame, which may not fit; then it pokes the page if the ring
\* was empty when it looked.
Push ==
    /\ push # "out"
    /\ push' = "out"
    /\ tx' = Smaller(tx + 1, MaxTx)
    /\ pokes' = IF tx < MaxTx /\ push = "empty" THEN Smaller(pokes + 1, MaxPokes) ELSE pokes
    /\ UNCHANGED <<state, net_enabled, alive, rx, card, drain, boot, page, links>>

\* Mutant: a frame the card does not want stays in the queue.
PolledAllOrNothing == IF deaf THEN slirpq ELSE 0

\* ne2000_poller: the whole queue goes to the card; a deaf one has one frame thrown away.
Polled == IF deaf /\ slirpq > 0 THEN slirpq - 1 ELSE 0

\* vlan_poller: the card's poller, registered first, then wasm_net_pump.
VlanTick ==
    /\ state = "RUNNING" /\ alive /\ push = "out"
    /\ LET n == Smaller(Smaller(rx, PumpMax), Headroom - Polled)
       IN  rx' = rx - n /\ slirpq' = Polled + n
    /\ UNCHANGED <<state, net_enabled, alive, tx, deaf, push, pokes, drain, boot, page, links>>

\* The guest sets the loopback bits of the card.
SetLoopback(l) ==
    /\ state = "RUNNING" /\ alive /\ push = "out"
    /\ deaf' = l
    /\ UNCHANGED <<state, net_enabled, alive, tx, rx, slirpq, push, pokes, drain, boot, page, links>>

----------------------------------------------------------------------------
(* The page's main thread: sending *)

MainFree == ~drain

Poke ==
    /\ MainFree /\ pokes > 0
    /\ pokes' = pokes - 1
    /\ drain' = TRUE
    /\ UNCHANGED <<core, push, boot, page, links>>

\* Mutant: the tick relies on the pokes.
PendingIfPoked == alive /\ tx # 0 /\ pokes # 0

\* wasm_net_tx_pending
Pending == alive /\ tx # 0

\* main_tick's backstop.
Tick ==
    /\ MainFree /\ Pending
    /\ drain' = TRUE
    /\ UNCHANGED <<core, push, pokes, boot, page, links>>

\* _drainTx pops one frame after the other, sent or thrown away, until there is none.
DrainPop ==
    /\ drain
    /\ tx' = IF tx = 0 THEN 0 ELSE tx - 1
    /\ drain' = (tx # 0)
    /\ UNCHANGED <<state, net_enabled, alive, rx, card, push, pokes, boot, page, links>>

----------------------------------------------------------------------------
(* The page's main thread: the relay client *)

\* Mutant: the retry is set up by the first failure only.
ConnectFailedOnce ==
    /\ retry' = (status # "error")
    /\ status' = "error"

\* _connectFailed, which only a machine that runs gets to: one timer, set anew.
ConnectFailed ==
    /\ status' = "error"
    /\ retry' = TRUE

\* A new socket.  Bound: one is free.
Opens(s, as) ==
    /\ socket[s] = "free"
    /\ s = CHOOSE f \in Sockets : socket[f] = "free"
    /\ socket' = [socket EXCEPT ![s] = as]

\* _connect: the constructor may throw.
Connect(pending) ==
    \/ ConnectFailed /\ UNCHANGED <<ws, socket>>
    \/ \E s \in Sockets : Opens(s, "connecting") /\ ws' = s /\ status' = "connecting" /\ retry' = pending

\* ws.onopen, of whichever socket.
OnOpen(s) ==
    /\ MainFree /\ socket[s] = "connecting"
    /\ socket' = [socket EXCEPT ![s] = "open"]
    /\ status' = "online" /\ drain' = TRUE
    /\ UNCHANGED <<core, push, pokes, boot, mode, armed, stopped, ws, bc, retry, doubled, refused>>

\* ws.onmessage and bc.onmessage, of whichever socket, and wasm_net_rx_push.
OnMessage(s) ==
    /\ MainFree /\ socket[s] \in {"open", "channel"}
    /\ rx' = IF alive THEN Smaller(rx + 1, MaxRx) ELSE rx
    /\ UNCHANGED <<state, net_enabled, alive, tx, card, push, pokes, drain, boot, page, links>>

\* Mutant: the event of any socket counts.
IsCurrentAlways(s) == s \in Sockets

IsCurrent(s) == ws = s

\* ws.onclose: the socket could not connect, was lost, or has been closed.
OnClose(s) ==
    /\ MainFree /\ socket[s] \in {"connecting", "open", "closing"}
    /\ socket' = [socket EXCEPT ![s] = "free"]
    /\ ws' = IF IsCurrent(s) THEN NoSocket ELSE ws
    /\ IF IsCurrent(s) /\ ~stopped /\ armed THEN ConnectFailed ELSE UNCHANGED <<status, retry>>
    /\ UNCHANGED <<core, push, pokes, drain, boot, mode, armed, stopped, bc, doubled, refused>>

RetryFires ==
    /\ MainFree /\ retry
    /\ IF stopped \/ ~armed
       THEN retry' = FALSE /\ UNCHANGED <<status, ws, socket>>
       ELSE Connect(FALSE)
    /\ UNCHANGED <<core, push, pokes, drain, boot, mode, armed, stopped, bc, doubled, refused>>

\* machineStarted; the configuration is that of configureForBoot.
MachineStarted(m) ==
    /\ stopped' = FALSE
    /\ doubled' = (doubled \/ ~stopped)
    /\ refused' = FALSE
    /\ \/ m = "off" /\ status' = "off" /\ UNCHANGED <<ws, bc, retry, socket, drain>>
       \/ /\ m = "local"
          /\ \E s \in Sockets : Opens(s, "channel") /\ bc' = s
          /\ status' = "online" /\ drain' = TRUE
          /\ UNCHANGED <<ws, retry>>
       \/ m = "relay" /\ Connect(retry) /\ UNCHANGED <<bc, drain>>

\* Mutant: the pending retry survives.
RetryAfterStopKept == UNCHANGED retry

RetryAfterStop == retry' = FALSE

\* machineStopped
MachineStopped ==
    /\ stopped' = TRUE /\ armed' = FALSE /\ net_enabled' = FALSE
    /\ RetryAfterStop
    /\ socket' = [s \in Sockets |-> IF s = ws THEN "closing" ELSE IF s = bc THEN "free" ELSE socket[s]]
    /\ ws' = NoSocket /\ bc' = NoSocket
    /\ status' = "off"
    /\ refused' = (state' # "IDLE")
    /\ UNCHANGED <<drain, doubled>>

----------------------------------------------------------------------------
(* The page's main thread: starts, stops and resets *)

\* ne2000_close and ne2000_init: slirp_cleanup, slirp_new if a backend is wanted.
DeviceInit(wanted) ==
    /\ alive' = wanted
    /\ tx' = 0 /\ rx' = 0 /\ slirpq' = 0 /\ deaf' = TRUE

\* pcem_wasm_stop of the user, of a boot or of the tick, and _stateChanged(IDLE); it
\* gives up on a slice that waits for a disk.
Stop(booting) ==
    /\ MainFree /\ state # "IDLE"
    /\ boot' = (boot \/ booting)
    /\ \/ /\ push = "out"
          /\ state' = "IDLE"
          /\ MachineStopped
       \/ UNCHANGED <<state, net_enabled, armed, stopped, status, ws, bc, retry, links, drain>>
    /\ UNCHANGED <<alive, tx, rx, card, push, pokes, mode>>

\* The rest of bootMachine: configureForBoot, then start() refuses a running
\* machine or finds no ROMs ...
BootRefused(m) ==
    /\ MainFree /\ (boot \/ state = "IDLE")
    /\ boot' = FALSE
    /\ mode' = m
    /\ UNCHANGED state
    /\ MachineStopped
    /\ UNCHANGED <<alive, tx, rx, card, push, pokes>>

\* ... or has started it.
BootStarts(m) ==
    /\ MainFree /\ push = "out" /\ (boot \/ state = "IDLE") /\ state # "RUNNING"
    /\ boot' = FALSE
    /\ mode' = m /\ armed' = (m # "off") /\ net_enabled' = (m # "off")
    /\ state' = "RUNNING"
    /\ DeviceInit(m # "off")
    /\ MachineStarted(m)
    /\ UNCHANGED <<push, pokes>>

HardReset ==
    /\ MainFree /\ push = "out" /\ state # "IDLE"
    /\ DeviceInit(net_enabled)
    /\ UNCHANGED <<state, net_enabled, push, pokes, drain, boot, page, links>>

SetPaused(p) ==
    /\ MainFree /\ state # "IDLE"
    /\ state' = IF p THEN "PAUSED" ELSE "RUNNING"
    /\ UNCHANGED <<net_enabled, alive, tx, rx, card, push, pokes, drain, boot, page, links>>

----------------------------------------------------------------------------

Next ==
    \/ Look \/ Push \/ VlanTick
    \/ Poke \/ Tick \/ DrainPop \/ RetryFires
    \/ \E s \in Sockets : OnOpen(s) \/ OnMessage(s) \/ OnClose(s)
    \/ \E m \in {"relay", "local", "off"} : BootRefused(m) \/ BootStarts(m)
    \/ \E b \in BOOLEAN : Stop(b) \/ SetPaused(b) \/ SetLoopback(b)
    \/ HardReset

\* A slice goes on and the vlan timer fires in it whatever is sent (SF: a push is one
\* instruction), the tick comes with every frame of the display and
\* _drainTx returns or pops on.
Spec ==
    /\ Init /\ [][Next]_vars
    /\ WF_vars(Push) /\ SF_vars(VlanTick)
    /\ WF_vars(Tick) /\ WF_vars(DrainPop)

----------------------------------------------------------------------------
(* Properties *)

\* A frame from the relay reaches the machine once, and one for an earlier machine
\* never: the live connections are those the service knows, at most one; none, and no
\* retry to open one, after the machine has stopped; and the status tells whether it is up.
\* Unless a boot has met a paused machine whose stop gave up: machineStarted then opens
\* a second connection and forgets the first, whose onmessage goes on.
OneConnectionUnlessDoubled ==
    ~doubled =>
        /\ Live \subseteq {ws, bc} /\ Cardinality(Live) <= 1
        /\ stopped => Live = {} /\ ~retry
        /\ retry => Live = {}
        /\ (status = "online") = (\E s \in Live : socket[s] # "connecting")

\* "The machine keeps running with its network cable unplugged; reconnecting in the
\* background" (net.js:195): while a machine with a backend is up there is a connection, or
\* an attempt, or a timer for one.  Unless a refused boot has called machineStopped on
\* the machine that is still up.
ReconnectsUnlessRefused ==
    /\ TypeOK
    /\ state # "IDLE" /\ alive /\ ~refused => bc # NoSocket \/ retry \/ ws \in Live

\* "main_tick()'s wasm_net_tx_pending() poll is the backstop" (wasm-net.c:352): a frame
\* in the ring does not wait for the next one, though the page is poked only by a push
\* onto a ring that looked empty, and may have drained the frame it saw by then.
FramesAreDrained == tx > 0 ~> drain \/ tx = 0

\* A full receive ring gets room again, whether the card takes frames or is in loopback:
\* the queue between them, which loses what it has no room for, stays below its
\* headroom and is emptied by the poller.
RxMoves == rx = MaxRx ~> rx < MaxRx \/ state # "RUNNING"
=============================================================================
