---------------------------- MODULE NetLinkProofs ----------------------------
(***************************************************************************)
(* Proofs about NetLink, for any number of sockets and any sizes of the    *)
(* rings: the relay client never has two connections or one too many, and  *)
(* a machine that is up always has one or an attempt.                      *)
(***************************************************************************)
EXTENDS NetLink, FiniteSetTheorems, TLAPS

\* What the service knows of its sockets is so: the two it holds are live.
HeldInv ==
    /\ ws # NoSocket => socket[ws] \in {"connecting", "open"}
    /\ bc # NoSocket => socket[bc] = "channel"

\* Without a doubled start it knows all that are live, at most one; a stopped or
\* retrying service has none; and the status is the connection's.  A relay connection
\* belongs to an armed service, so its loss is seen as a failure.
OneInv == ~doubled =>
    /\ Live \subseteq {ws, bc}
    /\ ws = NoSocket \/ bc = NoSocket
    /\ stopped \/ retry => ws = NoSocket /\ bc = NoSocket
    /\ stopped => ~retry
    /\ ws # NoSocket => armed
    /\ status = "online" <=> (bc # NoSocket \/ (ws # NoSocket /\ socket[ws] = "open"))

\* A machine that is up and has, or will have after a reset, a backend has a service
\* that runs, and that service has a connection or a retry to come.
UpInv ==
    /\ net_enabled = armed
    /\ state # "IDLE" /\ (alive \/ armed) /\ ~refused =>
        /\ armed /\ ~stopped
        /\ ws # NoSocket \/ bc # NoSocket \/ retry

\* The inductive invariant.
IInv == TypeOK /\ HeldInv /\ OneInv /\ UpInv
Modes == {"relay", "local", "off"}

----------------------------------------------------------------------------
(* Helpers *)

\* The smaller of two sizes is one of them and not above either.
LEMMA SmallerOf ==
    ASSUME NEW a \in Nat, NEW b \in Nat
    PROVE  Smaller(a, b) \in Nat /\ Smaller(a, b) <= a /\ Smaller(a, b) <= b
  BY DEF Smaller

\* A socket that opens was free, and the others stay as they are.
LEMMA OpensFree ==
    ASSUME TypeOK, NEW s \in Sockets, NEW as, Opens(s, as)
    PROVE  /\ socket[s] = "free" /\ socket'[s] = as
           /\ \A t \in Sockets \ {s} : socket'[t] = socket[t]
  BY DEF Opens, TypeOK

\* The queue of the card stays within its headroom, and a pump takes no more than
\* there is.
LEMMA Pumped ==
    ASSUME TypeOK, NEW n, n = Smaller(Smaller(rx, PumpMax), Headroom - Polled)
    PROVE  rx - n \in 0 .. MaxRx /\ Polled + n \in 0 .. Headroom
<1> USE LinkAssumption DEF TypeOK
<1>1. Polled \in Nat /\ Polled <= Headroom
  BY DEF Polled
<1>2. Headroom - Polled \in Nat
  BY <1>1
<1>3. Smaller(rx, PumpMax) \in Nat /\ Smaller(rx, PumpMax) <= rx
  BY SmallerOf
<1> DEFINE a == Smaller(rx, PumpMax)
           room == Headroom - Polled
<1>4. a \in Nat /\ a <= rx /\ room \in Nat /\ n = Smaller(a, room)
  BY <1>2, <1>3
<1> HIDE DEF a, room
<1>5. n \in Nat /\ n <= a /\ n <= room
  BY <1>4, SmallerOf
<1> QED BY <1>1, <1>4, <1>5 DEF room

----------------------------------------------------------------------------
(* Types *)

\* A page that has just loaded has its types.
LEMMA TypeInit == Init => TypeOK
<1> SUFFICES ASSUME Init PROVE TypeOK
  OBVIOUS
<1>1. net_enabled \in BOOLEAN /\ alive \in BOOLEAN /\ deaf \in BOOLEAN /\ drain \in BOOLEAN /\ boot \in BOOLEAN
  BY Zenon DEF Init
<1>2. armed \in BOOLEAN /\ stopped \in BOOLEAN /\ retry \in BOOLEAN /\ doubled \in BOOLEAN /\ refused \in BOOLEAN
  BY Zenon DEF Init
<1> QED BY <1>1, <1>2, LinkAssumption DEF Init, TypeOK

\* The part of the page's types that a connection or a stop changes.
LinkTypeOK ==
    /\ retry \in BOOLEAN /\ status \in {"off", "connecting", "online", "error"}
    /\ ws \in Sockets \cup {NoSocket}
    /\ socket \in [Sockets -> {"free", "connecting", "open", "closing", "channel"}]

\* A failed attempt, an attempt under way and a stop keep the types.
LEMMA TypeConnect ==
    ASSUME TypeOK, NEW pending \in BOOLEAN, Connect(pending)
    PROVE  LinkTypeOK'
<1>1. CASE ConnectFailed /\ UNCHANGED <<ws, socket>>
  BY <1>1 DEF ConnectFailed, TypeOK, LinkTypeOK
<1>2. ASSUME NEW s \in Sockets, Opens(s, "connecting"), ws' = s, status' = "connecting", retry' = pending
      PROVE  LinkTypeOK'
  BY <1>2 DEF Opens, TypeOK, LinkTypeOK
<1> QED BY <1>1, <1>2 DEF Connect

LEMMA TypeStopped == TypeOK /\ MachineStopped => LinkTypeOK'
  BY DEF TypeOK, MachineStopped, RetryAfterStop, LinkTypeOK

\* Every step keeps the types.
LEMMA TypeStep == TypeOK /\ [Next]_vars => TypeOK'
<1> SUFFICES ASSUME TypeOK, [Next]_vars PROVE TypeOK'
  OBVIOUS
<1> USE LinkAssumption DEF TypeOK, core, card, page, links
<1>1. CASE Look BY <1>1 DEF Look
<1>2. CASE Push BY <1>2 DEF Push, Smaller
<1>3. CASE VlanTick BY <1>3, Pumped DEF VlanTick
<1>4. CASE Poke BY <1>4 DEF Poke
<1>5. CASE Tick BY <1>5 DEF Tick
<1>6. CASE DrainPop BY <1>6 DEF DrainPop
<1>7. CASE RetryFires
  <2>1. LinkTypeOK'
    BY <1>7, TypeConnect DEF RetryFires, LinkTypeOK
  <2> QED BY <1>7, <2>1 DEF RetryFires, LinkTypeOK
<1>8. ASSUME NEW s \in Sockets, OnOpen(s) PROVE TypeOK'
  BY <1>8 DEF OnOpen
<1>9. ASSUME NEW s \in Sockets, OnMessage(s) PROVE TypeOK'
  BY <1>9 DEF OnMessage, Smaller
<1>10. ASSUME NEW s \in Sockets, OnClose(s) PROVE TypeOK'
  <2>1. LinkTypeOK'
    <3>1. CASE IsCurrent(s) /\ ~stopped /\ armed
      BY <1>10, <3>1 DEF OnClose, ConnectFailed, IsCurrent, LinkTypeOK
    <3>2. CASE ~(IsCurrent(s) /\ ~stopped /\ armed)
      BY <1>10, <3>2 DEF OnClose, LinkTypeOK
    <3> QED BY <3>1, <3>2
  <2> QED BY <1>10, <2>1 DEF OnClose, LinkTypeOK
<1>11. ASSUME NEW m \in Modes, BootRefused(m) PROVE TypeOK'
  BY <1>11 DEF BootRefused, MachineStopped, RetryAfterStop, Modes
<1>12. ASSUME NEW m \in Modes, BootStarts(m) PROVE TypeOK'
  <2>1. armed' \in BOOLEAN /\ net_enabled' \in BOOLEAN /\ alive' \in BOOLEAN /\ deaf' \in BOOLEAN
    BY <1>12, Zenon DEF BootStarts, DeviceInit
  <2>2. doubled' \in BOOLEAN /\ refused' \in BOOLEAN /\ stopped' \in BOOLEAN /\ boot' \in BOOLEAN
    BY <1>12, Zenon DEF BootStarts, MachineStarted
  <2>3. LinkTypeOK' /\ bc' \in Sockets \cup {NoSocket} /\ drain' \in BOOLEAN
    <3>1. CASE m = "off"
      BY <1>12, <3>1 DEF BootStarts, MachineStarted, LinkTypeOK
    <3>2. CASE m = "local"
      BY <1>12, <3>2 DEF BootStarts, MachineStarted, Opens, LinkTypeOK
    <3>3. CASE m = "relay"
      BY <1>12, <3>3, TypeConnect DEF BootStarts, MachineStarted
    <3> QED BY <3>1, <3>2, <3>3 DEF Modes
  <2>4. /\ state' = "RUNNING" /\ mode' = m /\ push' = push /\ pokes' = pokes
        /\ tx' = 0 /\ rx' = 0 /\ slirpq' = 0
    BY <1>12 DEF BootStarts, DeviceInit
  <2> QED BY <2>1, <2>2, <2>3, <2>4 DEF LinkTypeOK, Modes
<1>13. ASSUME NEW b \in BOOLEAN, Stop(b) PROVE TypeOK'
  <2>1. boot' \in BOOLEAN
    BY <1>13, Zenon DEF Stop
  <2>2. CASE state' = "IDLE" /\ MachineStopped
    <3>1. LinkTypeOK'
      BY <2>2, TypeStopped
    <3> QED BY <1>13, <2>1, <2>2, <3>1 DEF Stop, MachineStopped, LinkTypeOK
  <2>3. CASE UNCHANGED <<state, net_enabled, armed, stopped, status, ws, bc, retry, links, drain>>
    BY <1>13, <2>1, <2>3 DEF Stop
  <2> QED BY <1>13, <2>2, <2>3 DEF Stop
<1>14. ASSUME NEW b \in BOOLEAN, SetPaused(b) PROVE TypeOK'
  BY <1>14 DEF SetPaused
<1>15. ASSUME NEW b \in BOOLEAN, SetLoopback(b) PROVE TypeOK'
  BY <1>15 DEF SetLoopback
<1>16. CASE HardReset BY <1>16 DEF HardReset, DeviceInit
<1>17. CASE UNCHANGED vars BY <1>17 DEF vars
<1> QED BY <1>1, <1>2, <1>3, <1>4, <1>5, <1>6, <1>7, <1>8, <1>9, <1>10, <1>11, <1>12, <1>13,
        <1>14, <1>15, <1>16, <1>17 DEF Next, Modes

----------------------------------------------------------------------------
(* The relay client's connections *)

\* The steps that are not the relay client's leave its fields and sockets alone.
LEMMA Elsewhere ==
    ASSUME HeldInv, OneInv, UNCHANGED <<page, links>>
    PROVE  HeldInv' /\ OneInv'
  BY DEF HeldInv, OneInv, Live, page, links

\* machineStopped closes what the service holds.
LEMMA StoppedKeeps ==
    ASSUME TypeOK, HeldInv, OneInv, MachineStopped
    PROVE  HeldInv' /\ OneInv'
  BY DEF MachineStopped, RetryAfterStop, TypeOK, HeldInv, OneInv, Live

\* A connection attempt of a service that holds nothing leaves it with one socket or
\* with a retry.
LEMMA ConnectKeeps ==
    ASSUME TypeOK, HeldInv, OneInv, NEW pending \in BOOLEAN, Connect(pending),
           UNCHANGED bc, doubled' \in BOOLEAN, doubled => doubled',
           stopped' = FALSE, armed' = TRUE,
           ~doubled' => ws = NoSocket /\ bc = NoSocket, pending => pending = retry,
           ~doubled' => ~pending
    PROVE  HeldInv' /\ OneInv'
<1>1. CASE ConnectFailed /\ UNCHANGED <<ws, socket>>
  BY <1>1 DEF ConnectFailed, TypeOK, HeldInv, OneInv, Live
<1>2. ASSUME NEW s \in Sockets, Opens(s, "connecting"), ws' = s, status' = "connecting", retry' = pending
      PROVE  HeldInv' /\ OneInv'
  BY <1>2, OpensFree, LinkAssumption DEF TypeOK, HeldInv, OneInv, Live
<1> QED BY <1>1, <1>2 DEF Connect

\* Each step keeps the service's knowledge of its sockets.
LEMMA OneStep == TypeOK /\ HeldInv /\ OneInv /\ [Next]_vars => HeldInv' /\ OneInv'
<1> SUFFICES ASSUME TypeOK, HeldInv, OneInv, [Next]_vars PROVE HeldInv' /\ OneInv'
  OBVIOUS
<1>1. CASE RetryFires
  <2>1. CASE stopped \/ ~armed
    BY <1>1, <2>1 DEF RetryFires, TypeOK, HeldInv, OneInv, Live
  <2>2. CASE ~stopped /\ armed
    BY <1>1, <2>2, ConnectKeeps DEF RetryFires, TypeOK, OneInv
  <2> QED BY <2>1, <2>2 DEF TypeOK
<1>2. ASSUME NEW s \in Sockets, OnOpen(s) PROVE HeldInv' /\ OneInv'
  BY <1>2, LinkAssumption DEF OnOpen, TypeOK, HeldInv, OneInv, Live
<1>3. ASSUME NEW s \in Sockets, OnClose(s) PROVE HeldInv' /\ OneInv'
  <2>1. CASE ws = s
    BY <1>3, <2>1, LinkAssumption DEF OnClose, IsCurrent, ConnectFailed, TypeOK, HeldInv, OneInv, Live
  <2>2. CASE ws # s
    BY <1>3, <2>2, LinkAssumption DEF OnClose, IsCurrent, TypeOK, HeldInv, OneInv, Live
  <2> QED BY <2>1, <2>2
<1>4. ASSUME NEW m \in Modes, BootRefused(m) PROVE HeldInv' /\ OneInv'
  BY <1>4, StoppedKeeps DEF BootRefused
<1>5. ASSUME NEW m \in Modes, BootStarts(m) PROVE HeldInv' /\ OneInv'
  <2>1. CASE m = "off"
    BY <1>5, <2>1 DEF BootStarts, MachineStarted, TypeOK, HeldInv, OneInv, Live
  <2>2. CASE m = "local"
    <3>1. PICK s \in Sockets : Opens(s, "channel") /\ bc' = s
      BY <1>5, <2>2 DEF BootStarts, MachineStarted
    <3>2. /\ socket[s] = "free" /\ socket'[s] = "channel"
          /\ \A t \in Sockets \ {s} : socket'[t] = socket[t]
      BY <3>1, OpensFree
    <3>3. status' = "online" /\ ws' = ws /\ retry' = retry /\ armed' = TRUE /\ stopped' = FALSE
      BY <1>5, <2>2 DEF BootStarts, MachineStarted
    <3>4. ~doubled' => ~doubled /\ stopped
      BY <1>5, Zenon DEF BootStarts, MachineStarted
    <3>5. HeldInv'
      BY <3>1, <3>2, <3>3, LinkAssumption DEF TypeOK, HeldInv
    <3>6. OneInv'
      BY <3>1, <3>2, <3>3, <3>4, LinkAssumption DEF TypeOK, HeldInv, OneInv, Live
    <3> QED BY <3>5, <3>6
  <2>3. CASE m = "relay"
    BY <1>5, <2>3, ConnectKeeps DEF BootStarts, MachineStarted, TypeOK, OneInv
  <2> QED BY <2>1, <2>2, <2>3 DEF Modes
<1>6. ASSUME NEW b \in BOOLEAN, Stop(b) PROVE HeldInv' /\ OneInv'
  <2>1. CASE MachineStopped
    BY <2>1, StoppedKeeps
  <2>2. CASE UNCHANGED <<page, links>>
    BY <2>2, Elsewhere
  <2> QED BY <1>6, <2>1, <2>2 DEF Stop, page
<1>7. CASE UNCHANGED <<page, links>>
  BY <1>7, Elsewhere
<1>8. CASE Look \/ Push \/ VlanTick \/ Poke \/ Tick \/ DrainPop \/ HardReset
  BY <1>7, <1>8 DEF Look, Push, VlanTick, Poke, Tick, DrainPop, HardReset
<1>9. ASSUME NEW b \in BOOLEAN, SetPaused(b) \/ SetLoopback(b) PROVE HeldInv' /\ OneInv'
  BY <1>7, <1>9 DEF SetPaused, SetLoopback
<1>10. ASSUME NEW s \in Sockets, OnMessage(s) PROVE HeldInv' /\ OneInv'
  BY <1>7, <1>10 DEF OnMessage
<1>11. CASE UNCHANGED vars
  BY <1>7, <1>11 DEF vars
<1> QED BY <1>1, <1>2, <1>3, <1>4, <1>5, <1>6, <1>8, <1>9, <1>10, <1>11 DEF Next, Modes

----------------------------------------------------------------------------
(* The machine's connection *)

\* Each step keeps a machine that is up supplied.
LEMMA UpStep == TypeOK /\ HeldInv /\ OneInv /\ UpInv /\ [Next]_vars => UpInv'
<1> SUFFICES ASSUME TypeOK, HeldInv, OneInv, UpInv, [Next]_vars PROVE UpInv'
  OBVIOUS
<1> USE DEF UpInv
<1>1. CASE RetryFires
  BY <1>1, LinkAssumption DEF RetryFires, Connect, ConnectFailed, core, TypeOK
<1>2. ASSUME NEW s \in Sockets, OnOpen(s) PROVE UpInv'
  BY <1>2 DEF OnOpen, core
<1>3. ASSUME NEW s \in Sockets, OnClose(s) PROVE UpInv'
  BY <1>3 DEF OnClose, IsCurrent, ConnectFailed, core
<1>4. ASSUME NEW m \in Modes, BootRefused(m) PROVE UpInv'
  BY <1>4 DEF BootRefused, MachineStopped
<1>5. ASSUME NEW m \in Modes, BootStarts(m) PROVE UpInv'
  BY <1>5, LinkAssumption DEF BootStarts, MachineStarted, DeviceInit, Connect, ConnectFailed, Modes
<1>6. ASSUME NEW b \in BOOLEAN, Stop(b) PROVE UpInv'
  <2>1. CASE state' = "IDLE" /\ MachineStopped
    BY <2>1 DEF MachineStopped
  <2>2. CASE UNCHANGED <<state, net_enabled, armed, stopped, status, ws, bc, retry, links, drain>>
    BY <1>6, <2>2 DEF Stop, links
  <2> QED BY <1>6, <2>1, <2>2 DEF Stop
<1>7. ASSUME NEW b \in BOOLEAN, SetPaused(b) PROVE UpInv'
  BY <1>7 DEF SetPaused, page, links
<1>8. CASE HardReset
  BY <1>8 DEF HardReset, DeviceInit, page, links
<1>9. ASSUME UNCHANGED <<state, net_enabled, alive, page, links>> PROVE UpInv'
  BY <1>9 DEF page, links
<1>10. CASE Look \/ Push \/ VlanTick \/ Poke \/ Tick \/ DrainPop
  BY <1>9, <1>10 DEF Look, Push, VlanTick, Poke, Tick, DrainPop, core
<1>11. ASSUME NEW b \in BOOLEAN, SetLoopback(b) PROVE UpInv'
  BY <1>9, <1>11 DEF SetLoopback
<1>12. ASSUME NEW s \in Sockets, OnMessage(s) PROVE UpInv'
  BY <1>9, <1>12 DEF OnMessage
<1>13. CASE UNCHANGED vars
  BY <1>9, <1>13 DEF vars, core
<1> QED BY <1>1, <1>2, <1>3, <1>4, <1>5, <1>6, <1>7, <1>8, <1>10, <1>11, <1>12, <1>13 DEF Next, Modes

----------------------------------------------------------------------------
(* The theorems *)

\* The inductive invariant holds throughout.
THEOREM Inductive == Spec => []IInv
<1>1. Init => HeldInv /\ OneInv /\ UpInv
  BY DEF Init, HeldInv, OneInv, UpInv, Live
<1>2. Init => IInv
  BY <1>1, TypeInit DEF IInv
<1>3. IInv /\ [Next]_vars => IInv'
  BY TypeStep, OneStep, UpStep DEF IInv
<1> QED BY <1>2, <1>3, PTL DEF Spec

\* Types of the network module.
THEOREM TypeCorrect == Spec => []TypeOK
<1>1. IInv => TypeOK
  BY DEF IInv
<1> QED BY Inductive, <1>1, PTL

\* The relay client has at most one live connection, the one it knows, none and no
\* retry after the machine has stopped, and its status tells whether it is up, unless
\* a machine was started over one that was not stopped: for any number of sockets.
THEOREM AtMostOneConnection == Spec => []OneConnectionUnlessDoubled
<1>1. IInv => OneConnectionUnlessDoubled
  <2> SUFFICES ASSUME IInv, ~doubled PROVE
        /\ Live \subseteq {ws, bc} /\ Cardinality(Live) <= 1
        /\ stopped => Live = {} /\ ~retry
        /\ retry => Live = {}
        /\ (status = "online") = (\E s \in Live : socket[s] # "connecting")
    BY DEF OneConnectionUnlessDoubled
  <2> USE LinkAssumption DEF IInv, TypeOK, HeldInv, OneInv
  <2>1. NoSocket \notin Live
    BY DEF Live
  <2>2. PICK x : Live \subseteq {x}
    BY <2>1
  <2>3. Cardinality(Live) <= 1
    <3>1. IsFiniteSet({x}) /\ Cardinality({x}) = 1
      BY FS_Singleton
    <3>2. Cardinality(Live) <= Cardinality({x})
      BY <2>2, <3>1, FS_Subset
    <3> QED BY <3>1, <3>2
  <2>4. (status = "online") = (\E s \in Live : socket[s] # "connecting")
    BY <2>1 DEF Live
  <2> QED BY <2>1, <2>3, <2>4
<1> QED BY Inductive, <1>1, PTL

\* A machine that is up with a backend has a connection, an attempt at one or a retry
\* to come, unless a refused boot has told the client that it stopped.
THEOREM AlwaysReconnects == Spec => []ReconnectsUnlessRefused
<1>1. IInv => ReconnectsUnlessRefused
  BY LinkAssumption DEF IInv, ReconnectsUnlessRefused, TypeOK, HeldInv, UpInv, Live
<1> QED BY Inductive, <1>1, PTL
==============================================================================
