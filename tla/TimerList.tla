------------------------------ MODULE TimerList ------------------------------
(***************************************************************************)
(* The core's timers (src/core/src/timer.c): a doubly linked list of the   *)
(* enabled ones, sorted by 32-bit time stamps that wrap, driven by the     *)
(* processor's counter (tsc), and the two 386 loops that run slices of     *)
(* instructions and process the list between them.                         *)
(*                                                                         *)
(* One thread does all of it.  What makes it hard: a callback, or the I/O  *)
(* of an instruction, changes the list while others walk it; stamps        *)
(* compare by a signed difference; and timer_target, a copy of the head's  *)
(* stamp, is refreshed in some of the operations only.  The fractions of   *)
(* the stamps are left out: they make some delays one longer.              *)
(***************************************************************************)
EXTENDS Integers, FiniteSets

CONSTANTS
    Timers,
    SoundPoll,   \* the one timer every machine has: started by sound_reset
    NoTimer,
    Latch,       \* sound_poll_latch
    Wrap,        \* what stamps and the low half of tsc wrap at, 2^32
    Delays,      \* what timers are armed with
    Costs,       \* cycles of an instruction
    Slice,       \* cyc_period of exec386_dynarec
    Strays       \* values a guest writes to the counter (WRMSR 10h)

\* timer.h:17: a delay is below half of what stamps wrap at.  It has to stay below it
\* even against a stamp that is overdue, by a period of the interpreter (the longest
\* delay) or a slice, and an instruction; and the history has to tell how late a timer
\* is by such a period, at most the sound's, and an instruction.
ASSUME TimerAssumption ==
    /\ IsFiniteSet(Timers) /\ SoundPoll \in Timers /\ NoTimer \notin Timers
    /\ Latch \in Delays /\ Wrap \in Nat /\ Wrap % 2 = 0 /\ Delays \subseteq Nat \ {0} /\ Costs \subseteq Nat \ {0}
    /\ Slice \in Nat \ {0} /\ Strays \subseteq 0 .. Wrap - 1
    /\ \A d \in Delays, e \in Delays \cup {Slice}, c \in Costs : d + e + c <= Wrap \div 2
    /\ Costs # {}
    /\ \A e \in {Latch, Slice}, c \in Costs : e + c <= ((Wrap \div 2) \div 2) + 1

VARIABLES
    list,              \* timer_head and the links of all timers
    enabled, valid,    \* the timers with enabled set, and with the right magic
    ts, tsc,           \* stamps and counter
    target,            \* timer_target
    cpu,               \* which loop runs the machine
    at,                \* boot, outer, slice, process (timer_process) or callback
    room,              \* cycles left in the inner loop
    acted,             \* the instruction or callback has used its one operation
    current,           \* the timer called back
    left,              \* history: when each timer is due, as seen from now
    adrift             \* history: some stamp is not the time its timer is due

timers == <<list, enabled, valid, ts, target, left, adrift>>
vars == <<timers, tsc, cpu, at, room, acted, current>>

Half == Wrap \div 2
Stamps == 0 .. Wrap - 1
Overdue == -(Half \div 2)   \* what the history tells of lateness
Ours == Timers \ {SoundPoll}
MaybeTimer == Timers \cup {NoTimer}

TypeOK ==
    /\ list \in [head : MaybeTimer, next : [Timers -> MaybeTimer], prev : [Timers -> MaybeTimer]]
    /\ enabled \subseteq Timers /\ valid \subseteq Timers
    /\ ts \in [Timers -> Stamps] /\ tsc \in Stamps /\ target \in Stamps
    /\ cpu \in {"386", "dynarec"}
    /\ at \in {"boot", "outer", "slice", "process", "callback"}
    /\ room \in -Half .. Half /\ acted \in BOOLEAN /\ current \in MaybeTimer
    /\ left \in [Timers -> Overdue .. Overdue + Half] /\ adrift \in BOOLEAN

----------------------------------------------------------------------------
(* The list *)

\* Mutant: the stamps are compared as they are.
LeqPlain(a, b) == a <= b

\* TIMER_LESS_THAN and its kin: the signed difference is not positive.
Leq(a, b) == (a - b) % Wrap \in {0} \cup Half .. Wrap - 1

Signed(a) == IF a % Wrap < Half THEN a % Wrap ELSE (a % Wrap) - Wrap

\* Mutant: the timer behind keeps its link to the one removed.
WithoutForwardOnly(l, t) ==
    [head |-> IF l.head = t THEN l.next[t] ELSE l.head,
     next |-> [x \in Timers |-> CASE x = t -> NoTimer [] x = l.prev[t] -> l.next[t] [] OTHER -> l.next[x]],
     prev |-> [l.prev EXCEPT ![t] = NoTimer]]

\* timer_disable and timer_remove_head: t is linked out.
Without(l, t) ==
    [head |-> IF l.prev[t] = NoTimer THEN l.next[t] ELSE l.head,
     next |-> [x \in Timers |-> CASE x = t -> NoTimer [] x = l.prev[t] -> l.next[t] [] OTHER -> l.next[x]],
     prev |-> [x \in Timers |-> CASE x = t -> NoTimer [] x = l.next[t] -> l.prev[t] [] OTHER -> l.prev[x]]]

\* The nodes from the head on, and NoTimer once they end.
Walk(l) ==
    LET w[i \in 1 .. Cardinality(Timers)] ==
            IF i = 1 THEN l.head ELSE IF w[i - 1] = NoTimer THEN NoTimer ELSE l.next[w[i - 1]]
    IN  w

\* timer_enable's walk: t goes in front of the first that does not expire before it,
\* or behind the last.
With(l, t, stamp) ==
    LET w == Walk(l)
        stop == CHOOSE i \in 1 .. Cardinality(Timers) :
                    /\ w[i] = NoTimer \/ Leq(stamp, ts[w[i]])
                    /\ \A j \in 1 .. i - 1 : w[j] # NoTimer /\ ~Leq(stamp, ts[w[j]])
        n == w[stop]
        p == IF stop = 1 THEN NoTimer ELSE w[stop - 1]
    IN  [head |-> IF p = NoTimer THEN t ELSE l.head,
         next |-> [x \in Timers |-> CASE x = t -> n [] x = p -> t [] OTHER -> l.next[x]],
         prev |-> [x \in Timers |-> CASE x = t -> p [] x = n -> t [] OTHER -> l.prev[x]]]

\* Mutant: only the first timer of an empty list becomes the target.
NewTargetIfFirst(l, t, stamp) == IF l.head = t /\ l.next[t] = NoTimer THEN stamp ELSE target

\* A new head is the new target.
NewTarget(l, t, stamp) == IF l.head = t THEN stamp ELSE target

\* timer_enable, after the stamp has been set; one that is enabled is disabled first.
Enable(t, stamp) ==
    /\ ts' = [ts EXCEPT ![t] = stamp]
    /\ IF t \in valid'
       THEN /\ list' = With(IF t \in enabled THEN Without(list, t) ELSE list, t, stamp)
            /\ enabled' = enabled \cup {t}
            /\ target' = NewTarget(list', t, stamp)
       ELSE UNCHANGED <<list, enabled, target>>

----------------------------------------------------------------------------
(* What devices do to timers, in an instruction or in a callback *)

\* Timer t is now due at this time, which its stamp says or not.
Due(t, when, stray) ==
    /\ adrift' = (adrift \/ stray)
    /\ left' = IF adrift' THEN [x \in Timers |-> 0] ELSE [left EXCEPT ![t] = when]

\* Bound: once the history is adrift, callbacks go on changing the list and
\* instructions do not.
MayAct ==
    \/ at = "boot"
    \/ at = "slice" /\ room > 0 /\ ~acted /\ ~adrift
    \/ at = "callback" /\ ~acted

Acted == acted' = (at # "boot") /\ UNCHANGED <<valid, tsc, cpu, at, room, current>>

SetDelay(t, d) ==   \* timer_set_delay_u64
    /\ MayAct /\ Acted
    /\ Enable(t, (tsc + d) % Wrap)
    /\ Due(t, d, FALSE)

\* timer_advance_u64: the delay counts from the stamp, of a timer called back or not.
\* A stamp overdue for long, of a timer disabled since (pc200_out, on a change of
\* display), may sort anywhere; the history takes every one that is due for it.
Advance(t, d) ==
    /\ MayAct /\ Acted /\ at # "boot"
    /\ Enable(t, (ts[t] + d) % Wrap)
    /\ Due(t, left[t] + d,
           t # current /\ (left[t] = Overdue \/ left[t] + d \notin 1 .. Overdue + Half - 1))

Disable(t) ==
    /\ MayAct /\ Acted
    /\ t \in enabled
    /\ list' = Without(list, t)
    /\ enabled' = enabled \ {t}
    /\ UNCHANGED <<ts, target, left, adrift>>

\* WRMSR 10h sets the counter the timers run on.
WriteTsc(v) ==
    /\ MayAct /\ at = "slice" /\ v # tsc
    /\ tsc' = v /\ acted' = TRUE
    /\ adrift' = TRUE /\ left' = [x \in Timers |-> 0]
    /\ UNCHANGED <<list, enabled, valid, ts, target, cpu, at, room, current>>

\* The I/O handlers that first bring the timers up to date (pit_set_using_timer,
\* the keyboard controllers' port 61h).
ProcessNow ==
    /\ MayAct /\ at = "slice"
    /\ at' = "process" /\ acted' = TRUE
    /\ UNCHANGED <<timers, tsc, cpu, room, current>>

----------------------------------------------------------------------------
(* Boot: timer_reset, then sound_reset and the devices register their timers, *)
(* Timers being those of the machine                                          *)

OnlySound == [head |-> SoundPoll, next |-> [t \in Timers |-> NoTimer], prev |-> [t \in Timers |-> NoTimer]]
Zeros == [t \in Timers |-> 0]

Init ==
    /\ list = OnlySound /\ enabled = {SoundPoll} /\ valid = {SoundPoll}
    /\ ts = Zeros /\ tsc = 0 /\ target = 0
    /\ cpu \in {"386", "dynarec"}
    /\ at = "boot" /\ room = 0 /\ acted = FALSE /\ current = NoTimer
    /\ left = Zeros /\ adrift = FALSE

\* Other stamps stay, but timer_add clears them.
Reset ==
    /\ at = "outer"
    /\ list' = OnlySound /\ enabled' = {SoundPoll} /\ valid' = {SoundPoll}
    /\ ts' = Zeros /\ tsc' = 0 /\ target' = 0
    /\ at' = "boot" /\ room' = 0 /\ acted' = FALSE
    /\ left' = Zeros /\ adrift' = FALSE
    /\ UNCHANGED <<cpu, current>>

Add(t, start) ==   \* timer_add
    /\ at = "boot"
    /\ valid' = valid \cup {t}
    /\ IF start
       THEN Enable(t, tsc)
       ELSE /\ list' = IF t \in enabled THEN Without(list, t) ELSE list
            /\ enabled' = enabled \ {t}
            /\ ts' = [ts EXCEPT ![t] = 0]
            /\ UNCHANGED target
    /\ Due(t, 0, FALSE)
    /\ UNCHANGED <<tsc, cpu, at, room, acted, current>>

----------------------------------------------------------------------------
(* The processor's loop *)

\* exec386 runs up to the target as it is now; exec386_dynarec a fixed period.
BeginSlice ==
    /\ at \in {"boot", "outer"} /\ valid = Timers
    /\ at' = "slice" /\ acted' = FALSE
    /\ room' = IF cpu = "386" THEN Signed(target - tsc) + 1 ELSE Slice
    /\ UNCHANGED <<timers, tsc, cpu, current>>

Run(c) ==
    /\ at = "slice" /\ room > 0
    /\ tsc' = (tsc + c) % Wrap
    /\ room' = room - c /\ acted' = FALSE
    /\ left' = IF adrift THEN left
               ELSE [t \in Timers |-> IF left[t] - c < Overdue THEN Overdue ELSE left[t] - c]
    /\ UNCHANGED <<list, enabled, valid, ts, target, cpu, at, current, adrift>>

EndSlice ==
    /\ at = "slice" /\ room <= 0
    /\ at' = IF Leq(target, tsc) THEN "process" ELSE "outer"
    /\ UNCHANGED <<timers, tsc, cpu, room, acted, current>>

HeadIsDue == list.head # NoTimer /\ Leq(ts[list.head], tsc)

\* timer_process takes the head if it is due ...
Fire ==
    /\ at = "process"
    /\ HeadIsDue
    /\ current' = list.head
    /\ list' = Without(list, list.head)
    /\ enabled' = enabled \ {list.head}
    /\ at' = "callback" /\ acted' = FALSE
    /\ UNCHANGED <<valid, ts, tsc, target, cpu, room, left, adrift>>

\* Mutant: sound_poll does not advance its timer.
ReturnsWithoutAdvance == UNCHANGED timers

\* ... and calls it back; sound_poll always advances its timer.
Returns ==
    IF current = SoundPoll
    THEN /\ UNCHANGED valid
         /\ Enable(SoundPoll, (ts[SoundPoll] + Latch) % Wrap)
         /\ Due(SoundPoll, left[SoundPoll] + Latch, FALSE)
    ELSE UNCHANGED timers

Return ==
    /\ at = "callback"
    /\ Returns
    /\ at' = "process" /\ acted' = TRUE /\ current' = NoTimer
    /\ UNCHANGED <<tsc, cpu, room>>

\* It ends with the target at the head, if there is one.
EndProcess ==
    /\ at = "process"
    /\ ~HeadIsDue
    /\ target' = IF list.head = NoTimer THEN target ELSE ts[list.head]
    /\ at' = IF room > 0 THEN "slice" ELSE "outer"
    /\ UNCHANGED <<list, enabled, valid, ts, left, adrift, tsc, cpu, room, acted, current>>

----------------------------------------------------------------------------

Proceed == BeginSlice \/ (\E c \in Costs : Run(c)) \/ EndSlice \/ Fire \/ Return \/ EndProcess

Next ==
    \/ Proceed
    \/ \E t \in Ours, d \in Delays : SetDelay(t, d) \/ Advance(t, d)
    \/ \E t \in Ours : Disable(t)
    \/ \E v \in Strays : WriteTsc(v)
    \/ ProcessNow \/ Reset
    \/ \E t \in Ours, start \in BOOLEAN : Add(t, start)

\* A boot comes to its end, and the emulation thread goes on.
Spec ==
    /\ Init /\ [][Next]_vars
    /\ WF_vars(Proceed)
    /\ \A t \in Ours : WF_vars(\E start \in BOOLEAN : Add(t, start))

----------------------------------------------------------------------------
(* Properties *)

\* Whatever callbacks and instructions do and in whatever order, even on a counter
\* the guest has set: from the head forward lie exactly the enabled timers, the
\* links back are the inverse, and a timer that is not enabled has no links and can
\* be enabled again.  It is what timer_enable and timer_disable call fatal, or repair
\* by cutting the list off, when it is not so.
ListIsEnabled ==
    LET w == Walk(list) IN
    /\ TypeOK
    /\ {w[i] : i \in DOMAIN w} \ {NoTimer} = enabled
    /\ \A i, j \in DOMAIN w : w[i] = w[j] /\ w[i] # NoTimer => i = j
    /\ \A t \in enabled :
        /\ t \in valid
        /\ list.next[t] # NoTimer => list.prev[list.next[t]] = t
        /\ (list.prev[t] = NoTimer) = (list.head = t)
    /\ \A t \in Timers \ enabled : list.next[t] = NoTimer /\ list.prev[t] = NoTimer

\* timer.h:32: "CPU emulation must call timer_process() when TSC matches or exceeds
\* this."  No timer that is due waits for the slice after the one it fell due in:
\* neither behind a later one in the list, nor for a timer_target that is too late
\* (a disabled head leaves it too early, never too late), nor across a wrap.  Unless
\* a stamp was made that is not the timer's time (Advance, WriteTsc).
NothingOverdueUnlessAdrift ==
    at = "outer" /\ ~adrift => \A t \in enabled : left[t] > 0

\* A timer fires when it is due, never before, and no timer that is due earlier is
\* still waiting then.
FiresInOrderUnlessAdrift ==
    [][Fire /\ ~adrift =>
        /\ left[current'] <= 0
        /\ \A t \in enabled : left[current'] <= left[t]]_vars

\* The machine goes on executing instructions, whatever the callbacks do.  With
\* exec386 it hangs on one timer: that loop runs no instruction before a target that
\* has passed, and timer_process moves the target only if some timer is enabled; the
\* sound's always is.
EmulationProceeds == []<><<\E c \in Costs : Run(c)>>_vars
=============================================================================
