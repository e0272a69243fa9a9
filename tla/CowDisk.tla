------------------------------- MODULE CowDisk -------------------------------
(***************************************************************************)
(* What src/wasm/platform/wasm-diskio.c promises to hdd_file.c and to the  *)
(* CD image reader: each attached disk is a private copy of its source.    *)
(* A read that succeeds returns what was last written to every sector, or  *)
(* the source's own sector; a request may fail, having moved some prefix;  *)
(* requests are served one at a time.  There are no blocks, no cache, no   *)
(* eviction and no fetches here.                                           *)
(***************************************************************************)
EXTENDS Integers, Sequences

CONSTANTS
    Slots, Files, Threads, Values, NoThread, Guest,
    Sectors,  \* Sectors[f]: the size of source f
    Asks      \* bound: Asks[t], the <<write, offset, length>> t may ask

VARIABLES
    disk,   \* disk[s]: its sectors, <<>> when nothing is attached
    call,   \* call[t]: the request of thread t
    server  \* the thread being served, or NoThread

vars == <<disk, call, server>>

Pristine(f) == [i \in 0 .. Sectors[f] - 1 |-> [from |-> f, at |-> i]]
NoCall == [st |-> "none"]
Reply(st, buf) == [st |-> st, buf |-> IF st = "ok" THEN buf ELSE <<>>]

Init ==
    /\ disk = [s \in Slots |-> <<>>]
    /\ call = [t \in Threads |-> NoCall]
    /\ server = NoThread

Attach(s, f) ==
    /\ disk[s] = <<>>
    /\ disk' = [disk EXCEPT ![s] = Pristine(f)]
    /\ UNCHANGED <<call, server>>

Detach(s) ==
    /\ disk[s] # <<>>
    /\ \A t \in Threads : call[t].st = "waiting" => call[t].slot # s
    /\ disk' = [disk EXCEPT ![s] = <<>>]
    /\ UNCHANGED <<call, server>>

\* A request past the end of its disk is answered at once.
Request(t, write, s, off, len, val) ==
    /\ call[t] = NoCall
    /\ call' = [call EXCEPT ![t] =
        IF \A i \in off .. off + len - 1 : i \in DOMAIN disk[s]
        THEN [st |-> "waiting", write |-> write, slot |-> s, off |-> off,
              len |-> len, val |-> val, moved |-> 0, buf |-> <<>>]
        ELSE Reply("error", <<>>)]
    /\ UNCHANGED <<disk, server>>

Forget(t) ==
    /\ call[t].st \in {"ok", "error"}
    /\ call' = [call EXCEPT ![t] = NoCall]
    /\ UNCHANGED <<disk, server>>

Serve(t) ==
    /\ server = NoThread
    /\ call[t].st = "waiting"
    /\ server' = t
    /\ UNCHANGED <<disk, call>>

\* The next n sectors are moved at once.
Move(t, n) ==
    LET c == call[t]
        first == c.off + c.moved
    IN /\ IF c.write
          THEN /\ disk' = [disk EXCEPT ![c.slot] =
                    [i \in DOMAIN @ |-> IF i \in first .. first + n - 1
                                        THEN [from |-> Guest, at |-> c.val] ELSE @[i]]]
               /\ call' = [call EXCEPT ![t].moved = @ + n]
          ELSE /\ call' = [call EXCEPT
                    ![t].moved = @ + n,
                    ![t].buf = @ \o [i \in 1 .. n |-> disk[c.slot][first + i - 1]]]
               /\ UNCHANGED disk
       /\ UNCHANGED server

\* An answer: success only when everything has been moved.
Answer(t) ==
    /\ server = t
    /\ \E st \in {"ok", "error"} :
        /\ st = "ok" <=> call[t].moved = call[t].len
        /\ call' = [call EXCEPT ![t] = Reply(st, @.buf)]
    /\ server' = NoThread
    /\ UNCHANGED disk

Next ==
    \/ \E s \in Slots : Detach(s) \/ \E f \in Files : Attach(s, f)
    \/ \E t \in Threads :
        \/ \E s \in Slots, val \in Values, a \in Asks[t] :
            Request(t, a[1], s, a[2], a[3], val)
        \/ Forget(t)
        \/ Serve(t)
        \/ /\ server = t
           /\ \E n \in 1 .. call[t].len - call[t].moved : Move(t, n)
        \/ Answer(t)

Spec == Init /\ [][Next]_vars
=============================================================================
