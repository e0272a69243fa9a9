------------------------------ MODULE LossyFifo ------------------------------
(***************************************************************************)
(* What src/wasm/platform/wasm-net.c promises of each of its two rings:    *)
(* whole frames come out in the order in which they went in.  A frame that *)
(* goes in may be dropped, and a reset forgets the frames inside; nothing  *)
(* is split, merged, altered, repeated or overtaken.                       *)
(***************************************************************************)
EXTENDS Sequences

CONSTANTS Frames, NoFrame

VARIABLES
    queue,   \* the frames inside, oldest first
    out      \* the frame taken last, or NoFrame

vars == <<queue, out>>

Init == queue = <<>> /\ out = NoFrame

Put(f) ==
    /\ queue' = Append(queue, f)
    /\ UNCHANGED out

Take ==
    /\ queue # <<>>
    /\ out' = Head(queue)
    /\ queue' = Tail(queue)

Forget ==
    /\ queue' = <<>>
    /\ UNCHANGED out

Next == Take \/ Forget \/ \E f \in Frames : Put(f)

Spec == Init /\ [][Next]_vars
=============================================================================
