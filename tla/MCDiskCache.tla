----------------------------- MODULE MCDiskCache -----------------------------
(***************************************************************************)
(* A small instance of DiskCache: two slots, source big of two blocks      *)
(* whose second is short, source small of one block, runs of two, a ring   *)
(* of two.  So slots are reused by a smaller and by a larger disk, disks   *)
(* evict each other's blocks, writes cross blocks and run past the end of  *)
(* small.  The emulation thread writes while the main thread reads.        *)
(***************************************************************************)
EXTENDS DiskCache

CONSTANTS big, small, emu, main

MCSectors == [f \in {big, small} |-> IF f = big THEN 3 ELSE 2]
MCAsks == [t \in {emu, main} |->
    IF t = emu THEN {<<TRUE, 1, 2>>} ELSE {<<FALSE, 1, 1>>}]

\* One slot and a third block, so that a ring of two overflows; the main thread
\* reads the header as image_open does.
MCSectorsBig == [f \in {big, small} |-> IF f = big THEN 5 ELSE 3]
MCAsksBig == [t \in {emu, main} |->
    IF t = emu THEN {<<FALSE, 0, 2>>, <<FALSE, 3, 2>>, <<TRUE, 1, 2>>}
    ELSE {<<FALSE, 0, 1>>}]
=============================================================================
