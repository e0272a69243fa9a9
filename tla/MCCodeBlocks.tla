----------------------------- MODULE MCCodeBlocks -----------------------------
(***************************************************************************)
(* CodeBlocks for TLC: what only the past of a block in the free list or   *)
(* of a finished lookup tells apart is one state.                          *)
(***************************************************************************)
EXTENDS CodeBlocks

MCCells == {<<1, 1>>, <<1, 2>>, <<2, 1>>}

MCSymmetry == Permutations(Blocks) \cup Permutations(Chunks)

MCView ==
    <<k, dirty, at, found, recomp, current, code, leaked,
      [b \in Blocks \ k.free |-> <<home[b], mask[b]>>],
      stale \cap code, missed \cap code,
      IF at = "idle" THEN None ELSE here>>
=============================================================================
