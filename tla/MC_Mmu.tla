------------------------------- MODULE MC_Mmu -------------------------------
(* Two run modes, two pages of two blocks in each space.                   *)
EXTENDS Mmu

\* A read-only page that grows down and a read-write page of one block.
MCDescriptors == {[ac |-> 2, len |-> 1, dir |-> "down"], [ac |-> 6, len |-> 0, dir |-> "up"]}

\* The MMU on, off, and off with an error bit set.
MCMmr0Values ==
  {[enabled |-> e, errors |-> {}, mode |-> 0, space |-> "i", apf |-> 0] : e \in BOOLEAN}
  \cup {[enabled |-> FALSE, errors |-> {"length"}, mode |-> 0, space |-> "i", apf |-> 0]}
=============================================================================
