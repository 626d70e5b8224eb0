-------------------------- MODULE MCFreezeRegistry --------------------------
(* Values that overlap in the first pages, and one at the last address of   *)
(* the address space, which the range check takes for one in memory.  The  *)
(* third page is ROM.  The guest keeps the pages as they are, maps two to  *)
(* one, or takes one away and moves another into its place.                *)
EXTENDS FreezeRegistry

MCAddresses == {1, AddressSpace - 1}

Identity == [p \in 0 .. AddressSpace \div PageSize - 1 |-> p]

MCMappings ==
    { Identity,
      [Identity EXCEPT ![1] = 0],
      [Identity EXCEPT ![0] = 1, ![1] = Absent] }
=============================================================================
