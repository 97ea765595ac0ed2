-------------------------- MODULE MCAddressSpaces --------------------------
(***************************************************************************)
(* Small programs: one and two segments under one table, a segment across  *)
(* two tables, and a second segment that goes on under the next table.     *)
(***************************************************************************)
EXTENDS AddressSpaces

Small == << <<0, 1>>, <<1, 2>> >>

Large == << <<0, 3>> >>

Across == << <<0, 1>>, <<1, 3>> >>

All == {Small, Large, Across}

MCStack == <<6, 8>>
=============================================================================
