------------------------------- MODULE MCSfs --------------------------------
(***************************************************************************)
(* One file, two descriptors, and O_TRUNC also while the file is open.     *)
(***************************************************************************)
EXTENDS Sfs

MCTexts == {<< 2, 1, 2 >>}

MCPositions == {0, 4}
=============================================================================
