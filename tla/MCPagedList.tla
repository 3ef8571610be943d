------------------------------ MODULE MCPagedList ------------------------------
(* Instances of PagedList for TLC. *)
EXTENDS PagedList

CONSTANTS w, x, y, z, n

\* No page, one that is not full, two full ones.
MCLists == {<<>>, <<w, x, y>>, <<w, x, y, z>>}
================================================================================
