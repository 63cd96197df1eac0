---------------------------- MODULE MCDataStore ----------------------------
(* Instances of DataStore for TLC. *)
EXTENDS DataStore

CONSTANTS v, w

\* No data, one cell of two kinds, so that saves of equal and of other sizes
\* follow each other, and two cells.
MCPayloads == {<<>>, <<v>>, <<w>>, <<w, v>>}

MCHistories == {<<1, 0>>, <<0, 1>>, <<1, 1>>}
=============================================================================
