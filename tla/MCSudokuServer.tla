--------------------------- MODULE MCSudokuServer ---------------------------
(* Two users, one of whom dials, with a table of the compatibility stage.  *)
EXTENDS SudokuServer

CONSTANTS u1, u2, h1

MCUserOf  == [h \in Hellos |-> u1]
MCTableOf == [h \in Hellos |-> "other"]
=============================================================================
