------------------------------ MODULE MCDrawing ------------------------------
(* The instance of Drawing that MCDrawing.cfg describes: rows of four      *)
(* pixels on a line of four, so that rows meet and objects overlap, hang   *)
(* over both edges and share an x.                                         *)
EXTENDS Drawing

Solid   == 1 .. Row
Dotted  == {2, 4}
O(index, x, opaque) == [index |-> index, x |-> x, opaque |-> opaque]

MCScans == {<<O(1, 4, Dotted), O(2, 2, Solid)>>, <<O(1, 5, Dotted), O(2, 5, Solid)>>}
==============================================================================
