------------------------------ MODULE MCMaxHeap ------------------------------
(* MaxHeap on a small instance: five columns of four scores offered in     *)
(* every order to a heap of four slots; one score only equals the          *)
(* threshold, and a row of five pushes saturates n_set.                     *)
EXTENDS MaxHeap

MCCols == 0 .. 4
MCValues == 0 .. 3
MCThreshold == 0
=============================================================================
