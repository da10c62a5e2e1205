------------------------------ MODULE MCConsole ------------------------------
(* Console for TLC: two consoles of two and a half lines of two columns, of   *)
(* which two lines are shown (5461 cells in lines of 80, 25 shown), and a u32  *)
(* of 32 values.                                                              *)
EXTENDS Console
=============================================================================
