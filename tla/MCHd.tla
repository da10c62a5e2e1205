-------------------------------- MODULE MCHd --------------------------------
(* Hd for TLC: requests of up to three sectors, up to three tables, two opens. *)
EXTENDS Hd
=============================================================================
