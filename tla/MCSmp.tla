------------------------------- MODULE MCSmp -------------------------------
(* Four CPUs; the boot CPU is neither the first nor the last of the table,  *)
(* so that others are being started before and after it initialises itself. *)
EXTENDS Smp
=============================================================================
