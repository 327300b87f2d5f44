----------------------------- MODULE MCDevices -----------------------------
(* Two partition tables: a full one, and one whose first entry is unused.  *)
EXTENDS Devices
MCTables == {<<1, 3>>, <<0, 2>>}
=============================================================================
