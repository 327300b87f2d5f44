----------------------------- MODULE MCWaitPid -----------------------------
(* Two or three children, forked in any order, and the programs their       *)
(* parent may be.                                                           *)
EXTENDS WaitPid

AnyCall == {"any", "pid", "stranger", "nohang"}
ByPid == {"pid", "stranger"}
Shell == {"any"}

AllPrograms == {AnyCall, ByPid}
ShellOnly == {Shell}
=============================================================================
