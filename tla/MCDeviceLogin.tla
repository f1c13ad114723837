--------------------------- MODULE MCDeviceLogin ---------------------------
(* DeviceLogin for TLC: logins, and polls, may trade places. *)
EXTENDS DeviceLogin, TLC

Symmetry == Permutations(Logins) \cup Permutations(Polls)
=============================================================================
