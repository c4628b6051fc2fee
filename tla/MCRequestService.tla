------------------------- MODULE MCRequestService -------------------------
(* MTRequestService for TLC: requests are interchangeable where the run   *)
(* binds none of them to the password and checks no liveness.              *)
EXTENDS MTRequestService, TLC

Symmetry == Permutations(Request)
=============================================================================
