------------------------------ MODULE MCDevice ------------------------------
(***************************************************************************)
(* Device on a small instance: two files of one device, Fd called on one   *)
(* of them only, two goroutines, a frame that fills the queue.             *)
(***************************************************************************)
EXTENDS Device, TLC
=============================================================================
