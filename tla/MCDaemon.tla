------------------------------ MODULE MCDaemon ------------------------------
(***************************************************************************)
(* Instances of Daemon for TLC.                                            *)
(***************************************************************************)
EXTENDS Daemon, TLC

CONSTANTS c1, q1, x1, x2, d1, d2

(* One release of the configured device and one of another. *)
OtherDevice == x1 :> d1 @@ x2 :> d2
=============================================================================
