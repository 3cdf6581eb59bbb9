---------------------------- MODULE MCCoordinator ----------------------------
(***************************************************************************)
(* Instances of Coordinator for TLC.                                       *)
(***************************************************************************)
EXTENDS Coordinator, TLC

CONSTANTS d1, r1, r2, h1, h2

(* Two nodes contend for one device. *)
RequesterOfPair == r1 :> 1 @@ r2 :> 2
DeviceOfPair == r1 :> d1 @@ r2 :> d1

(* One claim, which may be retried. *)
RequesterOfAlone == r1 :> 1
DeviceOfAlone == r1 :> d1

HandlerSymmetry == Permutations(Handler)
=============================================================================
