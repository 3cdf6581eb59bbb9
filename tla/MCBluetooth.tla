----------------------------- MODULE MCBluetooth -----------------------------
(***************************************************************************)
(* Instance of Bluetooth with the durations of bluetooth.go:22-31 in units *)
(* of 100 ms.  Budgets: the default of a release (2 s) and of a claim      *)
(* (11 s), one with room for many attempts if they are quick (13 s), one   *)
(* that ends within the first steps, and none at all.                      *)
(***************************************************************************)
EXTENDS Bluetooth

MCBudgets == {0, 7, 20, 110, 130}
=============================================================================
