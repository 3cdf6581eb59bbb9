-------------------------------- MODULE MCHost --------------------------------
(***************************************************************************)
(* Instances of Host for TLC.                                              *)
(***************************************************************************)
EXTENDS Host, TLC

CONSTANTS keyboard

Address1 == [hex |-> 1, sep |-> "-"]
Address2 == [hex |-> 2, sep |-> ":"]

(* The alias moves from one device to another, and the default from the    *)
(* alias to an address; the second also has an alias that is spelled like  *)
(* the first device's address.  The third cannot be read.                  *)
File1 == [safe |-> TRUE, devices |-> keyboard :> Address1, default |-> keyboard]
File2 == [safe |-> TRUE, default |-> Address1,
          devices |-> keyboard :> Address2 @@ [hex |-> 1, sep |-> ":"] :> Address2]
Broken == [safe |-> TRUE, devices |-> keyboard :> [hex |-> 1, sep |-> "mixed"],
           default |-> keyboard]

Contents == {File1, File2, Broken}
Inputs == {None, keyboard}
=============================================================================
