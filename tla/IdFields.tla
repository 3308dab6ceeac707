------------------------------ MODULE IdFields ------------------------------
(***************************************************************************)
(* The three fields a unique id is made of.  compute_unique_id prints the  *)
(* machine hash, the timestamp and the counter in hexadecimal, brings each *)
(* to a fixed number of digits (3, 10 and 3) by cutting on the left or     *)
(* padding with zeros, concatenates them and masks the sign bit away.      *)
(* What a caller can tell apart is therefore the triple of Fields below;   *)
(* module IdFormat checks that on the digit strings themselves.            *)
(***************************************************************************)
EXTENDS Integers

CONSTANTS MachMod,  (* 16^3 : values of the machine field   *)
          TsMod,    (* 16^10: values of the timestamp field *)
          CtrMod    (* 16^3 : values of the counter field   *)

ASSUME FieldAssumption ==
  /\ MachMod \in Nat \ {0, 1}
  /\ TsMod \in Nat \ {0, 1}
  /\ CtrMod \in Nat \ {0}

(* A number cut to a field: the low digits of its two's complement.        *)
Cut(n, mod) == IF n \in 0 .. mod - 1 THEN n ELSE n % mod

(* The mask 0x7FFFFFFFFFFFFFFF takes the top bit of the machine field.     *)
Fields(machine, ts, ctr) ==
  << Cut(machine, MachMod \div 2), Cut(ts, TsMod), Cut(ctr, CtrMod) >>
=============================================================================
