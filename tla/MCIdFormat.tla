---------------------------- MODULE MCIdFormat ----------------------------
(***************************************************************************)
(* IdFormat and MachineId with fields of 3, 1 and 2 hexadecimal digits in  *)
(* a word of 6, on hosts of up to two interfaces.  The clock also reads a  *)
(* value before CUSTOM_EPOCH and ones that do not fit the field, and the   *)
(* counter runs over its field.  A byte has the 256 values of the code;    *)
(* characters are signed, so the bytes of an address beyond 127 are        *)
(* negative.  Addresses have three bytes here, and pids up to two digits.  *)
(***************************************************************************)
EXTENDS IdFormat

SomeTimestamps == {-1, 0, 1, 15, 16, 30}
SomeCounters   == {0, 1, 15, 16, 255, 256}

Addresses == { << 0, 0, 0 >>, << 0, 27, 33 >>, << 2, 66, -84 >>, << 2, 0, 66 >>, << -16, -1, 1 >> }
Cards     == [ flags : BOOLEAN, hwaddr : BOOLEAN, sa_data : Addresses ]
SomeHosts == { << >> } \cup { << a >> : a \in Cards }
                       \cup { << a, b >> : a \in Cards, b \in Cards }

SomePids      == { << 49 >>, << 57, 50 >> }
SomeLeftovers == { << 0 >>, << 1 >>, << -3 >> }
=============================================================================
