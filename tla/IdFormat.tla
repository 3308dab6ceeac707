------------------------------ MODULE IdFormat ------------------------------
(***************************************************************************)
(* How compute_unique_id turns a timestamp, a counter and a machine id     *)
(* into the number it returns.  Module UniqueID uses the outcome, Fields;  *)
(* here the statements are followed on the digit strings, with fewer       *)
(* digits than 3 + 10 + 3 hexadecimal ones (the model checker computes     *)
(* with 32 bits) but the same shape: the three strings fill a word, and    *)
(* the mask takes the top bit of it.  The machine part is GetMachineId of  *)
(* module MachineId, which runs after the other two strings are made.      *)
(***************************************************************************)
EXTENDS MachineId

CONSTANTS TsDigits, CtrDigits,  (* 10, 3 in the code                        *)
          Timestamps,           (* clock values                             *)
          CounterValues         (* results of get_counter                   *)

ASSUME FormatAssumption ==
  /\ TsDigits \in Nat \ {0} /\ CtrDigits \in Nat \ {0}
  /\ MachDigits + TsDigits + CtrDigits = WordDigits
  /\ Base % 2 = 0   (* a bit is part of a digit *)
  /\ Timestamps \subseteq Int /\ CounterValues \subseteq Int

VARIABLES
  timestamp, counter_value,
  timestamp_hex, counter_hex,  (* their strings                            *)
  post_id                      (* the number, or -1: not yet               *)

machineVars == << inputs, stage, ifr, mac, mac_hash >>
numbers     == << timestamp, counter_value >>
formatVars  == << machineVars, numbers, timestamp_hex, counter_hex, post_id >>

Missing == << -1 >>   (* a string not computed yet *)

FormatInit ==
  /\ Init
  /\ timestamp \in Timestamps /\ counter_value \in CounterValues
  /\ timestamp_hex = Missing /\ counter_hex = Missing
  /\ post_id = -1

FormatTimestamp ==
  /\ timestamp_hex = Missing
  /\ timestamp_hex' = FitTo(ToHex(timestamp), TsDigits)
  /\ UNCHANGED << machineVars, numbers, counter_hex, post_id >>

(* Mutant: no padding, and no cutting.                                     *)
FormatCounter_Bare ==
  /\ timestamp_hex # Missing /\ counter_hex = Missing
  /\ counter_hex' = ToHex(counter_value)
  /\ UNCHANGED << machineVars, numbers, timestamp_hex, post_id >>

FormatCounter ==
  /\ timestamp_hex # Missing /\ counter_hex = Missing
  /\ counter_hex' = FitTo(ToHex(counter_value), CtrDigits)
  /\ UNCHANGED << machineVars, numbers, timestamp_hex, post_id >>

(* A step of GetMachineId.                                                 *)
FormatMachine ==
  /\ counter_hex # Missing /\ post_id = -1
  /\ Next
  /\ UNCHANGED << numbers, timestamp_hex, counter_hex, post_id >>

(* Mutant: no mask.                                                        *)
Compose_NoMask ==
  /\ stage \in {"done", "failed"} /\ post_id = -1
  /\ post_id' = FromHex(mac_hash \o timestamp_hex \o counter_hex)
  /\ UNCHANGED << machineVars, numbers, timestamp_hex, counter_hex >>

(* stoul(machine_id + timestamp_hex + counter_hex, nullptr, 16) & 0x7FF... *)
(* The result of GetMachineId is not looked at.                            *)
Compose ==
  /\ stage \in {"done", "failed"} /\ post_id = -1
  /\ post_id' = FromHex(mac_hash \o timestamp_hex \o counter_hex) % (Word \div 2)
  /\ UNCHANGED << machineVars, numbers, timestamp_hex, counter_hex >>

FormatNext == FormatTimestamp \/ FormatCounter \/ FormatMachine \/ Compose

FormatSpec == FormatInit /\ [][FormatNext]_formatVars

-----------------------------------------------------------------------------
F == INSTANCE IdFields WITH MachMod <- Power[MachDigits],
                            TsMod <- Power[TsDigits],
                            CtrMod <- Power[CtrDigits]

(* The number as arithmetic on the three fields of module UniqueID.        *)
Number(f) == (f[1] * Power[TsDigits] + f[2]) * Power[CtrDigits] + f[3]

(* The number is that of the three fields: a GetMachineId that failed      *)
(* counts as machine 0, and no field runs into another one.  Two calls     *)
(* have the same id exactly when they have the same Fields.                *)
IdIsItsFields ==
  post_id # -1 =>
     LET hash == IF stage = "failed" THEN 0
                 ELSE HashMacAddressPid(mac, pid, stack) % Power[MachDigits]
     IN  post_id = Number(F!Fields(hash, timestamp, counter_value))

(* Ids of one machine are ordered like their timestamps and counters, as   *)
(* long as both fit their fields.                                          *)
IdsAreOrdered ==
  post_id # -1 /\ timestamp \in 0 .. Power[TsDigits] - 1
               /\ counter_value \in 0 .. Power[CtrDigits] - 1 =>
     \A ts \in Timestamps \cap (0 .. timestamp) :
        \A c \in CounterValues \cap (0 .. Power[CtrDigits] - 1) :
           LET earlier == FromHex(mac_hash \o FitTo(ToHex(ts), TsDigits)
                                           \o FitTo(ToHex(c), CtrDigits)) % (Word \div 2)
           IN  (earlier < post_id) <=> (ts < timestamp \/ c < counter_value)
=============================================================================
