-------------------------------- MODULE Hex --------------------------------
(***************************************************************************)
(* Numbers as the digit strings that compute_unique_id and GetMachineId    *)
(* build with std::hex, std::string::erase and stoul.  A string is a       *)
(* sequence of digits, the most significant first.  The powers of the base *)
(* and the value of a string are recursive functions, which the proofs of  *)
(* HexProofs can follow.                                                   *)
(***************************************************************************)
EXTENDS Integers, Sequences

CONSTANTS Base,       (* 16 in the code *)
          WordDigits  (* digits of a 64-bit word: 16 in the code *)

ASSUME HexAssumption == Base \in Nat \ {0, 1} /\ WordDigits \in Nat \ {0}

(* Base^n, for the digits of a word.                                       *)
Power[n \in 0 .. WordDigits] == IF n = 0 THEN 1 ELSE Base * Power[n - 1]

Word == Power[WordDigits]

(* stream << std::hex << n: no leading zeros; a negative number prints as  *)
(* its two's complement.                                                   *)
ToHex(n) ==
  LET u == n % Word
      digits == CHOOSE d \in 1 .. WordDigits :
                   /\ u < Power[d]
                   /\ d = 1 \/ u >= Power[d - 1]
  IN  [i \in 1 .. digits |-> (u \div Power[digits - i]) % Base]

(* Exactly width digits: erase(0, size - width), or zeros on the left.     *)
FitTo(s, width) ==
  IF Len(s) > width
  THEN SubSeq(s, Len(s) - width + 1, Len(s))
  ELSE [i \in 1 .. width - Len(s) |-> 0] \o s

(* stoul(s, nullptr, 16)                                                   *)
FromHex(s) ==
  LET value[i \in 0 .. Len(s)] == IF i = 0 THEN 0 ELSE value[i - 1] * Base + s[i]
  IN  value[Len(s)]
=============================================================================
