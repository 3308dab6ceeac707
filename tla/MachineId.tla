----------------------------- MODULE MachineId -----------------------------
(***************************************************************************)
(* GetMachineId and HashMacAddressPid: the machine part of an id, taken    *)
(* from the network interfaces of the host.                                *)
(*                                                                         *)
(* HashMacAddressPid appends the pid to the address, in mac_pid, but the   *)
(* loop that runs over the length of mac_pid reads mac: its characters,    *)
(* the zero that ends it, and what the memory behind that zero holds       *)
(* (undefined; the string is short, so this is the rest of its own buffer  *)
(* on the stack, and nothing is written there before).                     *)
(*                                                                         *)
(* An interface is what the two ioctls return for it: flags and hwaddr say *)
(* whether SIOCGIFFLAGS and SIOCGIFHWADDR succeed, sa_data are the bytes   *)
(* of the address.  The test for a duplicate interface compares the        *)
(* addresses of two different arrays and so never skips one.               *)
(***************************************************************************)
EXTENDS Hex

CONSTANTS MachDigits,  (* 3 in the code: digits kept of the hash            *)
          ByteSize,    (* 256 in the code: a byte, the hash is two of them  *)
          Hosts,       (* the sequences of interfaces a host can have       *)
          Pids,        (* the pids, as sequences of characters              *)
          Leftovers    (* what the stack behind a string can hold           *)

(* The digits kept are digits of the hash.                                 *)
ASSUME MachineAssumption ==
  /\ MachDigits \in 1 .. WordDigits /\ ByteSize \in Nat \ {0, 1}
  /\ (ByteSize * ByteSize) % Power[MachDigits] = 0

(* A host has a sequence of interfaces, and an address some bytes.         *)
Interfaces == [flags : BOOLEAN, hwaddr : BOOLEAN, sa_data : Seq(Int)]

ASSUME HostsAssumption ==
  \A h \in Hosts : /\ h \in Seq(Interfaces)
                   /\ \A i \in DOMAIN h : Len(h[i].sa_data) > 0

(* A pid has a digit at least, and the stack goes on behind a string for   *)
(* as many characters as a pid has.                                        *)
ASSUME StackAssumption ==
  /\ Pids \subseteq Seq(Int) /\ Leftovers \subseteq Seq(Int)
  /\ \A p \in Pids : Len(p) > 0 /\ \A b \in Leftovers : Len(p) <= Len(b) + 1

VARIABLES
  ifconf,   (* the host's interfaces                                       *)
  pid,      (* getpid(), in characters                                     *)
  stack,    (* the memory behind the zero that ends mac                    *)
  stage,    (* where GetMachineId is                                       *)
  ifr,      (* the interface the loop looks at                             *)
  mac,      (* std::string mac                                             *)
  mac_hash  (* the result, empty until it is written                       *)

inputs == << ifconf, pid, stack >>
vars   == << inputs, stage, ifr, mac, mac_hash >>

(* std::string(sa_data) takes the bytes up to the first zero.              *)
CString(bytes) ==
  LET zeros == { i \in DOMAIN bytes : bytes[i] = 0 }
  IN  IF zeros = {} THEN bytes
      ELSE SubSeq(bytes, 1, (CHOOSE i \in zeros : \A j \in zeros : i <= j) - 1)

(* The characters that mac[i] reads for i < mac_pid.size().                *)
CharsRead(m, p, beyond) == SubSeq(m \o << 0 >> \o beyond, 1, Len(m) + Len(p))

(* Mutant: the hash has no second byte.                                    *)
HashMacAddressPid_Byte(m, p, beyond) ==
  LET chars == CharsRead(m, p, beyond)
      hash[i \in 0 .. Len(chars)] ==
        IF i = 0 THEN 0
        ELSE (hash[i - 1] + chars[i] * (IF i % 2 = 1 THEN 1 ELSE ByteSize)) % ByteSize
  IN  hash[Len(chars)]

(* hash += mac[i] << (8 if i is odd), in 16 bits; i counts from 0 in the   *)
(* code and from 1 here.                                                   *)
HashMacAddressPid(m, p, beyond) ==
  LET chars == CharsRead(m, p, beyond)
      hash[i \in 0 .. Len(chars)] ==
        IF i = 0 THEN 0
        ELSE (hash[i - 1] + chars[i] * (IF i % 2 = 1 THEN 1 ELSE ByteSize))
             % (ByteSize * ByteSize)
  IN  hash[Len(chars)]

-----------------------------------------------------------------------------
Init ==
  /\ ifconf \in Hosts /\ pid \in Pids /\ stack \in Leftovers
  /\ stage = "socket" /\ ifr = 1 /\ mac = << >> /\ mac_hash = << >>

(* socket() or ioctl(SIOCGIFCONF) fails: return -1.                        *)
Fail ==
  /\ stage = "socket"
  /\ stage' = "failed"
  /\ UNCHANGED << inputs, ifr, mac, mac_hash >>

Open ==
  /\ stage = "socket"
  /\ stage' = "loop"
  /\ UNCHANGED << inputs, ifr, mac, mac_hash >>

(* One turn of the loop: the first address that is not empty ends it.      *)
Interface ==
  /\ stage = "loop" /\ ifr <= Len(ifconf)
  /\ LET this == ifconf[ifr]
         usable == this.flags /\ this.hwaddr
     IN  /\ mac' = IF usable THEN CString(this.sa_data) ELSE mac
         /\ stage' = IF usable /\ mac' # << >> THEN "hash" ELSE "loop"
  /\ ifr' = ifr + 1
  /\ UNCHANGED << inputs, mac_hash >>

NoMore ==
  /\ stage = "loop" /\ ifr > Len(ifconf)
  /\ stage' = "hash"
  /\ UNCHANGED << inputs, ifr, mac, mac_hash >>

(* The low digits of the hash, in hexadecimal: return 0.                   *)
Hash ==
  /\ stage = "hash"
  /\ mac_hash' = FitTo(ToHex(HashMacAddressPid(mac, pid, stack)), MachDigits)
  /\ stage' = "done"
  /\ UNCHANGED << inputs, ifr, mac >>

Next == Fail \/ Open \/ Interface \/ NoMore \/ Hash

Spec == Init /\ [][Next]_vars

-----------------------------------------------------------------------------
(* The interfaces whose address counts: both ioctls succeed, and the       *)
(* first byte is not zero (which it is on the loopback interface, but also *)
(* on every card of a vendor whose number begins with zero).               *)
Usable == { i \in DOMAIN ifconf : /\ ifconf[i].flags /\ ifconf[i].hwaddr
                                  /\ ifconf[i].sa_data[1] # 0 }

FirstAddress == IF Usable = {} THEN << >>
                ELSE CString(ifconf[CHOOSE i \in Usable : \A j \in Usable : i <= j].sa_data)

SumAt(s, parity) ==
  LET sum[i \in 0 .. Len(s)] ==
        IF i = 0 THEN 0 ELSE sum[i - 1] + (IF i % 2 = parity THEN s[i] ELSE 0)
  IN  sum[Len(s)]

(* The machine id made of the given characters: the sum of the odd ones    *)
(* plus ByteSize times the sum of the even ones, cut to its digits.        *)
IsHashOf(id, chars) ==
  /\ Len(id) = MachDigits
  /\ FromHex(id) = (SumAt(chars, 1) + ByteSize * SumAt(chars, 0)) % Power[MachDigits]

(* What GetMachineId computes.  A failure leaves the machine id empty.  A  *)
(* process whose pid has one digit, as in a container, takes it from the   *)
(* first usable address alone, so every restart has the same machine id,   *)
(* and every container without a usable address has machine id zero.  With *)
(* a longer pid it also depends on the stack, and two calls may differ.    *)
MachineIdDefined ==
  /\ stage = "failed" => mac_hash = << >>
  /\ stage = "done" =>
       IsHashOf(mac_hash, IF Len(pid) = 1 THEN FirstAddress
                          ELSE CharsRead(FirstAddress, pid, stack))

(* What the name HashMacAddressPid and its variable mac_pid say: the hash  *)
(* is that of the address followed by the pid.                             *)
PidIsHashed == stage = "done" => IsHashOf(mac_hash, FirstAddress \o pid)

-----------------------------------------------------------------------------
(* What the loop has seen: nothing but unusable interfaces, until it finds *)
(* the first usable one.                                                   *)
LoopInv ==
  /\ ifconf \in Hosts /\ ifr \in Nat \ {0}
  /\ stage \in {"socket", "failed", "loop", "hash", "done"}
  /\ stage = "socket" => ifr = 1
  /\ stage \in {"socket", "failed", "loop"} => mac = << >> /\ mac_hash = << >>
  /\ stage \in {"socket", "loop"} => \A i \in Usable : i >= ifr
  /\ stage \in {"hash", "done"} => mac = FirstAddress
=============================================================================
