---------------------------- MODULE RpcContract ----------------------------
(***************************************************************************)
(* What remote calls over one connection promise, whoever sends, reads and *)
(* hands over the messages: the server runs each call once at most, a call *)
(* returns the outcome of its own run, and fails only after the connection *)
(* broke.                                                                  *)
(***************************************************************************)
CONSTANTS Calls,    (* the calls that can be made                           *)
          Kinds,    (* the outcomes of a run: a result, an exception        *)
          NotYet, Failed

VARIABLES open,     (* calls begun                                          *)
          outcome,  (* of each call the server has run                      *)
          result,   (* what each call came back with                        *)
          broken    (* the connection                                       *)

cvars == << open, outcome, result, broken >>

CInit == /\ open = {} /\ broken = FALSE
         /\ outcome = [c \in Calls |-> NotYet]
         /\ result  = [c \in Calls |-> NotYet]

CBegin(c) ==
  /\ c \notin open /\ open' = open \cup {c}
  /\ UNCHANGED << outcome, result, broken >>

CRun(c, k) ==
  /\ c \in open /\ outcome[c] = NotYet
  /\ outcome' = [outcome EXCEPT ![c] = k]
  /\ UNCHANGED << open, result, broken >>

CReturn(c) ==
  /\ c \in open /\ outcome[c] # NotYet /\ result[c] = NotYet
  /\ result' = [result EXCEPT ![c] = outcome[c]]
  /\ UNCHANGED << open, outcome, broken >>

CFail(c) ==
  /\ c \in open /\ result[c] = NotYet /\ broken
  /\ result' = [result EXCEPT ![c] = Failed]
  /\ UNCHANGED << open, outcome, broken >>

CBreak == broken' = TRUE /\ UNCHANGED << open, outcome, result >>

CNext == \/ \E c \in Calls : CBegin(c) \/ CReturn(c) \/ CFail(c) \/ \E k \in Kinds : CRun(c, k)
         \/ CBreak

CSpec == CInit /\ [][CNext]_cvars
=============================================================================
