---------------------------- MODULE IdGenerator ----------------------------
(***************************************************************************)
(* What a process of the unique-id service promises to a client that makes *)
(* one call at a time: it hands out pairs of a timestamp and a counter,    *)
(* each later than all it handed out before.  It may stop at any time, and *)
(* a process started later begins anew.                                    *)
(***************************************************************************)
EXTENDS Integers

CONSTANTS Stamps,   (* the timestamps pairs are made of *)
          Counters  (* the counters pairs are made of   *)

VARIABLES alive,  (* a process is running                                    *)
          given   (* the pairs it has handed out: the earlier, the smaller   *)

gvars == << alive, given >>

Later(p, q) == p[1] > q[1] \/ (p[1] = q[1] /\ p[2] > q[2])

GInit == alive = TRUE /\ given = {}

Give == /\ alive
        /\ \E p \in Stamps \X Counters :
              /\ \A q \in given : Later(p, q)
              /\ given' = given \cup {p}
        /\ UNCHANGED alive

Stop == alive /\ alive' = FALSE /\ UNCHANGED given

Begin == ~ alive /\ alive' = TRUE /\ given' = {}

GNext == Give \/ Stop \/ Begin

GSpec == GInit /\ [][GNext]_gvars
=============================================================================
