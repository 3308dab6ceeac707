----------------------------- MODULE MCSessions -----------------------------
(***************************************************************************)
(* Sessions with two clients, two numbers to a connection, an int that the *)
(* numbers of a third connection do not fit, and an index that wraps.      *)
(***************************************************************************)
EXTENDS Sessions

CONSTANT MaxAnswers   (* answers in the history (bound) *)

FewAnswers == Len(answers) <= MaxAnswers
=============================================================================
