------------------------------- MODULE Loops -------------------------------
(***************************************************************************)
(* for Go[s] { s = Step[s] }: the state in which the loop ends, for each   *)
(* state in S in which it may begin.  Written as a recursive function, of  *)
(* which IndexProofs shows the usual rule for loops.  A loop does not leave *)
(* S; that While would end there is only to make it a function in any case. *)
(***************************************************************************)

While(S, Go, Step) ==
    LET end[s \in S] ==
            LET next == Step[s] IN IF Go[s] /\ next \in S THEN end[next] ELSE s
    IN end
=============================================================================
