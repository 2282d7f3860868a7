--------------------------- MODULE SequentialLoop ---------------------------
(***************************************************************************)
(* What a marked block promises its caller: to look like the for loop it   *)
(* was written as.  At every moment the containers show a prefix of the    *)
(* loop; a normal return shows all of it, an iteration's error everything  *)
(* before that iteration, and any other way out some prefix.               *)
(***************************************************************************)
EXTENDS Iterations

VARIABLES raises,   (* the iterations that raise                    *)
          log,      (* the iterations the containers show, in order *)
          outcome   (* how the block ended, "none" before           *)

loopVars == <<raises, log, outcome>>

Outcomes == {"returned", "error", "timeout", "interrupt", "refused",
             "unprofitable", "conflict", "crashed"}

Init == /\ raises \in SUBSET Pos
        /\ log = <<>>
        /\ outcome = "none"

\* The loop can go on to m: nothing before m is left to raise.
Reaches(m) == \A p \in Len(log) .. m - 1 : p \notin raises

\* One or more of the next iterations take effect.
Advance == /\ outcome = "none"
           /\ \E m \in Len(log) + 1 .. N : Reaches(m) /\ log' = Iota(m)
           /\ UNCHANGED <<raises, outcome>>

Return == /\ outcome = "none"
          /\ Len(log) = N
          /\ outcome' = "returned"
          /\ UNCHANGED <<raises, log>>

\* The next iteration to raise does, after those before it took effect.
Raise == /\ outcome = "none"
         /\ \E m \in Len(log) .. N - 1 :
              m \in raises /\ Reaches(m) /\ log' = Iota(m)
         /\ outcome' = "error"
         /\ UNCHANGED raises

\* Any other way out, after some more iterations or none.
GiveUp == /\ outcome = "none"
          /\ \E m \in Len(log) .. N : Reaches(m) /\ log' = Iota(m)
          /\ outcome' \in Outcomes \ {"returned", "error"}
          /\ UNCHANGED raises

Next == Advance \/ Return \/ Raise \/ GiveUp

Spec == Init /\ [][Next]_loopVars

FairSpec == Spec /\ WF_loopVars(Next)
=============================================================================
