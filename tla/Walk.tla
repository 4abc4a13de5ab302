-------------------------------- MODULE Walk --------------------------------
(***************************************************************************)
(* What a solver run promises, without any of its data structures: from a  *)
(* random assignment it flips one variable after the other, each one       *)
(* standing in a line of the file that the assignment does not satisfy,    *)
(* and it reports "solved" only with an assignment that satisfies every    *)
(* line.  It may give up such a walk at any time and start afresh, a       *)
(* bounded number of times; a solution is never thrown away.               *)
(***************************************************************************)
EXTENDS Integers, SequencesExt

CONSTANT Files

VARIABLES file, belegung,
          starts,    \* how often a fresh assignment may still be chosen
          result

vars == <<file, belegung, starts, result>>

NoAssignment == <<>>

Init ==
    /\ file \in Files
    /\ belegung = NoAssignment
    /\ starts \in Nat \ {0}
    /\ result = "none"

VariableOf(lit) == IF lit < 0 THEN -lit ELSE lit

Satisfied(line) == \E lit \in ToSet(line) : belegung[VariableOf(lit)] = (lit > 0)

AllSatisfied == \A line \in ToSet(file.lines) : Satisfied(line)

Start ==
    /\ belegung # NoAssignment => ~AllSatisfied
    /\ starts > 0
    /\ starts' = starts - 1
    /\ belegung' \in [1 .. file.num_vars -> BOOLEAN]
    /\ UNCHANGED result

Flip ==
    /\ belegung # NoAssignment
    /\ \E line \in ToSet(file.lines) :
          /\ ~Satisfied(line)
          /\ \E lit \in ToSet(line) :
                belegung' = [belegung EXCEPT ![VariableOf(lit)] = lit > 0]
    /\ UNCHANGED <<starts, result>>

Finish ==
    /\ belegung # NoAssignment
    /\ \/ AllSatisfied /\ result' = "solved"
       \/ ~AllSatisfied /\ starts = 0 /\ result' = "unsolved"
    /\ UNCHANGED <<belegung, starts>>

Reject ==
    /\ belegung = NoAssignment
    /\ result' = "failed"
    /\ UNCHANGED <<belegung, starts>>

Next ==
    /\ result = "none"
    /\ Start \/ Flip \/ Finish \/ Reject
    /\ UNCHANGED file

Spec == Init /\ [][Next]_vars
=============================================================================
