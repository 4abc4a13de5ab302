------------------------------ MODULE SolverInv ------------------------------
(***************************************************************************)
(* The inductive invariant of Solver, for files without an always-true     *)
(* line.  Its core is one idea: at every step of a flip there is, for each *)
(* clause, a set of literals that the lists take to be true (Counted), and *)
(* every list says of every clause what follows from that set.  A visit of *)
(* a clause changes the set of this clause by the flipped literal; between *)
(* two flips it is the set of the literals that are true.                  *)
(***************************************************************************)
EXTENDS Solver

(* A line with a literal and its negation is counted but not kept: what is *)
(* proved here holds for the files that have none.                         *)
NoTautologies ==
    \A f \in Files : \A line \in ToSet(f.lines) : ~IsAlwaysTrue(line)

(* The bitfields of length n that the operations make.                     *)
Bits(n) == [1 .. n -> BOOLEAN]

IsBitfield(b, n) ==
    b \in [bits : Bits(n), last_mod_index : 0 .. n, last_mod_value : BOOLEAN]

-----------------------------------------------------------------------------
(* Reading and laying out.                                                 *)

(* What VERIFY_INPUT makes of a line that it keeps.                        *)
IsClean(clause) ==
    /\ clause # <<>>
    /\ \A i, j \in DOMAIN clause : clause[i] = clause[j] => i = j
    /\ \A lit \in ToSet(clause) : -lit \notin ToSet(clause)

(* The clauses with a literal among the first k.                           *)
With(lit, k) == {c \in 1 .. k : lit \in ToSet(clauses[c])}

LinesRead ==
    /\ file \in Files
    /\ num_read \in 0 .. Len(file.lines)
    /\ clauses \in Seq(Seq(Literals)) /\ Len(clauses) = num_read
    /\ \A c \in 1 .. num_read : clauses[c] = file.lines[c] /\ IsClean(clauses[c])
    /\ count \in [Literals -> 0 .. CntMax]
    /\ \A lit \in Literals : count[lit] = Cardinality(With(lit, num_read))

LaidOut ==
    /\ num_read = Len(file.lines)
    /\ occurrence_offset \in [1 .. file.num_vars + 1 -> Nat]
    /\ \A v \in Variables :
           occurrence_offset[v + 1] = occurrence_offset[v] + count[-v] + count[v]
    /\ clauses_with_vars \in
           [1 .. occurrence_offset[file.num_vars + 1] -> 1 .. Len(file.lines)]

Filled ==
    \A c \in 1 .. num_filled : \A lit \in ToSet(clauses[c]) :
        /\ clauses_with_vars[SegmentStart(lit) + Cardinality(With(lit, c))] = c
        /\ count[lit] <= max_num_breaks_possible

Searching == pc \in {"while", "break", "make", "stop", "again", "done"}

FormulaInv ==
    /\ LinesRead
    /\ num_filled \in 0 .. num_read
    /\ max_num_breaks_possible \in Nat
    /\ pc = "read" \/ pc = "failed" =>
           num_filled = 0 /\ clauses_with_vars = <<>>
    /\ pc = "fill" \/ Searching => LaidOut /\ Filled
    /\ Searching => num_filled = num_read

-----------------------------------------------------------------------------
(* The lists, for m clauses and n variables, and a set T[c] of literals    *)
(* for each clause c.                                                      *)
LiteralsOf(n) == {-v : v \in 1 .. n} \cup 1 .. n

(* Every place of the list has one clause, every listed clause its place.  *)
ListAgrees(m, unsat, loc) ==
    /\ unsat \in Seq(1 .. m)
    /\ loc \in [1 .. m -> Int]
    /\ \A i \in DOMAIN unsat : loc[unsat[i]] = i - 1
    /\ \A c \in 1 .. m : loc[c] >= 0 =>
           loc[c] + 1 \in DOMAIN unsat /\ unsat[loc[c] + 1] = c

CountsAgree(m, T, loc) ==
    \A c \in 1 .. m : IF T[c] = {} THEN loc[c] >= 0
                      ELSE loc[c] = -Cardinality(T[c])

CriticalAgrees(m, T, crit) ==
    /\ crit \in [1 .. m -> Int]
    /\ \A c \in 1 .. m : Cardinality(T[c]) = 1 => T[c] = {crit[c]}

(* The clauses that depend on a variable.                                  *)
DependOn(m, T, v) == {c \in 1 .. m : T[c] = {v} \/ T[c] = {-v}}

BreaksAgree(m, n, T, breaks) ==
    /\ breaks \in [1 .. n -> Nat]
    /\ \A v \in 1 .. n : breaks[v] = Cardinality(DependOn(m, T, v))

ListsAgree(m, n, T, unsat, loc, crit, breaks) ==
    /\ ListAgrees(m, unsat, loc)
    /\ CountsAgree(m, T, loc)
    /\ CriticalAgrees(m, T, crit)
    /\ BreaksAgree(m, n, T, breaks)

-----------------------------------------------------------------------------
(* The search.                                                             *)

TrueLiterals(c, assignment) ==
    {lit \in ToSet(clauses[c]) : IsTrue(lit, assignment)}

(* What the lists count in clause c: the clauses that a loop has still to  *)
(* visit are as they were before it.                                       *)
Counted(c) ==
    LET now     == TrueLiterals(c, ValueOf(belegung))
        visited == c \notin ToSet(todo)
    IN  IF pc = "break" THEN IF visited THEN now \ {-literal} ELSE now
        ELSE IF pc = "make"
        THEN (now \ {-literal})
                 \cup (IF visited THEN {literal} \cap ToSet(clauses[c]) ELSE {})
        ELSE now

CountedIn == [c \in AllClauses |-> Counted(c)]

ListsInv ==
    ListsAgree(Len(clauses), file.num_vars, CountedIn, unsat_clauses,
               unsat_clauses_location, crit_literal_in_clause,
               num_breaks_by_flip)

(* The clauses still to visit are those with a literal, in order.          *)
ToVisit(lit) ==
    /\ todo \in Seq(AllClauses)
    /\ \A i, j \in DOMAIN todo : i < j => todo[i] < todo[j]
    /\ ToSet(todo) \subseteq ClausesWith(lit)

(* Within a flip: its literal is false, and it stands in an unsatisfied    *)
(* clause.                                                                 *)
FlipInv ==
    /\ literal \in Literals
    /\ \E c \in AllClauses : /\ literal \in ToSet(clauses[c])
                             /\ TrueLiterals(c, ValueOf(belegung)) = {}
    /\ ToVisit(IF pc = "break" THEN -literal ELSE literal)

SearchInv ==
    /\ IsBitfield(belegung, file.num_vars)
    /\ belegung.last_mod_index # NoIndex
    /\ ListsInv
    /\ IF pc \in {"break", "make"} THEN FlipInv ELSE todo = <<>>
    /\ pc = "again" => unsat_clauses # <<>>

-----------------------------------------------------------------------------
(* The programs around it.                                                 *)
MostFlips == IF settings.max_flips = 0 THEN FlipBound ELSE settings.max_flips

RunInv ==
    /\ settings \in SettingsFor(file)
    /\ iteration \in 1 .. settings.num_iterations
    /\ num_flips_done \in 0 .. MostFlips
    /\ pc = "while" /\ settings.max_flips # 0 => num_flips_done < MostFlips
    /\ pc \in {"break", "make"} => num_flips_done < MostFlips
    /\ pc # "done" => result = "none"
    /\ result \in {"none", "solved", "unsolved"}
    /\ result = "solved" => unsat_clauses = <<>>
    /\ pc \in {"read", "fill", "failed"} => iteration = 1 /\ InstanceInit
    /\ pc = "again" => iteration > 1
    /\ Searching /\ settings.program = "probsat" =>
           IsBitfield(configuration, file.num_vars)

(* At every step of reading, of laying out and of each loop of             *)
(* flip_literal, the segments hold what was entered so far, and the list,  *)
(* its index, the critical literals and the breaks all agree on one set of *)
(* true literals for each clause, the visited ones without the old literal *)
(* and with the new one; a loop still has to visit clauses of its literal  *)
(* only, each once.                                                        *)
Inv ==
    /\ pc \in {"read", "fill", "failed", "while", "break", "make", "stop",
               "again", "done"}
    /\ FormulaInv
    /\ Searching => SearchInv
    /\ RunInv
=============================================================================
