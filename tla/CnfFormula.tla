----------------------------- MODULE CnfFormula -----------------------------
(***************************************************************************)
(* Reading a formula (sat/input.hpp) and laying it out (sat/cnf_formula.hpp*)
(* with USE_CONT_DATASTRUCT and VERIFY_INPUT, the build's defaults).       *)
(*                                                                         *)
(* The file is read clause by clause.  While it is read, the occurrences   *)
(* of each literal are counted; from the counts the array                  *)
(* clauses_with_vars gets one segment per literal, which is then filled    *)
(* with the clauses the literal stands in: the solver walks along these    *)
(* segments.  A literal is a nonzero integer, a clause a sequence of them. *)
(* Clauses are numbered from 1 (the code: from 0).                         *)
(***************************************************************************)
EXTENDS Integers, SequencesExt

CONSTANTS
    Files,           \* what may be read: [num_vars, lines]
    CntMax,          \* numeric_limits<cnt_t>::max
    SumMax           \* numeric_limits<sum_t>::max

ASSUME CnfFormulaAssumption ==
    /\ \A f \in Files : /\ f.num_vars \in Nat \ {0}
                        /\ f.lines \in Seq(Seq(Int) \ {<<>>})
    /\ CntMax \in Nat \ {0}
    /\ SumMax \in Nat \ {0}

VARIABLES
    file,
    pc,              \* where the thread is that reads and solves
    num_read,        \* lines read
    clauses,
    count,           \* count_clauses_with_vars, by literal
    occurrence_offset,
    clauses_with_vars,
    num_filled,      \* clauses entered into clauses_with_vars
    max_num_breaks_possible

cnf_vars == <<file, num_read, clauses, count, occurrence_offset,
              clauses_with_vars, num_filled, max_num_breaks_possible>>

Abs(lit) == IF lit < 0 THEN -lit ELSE lit

Variables == 1 .. file.num_vars

Literals == {-v : v \in Variables} \cup Variables

CnfInit ==
    /\ file \in Files
    /\ pc = "read"
    /\ num_read = 0
    /\ clauses = <<>>
    /\ count = [lit \in Literals |-> 0]
    /\ occurrence_offset = <<>>
    /\ clauses_with_vars = <<>>
    /\ num_filled = 0
    /\ max_num_breaks_possible = 0

-----------------------------------------------------------------------------
(* parse_clause.                                                           *)

(* A clause with a literal and its negation is always true: it is dropped. *)
IsAlwaysTrue(clause) == \E lit \in ToSet(clause) : -lit \in ToSet(clause)

(* A clause with a literal twice, unless it is dropped, cannot be used.    *)
IsUnclean(clause) ==
    \E i, j \in DOMAIN clause : i # j /\ clause[i] = clause[j]

Occurrences(lit, clause) == Cardinality({i \in DOMAIN clause : clause[i] = lit})

MutantFits(clause) == TRUE

(* Each literal is counted before it is known what becomes of its clause.  *)
Fits(clause) ==
    \A lit \in ToSet(clause) : count[lit] + Occurrences(lit, clause) <= CntMax

Line == file.lines[num_read + 1]

Acceptable(clause) ==
    /\ ToSet(clause) \subseteq Literals
    /\ Fits(clause)
    /\ IsUnclean(clause) => IsAlwaysTrue(clause)

ParseClause ==
    /\ pc = "read" /\ num_read < Len(file.lines)
    /\ Acceptable(Line)
    /\ num_read' = num_read + 1
    /\ count' = [lit \in Literals |-> count[lit] + Occurrences(lit, Line)]
    /\ clauses' = IF IsAlwaysTrue(Line) THEN clauses ELSE Append(clauses, Line)
    /\ UNCHANGED <<pc, file, occurrence_offset, clauses_with_vars, num_filled,
                   max_num_breaks_possible>>

(* An exception: what was read so far is of no use to anybody.             *)
RejectClause ==
    /\ pc = "read" /\ num_read < Len(file.lines)
    /\ ~Acceptable(Line)
    /\ pc' = "failed"
    /\ UNCHANGED cnf_vars

-----------------------------------------------------------------------------
(* cnf_formula_constructor_variant_cont_datastruct.                        *)

(* Where the segments of variable v start: the sum of the counts of the    *)
(* variables before it.                                                    *)
OffsetOf(v) == SumFunction([u \in 1 .. v - 1 |-> count[-u] + count[u]])

LayOut ==
    /\ pc = "read" /\ num_read = Len(file.lines)
    /\ IF OffsetOf(file.num_vars + 1) > SumMax
       THEN /\ pc' = "failed"
            /\ UNCHANGED <<occurrence_offset, clauses_with_vars>>
       ELSE /\ pc' = "fill"
            /\ occurrence_offset' =
                  [v \in 1 .. file.num_vars + 1 |-> OffsetOf(v)]
            /\ clauses_with_vars' =
                  [slot \in 1 .. OffsetOf(file.num_vars + 1) |-> 1]
    /\ UNCHANGED <<file, num_read, clauses, count, num_filled,
                   max_num_breaks_possible>>

(* get_iterators_for_clauses_with_vars: the negative literal's segment,    *)
(* then the positive one's up to where the next variable starts.           *)
MutantSegmentStart(lit) == occurrence_offset[Abs(lit)]

SegmentStart(lit) ==
    occurrence_offset[Abs(lit)] + (IF lit < 0 THEN 0 ELSE count[-lit])

SegmentEnd(lit) ==
    IF lit < 0 THEN SegmentStart(lit) + count[lit]
    ELSE occurrence_offset[lit + 1]

Segment(lit) ==
    SubSeq(clauses_with_vars, SegmentStart(lit) + 1, SegmentEnd(lit))

(* currently_initialized_: the clauses of a literal entered so far.        *)
Initialized(lit) ==
    Cardinality({c \in 1 .. num_filled : lit \in ToSet(clauses[c])})

FillSlot(lit) == SegmentStart(lit) + Initialized(lit) + 1

(* One clause goes to the next slot of each of its literals.               *)
FillClause ==
    /\ pc = "fill" /\ num_filled < Len(clauses)
    /\ LET clause == ToSet(clauses[num_filled + 1]) IN
       /\ clauses_with_vars' =
              [slot \in DOMAIN clauses_with_vars |->
                  IF \E lit \in clause : slot = FillSlot(lit)
                  THEN num_filled + 1 ELSE clauses_with_vars[slot]]
       /\ max_num_breaks_possible' =
              Max({SegmentEnd(lit) - SegmentStart(lit) : lit \in clause}
                  \cup {max_num_breaks_possible})
    /\ num_filled' = num_filled + 1
    /\ UNCHANGED <<pc, file, num_read, clauses, count, occurrence_offset>>

ReadFormula == ParseClause \/ RejectClause \/ LayOut \/ FillClause

(* Reference: the clauses with a literal.                                  *)
ClausesWith(lit) == {c \in 1 .. Len(clauses) : lit \in ToSet(clauses[c])}
=============================================================================
