--------------------------- MODULE SerialInstance ---------------------------
(***************************************************************************)
(* serial_instance (sat/instance.hpp): the local search on one formula     *)
(* from one assignment.  Solver composes it with the programs that run it. *)
(*                                                                         *)
(* serial_instance never looks at a whole clause again if it can help it:  *)
(* it keeps a list of the unsatisfied clauses, for each clause the place   *)
(* in that list or else the negative number of its satisfied literals,     *)
(* for each variable the number of clauses that a flip of it would break,  *)
(* and for a clause with one satisfied literal that literal.  A flip       *)
(* corrects them clause by clause, first for the clauses that lose a       *)
(* satisfied literal ("break"), then for those that gain one ("make");     *)
(* each correction is an action here.  Places in the list count from 0, as *)
(* in the code, clauses and variables from 1.                              *)
(***************************************************************************)
EXTENDS CnfFormula, Bitfield

VARIABLES
    belegung,        \* the assignment, a bitfield
    unsat_clauses, unsat_clauses_location,
    num_breaks_by_flip, crit_literal_in_clause,
    num_flips_done,
    literal,         \* the literal flip_literal makes true
    todo             \* clauses the current loop of flip_literal has to visit

instance_vars == <<belegung, unsat_clauses, unsat_clauses_location,
                   num_breaks_by_flip, crit_literal_in_clause, num_flips_done,
                   literal, todo>>

(* Before there is an instance.                                            *)
InstanceInit ==
    /\ belegung = [bits |-> <<>>, last_mod_index |-> NoIndex,
                   last_mod_value |-> FALSE]
    /\ unsat_clauses = <<>>
    /\ unsat_clauses_location = <<>>
    /\ num_breaks_by_flip = <<>>
    /\ crit_literal_in_clause = <<>>
    /\ num_flips_done = 0
    /\ literal = 0
    /\ todo = <<>>

-----------------------------------------------------------------------------
IsTrue(lit, assignment) == assignment[Abs(lit)] = (lit > 0)

TruePlaces(clause, assignment) ==
    {i \in DOMAIN clause : IsTrue(clause[i], assignment)}

NumSatLit(c, assignment) == Cardinality(TruePlaces(clauses[c], assignment))

(* get_first_satisfied_literal, get_critical_literal: 0 when there is none.*)
FirstTrueLiteral(clause, assignment, dont_take) ==
    LET others == {i \in TruePlaces(clause, assignment) : clause[i] # dont_take}
    IN  IF others = {} THEN 0 ELSE clause[Min(others)]

AllClauses == 1 .. Len(clauses)

Unsatisfied(assignment) == {c \in AllClauses : NumSatLit(c, assignment) = 0}

(* The clauses which have one true literal, if the given one, true itself, *)
(* stands in them.                                                         *)
BrokenByFlip(lit, assignment) ==
    {c \in ClausesWith(lit) : NumSatLit(c, assignment) = 1}

-----------------------------------------------------------------------------
(* The constructor copies the assignment, with what is pending in it, and  *)
(* makes the lists for it (initialize) in one pass.                        *)
PlaceAmong(unsat, c) == Cardinality({d \in unsat : d < c})

MutantInitialCritical(c, assignment) ==
    FirstTrueLiteral(clauses[c], assignment, 0)

InitialCritical(c, assignment) ==
    IF NumSatLit(c, assignment) = 1
    THEN FirstTrueLiteral(clauses[c], assignment, 0) ELSE 0

Construct(initial_config) ==
    LET assignment == ValueOf(initial_config)
        unsat      == Unsatisfied(assignment)
    IN  /\ belegung' = initial_config
        /\ unsat_clauses' =
               [i \in 1 .. Cardinality(unsat) |->
                   CHOOSE c \in unsat : PlaceAmong(unsat, c) = i - 1]
        /\ unsat_clauses_location' =
               [c \in AllClauses |->
                   IF c \in unsat THEN PlaceAmong(unsat, c)
                   ELSE -NumSatLit(c, assignment)]
        /\ num_breaks_by_flip' =
               [v \in Variables |->
                   Cardinality({c \in AllClauses :
                                   InitialCritical(c, assignment) \in {v, -v}})]
        /\ crit_literal_in_clause' =
               [c \in AllClauses |-> InitialCritical(c, assignment)]
        /\ num_flips_done' = 0
        /\ literal' = 0
        /\ todo' = <<>>
        /\ UNCHANGED cnf_vars

-----------------------------------------------------------------------------
(* make_clause_unsat and make_clause_sat: the list of unsatisfied clauses. *)

MakeClauseUnsat(c) ==
    /\ unsat_clauses' = Append(unsat_clauses, c)
    /\ unsat_clauses_location' =
           [unsat_clauses_location EXCEPT ![c] = Len(unsat_clauses)]

MutantMoved(place, last) == unsat_clauses_location

(* The last clause of the list takes the place that became free.           *)
Moved(place, last) ==
    IF place = Len(unsat_clauses) - 1 THEN unsat_clauses_location
    ELSE [unsat_clauses_location EXCEPT ![last] = place]

MakeClauseSat(c) ==
    LET place == unsat_clauses_location[c]
        last  == Last(unsat_clauses)
    IN  /\ unsat_clauses_location' = [Moved(place, last) EXCEPT ![c] = -1]
        /\ unsat_clauses' =
               Front([unsat_clauses EXCEPT ![place + 1] = last])

-----------------------------------------------------------------------------
(* do_flip: an unsatisfied clause, taken in turn, and any of its literals: *)
(* each has a positive probability.                                        *)
ChosenClause ==
    clauses[unsat_clauses[(num_flips_done % Len(unsat_clauses)) + 1]]

DoFlip ==
    /\ pc = "while"
    /\ unsat_clauses # <<>>
    /\ \E lit \in ToSet(ChosenClause) :
          /\ literal' = lit
          /\ todo' = Segment(-lit)
    /\ pc' = "break"
    /\ UNCHANGED <<cnf_vars, belegung, unsat_clauses, unsat_clauses_location,
                   num_breaks_by_flip, crit_literal_in_clause, num_flips_done>>

AddBreaks(lit, n) ==
    num_breaks_by_flip' = [num_breaks_by_flip EXCEPT ![Abs(lit)] = @ + n]

MutantSetInBreakOnly(c, lit) ==
    crit_literal_in_clause' =
        IF pc = "make" THEN crit_literal_in_clause
        ELSE [crit_literal_in_clause EXCEPT ![c] = lit]

SetCritical(c, lit) ==
    crit_literal_in_clause' = [crit_literal_in_clause EXCEPT ![c] = lit]

(* The literal that is left when a clause loses one of two true ones.      *)
MutantLeftCritical(c) == FirstTrueLiteral(clauses[c], ValueOf(belegung), 0)

LeftCritical(c) == FirstTrueLiteral(clauses[c], ValueOf(belegung), -literal)

(* The break loop, one clause.  The assignment is not changed yet.         *)
BreakClause ==
    /\ pc = "break" /\ todo # <<>>
    /\ todo' = Tail(todo)
    /\ LET c   == Head(todo)
           ucl == unsat_clauses_location[c]
       IN  \/ /\ ucl >= 0
              /\ UNCHANGED <<unsat_clauses, unsat_clauses_location,
                             num_breaks_by_flip, crit_literal_in_clause>>
           \/ /\ ucl = -1
              /\ MakeClauseUnsat(c)
              /\ AddBreaks(literal, -1)
              /\ SetCritical(c, 0)
           \/ /\ ucl < -1
              /\ unsat_clauses_location' =
                     [unsat_clauses_location EXCEPT ![c] = @ + 1]
              /\ IF ucl = -2
                 THEN /\ AddBreaks(LeftCritical(c), 1)
                      /\ SetCritical(c, LeftCritical(c))
                 ELSE UNCHANGED <<num_breaks_by_flip, crit_literal_in_clause>>
              /\ UNCHANGED unsat_clauses
    /\ UNCHANGED <<cnf_vars, pc, belegung, num_flips_done, literal>>

BreakDone ==
    /\ pc = "break" /\ todo = <<>>
    /\ todo' = Segment(literal)
    /\ pc' = "make"
    /\ UNCHANGED <<cnf_vars, belegung, unsat_clauses, unsat_clauses_location,
                   num_breaks_by_flip, crit_literal_in_clause, num_flips_done,
                   literal>>

(* The critical literal as it was cached when the clause last had one.     *)
CachedCritical(c) == crit_literal_in_clause[c]

(* The make loop, one clause.                                              *)
MakeClause ==
    /\ pc = "make" /\ todo # <<>>
    /\ todo' = Tail(todo)
    /\ LET c   == Head(todo)
           ucl == unsat_clauses_location[c]
       IN  \/ /\ ucl >= 0
              /\ MakeClauseSat(c)
              /\ AddBreaks(literal, 1)
              /\ SetCritical(c, literal)
           \/ /\ ucl < 0
              /\ unsat_clauses_location' =
                     [unsat_clauses_location EXCEPT ![c] = @ - 1]
              /\ IF ucl = -1 THEN AddBreaks(CachedCritical(c), -1)
                 ELSE UNCHANGED num_breaks_by_flip
              /\ UNCHANGED <<unsat_clauses, crit_literal_in_clause>>
    /\ UNCHANGED <<cnf_vars, pc, belegung, num_flips_done, literal>>

(* The end of do_flip: the variable itself is flipped, through two         *)
(* references to its bit, and the flip is counted.  Where the program goes *)
(* on is up to Solver.                                                     *)
Flipped(b, v) == Assign(Access(b, v), v, ~Access(b, v).last_mod_value)

MakeDone ==
    /\ pc = "make" /\ todo = <<>>
    /\ belegung' = Flipped(belegung, Abs(literal))
    /\ num_flips_done' = num_flips_done + 1
    /\ literal' = 0
    /\ UNCHANGED <<cnf_vars, unsat_clauses, unsat_clauses_location,
                   num_breaks_by_flip, crit_literal_in_clause, todo>>

(* found_solution                                                          *)
FoundSolution == unsat_clauses = <<>>

-----------------------------------------------------------------------------
(* Between two flips, and when the program looks for the result.           *)
AtRest == pc \in {"while", "stop", "done"}

Solving == AtRest \/ pc \in {"break", "make"}

(* The segment of each literal lists the clauses the literal stands in, in *)
(* order and each once, if no line was counted and then dropped.           *)
SegmentsExact ==
    Solving =>
        \A lit \in Literals :
            LET s == Segment(lit) IN
            /\ ToSet(s) = ClausesWith(lit)
            /\ \A i, j \in DOMAIN s : i < j => s[i] < s[j]

(* List and index belong together at every step, in the middle of a flip   *)
(* and of its swap-removals too: no clause is listed twice, and a clause   *)
(* has a place in the list exactly when it stands there.                   *)
ListMatchesIndex ==
    Solving =>
        /\ \A i \in DOMAIN unsat_clauses :
               unsat_clauses_location[unsat_clauses[i]] = i - 1
        /\ \A c \in AllClauses :
               unsat_clauses_location[c] >= 0 => c \in ToSet(unsat_clauses)

(* "if a clause is satisfied, location is negative count of satisfied      *)
(* literals in clause" (instance.hpp:55); and if it is not, it is in the   *)
(* list.                                                                   *)
LocationCountsSatisfied ==
    AtRest => \A c \in AllClauses :
                  LET n == NumSatLit(c, ValueOf(belegung)) IN
                  IF n > 0 THEN unsat_clauses_location[c] = -n
                  ELSE unsat_clauses_location[c] >= 0

(* The cached number of breaks, which the choice of the next variable is   *)
(* made with, is the number that a count over the clauses gives.           *)
NumBreaksExact ==
    AtRest =>
        \A v \in Variables :
            num_breaks_by_flip[v] =
                Cardinality(BrokenByFlip(IF Get(belegung, v) THEN v ELSE -v,
                                         ValueOf(belegung)))

(* num_breaks_by_flip stays, during a flip too, within what cnt_t holds    *)
(* and within the table that the cached probability function reads without *)
(* looking at its size (cached.hpp:34).                                    *)
NumBreaksInRange ==
    Solving => \A v \in Variables :
                  /\ num_breaks_by_flip[v] \in 0 .. max_num_breaks_possible
                  /\ num_breaks_by_flip[v] <= CntMax

(* The assertions that ADDITIONAL_CHECKS would turn on: the clause to be   *)
(* flipped is unsatisfied (instance.hpp:553), a critical literal is found  *)
(* (355), and the cached one is the one a look at the clause gives (405).  *)
AdditionalChecks ==
    /\ pc = "while" /\ unsat_clauses # <<>> =>
           TruePlaces(ChosenClause, ValueOf(belegung)) = {}
    /\ pc = "break" /\ todo # <<>> =>
           (unsat_clauses_location[Head(todo)] = -2 =>
                LeftCritical(Head(todo)) # 0)
    /\ pc = "make" /\ todo # <<>> =>
           (unsat_clauses_location[Head(todo)] = -1 =>
                /\ CachedCritical(Head(todo)) # 0
                /\ CachedCritical(Head(todo)) \in {LeftCritical(Head(todo)), literal})
=============================================================================
