--------------------------- MODULE ConstraintSolver ---------------------------
(***************************************************************************)
(* The backtracking solver with forward checking that matches devices with *)
(* sites (ion/services/sa/observatory/constraint.py), on the problems that *)
(* the deployment activator states: a domain of sites for each device, one *)
(* constraint for each device with a parent, and all sites different.      *)
(*                                                                         *)
(* Checking a value hides values of the variables that are not assigned    *)
(* yet; each domain keeps a stack of its former sizes, and of the values   *)
(* it hides, which backtracking must undo exactly.  The order of values in *)
(* a domain, and of variables that the heuristics do not tell apart, is    *)
(* left open.                                                              *)
(***************************************************************************)
EXTENDS Integers, Sequences, FiniteSets, SequencesExt

CONSTANTS
  Var,       \* devices
  Value,     \* sites
  Parents,   \* the trees of devices to check: functions from Var to Var or Nil
  Uppers,    \* the trees of sites to check: functions from Value to Value or Nil
  Nil

SolverAssumption ==
  /\ Nil \notin Var \cup Value /\ Var # {} /\ IsFiniteSet(Value)
  /\ Parents \subseteq [Var -> Var \cup {Nil}] /\ Uppers \subseteq [Value -> Value \cup {Nil}]

VARIABLES
  problem,    \* the domains, the devices' parents and the sites' parents
  domains,    \* the values that are visible, for each variable
  hidden,     \* and those that are hidden, as a stack
  states,     \* the sizes of the domain when its state was pushed
  assignments,
  queue,      \* the variables assigned before the current one
  current,    \* variable, values left to try, domains whose state is pushed
  solutions,
  pc

vars == <<problem, domains, hidden, states, assignments, queue, current, solutions, pc>>

(* The constraints, as the sets of their variables: a child and its parent,*)
(* and all of them.                                                        *)
Families == {<<v, problem.parent[v]>> : v \in {v \in Var : problem.parent[v] # Nil}}
Degree(v) == Cardinality({f \in Families : v \in {f[1], f[2]}})

Fits(child, parent) == problem.up[child] = parent

(* What a solution is.                                                     *)
Solution(f) ==
  /\ \A v \in Var : f[v] \in problem.domain[v]
  /\ \A v, w \in Var : v # w => f[v] # f[w]
  /\ \A p \in Families : Fits(f[p[1]], f[p[2]])

Entry == [variable : Var, values : SUBSET Value, pushed : SUBSET Var]
TypeOK ==
  /\ domains \in [Var -> SUBSET Value] /\ hidden \in [Var -> Seq(Value)] /\ states \in [Var -> Seq(Nat)]
  /\ assignments \in [Var -> Value \cup {Nil}]
  /\ queue \in Seq(Entry) /\ current \in Entry \cup {Nil}
  /\ pc \in {"choose", "try", "back", "done"}

(* _getArgs: a constraint on one variable is applied beforehand; that all  *)
(* different, on a single variable, removes nothing.                       *)
Init ==
  /\ problem \in [domain : [Var -> SUBSET Value \ {{}}], parent : Parents, up : Uppers]
  /\ domains = problem.domain
  /\ hidden = [v \in Var |-> <<>>] /\ states = [v \in Var |-> <<>>]
  /\ assignments = [v \in Var |-> Nil]
  /\ queue = <<>> /\ current = Nil /\ solutions = <<>> /\ pc = "choose"

-----------------------------------------------------------------------------
(* Domains                                                                 *)

(* popState, of the domains of the variables in V.                         *)
Shown(v) == LET diff == Last(states[v]) - Cardinality(domains[v])
            IN  SubSeq(hidden[v], Len(hidden[v]) - diff + 1, Len(hidden[v]))
PopState(V) ==
  /\ domains' = [v \in Var |-> IF v \in V THEN domains[v] \cup Range(Shown(v)) ELSE domains[v]]
  /\ hidden' = [v \in Var |->
                  IF v \in V THEN SubSeq(hidden[v], 1, Len(hidden[v]) - Len(Shown(v))) ELSE hidden[v]]
  /\ states' = [v \in Var |-> IF v \in V THEN Front(states[v]) ELSE states[v]]

(* pushState of the domains in V, then hideValue of the values in H.       *)
PushAndHide(V, H) ==
  /\ states' = [v \in Var |-> IF v \in V THEN Append(states[v], Cardinality(domains[v])) ELSE states[v]]
  /\ domains' = [v \in Var |-> domains[v] \ H[v]]
  /\ hidden' = [v \in Var |-> hidden[v] \o SetToSeq(domains[v] \cap H[v])]

-----------------------------------------------------------------------------
(* Constraints, under the assignments a and a variable just assigned; F is *)
(* whether values are to be hidden.                                        *)

(* FunctionConstraint: with one of two variables missing, the values that  *)
(* do not fit are hidden from it.                                          *)
Misfits(p, a, v) ==
  IF v = p[1] /\ a[p[1]] = Nil /\ a[p[2]] # Nil THEN {x \in Value : ~Fits(x, a[p[2]])}
  ELSE IF v = p[2] /\ a[p[2]] = Nil /\ a[p[1]] # Nil THEN {x \in Value : ~Fits(a[p[1]], x)}
  ELSE {}

(* AllDifferentConstraint: the values seen are hidden from the others.     *)
Seen(a) == {a[v] : v \in Var} \ {Nil}

Hides(a, variable) ==
  [v \in Var |->
    IF a[v] # Nil THEN {}
    ELSE Seen(a) \cup UNION {Misfits(p, a, v) : p \in {p \in Families : variable \in {p[1], p[2]}}}]

Broken(a, variable) ==
  \/ \E v, w \in Var : v # w /\ a[v] # Nil /\ a[v] = a[w]
  \/ \E p \in Families : /\ variable \in {p[1], p[2]} /\ a[p[1]] # Nil /\ a[p[2]] # Nil
                         /\ ~Fits(a[p[1]], a[p[2]])

-----------------------------------------------------------------------------
(* getSolutionIter                                                         *)

Unassigned == {v \in Var : assignments[v] = Nil}

(* The variable with the most constraints, then the fewest values.         *)
Chooses(v) ==
  /\ v \in Unassigned
  /\ \A w \in Unassigned : \/ Degree(v) > Degree(w)
                           \/ Degree(v) = Degree(w) /\ Cardinality(domains[v]) <= Cardinality(domains[w])

Choose ==
  /\ pc = "choose" /\ Unassigned # {}
  /\ \E v \in Var :
       /\ Chooses(v)
       /\ current' = [variable |-> v, values |-> domains[v], pushed |-> Unassigned \ {v}]
  /\ pc' = "try"
  /\ UNCHANGED <<problem, domains, hidden, states, assignments, queue, solutions>>

(* Back to the last variable, which may have values left.                  *)
Resume ==
  /\ current' = Last(queue) /\ queue' = Front(queue) /\ PopState(Last(queue).pushed)

Yield ==
  /\ pc = "choose" /\ Unassigned = {}
  /\ solutions' = Append(solutions, assignments)
  /\ Resume /\ pc' = "try"
  /\ UNCHANGED <<problem, assignments>>

(* A value is taken and checked.  When a constraint is broken, or leaves a *)
(* domain empty, the pushed states are popped at once.                     *)
Try ==
  /\ pc = "try"
  /\ \E x \in current.values :
       LET v == current.variable
           a == [assignments EXCEPT ![v] = x]
           H == Hides(a, v)
           empties == \E w \in current.pushed : domains[w] \subseteq H[w]
           entry == [current EXCEPT !.values = @ \ {x}]
       IN
       /\ assignments' = a
       /\ IF Broken(a, v) \/ empties
          THEN current' = entry /\ UNCHANGED <<domains, hidden, states, queue, pc>>
          ELSE /\ PushAndHide(current.pushed, H)
               /\ queue' = Append(queue, entry) /\ current' = Nil /\ pc' = "choose"
  /\ UNCHANGED <<problem, solutions>>

(* Mutant: the domains stay as the last value has pruned them.             *)
BackWithoutPop ==
  /\ pc = "try" /\ current.values = {}
  /\ assignments' = [assignments EXCEPT ![current.variable] = Nil]
  /\ IF queue = <<>>
     THEN pc' = "done" /\ current' = Nil /\ UNCHANGED <<domains, hidden, states, queue>>
     ELSE current' = Last(queue) /\ queue' = Front(queue) /\ UNCHANGED <<domains, hidden, states, pc>>
  /\ UNCHANGED <<problem, solutions>>

(* No value is left: the variable is unassigned, and the one before it is  *)
(* resumed; without one the search ends.                                   *)
Back ==
  /\ pc = "try" /\ current.values = {}
  /\ assignments' = [assignments EXCEPT ![current.variable] = Nil]
  /\ IF queue = <<>>
     THEN pc' = "done" /\ current' = Nil /\ UNCHANGED <<domains, hidden, states, queue>>
     ELSE Resume /\ UNCHANGED pc
  /\ UNCHANGED <<problem, solutions>>

Next == Choose \/ Yield \/ Try \/ Back
Spec == Init /\ [][Next]_vars

-----------------------------------------------------------------------------
(* The search ends with every solution, each of them once, and with the    *)
(* domains as they were: hiding values loses no solution, and everything   *)
(* hidden on the way to one is visible again for the next; see             *)
(* getSolutionIter (446-519), hideValue and popState (756-791).            *)
SolutionsExact ==
  pc = "done" =>
    /\ Range(solutions) = {f \in [Var -> Value] : Solution(f)}
    /\ Len(solutions) = Cardinality(Range(solutions))
    /\ domains = problem.domain
===============================================================================
