---------------------- MODULE GotoSymexPropertyDecider ----------------------
(***************************************************************************)
(* goto_symex_property_decidert (goto-checker/goto_symex_property_decider  *)
(* .cpp): the goals of a decision procedure run, and what its answer says  *)
(* about the properties.  goal_map is a function from the identifier of a  *)
(* property to the condition of its goal: some instance of the property is *)
(* violated.  The decision procedure itself belongs to the checkers.       *)
(***************************************************************************)
EXTENDS SymexTargetEquation, Properties

CONSTANT NoModel   \* there is no satisfying assignment to read from

\* decision_proceduret::get(handle) == true.  A literal that has no value is not
\* true; a constant has its value without a model.
IsTrue(handle, model) ==
  \/ handle = Assignment
  \/ model # NoModel /\ model \in handle

\* decision_proceduret::get(handle) == false.
IsFalse(handle, model) ==
  \/ handle = {}
  \/ model # NoModel /\ model \notin handle

\* The properties whose goal is considered.
GoalIds(properties, eq) ==
  {p \in PropertyIds(eq) \cap DOMAIN properties :
     is_property_to_check(properties[p])}

\* update_properties_goals_from_symex_target_equation, the statuses: a goal is
\* going to be checked, but its status is not known yet.
PropertiesWithGoals(properties, eq) ==
  [p \in DOMAIN properties |->
     IF p \in GoalIds(properties, eq) THEN StatusOr(properties[p], "UNKNOWN")
     ELSE properties[p]]

\* update_properties_goals_from_symex_target_equation and convert_goals, the
\* goals: the negation of the conjunction of all instances of the property.
Goals(properties, eq) ==
  [p \in GoalIds(properties, eq) |->
     {v \in Assignment : \E i \in Asserts(eq) :
        eq[i].property_id = p /\ v \notin eq[i].cond_handle}]

\* Mutant: the goals of all properties, also of those that have FAILed.
ConstraintFromAllGoals(goal_map, properties) ==
  {v \in Assignment : \E p \in DOMAIN goal_map : v \in goal_map[p]}

\* add_constraint_from_goals: the constraint that the goal of one of the
\* properties still to be checked is met; false if there are none.
ConstraintFromGoals(goal_map, properties) ==
  {v \in Assignment : \E p \in DOMAIN goal_map :
     is_property_to_check(properties[p]) /\ v \in goal_map[p]}

\* Mutant: properties that have FAILed before are reported again.
Failed(properties, goal_map, model) ==
  {p \in DOMAIN goal_map : IsTrue(goal_map[p], model)}

\* The properties that D_SATISFIABLE shows to fail.
NewlyFailed(properties, goal_map, model) ==
  {p \in DOMAIN goal_map : IsTrue(goal_map[p], model) /\ properties[p] # "FAIL"}

\* Mutant: an error of the solver spoils all properties.
update_all_properties_status_from_goals(properties, goal_map, dec_result, model, set_pass) ==
  IF dec_result = "D_SATISFIABLE"
  THEN [p \in DOMAIN properties |->
          IF p \in NewlyFailed(properties, goal_map, model)
          THEN StatusOr(properties[p], "FAIL") ELSE properties[p]]
  ELSE IF dec_result = "D_ERROR" THEN [p \in DOMAIN properties |-> "ERROR"]
  ELSE IF set_pass THEN Replace(properties, "UNKNOWN", "PASS")
  ELSE properties

\* Mutant: set_pass is ignored.
update_properties_status_from_goals_pass(properties, goal_map, dec_result, model, set_pass) ==
  IF dec_result = "D_SATISFIABLE"
  THEN [p \in DOMAIN properties |->
          IF p \in NewlyFailed(properties, goal_map, model)
          THEN StatusOr(properties[p], "FAIL") ELSE properties[p]]
  ELSE IF dec_result = "D_ERROR" THEN Replace(properties, "UNKNOWN", "ERROR")
  ELSE Replace(properties, "UNKNOWN", "PASS")

\* update_properties_status_from_goals
update_properties_status_from_goals(properties, goal_map, dec_result, model, set_pass) ==
  IF dec_result = "D_SATISFIABLE"
  THEN [p \in DOMAIN properties |->
          IF p \in NewlyFailed(properties, goal_map, model)
          THEN StatusOr(properties[p], "FAIL") ELSE properties[p]]
  ELSE IF dec_result = "D_ERROR" THEN Replace(properties, "UNKNOWN", "ERROR")
  ELSE IF set_pass THEN Replace(properties, "UNKNOWN", "PASS")
  ELSE properties
=============================================================================
