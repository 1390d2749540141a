----------------------------- MODULE Properties -----------------------------
(***************************************************************************)
(* The status of the properties a verifier checks, and the updates the     *)
(* verifiers and checkers share (goto-checker/properties.cpp,              *)
(* goto-checker/bmc_util.cpp).                                             *)
(*                                                                         *)
(* propertiest is a function from the identifiers of the known properties  *)
(* to their status.  Every operator here returns the updated function.     *)
(***************************************************************************)
\* property_statust
Status == {"NOT_CHECKED", "UNKNOWN", "NOT_REACHABLE", "PASS", "FAIL", "ERROR"}

\* resultt
Verdict == {"UNKNOWN", "PASS", "FAIL", "ERROR"}

\* The status of a property about which nothing more will be said.
Decided == Status \ {"NOT_CHECKED", "UNKNOWN"}

\* Mutant: a property in error is tried again.
is_property_to_retry(status) == status \in {"NOT_CHECKED", "UNKNOWN", "ERROR"}

is_property_to_check(status) == status \in {"NOT_CHECKED", "UNKNOWN"}

has_properties_to_check(properties) ==
  \E p \in DOMAIN properties : is_property_to_check(properties[p])

\* count_properties(properties, status) > 0
SomeProperty(properties, status) ==
  \E p \in DOMAIN properties : properties[p] = status

-----------------------------------------------------------------------------
(* operator|= and operator&= *)

\* The PRECONDITION of a |= b.
OrDefined(a, b) ==
  \/ a = "NOT_CHECKED"
  \/ a = "UNKNOWN" /\ b # "NOT_CHECKED"
  \/ b = "UNKNOWN"
  \/ a = b

\* a |= b: a decided status stays as it is.
StatusOr(a, b) == IF a \in {"NOT_CHECKED", "UNKNOWN"} THEN b ELSE a

\* Mutant: the case FAIL falls through to the case PASS.
StatusAndFallThrough(a, b) ==
  IF a = "ERROR" THEN a
  ELSE IF a = "UNKNOWN" THEN IF b \in {"ERROR", "FAIL"} THEN b ELSE a
  ELSE IF a = "NOT_CHECKED"
       THEN IF b # "PASS" /\ b # "NOT_REACHABLE" THEN b ELSE a
  ELSE b

\* a &= b: the one of the two that comes first in the order ERROR, FAIL,
\* UNKNOWN, NOT_CHECKED, NOT_REACHABLE, PASS.
StatusAnd(a, b) ==
  IF a = "ERROR" THEN a
  ELSE IF a = "FAIL" THEN IF b = "ERROR" THEN b ELSE a
  ELSE IF a = "UNKNOWN" THEN IF b \in {"ERROR", "FAIL"} THEN b ELSE a
  ELSE IF a = "NOT_CHECKED"
       THEN IF b # "PASS" /\ b # "NOT_REACHABLE" THEN b ELSE a
  ELSE IF a = "NOT_REACHABLE" THEN IF b # "PASS" THEN b ELSE a
  ELSE IF b = "PASS" THEN a ELSE b

\* The statuses of all properties, combined by &=.
CombinedStatus(properties) ==
  LET status[ids \in SUBSET DOMAIN properties] ==
        IF ids = {} THEN "PASS"
        ELSE LET p == CHOOSE p \in ids : TRUE
             IN  StatusAnd(status[ids \ {p}], properties[p])
  IN  status[DOMAIN properties]

\* determine_result
determine_result(properties) ==
  LET status == CombinedStatus(properties)
  IN  IF status \in {"NOT_CHECKED", "UNKNOWN"} THEN "UNKNOWN"
      ELSE IF status = "NOT_REACHABLE" THEN "PASS"
      ELSE status

-----------------------------------------------------------------------------
(* Updates of several properties *)

\* Every property with the status `from` gets the status `to`.
Replace(properties, from, to) ==
  [p \in DOMAIN properties |->
     IF properties[p] = from THEN to ELSE properties[p]]

\* update_properties_status_from_symex_target_equation, where ids are the
\* identifiers of the assertions in the equation.  A new property is added.  The
\* condition of an assertion in an equation is never the constant true (vcc()
\* drops those), so its status is UNKNOWN.
update_properties_status_from_symex_target_equation(properties, ids) ==
  [p \in DOMAIN properties \cup ids |->
     IF p \notin ids THEN properties[p]
     ELSE IF p \in DOMAIN properties THEN StatusOr(properties[p], "UNKNOWN")
     ELSE "UNKNOWN"]

update_status_of_not_checked_properties(properties) ==
  Replace(properties, "NOT_CHECKED", "PASS")

update_status_of_unknown_properties(properties) ==
  Replace(properties, "UNKNOWN", "PASS")

\* propagate_fatal_to_proven, where reach[f] are the properties that have an
\* assertion at a location reachable from a fatal assertion of property f, that
\* one included: what was proven after a refuted fatal assertion is UNKNOWN.
propagate_fatal_to_proven(properties, reach) ==
  [p \in DOMAIN properties |->
     IF /\ properties[p] = "PASS"
        /\ \E f \in DOMAIN properties : properties[f] = "FAIL" /\ p \in reach[f]
     THEN "UNKNOWN" ELSE properties[p]]
=============================================================================
