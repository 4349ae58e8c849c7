------------------------- MODULE RegistrationWorkflow -------------------------
(***************************************************************************)
(* The localhost registration lab (runtime/registration_workflow.py): the  *)
(* fixed synthetic scenarios and the form prepared from each.  Pure.       *)
(*                                                                         *)
(* A supplied value is known by its class: "valid", "absent", "malformed"  *)
(* (what its field's pattern refuses) or "refused" (a consent that says    *)
(* no).  The three form layouts order the same fields and are left out.    *)
(***************************************************************************)
EXTENDS Naturals, Sequences

FormFields ==
    {"full_name", "email", "phone", "address_line1", "city", "state", "postal_code",
     "preferred_contact", "consent_to_contact"}

Blank == "blank"

\* _VARIANTS: the field that each variant of the curriculum spoils.
Variants == <<"none", "phone", "email", "postal_code", "consent_to_contact">>

\* _build_scenarios: the variants come round in turn.
SpoiledField(scenario) == Variants[((scenario - 1) % Len(Variants)) + 1]

\* _profile: the synthetic record of a scenario.
Profile(scenario) ==
    [f \in FormFields |->
        CASE f # SpoiledField(scenario) -> "valid"
          [] f = "phone" -> "absent"
          [] f = "consent_to_contact" -> "refused"
          [] OTHER -> "malformed"]

Checked == {"email", "phone", "state", "postal_code", "preferred_contact", "consent_to_contact"}

\* _issue_reason, without its wording: only some fields have a pattern.
HasIssue(field, value) ==
    value = "absent" \/ (field \in Checked /\ value # "valid")

Prepared(scenario) ==
    [f \in FormFields |->
        IF HasIssue(f, Profile(scenario)[f]) THEN Blank ELSE Profile(scenario)[f]]

Issues(scenario) == {f \in FormFields : HasIssue(f, Profile(scenario)[f])}

\* run_scenario: the checks that score a prepared form.
Passed(scenario) ==
    /\ \A f \in FormFields \ Issues(scenario) : Prepared(scenario)[f] = Profile(scenario)[f]
    /\ \A f \in FormFields : Prepared(scenario)[f] \in {Blank, Profile(scenario)[f]}
    /\ Issues(scenario) = {SpoiledField(scenario)} \ {"none"}

\* run_suite: every scenario, in the curriculum's order.
Suite(count) == [i \in 1..count |-> i]
=============================================================================
