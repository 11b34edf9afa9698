---------------------------- MODULE MCStandalone ----------------------------
(***************************************************************************)
(* Instances of StandaloneLifecycle for TLC.                               *)
(***************************************************************************)
EXTENDS StandaloneLifecycle

CONSTANTS c1, c2

Plan(overlapping, commands, tools) ==
    [overlapping |-> overlapping, commands |-> commands, tools |-> tools]

\* Racing promotions; a promotion racing rebuild and validation; one thing at
\* a time, with and without rebuilds.
AllPlans == {Plan(TRUE, Commands, {}), Plan(TRUE, {c1}, {"rebuild", "validate"}),
             Plan(FALSE, {c1}, {"rebuild", "validate"}), Plan(FALSE, {c1}, {})}
CarefulPlan == {Plan(FALSE, Commands, {"rebuild"})}

=============================================================================
