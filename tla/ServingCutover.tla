--------------------------- MODULE ServingCutover ---------------------------
(***************************************************************************)
(* What promotion promises, without coordinators, leases and journals.     *)
(*                                                                         *)
(* Queries go to one current generation.  Switch makes a generation that   *)
(* never served before current, under a version of its own; the registry   *)
(* may lag behind, but it takes the switches over one at a time and in     *)
(* their order (Settle), and then keeps exactly the generation it replaced *)
(* for rollback, until an operator gives that protection up (Release).     *)
(***************************************************************************)
EXTENDS Naturals

CONSTANTS Generations, None, InitialServing

VARIABLES current,    \* the generation queries are sent to
          version,    \* what clients compare to see that it moved
          pending,    \* <<version, generation>> of switches not taken over yet
          settled,    \* the generation the registry calls serving
          rollback,   \* the generation kept for rollback
          fresh       \* generations that have never been current

vars == <<current, version, pending, settled, rollback, fresh>>

Init ==
    /\ current = InitialServing
    /\ version = 1
    /\ pending = {}
    /\ settled = InitialServing
    /\ rollback = None
    /\ fresh = Generations \ {InitialServing}

Switch(g) ==
    /\ g \in fresh
    /\ current' = g
    /\ version' = version + 1
    /\ pending' = pending \cup {<<version + 1, g>>}
    /\ fresh' = fresh \ {g}
    /\ UNCHANGED <<settled, rollback>>

Settle ==
    /\ \E p \in pending :
        /\ \A q \in pending : p[1] <= q[1]
        /\ settled' = p[2]
        /\ pending' = pending \ {p}
    /\ rollback' = settled
    /\ UNCHANGED <<current, version, fresh>>

Release ==
    /\ pending = {}
    /\ rollback # None
    /\ rollback' = None
    /\ version' = version + 1
    /\ UNCHANGED <<current, pending, settled, fresh>>

Next == (\E g \in Generations : Switch(g)) \/ Settle \/ Release

Spec == Init /\ [][Next]_vars
=============================================================================
