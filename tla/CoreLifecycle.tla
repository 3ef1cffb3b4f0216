--------------------------- MODULE CoreLifecycle ----------------------------
(***************************************************************************)
(* What the scheduling of Plusnx promises, with no queue, gate or process: *)
(* one core owns the application; only the owner leaves its parking place  *)
(* to activate, to execute the guest thread, and every core retires for    *)
(* good.  CoreScheduling implements it.                                    *)
(***************************************************************************)
CONSTANT Core

VARIABLES phase, owner

vars == <<phase, owner>>

Init ==
    /\ phase = [c \in Core |-> "parked"]
    /\ owner \in Core

\* The application's core is chosen while nothing has been activated.
Assign(c) ==
    /\ \A d \in Core : phase[d] = "parked"
    /\ owner' = c
    /\ UNCHANGED phase

Move(c, from, to) ==
    /\ phase[c] \in from
    /\ phase' = [phase EXCEPT ![c] = to]
    /\ UNCHANGED owner

\* Only the owner is activated.
Activate(c) == c = owner /\ Move(c, {"parked"}, "active")

\* The guest runs once, on an active core.
Execute(c) == Move(c, {"active"}, "executing")

\* Any core may leave at any time, and never comes back.
Retire(c) == Move(c, {"parked", "active", "executing"}, "retired")

Next == \E c \in Core : Assign(c) \/ Activate(c) \/ Execute(c) \/ Retire(c)

Spec == Init /\ [][Next]_vars
=============================================================================
