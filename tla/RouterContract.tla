--------------------------- MODULE RouterContract ---------------------------
(***************************************************************************)
(* What RouterManagerService promises about the router of each meeting,    *)
(* whichever worker it lives on and whatever becomes of the workers: a     *)
(* router is created in the background and then stands until it is closed, *)
(* and a creation under way ends.  MeetingRoom relies on it, RouterPool    *)
(* implements it.                                                          *)
(***************************************************************************)
CONSTANT Meetings

VARIABLE router    \* router of each meeting: "none", "pending" or "ready"

Becomes(m, from, to) == router[m] = from /\ router'[m] = to

Step(m) ==
    \/ Becomes(m, "none", "pending")
    \/ Becomes(m, "pending", "ready")
    \/ Becomes(m, "pending", "none")
    \/ Becomes(m, "ready", "none")

(* Several meetings may be served, or lose their creation, at once.        *)
ContractNext == \A m \in Meetings : router'[m] = router[m] \/ Step(m)

ContractSafety ==
    /\ router = [m \in Meetings |-> "none"]
    /\ [][ContractNext]_router

Settle(m) ==
    /\ router[m] = "pending"
    /\ \E outcome \in {"ready", "none"} : router' = [router EXCEPT ![m] = outcome]

ContractSpec == ContractSafety /\ \A m \in Meetings : WF_router(Settle(m))
=============================================================================
