--------------------------- MODULE MCMeetingRoom ---------------------------
(* Instances of MeetingRoom for TLC.                                       *)
EXTENDS MeetingRoom, TLC

CONSTANTS h, a, h1, a1, a2

(* A host on one connection and a guest who can come back on a second.     *)
GuestUserOf == h1 :> h @@ a1 :> a @@ a2 :> a

(* One connection each.                                                    *)
OneEachUserOf == h1 :> h @@ a1 :> a
============================================================================
