----------------------------- MODULE Attendance -----------------------------
(***************************************************************************)
(* What a meeting promises its users about their place in it, whatever the *)
(* connections, timers and routers underneath do: a user is out, waiting,  *)
(* in, or in the grace period that follows a dropped connection.  The      *)
(* grace period keeps the user's rank, ends by itself, and nobody comes    *)
(* back once the meeting is over.                                          *)
(***************************************************************************)
CONSTANTS Users, Host

VARIABLES
    over,    \* the meeting has ended
    place,   \* each user's place
    rank     \* each user's rank, "none" without a seat

attendance == <<over, place, rank>>

AttendanceInit ==
    /\ over = FALSE
    /\ place = [u \in Users |-> "out"]
    /\ rank = [u \in Users |-> "none"]

Enter(u) ==
    /\ ~over /\ place[u] = "out"
    /\ place' = [place EXCEPT ![u] = "in"]
    /\ rank' = [rank EXCEPT ![u] = IF u = Host THEN "host" ELSE "participant"]
    /\ UNCHANGED over

Wait(u) ==
    /\ ~over /\ u # Host /\ place[u] = "out"
    /\ place' = [place EXCEPT ![u] = "waiting"]
    /\ UNCHANGED <<over, rank>>

LoseConnection(u) ==
    /\ place[u] = "in"
    /\ place' = [place EXCEPT ![u] = "grace"]
    /\ UNCHANGED <<over, rank>>

Return(u) ==
    /\ place[u] = "grace"
    /\ place' = [place EXCEPT ![u] = "in"]
    /\ UNCHANGED <<over, rank>>

GoOut(u) ==
    /\ place[u] # "out"
    /\ place' = [place EXCEPT ![u] = "out"]
    /\ rank' = [rank EXCEPT ![u] = "none"]
    /\ UNCHANGED over

Regrade(u) ==
    /\ place[u] \in {"in", "grace"} /\ u # Host
    /\ \E r \in {"moderator", "participant"} : rank' = [rank EXCEPT ![u] = r]
    /\ UNCHANGED <<over, place>>

Close ==
    /\ ~over
    /\ over' = TRUE
    /\ place' = [u \in Users |-> "out"]
    /\ rank' = [u \in Users |-> "none"]

AttendanceNext ==
    \/ \E u \in Users : \/ Enter(u) \/ Wait(u) \/ LoseConnection(u) \/ Return(u)
                        \/ GoOut(u) \/ Regrade(u)
    \/ Close

AttendanceSafety == AttendanceInit /\ [][AttendanceNext]_attendance

GraceEnds(u) == place[u] = "grace" /\ (Return(u) \/ GoOut(u))

AttendanceSpec == AttendanceSafety /\ \A u \in Users : WF_attendance(GraceEnds(u))
=============================================================================
