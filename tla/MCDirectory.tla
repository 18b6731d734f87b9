---------------------------- MODULE MCDirectory ----------------------------
(* Instances of Directory for TLC.                                         *)
EXTENDS Directory, TLC

CONSTANTS i1, i2, r1, r2

(* A join, and a request of any kind beside it.                            *)
JoinAndAny == r1 :> {"join"} @@ r2 :> Kinds

(* One request from the backend.                                           *)
OneRead == r1 :> {"read"}
=============================================================================
