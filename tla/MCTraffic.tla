----------------------------- MODULE MCTraffic -----------------------------
(* Instances of Traffic for TLC.                                           *)
EXTENDS Traffic, TLC

CONSTANTS s1, s2, s3, u1, u2, address

(* Two users behind one address, the first on two connections.             *)
TwoUsers   == s1 :> u1 @@ s2 :> u2 @@ s3 :> u1
OneAddress == s1 :> address @@ s2 :> address @@ s3 :> address

(* Connections that compete for the limits; one user who reacts on two     *)
(* connections; two users who chat.                                        *)
Rivals   == s1 :> {"guarded"} @@ s2 :> {} @@ s3 :> {"key"}
Reactors == s1 :> {"join", "reaction"} @@ s2 :> {} @@ s3 :> {"join", "reaction"}
Chatters == s1 :> {"join", "chat"} @@ s2 :> {"join", "chat"} @@ s3 :> {}
AllScenarios == {Rivals, Reactors, Chatters}

Limits  == "connection" :> 1 @@ "event" :> 1 @@ "reaction" :> 2 @@ "key" :> 1
Windows == "connection" :> 2 @@ "event" :> 2 @@ "reaction" :> 2 @@ "key" :> 2
=============================================================================
