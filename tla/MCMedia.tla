------------------------------ MODULE MCMedia ------------------------------
(* Instances of Media for TLC.                                             *)
EXTENDS Media, TLC

CONSTANTS a, b

(* One participant who sends and one who watches.  What is sent depends on *)
(* the type of meeting, to have every source in one run of moderate size.  *)
SpeakerAndViewer == "group" :> (a :> {"mic", "screen"} @@ b :> {})
                 @@ "one_to_one" :> (a :> {"cam"} @@ b :> {})

(* Two who share their screens.                                            *)
TwoScreens == [t \in Types |-> a :> {"screen"} @@ b :> {"screen"}]
=============================================================================
