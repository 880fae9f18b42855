----------------------------- MODULE MCConsole ------------------------------
(* Instances of Console. *)
EXTENDS Console, TLC

(* Each tour crosses the views whose handlers meet. *)
FourTours == {{"home", "site", "post", "quick"}, {"site", "settings"}, {"home", "template"},
              {"new", "adopt", "follow", "followed"}}

ConsoleSymmetry == Permutations(Paths) \cup Permutations(Values)
=============================================================================
