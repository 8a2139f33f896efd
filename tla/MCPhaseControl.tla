--------------------------- MODULE MCPhaseControl ---------------------------
(* Instances of PhaseControl for TLC: the stretch ssrf, lfi, csti, cmdi of   *)
(* AllModules, where csti is in no group and splits group 2.                 *)
EXTENDS PhaseControl
CONSTANTS ssrf, lfi, csti, cmdi, speed

\* Slow: a list with a token, as the frontend sends it.
Slow  == <<speed, ssrf, lfi, csti, cmdi>>
Three == <<ssrf, csti, cmdi>>
Two   == <<ssrf, csti>>
Injection == [m \in Modules \cup Tokens |-> IF m \in {csti, speed} THEN 0 ELSE 2]
=============================================================================
