------------------------------ MODULE MCServer ------------------------------
(* Server on a small instance: two request processors and a reactor. *)
EXTENDS Server

MCThrowing == {"first", "start", "loop", "finish"}

MCFailing == {1, 4, 5}

MCStopped == {"stopped"}

MCNotRunning == {"notRunning"}

=============================================================================
