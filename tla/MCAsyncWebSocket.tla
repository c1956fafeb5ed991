-------------------------- MODULE MCAsyncWebSocket --------------------------
(* AsyncWebSocket with interchangeable jobs, for TLC's safety runs. *)
EXTENDS AsyncWebSocket, TLC

Symmetric == Permutations(Job)
=============================================================================
