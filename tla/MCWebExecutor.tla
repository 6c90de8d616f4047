---------------------------- MODULE MCWebExecutor ----------------------------
(* Two pages, one of them urgent, and a search that needs no browser. *)
EXTENDS WebExecutor
CONSTANTS capture, preview, magnet
Pages == {capture, preview}
Urgency == [t \in Pages |-> IF t = preview THEN 1 ELSE 0]
Searches == {magnet}
BothProfiles == {1, 2}
=============================================================================
