------------------------ MODULE MCNotificationOutbox ------------------------
(* Model values for the runs of NotificationOutbox. *)
EXTENDS NotificationOutbox, TLC

CONSTANTS e1, e2, f1

OneEngine == {e1}
TwoEngines == {e1, e2}
OneFailure == {f1}
NoFailures == {}

EnginesAlike == Permutations(Engines)
=============================================================================
