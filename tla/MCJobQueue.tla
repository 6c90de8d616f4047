----------------------------- MODULE MCJobQueue -----------------------------
(* Model values and symmetry for the runs of JobQueue. *)
EXTENDS JobQueue, TLC

CONSTANTS e1, e2, p1, p2, s1, s2

OneEngine == {e1}
TwoEngines == {e1, e2}
OneProducer == {p1}
TwoProducers == {p1, p2}
OneSubject == {s1}
TwoSubjects == {s1, s2}

Symmetric ==
  Permutations(Engines) \cup Permutations(Producers) \cup Permutations(Subjects)
=============================================================================
