------------------------- MODULE MCArchivePipeline -------------------------
(* One entry, and the settings that lead it through every lookup. *)
EXTENDS ArchivePipeline
CONSTANT a1
OneEntry == {a1}

\* A library to be asked before the magnet is searched, or a release date.
LibraryOrRelease ==
  {[release |-> FALSE, magnet |-> TRUE, library |-> TRUE, skip |-> TRUE],
   [release |-> TRUE, magnet |-> FALSE, library |-> FALSE, skip |-> TRUE]}
\* Torrents staged for the filter, which may reject them; complete ones are stopped.
Staged == {[auto |-> TRUE, minimum |-> TRUE, stop |-> TRUE, large |-> l] : l \in {{}, {a1}}}
=============================================================================
