---------------------------- MODULE MCBuildAgent ----------------------------
(* Small instances of BuildAgent for TLC. *)
EXTENDS BuildAgent, TLC

\* The attempts belong to one run.
OneRun == [t \in Tasks |-> 1]

\* Only the first writes lines.
FirstWrites == [t \in Tasks |-> IF t = 1 THEN MaxLines ELSE 0]

=============================================================================
