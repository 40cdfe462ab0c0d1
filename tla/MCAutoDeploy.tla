---------------------------- MODULE MCAutoDeploy ----------------------------
(* Small instances of AutoDeploy for TLC. *)
EXTENDS AutoDeploy, TLC

CONSTANTS w1, w2

Files(app, accented, doc) ==
    "app" :> app @@ "accented" :> accented @@ "doc" :> doc

\* From the first commit: nothing watched is touched, a watched file changes, it moves out,
\* and a path changes that git quotes.
Changing == <<Files(1, 1, 0), Files(1, 1, 2), Files(2, 1, 0), Files(0, 1, 1), Files(1, 2, 0)>>

\* The same without the path in quotes.
Moving == <<Files(1, 1, 0), Files(1, 1, 2), Files(2, 1, 0), Files(0, 1, 1)>>

=============================================================================
