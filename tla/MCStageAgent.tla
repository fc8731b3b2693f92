---------------------------- MODULE MCStageAgent ----------------------------
(***************************************************************************)
(* Two runs of one requirement in one checkout.  Run r1 has a stage for    *)
(* the requirements and then its implementation; of r2 there is the stage  *)
(* for the requirements, whose task is that of r1's.                       *)
(***************************************************************************)
EXTENDS StageAgent, TLC

CONSTANTS q1, i1, q2, r1, r2, app, new, suite, b1, b2

MCRunOf == q1 :> r1 @@ i1 :> r1 @@ q2 :> r2
MCAfter == q1 :> {} @@ i1 :> {q1} @@ q2 :> {}
MCTaskOf == q1 :> "requirements" @@ i1 :> "implementation" @@ q2 :> "requirements"
MCContextOf == "requirements" :> {app, new} @@ "implementation" :> {app}
MCBranchOf == q1 :> b1 @@ i1 :> b1 @@ q2 :> b2

Write(f) == [tool |-> "write_file", arg |-> f]
Read(f) == [tool |-> "read_file", arg |-> f]
Do(tool) == [tool |-> tool, arg |-> None]

MCResponsesOf ==
    q1 :> {<<Write(suite), Read(new), Do("list_directory"), Do("search_codebase"),
              Do("deploy")>>}
    @@ i1 :> {<<Write(new), Do("create_branch"), Do("commit_and_push"), Do("create_pr")>>,
              <<Do("run_linter"), Do("poll_pr_status")>>}
    @@ q2 :> {<<Do("run_tests"), Write(app)>>, <<Do("commit_and_push")>>}

=============================================================================
