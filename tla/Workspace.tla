------------------------------ MODULE Workspace ------------------------------
(***************************************************************************)
(* The one checkout all runs share: the files under service/, git's index  *)
(* and the commits of the local branch HEAD is at, the branches on the     *)
(* remote, and the pull requests.  The operators are the git and GitHub    *)
(* calls the tools make, each with the condition under which it succeeds;  *)
(* StageAgent says who makes them and when.                                *)
(*                                                                         *)
(* A commit is known by who made it and when, and holds a whole snapshot.  *)
(***************************************************************************)
EXTENDS Naturals, Sequences

CONSTANTS
    Files,        \* paths under service/
    Tracked,      \* those that main has
    ReadOnly,     \* _READONLY_PATHS: those no agent may write
    Branches,     \* names of feature branches
    Authors,      \* the stage executions that write files
    None

ASSUME TrackedAssumption == Tracked \subseteq Files
ASSUME AuthorsAssumption == None \notin Authors /\ "main" \notin Authors \cup {None}

VARIABLES
    tree,      \* what each file holds: whose text, or None for no file
    index,     \* git's index
    head,      \* the commits of the local branch, from main's tip on
    remote,    \* the commits of each remote branch, <<>> if there is none
    prs        \* the branches with an open pull request

workspace == <<tree, index, head, remote, prs>>

Snapshots == [Files -> Authors \cup {"main", None}]
MainFiles == [f \in Files |-> IF f \in Tracked THEN "main" ELSE None]
MainTip == [by |-> "main", at |-> 0, files |-> MainFiles]
Commits == [by : Authors \cup {"main"}, at : Nat, files : Snapshots]

HeadCommit == head[Len(head)]

WorkspaceInit ==
    /\ tree = MainFiles
    /\ index = MainFiles
    /\ head = <<MainTip>>
    /\ remote = [b \in Branches |-> <<>>]
    /\ prs = {}

-----------------------------------------------------------------------------
(* Files                                                                   *)

\* Definitions named Flawed... are the plausible mistakes the properties catch;
\* no action uses them.

\* Every path under service/ may be written.
FlawedMayWrite(f) == f \in Files

MayWrite(f) == f \in Files \ ReadOnly

WriteFile(a, f) ==
    /\ MayWrite(f)
    /\ tree' = [tree EXCEPT ![f] = a]
    /\ UNCHANGED <<index, head, remote, prs>>

-----------------------------------------------------------------------------
(* git, as commit_and_push and handle_run call it                          *)

Add ==
    /\ index' = tree
    /\ UNCHANGED <<tree, head, remote, prs>>

Staged == index # HeadCommit.files

Commit(a, n) ==
    /\ Staged
    /\ head' = Append(head, [by |-> a, at |-> n, files |-> index])
    /\ UNCHANGED <<tree, index, remote, prs>>

IsAncestor(old, new) == Len(old) <= Len(new) /\ SubSeq(new, 1, Len(old)) = old

\* git push --force.
FlawedFastForward(b) == TRUE

\* A push is rejected unless the remote branch is an ancestor of what is pushed.
FastForward(b) == IsAncestor(remote[b], head)

Push(b) ==
    /\ FastForward(b)
    /\ remote' = [remote EXCEPT ![b] = head]
    /\ UNCHANGED <<tree, index, head, prs>>

\* git reset --hard HEAD~1.
FlawedResetMixed ==
    /\ head' = SubSeq(head, 1, Len(head) - 1)
    /\ index' = head[Len(head) - 1].files
    /\ tree' = index'
    /\ UNCHANGED <<remote, prs>>

\* git reset --mixed HEAD~1, which leaves the files.
ResetMixed ==
    /\ head' = SubSeq(head, 1, Len(head) - 1)
    /\ index' = head[Len(head) - 1].files
    /\ UNCHANGED <<tree, remote, prs>>

\* git checkout HEAD -- service/: the files of HEAD, in the index too.
CheckoutHead ==
    LET kept == {f \in Files : HeadCommit.files[f] # None}
    IN /\ tree' = [f \in Files |-> IF f \in kept THEN HeadCommit.files[f] ELSE tree[f]]
       /\ index' = [f \in Files |-> IF f \in kept THEN HeadCommit.files[f] ELSE index[f]]
       /\ UNCHANGED <<head, remote, prs>>

\* git clean -fd service/: the files git does not know.
CleanUntracked ==
    /\ tree' = [f \in Files |-> IF index[f] = None THEN None ELSE tree[f]]
    /\ UNCHANGED <<index, head, remote, prs>>

-----------------------------------------------------------------------------
(* GitHub                                                                  *)

\* A branch that exists already is left as it is.
CreateBranch(b) ==
    /\ remote' = [remote EXCEPT ![b] = IF @ = <<>> THEN <<MainTip>> ELSE @]
    /\ UNCHANGED <<tree, index, head, prs>>

\* Refused for a branch without commits of its own and for one that has a pull
\* request.
CanOpen(b) == Len(remote[b]) > 1 /\ b \notin prs

CreatePr(b) ==
    /\ CanOpen(b)
    /\ prs' = prs \cup {b}
    /\ UNCHANGED <<tree, index, head, remote>>

-----------------------------------------------------------------------------

WorkspaceTypeOK ==
    /\ tree \in Snapshots
    /\ index \in Snapshots
    /\ head \in Seq(Commits) /\ Len(head) > 0
    /\ remote \in [Branches -> Seq(Commits)]
    /\ prs \in SUBSET Branches

=============================================================================
