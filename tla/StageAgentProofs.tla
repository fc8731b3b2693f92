-------------------------- MODULE StageAgentProofs --------------------------
(***************************************************************************)
(* What StageAgent guarantees for any runs, stages, files, answers of the  *)
(* model and failures: types, the commits on HEAD, the original tests,     *)
(* remote branches that only grow, replays that fit their prompt, and pull *)
(* requests that are opened or accounted for.                              *)
(***************************************************************************)
EXTENDS StageAgent, FiniteSetTheorems, SequenceTheorems, TLAPS

-----------------------------------------------------------------------------
(* The inductive invariant                                                 *)

Places == {"new", "looking_up", "asking", "caching", "calling", "adding", "committing",
           "pushing", "resetting", "saving", "opening", "persisting", "done"}
InCommand == {"adding", "committing", "pushing", "resetting"}

PromptOf(a, t) ==
    [task |-> TaskOf[a],
     run |-> IF a \in Implementations THEN RunOf[a] ELSE None,
     files |-> [f \in ContextOf[TaskOf[a]] |-> t[f]]]
Prompts == {PromptOf(a, t) : a \in Authors, t \in Snapshots}

StageRecord ==
    [iteration : 0 .. MaxIterations, queue : Seq(Calls), output : Outputs \cup {None},
     results : [Calls -> Outputs \cup {None}], prompt : Prompts \cup {None},
     artifact : Artifacts \cup {None}, replayed : Authors \cup {None},
     outcome : {"completed", "failed", None}, commits : Nat, prError : BOOLEAN]

Entries == [key : Prompts \cup {None}, artifact : Artifacts, by : Authors]

Typed ==
    /\ WorkspaceTypeOK
    /\ started \in [Runs -> {"no", "cleaning", "yes"}]
    /\ pc \in [Authors -> Places]
    /\ stage \in [Authors -> StageRecord]
    /\ cache \subseteq Entries
    /\ prUrl \subseteq Runs
    /\ failures \in 0 .. MaxFailures
    /\ stranded \in Nat

\* A stage that is to make a call has one to make, and a stage past its loop has
\* its artifact.
Placed(a) ==
    /\ pc[a] = "calling" => stage[a].queue # <<>>
    /\ pc[a] \in InCommand => stage[a].queue # <<>> \/ stage[a].artifact # None
    /\ pc[a] \in {"caching", "opening"} => stage[a].artifact # None
    /\ pc[a] = "saving" /\ stage[a].outcome = "completed" => stage[a].artifact # None

TypeInv == Typed /\ \A a \in Authors : Placed(a)

-----------------------------------------------------------------------------
(* Types                                                                   *)

LEMMA Snapshot == MainFiles \in Snapshots
BY DEF MainFiles, Snapshots

LEMMA InitTypes == Init => TypeInv
<1> SUFFICES ASSUME Init PROVE TypeInv
    OBVIOUS
<1>1. WorkspaceTypeOK
    <2>1. MainTip \in Commits
        BY Snapshot DEF MainTip, Commits
    <2>2. <<MainTip>> \in Seq(Commits) /\ Len(<<MainTip>>) = 1
        BY <2>1
    <2> QED
        BY <2>2, Snapshot DEF Init, WorkspaceInit, WorkspaceTypeOK
<1>2. NewStage \in StageRecord
    BY BoundsAssumption DEF NewStage, StageRecord
<1>3. stage \in [Authors -> StageRecord]
    BY <1>2 DEF Init
<1>4. Typed
    BY <1>1, <1>3, BoundsAssumption DEF Init, Typed, Places
<1>5. \A a \in Authors : Placed(a)
    BY DEF Init, Placed, InCommand
<1> QED
    BY <1>4, <1>5 DEF TypeInv

\* The workspace keeps its types, whichever command changes it.
LEMMA Writing ==
    ASSUME WorkspaceTypeOK, NEW a \in Authors, NEW f, WriteFile(a, f)
    PROVE  WorkspaceTypeOK'
BY DEF WriteFile, MayWrite, WorkspaceTypeOK, Snapshots

LEMMA Adding == WorkspaceTypeOK /\ Add => WorkspaceTypeOK'
BY DEF Add, WorkspaceTypeOK

LEMMA Committing ==
    ASSUME WorkspaceTypeOK, NEW a \in Authors, NEW n \in Nat, Commit(a, n)
    PROVE  /\ WorkspaceTypeOK'
           /\ Len(head') = Len(head) + 1
           /\ head'[1] = head[1]
<1> DEFINE c == [by |-> a, at |-> n, files |-> index]
<1>1. c \in Commits
    BY DEF WorkspaceTypeOK, Commits
<1>2. head \in Seq(Commits) /\ head' = Append(head, c) /\ Len(head) > 0
    BY DEF Commit, WorkspaceTypeOK
<1> HIDE DEF c
<1>3. head' \in Seq(Commits) /\ Len(head') = Len(head) + 1 /\ head'[1] = head[1]
    BY <1>1, <1>2
<1> QED
    BY <1>2, <1>3 DEF Commit, WorkspaceTypeOK

LEMMA Pushing ==
    ASSUME WorkspaceTypeOK, NEW b \in Branches, Push(b)
    PROVE  WorkspaceTypeOK'
BY DEF Push, WorkspaceTypeOK

LEMMA Resetting ==
    ASSUME WorkspaceTypeOK, Len(head) > 1, ResetMixed
    PROVE  /\ WorkspaceTypeOK'
           /\ Len(head') = Len(head) - 1
           /\ \A i \in 1 .. Len(head') : head'[i] = head[i]
<1>1. head \in Seq(Commits) /\ Len(head) - 1 \in 1 .. Len(head)
    BY DEF WorkspaceTypeOK
<1>2. head[Len(head) - 1] \in Commits
    BY <1>1
<1>3. index' \in Snapshots
    BY <1>2 DEF ResetMixed, Commits
<1>4. /\ head' \in Seq(Commits) /\ Len(head') = Len(head) - 1
      /\ \A i \in 1 .. Len(head') : head'[i] = head[i]
    BY <1>1 DEF ResetMixed
<1> QED
    BY <1>1, <1>3, <1>4 DEF ResetMixed, WorkspaceTypeOK

LEMMA HeadFiles == WorkspaceTypeOK => HeadCommit \in Commits /\ HeadCommit.files \in Snapshots
<1> SUFFICES ASSUME WorkspaceTypeOK PROVE HeadCommit \in Commits
    BY DEF Commits
<1> QED
    BY DEF WorkspaceTypeOK, HeadCommit

LEMMA Cleaning == WorkspaceTypeOK /\ (CheckoutHead \/ CleanUntracked) => WorkspaceTypeOK'
BY HeadFiles DEF CheckoutHead, CleanUntracked, WorkspaceTypeOK, Snapshots

LEMMA Branching ==
    ASSUME WorkspaceTypeOK, NEW b \in Branches, CreateBranch(b) \/ CreatePr(b)
    PROVE  WorkspaceTypeOK'
<1>1. MainTip \in Commits
    BY Snapshot DEF MainTip, Commits
<1>2. <<MainTip>> \in Seq(Commits)
    BY <1>1
<1>3. CASE CreateBranch(b)
    BY <1>2, <1>3 DEF CreateBranch, WorkspaceTypeOK
<1>4. CASE CreatePr(b)
    BY <1>4 DEF CreatePr, WorkspaceTypeOK
<1> QED
    BY <1>3, <1>4

\* What a stage's step may do to the places and what the stages hold.
OnlyStage(a) ==
    /\ pc' \in [Authors -> Places] /\ stage' \in [Authors -> StageRecord]
    /\ \A b \in Authors \ {a} : pc'[b] = pc[b] /\ stage'[b] = stage[b]
    /\ Placed(a)'

LEMMA NextCall ==
    ASSUME TypeInv, NEW a \in Authors, stage[a].queue # <<>>,
           NEW output \in Outputs, Outputting(a, output)
    PROVE  OnlyStage(a) /\ stage'[a].artifact = stage[a].artifact /\ pc'[a] \in {"asking", "calling"}
<1>1. stage[a] \in StageRecord /\ stage \in [Authors -> StageRecord] /\ pc \in [Authors -> Places]
    BY DEF TypeInv, Typed
<1>2. stage[a].queue \in Seq(Calls) /\ stage[a].results \in [Calls -> Outputs \cup {None}]
    BY <1>1 DEF StageRecord
<1>3. Tail(stage[a].queue) \in Seq(Calls) /\ Call(a) \in Calls
    BY <1>2 DEF Call
<1>4. Len(stage[a].queue) # 1 => Tail(stage[a].queue) # <<>>
    <2>1. Len(stage[a].queue) \in Nat \ {0}
        BY <1>2, EmptySeq, LenProperties
    <2>2. Len(Tail(stage[a].queue)) = Len(stage[a].queue) - 1
        BY <1>2, <2>1
    <2>3. Tail(stage[a].queue) = <<>> => Len(Tail(stage[a].queue)) = 0
        BY EmptySeq, Zenon
    <2> QED
        BY <2>1, <2>2, <2>3
<1> DEFINE kept == IF Cacheable(Call(a)) /\ output.ok
                   THEN [stage[a].results EXCEPT ![Call(a)] = output]
                   ELSE stage[a].results
           now == [stage[a] EXCEPT !.queue = Tail(@), !.output = output, !.results = kept]
<1>5. kept \in [Calls -> Outputs \cup {None}]
    BY <1>2, <1>3
<1>6. stage' = [stage EXCEPT ![a] = now]
    BY <1>1 DEF Outputting
<1>7. now \in StageRecord /\ now.queue = Tail(stage[a].queue) /\ now.artifact = stage[a].artifact
    <2> HIDE DEF kept
    <2> QED
        BY <1>1, <1>3, <1>5 DEF StageRecord
<1>8. pc' = [pc EXCEPT ![a] = IF Len(stage[a].queue) = 1 THEN "asking" ELSE "calling"]
    BY DEF Outputting
<1> HIDE DEF now, kept
<1>9. /\ stage' \in [Authors -> StageRecord] /\ stage'[a] = now
      /\ pc' \in [Authors -> Places]
      /\ \A b \in Authors \ {a} : pc'[b] = pc[b] /\ stage'[b] = stage[b]
    BY <1>1, <1>6, <1>7, <1>8 DEF Places
<1>10. Placed(a)'
    BY <1>1, <1>4, <1>7, <1>8, <1>9 DEF Placed, InCommand
<1> QED
    BY <1>1, <1>7, <1>8, <1>9, <1>10 DEF OnlyStage

\* The end of commit_and_push, however it comes.
LEMMA NextAfterPush ==
    ASSUME TypeInv, NEW a \in Authors, pc[a] \in InCommand, PushSucceeds(a) \/ PushFails(a)
    PROVE  OnlyStage(a) /\ pc'[a] \notin InCommand /\ stage'[a].artifact = stage[a].artifact
<1>1. stage[a] \in StageRecord /\ stage \in [Authors -> StageRecord] /\ pc \in [Authors -> Places]
    BY DEF TypeInv, Typed
<1>2. CASE ~InFallback(a)
    <2>1. stage[a].queue # <<>>
        BY <1>2 DEF TypeInv, Placed, InFallback
    <2>2. PICK output \in Outputs : Outputting(a, output)
        BY <1>2 DEF PushSucceeds, PushFails, Outputs, Succeeded, Raised
    <2> QED
        BY <2>1, <2>2, NextCall DEF InCommand
<1>3. CASE InFallback(a) /\ PushSucceeds(a)
    <2>1. pc' = [pc EXCEPT ![a] = "opening"] /\ stage' = stage
        BY <1>3 DEF PushSucceeds
    <2> QED
        BY <1>1, <1>3, <2>1 DEF OnlyStage, Placed, InFallback, Places, InCommand
<1>4. CASE InFallback(a) /\ PushFails(a)
    <2> DEFINE now == [stage[a] EXCEPT !.prError = TRUE]
    <2>1. pc' = [pc EXCEPT ![a] = "persisting"] /\ stage' = [stage EXCEPT ![a] = now]
        BY <1>1, <1>4 DEF PushFails
    <2>2. now \in StageRecord /\ now.artifact = stage[a].artifact
        BY <1>1 DEF StageRecord
    <2> HIDE DEF now
    <2>3. /\ pc' \in [Authors -> Places] /\ stage' \in [Authors -> StageRecord]
          /\ pc'[a] = "persisting" /\ stage'[a] = now
          /\ \A b \in Authors \ {a} : pc'[b] = pc[b] /\ stage'[b] = stage[b]
        BY <1>1, <2>1, <2>2 DEF Places
    <2> QED
        BY <2>2, <2>3 DEF OnlyStage, Placed, InCommand
<1> QED
    BY <1>2, <1>3, <1>4

LEMMA Holds ==
    ASSUME TypeInv, NEW a \in Authors, NEW now \in StageRecord, NEW to \in Places,
           stage' = [stage EXCEPT ![a] = now], pc' = [pc EXCEPT ![a] = to],
           to = "calling" => now.queue # <<>>,
           to \in InCommand => now.queue # <<>> \/ now.artifact # None,
           to \in {"caching", "opening"} => now.artifact # None,
           to = "saving" /\ now.outcome = "completed" => now.artifact # None
    PROVE  OnlyStage(a) /\ stage'[a] = now /\ pc'[a] = to
<1>1. /\ pc' \in [Authors -> Places] /\ stage' \in [Authors -> StageRecord]
      /\ pc'[a] = to /\ stage'[a] = now
      /\ \A b \in Authors \ {a} : pc'[b] = pc[b] /\ stage'[b] = stage[b]
    BY DEF TypeInv, Typed
<1> QED
    BY <1>1 DEF OnlyStage, Placed

\* The loop: prompt, response cache, the model's answers.
LoopStep(a) ==
    \/ BuildPrompt(a) \/ Hit(a) \/ Miss(a) \/ KeepResponse(a)
    \/ AnswersWithCalls(a) \/ AnswersWithArtifact(a) \/ NoAnswer(a) \/ ArgumentsRaise(a)

LEMMA LoopTypes ==
    ASSUME TypeInv, NEW a \in Authors, LoopStep(a)
    PROVE  OnlyStage(a) /\ cache' \subseteq Entries /\ pc'[a] \notin InCommand
<1> USE NoneAssumption, BoundsAssumption DEF Places, InCommand, Goes
<1>1. stage[a] \in StageRecord /\ stage \in [Authors -> StageRecord]
      /\ pc \in [Authors -> Places] /\ cache \subseteq Entries /\ tree \in Snapshots
    BY DEF TypeInv, Typed, WorkspaceTypeOK
<1>2. CASE BuildPrompt(a)
    <2> DEFINE prompt == PromptOf(a, tree)
               now == [stage[a] EXCEPT !.prompt = prompt]
    <2>1. prompt \in Prompts
        BY <1>1 DEF Prompts
    <2>2. stage' = [stage EXCEPT ![a] = now] /\ pc' = [pc EXCEPT ![a] = "looking_up"]
        BY <1>1, <1>2 DEF BuildPrompt, Prompt, PromptOf
    <2> HIDE DEF prompt
    <2>3. now \in StageRecord
        BY <1>1, <2>1 DEF StageRecord
    <2> HIDE DEF now
    <2>4. OnlyStage(a) /\ pc'[a] = "looking_up"
        BY <2>2, <2>3, Holds
    <2> QED
        BY <1>1, <1>2, <2>4 DEF BuildPrompt, Prompt, bookkeeping
<1>3. CASE Hit(a)
    <2>1. PICK e \in cache :
              /\ stage' = [stage EXCEPT ![a].artifact = e.artifact, ![a].replayed = e.by,
                                        ![a].outcome = "completed"]
        BY <1>3 DEF Hit
    <2> DEFINE now == [stage[a] EXCEPT !.artifact = e.artifact, !.replayed = e.by,
                                       !.outcome = "completed"]
    <2>2. e.artifact \in Artifacts /\ e.by \in Authors
        BY <1>1 DEF Entries
    <2>3. now \in StageRecord /\ now.artifact # None
        BY <1>1, <2>2 DEF StageRecord
    <2>4. stage' = [stage EXCEPT ![a] = now] /\ pc' = [pc EXCEPT ![a] = "saving"]
        BY <1>1, <1>3, <2>1 DEF Hit
    <2> HIDE DEF now
    <2>5. OnlyStage(a) /\ pc'[a] = "saving"
        BY <2>3, <2>4, Holds
    <2> QED
        BY <1>1, <1>3, <2>5 DEF Hit, bookkeeping
<1>4. CASE Miss(a)
    <2>1. stage' = [stage EXCEPT ![a] = stage[a]] /\ pc' = [pc EXCEPT ![a] = "asking"]
        BY <1>1, <1>4 DEF Miss
    <2>2. OnlyStage(a) /\ pc'[a] = "asking"
        BY <1>1, <2>1, Holds
    <2> QED
        BY <1>1, <1>4, <2>2 DEF Miss, bookkeeping
<1>5. CASE KeepResponse(a)
    <2> DEFINE now == [stage[a] EXCEPT !.outcome = "completed"]
    <2>1. stage[a].artifact # None
        BY <1>5 DEF KeepResponse, TypeInv, Placed
    <2>2. now \in StageRecord /\ now.artifact = stage[a].artifact
        BY <1>1 DEF StageRecord
    <2>3. stage' = [stage EXCEPT ![a] = now] /\ pc' = [pc EXCEPT ![a] = "saving"]
        BY <1>1, <1>5 DEF KeepResponse
    <2> HIDE DEF now
    <2>4. OnlyStage(a) /\ pc'[a] = "saving"
        BY <2>1, <2>2, <2>3, Holds
    <2>5. [key |-> CacheKey(stage[a].prompt), artifact |-> stage[a].artifact, by |-> a] \in Entries
        BY <1>1, <2>1 DEF CacheKey, Entries, StageRecord
    <2>6. cache' \subseteq Entries
        BY <1>1, <1>5, <2>5 DEF KeepResponse
    <2> QED
        BY <2>4, <2>6
<1>6. CASE AnswersWithCalls(a)
    <2>1. PICK response \in ResponsesOf[a] :
              stage' = [stage EXCEPT ![a].queue = response, ![a].iteration = Counted(@)]
        BY <1>6 DEF AnswersWithCalls
    <2> DEFINE now == [stage[a] EXCEPT !.queue = response, !.iteration = Counted(@)]
    <2>2. response \in Seq(Calls) /\ response # <<>>
        BY ResponsesAssumption
    <2>3. Counted(stage[a].iteration) \in 0 .. MaxIterations
        BY <1>1, <1>6 DEF AnswersWithCalls, MayAsk, Counted, StageRecord
    <2>4. now \in StageRecord /\ now.queue # <<>>
        BY <1>1, <2>2, <2>3 DEF StageRecord
    <2>5. stage' = [stage EXCEPT ![a] = now] /\ pc' = [pc EXCEPT ![a] = "calling"]
        BY <1>1, <1>6, <2>1 DEF AnswersWithCalls
    <2> HIDE DEF now
    <2>6. OnlyStage(a) /\ pc'[a] = "calling"
        BY <2>4, <2>5, Holds
    <2> QED
        BY <1>1, <1>6, <2>6 DEF AnswersWithCalls, bookkeeping
<1>7. CASE AnswersWithArtifact(a)
    <2>1. PICK x \in FinalAnswers(a) : stage' = [stage EXCEPT ![a].artifact = x]
        BY <1>7 DEF AnswersWithArtifact
    <2> DEFINE now == [stage[a] EXCEPT !.artifact = x]
    <2>2. x \in Artifacts
        <3>1. NoArtifact \in Artifacts
            BY DEF NoArtifact, Artifacts
        <3>2. FinalAnswers(a) \subseteq Artifacts
            BY <3>1, Zenon DEF FinalAnswers
        <3> QED
            BY <3>2
    <2>3. now \in StageRecord /\ now.artifact # None
        BY <1>1, <2>2 DEF StageRecord
    <2>4. stage' = [stage EXCEPT ![a] = now] /\ pc' = [pc EXCEPT ![a] = "caching"]
        BY <1>1, <1>7, <2>1 DEF AnswersWithArtifact
    <2> HIDE DEF now
    <2>5. OnlyStage(a) /\ pc'[a] = "caching"
        BY <2>3, <2>4, Holds
    <2> QED
        BY <1>1, <1>7, <2>5 DEF AnswersWithArtifact, bookkeeping
<1>8. CASE NoAnswer(a) \/ ArgumentsRaise(a)
    <2> DEFINE now == [stage[a] EXCEPT !.outcome = "failed"]
    <2>1. now \in StageRecord /\ now.outcome = "failed"
        BY <1>1 DEF StageRecord
    <2>2. stage' = [stage EXCEPT ![a] = now] /\ pc' = [pc EXCEPT ![a] = "saving"]
        BY <1>1, <1>8 DEF NoAnswer, ArgumentsRaise
    <2> HIDE DEF now
    <2>3. OnlyStage(a) /\ pc'[a] = "saving"
        BY <2>1, <2>2, Holds
    <2> QED
        BY <1>1, <1>8, <2>3 DEF NoAnswer, ArgumentsRaise, bookkeeping
<1> QED
    BY <1>2, <1>3, <1>4, <1>5, <1>6, <1>7, <1>8 DEF LoopStep

\* The tool calls that are not commit_and_push.
CallStep(a) ==
    \/ AnswerFromCache(a) \/ UnknownTool(a) \/ CallWriteFile(a) \/ CallReads(a)
    \/ CallRunTests(a) \/ CallCreateBranch(a) \/ CallCreatePr(a)

LEMMA CallOutputs ==
    ASSUME TypeInv, NEW a \in Authors, CallStep(a)
    PROVE  pc[a] = "calling" /\ \E output \in Outputs : Outputting(a, output)
<1>1. tree \in Snapshots /\ stage[a] \in StageRecord
    BY DEF TypeInv, Typed, WorkspaceTypeOK
<1>2. Succeeded \in Outputs /\ Raised \in Outputs
    BY DEF Succeeded, Raised, Outputs
<1>3. CASE AnswerFromCache(a)
    <2>1. stage[a].queue \in Seq(Calls) /\ stage[a].queue # <<>>
        BY <1>1, <1>3 DEF AnswerFromCache, StageRecord, TypeInv, Placed
    <2>2. Call(a) \in Calls
        BY <2>1, HeadTailProperties DEF Call
    <2>3. stage[a].results[Call(a)] \in Outputs
        BY <1>1, <1>3, <2>2 DEF AnswerFromCache, StageRecord
    <2> QED
        BY <1>3, <2>3 DEF AnswerFromCache
<1>4. CASE UnknownTool(a) \/ CallWriteFile(a) \/ CallCreateBranch(a) \/ CallCreatePr(a)
    BY <1>2, <1>4 DEF UnknownTool, CallWriteFile, CallCreateBranch, CallCreatePr, Executes
<1>5. CASE CallReads(a) \/ CallRunTests(a)
    <2>1. tree \in [Files -> Authors \cup {"main", None}]
        BY <1>1 DEF Snapshots
    <2>2. ReadFile(Call(a).arg) \in Outputs
        <3>1. CASE tree[Call(a).arg] = None
            BY <1>2, <3>1 DEF ReadFile
        <3>2. CASE tree[Call(a).arg] # None
            <4>1. [g \in Files |-> IF g = Call(a).arg THEN tree[Call(a).arg] ELSE None] \in Snapshots
                BY <2>1 DEF Snapshots
            <4> QED
                BY <3>2, <4>1 DEF ReadFile, Outputs
        <3> QED
            BY <3>1, <3>2
    <2>3. ListDirectory \in Outputs
        BY DEF ListDirectory, Outputs, Snapshots
    <2>4. SearchCodebase \in Outputs /\ RunTests \in Outputs /\ RunLinter \in Outputs
        BY <1>1 DEF SearchCodebase, RunTests, RunLinter, Outputs
    <2>5. PollPrStatus(BranchOf[a]) \in Outputs
        BY <1>2 DEF PollPrStatus
    <2> QED
        BY <1>5, <2>2, <2>3, <2>4, <2>5 DEF CallReads, CallRunTests, Executes
<1> QED
    BY <1>3, <1>4, <1>5 DEF CallStep

LEMMA CallTypes ==
    ASSUME TypeInv, NEW a \in Authors, CallStep(a)
    PROVE  OnlyStage(a) /\ stage'[a].artifact = stage[a].artifact
           /\ pc[a] = "calling" /\ pc'[a] \in {"asking", "calling"}
<1>1. PICK output \in Outputs : Outputting(a, output)
    BY CallOutputs
<1>2. pc[a] = "calling" /\ stage[a].queue # <<>>
    BY CallOutputs DEF TypeInv, Placed
<1> QED
    BY <1>1, <1>2, NextCall

\* The rest of the state: what no stage holds for itself.
Booked ==
    /\ started \in [Runs -> {"no", "cleaning", "yes"}]
    /\ cache \subseteq Entries
    /\ prUrl \subseteq Runs
    /\ failures \in 0 .. MaxFailures
    /\ stranded \in Nat

OutsideGit(a) == pc[a] \notin {"pushing", "resetting"}

\* A step that leaves HEAD alone and neither enters nor leaves the stretch
\* between a commit and its reset.
Quiet(a) ==
    /\ OnlyStage(a) /\ WorkspaceTypeOK' /\ Booked'
    /\ OutsideGit(a) /\ OutsideGit(a)'
    /\ head' = head /\ stranded' = stranded

LEMMA QuietLoop ==
    ASSUME TypeInv, NEW a \in Authors, LoopStep(a)
    PROVE  Quiet(a)
<1>1. /\ UNCHANGED workspace /\ UNCHANGED <<started, prUrl, failures, stranded>>
      /\ pc[a] \in {"new", "looking_up", "caching", "asking", "calling"}
    BY DEF LoopStep, BuildPrompt, Prompt, Hit, Miss, KeepResponse, AnswersWithCalls,
           AnswersWithArtifact, NoAnswer, ArgumentsRaise, bookkeeping, faults, Goes
<1>2. OnlyStage(a) /\ cache' \subseteq Entries /\ pc'[a] \notin InCommand
    BY LoopTypes
<1> QED
    BY <1>1, <1>2 DEF TypeInv, Typed, Quiet, Booked, OutsideGit, InCommand, workspace,
                      WorkspaceTypeOK

LEMMA QuietCalls ==
    ASSUME TypeInv, NEW a \in Authors, CallStep(a)
    PROVE  Quiet(a)
<1>1. OnlyStage(a) /\ pc[a] = "calling" /\ pc'[a] \in {"asking", "calling"}
    BY CallTypes
<1>2. BranchOf[a] \in Branches
    BY AgentsAssumption
<1>3. WorkspaceTypeOK' /\ head' = head
    <2>1. CASE UNCHANGED workspace
        BY <2>1 DEF workspace, TypeInv, Typed, WorkspaceTypeOK
    <2>2. CASE WriteFile(a, Call(a).arg)
        BY <2>2, Writing DEF TypeInv, Typed, WriteFile
    <2>3. CASE CreateBranch(BranchOf[a]) \/ CreatePr(BranchOf[a])
        BY <2>3, <1>2, Branching DEF TypeInv, Typed, CreateBranch, CreatePr
    <2> QED
        BY <2>1, <2>2, <2>3 DEF CallStep, AnswerFromCache, UnknownTool, CallWriteFile,
           CallReads, CallRunTests, CallCreateBranch, CallCreatePr
<1>4. UNCHANGED bookkeeping /\ UNCHANGED stranded /\ (UNCHANGED failures \/ Fails)
    BY DEF CallStep, AnswerFromCache, UnknownTool, CallWriteFile, CallReads, CallRunTests,
           CallCreateBranch, CallCreatePr, PrRefused, faults
<1>5. Booked'
    BY <1>4, BoundsAssumption DEF TypeInv, Typed, Booked, bookkeeping, Fails
<1> QED
    BY <1>1, <1>3, <1>4, <1>5 DEF Quiet, OutsideGit

LEMMA QuietGit ==
    ASSUME TypeInv, NEW a \in Authors,
           CallCommitAndPush(a) \/ GitAdd(a) \/ NothingStaged(a)
    PROVE  Quiet(a)
<1>1. stage[a] \in StageRecord /\ stage \in [Authors -> StageRecord] /\ pc \in [Authors -> Places]
    BY DEF TypeInv, Typed
<1>2. Booked' /\ stranded' = stranded
    BY DEF CallCommitAndPush, GitAdd, NothingStaged, bookkeeping, faults, TypeInv, Typed, Booked
<1>3. WorkspaceTypeOK' /\ head' = head
    BY Adding DEF CallCommitAndPush, GitAdd, NothingStaged, workspace, TypeInv, Typed, Add,
                  WorkspaceTypeOK
<1>4. CASE CallCommitAndPush(a)
    <2>1. stage[a].queue # <<>>
        BY <1>4 DEF CallCommitAndPush, Goes, TypeInv, Placed
    <2>2. stage' = [stage EXCEPT ![a] = stage[a]] /\ pc' = [pc EXCEPT ![a] = "adding"]
        BY <1>1, <1>4 DEF CallCommitAndPush, Goes
    <2>3. OnlyStage(a) /\ pc'[a] = "adding"
        BY <1>1, <2>1, <2>2, Holds DEF Places
    <2> QED
        BY <1>2, <1>3, <1>4, <2>3 DEF Quiet, OutsideGit, CallCommitAndPush, Goes
<1>5. CASE GitAdd(a)
    <2>1. stage[a].queue # <<>> \/ stage[a].artifact # None
        BY <1>5 DEF GitAdd, Goes, TypeInv, Placed, InCommand
    <2>2. stage' = [stage EXCEPT ![a] = stage[a]] /\ pc' = [pc EXCEPT ![a] = "committing"]
        BY <1>1, <1>5 DEF GitAdd, Goes
    <2>3. OnlyStage(a) /\ pc'[a] = "committing"
        BY <1>1, <2>1, <2>2, Holds DEF Places
    <2> QED
        BY <1>2, <1>3, <1>5, <2>3 DEF Quiet, OutsideGit, GitAdd, Goes
<1>6. CASE NothingStaged(a)
    BY <1>2, <1>3, <1>6, NextAfterPush DEF Quiet, OutsideGit, NothingStaged, InCommand
<1> QED
    BY <1>4, <1>5, <1>6

\* A stage's commits go to a branch there is.
LEMMA CommitsToBranch == ASSUME TypeInv, NEW a \in Authors PROVE FeatureBranch(a) \in Branches
<1>1. BranchOf[a] \in Branches
    BY AgentsAssumption
<1>2. stage[a].artifact \in Artifacts \cup {None}
    BY DEF TypeInv, Typed, StageRecord
<1> QED
    BY <1>1, <1>2 DEF FeatureBranch, NamesBranch, Artifacts

LEMMA QuietNode ==
    ASSUME TypeInv, NEW a \in Authors, SaveResult(a) \/ OpenPr(a) \/ PersistPr(a)
    PROVE  Quiet(a)
<1>1. stage[a] \in StageRecord /\ stage \in [Authors -> StageRecord] /\ pc \in [Authors -> Places]
    BY DEF TypeInv, Typed
<1>2. RunOf[a] \in Runs /\ FeatureBranch(a) \in Branches
    BY AgentsAssumption, CommitsToBranch
<1>3. CASE SaveResult(a)
    <2> DEFINE empty == NewStage.results
               now == [stage[a] EXCEPT !.iteration = 0, !.queue = <<>>, !.output = None,
                                       !.results = empty]
    <2>1. empty \in [Calls -> Outputs \cup {None}] /\ 0 \in 0 .. MaxIterations
          /\ <<>> \in Seq(Calls)
        BY BoundsAssumption DEF NewStage
    <2>2. now \in StageRecord /\ now.artifact = stage[a].artifact /\ now.outcome = stage[a].outcome
        <3> HIDE DEF empty
        <3> QED
            BY <1>1, <2>1 DEF StageRecord
    <2>3. stage' = [stage EXCEPT ![a] = now]
        BY <1>1, <1>3 DEF SaveResult
    <2>4. PICK to \in {"done", "adding", "persisting"} :
              /\ pc' = [pc EXCEPT ![a] = to]
              /\ to # "done" => stage[a].outcome = "completed"
        BY <1>3 DEF SaveResult, Goes
    <2>5. pc[a] = "saving" /\ (to # "done" => stage[a].artifact # None)
        BY <1>3, <2>4 DEF SaveResult, Goes, TypeInv, Placed
    <2> HIDE DEF now
    <2>6. OnlyStage(a) /\ pc'[a] = to
        BY <2>2, <2>3, <2>4, <2>5, Holds DEF Places, InCommand
    <2>7. UNCHANGED <<workspace, bookkeeping, faults>>
        BY <1>3 DEF SaveResult
    <2> QED
        BY <2>5, <2>6, <2>7 DEF Quiet, OutsideGit, Booked, TypeInv, Typed, WorkspaceTypeOK,
                                workspace, bookkeeping, faults
<1>4. CASE OpenPr(a)
    <2>1. pc[a] = "opening" /\ pc' = [pc EXCEPT ![a] = "persisting"]
        BY <1>4 DEF OpenPr, PrFails, Goes
    <2>2. stage[a].artifact \in Artifacts
        BY <1>1, <2>1 DEF TypeInv, Placed, StageRecord
    <2>3. PICK now \in StageRecord : stage' = [stage EXCEPT ![a] = now]
        <3>1. CASE stage' = [stage EXCEPT ![a].artifact.pr = "opened"]
            <4> DEFINE opened == [stage[a].artifact EXCEPT !.pr = "opened"]
                       now == [stage[a] EXCEPT !.artifact = opened]
            <4>1. opened \in Artifacts
                BY <2>2 DEF Artifacts
            <4>2. stage' = [stage EXCEPT ![a] = now]
                BY <1>1, <3>1
            <4> HIDE DEF opened
            <4>3. now \in StageRecord
                BY <1>1, <4>1 DEF StageRecord
            <4> QED
                BY <4>2, <4>3
        <3>2. CASE stage' = [stage EXCEPT ![a].prError = TRUE]
            <4> DEFINE now == [stage[a] EXCEPT !.prError = TRUE]
            <4>1. now \in StageRecord
                BY <1>1 DEF StageRecord
            <4> QED
                BY <1>1, <3>2, <4>1
        <3> QED
            BY <1>4, <3>1, <3>2 DEF OpenPr, PrFails
    <2>4. OnlyStage(a) /\ pc'[a] = "persisting"
        BY <2>1, <2>3, Holds DEF Places, InCommand
    <2>5. WorkspaceTypeOK' /\ head' = head
        BY <1>2, <1>4, Branching
        DEF OpenPr, CreatePr, TypeInv, Typed, workspace, WorkspaceTypeOK
    <2>6. Booked' /\ stranded' = stranded
        BY <1>2, <1>4, BoundsAssumption
        DEF OpenPr, UpdateRunPr, PrRefused, Fails, TypeInv, Typed, Booked
    <2> QED
        BY <2>1, <2>4, <2>5, <2>6 DEF Quiet, OutsideGit
<1>5. CASE PersistPr(a)
    <2>1. stage' = [stage EXCEPT ![a] = stage[a]] /\ pc' = [pc EXCEPT ![a] = "done"]
          /\ pc[a] = "persisting"
        BY <1>1, <1>5 DEF PersistPr, Goes
    <2>2. OnlyStage(a) /\ pc'[a] = "done"
        BY <1>1, <2>1, Holds DEF Places, InCommand
    <2> QED
        <3>1. Booked'
            BY <1>2, <1>5, BoundsAssumption
            DEF PersistPr, UpdateRunPr, Fails, Booked, TypeInv, Typed
        <3>2. WorkspaceTypeOK' /\ head' = head /\ stranded' = stranded
            BY <1>5 DEF PersistPr, TypeInv, Typed, WorkspaceTypeOK, workspace
        <3> QED
            BY <2>1, <2>2, <3>1, <3>2 DEF Quiet, OutsideGit
<1> QED
    BY <1>3, <1>4, <1>5

\* GitCommit, GitPush, and the ends of commit_and_push that follow a commit.
LEMMA CommitTypes ==
    ASSUME TypeInv, NEW a \in Authors, GitCommit(a)
    PROVE  /\ OnlyStage(a) /\ WorkspaceTypeOK' /\ Booked'
           /\ OutsideGit(a) /\ ~OutsideGit(a)'
           /\ Len(head') = Len(head) + 1 /\ head'[1] = head[1] /\ stranded' = stranded
<1>1. stage[a] \in StageRecord /\ stage \in [Authors -> StageRecord] /\ pc \in [Authors -> Places]
    BY DEF TypeInv, Typed
<1> DEFINE one == stage[a].commits + 1
           now == [stage[a] EXCEPT !.commits = one]
<1>2. stage' = [stage EXCEPT ![a] = now] /\ pc' = [pc EXCEPT ![a] = "pushing"]
      /\ pc[a] = "committing"
    BY <1>1 DEF GitCommit, Goes
<1>3. now \in StageRecord /\ now.queue = stage[a].queue /\ now.artifact = stage[a].artifact
    <2>1. one \in Nat
        BY <1>1 DEF StageRecord
    <2> HIDE DEF one
    <2> QED
        BY <1>1, <2>1 DEF StageRecord
<1>4. stage[a].queue # <<>> \/ stage[a].artifact # None
    BY <1>2 DEF TypeInv, Placed, InCommand
<1> HIDE DEF now
<1>5. OnlyStage(a) /\ pc'[a] = "pushing"
    BY <1>2, <1>3, <1>4, Holds DEF Places
<1>6. stage[a].commits \in Nat
    BY <1>1 DEF StageRecord
<1>7. WorkspaceTypeOK' /\ Len(head') = Len(head) + 1 /\ head'[1] = head[1]
    BY <1>6, Committing DEF GitCommit, TypeInv, Typed
<1> QED
    BY <1>2, <1>5, <1>7 DEF GitCommit, Booked, TypeInv, Typed, OutsideGit, bookkeeping, faults

LEMMA PushTypes ==
    ASSUME TypeInv, NEW a \in Authors, GitPush(a)
    PROVE  /\ OnlyStage(a) /\ WorkspaceTypeOK' /\ Booked'
           /\ ~OutsideGit(a) /\ ~OutsideGit(a)' /\ head' = head /\ stranded' = stranded
<1>1. stage[a] \in StageRecord /\ stage \in [Authors -> StageRecord] /\ pc \in [Authors -> Places]
    BY DEF TypeInv, Typed
<1>2. stage' = [stage EXCEPT ![a] = stage[a]] /\ pc' = [pc EXCEPT ![a] = "resetting"]
      /\ pc[a] = "pushing"
    BY <1>1 DEF GitPush, Goes
<1>3. stage[a].queue # <<>> \/ stage[a].artifact # None
    BY <1>2 DEF TypeInv, Placed, InCommand
<1>4. OnlyStage(a) /\ pc'[a] = "resetting"
    BY <1>1, <1>2, <1>3, Holds DEF Places
<1>5. FeatureBranch(a) \in Branches
    BY CommitsToBranch
<1>6. WorkspaceTypeOK' /\ head' = head
    BY <1>5, Pushing DEF GitPush, Push, TypeInv, Typed
<1> QED
    BY <1>2, <1>4, <1>6 DEF GitPush, Booked, TypeInv, Typed, OutsideGit, bookkeeping, faults

-----------------------------------------------------------------------------
(* The commits on HEAD                                                     *)

LEMMA GitFinite == TypeInv => IsFiniteSet(InGit) /\ Cardinality(InGit) \in Nat
<1>1. InGit \subseteq Authors /\ IsFiniteSet(Authors)
    BY AgentsAssumption DEF InGit
<1>2. IsFiniteSet(InGit)
    BY <1>1, FS_Subset
<1> QED
    BY <1>2, FS_CardinalityType

\* A stage between its commit and its reset has a commit on top of main's tip.
LEMMA OneToReset ==
    ASSUME TypeInv, HeadAccounted, NEW a \in Authors, ~OutsideGit(a)
    PROVE  Len(head) > 1 /\ Cardinality(InGit \ {a}) = Cardinality(InGit) - 1
<1>1. a \in InGit /\ IsFiniteSet(InGit) /\ Cardinality(InGit) \in Nat
    BY GitFinite DEF OutsideGit, InGit
<1>2. Cardinality(InGit \ {a}) = Cardinality(InGit) - 1
    BY <1>1, FS_RemoveElement
<1>3. Cardinality(InGit \ {a}) \in Nat
    BY <1>1, FS_RemoveElement, FS_CardinalityType
<1> QED
    BY <1>1, <1>2, <1>3 DEF HeadAccounted, TypeInv, Typed

LEMMA KeepsAccount ==
    ASSUME HeadAccounted, NEW a \in Authors, OnlyStage(a),
           OutsideGit(a) <=> OutsideGit(a)', head' = head, stranded' = stranded
    PROVE  HeadAccounted'
<1>1. InGit' = InGit
    BY DEF InGit, OnlyStage, OutsideGit
<1> QED
    BY <1>1 DEF HeadAccounted

LEMMA CommitAccount ==
    ASSUME TypeInv, HeadAccounted, NEW a \in Authors, OnlyStage(a), OutsideGit(a),
           ~OutsideGit(a)', Len(head') = Len(head) + 1, head'[1] = head[1],
           stranded' = stranded
    PROVE  HeadAccounted'
<1>1. InGit' = InGit \cup {a} /\ a \notin InGit
    BY DEF InGit, OnlyStage, OutsideGit
<1>2. Cardinality(InGit \cup {a}) = Cardinality(InGit) + 1
    BY <1>1, GitFinite, FS_AddElement
<1> QED
    BY <1>1, <1>2, GitFinite DEF HeadAccounted, TypeInv, Typed

LEMMA ResetAccount ==
    ASSUME TypeInv, HeadAccounted, NEW a \in Authors, OnlyStage(a), ~OutsideGit(a),
           OutsideGit(a)', head'[1] = head[1],
           \/ Len(head') = Len(head) - 1 /\ stranded' = stranded
           \/ Len(head') = Len(head) /\ stranded' = stranded + 1
    PROVE  HeadAccounted'
<1>1. InGit' = InGit \ {a}
    BY DEF InGit, OnlyStage, OutsideGit
<1>2. Cardinality(InGit \ {a}) = Cardinality(InGit) - 1
    BY OneToReset
<1>3. Cardinality(InGit)' = Cardinality(InGit) - 1
    BY <1>1, <1>2
<1>4. Cardinality(InGit) \in Nat /\ stranded \in Nat
    BY GitFinite DEF TypeInv, Typed
<1>5. Len(head) = 1 + Cardinality(InGit) + stranded
    BY DEF HeadAccounted
<1>6. Len(head') = 1 + Cardinality(InGit)' + stranded'
    <2> DEFINE l == Len(head)  l1 == Len(head')
               n == Cardinality(InGit)  n1 == Cardinality(InGit)'
    <2>1. l = 1 + n + stranded /\ n1 = n - 1 /\ n \in Nat /\ stranded \in Nat
        BY <1>3, <1>4, <1>5
    <2>2. \/ l1 = l - 1 /\ stranded' = stranded
          \/ l1 = l /\ stranded' = stranded + 1
        OBVIOUS
    <2> HIDE DEF l, l1, n, n1
    <2>3. l1 = 1 + n1 + stranded'
        BY <2>1, <2>2
    <2> QED
        BY <2>3 DEF l1, n1
<1> QED
    BY <1>6 DEF HeadAccounted

Inv == TypeInv /\ HeadAccounted

LEMMA Assembled ==
    ASSUME TypeInv, NEW a \in Authors, OnlyStage(a), WorkspaceTypeOK', Booked'
    PROVE  TypeInv'
<1>1. \A b \in Authors : Placed(b)'
    BY DEF TypeInv, OnlyStage, Placed
<1> QED
    BY <1>1 DEF TypeInv, Typed, OnlyStage, Booked

LEMMA QuietStep == ASSUME Inv, NEW a \in Authors, Quiet(a) PROVE Inv'
BY Assembled, KeepsAccount DEF Quiet, Inv

LEMMA EndOfCommand ==
    ASSUME Inv, NEW a \in Authors, GitReset(a) \/ GitFails(a) \/ PushRejected(a)
    PROVE  Inv'
<1>1. OnlyStage(a) /\ OutsideGit(a)'
    <2>1. pc[a] \in InCommand /\ (PushSucceeds(a) \/ PushFails(a))
        BY DEF GitReset, GitFails, PushRejected, InCommand
    <2> QED
        BY <2>1, NextAfterPush DEF Inv, OutsideGit, InCommand
<1>2. Booked'
    BY BoundsAssumption DEF GitReset, GitFails, PushRejected, CommitStays, Fails, Inv, TypeInv,
                            Typed, Booked, bookkeeping, faults
<1>3. CASE GitReset(a)
    <2>1. ~OutsideGit(a)
        BY <1>3 DEF GitReset, OutsideGit
    <2>2. Len(head) > 1
        BY <2>1, OneToReset DEF Inv
    <2>3. /\ WorkspaceTypeOK' /\ Len(head') = Len(head) - 1
          /\ \A i \in 1 .. Len(head') : head'[i] = head[i]
        BY <1>3, <2>2, Resetting DEF GitReset, Inv, TypeInv, Typed
    <2>4. 1 \in 1 .. Len(head')
        BY <2>2, <2>3 DEF Inv, TypeInv, Typed, WorkspaceTypeOK
    <2>5. stranded' = stranded
        BY <1>3 DEF GitReset, faults
    <2> QED
        BY <1>1, <1>2, <2>1, <2>3, <2>4, <2>5, Assembled, ResetAccount DEF Inv
<1>4. CASE GitFails(a) \/ PushRejected(a)
    <2>1. WorkspaceTypeOK' /\ head' = head
        BY <1>4 DEF GitFails, PushRejected, workspace, Inv, TypeInv, Typed, WorkspaceTypeOK
    <2>2. stranded' = IF OutsideGit(a) THEN stranded ELSE stranded + 1
        BY <1>4 DEF GitFails, PushRejected, CommitStays, OutsideGit, Inv, TypeInv, Typed
    <2> QED
        BY <1>1, <1>2, <2>1, <2>2, Assembled, ResetAccount, KeepsAccount DEF Inv
<1> QED
    BY <1>3, <1>4

LEMMA StartSteps ==
    ASSUME Inv, NEW r \in Runs, StartStep(r)
    PROVE  Inv'
<1>1. UNCHANGED <<pc, stage, cache, prUrl, stranded>> /\ UNCHANGED head
    BY DEF StartStep, ResetTracked, RemoveUntracked, ResetFails, CheckoutHead, CleanUntracked,
           workspace
<1>2. started' \in [Runs -> {"no", "cleaning", "yes"}] /\ failures' \in 0 .. MaxFailures
    BY BoundsAssumption DEF StartStep, ResetTracked, RemoveUntracked, ResetFails, StartsWith,
                            Fails, Inv, TypeInv, Typed
<1>3. WorkspaceTypeOK'
    BY Cleaning DEF StartStep, ResetTracked, RemoveUntracked, ResetFails, Inv, TypeInv, Typed,
                    workspace, WorkspaceTypeOK
<1>4. TypeInv'
    BY <1>1, <1>2, <1>3 DEF Inv, TypeInv, Typed, Placed
<1>5. HeadAccounted'
    BY <1>1 DEF Inv, HeadAccounted, InGit
<1> QED
    BY <1>4, <1>5 DEF Inv

LEMMA StageSteps ==
    ASSUME Inv, NEW a \in Authors, StageStep(a)
    PROVE  Inv'
<1>1. CASE LoopStep(a) \/ CallStep(a)
    BY <1>1, QuietLoop, QuietCalls, QuietStep DEF Inv
<1>2. CASE CallCommitAndPush(a) \/ GitAdd(a) \/ NothingStaged(a)
    BY <1>2, QuietGit, QuietStep DEF Inv
<1>3. CASE SaveResult(a) \/ OpenPr(a) \/ PersistPr(a)
    BY <1>3, QuietNode, QuietStep DEF Inv
<1>4. CASE GitCommit(a)
    BY <1>4, CommitTypes, Assembled, CommitAccount DEF Inv
<1>5. CASE GitPush(a)
    BY <1>5, PushTypes, Assembled, KeepsAccount DEF Inv
<1>6. CASE GitReset(a) \/ GitFails(a) \/ PushRejected(a)
    BY <1>6, EndOfCommand
<1> QED
    BY <1>1, <1>2, <1>3, <1>4, <1>5, <1>6 DEF StageStep, ReturningStep, LoopStep, CallStep, Git

LEMMA InitInv == Init => Inv
<1> SUFFICES ASSUME Init PROVE HeadAccounted
    BY InitTypes DEF Inv
<1>1. InGit = {}
    BY DEF Init, InGit
<1> QED
    BY <1>1, FS_EmptySet DEF Init, WorkspaceInit, HeadAccounted

LEMMA NextInv == Inv /\ [Next]_vars => Inv'
<1> SUFFICES ASSUME Inv, [Next]_vars PROVE Inv'
    OBVIOUS
<1>1. CASE UNCHANGED vars
    BY <1>1 DEF vars, workspace, Inv, TypeInv, Typed, Placed, WorkspaceTypeOK, HeadAccounted, InGit
<1> QED
    BY <1>1, StartSteps, StageSteps DEF Next

LEMMA AlwaysInv == Spec => []Inv
BY InitInv, NextInv, PTL DEF Spec

\* Every variable has its type in every reachable state of the stage loop, and a
\* stage that is to make a call has one (StageAgent.run).
THEOREM TypesHold == Spec => []TypeOK
<1>1. Inv => TypeOK
    BY DEF Inv, TypeInv, Typed, TypeOK, StageRecord, Placed, Places
<1> QED
    BY <1>1, AlwaysInv, PTL

\* HEAD is main's tip plus the commits of the commands at work or failed: what
\* commit_and_push resets is never main's tip, however the stages interleave.
THEOREM HeadIsAccounted == Spec => []HeadAccounted
<1>1. Inv => HeadAccounted
    BY DEF Inv
<1> QED
    BY <1>1, AlwaysInv, PTL

-----------------------------------------------------------------------------
(* The checkout: what the commands of all stages and runs amount to        *)

WorkspaceStep ==
    \/ UNCHANGED workspace
    \/ \E a \in Authors, f \in Files : WriteFile(a, f)
    \/ Add
    \/ \E a \in Authors, n \in Nat : Commit(a, n)
    \/ \E b \in Branches : Push(b) \/ CreateBranch(b) \/ CreatePr(b)
    \/ Len(head) > 1 /\ ResetMixed
    \/ CheckoutHead
    \/ CleanUntracked

LEMMA StageCommands ==
    ASSUME Inv, NEW a \in Authors, StageStep(a)
    PROVE  WorkspaceStep
<1> USE DEF WorkspaceStep
<1>1. BranchOf[a] \in Branches /\ FeatureBranch(a) \in Branches
    BY AgentsAssumption, CommitsToBranch DEF Inv
<1>2. stage[a].commits \in Nat
    BY DEF Inv, TypeInv, Typed, StageRecord
<1>3. CASE LoopStep(a)
    BY <1>3 DEF LoopStep, BuildPrompt, Prompt, Hit, Miss, KeepResponse, AnswersWithCalls,
                AnswersWithArtifact, NoAnswer, ArgumentsRaise
<1>4. CASE CallStep(a)
    <2>1. CASE CallWriteFile(a)
        BY <2>1 DEF CallWriteFile, WriteFile, MayWrite
    <2>2. CASE CallCreateBranch(a) \/ CallCreatePr(a)
        BY <1>1, <2>2 DEF CallCreateBranch, CallCreatePr
    <2> QED
        BY <1>4, <2>1, <2>2 DEF CallStep, AnswerFromCache, UnknownTool, CallReads, CallRunTests
<1>5. CASE GitReset(a)
    <2>1. Len(head) > 1
        BY <1>5, OneToReset DEF GitReset, OutsideGit, Inv
    <2> QED
        BY <1>5, <2>1 DEF GitReset
<1>6. CASE Git(a) /\ ~GitReset(a)
    BY <1>1, <1>2, <1>6 DEF Git, GitAdd, NothingStaged, GitCommit, GitPush, GitFails, PushRejected
<1>7. CASE CallCommitAndPush(a) \/ SaveResult(a) \/ OpenPr(a) \/ PersistPr(a)
    BY <1>1, <1>7 DEF CallCommitAndPush, SaveResult, OpenPr, PersistPr
<1> QED
    BY <1>3, <1>4, <1>5, <1>6, <1>7 DEF StageStep, ReturningStep, LoopStep, CallStep

LEMMA Commands == Inv /\ [Next]_vars => WorkspaceStep
<1>1. ASSUME NEW r \in Runs, StartStep(r) PROVE WorkspaceStep
    BY <1>1 DEF StartStep, ResetTracked, RemoveUntracked, ResetFails, WorkspaceStep
<1>2. UNCHANGED vars => WorkspaceStep
    BY DEF vars, WorkspaceStep
<1> QED
    BY <1>1, <1>2, StageCommands DEF Next

LEMMA AncestorOfItself == ASSUME NEW s \in Seq(Commits) PROVE IsAncestor(s, s)
BY SubSeqFull, LenProperties DEF IsAncestor

LEMMA EmptyAncestor == ASSUME NEW s \in Seq(Commits) PROVE IsAncestor(<<>>, s)
<1>1. Len(<<>>) = 0 /\ Len(s) \in Nat
    OBVIOUS
<1>2. SubSeq(s, 1, 0) = <<>>
    BY SubSeqEmpty
<1> QED
    BY <1>1, <1>2 DEF IsAncestor

LEMMA RemoteGrows ==
    ASSUME WorkspaceTypeOK, WorkspaceStep, NEW b \in Branches
    PROVE  IsAncestor(remote[b], remote'[b])
<1>1. remote[b] \in Seq(Commits) /\ head \in Seq(Commits)
    BY DEF WorkspaceTypeOK
<1>2. IsAncestor(remote[b], remote[b])
    BY <1>1, AncestorOfItself
<1>3. ASSUME NEW c \in Branches, Push(c) PROVE IsAncestor(remote[b], remote'[b])
    BY <1>2, <1>3 DEF Push, FastForward, WorkspaceTypeOK
<1>4. ASSUME NEW c \in Branches, CreateBranch(c) PROVE IsAncestor(remote[b], remote'[b])
    <2>1. MainTip \in Commits
        BY Snapshot DEF MainTip, Commits
    <2>2. IsAncestor(<<>>, <<MainTip>>)
        <3>1. <<MainTip>> \in Seq(Commits)
            BY <2>1
        <3> QED
            BY <3>1, EmptyAncestor
    <2> QED
        BY <1>2, <1>4, <2>2 DEF CreateBranch, WorkspaceTypeOK
<1>5. remote' = remote => IsAncestor(remote[b], remote'[b])
    BY <1>2
<1> QED
    BY <1>3, <1>4, <1>5
    DEF WorkspaceStep, workspace, WriteFile, Add, Commit, CreatePr, ResetMixed, CheckoutHead,
        CleanUntracked

\* What a remote branch has is never taken back or rewritten by any push, of any
\* stage, with whatever commits HEAD has piled up (commit_and_push).
THEOREM RemoteGrowsOnly == Spec => RemoteOnlyGrows
<1>1. Inv /\ [Next]_vars => [\A b \in Branches : IsAncestor(remote[b], remote'[b])]_vars
    <2> SUFFICES ASSUME Inv, [Next]_vars
                 PROVE  \A b \in Branches : IsAncestor(remote[b], remote'[b])
        OBVIOUS
    <2> QED
        BY Commands, RemoteGrows DEF Inv, TypeInv, Typed
<1> QED
    BY <1>1, AlwaysInv, PTL DEF Spec, RemoteOnlyGrows

\* OriginalTestsKept with git's index, from which commits are made.
TestsKept ==
    \A f \in ReadOnly \cap Tracked :
        /\ tree[f] = "main" /\ index[f] = "main"
        /\ \A i \in 1 .. Len(head) : head[i].files[f] = "main"
        /\ \A b \in Branches : \A i \in 1 .. Len(remote[b]) : remote[b][i].files[f] = "main"

LEMMA InitTests == Init => TestsKept
<1> SUFFICES ASSUME Init, NEW f \in ReadOnly \cap Tracked
             PROVE  /\ tree[f] = "main" /\ index[f] = "main"
                    /\ \A i \in 1 .. Len(head) : head[i].files[f] = "main"
                    /\ \A b \in Branches : Len(remote[b]) = 0
    BY DEF TestsKept
<1>1. MainFiles[f] = "main"
    BY TrackedAssumption DEF MainFiles
<1>2. tree = MainFiles /\ index = MainFiles /\ head = <<MainTip>>
      /\ \A b \in Branches : remote[b] = <<>>
    BY DEF Init, WorkspaceInit
<1>3. MainTip.files[f] = "main"
    BY <1>1 DEF MainTip
<1>4. Len(head) = 1 /\ head[1] = MainTip
    BY <1>2
<1> QED
    BY <1>1, <1>2, <1>3, <1>4

LEMMA StepTests ==
    ASSUME WorkspaceTypeOK, WorkspaceStep, TestsKept
    PROVE  TestsKept'
<1> SUFFICES ASSUME NEW f \in ReadOnly \cap Tracked
             PROVE  /\ tree'[f] = "main" /\ index'[f] = "main"
                    /\ \A i \in 1 .. Len(head') : head'[i].files[f] = "main"
                    /\ \A b \in Branches : \A i \in 1 .. Len(remote'[b]) :
                          remote'[b][i].files[f] = "main"
    BY DEF TestsKept
<1>1. f \in Files /\ None # "main"
    BY TrackedAssumption, AuthorsAssumption
<1>2. /\ tree[f] = "main" /\ index[f] = "main"
      /\ \A i \in 1 .. Len(head) : head[i].files[f] = "main"
      /\ \A b \in Branches : \A i \in 1 .. Len(remote[b]) : remote[b][i].files[f] = "main"
    BY DEF TestsKept
<1>3. /\ tree \in [Files -> Authors \cup {"main", None}] /\ index \in [Files -> Authors \cup {"main", None}]
      /\ head \in Seq(Commits) /\ Len(head) \in Nat \ {0} /\ remote \in [Branches -> Seq(Commits)]
    BY DEF WorkspaceTypeOK, Snapshots
<1>4. HeadCommit.files[f] = "main"
    BY <1>2, <1>3 DEF HeadCommit
<1>5. ASSUME NEW a \in Authors, NEW g \in Files, WriteFile(a, g)
      PROVE  /\ tree'[f] = "main" /\ index'[f] = "main" /\ head' = head /\ remote' = remote
    BY <1>1, <1>2, <1>3, <1>5 DEF WriteFile, MayWrite
<1>6. Add \/ CheckoutHead \/ CleanUntracked =>
          /\ tree'[f] = "main" /\ index'[f] = "main" /\ head' = head /\ remote' = remote
    BY <1>1, <1>2, <1>3, <1>4 DEF Add, CheckoutHead, CleanUntracked
<1>7. ASSUME NEW a \in Authors, NEW n \in Nat, Commit(a, n)
      PROVE  /\ UNCHANGED <<tree, index, remote>>
             /\ \A i \in 1 .. Len(head') : head'[i].files[f] = "main"
    <2> DEFINE c == [by |-> a, at |-> n, files |-> index]
    <2>1. c \in Commits /\ c.files[f] = "main"
        BY <1>2 DEF Commits, WorkspaceTypeOK
    <2>2. head' = Append(head, c) /\ UNCHANGED <<tree, index, remote>>
        BY <1>7 DEF Commit
    <2> HIDE DEF c
    <2>3. Len(head') = Len(head) + 1 /\ head'[Len(head) + 1] = c
          /\ \A i \in 1 .. Len(head) : head'[i] = head[i]
        BY <1>3, <2>1, <2>2, AppendProperties
    <2> QED
        BY <1>2, <1>3, <2>1, <2>2, <2>3
<1>8. ASSUME NEW b \in Branches, Push(b) \/ CreateBranch(b) \/ CreatePr(b)
      PROVE  /\ UNCHANGED <<tree, index, head>>
             /\ \A c \in Branches : \A i \in 1 .. Len(remote'[c]) :
                   remote'[c][i].files[f] = "main"
    <2>1. MainTip.files[f] = "main"
        BY <1>1 DEF MainTip, MainFiles
    <2>2. Len(<<MainTip>>) = 1 /\ <<MainTip>>[1] = MainTip
        OBVIOUS
    <2>3. UNCHANGED <<tree, index, head>>
        BY <1>8 DEF Push, CreateBranch, CreatePr
    <2>4. \A c \in Branches : remote'[c] \in {remote[c], head, <<MainTip>>}
        BY <1>3, <1>8 DEF Push, CreateBranch, CreatePr
    <2>5. ASSUME NEW c \in Branches, NEW i \in 1 .. Len(remote'[c])
          PROVE  remote'[c][i].files[f] = "main"
        <3>1. CASE remote'[c] = <<MainTip>>
            <4>1. i = 1
                BY <2>2, <3>1
            <4> QED
                BY <2>1, <2>2, <3>1, <4>1
        <3> QED
            BY <1>2, <2>4, <2>5, <3>1
    <2> QED
        BY <2>3, <2>5
<1>9. Len(head) > 1 /\ ResetMixed =>
          /\ UNCHANGED <<tree, remote>> /\ index'[f] = "main"
          /\ \A i \in 1 .. Len(head') : head'[i].files[f] = "main"
    <2> SUFFICES ASSUME Len(head) > 1, ResetMixed
                 PROVE  /\ UNCHANGED <<tree, remote>> /\ index'[f] = "main"
                        /\ \A i \in 1 .. Len(head') : head'[i].files[f] = "main"
        OBVIOUS
    <2>1. Len(head') = Len(head) - 1 /\ \A i \in 1 .. Len(head') : head'[i] = head[i]
        BY Resetting
    <2>2. Len(head) - 1 \in 1 .. Len(head)
        BY <1>3
    <2> QED
        BY <1>2, <1>3, <2>1, <2>2 DEF ResetMixed
<1> QED
    BY <1>2, <1>5, <1>6, <1>7, <1>8, <1>9 DEF WorkspaceStep, workspace

\* The original tests are main's in the checkout and in every commit made or
\* pushed, whatever the stages write and however the commands fail
\* (_READONLY_PATHS, commit_and_push).
THEOREM OriginalTestsAreKept == Spec => []OriginalTestsKept
<1>1. Inv /\ TestsKept /\ [Next]_vars => TestsKept'
    BY Commands, StepTests DEF Inv, TypeInv, Typed
<1>2. TestsKept => OriginalTestsKept
    BY DEF TestsKept, OriginalTestsKept
<1> QED
    BY <1>1, <1>2, InitTests, AlwaysInv, PTL DEF Spec

-----------------------------------------------------------------------------
(* The files and the tool cache                                            *)

LEMMA WhoWrites ==
    ASSUME [Next]_vars, tree' # tree
    PROVE  \/ \E r \in Runs : ResetTracked(r) \/ RemoveUntracked(r)
           \/ \E a \in Authors : CallWriteFile(a) /\ WriteFile(a, Call(a).arg)
<1>1. ASSUME NEW r \in Runs, StartStep(r) PROVE ResetTracked(r) \/ RemoveUntracked(r)
    BY <1>1 DEF StartStep, ResetFails, workspace
<1>2. ASSUME NEW a \in Authors, StageStep(a) PROVE CallWriteFile(a)
    <2>1. ~Git(a)
        BY DEF Git, GitAdd, NothingStaged, GitCommit, GitPush, GitReset, GitFails, PushRejected,
               Add, Commit, Push, ResetMixed, workspace
    <2>2. ~CallReads(a) /\ ~CallRunTests(a) /\ ~CallCreateBranch(a) /\ ~CallCreatePr(a) /\ ~CallCommitAndPush(a)
          /\ ~AnswerFromCache(a) /\ ~UnknownTool(a)
        BY DEF CallReads, CallRunTests, CallCreateBranch, CallCreatePr, CallCommitAndPush, AnswerFromCache,
               UnknownTool, CreateBranch, CreatePr, workspace
    <2>3. ~BuildPrompt(a) /\ ~Hit(a) /\ ~Miss(a) /\ ~KeepResponse(a)
          /\ ~AnswersWithCalls(a) /\ ~AnswersWithArtifact(a) /\ ~NoAnswer(a) /\ ~ArgumentsRaise(a)
        BY DEF BuildPrompt, Prompt, Hit, Miss, KeepResponse, AnswersWithCalls,
               AnswersWithArtifact, NoAnswer, ArgumentsRaise, workspace
    <2>4. ~SaveResult(a) /\ ~OpenPr(a) /\ ~PersistPr(a)
        BY DEF SaveResult, OpenPr, PersistPr, CreatePr, workspace
    <2> QED
        BY <1>2, <2>1, <2>2, <2>3, <2>4 DEF StageStep, ReturningStep
<1>3. \A a \in Authors : CallWriteFile(a) => WriteFile(a, Call(a).arg)
    BY DEF CallWriteFile, workspace
<1>4. ~UNCHANGED vars
    BY DEF vars, workspace
<1> QED
    BY <1>1, <1>2, <1>3, <1>4 DEF Next

\* The files change only by a stage's write or a run command's reset: no commit,
\* push or reset of another stage undoes what is written (commit_and_push).
THEOREM FilesChangeOnlyByWriting == Spec => FilesChangeByWriting
<1>1. Inv /\ [Next]_vars =>
          [tree' # tree => \/ \E r \in Runs : started'[r] # started[r]
                           \/ \E a \in Authors :
                                 /\ pc[a] = "calling"
                                 /\ Call(a).tool = "write_file"
                                 /\ tree' = [tree EXCEPT ![Call(a).arg] = a]]_vars
    <2> SUFFICES ASSUME Inv, [Next]_vars, tree' # tree
                 PROVE  \/ \E r \in Runs : started'[r] # started[r]
                        \/ \E a \in Authors :
                              /\ pc[a] = "calling"
                              /\ Call(a).tool = "write_file"
                              /\ tree' = [tree EXCEPT ![Call(a).arg] = a]
        OBVIOUS
    <2>1. ASSUME NEW r \in Runs, ResetTracked(r) \/ RemoveUntracked(r)
          PROVE  started'[r] # started[r]
        BY <2>1 DEF ResetTracked, RemoveUntracked, StartsWith, Inv, TypeInv, Typed
    <2>2. ASSUME NEW a \in Authors, CallWriteFile(a), WriteFile(a, Call(a).arg)
          PROVE  /\ pc[a] = "calling" /\ Call(a).tool = "write_file"
                 /\ tree' = [tree EXCEPT ![Call(a).arg] = a]
        BY <2>2 DEF CallWriteFile, Executes, WriteFile
    <2> QED
        BY <2>1, <2>2, WhoWrites
<1> QED
    BY <1>1, AlwaysInv, PTL DEF Spec, FilesChangeByWriting

LEMMA OnlyItsStage ==
    ASSUME Inv, NEW b \in Authors, StageStep(b)
    PROVE  OnlyStage(b)
<1>1. CASE LoopStep(b) \/ CallStep(b)
    BY <1>1, QuietLoop, QuietCalls DEF Inv, Quiet
<1>2. CASE CallCommitAndPush(b) \/ GitAdd(b) \/ NothingStaged(b)
    BY <1>2, QuietGit DEF Inv, Quiet
<1>3. CASE SaveResult(b) \/ OpenPr(b) \/ PersistPr(b)
    BY <1>3, QuietNode DEF Inv, Quiet
<1>4. CASE GitCommit(b) \/ GitPush(b)
    BY <1>4, CommitTypes, PushTypes DEF Inv
<1>5. CASE GitReset(b) \/ GitFails(b) \/ PushRejected(b)
    <2>1. pc[b] \in InCommand /\ (PushSucceeds(b) \/ PushFails(b))
        BY <1>5 DEF GitReset, GitFails, PushRejected, InCommand
    <2> QED
        BY <2>1, NextAfterPush DEF Inv
<1> QED
    BY <1>1, <1>2, <1>3, <1>4, <1>5 DEF StageStep, ReturningStep, LoopStep, CallStep, Git

LEMMA WriteAnswered ==
    ASSUME Inv, NEW a \in Authors, StageStep(a), pc[a] = "calling", pc'[a] # "adding",
           Call(a).tool = "write_file", stage'[a].output.ok,
           stage'[a].queue # stage[a].queue
    PROVE  tree'[Call(a).arg] = a
<1>1. stage \in [Authors -> StageRecord] /\ stage[a] \in StageRecord /\ tree \in Snapshots
    BY DEF Inv, TypeInv, Typed, WorkspaceTypeOK
<1>2. ~Cacheable(Call(a)) /\ Call(a).tool \in Tools
    BY DEF Cacheable, NoCacheTools, Tools
<1>3. ~AnswerFromCache(a) /\ ~UnknownTool(a)
    BY <1>2 DEF AnswerFromCache, UnknownTool
<1>4. ~CallReads(a) /\ ~CallRunTests(a) /\ ~CallCreateBranch(a) /\ ~CallCreatePr(a) /\ ~CallCommitAndPush(a)
    <2>1. pc'[a] = "adding" \/ ~CallCommitAndPush(a)
        BY DEF CallCommitAndPush, Executes, Goes
    <2> QED
        BY <2>1 DEF CallReads, CallRunTests, CallCreateBranch, CallCreatePr, CallCommitAndPush, Executes
<1>5. CASE CallWriteFile(a)
    <2>1. CASE WriteFile(a, Call(a).arg)
        BY <1>1, <2>1 DEF WriteFile, MayWrite, Snapshots
    <2>2. CASE Outputting(a, Raised)
        <3>1. stage'[a].output = Raised
            BY <1>1, <2>2 DEF Outputting, StageRecord
        <3> QED
            BY <3>1 DEF Raised
    <2> QED
        BY <1>5, <2>1, <2>2 DEF CallWriteFile
<1>6. ~ArgumentsRaise(a)
    <2>1. ArgumentsRaise(a) => stage'[a].queue = stage[a].queue
        BY <1>1 DEF ArgumentsRaise, StageRecord
    <2> QED
        BY <2>1
<1>7. ~LoopStep(a) /\ ~Git(a) /\ ~SaveResult(a) /\ ~OpenPr(a) /\ ~PersistPr(a)
    BY <1>6 DEF LoopStep, BuildPrompt, Prompt, Hit, Miss, KeepResponse, AnswersWithCalls,
           AnswersWithArtifact, NoAnswer, Git, GitAdd, NothingStaged, GitCommit, GitPush,
           GitReset, GitFails, PushRejected, SaveResult, OpenPr, PrFails, PersistPr, Goes
<1> QED
    BY <1>3, <1>4, <1>5, <1>6, <1>7 DEF StageStep, ReturningStep, LoopStep

\* A write_file that reports success has written, whatever the other stages have
\* written and the tool cache holds (registry.execute).
THEOREM WritesDoTakeEffect == Spec => WritesTakeEffect
<1>1. Inv /\ [Next]_vars =>
          [\A a \in Authors :
              LET written == Call(a).arg
              IN /\ pc[a] = "calling" /\ pc'[a] # "adding"
                 /\ Call(a).tool = "write_file"
                 /\ stage'[a].queue # stage[a].queue
                 /\ stage'[a].output.ok
                 => tree'[written] = a]_vars
    <2> SUFFICES ASSUME Inv, [Next]_vars, NEW a \in Authors, pc[a] = "calling",
                        pc'[a] # "adding", Call(a).tool = "write_file",
                        stage'[a].queue # stage[a].queue, stage'[a].output.ok
                 PROVE  tree'[Call(a).arg] = a
        OBVIOUS
    <2>1. ~UNCHANGED vars /\ \A r \in Runs : ~StartStep(r)
        BY DEF vars, StartStep, ResetTracked, RemoveUntracked, ResetFails
    <2>2. \A b \in Authors : StageStep(b) => b = a
        BY OnlyItsStage DEF OnlyStage
    <2> QED
        BY <2>1, <2>2, WriteAnswered DEF Next
<1> QED
    BY <1>1, AlwaysInv, PTL DEF Spec, WritesTakeEffect

-----------------------------------------------------------------------------
(* The response cache                                                      *)

\* A stage past its loop: it has its artifact and its prompt and result are settled.
Finished(a) ==
    /\ stage[a].artifact # None
    /\ pc[a] \in InCommand \cup {"saving", "opening", "persisting", "done"}

\* A stage that worked out the answer to a prompt by itself.
WorkedOut(a, prompt) ==
    /\ Finished(a)
    /\ stage[a].prompt = prompt
    /\ stage[a].outcome = "completed"
    /\ stage[a].replayed = None

Sourced ==
    /\ \A e \in cache : WorkedOut(e.by, e.key)
    /\ \A a \in Authors : stage[a].replayed # None =>
          Finished(a) /\ WorkedOut(stage[a].replayed, stage[a].prompt)

LEMMA FinishedStays ==
    ASSUME Inv, NEW a \in Authors, Finished(a), StageStep(a)
    PROVE  /\ Finished(a)' /\ cache' = cache
           /\ stage'[a].prompt = stage[a].prompt
           /\ stage'[a].outcome = stage[a].outcome
           /\ stage'[a].replayed = stage[a].replayed
<1>1. stage \in [Authors -> StageRecord] /\ stage[a] \in StageRecord
      /\ pc \in [Authors -> Places]
    BY DEF Inv, TypeInv, Typed
<1>2. InFallback(a) /\ pc[a] \in InCommand \cup {"saving", "opening", "persisting", "done"}
    BY DEF Finished, InFallback
<1>3. ~LoopStep(a) /\ ~CallStep(a) /\ ~CallCommitAndPush(a)
    <2>1. pc[a] \notin {"new", "looking_up", "asking", "caching", "calling"}
        BY <1>2 DEF InCommand
    <2>2. CallStep(a) => pc[a] = "calling"
        BY DEF CallStep, AnswerFromCache, UnknownTool, CallWriteFile, CallReads, CallRunTests,
               CallCreateBranch, CallCreatePr, Executes
    <2> QED
        BY <2>1, <2>2
        DEF LoopStep, BuildPrompt, Prompt, Hit, Miss, KeepResponse, AnswersWithCalls,
            AnswersWithArtifact, NoAnswer, ArgumentsRaise, CallCommitAndPush, Goes
<1>4. CASE stage' = stage /\ cache' = cache /\
           \E to \in InCommand \cup {"opening", "done"} : pc' = [pc EXCEPT ![a] = to]
    BY <1>1, <1>2, <1>4 DEF Finished
<1>5. CASE stage' = [stage EXCEPT ![a].prError = TRUE] /\ cache' = cache
           /\ pc' = [pc EXCEPT ![a] = "persisting"]
    BY <1>1, <1>2, <1>5 DEF Finished, InFallback, StageRecord
<1>6. CASE GitAdd(a) \/ GitPush(a) \/ PersistPr(a)
    BY <1>4, <1>6 DEF GitAdd, GitPush, PersistPr, Goes, bookkeeping, InCommand
<1>7. CASE NothingStaged(a) \/ GitFails(a) \/ PushRejected(a)
    BY <1>2, <1>5, <1>7 DEF NothingStaged, GitFails, PushRejected, PushFails, bookkeeping
<1>8. CASE GitReset(a)
    BY <1>2, <1>4, <1>8 DEF GitReset, PushSucceeds, bookkeeping
<1>9. CASE GitCommit(a)
    BY <1>1, <1>2, <1>9 DEF GitCommit, Goes, Finished, InCommand, StageRecord, bookkeeping
<1>10. CASE SaveResult(a)
    <2>1. /\ stage' = [stage EXCEPT ![a].iteration = 0, ![a].queue = <<>>, ![a].output = None,
                                    ![a].results = NewStage.results]
          /\ cache' = cache
          /\ \E to \in {"done", "adding", "persisting"} : pc' = [pc EXCEPT ![a] = to]
        BY <1>10 DEF SaveResult, Goes, bookkeeping
    <2> HIDE DEF NewStage
    <2> QED
        BY <1>1, <1>2, <2>1 DEF Finished, InFallback, InCommand, StageRecord
<1>11. CASE OpenPr(a)
    <2>1. CASE stage' = [stage EXCEPT ![a].artifact.pr = "opened"]
        <3> DEFINE opened == [stage[a].artifact EXCEPT !.pr = "opened"]
        <3>1. opened \in Artifacts
            BY <1>1, <1>2 DEF Artifacts, StageRecord, InFallback
        <3>2. stage' = [stage EXCEPT ![a].artifact = opened]
            BY <1>1, <2>1
        <3>3. cache' = cache /\ pc' = [pc EXCEPT ![a] = "persisting"]
            BY <1>11 DEF OpenPr, PrFails, Goes
        <3> HIDE DEF opened
        <3> QED
            BY <1>1, <3>1, <3>2, <3>3, NoneAssumption DEF Finished, StageRecord
    <2> QED
        BY <1>5, <1>11, <2>1 DEF OpenPr, PrFails, Goes
<1> QED
    BY <1>3, <1>6, <1>7, <1>8, <1>9, <1>10, <1>11 DEF StageStep, ReturningStep, LoopStep, CallStep, Git

\* Before that a stage becomes a replay only on a hit, and the cache gets a new
\* entry only from a stage that has its own artifact.
LEMMA UnfinishedSteps ==
    ASSUME Inv, NEW a \in Authors, ~Finished(a), StageStep(a), ~Hit(a)
    PROVE  stage'[a].replayed = stage[a].replayed /\ (cache' = cache \/ KeepResponse(a))
<1>1. stage \in [Authors -> StageRecord] /\ stage[a] \in StageRecord
    BY DEF Inv, TypeInv, Typed
<1>2. ASSUME NEW output, Outputting(a, output)
      PROVE  stage'[a].replayed = stage[a].replayed
    BY <1>1, <1>2 DEF Outputting, StageRecord
<1>3. CASE CallStep(a)
    <2>1. \E output \in Outputs : Outputting(a, output)
        BY <1>3, CallOutputs DEF Inv
    <2> QED
        BY <1>2, <1>3, <2>1
        DEF CallStep, AnswerFromCache, UnknownTool, CallWriteFile, CallReads, CallRunTests, CallCreateBranch,
            CallCreatePr, bookkeeping
<1>4. CASE LoopStep(a)
    <2>1. CASE BuildPrompt(a)
        <3>1. cache' = cache
              /\ stage' = [stage EXCEPT ![a].prompt = PromptOf(a, tree)]
            BY <2>1 DEF BuildPrompt, Prompt, bookkeeping, PromptOf
        <3> QED
            BY <1>1, <3>1 DEF StageRecord
    <2>2. CASE AnswersWithCalls(a)
        <3>1. cache' = cache /\ \E response, n :
                  stage' = [stage EXCEPT ![a].queue = response, ![a].iteration = n]
            BY <2>2 DEF AnswersWithCalls, bookkeeping
        <3> QED
            BY <1>1, <3>1 DEF StageRecord
    <2>3. CASE Miss(a) \/ KeepResponse(a)
        BY <1>1, <2>3 DEF Miss, KeepResponse, bookkeeping, StageRecord
    <2>4. CASE AnswersWithArtifact(a) \/ NoAnswer(a) \/ ArgumentsRaise(a)
        BY <1>1, <2>4 DEF AnswersWithArtifact, NoAnswer, ArgumentsRaise, bookkeeping, StageRecord
    <2> QED
        BY <1>4, <2>1, <2>2, <2>3, <2>4 DEF LoopStep
<1>5. CASE CallCommitAndPush(a) \/ GitAdd(a) \/ GitCommit(a) \/ GitPush(a)
    BY <1>1, <1>5 DEF CallCommitAndPush, GitAdd, GitCommit, GitPush, bookkeeping, StageRecord
<1>6. CASE NothingStaged(a) \/ GitReset(a) \/ GitFails(a) \/ PushRejected(a)
    <2>1. PushSucceeds(a) \/ PushFails(a)
        BY <1>6 DEF NothingStaged, GitReset, GitFails, PushRejected
    <2>2. stage'[a].replayed = stage[a].replayed
        BY <1>1, <1>2, <2>1 DEF PushSucceeds, PushFails, StageRecord
    <2> QED
        BY <1>6, <2>2 DEF NothingStaged, GitReset, GitFails, PushRejected, bookkeeping
<1>7. CASE SaveResult(a)
    <2>1. /\ stage' = [stage EXCEPT ![a].iteration = 0, ![a].queue = <<>>, ![a].output = None,
                                    ![a].results = NewStage.results]
          /\ cache' = cache
        BY <1>7 DEF SaveResult, bookkeeping
    <2> HIDE DEF NewStage
    <2> QED
        BY <1>1, <2>1 DEF StageRecord
<1>8. CASE OpenPr(a) \/ PersistPr(a)
    <2>1. cache' = cache /\ (stage' = stage \/ stage' = [stage EXCEPT ![a].prError = TRUE]
                                            \/ stage' = [stage EXCEPT ![a].artifact.pr = "opened"])
        BY <1>8 DEF OpenPr, PrFails, PersistPr
    <2> DEFINE opened == [stage[a].artifact EXCEPT !.pr = "opened"]
    <2>2. CASE stage' = [stage EXCEPT ![a].artifact.pr = "opened"]
        <3>1. stage' = [stage EXCEPT ![a].artifact = opened]
            BY <1>1, <2>2
        <3> HIDE DEF opened
        <3> QED
            BY <1>1, <2>1, <3>1 DEF StageRecord
    <2> QED
        BY <1>1, <2>1, <2>2 DEF StageRecord
<1> QED
    BY <1>3, <1>4, <1>5, <1>6, <1>7, <1>8 DEF StageStep, ReturningStep, LoopStep, CallStep, Git

LEMMA SourceKept ==
    ASSUME Inv, NEW a \in Authors, StageStep(a), NEW b \in Authors, NEW prompt,
           WorkedOut(b, prompt)
    PROVE  WorkedOut(b, prompt)'
<1>1. CASE b = a
    <2>1. Finished(a)
        BY <1>1 DEF WorkedOut
    <2> QED
        BY <1>1, <2>1, FinishedStays DEF WorkedOut
<1>2. CASE b # a
    BY <1>2, OnlyItsStage DEF OnlyStage, WorkedOut, Finished
<1> QED
    BY <1>1, <1>2

\* A stage that is asked for an answer for the first time is no replay.
LEMMA Keeping ==
    ASSUME Inv, Sourced, NEW a \in Authors, KeepResponse(a)
    PROVE  \A e \in cache' : e \in cache \/ (e.by = a /\ WorkedOut(a, e.key)')
<1>1. stage \in [Authors -> StageRecord] /\ stage[a] \in StageRecord
      /\ pc \in [Authors -> Places]
    BY DEF Inv, TypeInv, Typed
<1>2. pc[a] = "caching" /\ stage[a].artifact # None
    BY DEF KeepResponse, Goes, Inv, TypeInv, Placed
<1>3. stage[a].replayed = None
    BY <1>2 DEF Sourced, Finished, InCommand
<1>4. /\ pc'[a] = "saving"
      /\ stage'[a].artifact = stage[a].artifact /\ stage'[a].prompt = stage[a].prompt
      /\ stage'[a].outcome = "completed" /\ stage'[a].replayed = stage[a].replayed
    BY <1>1 DEF KeepResponse, Goes, StageRecord
<1>5. WorkedOut(a, stage[a].prompt)'
    BY <1>2, <1>3, <1>4 DEF WorkedOut, Finished
<1> SUFFICES ASSUME NEW e \in cache', e \notin cache
             PROVE  e.by = a /\ WorkedOut(a, e.key)'
    OBVIOUS
<1>6. e = [key |-> stage[a].prompt, artifact |-> stage[a].artifact, by |-> a]
    BY DEF KeepResponse, CacheKey
<1>7. WorkedOut(a, e.key)'
    BY <1>4, <1>5, <1>6 DEF WorkedOut, Finished
<1> QED
    BY <1>6, <1>7

LEMMA Hitting ==
    ASSUME Inv, Sourced, NEW a \in Authors, Hit(a)
    PROVE  /\ cache' = cache /\ Finished(a)'
           /\ stage'[a].replayed \in Authors
           /\ WorkedOut(stage'[a].replayed, stage'[a].prompt)
<1>1. stage \in [Authors -> StageRecord] /\ stage[a] \in StageRecord
      /\ pc \in [Authors -> Places] /\ cache \subseteq Entries
    BY DEF Inv, TypeInv, Typed
<1>2. PICK e \in cache :
          /\ e.key = stage[a].prompt
          /\ stage' = [stage EXCEPT ![a].artifact = e.artifact, ![a].replayed = e.by,
                                    ![a].outcome = "completed"]
    BY DEF Hit, CacheKey
<1>3. e.artifact # None /\ e.by \in Authors
    BY <1>1, NoneAssumption DEF Entries
<1>4. /\ stage'[a].artifact = e.artifact /\ stage'[a].replayed = e.by
      /\ stage'[a].prompt = stage[a].prompt
    BY <1>1, <1>2 DEF StageRecord
<1>5. pc'[a] = "saving" /\ cache' = cache
    BY <1>1 DEF Hit, Goes, bookkeeping
<1> QED
    BY <1>2, <1>3, <1>4, <1>5 DEF Sourced, Finished

LEMMA StageSourced ==
    ASSUME Inv, Sourced, NEW a \in Authors, StageStep(a)
    PROVE  Sourced'
<1>1. cache \subseteq Entries /\ stage \in [Authors -> StageRecord]
    BY DEF Inv, TypeInv, Typed
<1>2. \A e \in cache : e.by \in Authors
    BY <1>1 DEF Entries
<1>3. ASSUME NEW e \in cache' PROVE WorkedOut(e.by, e.key)'
    <2>1. CASE e \in cache
        <3>1. WorkedOut(e.by, e.key) /\ e.by \in Authors
            BY <1>2, <2>1 DEF Sourced
        <3> QED
            BY <3>1, SourceKept
    <2>2. CASE e \notin cache
        <3>1. KeepResponse(a)
            BY <2>2, FinishedStays, UnfinishedSteps, Hitting
        <3>2. e.by = a /\ WorkedOut(a, e.key)'
            BY <2>2, <3>1, Keeping
        <3> QED
            BY <3>2
    <2> QED
        BY <2>1, <2>2
<1>4. ASSUME NEW b \in Authors, stage'[b].replayed # None
      PROVE  Finished(b)' /\ WorkedOut(stage[b].replayed, stage[b].prompt)'
    <2>1. CASE Hit(a) /\ b = a
        <3>1. Finished(a)' /\ stage'[a].replayed \in Authors
              /\ WorkedOut(stage'[a].replayed, stage'[a].prompt)
            BY <2>1, Hitting
        <3>2. PICK by, prompt : by \in Authors /\ by = stage'[a].replayed
                                  /\ prompt = stage'[a].prompt
            BY <3>1
        <3>3. WorkedOut(by, prompt)'
            BY <3>1, <3>2, SourceKept
        <3> QED
            BY <2>1, <3>1, <3>2, <3>3 DEF WorkedOut, Finished
    <2>2. CASE ~(Hit(a) /\ b = a)
        <3>1. /\ stage'[b].replayed = stage[b].replayed
              /\ Finished(b) => Finished(b)' /\ stage'[b].prompt = stage[b].prompt
            <4>1. CASE b = a
                BY <2>2, <4>1, FinishedStays, UnfinishedSteps
            <4>2. CASE b # a
                BY <4>2, OnlyItsStage DEF OnlyStage, Finished
            <4> QED
                BY <4>1, <4>2
        <3>2. Finished(b) /\ WorkedOut(stage[b].replayed, stage[b].prompt)
            BY <1>4, <3>1 DEF Sourced
        <3>3. stage[b].replayed \in Authors
            BY <1>1, <1>4, <3>1 DEF StageRecord
        <3>4. PICK by, prompt : by \in Authors /\ by = stage[b].replayed
                                  /\ prompt = stage[b].prompt
            BY <3>3
        <3>5. WorkedOut(by, prompt)'
            BY <3>2, <3>4, SourceKept
        <3> QED
            BY <3>1, <3>2, <3>4, <3>5 DEF WorkedOut, Finished
    <2> QED
        BY <2>1, <2>2
<1> QED
    BY <1>3, <1>4 DEF Sourced

\* A stage that completes from the response cache takes the artifact of one that
\* completed by itself and started from the same prompt, an implementation's run
\* included (_prompt_cache_key, cache.set only after the loop).
THEOREM ReplaysDoFit == Spec => []ReplaysFit
<1>1. Init => Sourced
    BY DEF Init, NewStage, Sourced
<1>2. Inv /\ Sourced /\ [Next]_vars => Sourced'
    <2>1. ASSUME NEW r \in Runs, StartStep(r), Sourced PROVE Sourced'
        BY <2>1 DEF StartStep, ResetTracked, RemoveUntracked, ResetFails, Sourced, WorkedOut,
                    Finished
    <2>2. UNCHANGED vars /\ Sourced => Sourced'
        BY DEF vars, Sourced, WorkedOut, Finished
    <2> QED
        BY <2>1, <2>2, StageSourced DEF Next
<1>3. Sourced => ReplaysFit
    BY DEF Sourced, WorkedOut, ReplaysFit
<1> QED
    BY <1>1, <1>2, <1>3, AlwaysInv, PTL DEF Spec

-----------------------------------------------------------------------------
(* Pull requests                                                           *)

\* A pull request that the fallback has opened is that of the branch the artifact names.
OpenedReal(artifact) ==
    artifact # None /\ artifact.pr = "opened" => artifact.branch \in prs

Reported(a) ==
    /\ stage[a].artifact.pr # "none" \/ stage[a].prError
    /\ stage[a].artifact.pr # "none" /\ pc[a] = "done" /\ failures = 0 => RunOf[a] \in prUrl

\* In the loop a stage has no artifact; past it, it only works for a branch that
\* its artifact names, and it ends with a pull request there or with an error.
Promised(a) ==
    /\ pc[a] \in {"new", "looking_up", "asking", "calling"} => stage[a].artifact = None
    /\ pc[a] \in InCommand \cup {"opening"} /\ stage[a].artifact # None => NamesBranch(a)
    /\ OpenedReal(stage[a].artifact)
    /\ /\ a \in Implementations /\ NamesBranch(a)
       /\ pc[a] = "persisting" \/ (pc[a] = "done" /\ stage[a].outcome = "completed")
       => Reported(a)

PromiseInv ==
    /\ \A a \in Authors : Promised(a)
    /\ \A e \in cache : OpenedReal(e.artifact)

LEMMA NothingTakenBack ==
    ASSUME Inv, NEW a \in Authors, StageStep(a)
    PROVE  /\ prs \subseteq prs' /\ prUrl \subseteq prUrl'
           /\ failures' = 0 => failures = 0
<1>1. prs \subseteq prs'
    BY StageCommands
       DEF WorkspaceStep, workspace, WriteFile, Add, Commit, Push, CreateBranch, CreatePr,
           ResetMixed, CheckoutHead, CleanUntracked
<1>2. failures \in Nat
    BY BoundsAssumption DEF Inv, TypeInv, Typed
<1>3. Fails => failures' # 0
    BY <1>2 DEF Fails
<1>4. prUrl \subseteq prUrl' /\ (failures' = failures \/ Fails)
    BY DEF StageStep, ReturningStep, BuildPrompt, Prompt, Hit, Miss, KeepResponse, AnswersWithCalls,
           AnswersWithArtifact, NoAnswer, ArgumentsRaise, AnswerFromCache, UnknownTool, CallWriteFile, CallReads, CallRunTests,
           CallCreateBranch, CallCreatePr, CallCommitAndPush, Git, GitAdd, NothingStaged,
           GitCommit, GitPush, GitReset, GitFails, PushRejected, SaveResult, OpenPr, PersistPr,
           UpdateRunPr, PrRefused, faults, bookkeeping
<1> QED
    BY <1>1, <1>3, <1>4

\* An opened pull request stays.
LEMMA OpenedStays ==
    ASSUME prs \subseteq prs', NEW artifact, OpenedReal(artifact)
    PROVE  OpenedReal(artifact)'
BY DEF OpenedReal

\* The loop and the tool calls.
LEMMA LoopPromise ==
    ASSUME Inv, PromiseInv, NEW a \in Authors, LoopStep(a) \/ CallStep(a)
    PROVE  Promised(a)' /\ \A e \in cache' : OpenedReal(e.artifact)'
<1>1. stage \in [Authors -> StageRecord] /\ stage[a] \in StageRecord
      /\ pc \in [Authors -> Places] /\ cache \subseteq Entries
    BY DEF Inv, TypeInv, Typed
<1>2. Promised(a)
    BY DEF PromiseInv
<1>3. prs \subseteq prs'
    BY NothingTakenBack DEF LoopStep, CallStep, StageStep, ReturningStep
<1>4. cache' = cache => \A e \in cache' : OpenedReal(e.artifact)'
    BY <1>3, OpenedStays DEF PromiseInv
<1>k. ASSUME OpenedReal(stage[a].artifact)',
             pc'[a] \in {"looking_up", "asking", "calling", "caching", "saving"},
             pc'[a] \in {"caching", "saving"} \/ stage'[a].artifact = None
      PROVE  Promised(a)'
    BY <1>k DEF Promised, InCommand
<1>5. CASE CallStep(a)
    <2>1. /\ stage'[a].artifact = stage[a].artifact
          /\ pc[a] = "calling" /\ pc'[a] \in {"asking", "calling"}
        BY <1>5, CallTypes DEF Inv
    <2>2. cache' = cache
        BY <1>5
        DEF CallStep, AnswerFromCache, UnknownTool, CallWriteFile, CallReads, CallRunTests, CallCreateBranch,
            CallCreatePr, bookkeeping
    <2>3. stage'[a].artifact = None
        BY <1>2, <2>1 DEF Promised
    <2> QED
        BY <1>4, <1>k, <2>1, <2>2, <2>3 DEF OpenedReal
<1>6. CASE BuildPrompt(a)
    <2>1. /\ stage' = [stage EXCEPT ![a].prompt = PromptOf(a, tree)] /\ cache' = cache
          /\ pc[a] = "new" /\ pc'[a] = "looking_up"
        BY <1>1, <1>6 DEF BuildPrompt, Prompt, PromptOf, Goes, bookkeeping
    <2>2. stage'[a].artifact = None
        BY <1>1, <1>2, <2>1 DEF Promised, StageRecord
    <2> QED
        BY <1>4, <1>k, <2>1, <2>2 DEF OpenedReal
<1>7. CASE Hit(a)
    <2>1. PICK e \in cache :
              /\ stage' = [stage EXCEPT ![a].artifact = e.artifact, ![a].replayed = e.by,
                                        ![a].outcome = "completed"]
        BY <1>7 DEF Hit
    <2>2. pc'[a] = "saving" /\ cache' = cache /\ stage'[a].artifact = e.artifact
        BY <1>1, <1>7, <2>1 DEF Hit, Goes, bookkeeping, StageRecord
    <2>3. OpenedReal(e.artifact)'
        BY <1>3, OpenedStays DEF PromiseInv
    <2> QED
        BY <1>4, <1>k, <2>2, <2>3 DEF OpenedReal
<1>8. CASE Miss(a)
    <2>1. /\ stage'[a].artifact = stage[a].artifact /\ cache' = cache
          /\ pc[a] = "looking_up" /\ pc'[a] = "asking"
        BY <1>1, <1>8 DEF Miss, Goes, bookkeeping
    <2> QED
        BY <1>2, <1>4, <1>k, <2>1 DEF Promised, OpenedReal
<1>9. CASE KeepResponse(a)
    <2>1. /\ stage'[a].artifact = stage[a].artifact /\ pc'[a] = "saving"
          /\ \A e \in cache' : e \in cache \/ e.artifact = stage[a].artifact
        BY <1>1, <1>9 DEF KeepResponse, Goes, StageRecord
    <2>2. PICK artifact : artifact = stage[a].artifact
        OBVIOUS
    <2>3. OpenedReal(artifact)'
        BY <1>2, <1>3, <2>2, OpenedStays DEF Promised
    <2>4. \A e \in cache' : OpenedReal(e.artifact)'
        <3> SUFFICES ASSUME NEW e \in cache' PROVE OpenedReal(e.artifact)'
            OBVIOUS
        <3>1. CASE e \in cache
            BY <1>3, <3>1, OpenedStays DEF PromiseInv
        <3>2. CASE e.artifact = artifact
            BY <2>3, <3>2
        <3> QED
            BY <2>1, <2>2, <3>1, <3>2
    <2> QED
        BY <1>k, <2>1, <2>2, <2>3, <2>4 DEF OpenedReal
<1>10. CASE AnswersWithCalls(a)
    <2>1. /\ \E response, n : stage' = [stage EXCEPT ![a].queue = response, ![a].iteration = n]
          /\ pc[a] = "asking" /\ pc'[a] = "calling" /\ cache' = cache
        BY <1>1, <1>10 DEF AnswersWithCalls, Goes, bookkeeping
    <2>2. stage'[a].artifact = None
        BY <1>1, <1>2, <2>1 DEF Promised, StageRecord
    <2> QED
        BY <1>4, <1>k, <2>1, <2>2 DEF OpenedReal
<1>11. CASE AnswersWithArtifact(a)
    <2>1. PICK x \in FinalAnswers(a) : stage' = [stage EXCEPT ![a].artifact = x]
        BY <1>11 DEF AnswersWithArtifact
    <2>2. x.pr # "opened"
        BY <2>1 DEF FinalAnswers, NoArtifact
    <2>3. OpenedReal(x)'
        BY <2>2 DEF OpenedReal
    <2>4. stage'[a].artifact = x /\ pc'[a] = "caching" /\ cache' = cache
        BY <1>1, <1>11, <2>1 DEF AnswersWithArtifact, Goes, bookkeeping, StageRecord
    <2> QED
        BY <1>4, <1>k, <2>3, <2>4 DEF OpenedReal
<1>12. CASE NoAnswer(a) \/ ArgumentsRaise(a)
    <2>1. /\ stage'[a].artifact = stage[a].artifact /\ cache' = cache
          /\ pc[a] \in {"asking", "calling"} /\ pc'[a] = "saving"
        BY <1>1, <1>12 DEF NoAnswer, ArgumentsRaise, Goes, bookkeeping, StageRecord
    <2> QED
        BY <1>2, <1>4, <1>k, <2>1 DEF Promised, OpenedReal
<1> QED
    BY <1>5, <1>6, <1>7, <1>8, <1>9, <1>10, <1>11, <1>12 DEF LoopStep

\* commit_and_push, in the loop and in the fallback.
LEMMA CommandPromise ==
    ASSUME Inv, PromiseInv, NEW a \in Authors, CallCommitAndPush(a) \/ Git(a)
    PROVE  Promised(a)' /\ cache' = cache
<1>1. stage \in [Authors -> StageRecord] /\ stage[a] \in StageRecord
      /\ pc \in [Authors -> Places]
    BY DEF Inv, TypeInv, Typed
<1>2. Promised(a)
    BY DEF PromiseInv
<1>3. prs \subseteq prs'
    BY NothingTakenBack DEF StageStep, ReturningStep
<1>4. cache' = cache
    BY DEF CallCommitAndPush, Git, GitAdd, NothingStaged, GitCommit, GitPush, GitReset, GitFails,
           PushRejected, bookkeeping
<1>5. stage'[a].artifact = stage[a].artifact => OpenedReal(stage[a].artifact)'
    BY <1>2, <1>3 DEF Promised, OpenedReal
<1>6. CASE CallCommitAndPush(a) \/ GitAdd(a) \/ GitCommit(a) \/ GitPush(a)
    <2>1. /\ stage'[a].artifact = stage[a].artifact
          /\ pc[a] = "calling" \/ pc[a] \in InCommand
          /\ pc'[a] \in InCommand
        BY <1>1, <1>6
        DEF CallCommitAndPush, GitAdd, GitCommit, GitPush, Goes, InCommand, StageRecord
    <2> QED
        BY <1>2, <1>4, <1>5, <2>1 DEF Promised, NamesBranch, InCommand
<1>7. CASE NothingStaged(a) \/ GitReset(a) \/ GitFails(a) \/ PushRejected(a)
    <2>1. (PushSucceeds(a) \/ PushFails(a)) /\ pc[a] \in InCommand
        BY <1>7 DEF NothingStaged, GitReset, GitFails, PushRejected, InCommand
    <2>2. stage'[a].artifact = stage[a].artifact
        BY <2>1, NextAfterPush DEF Inv
    <2>3. CASE ~InFallback(a)
        <3>1. pc'[a] \in {"asking", "calling"}
            BY <1>1, <2>1, <2>3 DEF PushSucceeds, PushFails, Outputting
        <3> QED
            BY <1>4, <1>5, <2>2, <2>3, <3>1 DEF Promised, InFallback, InCommand
    <2>4. CASE InFallback(a)
        <3>1. NamesBranch(a)
            BY <1>2, <2>1, <2>4 DEF Promised, InFallback
        <3>2. pc'[a] = "opening" \/ (pc'[a] = "persisting" /\ stage'[a].prError)
            BY <1>1, <2>1, <2>4 DEF PushSucceeds, PushFails, StageRecord
        <3> QED
            BY <1>4, <1>5, <2>2, <3>1, <3>2 DEF Promised, NamesBranch, Reported, InCommand
    <2> QED
        BY <2>3, <2>4
<1> QED
    BY <1>6, <1>7 DEF Git

\* The node around the agent.
LEMMA NodePromise ==
    ASSUME Inv, PromiseInv, NEW a \in Authors, SaveResult(a) \/ OpenPr(a) \/ PersistPr(a)
    PROVE  Promised(a)' /\ cache' = cache
<1>1. stage \in [Authors -> StageRecord] /\ stage[a] \in StageRecord
      /\ pc \in [Authors -> Places]
    BY DEF Inv, TypeInv, Typed
<1>2. Promised(a)
    BY DEF PromiseInv
<1>3. prs \subseteq prs'
    BY NothingTakenBack DEF StageStep, ReturningStep
<1>4. cache' = cache
    BY DEF SaveResult, OpenPr, PersistPr, bookkeeping
<1>5. stage'[a].artifact = stage[a].artifact => OpenedReal(stage[a].artifact)'
    BY <1>2, <1>3 DEF Promised, OpenedReal
<1>6. CASE SaveResult(a)
    <2>1. stage' = [stage EXCEPT ![a].iteration = 0, ![a].queue = <<>>, ![a].output = None,
                                 ![a].results = NewStage.results]
        BY <1>6 DEF SaveResult
    <2>2. stage'[a].artifact = stage[a].artifact /\ stage'[a].outcome = stage[a].outcome
        <3> HIDE DEF NewStage
        <3> QED
            BY <1>1, <2>1 DEF StageRecord
    <2>3. \/ pc'[a] = "done" /\ stage[a].outcome = "failed"
          \/ pc'[a] = "adding" /\ NeedsPr(a)
          \/ pc'[a] = "persisting" /\ ~NeedsPr(a)
        BY <1>1, <1>6 DEF SaveResult, Goes
    <2> QED
        BY <1>4, <1>5, <2>2, <2>3 DEF Promised, NeedsPr, NamesBranch, Reported, InCommand
<1>7. CASE OpenPr(a)
    <2>1. pc[a] = "opening" /\ pc'[a] = "persisting"
        BY <1>1, <1>7 DEF OpenPr, PrFails, Goes
    <2>2. stage[a].artifact \in Artifacts /\ stage[a].artifact # None
        BY <1>1, <2>1 DEF Inv, TypeInv, Placed, StageRecord
    <2>3. NamesBranch(a)
        BY <1>2, <2>1, <2>2 DEF Promised
    <2>4. CASE CreatePr(FeatureBranch(a)) /\ stage' = [stage EXCEPT ![a].artifact.pr = "opened"]
        <3> DEFINE opened == [stage[a].artifact EXCEPT !.pr = "opened"]
        <3>1. opened.pr = "opened" /\ opened.branch = stage[a].artifact.branch
            BY <2>2 DEF Artifacts
        <3>2. stage' = [stage EXCEPT ![a].artifact = opened]
            BY <1>1, <2>4
        <3> HIDE DEF opened
        <3>3. stage'[a].artifact = opened
            BY <1>1, <3>2 DEF StageRecord
        <3>4. stage[a].artifact.branch \in prs'
            BY <2>3, <2>4 DEF CreatePr, FeatureBranch
        <3> QED
            BY <1>4, <2>1, <3>1, <3>3, <3>4 DEF Promised, OpenedReal, Reported, InCommand
    <2>5. CASE PrFails(a)
        <3>1. stage'[a].artifact = stage[a].artifact /\ stage'[a].prError
            BY <1>1, <2>5 DEF PrFails, StageRecord
        <3> QED
            BY <1>4, <1>5, <2>1, <3>1 DEF Promised, Reported, InCommand
    <2> QED
        BY <1>7, <2>4, <2>5 DEF OpenPr
<1>8. CASE PersistPr(a)
    <2>1. /\ pc[a] = "persisting" /\ pc'[a] = "done" /\ stage'[a] = stage[a]
          /\ HasPr(a) => RunOf[a] \in prUrl' \/ Fails
        BY <1>1, <1>8 DEF PersistPr, UpdateRunPr, Goes
    <2>2. Fails => failures' # 0
        BY BoundsAssumption DEF Fails, Inv, TypeInv, Typed
    <2>3. ASSUME a \in Implementations, NamesBranch(a) PROVE Reported(a)'
        <3>1. Reported(a)
            BY <1>2, <2>1, <2>3 DEF Promised
        <3> QED
            BY <2>1, <2>2, <2>3, <3>1 DEF Reported, HasPr
    <2> QED
        BY <1>2, <1>4, <1>5, <2>1, <2>3 DEF Promised, NamesBranch, InCommand
<1> QED
    BY <1>6, <1>7, <1>8

\* A stage keeps the promise of the others: nothing it relies on is taken back.
LEMMA StagePromise ==
    ASSUME Inv, PromiseInv, NEW a \in Authors, StageStep(a)
    PROVE  PromiseInv'
<1>1. Promised(a)' /\ \A e \in cache' : OpenedReal(e.artifact)'
    <2>1. CASE LoopStep(a) \/ CallStep(a)
        BY <2>1, LoopPromise
    <2>2. CASE ~(LoopStep(a) \/ CallStep(a))
        <3>1. Promised(a)' /\ cache' = cache
            BY <2>2, CommandPromise, NodePromise DEF StageStep, ReturningStep, LoopStep, CallStep
        <3> QED
            BY <3>1, NothingTakenBack, OpenedStays DEF PromiseInv
    <2> QED
        BY <2>1, <2>2
<1>2. ASSUME NEW b \in Authors, b # a PROVE Promised(b)'
    <2>1. stage'[b] = stage[b] /\ pc'[b] = pc[b]
        BY <1>2, OnlyItsStage DEF OnlyStage
    <2>2. Promised(b) /\ prs \subseteq prs' /\ prUrl \subseteq prUrl'
          /\ (failures' = 0 => failures = 0)
        BY NothingTakenBack DEF PromiseInv
    <2> QED
        BY <2>1, <2>2 DEF Promised, OpenedReal, NamesBranch, Reported
<1> QED
    BY <1>1, <1>2 DEF PromiseInv

\* A completed implementation that names a branch has a pull request for it, or says why
\* not, or the model has claimed one; and its run's row has the one it names unless
\* something failed: whatever other stages push meanwhile (make_stage_node).
THEOREM PullRequestsAreAccounted == Spec => []PrAccounted
<1>1. Init => PromiseInv
    BY DEF Init, NewStage, PromiseInv, Promised, OpenedReal, InCommand
<1>2. Inv /\ PromiseInv /\ [Next]_vars => PromiseInv'
    <2>1. ASSUME NEW r \in Runs, StartStep(r), Inv, PromiseInv PROVE PromiseInv'
        <3>1. failures' = 0 => failures = 0
            BY <2>1 DEF StartStep, ResetTracked, RemoveUntracked, ResetFails, Fails, Inv, TypeInv,
                        Typed
        <3>2. UNCHANGED <<stage, pc, cache, prUrl, prs>>
            BY <2>1 DEF StartStep, ResetTracked, RemoveUntracked, ResetFails, CheckoutHead,
                        CleanUntracked, workspace
        <3> QED
            BY <2>1, <3>1, <3>2 DEF PromiseInv, Promised, OpenedReal, NamesBranch, Reported
    <2>2. UNCHANGED vars /\ PromiseInv => PromiseInv'
        BY DEF vars, workspace, PromiseInv, Promised, OpenedReal, NamesBranch, Reported
    <2> QED
        BY <2>1, <2>2, StagePromise DEF Next
<1>3. Inv /\ PromiseInv => PrAccounted
    <2> SUFFICES ASSUME Inv, PromiseInv, NEW a \in Implementations,
                        pc[a] = "done", stage[a].outcome = "completed", NamesBranch(a)
                 PROVE  /\ \/ stage[a].artifact.pr = "claimed"
                           \/ stage[a].artifact.pr = "opened" /\ stage[a].artifact.branch \in prs
                           \/ stage[a].prError
                        /\ stage[a].artifact.pr # "none" /\ failures = 0 => RunOf[a] \in prUrl
        BY DEF PrAccounted
    <2>1. a \in Authors
        BY AgentsAssumption
    <2>2. Reported(a) /\ OpenedReal(stage[a].artifact) /\ stage[a].artifact # None
        BY <2>1 DEF PromiseInv, Promised, NamesBranch
    <2>3. stage[a].artifact \in Artifacts
        BY <2>1, <2>2 DEF Inv, TypeInv, Typed, StageRecord
    <2>4. stage[a].artifact.pr \in {"none", "claimed", "opened"}
        BY <2>3 DEF Artifacts
    <2> QED
        BY <2>2, <2>4 DEF Reported, OpenedReal
<1> QED
    BY <1>1, <1>2, <1>3, AlwaysInv, PTL DEF Spec

=============================================================================
