--------------------------- MODULE SettlingProofs ---------------------------
(***************************************************************************)
(* The two modules that MCSettling extends. What the write steps of        *)
(* github-writes.ts promise, for any number of attempts, of acts of others *)
(* and of workflow runs: each write is made once, nothing is lost half     *)
(* way, and what is returned is true. And what one call of runProcess      *)
(* promises, whatever its child and its consumer do.                       *)
(*                                                                         *)
(* A write step is of one kind, so WriteInv has a part for each kind: it   *)
(* relates where the attempt is, and what it has read, to what GitHub      *)
(* holds. The callbacks of a call run one at a time, so ProcessInv says    *)
(* what every one of them may rely on and leaves behind (Sound).           *)
(***************************************************************************)
EXTENDS ProcessRun, GithubWrites, FiniteSetTheorems, TLAPS

-----------------------------------------------------------------------------
(* GithubWrites                                                              *)

Results ==
  {Nothing, Reruns}
  \cup [kind : {"commented", "issue"}, created : BOOLEAN]
  \cup [kind : {"replied"}, created : BOOLEAN, resolved : BOOLEAN]
  \cup [kind : {"state"}, state : {"open", "closed"}, acted : BOOLEAN]
  \cup [kind : {"alert"}, state : {"open", "dismissed", "fixed"}]
  \cup [kind : {"pull"}, id : Nat]
  \cup [kind : {"edit"}, edited : BOOLEAN, reason : {"closed", "head-moved", "none"}]
  \cup [kind : {"merge"}, merged : BOOLEAN,
        reason : {"none", "closed", "head-moved", "base-changed", "not-mergeable"}]

Places == {"start", "comments", "post", "resolve", "patch", "list", "child", "link", "put",
           "confirm", "reread", "rerun", "done", "failed"}

Steps ==
  [pc : Places,
   try : 1..Attempts, fresh : BOOLEAN, resolved : BOOLEAN, status : {"none", "405", "409", "422"},
   left : SUBSET Runs, result : Results]

Rows == [id : Nat, mine : BOOLEAN, open : BOOLEAN, base : {Base, "other"}]

PullRequests == [state : {"open", "closed", "merged"}, head : {Sha, "moved"},
             base : {Base, "other"}, title : {"old", "new", "theirs"}]

Hubs ==
  [comments : Nat, resolved : BOOLEAN, state : {"open", "closed"}, issues : Nat,
   parent : {"none", "wanted", "other"}, exists : BOOLEAN, pulls : SUBSET Rows, pr : PullRequests,
   alert : {"open", "dismissed", "fixed"},
   runs : [Runs -> [attempt : Nat, status : {"failed", "running", "passed"}]]]

Counters ==
  [comment : Nat, issue : Nat, link : Nat, pull : Nat, state : Nat, alert : Nat, edit : Nat,
   merge : Nat, resolve : Nat, rerun : [Runs -> Nat]]

Typed ==
  /\ op \in Asked /\ hub \in Hubs /\ step \in Steps /\ did \in Counters
  /\ theirs \in 0..MaxTheirs /\ IsFiniteSet(hub.pulls)

Commenting == {"comment", "thread.reply", "issue.state"}

\* What a step of one kind never does or returns.
Quiet ==
  /\ op.kind \notin Commenting => did.comment = 0
  /\ op.kind # "issue.create" => did.issue = 0 /\ did.link = 0
  /\ op.kind # "pr.create" => did.pull = 0
  /\ op.kind # "issue.state" => did.state = 0
  /\ op.kind # "alert.dismiss" => did.alert = 0
  /\ op.kind # "pr.edit" => did.edit = 0
  /\ op.kind # "pr.merge" => did.merge = 0
  /\ op.kind # "thread.reply" => did.resolve = 0
  /\ step.result.kind \in {"commented", "replied"} => op.kind \in {"comment", "thread.reply"}
  /\ step.result.kind = "issue" => op.kind = "issue.create"
  /\ step.result.kind = "pull" => op.kind = "pr.create"
  /\ step.result.kind = "merge" => op.kind = "pr.merge"

\* One comment: it is posted where the read found none.
Comments ==
  op.kind \in Commenting =>
    /\ did.comment = hub.comments /\ hub.comments <= 1
    /\ step.pc = "post" => hub.comments = 0
    /\ step.pc = "resolve" => hub.comments = 1
    /\ step.result.kind \in {"commented", "replied"} => hub.comments = 1
    /\ op.kind = "issue.state" /\ op.comment /\ (step.pc = "patch" \/ did.state > 0) =>
         hub.comments = 1

\* What others may undo is done once more only for each time that they undid it.
Allowed(writes, due) == writes + (IF due THEN 1 ELSE 0) <= 1 + theirs

StateAgain ==
  op.kind = "issue.state" =>
    Allowed(did.state, hub.state # op.to \/ step.pc \in {"comments", "post", "patch"})

AlertAgain ==
  op.kind = "alert.dismiss" => Allowed(did.alert, ~AlertSettled(hub.alert) \/ step.pc = "patch")

TitleAgain == op.kind = "pr.edit" => Allowed(did.edit, hub.pr.title # "new" \/ step.pc = "patch")

ThreadAgain ==
  op.kind = "thread.reply" =>
    Allowed(did.resolve, ~hub.resolved \/ (step.pc \in {"post", "resolve"} /\ ~step.resolved))

Undone == StateAgain /\ AlertAgain /\ TitleAgain /\ ThreadAgain

\* One issue, and one link to its parent, which is there.
Issues ==
  op.kind = "issue.create" =>
    /\ did.issue = hub.issues /\ hub.issues <= 1
    /\ step.pc = "post" => hub.issues = 0
    /\ step.pc \in {"link", "child"} => hub.issues = 1 /\ op.parent
    /\ did.link <= 1 /\ (hub.parent = "none" => did.link = 0)
    /\ op.parent /\ ~hub.exists => did.issue = 0 /\ step.pc \in {"start", "failed"}
    /\ step.result.kind = "issue" =>
         step.pc = "done" /\ hub.issues = 1 /\ (op.parent => hub.parent = "wanted")

\* One pull request of the step's own, which is the one that it returns.
Pulled ==
  op.kind = "pr.create" =>
    /\ did.pull <= 1
    /\ did.pull = 0 => \A r \in hub.pulls : ~r.mine
    /\ step.pc = "post" => \A r \in hub.pulls : ~r.mine
    /\ \A r, q \in hub.pulls : r.mine /\ q.mine => r.id = q.id
    /\ did.pull = 1 => \E r \in hub.pulls : r.mine
    /\ step.result.kind = "pull" => /\ step.pc = "done"
                                    /\ \A r \in hub.pulls : r.mine => r.id = step.result.id

\* One merge, of the head that was named.
Merged ==
  op.kind = "pr.merge" =>
    /\ did.merge <= 1
    /\ did.merge = 1 \/ step.pc = "confirm" => hub.pr.state = "merged" /\ hub.pr.head = Sha
    /\ step.result.kind = "merge" =>
         /\ step.pc = "done"
         /\ IF step.result.merged THEN hub.pr.state = "merged" /\ hub.pr.head = Sha
            ELSE did.merge = 0

\* One rerun of a run that the map names: it is past its baseline afterwards.
RerunOnce ==
  op.kind = "rerunFailed" =>
    /\ \A r \in Runs : hub.runs[r].attempt >= 1
    /\ \A r \in op.mapped : /\ did.rerun[r] <= 1
                            /\ did.rerun[r] = 1 => hub.runs[r].attempt > Baseline
    /\ step.pc = "rerun" => \A r \in op.mapped \cap step.left : did.rerun[r] = 0

WriteInv == Typed /\ Quiet /\ Comments /\ Undone /\ Issues /\ Pulled /\ Merged /\ RerunOnce

-----------------------------------------------------------------------------
(* Facts that the parts of the proof share.                                *)

\* After an attempt broke, the step starts over or has failed, and it returned nothing.
LEMMA FailsParts ==
  ASSUME Typed, Fails
  PROVE  /\ step' \in Steps
         /\ step'.pc \in {"start", "failed"} /\ step'.result = Nothing /\ step'.left = {}
PROOF
<1>1. step.try \in 1..Attempts
  BY DEF Typed, Steps
<1>2. 1..Attempts \subseteq Nat /\ Attempts \in 1..Attempts
  BY WritesAssumption
<1>3. /\ {} \in SUBSET Runs /\ "none" \in {"none", "405", "409", "422"} /\ Nothing \in Results
  BY DEF Results
<1>4. CASE step.try = Attempts
  <2>1. step' = [pc |-> "failed", try |-> Attempts, fresh |-> FALSE, resolved |-> FALSE,
                 status |-> "none", left |-> {}, result |-> Nothing]
    BY <1>4 DEF Fails, Fresh
  <2> QED BY <1>2, <1>3, <2>1 DEF Steps, Places
<1>5. CASE step.try # Attempts
  <2>1. step' = [pc |-> "start", try |-> step.try + 1, fresh |-> FALSE, resolved |-> FALSE,
                 status |-> "none", left |-> {}, result |-> Nothing]
    BY <1>5 DEF Fails, Fresh
  <2>2. step.try + 1 \in 1..Attempts
    BY <1>1, <1>5, WritesAssumption
  <2> QED BY <1>3, <2>1, <2>2 DEF Steps, Places
<1> QED BY <1>4, <1>5

\* What a step returns is one of the results.
LEMMA ResultsAre ==
  /\ Nothing \in Results /\ Reruns \in Results
  /\ \A created \in BOOLEAN : [kind |-> "commented", created |-> created] \in Results
  /\ \A created \in BOOLEAN : [kind |-> "issue", created |-> created] \in Results
  /\ \A created, resolved \in BOOLEAN :
       [kind |-> "replied", created |-> created, resolved |-> resolved] \in Results
  /\ \A state \in {"open", "closed"}, acted \in BOOLEAN :
       [kind |-> "state", state |-> state, acted |-> acted] \in Results
  /\ \A state \in {"open", "dismissed", "fixed"} :
       [kind |-> "alert", state |-> state] \in Results
  /\ \A id \in Nat : [kind |-> "pull", id |-> id] \in Results
  /\ \A edited \in BOOLEAN, reason \in {"closed", "head-moved", "none"} :
       Edited(edited, reason) \in Results
  /\ \A merged \in BOOLEAN,
        reason \in {"none", "closed", "head-moved", "base-changed", "not-mergeable"} :
       Merge(merged, reason) \in Results
PROOF
<1>1. Nothing \in Results /\ Reruns \in Results
  BY DEF Results
<1>2. \A created \in BOOLEAN : [kind |-> "commented", created |-> created] \in Results
  BY DEF Results
<1>3. \A created \in BOOLEAN : [kind |-> "issue", created |-> created] \in Results
  BY DEF Results
<1>4. \A created, resolved \in BOOLEAN :
        [kind |-> "replied", created |-> created, resolved |-> resolved] \in Results
  BY DEF Results
<1>5. \A state \in {"open", "closed"}, acted \in BOOLEAN :
        [kind |-> "state", state |-> state, acted |-> acted] \in Results
  BY DEF Results
<1>6. \A state \in {"open", "dismissed", "fixed"} :
        [kind |-> "alert", state |-> state] \in Results
  BY DEF Results
<1>7. \A id \in Nat : [kind |-> "pull", id |-> id] \in Results
  BY DEF Results
<1>8. \A edited \in BOOLEAN, reason \in {"closed", "head-moved", "none"} :
        Edited(edited, reason) \in Results
  BY DEF Results, Edited
<1>9. \A merged \in BOOLEAN,
         reason \in {"none", "closed", "head-moved", "base-changed", "not-mergeable"} :
        Merge(merged, reason) \in Results
  BY DEF Results, Merge
<1> QED BY <1>1, <1>2, <1>3, <1>4, <1>5, <1>6, <1>7, <1>8, <1>9

\* Every action is one of its own kind of step, and none changes what was asked for.
LEMMA OfItsKind ==
  /\ ReadComments \/ PostComment => op.kind \in Commenting
  /\ ResolveThread => op.kind = "thread.reply"
  /\ ReadState \/ PatchState => op.kind = "issue.state"
  /\ ReadAlert \/ PatchAlert => op.kind = "alert.dismiss"
  /\ ReadParent \/ ListIssues \/ PostIssue \/ ReadChild \/ LinkIssue => op.kind = "issue.create"
  /\ ListPulls \/ PostPull \/ OthersPulls => op.kind = "pr.create"
  /\ ReadEdited \/ PatchPull => op.kind = "pr.edit"
  /\ ReadMerge \/ Put \/ PutRefused \/ RereadMerge \/ ConfirmMerge => op.kind = "pr.merge"
  /\ ListRuns => op.kind = "rerunFailed"
  /\ \A r : Rerun(r) \/ OthersRerun(r) \/ RunEnds(r) => op.kind = "rerunFailed"
  /\ OthersPull => op.kind \in {"pr.edit", "pr.merge"}
  /\ Discuss => op.kind \in {"thread.reply", "issue.state", "issue.create", "alert.dismiss"}
PROOF
<1>1. ReadComments \/ PostComment => op.kind \in Commenting
  BY DEF ReadComments, PostComment, Commenting, At
<1>2. ResolveThread => op.kind = "thread.reply"
  BY DEF ResolveThread, At
<1>3. ReadState \/ PatchState => op.kind = "issue.state"
  BY DEF ReadState, PatchState, At
<1>4. ReadAlert \/ PatchAlert => op.kind = "alert.dismiss"
  BY DEF ReadAlert, PatchAlert, At
<1>5. ReadParent \/ ListIssues \/ PostIssue \/ ReadChild \/ LinkIssue => op.kind = "issue.create"
  BY DEF ReadParent, ListIssues, PostIssue, ReadChild, LinkIssue, At
<1>6. ListPulls \/ PostPull \/ OthersPulls => op.kind = "pr.create"
  BY DEF ListPulls, PostPull, OthersPulls, Others, At
<1>7. ReadEdited \/ PatchPull => op.kind = "pr.edit"
  BY DEF ReadEdited, PatchPull, At
<1>8. ReadMerge \/ Put \/ PutRefused \/ RereadMerge \/ ConfirmMerge => op.kind = "pr.merge"
  BY DEF ReadMerge, Put, PutRefused, RereadMerge, ConfirmMerge, At
<1>9. ListRuns => op.kind = "rerunFailed"
  BY DEF ListRuns, At
<1>10. \A r : Rerun(r) \/ OthersRerun(r) \/ RunEnds(r) => op.kind = "rerunFailed"
  BY DEF Rerun, OthersRerun, RunEnds, Others, At
<1>11. OthersPull => op.kind \in {"pr.edit", "pr.merge"}
  BY DEF OthersPull, Others
<1>12. Discuss => op.kind \in {"thread.reply", "issue.state", "issue.create", "alert.dismiss"}
  BY DEF Discuss, Others
<1> QED BY <1>1, <1>2, <1>3, <1>4, <1>5, <1>6, <1>7, <1>8, <1>9, <1>10, <1>11, <1>12

\* Nothing changes what the step was asked for.
LEMMA AskedStays ==
  ASSUME [Next]_vars
  PROVE  op' = op
PROOF
<1>1. Break \/ ReadComments \/ PostComment \/ ResolveThread => op' = op
  BY DEF Break, ReadComments, PostComment, ResolveThread, Reads, Answered
<1>2. ReadState \/ PatchState \/ ReadAlert \/ PatchAlert => op' = op
  BY DEF ReadState, PatchState, ReadAlert, PatchAlert, Reads, Answered, Refused
<1>3. ReadParent \/ ListIssues \/ PostIssue \/ ReadChild \/ LinkIssue => op' = op
  BY DEF ReadParent, ListIssues, PostIssue, ReadChild, LinkIssue, Reads, Answered, Refused
<1>4. ListPulls \/ PostPull \/ ReadEdited \/ PatchPull => op' = op
  BY DEF ListPulls, PostPull, ReadEdited, PatchPull, Reads, Answered, Refused
<1>5. ReadMerge \/ Put \/ PutRefused \/ RereadMerge \/ ConfirmMerge => op' = op
  BY DEF ReadMerge, Put, PutRefused, RereadMerge, ConfirmMerge, Reads, Answered
<1>6. ListRuns => op' = op
  BY DEF ListRuns, Reads
<1>7. \A r : Rerun(r) \/ OthersRerun(r) \/ RunEnds(r) => op' = op
  BY DEF Rerun, OthersRerun, RunEnds, Others, Reads, Answered, Refused
<1>8. Discuss \/ OthersPulls \/ OthersPull => op' = op
  BY DEF Discuss, OthersPulls, OthersPull, Others
<1> QED BY <1>1, <1>2, <1>3, <1>4, <1>5, <1>6, <1>7, <1>8 DEF Next, vars

\* A step stays one as its fields change.
LEMMA StepsAre ==
  ASSUME NEW s \in Steps
  PROVE  /\ \A x \in Places : [s EXCEPT !.pc = x] \in Steps
         /\ \A x \in SUBSET Runs : [s EXCEPT !.left = x] \in Steps
         /\ \A x \in Results : [s EXCEPT !.result = x] \in Steps
PROOF
<1>1. \A x \in Places : [s EXCEPT !.pc = x] \in Steps
  BY DEF Steps
<1>2. \A x \in SUBSET Runs : [s EXCEPT !.left = x] \in Steps
  BY DEF Steps
<1>3. \A x \in Results : [s EXCEPT !.result = x] \in Steps
  BY DEF Steps
<1> QED BY <1>1, <1>2, <1>3

\* So does one whose reads, or whose status, change.
LEMMA FreshIs ==
  ASSUME NEW s \in Steps, NEW fresh \in BOOLEAN
  PROVE  [s EXCEPT !.fresh = fresh] \in Steps
PROOF
  BY DEF Steps

LEMMA ReadIs ==
  ASSUME NEW s \in Steps, NEW resolved \in BOOLEAN
  PROVE  [s EXCEPT !.resolved = resolved] \in Steps
PROOF
  BY DEF Steps

LEMMA StatusIs ==
  ASSUME NEW s \in Steps, NEW status \in {"405", "409", "422"}
  PROVE  [s EXCEPT !.pc = "reread", !.status = status] \in Steps
PROOF
<1>1. [s EXCEPT !.pc = "reread"] \in Steps
  BY StepsAre DEF Places
<1>2. [[s EXCEPT !.pc = "reread"] EXCEPT !.status = status] \in Steps
  <2> DEFINE t == [s EXCEPT !.pc = "reread"]
  <2>1. t \in Steps
    BY <1>1
  <2>2. status \in {"none", "405", "409", "422"}
    OBVIOUS
  <2> HIDE DEF t
  <2>3. [t EXCEPT !.status = status] \in Steps
    BY <2>1, <2>2 DEF Steps
  <2> QED BY <2>3 DEF t
<1> QED BY <1>2

\* An attempt that goes somewhere, returns a result or breaks leaves a step.
LEMMA Moving ==
  ASSUME Typed,
         Fails \/ (\E pc \in Places : Goes(pc)) \/ (\E result \in Results : Returns(result))
  PROVE  step' \in Steps
PROOF
<1>1. step \in Steps /\ "done" \in Places
  BY DEF Typed, Places
<1>2. CASE Fails
  BY <1>2, FailsParts
<1>3. ASSUME NEW pc \in Places, Goes(pc) PROVE step' \in Steps
  BY <1>1, <1>3, StepsAre DEF Goes
<1>4. ASSUME NEW result \in Results, Returns(result) PROVE step' \in Steps
  <2>1. [step EXCEPT !.pc = "done"] \in Steps
    BY <1>1, StepsAre
  <2>2. [[step EXCEPT !.pc = "done"] EXCEPT !.result = result] \in Steps
    BY <2>1, StepsAre
  <2> QED BY <1>4, <2>2 DEF Returns
<1> QED BY <1>2, <1>3, <1>4

\* Where an attempt goes with a comment that is there.
LEMMA CommentedIsStep ==
  ASSUME Typed, op.kind \in Commenting, NEW created \in BOOLEAN
  PROVE  Commented(created) \in Steps
PROOF
<1>1. step \in Steps /\ {"done", "resolve", "patch"} \subseteq Places
  BY DEF Typed, Places
<1>2. CASE op.kind = "comment"
  <2>1. [kind |-> "commented", created |-> created] \in Results
    BY ResultsAre
  <2>2. [step EXCEPT !.pc = "done"] \in Steps
    BY <1>1, StepsAre
  <2>3. [[step EXCEPT !.pc = "done"] EXCEPT
            !.result = [kind |-> "commented", created |-> created]] \in Steps
    BY <2>1, <2>2, StepsAre
  <2> QED BY <1>2, <2>3 DEF Commented
<1>3. CASE op.kind = "thread.reply"
  <2>1. [step EXCEPT !.pc = "resolve"] \in Steps
    BY <1>1, StepsAre
  <2>2. [[step EXCEPT !.pc = "resolve"] EXCEPT !.fresh = created] \in Steps
    BY <2>1, FreshIs
  <2> QED BY <1>3, <2>2 DEF Commented
<1>4. CASE op.kind = "issue.state"
  <2>1. [step EXCEPT !.pc = "patch"] \in Steps
    BY <1>1, StepsAre
  <2> QED BY <1>4, <2>1 DEF Commented
<1> QED BY <1>2, <1>3, <1>4 DEF Commenting

\* A pull request that is opened gets a row of its own.
LEMMA PullIsRow ==
  ASSUME Typed, NEW base \in {Base, "other"}, NEW mine \in BOOLEAN
  PROVE  /\ Pull(base, mine) \in Rows /\ Pull(base, mine).mine = mine
         /\ Pull(base, mine).id \in Nat
PROOF
<1>1. Cardinality(hub.pulls) + 1 \in Nat
  <2>1. Cardinality(hub.pulls) \in Nat
    BY FS_CardinalityType DEF Typed
  <2> QED BY <2>1
<1> QED BY <1>1 DEF Pull, Rows

\* A workflow run that is rerun, or that ends, leaves the rest of GitHub as it is.
LEMMA RunsAre ==
  ASSUME Typed, NEW r \in Runs,
         NEW run \in [attempt : Nat, status : {"failed", "running", "passed"}],
         hub' = [hub EXCEPT !.runs = [hub.runs EXCEPT ![r] = run]]
  PROVE  /\ hub' \in Hubs /\ IsFiniteSet(hub'.pulls)
         /\ hub'.runs = [hub.runs EXCEPT ![r] = run]
PROOF
<1>1. /\ hub \in Hubs
      /\ hub.runs \in [Runs -> [attempt : Nat, status : {"failed", "running", "passed"}]]
  BY DEF Typed, Hubs
<1>2. [hub.runs EXCEPT ![r] = run]
        \in [Runs -> [attempt : Nat, status : {"failed", "running", "passed"}]]
  BY <1>1
<1>3. hub' \in Hubs /\ hub'.pulls = hub.pulls /\ hub'.runs = [hub.runs EXCEPT ![r] = run]
  BY <1>1, <1>2 DEF Hubs
<1> QED BY <1>3 DEF Typed

-----------------------------------------------------------------------------
(* The parts of the invariant, over every action                           *)

\* Every variable keeps its type: a result is one of the results, and a step's own writes and
\* GitHub's rows are counted in numbers.
LEMMA TypedStep ==
  ASSUME Typed, [Next]_vars
  PROVE  Typed'
PROOF
<1> USE DEF Typed
<1>a. /\ op \in Asked /\ hub \in Hubs /\ step \in Steps /\ did \in Counters
      /\ theirs \in 0..MaxTheirs /\ IsFiniteSet(hub.pulls)
  OBVIOUS
<1>b. /\ step.pc \in Places
      /\ step.try \in 1..Attempts /\ step.fresh \in BOOLEAN /\ step.resolved \in BOOLEAN
      /\ step.status \in {"none", "405", "409", "422"} /\ step.left \in SUBSET Runs
      /\ step.result \in Results
  BY DEF Steps
<1>c. MaxTheirs \in Nat
  BY WritesAssumption
<1>d. /\ hub.comments \in Nat /\ hub.resolved \in BOOLEAN /\ hub.state \in {"open", "closed"}
      /\ hub.issues \in Nat /\ hub.parent \in {"none", "wanted", "other"}
      /\ hub.exists \in BOOLEAN /\ hub.pulls \in SUBSET Rows /\ hub.pr \in PullRequests
      /\ hub.alert \in {"open", "dismissed", "fixed"}
      /\ hub.runs \in [Runs -> [attempt : Nat, status : {"failed", "running", "passed"}]]
  BY DEF Hubs
<1>e. /\ did.comment \in Nat /\ did.issue \in Nat /\ did.link \in Nat /\ did.pull \in Nat
      /\ did.state \in Nat /\ did.alert \in Nat /\ did.edit \in Nat /\ did.merge \in Nat
      /\ did.resolve \in Nat /\ did.rerun \in [Runs -> Nat]
  BY DEF Counters
<1>1. ASSUME Break PROVE Typed'
  <2>1. Fails \/ (\E pc \in Places : Goes(pc)) \/ (\E result \in Results : Returns(result))
    BY <1>1, <1>b, <1>d, ResultsAre DEF Break, At, Places
  <2>2. step' \in Steps
    BY <1>a, <2>1, Moving
  <2> QED BY <1>1, <1>a, <1>c, <2>2 DEF Break, Reads
<1>2. ASSUME ReadComments PROVE Typed'
  <2>a. op.kind \in Commenting /\ "post" \in Places
    BY <1>2, OfItsKind DEF Places
  <2>b. [step EXCEPT !.resolved = hub.resolved] \in Steps
    BY <1>a, <1>d, ReadIs
  <2>c. [[step EXCEPT !.resolved = hub.resolved] EXCEPT !.pc = "post"] \in Steps
    BY <2>a, <2>b, StepsAre
  <2>d. Commented(FALSE) \in Steps
    BY <2>a, CommentedIsStep
  <2>e. [Commented(FALSE) EXCEPT !.resolved = hub.resolved] \in Steps
    BY <1>d, <2>d, ReadIs
  <2>2. step' \in Steps
    BY <1>2, <2>c, <2>e DEF ReadComments
  <2> QED BY <1>2, <1>a, <1>c, <2>2 DEF ReadComments, Reads
<1>3. ASSUME PostComment PROVE Typed'
  <2>1. Commented(TRUE) \in Steps
    BY <1>3, OfItsKind, CommentedIsStep
  <2>2. step' \in Steps
    BY <1>3, <2>1, FailsParts DEF PostComment, Answered
  <2>3. hub' \in Hubs /\ IsFiniteSet(hub'.pulls)
    BY <1>3, <1>a, <1>d DEF PostComment, Answered, Refused, Reads, Hubs, PullRequests
  <2>4. did' \in Counters
    BY <1>3, <1>a, <1>e DEF PostComment, Answered, Refused, Reads, Counters
  <2> QED BY <1>3, <1>a, <1>c, <2>2, <2>3, <2>4 DEF PostComment, Answered, Refused, Reads
<1>4. ASSUME ResolveThread PROVE Typed'
  <2>1. Fails \/ (\E pc \in Places : Goes(pc)) \/ (\E result \in Results : Returns(result))
    BY <1>4, <1>b, <1>d, ResultsAre DEF ResolveThread, At, Returns, ThreadReplied, Answered,
       Refused, Returns, Goes, Places
  <2>2. step' \in Steps
    BY <1>a, <2>1, Moving
  <2>3. hub' \in Hubs /\ IsFiniteSet(hub'.pulls)
    BY <1>4, <1>a, <1>d DEF ResolveThread, Answered, Refused, Reads, Hubs, PullRequests
  <2>4. did' \in Counters
    BY <1>4, <1>a, <1>e DEF ResolveThread, Answered, Refused, Reads, Counters
  <2> QED BY <1>4, <1>a, <1>c, <2>2, <2>3, <2>4 DEF ResolveThread, Answered, Refused, Reads
<1>5. ASSUME ReadState PROVE Typed'
  <2>1. Fails \/ (\E pc \in Places : Goes(pc)) \/ (\E result \in Results : Returns(result))
    BY <1>5, <1>b, <1>d, ResultsAre DEF ReadState, At, AfterMatch, Asked, Places
  <2>2. step' \in Steps
    BY <1>a, <2>1, Moving
  <2> QED BY <1>5, <1>a, <1>c, <2>2 DEF ReadState, Reads
<1>6. ASSUME PatchState PROVE Typed'
  <2>1. Fails \/ (\E pc \in Places : Goes(pc)) \/ (\E result \in Results : Returns(result))
    BY <1>6, <1>b, <1>d, ResultsAre DEF PatchState, At, Asked, Answered, Refused, Returns, Goes,
       Places
  <2>2. step' \in Steps
    BY <1>a, <2>1, Moving
  <2>3. hub' \in Hubs /\ IsFiniteSet(hub'.pulls)
    BY <1>6, <1>a, <1>d DEF PatchState, Answered, Refused, Reads, Hubs, PullRequests, Asked, At
  <2>4. did' \in Counters
    BY <1>6, <1>a, <1>e DEF PatchState, Answered, Refused, Reads, Counters
  <2> QED BY <1>6, <1>a, <1>c, <2>2, <2>3, <2>4 DEF PatchState, Answered, Refused, Reads
<1>7. ASSUME ReadAlert PROVE Typed'
  <2>1. Fails \/ (\E pc \in Places : Goes(pc)) \/ (\E result \in Results : Returns(result))
    BY <1>7, <1>b, <1>d, ResultsAre DEF ReadAlert, At, Places
  <2>2. step' \in Steps
    BY <1>a, <2>1, Moving
  <2> QED BY <1>7, <1>a, <1>c, <2>2 DEF ReadAlert, Reads
<1>8. ASSUME PatchAlert PROVE Typed'
  <2>1. Fails \/ (\E pc \in Places : Goes(pc)) \/ (\E result \in Results : Returns(result))
    BY <1>8, <1>b, <1>d, ResultsAre DEF PatchAlert, At, Answered, Refused, Returns, Goes, Places
  <2>2. step' \in Steps
    BY <1>a, <2>1, Moving
  <2>3. hub' \in Hubs /\ IsFiniteSet(hub'.pulls)
    BY <1>8, <1>a, <1>d DEF PatchAlert, Answered, Refused, Reads, Hubs, PullRequests
  <2>4. did' \in Counters
    BY <1>8, <1>a, <1>e DEF PatchAlert, Answered, Refused, Reads, Counters
  <2> QED BY <1>8, <1>a, <1>c, <2>2, <2>3, <2>4 DEF PatchAlert, Answered, Refused, Reads
<1>9. ASSUME ReadParent PROVE Typed'
  <2>1. Fails \/ (\E pc \in Places : Goes(pc)) \/ (\E result \in Results : Returns(result))
    BY <1>9, <1>b, <1>d, ResultsAre DEF ReadParent, At, Places
  <2>2. step' \in Steps
    BY <1>a, <2>1, Moving
  <2> QED BY <1>9, <1>a, <1>c, <2>2 DEF ReadParent, Reads
<1>10. ASSUME ListIssues PROVE Typed'
  <2>1. Fails \/ (\E pc \in Places : Goes(pc)) \/ (\E result \in Results : Returns(result))
    BY <1>10, <1>b, <1>d, ResultsAre DEF ListIssues, At, Created, Places
  <2>2. step' \in Steps
    BY <1>a, <2>1, Moving
  <2> QED BY <1>10, <1>a, <1>c, <2>2 DEF ListIssues, Reads
<1>11. ASSUME PostIssue PROVE Typed'
  <2>a. "link" \in Places /\ "done" \in Places
    BY DEF Places
  <2>b. [step EXCEPT !.pc = "link"] \in Steps /\ [step EXCEPT !.pc = "done"] \in Steps
    BY <1>a, <2>a, StepsAre
  <2>c. [[step EXCEPT !.pc = "link"] EXCEPT !.fresh = TRUE] \in Steps
    BY <2>b, FreshIs
  <2>d. [Created EXCEPT !.created = TRUE] \in Results
    <3>1. Created \in [kind : {"commented", "issue"}, created : BOOLEAN]
      BY <1>b DEF Created
    <3>2. [Created EXCEPT !.created = TRUE] \in [kind : {"commented", "issue"}, created : BOOLEAN]
      BY <3>1
    <3> QED BY <3>2 DEF Results
  <2>e. [[step EXCEPT !.pc = "done"] EXCEPT !.result = [Created EXCEPT !.created = TRUE]]
           \in Steps
    BY <2>b, <2>d, StepsAre
  <2>2. step' \in Steps
    BY <1>11, <2>c, <2>e, FailsParts DEF PostIssue, Answered
  <2>3. hub' \in Hubs /\ IsFiniteSet(hub'.pulls)
    BY <1>11, <1>a, <1>d DEF PostIssue, Answered, Refused, Reads, Hubs, PullRequests
  <2>4. did' \in Counters
    BY <1>11, <1>a, <1>e DEF PostIssue, Answered, Refused, Reads, Counters
  <2> QED BY <1>11, <1>a, <1>c, <2>2, <2>3, <2>4 DEF PostIssue, Answered, Refused, Reads
<1>12. ASSUME ReadChild PROVE Typed'
  <2>1. Fails \/ (\E pc \in Places : Goes(pc)) \/ (\E result \in Results : Returns(result))
    BY <1>12, <1>b, <1>d, ResultsAre DEF ReadChild, At, Created, Places
  <2>2. step' \in Steps
    BY <1>a, <2>1, Moving
  <2> QED BY <1>12, <1>a, <1>c, <2>2 DEF ReadChild, Reads
<1>13. ASSUME LinkIssue PROVE Typed'
  <2>1. Fails \/ (\E pc \in Places : Goes(pc)) \/ (\E result \in Results : Returns(result))
    BY <1>13, <1>b, <1>d, ResultsAre DEF LinkIssue, At, Created, Answered, Refused, Returns,
       Goes, Places
  <2>2. step' \in Steps
    BY <1>a, <2>1, Moving
  <2>3. hub' \in Hubs /\ IsFiniteSet(hub'.pulls)
    BY <1>13, <1>a, <1>d DEF LinkIssue, Answered, Refused, Reads, Hubs, PullRequests
  <2>4. did' \in Counters
    BY <1>13, <1>a, <1>e DEF LinkIssue, Answered, Refused, Reads, Counters
  <2> QED BY <1>13, <1>a, <1>c, <2>2, <2>3, <2>4 DEF LinkIssue, Answered, Refused, Reads
<1>14. ASSUME ListPulls PROVE Typed'
  <2>a. \A r \in Listed(hub.pulls) : r.id \in Nat
    BY <1>d DEF Listed, Rows
  <2>b. \A r \in Listed(hub.pulls) : [kind |-> "pull", id |-> r.id] \in Results
    BY <2>a, ResultsAre
  <2>c. (\E pc \in Places : Goes(pc)) \/ (\E result \in Results : Returns(result))
    BY <1>14, <2>b DEF ListPulls, Places
  <2>2. step' \in Steps
    BY <1>a, <2>c, Moving
  <2> QED BY <1>14, <1>a, <1>c, <2>2 DEF ListPulls, Reads
<1>15. ASSUME PostPull PROVE Typed'
  <2>a. Pull(Base, TRUE) \in Rows /\ Pull(Base, TRUE).id \in Nat
    BY <1>a, PullIsRow
  <2>b. [kind |-> "pull", id |-> Pull(Base, TRUE).id] \in Results
    BY <2>a, ResultsAre
  <2>c. Fails \/ (\E result \in Results : Returns(result))
    BY <1>15, <2>b DEF PostPull, Answered, Refused, Returns
  <2>2. step' \in Steps
    BY <1>a, <2>c, Moving
  <2>3. hub' \in Hubs /\ IsFiniteSet(hub'.pulls)
    <3>1. hub.pulls \cup {Pull(Base, TRUE)} \in SUBSET Rows
      BY <1>d, <2>a
    <3>2. IsFiniteSet(hub.pulls \cup {Pull(Base, TRUE)})
      BY <1>a, FS_AddElement
    <3>3. hub' = hub \/ hub' = [hub EXCEPT !.pulls = hub.pulls \cup {Pull(Base, TRUE)}]
      BY <1>15 DEF PostPull, Refused, Reads
    <3> QED BY <1>a, <1>d, <3>1, <3>2, <3>3 DEF Hubs
  <2>4. did' \in Counters
    <3>1. did' = did \/ did' = [did EXCEPT !.pull = did.pull + 1]
      BY <1>15 DEF PostPull, Refused, Reads
    <3> QED BY <1>a, <1>e, <3>1 DEF Counters
  <2> QED BY <1>15, <1>a, <1>c, <2>2, <2>3, <2>4 DEF PostPull, Answered, Refused, Reads
<1>16. ASSUME ReadEdited PROVE Typed'
  <2>1. Fails \/ (\E pc \in Places : Goes(pc)) \/ (\E result \in Results : Returns(result))
    BY <1>16, <1>b, <1>d, ResultsAre DEF ReadEdited, At, Places
  <2>2. step' \in Steps
    BY <1>a, <2>1, Moving
  <2> QED BY <1>16, <1>a, <1>c, <2>2 DEF ReadEdited, Reads
<1>17. ASSUME PatchPull PROVE Typed'
  <2>1. Fails \/ (\E pc \in Places : Goes(pc)) \/ (\E result \in Results : Returns(result))
    BY <1>17, <1>b, <1>d, ResultsAre DEF PatchPull, At, Answered, Refused, Returns, Goes, Places
  <2>2. step' \in Steps
    BY <1>a, <2>1, Moving
  <2>3. hub' \in Hubs /\ IsFiniteSet(hub'.pulls)
    BY <1>17, <1>a, <1>d DEF PatchPull, Answered, Refused, Reads, Hubs, PullRequests
  <2>4. did' \in Counters
    BY <1>17, <1>a, <1>e DEF PatchPull, Answered, Refused, Reads, Counters
  <2> QED BY <1>17, <1>a, <1>c, <2>2, <2>3, <2>4 DEF PatchPull, Answered, Refused, Reads
<1>18. ASSUME ReadMerge PROVE Typed'
  <2>1. Fails \/ (\E pc \in Places : Goes(pc)) \/ (\E result \in Results : Returns(result))
    BY <1>18, <1>b, <1>d, ResultsAre DEF ReadMerge, At, MergePrecheck, Settled, Places
  <2>2. step' \in Steps
    BY <1>a, <2>1, Moving
  <2> QED BY <1>18, <1>a, <1>c, <2>2 DEF ReadMerge, Reads
<1>19. ASSUME Put PROVE Typed'
  <2>1. Fails \/ (\E pc \in Places : Goes(pc)) \/ (\E result \in Results : Returns(result))
    BY <1>19, <1>b, <1>d, ResultsAre DEF Put, At, Answered, Refused, Returns, Goes, Places
  <2>2. step' \in Steps
    BY <1>a, <2>1, Moving
  <2>3. hub' \in Hubs /\ IsFiniteSet(hub'.pulls)
    BY <1>19, <1>a, <1>d DEF Put, Answered, Refused, Reads, Hubs, PullRequests
  <2>4. did' \in Counters
    BY <1>19, <1>a, <1>e DEF Put, Answered, Refused, Reads, Counters
  <2> QED BY <1>19, <1>a, <1>c, <2>2, <2>3, <2>4 DEF Put, Answered, Refused, Reads
<1>20. ASSUME PutRefused PROVE Typed'
  <2>1. PICK status \in {"405", "409", "422"} :
          step' = [step EXCEPT !.pc = "reread", !.status = status]
    BY <1>20 DEF PutRefused
  <2>2. step' \in Steps
    BY <1>a, <2>1, StatusIs
  <2> QED BY <1>20, <1>a, <1>c, <2>2 DEF PutRefused, Reads
<1>21. ASSUME RereadMerge PROVE Typed'
  <2>1. Fails \/ (\E pc \in Places : Goes(pc)) \/ (\E result \in Results : Returns(result))
    BY <1>21, <1>b, <1>d, ResultsAre DEF RereadMerge, At, MergePrecheck, MergeFailure, Settled,
       Places
  <2>2. step' \in Steps
    BY <1>a, <2>1, Moving
  <2> QED BY <1>21, <1>a, <1>c, <2>2 DEF RereadMerge, Reads
<1>22. ASSUME ConfirmMerge PROVE Typed'
  <2>1. Fails \/ (\E pc \in Places : Goes(pc)) \/ (\E result \in Results : Returns(result))
    BY <1>22, <1>b, <1>d, ResultsAre DEF ConfirmMerge, At, Places
  <2>2. step' \in Steps
    BY <1>a, <2>1, Moving
  <2> QED BY <1>22, <1>a, <1>c, <2>2 DEF ConfirmMerge, Reads
<1>23. ASSUME ListRuns PROVE Typed'
  <2>a. [step EXCEPT !.pc = "rerun"] \in Steps
    BY <1>a, StepsAre DEF Places
  <2>b. \A left \in SUBSET Runs : [[step EXCEPT !.pc = "rerun"] EXCEPT !.left = left] \in Steps
    BY <2>a, StepsAre
  <2>c. \/ \E result \in Results : Returns(result)
        \/ \E left \in SUBSET Runs : step' = [step EXCEPT !.pc = "rerun", !.left = left]
    BY <1>23, ResultsAre DEF ListRuns
  <2>2. step' \in Steps
    BY <1>a, <2>b, <2>c, Moving
  <2> QED BY <1>23, <1>a, <1>c, <2>2 DEF ListRuns, Reads
<1>24. ASSUME NEW r \in Runs, Rerun(r) PROVE Typed'
  <2>a. [step EXCEPT !.pc = "done"] \in Steps
    BY <1>a, StepsAre DEF Places
  <2>b. {} \in SUBSET Runs /\ step.left \ {r} \in SUBSET Runs
    BY <1>b
  <2>c. [[step EXCEPT !.pc = "done"] EXCEPT !.left = {}] \in Steps
    BY <2>a, <2>b, StepsAre
  <2>d. [[[step EXCEPT !.pc = "done"] EXCEPT !.left = {}] EXCEPT !.result = Reruns] \in Steps
    BY <2>c, ResultsAre, StepsAre
  <2>e. [step EXCEPT !.left = step.left \ {r}] \in Steps
    BY <1>a, <2>b, StepsAre
  <2>2. step' \in Steps
    BY <1>24, <2>d, <2>e, FailsParts DEF Rerun, Answered, Refused
  <2>3. hub' \in Hubs /\ IsFiniteSet(hub'.pulls)
    <3>1. \/ hub' = hub
          \/ hub' = [hub EXCEPT !.runs = [hub.runs EXCEPT
                        ![r] = [attempt |-> hub.runs[r].attempt + 1, status |-> "running"]]]
      BY <1>24 DEF Rerun, Refused, Reads
    <3>2. [attempt |-> hub.runs[r].attempt + 1, status |-> "running"]
            \in [attempt : Nat, status : {"failed", "running", "passed"}]
      BY <1>d
    <3> QED BY <1>a, <3>1, <3>2, RunsAre
  <2>4. did' \in Counters
    BY <1>24, <1>a, <1>e DEF Rerun, Answered, Refused, Reads, Counters
  <2> QED BY <1>24, <1>a, <1>c, <2>2, <2>3, <2>4 DEF Rerun, Answered, Refused, Reads
<1>25. ASSUME NEW r \in Runs, OthersRerun(r) PROVE Typed'
  <2>1. hub' \in Hubs /\ IsFiniteSet(hub'.pulls)
    <3>1. hub' = [hub EXCEPT !.runs = [hub.runs EXCEPT
                    ![r] = [attempt |-> hub.runs[r].attempt + 1, status |-> "running"]]]
      BY <1>25 DEF OthersRerun
    <3>2. [attempt |-> hub.runs[r].attempt + 1, status |-> "running"]
            \in [attempt : Nat, status : {"failed", "running", "passed"}]
      BY <1>d
    <3> QED BY <1>a, <3>1, <3>2, RunsAre
  <2>2. theirs' \in 0..MaxTheirs /\ UNCHANGED <<op, step, did>>
    BY <1>25, <1>a, <1>c DEF OthersRerun, Others
  <2> QED BY <1>a, <2>1, <2>2
<1>26. ASSUME NEW r \in Runs, RunEnds(r) PROVE Typed'
  <2>1. hub' \in Hubs /\ IsFiniteSet(hub'.pulls)
    <3>1. PICK status \in {"failed", "passed"} :
            hub' = [hub EXCEPT !.runs = [hub.runs EXCEPT
                      ![r] = [hub.runs[r] EXCEPT !.status = status]]]
      BY <1>26 DEF RunEnds
    <3>2. [hub.runs[r] EXCEPT !.status = status]
            \in [attempt : Nat, status : {"failed", "running", "passed"}]
      BY <1>d
    <3> QED BY <1>a, <3>1, <3>2, RunsAre
  <2> QED BY <1>26, <1>a, <2>1 DEF RunEnds
<1>27. ASSUME Discuss PROVE Typed'
  <2>1. hub' \in Hubs /\ IsFiniteSet(hub'.pulls)
    BY <1>27, <1>a, <1>d DEF Discuss, Hubs, PullRequests
  <2>2. theirs' \in 0..MaxTheirs /\ UNCHANGED <<op, step, did>>
    BY <1>27, <1>a, <1>c DEF Discuss, Others
  <2> QED BY <1>a, <2>1, <2>2
<1>28. ASSUME OthersPulls PROVE Typed'
  <2>1. ASSUME NEW pulls, hub' = [hub EXCEPT !.pulls = pulls], pulls \in SUBSET Rows,
               IsFiniteSet(pulls)
        PROVE  hub' \in Hubs /\ IsFiniteSet(hub'.pulls)
    BY <1>a, <2>1 DEF Hubs
  <2>2. ASSUME NEW base \in {Base, "other"},
               hub' = [hub EXCEPT !.pulls = @ \cup {Pull(base, FALSE)}]
        PROVE  hub' \in Hubs /\ IsFiniteSet(hub'.pulls)
    <3>1. hub.pulls \cup {Pull(base, FALSE)} \in SUBSET Rows
      BY <1>a, <1>d, PullIsRow
    <3>2. IsFiniteSet(hub.pulls \cup {Pull(base, FALSE)})
      BY <1>a, FS_AddElement
    <3> QED BY <2>1, <2>2, <3>1, <3>2
  <2>3. ASSUME NEW r \in hub.pulls, NEW row \in Rows,
               hub' = [hub EXCEPT !.pulls = (@ \ {r}) \cup {row}]
        PROVE  hub' \in Hubs /\ IsFiniteSet(hub'.pulls)
    <3>1. (hub.pulls \ {r}) \cup {row} \in SUBSET Rows
      BY <1>d
    <3>2. IsFiniteSet(hub.pulls \ {r})
      BY <1>a, FS_RemoveElement
    <3>3. IsFiniteSet((hub.pulls \ {r}) \cup {row})
      BY <3>2, FS_AddElement
    <3> QED BY <2>1, <2>3, <3>1, <3>3
  <2>4. \A r \in hub.pulls : [r EXCEPT !.open = FALSE] \in Rows
    BY <1>d DEF Rows
  <2>5. \A r \in hub.pulls, base \in {Base, "other"} : [r EXCEPT !.base = base] \in Rows
    BY <1>d DEF Rows
  <2>6. hub' \in Hubs /\ IsFiniteSet(hub'.pulls)
    BY <1>28, <2>2, <2>3, <2>4, <2>5 DEF OthersPulls
  <2>7. theirs' \in 0..MaxTheirs /\ UNCHANGED <<op, step, did>>
    BY <1>28, <1>a, <1>c DEF OthersPulls, Others
  <2> QED BY <1>a, <2>6, <2>7
<1>29. ASSUME OthersPull PROVE Typed'
  <2>1. hub' \in Hubs /\ IsFiniteSet(hub'.pulls)
    BY <1>29, <1>a, <1>d DEF OthersPull, Hubs, PullRequests
  <2>2. theirs' \in 0..MaxTheirs /\ UNCHANGED <<op, step, did>>
    BY <1>29, <1>a, <1>c DEF OthersPull, Others
  <2> QED BY <1>a, <2>1, <2>2
<1>30. ASSUME UNCHANGED vars PROVE Typed'
  BY <1>30 DEF vars
<1> QED BY <1>1, <1>2, <1>3, <1>4, <1>5, <1>6, <1>7, <1>8, <1>9, <1>10, <1>11, <1>12,
          <1>13, <1>14, <1>15, <1>16, <1>17, <1>18, <1>19, <1>20, <1>21, <1>22, <1>23, <1>24,
          <1>25, <1>26, <1>27, <1>28, <1>29, <1>30 DEF Next

-----------------------------------------------------------------------------
(* What each action does, in the fields that the invariant is about.       *)

\* The attempt broke; it went on to pc; it returned a result of a kind.
Broke == step'.pc \in {"start", "failed"} /\ step'.result.kind = "nothing"
Stays(pc) == step'.pc = pc /\ step'.result = step.result
Gives(kind) == step'.pc = "done" /\ step'.result.kind = kind

\* Where an attempt goes with its comment.
Posted ==
  /\ op.kind = "comment" => Gives("commented")
  /\ op.kind = "thread.reply" => Stays("resolve")
  /\ op.kind = "issue.state" => Stays("patch")

\* What the decision about a pull request that is to be merged says of it.
Settles ==
  \/ Broke
  \/ /\ Gives("merge")
     /\ IF step'.result.merged THEN hub.pr.state = "merged" /\ hub.pr.head = Sha
        ELSE hub.pr.state # "merged"

\* The three ways on, in the fields that the invariant is about.
LEMMA Goings ==
  ASSUME Typed
  PROVE  /\ Fails => Broke
         /\ \A pc : Goes(pc) => Stays(pc) /\ step'.resolved = step.resolved
         /\ \A result : Returns(result) => step'.pc = "done" /\ step'.result = result
PROOF
<1>1. Fails => Broke
  BY FailsParts DEF Broke, Nothing
<1>2. \A pc : Goes(pc) => Stays(pc) /\ step'.resolved = step.resolved
  BY DEF Goes, Stays, Typed, Steps
<1>3. \A result : Returns(result) => step'.pc = "done" /\ step'.result = result
  BY DEF Returns, Typed, Steps
<1> QED BY <1>1, <1>2, <1>3

\* Where an attempt goes with a comment that is there.
LEMMA CommentedGoes ==
  ASSUME Typed, op.kind \in Commenting, NEW created \in BOOLEAN
  PROVE  LET next == Commented(created)
         IN  /\ next.resolved = step.resolved
             /\ op.kind = "comment" => next.pc = "done" /\ next.result.kind = "commented"
             /\ op.kind = "thread.reply" => next.pc = "resolve" /\ next.result = step.result
             /\ op.kind = "issue.state" => next.pc = "patch" /\ next.result = step.result
PROOF
<1>1. step \in Steps
  BY DEF Typed
<1>2. CASE op.kind = "comment"
  BY <1>1, <1>2 DEF Commented, Steps
<1>3. CASE op.kind = "thread.reply"
  BY <1>1, <1>3 DEF Commented, Steps
<1>4. CASE op.kind = "issue.state"
  BY <1>1, <1>4 DEF Commented, Steps
<1> QED BY <1>2, <1>3, <1>4 DEF Commenting

LEMMA ReadCommentsDoes ==
  ASSUME Typed, ReadComments
  PROVE  /\ Reads /\ op.kind \in Commenting /\ step'.resolved = hub.resolved
         /\ IF hub.comments = 0 THEN Stays("post") ELSE Posted
         /\ step.pc \in {"start", "comments"} /\ (op.kind = "issue.state" => step.pc = "comments")
PROOF
<1>1. /\ Reads /\ op.kind \in Commenting
      /\ step.pc \in {"start", "comments"} /\ (op.kind = "issue.state" => step.pc = "comments")
  BY DEF ReadComments, At, Commenting
<1>2. CASE hub.comments = 0
  <2>1. step' = [[step EXCEPT !.resolved = hub.resolved] EXCEPT !.pc = "post"]
    BY <1>2 DEF ReadComments, Marked
  <2> QED BY <1>1, <1>2, <2>1 DEF Stays, Typed, Steps
<1>3. CASE hub.comments # 0
  <2>1. step' = [Commented(FALSE) EXCEPT !.resolved = hub.resolved]
    BY <1>3 DEF ReadComments, Marked, Typed, Hubs
  <2>2. Commented(FALSE) \in Steps
    BY <1>1, CommentedIsStep
  <2>3. /\ step'.resolved = hub.resolved
        /\ step'.pc = Commented(FALSE).pc /\ step'.result = Commented(FALSE).result
    BY <2>1, <2>2 DEF Steps
  <2> QED BY <1>1, <1>3, <2>3, CommentedGoes DEF Posted, Stays, Gives
<1> QED BY <1>2, <1>3

LEMMA PostCommentDoes ==
  ASSUME Typed, PostComment
  PROVE  /\ op.kind \in Commenting /\ step.pc = "post" /\ UNCHANGED <<op, theirs>>
         /\ hub' = [hub EXCEPT !.comments = hub.comments + 1]
         /\ did' = [did EXCEPT !.comment = did.comment + 1]
         /\ Broke \/ (Posted /\ step'.resolved = step.resolved)
PROOF
<1>1. /\ op.kind \in Commenting /\ step.pc = "post" /\ UNCHANGED <<op, theirs>>
      /\ hub' = [hub EXCEPT !.comments = hub.comments + 1]
      /\ did' = [did EXCEPT !.comment = did.comment + 1]
      /\ step' = Commented(TRUE) \/ Fails
  BY DEF PostComment, Answered, Commenting
<1>2. step' = Commented(TRUE) => Posted /\ step'.resolved = step.resolved
  BY <1>1, CommentedGoes DEF Posted, Stays, Gives
<1> QED BY <1>1, <1>2, Goings

LEMMA ResolveThreadDoes ==
  ASSUME Typed, ResolveThread
  PROVE  /\ op.kind = "thread.reply" /\ step.pc = "resolve" /\ UNCHANGED <<op, theirs>>
         /\ Broke \/ Gives("replied")
         /\ \/ UNCHANGED <<hub, did>>
            \/ /\ ~step.resolved
               /\ hub' = [hub EXCEPT !.resolved = TRUE]
               /\ did' = [did EXCEPT !.resolve = did.resolve + 1]
PROOF
<1>1. /\ op.kind = "thread.reply" /\ step.pc = "resolve" /\ UNCHANGED <<op, theirs>>
      /\ \/ UNCHANGED <<hub, did>>
         \/ /\ ~step.resolved
            /\ hub' = [hub EXCEPT !.resolved = TRUE]
            /\ did' = [did EXCEPT !.resolve = did.resolve + 1]
  BY DEF ResolveThread, At, Answered, Reads
<1>2. Fails \/ \E resolved : Returns(ThreadReplied(resolved))
  BY DEF ResolveThread, Answered, Returns
<1>3. \A resolved : ThreadReplied(resolved).kind = "replied"
  BY DEF ThreadReplied
<1> QED BY <1>1, <1>2, <1>3, Goings DEF Gives

LEMMA ReadStateDoes ==
  ASSUME Typed, ReadState
  PROVE  /\ Reads /\ op.kind = "issue.state" /\ step.pc = "start"
         /\ IF hub.state = op.to THEN Gives("state")
            ELSE IF op.comment THEN Stays("comments") ELSE Stays("patch")
PROOF
  BY Goings DEF ReadState, At, Gives, AfterMatch

LEMMA PatchStateDoes ==
  ASSUME Typed, PatchState
  PROVE  /\ op.kind = "issue.state" /\ step.pc = "patch" /\ UNCHANGED <<op, theirs>>
         /\ hub' = [hub EXCEPT !.state = op.to] /\ did' = [did EXCEPT !.state = did.state + 1]
         /\ Broke \/ Gives("state")
PROOF
<1>1. /\ op.kind = "issue.state" /\ step.pc = "patch" /\ UNCHANGED <<op, theirs>>
      /\ hub' = [hub EXCEPT !.state = op.to] /\ did' = [did EXCEPT !.state = did.state + 1]
  BY DEF PatchState, At, Answered
<1>2. Fails \/ Returns([kind |-> "state", state |-> op.to, acted |-> TRUE])
  BY DEF PatchState, Answered, Returns
<1> QED BY <1>1, <1>2, Goings DEF Gives

LEMMA ReadAlertDoes ==
  ASSUME Typed, ReadAlert
  PROVE  /\ Reads /\ op.kind = "alert.dismiss" /\ step.pc = "start"
         /\ IF AlertSettled(hub.alert) THEN Gives("alert") ELSE Stays("patch")
PROOF
  BY Goings DEF ReadAlert, At, Gives

LEMMA PatchAlertDoes ==
  ASSUME Typed, PatchAlert
  PROVE  /\ op.kind = "alert.dismiss" /\ step.pc = "patch" /\ UNCHANGED <<op, theirs>>
         /\ Broke \/ Gives("alert")
         /\ \/ UNCHANGED <<hub, did>> /\ hub.alert = "fixed"
            \/ /\ hub' = [hub EXCEPT !.alert = "dismissed"]
               /\ did' = [did EXCEPT !.alert = did.alert + 1]
PROOF
<1>1. /\ op.kind = "alert.dismiss" /\ step.pc = "patch" /\ UNCHANGED <<op, theirs>>
      /\ \/ UNCHANGED <<hub, did>> /\ hub.alert = "fixed"
         \/ /\ hub' = [hub EXCEPT !.alert = "dismissed"]
            /\ did' = [did EXCEPT !.alert = did.alert + 1]
  BY DEF PatchAlert, At, Answered, Refused, Reads
<1>2. Fails \/ Returns([kind |-> "alert", state |-> "dismissed"])
  BY DEF PatchAlert, Answered, Refused, Returns
<1> QED BY <1>1, <1>2, Goings DEF Gives

LEMMA ReadParentDoes ==
  ASSUME Typed, ReadParent
  PROVE  /\ Reads /\ op.kind = "issue.create" /\ step.pc = "start"
         /\ IF op.parent /\ ~hub.exists THEN Broke ELSE Stays("list")
PROOF
  BY Goings DEF ReadParent, At

LEMMA ListIssuesDoes ==
  ASSUME Typed, ListIssues
  PROVE  /\ Reads /\ op.kind = "issue.create" /\ step.pc = "list"
         /\ IF hub.issues = 0 THEN Stays("post")
            ELSE IF op.parent THEN Stays("child") ELSE Gives("issue")
PROOF
<1>1. hub.issues \in Nat /\ Created.kind = "issue"
  BY DEF Typed, Hubs, Created
<1> QED BY <1>1, Goings DEF ListIssues, At, Gives, Marked

LEMMA PostIssueDoes ==
  ASSUME Typed, PostIssue
  PROVE  /\ op.kind = "issue.create" /\ step.pc = "post" /\ UNCHANGED <<op, theirs>>
         /\ hub' = [hub EXCEPT !.issues = hub.issues + 1]
         /\ did' = [did EXCEPT !.issue = did.issue + 1]
         /\ Broke \/ IF op.parent THEN Stays("link") ELSE Gives("issue")
PROOF
<1>1. /\ op.kind = "issue.create" /\ step.pc = "post" /\ UNCHANGED <<op, theirs>>
      /\ hub' = [hub EXCEPT !.issues = hub.issues + 1]
      /\ did' = [did EXCEPT !.issue = did.issue + 1]
  BY DEF PostIssue, At, Answered
<1>2. CASE op.parent
  <2>1. Fails \/ step' = [step EXCEPT !.pc = "link", !.fresh = TRUE]
    BY <1>2 DEF PostIssue, Answered
  <2>2. step' = [step EXCEPT !.pc = "link", !.fresh = TRUE] => Stays("link")
    BY DEF Stays, Typed, Steps
  <2> QED BY <1>1, <1>2, <2>1, <2>2, Goings
<1>3. CASE ~op.parent
  <2>1. Fails \/ Returns([Created EXCEPT !.created = TRUE])
    BY <1>3 DEF PostIssue, Answered, Returns
  <2>2. [Created EXCEPT !.created = TRUE].kind = "issue"
    BY DEF Created
  <2> QED BY <1>1, <1>3, <2>1, <2>2, Goings DEF Gives
<1> QED BY <1>2, <1>3

LEMMA ReadChildDoes ==
  ASSUME Typed, ReadChild
  PROVE  /\ Reads /\ op.kind = "issue.create" /\ step.pc = "child"
         /\ \/ Broke
            \/ hub.parent = "wanted" /\ Gives("issue")
            \/ hub.parent = "none" /\ Stays("link")
PROOF
<1>1. Created.kind = "issue"
  BY DEF Created
<1> QED BY <1>1, Goings DEF ReadChild, At, Gives, ParentDecision

LEMMA LinkIssueDoes ==
  ASSUME Typed, LinkIssue
  PROVE  /\ op.kind = "issue.create" /\ step.pc = "link" /\ UNCHANGED <<op, theirs>>
         /\ \/ UNCHANGED <<hub, did>> /\ Broke
            \/ /\ hub.parent = "none" /\ (Broke \/ Gives("issue"))
               /\ hub' = [hub EXCEPT !.parent = "wanted"]
               /\ did' = [did EXCEPT !.link = did.link + 1]
PROOF
<1>1. Created.kind = "issue"
  BY DEF Created
<1>2. /\ op.kind = "issue.create" /\ step.pc = "link" /\ UNCHANGED <<op, theirs>>
      /\ \/ UNCHANGED <<hub, did>> /\ Fails
         \/ /\ hub.parent = "none" /\ (Fails \/ Returns(Created))
            /\ hub' = [hub EXCEPT !.parent = "wanted"]
            /\ did' = [did EXCEPT !.link = did.link + 1]
  BY DEF LinkIssue, At, Answered, Returns, Refused, Reads
<1> QED BY <1>1, <1>2, Goings DEF Gives

LEMMA ListPullsDoes ==
  ASSUME Typed, ListPulls
  PROVE  /\ Reads /\ op.kind = "pr.create" /\ step.pc = "start"
         /\ \/ \E r \in Listed(hub.pulls) : Gives("pull") /\ step'.result.id = r.id
            \/ Listed(hub.pulls) = {} /\ Stays("post")
PROOF
<1>1. ASSUME NEW id, Returns([kind |-> "pull", id |-> id])
      PROVE  Gives("pull") /\ step'.result.id = id
  BY <1>1, Goings DEF Gives
<1>2. /\ Reads /\ op.kind = "pr.create" /\ step.pc = "start"
      /\ \/ \E r \in Listed(hub.pulls) : Returns([kind |-> "pull", id |-> r.id])
         \/ Listed(hub.pulls) = {} /\ Goes("post")
  BY DEF ListPulls, At
<1> QED BY <1>1, <1>2, Goings

LEMMA PostPullDoes ==
  ASSUME Typed, PostPull
  PROVE  /\ op.kind = "pr.create" /\ step.pc = "post" /\ UNCHANGED <<op, theirs>>
         /\ \/ UNCHANGED <<hub, did>> /\ Broke
            \/ /\ Broke \/ (Gives("pull") /\ step'.result.id = Pull(Base, TRUE).id)
               /\ hub' = [hub EXCEPT !.pulls = hub.pulls \cup {Pull(Base, TRUE)}]
               /\ did' = [did EXCEPT !.pull = did.pull + 1]
PROOF
<1>1. /\ op.kind = "pr.create" /\ step.pc = "post" /\ UNCHANGED <<op, theirs>>
      /\ \/ UNCHANGED <<hub, did>> /\ Fails
         \/ /\ Fails \/ Returns([kind |-> "pull", id |-> Pull(Base, TRUE).id])
            /\ hub' = [hub EXCEPT !.pulls = hub.pulls \cup {Pull(Base, TRUE)}]
            /\ did' = [did EXCEPT !.pull = did.pull + 1]
  BY DEF PostPull, At, Answered, Returns, Refused, Reads
<1>2. ASSUME NEW id, Returns([kind |-> "pull", id |-> id])
      PROVE  Gives("pull") /\ step'.result.id = id
  BY <1>2, Goings DEF Gives
<1> QED BY <1>1, <1>2, Goings

LEMMA ReadEditedDoes ==
  ASSUME Typed, ReadEdited
  PROVE  /\ Reads /\ op.kind = "pr.edit" /\ step.pc = "start"
         /\ Gives("edit") \/ (hub.pr.title # "new" /\ Stays("patch"))
PROOF
  BY Goings DEF ReadEdited, At, Gives, Edited

LEMMA PatchPullDoes ==
  ASSUME Typed, PatchPull
  PROVE  /\ op.kind = "pr.edit" /\ step.pc = "patch" /\ UNCHANGED <<op, theirs>>
         /\ hub' = [hub EXCEPT !.pr.title = "new"] /\ did' = [did EXCEPT !.edit = did.edit + 1]
         /\ Broke \/ Gives("edit")
PROOF
<1>1. /\ op.kind = "pr.edit" /\ step.pc = "patch" /\ UNCHANGED <<op, theirs>>
      /\ hub' = [hub EXCEPT !.pr.title = "new"] /\ did' = [did EXCEPT !.edit = did.edit + 1]
  BY DEF PatchPull, At, Answered
<1>2. Fails \/ Returns(Edited(TRUE, "none"))
  BY DEF PatchPull, Answered, Returns
<1> QED BY <1>1, <1>2, Goings DEF Gives, Edited

\* A decision to merge nothing is one about a pull request that is not merged.
LEMMA Settling ==
  ASSUME Typed, NEW decision,
         decision = MergePrecheck(hub.pr) \/ (hub.pr.state = "open" /\ decision # "merged"),
         Settled(decision)
  PROVE  Settles
PROOF
<1>1. MergePrecheck(hub.pr) = "merged" => hub.pr.state = "merged" /\ hub.pr.head = Sha
  BY DEF MergePrecheck
<1>2. MergePrecheck(hub.pr) \notin {"merged", "merged-elsewhere"} => hub.pr.state # "merged"
  BY DEF MergePrecheck
<1>3. /\ Merge(TRUE, "none").kind = "merge" /\ Merge(TRUE, "none").merged = TRUE
      /\ Merge(FALSE, decision).kind = "merge" /\ Merge(FALSE, decision).merged = FALSE
  BY DEF Merge
<1>4. CASE decision = "merged"
  <2>1. Returns(Merge(TRUE, "none"))
    BY <1>4 DEF Settled
  <2> QED BY <1>1, <1>3, <1>4, <2>1, Goings DEF Settles, Gives
<1>5. CASE decision \in {"merged-elsewhere", "unknown"}
  <2>1. Fails
    BY <1>5 DEF Settled
  <2> QED BY <2>1, Goings DEF Settles
<1>6. CASE decision \notin {"merged", "merged-elsewhere", "unknown"}
  <2>1. Returns(Merge(FALSE, decision))
    BY <1>6 DEF Settled
  <2>2. hub.pr.state # "merged"
    BY <1>2, <1>6
  <2> QED BY <1>3, <2>1, <2>2, Goings DEF Settles, Gives
<1> QED BY <1>4, <1>5, <1>6

LEMMA ReadMergeDoes ==
  ASSUME Typed, ReadMerge
  PROVE  Reads /\ op.kind = "pr.merge" /\ step.pc = "start" /\ (Stays("put") \/ Settles)
PROOF
  BY Goings, Settling DEF ReadMerge, At

LEMMA PutDoes ==
  ASSUME Typed, Put
  PROVE  /\ op.kind = "pr.merge" /\ step.pc = "put" /\ UNCHANGED <<op, theirs>>
         /\ hub.pr.state = "open" /\ hub.pr.head = Sha
         /\ hub' = [hub EXCEPT !.pr.state = "merged"] /\ did' = [did EXCEPT !.merge = did.merge + 1]
         /\ Broke \/ Stays("confirm")
PROOF
<1>1. /\ op.kind = "pr.merge" /\ step.pc = "put" /\ UNCHANGED <<op, theirs>>
      /\ hub.pr.state = "open" /\ hub.pr.head = Sha
      /\ hub' = [hub EXCEPT !.pr.state = "merged"] /\ did' = [did EXCEPT !.merge = did.merge + 1]
      /\ Fails \/ Goes("confirm")
  BY DEF Put, At, Answered, Mergeable, Goes
<1> QED BY <1>1, Goings

LEMMA PutRefusedDoes ==
  ASSUME Typed, PutRefused
  PROVE  Reads /\ op.kind = "pr.merge" /\ step.pc = "put" /\ Stays("reread")
PROOF
<1>1. Reads /\ op.kind = "pr.merge" /\ step.pc = "put"
  BY DEF PutRefused, At
<1>2. ASSUME NEW status, step' = [step EXCEPT !.pc = "reread", !.status = status]
      PROVE  Stays("reread")
  BY <1>2 DEF Stays, Typed, Steps
<1> QED BY <1>1, <1>2 DEF PutRefused

LEMMA RereadMergeDoes ==
  ASSUME Typed, RereadMerge
  PROVE  Reads /\ op.kind = "pr.merge" /\ step.pc = "reread" /\ Settles
PROOF
<1>1. Reads /\ op.kind = "pr.merge" /\ step.pc = "reread" /\ Settled(MergeFailure(hub.pr))
  BY DEF RereadMerge, At
<1>2. \/ MergeFailure(hub.pr) = MergePrecheck(hub.pr)
      \/ MergePrecheck(hub.pr) = "put" /\ MergeFailure(hub.pr) # "merged"
  BY DEF MergeFailure
<1>3. MergePrecheck(hub.pr) = "put" => hub.pr.state = "open"
  BY DEF MergePrecheck, Typed, Hubs, PullRequests
<1> QED BY <1>1, <1>2, <1>3, Settling

LEMMA ConfirmMergeDoes ==
  ASSUME Typed, ConfirmMerge
  PROVE  /\ Reads /\ op.kind = "pr.merge" /\ step.pc = "confirm"
         /\ Gives("merge") /\ step'.result.merged
PROOF
<1>1. Merge(TRUE, "none").kind = "merge" /\ Merge(TRUE, "none").merged
  BY DEF Merge
<1> QED BY <1>1, Goings DEF ConfirmMerge, At, Gives

LEMMA ListRunsDoes ==
  ASSUME Typed, ListRuns
  PROVE  /\ Reads /\ op.kind = "rerunFailed" /\ step.pc = "start"
         /\ \/ Gives("rerun")
            \/ Stays("rerun") /\ step'.left = {r \in Runs : Selects(r, hub.runs[r])}
PROOF
<1>1. Reads /\ op.kind = "rerunFailed" /\ step.pc = "start"
  BY DEF ListRuns, At
<1>2. Returns(Reruns) \/ step' = [step EXCEPT !.pc = "rerun",
                                      !.left = {r \in Runs : Selects(r, hub.runs[r])}]
  BY DEF ListRuns
<1>3. ASSUME NEW left, step' = [step EXCEPT !.pc = "rerun", !.left = left]
      PROVE  Stays("rerun") /\ step'.left = left
  BY <1>3 DEF Stays, Typed, Steps
<1>4. Returns(Reruns) => Gives("rerun")
  BY Goings DEF Gives, Reruns
<1> QED BY <1>1, <1>2, <1>3, <1>4

LEMMA RerunDoes ==
  ASSUME Typed, NEW r \in Runs, Rerun(r)
  PROVE  /\ op.kind = "rerunFailed" /\ step.pc = "rerun" /\ r \in step.left
         /\ UNCHANGED <<op, theirs>>
         /\ Broke \/ Gives("rerun") \/ (Stays("rerun") /\ step'.left = step.left \ {r})
         /\ \/ UNCHANGED <<hub, did>>
            \/ /\ hub' = [hub EXCEPT !.runs = [hub.runs EXCEPT
                             ![r] = [attempt |-> hub.runs[r].attempt + 1, status |-> "running"]]]
               /\ did' = [did EXCEPT !.rerun = [did.rerun EXCEPT ![r] = did.rerun[r] + 1]]
PROOF
<1>1. /\ op.kind = "rerunFailed" /\ step.pc = "rerun" /\ r \in step.left
      /\ UNCHANGED <<op, theirs>>
      /\ \/ UNCHANGED <<hub, did>>
         \/ /\ hub' = [hub EXCEPT !.runs = [hub.runs EXCEPT
                          ![r] = [attempt |-> hub.runs[r].attempt + 1, status |-> "running"]]]
            /\ did' = [did EXCEPT !.rerun = [did.rerun EXCEPT ![r] = did.rerun[r] + 1]]
  BY DEF Rerun, At, Answered, Refused, Reads
<1>2. \/ Fails
      \/ step' = [step EXCEPT !.pc = "done", !.left = {}, !.result = Reruns]
      \/ step' = [step EXCEPT !.left = step.left \ {r}]
  BY DEF Rerun, Answered, Refused
<1>3. step' = [step EXCEPT !.pc = "done", !.left = {}, !.result = Reruns] => Gives("rerun")
  BY DEF Gives, Reruns, Typed, Steps
<1>4. step' = [step EXCEPT !.left = step.left \ {r}] =>
        step'.pc = step.pc /\ step'.result = step.result /\ step'.left = step.left \ {r}
  BY DEF Typed, Steps
<1> QED BY <1>1, <1>2, <1>3, <1>4, Goings DEF Stays

\* A step makes no write of another kind, and returns no result of one.
LEMMA QuietStep ==
  ASSUME WriteInv, [Next]_vars
  PROVE  Quiet'
PROOF
<1>a. Typed /\ (Fails => Broke)
  BY Goings DEF WriteInv
<1>q. Quiet /\ op' = op
  BY AskedStays DEF WriteInv
<1>1. ASSUME Break PROVE Quiet'
  BY <1>1, <1>a, <1>q DEF Break, Reads, Broke, Quiet
<1>2. ASSUME ReadComments PROVE Quiet'
  BY <1>2, <1>a, <1>q, ReadCommentsDoes DEF Reads, Broke, Stays, Gives, Posted, Settles, Quiet,
     Typed, Counters, Commenting
<1>3. ASSUME PostComment PROVE Quiet'
  BY <1>3, <1>a, <1>q, PostCommentDoes DEF Reads, Broke, Stays, Gives, Posted, Settles, Quiet,
     Typed, Counters, Commenting
<1>4. ASSUME ResolveThread PROVE Quiet'
  BY <1>4, <1>a, <1>q, ResolveThreadDoes DEF Reads, Broke, Stays, Gives, Posted, Settles, Quiet,
     Typed, Counters, Commenting
<1>5. ASSUME ReadState PROVE Quiet'
  BY <1>5, <1>a, <1>q, ReadStateDoes DEF Reads, Broke, Stays, Gives, Posted, Settles, Quiet,
     Typed, Counters, Commenting
<1>6. ASSUME PatchState PROVE Quiet'
  BY <1>6, <1>a, <1>q, PatchStateDoes DEF Reads, Broke, Stays, Gives, Posted, Settles, Quiet,
     Typed, Counters, Commenting
<1>7. ASSUME ReadAlert PROVE Quiet'
  BY <1>7, <1>a, <1>q, ReadAlertDoes DEF Reads, Broke, Stays, Gives, Posted, Settles, Quiet,
     Typed, Counters, Commenting
<1>8. ASSUME PatchAlert PROVE Quiet'
  BY <1>8, <1>a, <1>q, PatchAlertDoes DEF Reads, Broke, Stays, Gives, Posted, Settles, Quiet,
     Typed, Counters, Commenting
<1>9. ASSUME ReadParent PROVE Quiet'
  BY <1>9, <1>a, <1>q, ReadParentDoes DEF Reads, Broke, Stays, Gives, Posted, Settles, Quiet,
     Typed, Counters, Commenting
<1>10. ASSUME ListIssues PROVE Quiet'
  BY <1>10, <1>a, <1>q, ListIssuesDoes DEF Reads, Broke, Stays, Gives, Posted, Settles, Quiet,
     Typed, Counters, Commenting
<1>11. ASSUME PostIssue PROVE Quiet'
  BY <1>11, <1>a, <1>q, PostIssueDoes DEF Reads, Broke, Stays, Gives, Posted, Settles, Quiet,
     Typed, Counters, Commenting
<1>12. ASSUME ReadChild PROVE Quiet'
  BY <1>12, <1>a, <1>q, ReadChildDoes DEF Reads, Broke, Stays, Gives, Posted, Settles, Quiet,
     Typed, Counters, Commenting
<1>13. ASSUME LinkIssue PROVE Quiet'
  BY <1>13, <1>a, <1>q, LinkIssueDoes DEF Reads, Broke, Stays, Gives, Posted, Settles, Quiet,
     Typed, Counters, Commenting
<1>14. ASSUME ListPulls PROVE Quiet'
  BY <1>14, <1>a, <1>q, ListPullsDoes DEF Reads, Broke, Stays, Gives, Posted, Settles, Quiet,
     Typed, Counters, Commenting
<1>15. ASSUME PostPull PROVE Quiet'
  BY <1>15, <1>a, <1>q, PostPullDoes DEF Reads, Broke, Stays, Gives, Posted, Settles, Quiet,
     Typed, Counters, Commenting
<1>16. ASSUME ReadEdited PROVE Quiet'
  BY <1>16, <1>a, <1>q, ReadEditedDoes DEF Reads, Broke, Stays, Gives, Posted, Settles, Quiet,
     Typed, Counters, Commenting
<1>17. ASSUME PatchPull PROVE Quiet'
  BY <1>17, <1>a, <1>q, PatchPullDoes DEF Reads, Broke, Stays, Gives, Posted, Settles, Quiet,
     Typed, Counters, Commenting
<1>18. ASSUME ReadMerge PROVE Quiet'
  BY <1>18, <1>a, <1>q, ReadMergeDoes DEF Reads, Broke, Stays, Gives, Posted, Settles, Quiet,
     Typed, Counters, Commenting
<1>19. ASSUME Put PROVE Quiet'
  BY <1>19, <1>a, <1>q, PutDoes DEF Reads, Broke, Stays, Gives, Posted, Settles, Quiet, Typed,
     Counters, Commenting
<1>20. ASSUME PutRefused PROVE Quiet'
  BY <1>20, <1>a, <1>q, PutRefusedDoes DEF Reads, Broke, Stays, Gives, Posted, Settles, Quiet,
     Typed, Counters, Commenting
<1>21. ASSUME RereadMerge PROVE Quiet'
  BY <1>21, <1>a, <1>q, RereadMergeDoes DEF Reads, Broke, Stays, Gives, Posted, Settles, Quiet,
     Typed, Counters, Commenting
<1>22. ASSUME ConfirmMerge PROVE Quiet'
  BY <1>22, <1>a, <1>q, ConfirmMergeDoes DEF Reads, Broke, Stays, Gives, Posted, Settles, Quiet,
     Typed, Counters, Commenting
<1>23. ASSUME ListRuns PROVE Quiet'
  BY <1>23, <1>a, <1>q, ListRunsDoes DEF Reads, Broke, Stays, Gives, Posted, Settles, Quiet,
     Typed, Counters, Commenting
<1>24. ASSUME NEW r \in Runs, Rerun(r) PROVE Quiet'
  BY <1>24, <1>a, <1>q, RerunDoes DEF Reads, Broke, Stays, Gives, Posted, Settles, Quiet, Typed,
     Counters, Commenting
<1>25. ASSUME NEW r \in Runs, OthersRerun(r) PROVE Quiet'
  BY <1>25, <1>q DEF OthersRerun, Others, Quiet
<1>26. ASSUME NEW r \in Runs, RunEnds(r) PROVE Quiet'
  BY <1>26, <1>q DEF RunEnds, Quiet
<1>27. ASSUME Discuss PROVE Quiet'
  BY <1>27, <1>q DEF Discuss, Others, Quiet
<1>28. ASSUME OthersPulls PROVE Quiet'
  BY <1>28, <1>q DEF OthersPulls, Others, Quiet
<1>29. ASSUME OthersPull PROVE Quiet'
  BY <1>29, <1>q DEF OthersPull, Others, Quiet
<1>30. ASSUME UNCHANGED vars PROVE Quiet'
  BY <1>30, <1>q DEF Quiet, vars
<1> QED BY <1>1, <1>2, <1>3, <1>4, <1>5, <1>6, <1>7, <1>8, <1>9, <1>10, <1>11, <1>12,
          <1>13, <1>14, <1>15, <1>16, <1>17, <1>18, <1>19, <1>20, <1>21, <1>22, <1>23, <1>24,
          <1>25, <1>26, <1>27, <1>28, <1>29, <1>30 DEF Next

\* A comment is posted where a read found none, and the state changes only after it.
LEMMA CommentsStep ==
  ASSUME WriteInv, [Next]_vars
  PROVE  Comments'
PROOF
<1> SUFFICES ASSUME op.kind \in Commenting
             PROVE  Comments'
  BY AskedStays DEF Comments
<1>k. op.kind \in Commenting /\ op' = op
  BY AskedStays
<1>a. Typed /\ (Fails => Broke)
  BY Goings DEF WriteInv
<1>q. Quiet /\ Comments /\ op' = op
  BY AskedStays DEF WriteInv
<1>1. ASSUME Break PROVE Comments'
  BY <1>1, <1>a, <1>q DEF Break, Reads, Broke, Comments, Quiet, Commenting, Typed, Counters,
     Hubs, Asked
<1>2. ASSUME ReadComments PROVE Comments'
  BY <1>2, <1>a, <1>q, ReadCommentsDoes DEF Reads, Broke, Stays, Gives, Posted, Comments, Quiet,
     Commenting, Typed, Counters, Hubs, Asked
<1>3. ASSUME PostComment PROVE Comments'
  BY <1>3, <1>a, <1>q, PostCommentDoes DEF Reads, Broke, Stays, Gives, Posted, Comments, Quiet,
     Commenting, Typed, Counters, Hubs, Asked
<1>4. ASSUME ResolveThread PROVE Comments'
  BY <1>4, <1>a, <1>q, ResolveThreadDoes DEF Reads, Broke, Stays, Gives, Comments, Quiet,
     Commenting, Typed, Counters, Hubs, Asked
<1>5. ASSUME ReadState PROVE Comments'
  BY <1>5, <1>a, <1>q, ReadStateDoes DEF Reads, Broke, Stays, Gives, Comments, Quiet,
     Commenting, Typed, Counters, Hubs, Asked
<1>6. ASSUME PatchState PROVE Comments'
  BY <1>6, <1>a, <1>q, PatchStateDoes DEF Reads, Broke, Stays, Gives, Comments, Quiet,
     Commenting, Typed, Counters, Hubs, Asked
<1>7. ASSUME Discuss PROVE Comments'
  BY <1>7, <1>a, <1>q DEF Discuss, Others, Comments, Quiet, Commenting, Typed, Counters, Hubs,
     Asked
<1>8. ASSUME UNCHANGED vars PROVE Comments'
  BY <1>8, <1>q DEF vars, Comments
<1>o. /\ ~ReadAlert /\ ~PatchAlert /\ ~ReadParent /\ ~ListIssues /\ ~PostIssue /\ ~ReadChild
      /\ ~LinkIssue /\ ~ListPulls /\ ~PostPull /\ ~ReadEdited /\ ~PatchPull /\ ~ReadMerge
      /\ ~Put /\ ~PutRefused /\ ~RereadMerge /\ ~ConfirmMerge /\ ~ListRuns /\ ~OthersPulls
      /\ ~OthersPull
      /\ \A r : ~Rerun(r) /\ ~OthersRerun(r) /\ ~RunEnds(r)
  BY <1>k, OfItsKind DEF Commenting
<1> QED BY <1>1, <1>2, <1>3, <1>4, <1>5, <1>6, <1>7, <1>8, <1>o DEF Next

\* An issue is created where the list had none, and linked to the parent that is there.
LEMMA IssuesStep ==
  ASSUME WriteInv, [Next]_vars
  PROVE  Issues'
PROOF
<1> SUFFICES ASSUME op.kind = "issue.create"
             PROVE  Issues'
  BY AskedStays DEF Issues
<1>k. op.kind = "issue.create" /\ op' = op
  BY AskedStays
<1>a. Typed /\ (Fails => Broke)
  BY Goings DEF WriteInv
<1>q. Quiet /\ Issues /\ op' = op
  BY AskedStays DEF WriteInv
<1>1. ASSUME Break PROVE Issues'
  BY <1>1, <1>a, <1>q DEF Break, Reads, Broke, Issues, Quiet, Typed, Counters, Hubs, Asked
<1>2. ASSUME ReadParent PROVE Issues'
  BY <1>2, <1>a, <1>q, ReadParentDoes DEF Reads, Broke, Stays, Gives, Issues, Quiet, Typed,
     Counters, Hubs, Asked
<1>3. ASSUME ListIssues PROVE Issues'
  <2>1. /\ UNCHANGED <<op, hub, did>> /\ step.pc = "list"
        /\ IF hub.issues = 0 THEN Stays("post")
           ELSE IF op.parent THEN Stays("child") ELSE Gives("issue")
    BY <1>3, <1>a, ListIssuesDoes DEF Reads
  <2>2. (hub.issues = 0 \/ hub.issues = 1) /\ ~(op.parent /\ ~hub.exists)
        /\ step.result.kind # "issue"
    BY <1>a, <1>k, <1>q, <2>1 DEF Issues, Typed, Hubs
  <2> QED BY <1>q, <2>1, <2>2 DEF Issues, Stays, Gives
<1>4. ASSUME PostIssue PROVE Issues'
  BY <1>4, <1>a, <1>q, PostIssueDoes DEF Reads, Broke, Stays, Gives, Issues, Quiet, Typed,
     Counters, Hubs, Asked
<1>5. ASSUME ReadChild PROVE Issues'
  BY <1>5, <1>a, <1>q, ReadChildDoes DEF Reads, Broke, Stays, Gives, Issues, Quiet, Typed,
     Counters, Hubs, Asked
<1>6. ASSUME LinkIssue PROVE Issues'
  BY <1>6, <1>a, <1>q, LinkIssueDoes DEF Reads, Broke, Stays, Gives, Issues, Quiet, Typed,
     Counters, Hubs, Asked
<1>7. ASSUME Discuss PROVE Issues'
  BY <1>7, <1>a, <1>q DEF Discuss, Others, Issues, Quiet, Typed, Counters, Hubs, Asked
<1>8. ASSUME UNCHANGED vars PROVE Issues'
  BY <1>8, <1>q DEF vars, Issues
<1>o. /\ ~ReadComments /\ ~PostComment /\ ~ResolveThread /\ ~ReadState /\ ~PatchState /\ ~ReadAlert
      /\ ~PatchAlert /\ ~ListPulls /\ ~PostPull /\ ~ReadEdited /\ ~PatchPull /\ ~ReadMerge
      /\ ~Put /\ ~PutRefused /\ ~RereadMerge /\ ~ConfirmMerge /\ ~ListRuns /\ ~OthersPulls
      /\ ~OthersPull
      /\ \A r : ~Rerun(r) /\ ~OthersRerun(r) /\ ~RunEnds(r)
  BY <1>k, OfItsKind DEF Commenting
<1> QED BY <1>1, <1>2, <1>3, <1>4, <1>5, <1>6, <1>7, <1>8, <1>o DEF Next

\* A merge is made once, and told of as it is.
LEMMA MergedStep ==
  ASSUME WriteInv, [Next]_vars
  PROVE  Merged'
PROOF
<1> SUFFICES ASSUME op.kind = "pr.merge"
             PROVE  Merged'
  BY AskedStays DEF Merged
<1>k. op.kind = "pr.merge" /\ op' = op
  BY AskedStays
<1>a. Typed /\ (Fails => Broke)
  BY Goings DEF WriteInv
<1>q. Quiet /\ Merged /\ op' = op
  BY AskedStays DEF WriteInv
<1>1. ASSUME Break PROVE Merged'
  BY <1>1, <1>a, <1>q DEF Break, Reads, Broke, Merged, Quiet, Typed, Counters, Hubs, PullRequests
<1>2. ASSUME ReadMerge PROVE Merged'
  <2>1. UNCHANGED <<op, hub, did>> /\ (Stays("put") \/ Settles) /\ step.pc = "start"
    BY <1>2, <1>a, ReadMergeDoes DEF Reads
  <2>2. hub.pr.state # "merged" => did.merge = 0
    BY <1>a, <1>k, <1>q DEF Merged, Typed, Counters
  <2> QED BY <1>k, <1>q, <2>1, <2>2 DEF Merged, Settles, Stays, Broke, Gives
<1>3. ASSUME Put PROVE Merged'
  <2>1. /\ did.merge = 0 /\ step.result.kind # "merge"
        /\ hub.pr.state = "open" /\ hub.pr.head = Sha
    BY <1>3, <1>a, <1>k, <1>q, PutDoes DEF Merged, Typed, Counters
  <2>2. hub'.pr.state = "merged" /\ hub'.pr.head = Sha /\ did'.merge = 1
    BY <1>3, <1>a, <2>1, PutDoes DEF Typed, Counters, Hubs, PullRequests
  <2>3. Broke \/ Stays("confirm")
    BY <1>3, <1>a, PutDoes
  <2> QED BY <1>q, <2>1, <2>2, <2>3 DEF Merged, Broke, Stays
<1>4. ASSUME PutRefused PROVE Merged'
  BY <1>4, <1>a, <1>q, PutRefusedDoes DEF Reads, Broke, Stays, Gives, Merged, Quiet, Typed,
     Counters, Hubs, PullRequests
<1>5. ASSUME RereadMerge PROVE Merged'
  <2>1. UNCHANGED <<op, hub, did>> /\ Settles
    BY <1>5, <1>a, RereadMergeDoes DEF Reads
  <2>2. hub.pr.state # "merged" => did.merge = 0
    BY <1>a, <1>k, <1>q DEF Merged, Typed, Counters
  <2> QED BY <1>k, <1>q, <2>1, <2>2 DEF Merged, Settles, Broke, Gives
<1>6. ASSUME ConfirmMerge PROVE Merged'
  BY <1>6, <1>a, <1>q, ConfirmMergeDoes DEF Reads, Broke, Stays, Gives, Merged, Quiet, Typed,
     Counters, Hubs, PullRequests
<1>7. ASSUME OthersPull PROVE Merged'
  BY <1>7, <1>a, <1>q DEF OthersPull, Others, Merged, Quiet, Typed, Counters, Hubs, PullRequests
<1>8. ASSUME UNCHANGED vars PROVE Merged'
  BY <1>8, <1>q DEF vars, Merged
<1>o. /\ ~ReadComments /\ ~PostComment /\ ~ResolveThread /\ ~ReadState /\ ~PatchState /\ ~ReadAlert
      /\ ~PatchAlert /\ ~ReadParent /\ ~ListIssues /\ ~PostIssue /\ ~ReadChild /\ ~LinkIssue
      /\ ~ListPulls /\ ~PostPull /\ ~ReadEdited /\ ~PatchPull /\ ~ListRuns /\ ~Discuss
      /\ ~OthersPulls
      /\ \A r : ~Rerun(r) /\ ~OthersRerun(r) /\ ~RunEnds(r)
  BY <1>k, OfItsKind DEF Commenting
<1> QED BY <1>1, <1>2, <1>3, <1>4, <1>5, <1>6, <1>7, <1>8, <1>o DEF Next

\* A run of the map is rerun at its baseline, which it is past from then on.
LEMMA RerunOnceStep ==
  ASSUME WriteInv, [Next]_vars
  PROVE  RerunOnce'
PROOF
<1> SUFFICES ASSUME op.kind = "rerunFailed"
             PROVE  RerunOnce'
  BY AskedStays DEF RerunOnce
<1>k. op.kind = "rerunFailed" /\ op' = op
  BY AskedStays
<1>a. Typed /\ (Fails => Broke)
  BY Goings DEF WriteInv
<1>q. Quiet /\ RerunOnce /\ op' = op
  BY AskedStays DEF WriteInv
<1>1. ASSUME Break PROVE RerunOnce'
  BY <1>1, <1>a, <1>q DEF Break, Reads, Broke, RerunOnce, Quiet, Typed, Counters, Hubs, Asked,
     Selects, Baseline
<1>2. ASSUME ListRuns PROVE RerunOnce'
  <2>1. /\ UNCHANGED <<op, hub, did>>
        /\ \/ Gives("rerun")
           \/ Stays("rerun") /\ step'.left = {r \in Runs : Selects(r, hub.runs[r])}
    BY <1>2, <1>a, ListRunsDoes DEF Reads
  <2>2. ASSUME NEW r \in op.mapped, r \in Runs, Selects(r, hub.runs[r])
        PROVE  did.rerun[r] = 0
    <3>1. hub.runs[r].attempt = Baseline
      BY <2>2 DEF Selects
    <3>2. did.rerun[r] \in Nat
      BY <1>a, <2>2 DEF Typed, Counters
    <3>3. did.rerun[r] <= 1 /\ (did.rerun[r] = 1 => hub.runs[r].attempt > Baseline)
      BY <1>k, <1>q, <2>2 DEF RerunOnce
    <3> QED BY <3>1, <3>2, <3>3 DEF Baseline
  <2>3. step'.pc = "rerun" => \A r \in op.mapped \cap step'.left : did.rerun[r] = 0
    BY <2>1, <2>2 DEF Gives
  <2> QED BY <1>q, <2>1, <2>3 DEF RerunOnce
<1>3. ASSUME NEW r \in Runs, Rerun(r) PROVE RerunOnce'
  <2>1. Broke \/ Gives("rerun") \/ (Stays("rerun") /\ step'.left = step.left \ {r})
    BY <1>3, <1>a, RerunDoes
  <2>2. step.pc = "rerun" /\ r \in step.left
    BY <1>3, <1>a, RerunDoes
  <2>3. CASE UNCHANGED <<hub, did>>
    BY <1>q, <2>1, <2>2, <2>3 DEF RerunOnce, Broke, Gives, Stays
  <2>4. CASE /\ hub' = [hub EXCEPT !.runs = [hub.runs EXCEPT
                           ![r] = [attempt |-> hub.runs[r].attempt + 1, status |-> "running"]]]
             /\ did' = [did EXCEPT !.rerun = [did.rerun EXCEPT ![r] = did.rerun[r] + 1]]
    <3> DEFINE again == [attempt |-> hub.runs[r].attempt + 1, status |-> "running"]
    <3>1. hub.runs \in [Runs -> [attempt : Nat, status : {"failed", "running", "passed"}]]
      BY <1>a DEF Typed, Hubs
    <3>2. again \in [attempt : Nat, status : {"failed", "running", "passed"}]
      BY <3>1
    <3>3. hub'.runs = [hub.runs EXCEPT ![r] = again]
      BY <1>a, <2>4, <3>2, RunsAre
    <3>4. /\ hub'.runs[r].attempt = hub.runs[r].attempt + 1
          /\ \A q \in Runs \ {r} : hub'.runs[q] = hub.runs[q]
      BY <3>1, <3>3
    <3>5. did.rerun \in [Runs -> Nat] /\ did'.rerun = [did.rerun EXCEPT ![r] = did.rerun[r] + 1]
      BY <1>a, <2>4 DEF Typed, Counters
    <3>6. /\ did'.rerun[r] = did.rerun[r] + 1
          /\ \A q \in Runs \ {r} : did'.rerun[q] = did.rerun[q]
      BY <3>5
    <3>7. op.mapped \subseteq Runs /\ \A q \in Runs : hub.runs[q].attempt \in Nat
      BY <1>a, <1>k, <3>1 DEF Typed, Asked
    <3>8. \A q \in Runs : hub'.runs[q].attempt >= 1
      BY <1>k, <1>q, <3>4, <3>7 DEF RerunOnce
    <3>9. ASSUME NEW q \in op.mapped
          PROVE  did'.rerun[q] <= 1 /\ (did'.rerun[q] = 1 => hub'.runs[q].attempt > Baseline)
      BY <1>k, <1>q, <2>2, <3>4, <3>6, <3>7 DEF RerunOnce, Baseline
    <3>10. step'.pc = "rerun" => \A q \in op.mapped \cap step'.left : did'.rerun[q] = 0
      BY <1>k, <1>q, <2>1, <2>2, <3>6, <3>7 DEF RerunOnce, Broke, Gives, Stays
    <3> QED BY <1>q, <3>8, <3>9, <3>10 DEF RerunOnce
  <2> QED BY <1>3, <1>a, <2>3, <2>4, RerunDoes
<1>4. ASSUME NEW r \in Runs, OthersRerun(r) PROVE RerunOnce'
  BY <1>4, <1>a, <1>q DEF OthersRerun, Others, RerunOnce, Quiet, Typed, Counters, Hubs, Asked,
     Selects, Baseline
<1>5. ASSUME NEW r \in Runs, RunEnds(r) PROVE RerunOnce'
  BY <1>5, <1>a, <1>q DEF RunEnds, RerunOnce, Quiet, Typed, Counters, Hubs, Asked, Selects,
     Baseline
<1>6. ASSUME UNCHANGED vars PROVE RerunOnce'
  BY <1>6, <1>q DEF vars, RerunOnce
<1>o. /\ ~ReadComments /\ ~PostComment /\ ~ResolveThread /\ ~ReadState /\ ~PatchState /\ ~ReadAlert
      /\ ~PatchAlert /\ ~ReadParent /\ ~ListIssues /\ ~PostIssue /\ ~ReadChild /\ ~LinkIssue
      /\ ~ListPulls /\ ~PostPull /\ ~ReadEdited /\ ~PatchPull /\ ~ReadMerge /\ ~Put
      /\ ~PutRefused /\ ~RereadMerge /\ ~ConfirmMerge /\ ~Discuss /\ ~OthersPulls /\ ~OthersPull
  BY <1>k, OfItsKind DEF Commenting
<1> QED BY <1>1, <1>2, <1>3, <1>4, <1>5, <1>6, <1>o DEF Next

\* The step's own pull request is the one that it opened, and the one that it returns.
LEMMA PulledStep ==
  ASSUME WriteInv, [Next]_vars
  PROVE  Pulled'
PROOF
<1> SUFFICES ASSUME op.kind = "pr.create"
             PROVE  Pulled'
  BY AskedStays DEF Pulled
<1>k. op.kind = "pr.create" /\ op' = op
  BY AskedStays
<1>a. Typed /\ (Fails => Broke)
  BY Goings DEF WriteInv
<1>q. Quiet /\ Pulled /\ op' = op
  BY AskedStays DEF WriteInv
<1>1. ASSUME Break PROVE Pulled'
  BY <1>1, <1>a, <1>q DEF Break, Reads, Broke, Pulled, Quiet, Typed, Counters, Hubs, Listed,
     Rows, Pull
<1>2. ASSUME ListPulls PROVE Pulled'
  BY <1>2, <1>a, <1>q, ListPullsDoes DEF Reads, Broke, Stays, Gives, Pulled, Quiet, Typed,
     Counters, Hubs, Listed, Rows, Pull
<1>3. ASSUME PostPull PROVE Pulled'
  <2>1. CASE UNCHANGED <<hub, did>> /\ Broke
    BY <1>q, <2>1 DEF Pulled, Broke
  <2>2. CASE /\ Broke \/ (Gives("pull") /\ step'.result.id = Pull(Base, TRUE).id)
             /\ hub' = [hub EXCEPT !.pulls = hub.pulls \cup {Pull(Base, TRUE)}]
             /\ did' = [did EXCEPT !.pull = did.pull + 1]
    <3>1. \A row \in hub.pulls : ~row.mine
      BY <1>3, <1>a, <1>k, <1>q, PostPullDoes DEF Pulled
    <3>2. did.pull = 0 /\ did'.pull = 1
      BY <1>a, <1>k, <1>q, <2>2, <3>1 DEF Pulled, Typed, Counters
    <3>3. hub'.pulls = hub.pulls \cup {Pull(Base, TRUE)} /\ Pull(Base, TRUE).mine
      BY <1>a, <2>2, PullIsRow DEF Typed, Hubs
    <3>4. \A row \in hub'.pulls : row.mine => row = Pull(Base, TRUE)
      BY <3>1, <3>3
    <3>5. step'.pc # "post" /\ (step'.result.kind = "pull" =>
                                  step'.pc = "done" /\ step'.result.id = Pull(Base, TRUE).id)
      BY <2>2 DEF Broke, Gives
    <3> HIDE <2>2
    <3>6. \A row, other \in hub'.pulls : row.mine /\ other.mine => row.id = other.id
      BY <3>4
    <3>7. \E row \in hub'.pulls : row.mine
      BY <3>3
    <3>8. step'.result.kind = "pull" => \A row \in hub'.pulls : row.mine => row.id = step'.result.id
      BY <3>4, <3>5
    <3>9. did'.pull <= 1 /\ did'.pull # 0
      BY <3>2
    <3> QED BY <3>5, <3>6, <3>7, <3>8, <3>9 DEF Pulled
  <2> QED BY <1>3, <1>a, <2>1, <2>2, PostPullDoes
<1>4. ASSUME OthersPulls PROVE Pulled'
  <2>1. UNCHANGED <<op, step, did>>
    BY <1>4 DEF OthersPulls, Others
  <2>2. ASSUME \A row \in hub'.pulls :
                 row.mine => \E old \in hub.pulls : old.mine /\ old.id = row.id,
               \A old \in hub.pulls : old.mine => \E row \in hub'.pulls : row.mine
        PROVE  Pulled'
    BY <1>k, <1>q, <2>1, <2>2 DEF Pulled
  <2>3. ASSUME NEW base \in {Base, "other"},
               hub' = [hub EXCEPT !.pulls = @ \cup {Pull(base, FALSE)}]
        PROVE  Pulled'
    <3>1. hub'.pulls = hub.pulls \cup {Pull(base, FALSE)} /\ ~Pull(base, FALSE).mine
      BY <1>a, <2>3, PullIsRow DEF Typed, Hubs
    <3> QED BY <2>2, <3>1
  <2>4. ASSUME NEW r \in hub.pulls, NEW row, row.mine = r.mine, row.id = r.id,
               hub' = [hub EXCEPT !.pulls = (@ \ {r}) \cup {row}]
        PROVE  Pulled'
    <3>1. hub'.pulls = (hub.pulls \ {r}) \cup {row}
      BY <1>a, <2>4 DEF Typed, Hubs
    <3> QED BY <2>2, <2>4, <3>1
  <2>5. \A r \in hub.pulls : /\ [r EXCEPT !.open = FALSE].mine = r.mine
                            /\ [r EXCEPT !.open = FALSE].id = r.id
    BY <1>a DEF Typed, Hubs, Rows
  <2>6. \A r \in hub.pulls, base \in {Base, "other"} : /\ [r EXCEPT !.base = base].mine = r.mine
                                                      /\ [r EXCEPT !.base = base].id = r.id
    BY <1>a DEF Typed, Hubs, Rows
  <2>7. \/ \E base \in {Base, "other"} : hub' = [hub EXCEPT !.pulls = @ \cup {Pull(base, FALSE)}]
        \/ \E r \in hub.pulls :
              hub' = [hub EXCEPT !.pulls = (@ \ {r}) \cup {[r EXCEPT !.open = FALSE]}]
        \/ \E r \in hub.pulls, base \in {Base, "other"} :
              hub' = [hub EXCEPT !.pulls = (@ \ {r}) \cup {[r EXCEPT !.base = base]}]
    BY <1>4 DEF OthersPulls
  <2>8. CASE \E base \in {Base, "other"} : hub' = [hub EXCEPT !.pulls = @ \cup {Pull(base, FALSE)}]
    BY <2>3, <2>8
  <2>9. CASE \E r \in hub.pulls :
               hub' = [hub EXCEPT !.pulls = (@ \ {r}) \cup {[r EXCEPT !.open = FALSE]}]
    BY <2>4, <2>5, <2>9
  <2>10. CASE \E r \in hub.pulls, base \in {Base, "other"} :
               hub' = [hub EXCEPT !.pulls = (@ \ {r}) \cup {[r EXCEPT !.base = base]}]
    <3>1. PICK r \in hub.pulls, base \in {Base, "other"} :
            hub' = [hub EXCEPT !.pulls = (@ \ {r}) \cup {[r EXCEPT !.base = base]}]
      BY <2>10
    <3>2. [r EXCEPT !.base = base].mine = r.mine /\ [r EXCEPT !.base = base].id = r.id
      BY <2>6
    <3> QED BY <2>4, <3>1, <3>2
  <2> QED BY <2>7, <2>8, <2>9, <2>10
<1>5. ASSUME UNCHANGED vars PROVE Pulled'
  BY <1>5, <1>q DEF vars, Pulled
<1>o. /\ ~ReadComments /\ ~PostComment /\ ~ResolveThread /\ ~ReadState /\ ~PatchState /\ ~ReadAlert
      /\ ~PatchAlert /\ ~ReadParent /\ ~ListIssues /\ ~PostIssue /\ ~ReadChild /\ ~LinkIssue
      /\ ~ReadEdited /\ ~PatchPull /\ ~ReadMerge /\ ~Put /\ ~PutRefused /\ ~RereadMerge
      /\ ~ConfirmMerge /\ ~ListRuns /\ ~Discuss /\ ~OthersPull
      /\ \A r : ~Rerun(r) /\ ~OthersRerun(r) /\ ~RunEnds(r)
  BY <1>k, OfItsKind DEF Commenting
<1> QED BY <1>1, <1>2, <1>3, <1>4, <1>5, <1>o DEF Next

\* A state is patched again only after others changed it back.
LEMMA StateAgainStep ==
  ASSUME WriteInv, [Next]_vars
  PROVE  StateAgain'
PROOF
<1> SUFFICES ASSUME op.kind = "issue.state"
             PROVE  StateAgain'
  BY AskedStays DEF StateAgain
<1>k. op.kind = "issue.state" /\ op' = op
  BY AskedStays
<1>a. Typed /\ (Fails => Broke)
  BY Goings DEF WriteInv
<1>q. Quiet /\ StateAgain /\ op' = op
  BY AskedStays DEF WriteInv, Undone
<1>1. ASSUME Break PROVE StateAgain'
  BY <1>1, <1>a, <1>q DEF Break, Reads, Broke, StateAgain, Allowed, Typed, Counters, Hubs, Asked
<1>2. ASSUME ReadComments PROVE StateAgain'
  BY <1>2, <1>a, <1>q, ReadCommentsDoes DEF Reads, Broke, Stays, Gives, Posted, StateAgain,
     Allowed, Typed, Counters, Hubs, Asked
<1>3. ASSUME PostComment PROVE StateAgain'
  BY <1>3, <1>a, <1>q, PostCommentDoes DEF Reads, Broke, Stays, Gives, Posted, StateAgain,
     Allowed, Typed, Counters, Hubs, Asked
<1>4. ASSUME ReadState PROVE StateAgain'
  BY <1>4, <1>a, <1>q, ReadStateDoes DEF Reads, Broke, Stays, Gives, StateAgain, Allowed, Typed,
     Counters, Hubs, Asked
<1>5. ASSUME PatchState PROVE StateAgain'
  BY <1>5, <1>a, <1>q, PatchStateDoes DEF Reads, Broke, Stays, Gives, StateAgain, Allowed,
     Typed, Counters, Hubs, Asked
<1>6. ASSUME Discuss PROVE StateAgain'
  BY <1>6, <1>a, <1>q DEF Discuss, Others, StateAgain, Allowed, Typed, Counters, Hubs, Asked
<1>7. ASSUME UNCHANGED vars PROVE StateAgain'
  BY <1>7, <1>q DEF vars, StateAgain, Allowed
<1>o. /\ ~ResolveThread /\ ~ReadAlert /\ ~PatchAlert /\ ~ReadParent /\ ~ListIssues /\ ~PostIssue
      /\ ~ReadChild /\ ~LinkIssue /\ ~ListPulls /\ ~PostPull /\ ~ReadEdited /\ ~PatchPull
      /\ ~ReadMerge /\ ~Put /\ ~PutRefused /\ ~RereadMerge /\ ~ConfirmMerge /\ ~ListRuns
      /\ ~OthersPulls /\ ~OthersPull
      /\ \A r : ~Rerun(r) /\ ~OthersRerun(r) /\ ~RunEnds(r)
  BY <1>k, OfItsKind DEF Commenting
<1> QED BY <1>1, <1>2, <1>3, <1>4, <1>5, <1>6, <1>7, <1>o DEF Next

\* So is an alert,
LEMMA AlertAgainStep ==
  ASSUME WriteInv, [Next]_vars
  PROVE  AlertAgain'
PROOF
<1> SUFFICES ASSUME op.kind = "alert.dismiss"
             PROVE  AlertAgain'
  BY AskedStays DEF AlertAgain
<1>k. op.kind = "alert.dismiss" /\ op' = op
  BY AskedStays
<1>a. Typed /\ (Fails => Broke)
  BY Goings DEF WriteInv
<1>q. Quiet /\ AlertAgain /\ op' = op
  BY AskedStays DEF WriteInv, Undone
<1>1. ASSUME Break PROVE AlertAgain'
  BY <1>1, <1>a, <1>q DEF Break, Reads, Broke, AlertAgain, Allowed, AlertSettled, Typed,
     Counters, Hubs
<1>2. ASSUME ReadAlert PROVE AlertAgain'
  BY <1>2, <1>a, <1>q, ReadAlertDoes DEF Reads, Broke, Stays, Gives, AlertAgain, Allowed,
     AlertSettled, Typed, Counters, Hubs
<1>3. ASSUME PatchAlert PROVE AlertAgain'
  BY <1>3, <1>a, <1>q, PatchAlertDoes DEF Reads, Broke, Stays, Gives, AlertAgain, Allowed,
     AlertSettled, Typed, Counters, Hubs
<1>4. ASSUME Discuss PROVE AlertAgain'
  BY <1>4, <1>a, <1>q DEF Discuss, Others, AlertAgain, Allowed, AlertSettled, Typed, Counters,
     Hubs
<1>5. ASSUME UNCHANGED vars PROVE AlertAgain'
  BY <1>5, <1>q DEF vars, AlertAgain, Allowed
<1>o. /\ ~ReadComments /\ ~PostComment /\ ~ResolveThread /\ ~ReadState /\ ~PatchState /\ ~ReadParent
      /\ ~ListIssues /\ ~PostIssue /\ ~ReadChild /\ ~LinkIssue /\ ~ListPulls /\ ~PostPull
      /\ ~ReadEdited /\ ~PatchPull /\ ~ReadMerge /\ ~Put /\ ~PutRefused /\ ~RereadMerge
      /\ ~ConfirmMerge /\ ~ListRuns /\ ~OthersPulls /\ ~OthersPull
      /\ \A r : ~Rerun(r) /\ ~OthersRerun(r) /\ ~RunEnds(r)
  BY <1>k, OfItsKind DEF Commenting
<1> QED BY <1>1, <1>2, <1>3, <1>4, <1>5, <1>o DEF Next

\* a title
LEMMA TitleAgainStep ==
  ASSUME WriteInv, [Next]_vars
  PROVE  TitleAgain'
PROOF
<1> SUFFICES ASSUME op.kind = "pr.edit"
             PROVE  TitleAgain'
  BY AskedStays DEF TitleAgain
<1>k. op.kind = "pr.edit" /\ op' = op
  BY AskedStays
<1>a. Typed /\ (Fails => Broke)
  BY Goings DEF WriteInv
<1>q. Quiet /\ TitleAgain /\ op' = op
  BY AskedStays DEF WriteInv, Undone
<1>1. ASSUME Break PROVE TitleAgain'
  BY <1>1, <1>a, <1>q DEF Break, Reads, Broke, TitleAgain, Allowed, Typed, Counters, Hubs,
     PullRequests
<1>2. ASSUME ReadEdited PROVE TitleAgain'
  BY <1>2, <1>a, <1>q, ReadEditedDoes DEF Reads, Broke, Stays, Gives, TitleAgain, Allowed,
     Typed, Counters, Hubs, PullRequests
<1>3. ASSUME PatchPull PROVE TitleAgain'
  BY <1>3, <1>a, <1>q, PatchPullDoes DEF Reads, Broke, Stays, Gives, TitleAgain, Allowed, Typed,
     Counters, Hubs, PullRequests
<1>4. ASSUME OthersPull PROVE TitleAgain'
  BY <1>4, <1>a, <1>q
  DEF OthersPull, Others, TitleAgain, Allowed, Typed, Counters, Hubs, PullRequests
<1>5. ASSUME UNCHANGED vars PROVE TitleAgain'
  BY <1>5, <1>q DEF vars, TitleAgain, Allowed
<1>o. /\ ~ReadComments /\ ~PostComment /\ ~ResolveThread /\ ~ReadState /\ ~PatchState /\ ~ReadAlert
      /\ ~PatchAlert /\ ~ReadParent /\ ~ListIssues /\ ~PostIssue /\ ~ReadChild /\ ~LinkIssue
      /\ ~ListPulls /\ ~PostPull /\ ~ReadMerge /\ ~Put /\ ~PutRefused /\ ~RereadMerge
      /\ ~ConfirmMerge /\ ~ListRuns /\ ~Discuss /\ ~OthersPulls
      /\ \A r : ~Rerun(r) /\ ~OthersRerun(r) /\ ~RunEnds(r)
  BY <1>k, OfItsKind DEF Commenting
<1> QED BY <1>1, <1>2, <1>3, <1>4, <1>5, <1>o DEF Next

\* and a thread that was unresolved.
LEMMA ThreadAgainStep ==
  ASSUME WriteInv, [Next]_vars
  PROVE  ThreadAgain'
PROOF
<1> SUFFICES ASSUME op.kind = "thread.reply"
             PROVE  ThreadAgain'
  BY AskedStays DEF ThreadAgain
<1>k. op.kind = "thread.reply" /\ op' = op
  BY AskedStays
<1>a. Typed /\ (Fails => Broke)
  BY Goings DEF WriteInv
<1>q. Quiet /\ ThreadAgain /\ op' = op
  BY AskedStays DEF WriteInv, Undone
<1>1. ASSUME Break PROVE ThreadAgain'
  BY <1>1, <1>a, <1>q DEF Break, Reads, Broke, ThreadAgain, Allowed, Typed, Counters, Hubs
<1>2. ASSUME ReadComments PROVE ThreadAgain'
  BY <1>2, <1>a, <1>q, ReadCommentsDoes DEF Reads, Broke, Stays, Gives, Posted, ThreadAgain,
     Allowed, Typed, Counters, Hubs
<1>3. ASSUME PostComment PROVE ThreadAgain'
  BY <1>3, <1>a, <1>q, PostCommentDoes DEF Reads, Broke, Stays, Gives, Posted, ThreadAgain,
     Allowed, Typed, Counters, Hubs
<1>4. ASSUME ResolveThread PROVE ThreadAgain'
  BY <1>4, <1>a, <1>q, ResolveThreadDoes DEF Reads, Broke, Stays, Gives, ThreadAgain, Allowed,
     Typed, Counters, Hubs
<1>5. ASSUME Discuss PROVE ThreadAgain'
  BY <1>5, <1>a, <1>q DEF Discuss, Others, ThreadAgain, Allowed, Typed, Counters, Hubs
<1>6. ASSUME UNCHANGED vars PROVE ThreadAgain'
  BY <1>6, <1>q DEF vars, ThreadAgain, Allowed
<1>o. /\ ~ReadState /\ ~PatchState /\ ~ReadAlert /\ ~PatchAlert /\ ~ReadParent /\ ~ListIssues
      /\ ~PostIssue /\ ~ReadChild /\ ~LinkIssue /\ ~ListPulls /\ ~PostPull /\ ~ReadEdited
      /\ ~PatchPull /\ ~ReadMerge /\ ~Put /\ ~PutRefused /\ ~RereadMerge /\ ~ConfirmMerge
      /\ ~ListRuns /\ ~OthersPulls /\ ~OthersPull
      /\ \A r : ~Rerun(r) /\ ~OthersRerun(r) /\ ~RunEnds(r)
  BY <1>k, OfItsKind DEF Commenting
<1> QED BY <1>1, <1>2, <1>3, <1>4, <1>5, <1>6, <1>o DEF Next

-----------------------------------------------------------------------------
(* The theorems                                                            *)

LEMMA InitInvariant ==
  ASSUME Init
  PROVE  WriteInv
PROOF
<1>1. /\ op \in Asked /\ theirs = 0
      /\ step = [pc |-> "start", try |-> 1, fresh |-> FALSE, resolved |-> FALSE,
                 status |-> "none", left |-> {}, result |-> Nothing]
      /\ did = [comment |-> 0, issue |-> 0, link |-> 0, pull |-> 0, state |-> 0, alert |-> 0,
                edit |-> 0, merge |-> 0, resolve |-> 0, rerun |-> [r \in Runs |-> 0]]
  BY DEF Init, Fresh
<1>2. /\ hub.comments = 0 /\ hub.issues = 0 /\ hub.pulls = {} /\ hub.parent = "none"
      /\ hub.runs = [r \in Runs |-> [attempt |-> 1, status |-> "failed"]]
  BY DEF Init
<1>3. hub \in Hubs
  <2>a. hub.resolved \in BOOLEAN /\ hub.exists \in BOOLEAN
    BY <1>1 DEF Init, Asked
  <2>b. hub.state \in {"open", "closed"} /\ hub.alert \in {"open", "dismissed", "fixed"}
    BY DEF Init
  <2>c. hub.pr \in PullRequests
    BY DEF Init, PullRequests
  <2>1. /\ hub.resolved \in BOOLEAN /\ hub.state \in {"open", "closed"} /\ hub.exists \in BOOLEAN
        /\ hub.alert \in {"open", "dismissed", "fixed"} /\ hub.pr \in PullRequests
    BY <2>a, <2>b, <2>c
  <2>2. hub.runs \in [Runs -> [attempt : Nat, status : {"failed", "running", "passed"}]]
    BY <1>2
  <2>3. hub = [comments |-> hub.comments, resolved |-> hub.resolved, state |-> hub.state,
               issues |-> hub.issues, parent |-> hub.parent, exists |-> hub.exists,
               pulls |-> hub.pulls, pr |-> hub.pr, alert |-> hub.alert, runs |-> hub.runs]
    BY DEF Init
  <2> QED BY <1>2, <2>1, <2>2, <2>3 DEF Hubs
<1>4. Typed
  <2>1. step \in Steps
    BY <1>1, ResultsAre, WritesAssumption DEF Steps, Places
  <2>2. did \in Counters
    BY <1>1 DEF Counters
  <2> QED BY <1>1, <1>2, <1>3, <2>1, <2>2, FS_EmptySet, WritesAssumption DEF Typed
<1>5. Quiet
  BY <1>1 DEF Quiet, Nothing
<1>6. Comments
  BY <1>1, <1>2 DEF Comments, Nothing
<1>7. Undone
  BY <1>1 DEF Undone, StateAgain, AlertAgain, TitleAgain, ThreadAgain, Allowed
<1>8. Issues
  BY <1>1, <1>2 DEF Issues, Nothing
<1>9. Pulled
  BY <1>1, <1>2 DEF Pulled, Nothing
<1>10. Merged
  BY <1>1 DEF Merged, Nothing
<1>11. RerunOnce
  BY <1>1, <1>2 DEF RerunOnce, Asked
<1> QED BY <1>4, <1>5, <1>6, <1>7, <1>8, <1>9, <1>10, <1>11 DEF WriteInv

\* Wherever the step's attempt is, what GitHub holds fits what the attempt read and did: WriteInv
\* holds in every state, however often an attempt breaks and whatever others do in between.
THEOREM WriteInvariant ==
  Spec => []WriteInv
PROOF
<1>1. Init => WriteInv
  BY InitInvariant
<1>2. WriteInv /\ [Next]_vars => WriteInv'
  <2> SUFFICES ASSUME WriteInv, [Next]_vars PROVE WriteInv'
    OBVIOUS
  <2>1. Typed'
    BY TypedStep DEF WriteInv
  <2>2. Quiet' /\ Comments'
    BY QuietStep, CommentsStep
  <2>3. Undone'
    BY StateAgainStep, AlertAgainStep, TitleAgainStep, ThreadAgainStep DEF Undone
  <2>4. Issues' /\ Pulled' /\ Merged' /\ RerunOnce'
    BY IssuesStep, PulledStep, MergedStep, RerunOnceStep
  <2> QED BY <2>1, <2>2, <2>3, <2>4 DEF WriteInv
<1> QED BY <1>1, <1>2, PTL DEF Spec

\* However often its attempts break after a write that GitHub committed, a step posts one comment,
\* creates one issue with one link and one pull request, merges once and reruns a run of its map
\* once; what others undid it does again at most once for each time.
THEOREM AlwaysWritesOnce ==
  Spec => []WritesOnce
PROOF
<1>1. WriteInv => WritesOnce
  <2> SUFFICES ASSUME WriteInv PROVE WritesOnce
    OBVIOUS
  <2>1. Typed
    BY DEF WriteInv
  <2>2. TypeOK
    BY <2>1 DEF Typed, TypeOK, Steps, Places, Hubs, PullRequests
  <2>3. did.comment <= 1
    BY <2>1 DEF WriteInv, Comments, Quiet, Typed, Counters, Hubs
  <2>4. did.issue <= 1 /\ did.link <= 1
    BY <2>1 DEF WriteInv, Issues, Quiet, Typed, Counters, Hubs
  <2>5. did.pull <= 1 /\ did.merge <= 1
    BY <2>1 DEF WriteInv, Pulled, Merged, Quiet, Typed, Counters
  <2>6. /\ did.state <= 1 + theirs /\ did.alert <= 1 + theirs
        /\ did.edit <= 1 + theirs /\ did.resolve <= 1 + theirs
    <3>1. theirs \in Nat /\ did \in Counters
      BY <2>1 DEF Typed
    <3>2. did.state <= 1 + theirs
      BY <3>1 DEF WriteInv, Undone, StateAgain, Allowed, Quiet, Counters
    <3>3. did.alert <= 1 + theirs
      BY <3>1 DEF WriteInv, Undone, AlertAgain, Allowed, Quiet, Counters
    <3>4. did.edit <= 1 + theirs
      BY <3>1 DEF WriteInv, Undone, TitleAgain, Allowed, Quiet, Counters
    <3>5. did.resolve <= 1 + theirs
      BY <3>1 DEF WriteInv, Undone, ThreadAgain, Allowed, Quiet, Counters
    <3> QED BY <3>2, <3>3, <3>4, <3>5
  <2>7. op.kind = "rerunFailed" => \A r \in op.mapped : did.rerun[r] <= 1
    BY DEF WriteInv, RerunOnce
  <2> QED BY <2>2, <2>3, <2>4, <2>5, <2>6, <2>7 DEF WritesOnce
<1> QED BY <1>1, WriteInvariant, PTL

\* An issue that the step closed or reopened carries the step's comment; and no issue is left
\* behind for a parent that does not exist.
THEOREM AlwaysNothingIsLost ==
  Spec => []NothingIsLost
PROOF
<1>1. WriteInv => NothingIsLost
  BY DEF WriteInv, Comments, Commenting, Issues, NothingIsLost
<1> QED BY <1>1, WriteInvariant, PTL

\* What the step returns is true of the repository and of all its attempts: a merge that it tells
\* of is there, at the head that was named, and one that it denies none of its attempts made.
THEOREM AlwaysOutcomesAreTrue ==
  Spec => []OutcomesAreTrue
PROOF
<1>1. WriteInv => OutcomesAreTrue
  <2> SUFFICES ASSUME WriteInv PROVE OutcomesAreTrue
    OBVIOUS
  <2>1. step.result.kind = "merge" =>
          IF step.result.merged THEN hub.pr.state = "merged" /\ hub.pr.head = Sha
          ELSE did.merge = 0
    BY DEF WriteInv, Merged, Quiet
  <2>2. step.result.kind = "issue" => hub.issues = 1 /\ (op.parent => hub.parent = "wanted")
    BY DEF WriteInv, Issues, Quiet
  <2>3. step.result.kind = "pull" => \A r \in hub.pulls : r.mine => step.result.id = r.id
    BY DEF WriteInv, Pulled, Quiet
  <2>4. step.result.kind \in {"commented", "replied"} => hub.comments = 1
    BY DEF WriteInv, Comments, Commenting, Quiet
  <2> QED BY <2>1, <2>2, <2>3, <2>4 DEF OutcomesAreTrue
<1> QED BY <1>1, WriteInvariant, PTL

-----------------------------------------------------------------------------
(* ProcessRun: the inductive invariant                                       *)

Failures == {"none", "spawn", "abort", "deadline", "idle", "limit", "pipe", "consumer",
             "registration", "stuck", "stalled"}
TimerNames == {"deadline", "idle", "poll", "escalation", "backstop", "drain", "delivery"}
CallStates == [failure: Failures, settled: BOOLEAN, exited: BOOLEAN, ended: SUBSET Pipes,
               truncated: BOOLEAN, reaped: BOOLEAN, gone: BOOLEAN, cleaning: BOOLEAN,
               fed: BOOLEAN, idleArmed: BOOLEAN, timers: SUBSET TimerNames]

\* What surrounds the call. A number is used again only when its group is gone.
Surroundings ==
    /\ os \in [leader: {"none", "alive", "dead"}, kin: BOOLEAN, foreign: BOOLEAN]
    /\ os.foreign => ~GroupAlive
    /\ pipe \in [Pipes -> [unread: Nat, shut: BOOLEAN]]
    /\ queue \in [Pipes -> Nat] /\ wrote \in 0..MaxChunks
    /\ req \in [stream: BOOLEAN, idle: BOOLEAN, track: BOOLEAN]
    /\ reg \in {"none", "pending", "held", "failed", "released", "kept"}
    /\ sent \subseteq {"TERM", "KILL", "blind"}
    /\ fin \in {"no", "lease", "stalled", "resolved", "rejected"}

\* A group that counts as gone is gone, and one that a look has found gone counts as gone; one
\* that could not be started never was.
GoneIsGone(k) == /\ k.reaped => ~GroupAlive
                 /\ k.gone => k.reaped
                 /\ os.leader = "none" => k.reaped

\* A pipe that counts as ended was read to its end, or the output is marked as cut off.
ReadToTheEnd(k) ==
    \A p \in k.ended : k.truncated \/ (pipe[p].shut /\ pipe[p].unread = 0)

\* What an armed timer says: the drain of deliveries follows the exit, the group and the pipes,
\* the backstop follows SIGKILL or the end of the group, and neither deadline nor silence is
\* measured after the exit.
TimersMean(k, signals) ==
    /\ "delivery" \in k.timers => k.exited /\ k.reaped /\ k.ended = Pipes
    /\ "backstop" \in k.timers => ~GroupAlive \/ "KILL" \in signals
    /\ k.exited => "deadline" \notin k.timers /\ "idle" \notin k.timers

\* finish runs when the group is gone or was killed, and without a failure only when the leader has
\* exited and its pipes have ended or were cut off.
SettledWhole(k, signals) ==
    k.settled => /\ k.timers = {}
                 /\ ~GroupAlive \/ "KILL" \in signals
                 /\ k.failure = "none" => k.exited /\ (k.truncated \/ k.ended = Pipes)

\* What each callback leaves behind.
Sound(k, signals) ==
    /\ k \in CallStates
    /\ GoneIsGone(k) /\ ReadToTheEnd(k) /\ TimersMean(k, signals) /\ SettledWhole(k, signals)

\* What the asynchronous part of finish has established, and what its outcome stands for.
Finishing ==
    /\ fin # "no" => h.settled
    /\ fin = "lease" => ~Holding(queue)
    /\ fin = "stalled" => h.failure # "none"
    /\ reg = "released" => h.settled /\ h.reaped /\ ~Holding(queue)
    /\ fin = "resolved" => h.exited /\ (h.truncated \/ Whole)

ProcessInv == Surroundings /\ Sound(h, sent) /\ Finishing

\* What a callback that keeps to its own state never takes back.
Follows(k, l) ==
    /\ k.settled => l.settled
    /\ k.reaped => l.reaped
    /\ k.exited => l.exited
    /\ k.truncated => l.truncated
    /\ k.failure # "none" => l.failure # "none"

LEMMA CallFields ==
    ASSUME NEW k \in CallStates
    PROVE  /\ k.failure \in Failures /\ k.ended \subseteq Pipes /\ k.timers \subseteq TimerNames
           /\ k.settled \in BOOLEAN /\ k.exited \in BOOLEAN /\ k.truncated \in BOOLEAN
           /\ k.reaped \in BOOLEAN /\ k.gone \in BOOLEAN /\ k.cleaning \in BOOLEAN
           /\ k.fed \in BOOLEAN /\ k.idleArmed \in BOOLEAN
BY DEF CallStates

LEMMA FollowsItself ==
    ASSUME NEW k PROVE Follows(k, k)
BY DEF Follows

LEMMA FollowsOn ==
    ASSUME NEW k, NEW l, NEW m, Follows(k, l), Follows(l, m) PROVE Follows(k, m)
BY DEF Follows

\* More signals take nothing back.
LEMMA SoundWithMore ==
    ASSUME NEW k, NEW s, NEW t, Sound(k, s), s \subseteq t PROVE Sound(k, t)
BY DEF Sound, TimersMean, SettledWhole

\* Fewer timers, or one that says nothing, leave a call that is not settled sound.
LEMMA TimersSound ==
    ASSUME NEW k, NEW s, Sound(k, s), NEW timers \in SUBSET TimerNames,
           k.settled => timers = {},
           "delivery" \in timers \ k.timers => k.exited /\ k.reaped /\ k.ended = Pipes,
           "backstop" \in timers \ k.timers => ~GroupAlive \/ "KILL" \in s,
           k.exited => "deadline" \notin timers \ k.timers /\ "idle" \notin timers \ k.timers
    PROVE  Sound([k EXCEPT !.timers = timers], s)
PROOF
<1> DEFINE l == [k EXCEPT !.timers = timers]
<1>1. k \in CallStates BY DEF Sound
<1>2. /\ l \in CallStates /\ l.timers = timers /\ l.failure = k.failure
      /\ l.settled = k.settled /\ l.exited = k.exited /\ l.ended = k.ended
      /\ l.truncated = k.truncated /\ l.reaped = k.reaped /\ l.gone = k.gone
  BY <1>1 DEF CallStates
<1> HIDE DEF l
<1>3. GoneIsGone(l) BY <1>2 DEF Sound, GoneIsGone
<1>4. ReadToTheEnd(l) BY <1>2 DEF Sound, ReadToTheEnd
<1>5. TimersMean(l, s) BY <1>2 DEF Sound, TimersMean
<1>6. SettledWhole(l, s) BY <1>2 DEF Sound, SettledWhole
<1>7. Sound(l, s) BY <1>2, <1>3, <1>4, <1>5, <1>6 DEF Sound
<1> QED BY <1>7 DEF l

-----------------------------------------------------------------------------
(* The helpers of the callbacks keep a call sound                            *)

LEMMA FinishSound ==
    ASSUME NEW k, NEW s, Sound(k, s), ~GroupAlive \/ "KILL" \in s,
           k.failure = "none" => k.exited /\ (k.truncated \/ k.ended = Pipes)
    PROVE  /\ Sound(Finish(k), s) /\ Follows(k, Finish(k))
           /\ Finish(k).failure = k.failure
PROOF
<1> DEFINE l == Finish(k)
<1>1. k \in CallStates BY DEF Sound
<1>2. /\ l \in CallStates /\ l.timers = {} /\ l.failure = k.failure
      /\ l.settled = TRUE /\ l.exited = k.exited /\ l.ended = k.ended
      /\ l.truncated = k.truncated /\ l.reaped = k.reaped /\ l.gone = k.gone
  BY <1>1 DEF CallStates, Finish
<1> HIDE DEF l
<1>3. GoneIsGone(l) BY <1>2 DEF Sound, GoneIsGone
<1>4. ReadToTheEnd(l) BY <1>2 DEF Sound, ReadToTheEnd
<1>5. TimersMean(l, s) BY <1>2 DEF TimersMean
<1>6. SettledWhole(l, s) BY <1>2 DEF SettledWhole
<1>7. Sound(l, s) BY <1>2, <1>3, <1>4, <1>5, <1>6 DEF Sound
<1>8. Follows(k, l) BY <1>2 DEF Follows
<1> QED BY <1>2, <1>7, <1>8 DEF l

\* A call that is over already is kept, one whose deliveries hold it up arms their drain.
LEMMA MaybeFinishSound ==
    ASSUME NEW k, NEW s, NEW q, Sound(k, s)
    PROVE  /\ Sound(MaybeFinish(k, q), s) /\ Follows(k, MaybeFinish(k, q))
           /\ MaybeFinish(k, q).failure = k.failure
PROOF
<1>1. k \in CallStates BY DEF Sound
<1>2. CASE k.settled \/ ~k.exited \/ ~k.reaped \/ k.ended # Pipes
  <2>1. MaybeFinish(k, q) = k BY <1>2 DEF MaybeFinish
  <2> QED BY <2>1, FollowsItself
<1>3. CASE ~k.settled /\ k.exited /\ k.reaped /\ k.ended = Pipes /\ ~Holding(q)
  <2>1. MaybeFinish(k, q) = Finish(k) BY <1>3 DEF MaybeFinish
  <2>2. ~GroupAlive BY <1>3 DEF Sound, GoneIsGone
  <2>3. /\ Sound(Finish(k), s) /\ Follows(k, Finish(k))
        /\ Finish(k).failure = k.failure
    BY <1>3, <2>2, FinishSound
  <2> QED BY <2>1, <2>3
<1>4. CASE ~k.settled /\ k.exited /\ k.reaped /\ k.ended = Pipes /\ Holding(q)
  <2> DEFINE timers == k.timers \cup {"delivery"}
  <2>1. MaybeFinish(k, q) = [k EXCEPT !.timers = timers] BY <1>4 DEF MaybeFinish
  <2>2. timers \in SUBSET TimerNames BY <1>1, CallFields DEF TimerNames
  <2>3. Sound([k EXCEPT !.timers = timers], s)
    BY <1>4, <2>2, TimersSound
  <2>4. /\ Follows(k, [k EXCEPT !.timers = timers])
        /\ [k EXCEPT !.timers = timers].failure = k.failure
    BY <1>1 DEF CallStates, Follows
  <2> QED BY <2>1, <2>3, <2>4
<1> QED BY <1>2, <1>3, <1>4

\* The fields a look at the group leaves alone.
Looked(k, l) ==
    /\ l.failure = k.failure /\ l.settled = k.settled /\ l.cleaning = k.cleaning
    /\ l.exited = k.exited /\ l.ended = k.ended /\ l.timers = k.timers

\* A look that finds the group gone is right.
LEMMA GoneSound ==
    ASSUME NEW k, NEW s, Sound(k, s), ~GroupAlive
    PROVE  Sound(Gone(k), s) /\ Follows(k, Gone(k)) /\ Looked(k, Gone(k))
PROOF
<1> DEFINE l == Gone(k)
<1>1. k \in CallStates BY DEF Sound
<1>2. /\ l \in CallStates /\ l.timers = k.timers /\ l.failure = k.failure
      /\ l.settled = k.settled /\ l.exited = k.exited /\ l.ended = k.ended
      /\ l.truncated = k.truncated /\ l.reaped = TRUE /\ l.gone = TRUE /\ l.cleaning = k.cleaning
  BY <1>1 DEF CallStates, Gone
<1> HIDE DEF l
<1>3. GoneIsGone(l) BY <1>2 DEF GoneIsGone
<1>4. ReadToTheEnd(l) BY <1>2 DEF Sound, ReadToTheEnd
<1>5. TimersMean(l, s) BY <1>2 DEF Sound, TimersMean
<1>6. SettledWhole(l, s) BY <1>2 DEF Sound, SettledWhole
<1>7. Sound(l, s) BY <1>2, <1>3, <1>4, <1>5, <1>6 DEF Sound
<1>8. Follows(k, l) BY <1>2 DEF Follows
<1> QED BY <1>2, <1>7, <1>8 DEF l, Looked

LEMMA RefreshSound ==
    ASSUME NEW k, NEW s, Sound(k, s), NEW seen \in Refresh(k)
    PROVE  Sound(seen, s) /\ Follows(k, seen) /\ Looked(k, seen)
PROOF
<1>1. CASE seen = k
  BY <1>1, FollowsItself DEF Looked
<1>2. CASE seen # k
  <2>1. ~GroupAlive /\ seen = Gone(k)
    BY <1>2 DEF Refresh
  <2> QED BY <2>1, GoneSound
<1> QED BY <1>1, <1>2

\* refresh, then maybeFinish.
LEMMA AgainSound ==
    ASSUME NEW k, NEW s, NEW q, Sound(k, s), NEW l \in Again(k, q)
    PROVE  Sound(l, s) /\ Follows(k, l) /\ l.failure = k.failure
PROOF
<1>1. PICK seen \in Refresh(k) : l = MaybeFinish(seen, q) BY DEF Again
<1>2. Sound(seen, s) /\ Follows(k, seen) /\ Looked(k, seen) BY RefreshSound
<1>3. Sound(l, s) /\ Follows(seen, l) /\ l.failure = seen.failure BY <1>1, <1>2, MaybeFinishSound
<1> QED BY <1>2, <1>3, FollowsOn DEF Looked

\* kill may recognise a number that is used again, and then counts the group as gone.
LEMMA RecognisedSound ==
    ASSUME NEW k, NEW s, Sound(k, s), Surroundings, NEW known \in Recognised(k)
    PROVE  Sound(known, s) /\ Follows(k, known) /\ Looked(k, known)
PROOF
<1>1. CASE known = k
  BY <1>1, FollowsItself DEF Looked
<1>2. CASE known # k
  <2>1. os.foreign /\ known = Gone(k) BY <1>2 DEF Recognised
  <2>2. ~GroupAlive BY <2>1 DEF Surroundings
  <2> QED BY <2>1, <2>2, GoneSound
<1> QED BY <1>1, <1>2

\* What a signal finds, of the group and of its leader.
LEMMA LooksSound ==
    ASSUME NEW k, NEW s, Sound(k, s), Surroundings, NEW known \in Looks(k)
    PROVE  Sound(known, s) /\ Follows(k, known) /\ Looked(k, known)
PROOF
<1>1. PICK seen \in Refresh(k) : known \in (IF seen.reaped THEN {seen} ELSE Recognised(seen))
  BY DEF Looks
<1>2. Sound(seen, s) /\ Follows(k, seen) /\ Looked(k, seen) BY RefreshSound
<1>3. Sound(known, s) /\ Follows(seen, known) /\ Looked(seen, known)
  <2>1. CASE seen.reaped BY <1>1, <1>2, <2>1, FollowsItself DEF Looked
  <2>2. CASE ~seen.reaped BY <1>1, <1>2, <2>2, RecognisedSound
  <2> QED BY <2>1, <2>2
<1> QED BY <1>2, <1>3, FollowsOn DEF Looked

\* What a callback that starts from the call k leaves behind.
Leaves(k) ==
    /\ Sound(h', sent') /\ Follows(k, h')
    /\ sent \subseteq sent' /\ sent' \subseteq {"TERM", "KILL", "blind"}

LEMMA QuietlyLeaves ==
    ASSUME Surroundings, NEW k, NEW l, Sound(l, sent), Follows(k, l), h' = l, sent' = sent
    PROVE  Leaves(k)
BY DEF Leaves, Surroundings

\* No signal goes to the number of a group that a look has found gone, and one to a group that is
\* alive arrives.
LEMMA SignalsSound ==
    ASSUME Surroundings, NEW k, Sound(k, sent), NEW signal \in {"TERM", "KILL"},
           Signals(k, signal)
    PROVE  /\ sent \subseteq sent' /\ sent' \subseteq {"TERM", "KILL", "blind"}
           /\ ~GroupAlive \/ signal \in sent'
PROOF
<1>1. (k.reaped => ~GroupAlive) /\ (k.gone => k.reaped) BY DEF Sound, GoneIsGone
<1>2. (os.foreign => ~GroupAlive) /\ sent \subseteq {"TERM", "KILL", "blind"}
  BY DEF Surroundings
<1>3. CASE k.reaped BY <1>1, <1>2, <1>3 DEF Signals
<1>4. CASE ~k.reaped /\ ~os.foreign BY <1>2, <1>4 DEF Signals
<1>5. CASE ~k.reaped /\ os.foreign
  <2>1. sent' = sent \cup {"blind"} BY <1>1, <1>5 DEF Signals
  <2> QED BY <1>2, <1>5, <2>1
<1> QED BY <1>3, <1>4, <1>5

\* beginCleanup, with or without the look of the exit after it, whatever they find.
LEMMA CleanupThenLeaves ==
    ASSUME Surroundings, NEW k, NEW q, NEW again \in BOOLEAN, Sound(k, sent),
           CleanupThen(k, q, again)
    PROVE  Leaves(k) /\ h'.failure = k.failure
PROOF
<1>1. k \in CallStates /\ k.settled \in BOOLEAN /\ k.cleaning \in BOOLEAN
  BY DEF Sound, CallStates
<1>2. CASE k.cleaning \/ k.settled
  <2>1. h' \in (IF again THEN Again(k, q) ELSE {k}) /\ sent' = sent
    BY <1>2 DEF CleanupThen, Quietly
  <2>2. Sound(h', sent) /\ Follows(k, h') /\ h'.failure = k.failure
    BY <2>1, AgainSound, FollowsItself
  <2> QED BY <2>1, <2>2, QuietlyLeaves
<1>3. CASE ~(k.cleaning \/ k.settled)
  <2> DEFINE cleaning == [k EXCEPT !.cleaning = TRUE]
             Begun(known) == MaybeFinish([known EXCEPT !.timers = @ \cup {"poll", "escalation"}], q)
  <2>1. PICK known \in Looks(cleaning) :
          /\ h' \in (IF again THEN Again(Begun(known), q) ELSE {Begun(known)})
          /\ Signals(known, "TERM")
    BY <1>3, Zenon DEF CleanupThen
  <2>2. Sound(cleaning, sent) /\ Follows(k, cleaning) /\ cleaning.failure = k.failure
        /\ ~cleaning.settled
    <3>1. /\ cleaning \in CallStates /\ cleaning.timers = k.timers
          /\ cleaning.failure = k.failure /\ cleaning.settled = k.settled
          /\ cleaning.exited = k.exited /\ cleaning.ended = k.ended
          /\ cleaning.truncated = k.truncated /\ cleaning.reaped = k.reaped
          /\ cleaning.gone = k.gone
      BY <1>1 DEF CallStates
    <3> HIDE DEF cleaning
    <3> QED
      BY <1>3, <3>1 DEF Sound, Follows, GoneIsGone, ReadToTheEnd, TimersMean, SettledWhole
  <2>3. Sound(known, sent) /\ Follows(cleaning, known) /\ Looked(cleaning, known)
    BY <2>1, <2>2, LooksSound
  <2> HIDE DEF cleaning
  <2>4. known \in CallStates /\ ~known.settled /\ known.failure = k.failure /\ Follows(k, known)
    BY <2>2, <2>3, FollowsOn DEF Sound, Looked
  <2>5. sent \subseteq sent' /\ sent' \subseteq {"TERM", "KILL", "blind"}
    BY <2>1, <2>3, SignalsSound
  <2> DEFINE timers == known.timers \cup {"poll", "escalation"}
             armed == [known EXCEPT !.timers = timers]
             begun == Begun(known)
  <2>6. begun = MaybeFinish(armed, q) OBVIOUS
  <2>7. timers \in SUBSET TimerNames BY <2>4, CallFields DEF TimerNames
  <2>8. Sound([known EXCEPT !.timers = timers], sent) BY <2>3, <2>4, <2>7, TimersSound
  <2>9. Follows(known, armed) /\ armed.failure = known.failure
    BY <2>4 DEF CallStates, Follows
  <2>10. Sound(armed, sent) BY <2>8
  <2> HIDE DEF timers, armed
  <2>11. Sound(begun, sent) /\ Follows(armed, begun) /\ begun.failure = armed.failure
    BY <2>6, <2>10, MaybeFinishSound
  <2>12. h' \in (IF again THEN Again(begun, q) ELSE {begun}) BY <2>1
  <2> HIDE DEF begun, Begun
  <2>13. Sound(h', sent) /\ Follows(begun, h') /\ h'.failure = begun.failure
    BY <2>11, <2>12, AgainSound, FollowsItself
  <2>14. Sound(h', sent') BY <2>5, <2>13, SoundWithMore
  <2>15. Follows(k, h') BY <2>4, <2>9, <2>11, <2>13, FollowsOn
  <2> QED BY <2>4, <2>5, <2>9, <2>11, <2>13, <2>14, <2>15 DEF Leaves
<1> QED BY <1>2, <1>3

LEMMA CleanupLeaves ==
    ASSUME Surroundings, NEW k, NEW q, Sound(k, sent), Cleanup(k, q)
    PROVE  Leaves(k) /\ h'.failure = k.failure
BY CleanupThenLeaves DEF Cleanup

\* A failure, the first or one that replaces it, leaves a call sound.
LEMMA FailureSound ==
    ASSUME NEW k, NEW s, Sound(k, s), NEW failure \in Failures \ {"none"}
    PROVE  /\ Sound([k EXCEPT !.failure = failure], s)
           /\ Follows(k, [k EXCEPT !.failure = failure])
           /\ [k EXCEPT !.failure = failure].failure = failure
PROOF
<1> DEFINE l == [k EXCEPT !.failure = failure]
<1>1. k \in CallStates BY DEF Sound
<1>2. /\ l \in CallStates /\ l.timers = k.timers /\ l.failure = failure
      /\ l.settled = k.settled /\ l.exited = k.exited /\ l.ended = k.ended
      /\ l.truncated = k.truncated /\ l.reaped = k.reaped /\ l.gone = k.gone
  BY <1>1 DEF CallStates
<1> HIDE DEF l
<1>3. failure # "none" OBVIOUS
<1>4. Sound(l, s)
  BY <1>2, <1>3 DEF Sound, GoneIsGone, ReadToTheEnd, TimersMean, SettledWhole
<1>5. Follows(k, l) BY <1>2, <1>3 DEF Follows
<1> QED BY <1>2, <1>4, <1>5 DEF l

LEMMA StopLeaves ==
    ASSUME Surroundings, NEW k, NEW q, Sound(k, sent), NEW failure \in Failures \ {"none"},
           Stop(k, failure, q)
    PROVE  Leaves(k) /\ h'.failure \in {k.failure, failure}
PROOF
<1>1. CASE k.failure # "none" \/ k.settled
  <2>1. h' = k /\ sent' = sent BY <1>1 DEF Stop, Quietly
  <2> QED BY <2>1, QuietlyLeaves, FollowsItself
<1>2. CASE ~(k.failure # "none" \/ k.settled)
  <2> DEFINE failed == [k EXCEPT !.failure = failure]
  <2>1. Cleanup(failed, q) BY <1>2 DEF Stop
  <2>2. Sound(failed, sent) /\ Follows(k, failed) /\ failed.failure = failure
    BY FailureSound
  <2> HIDE DEF failed
  <2>3. Leaves(failed) /\ h'.failure = failure
    BY <2>1, <2>2, CleanupLeaves
  <2>4. Follows(k, h') BY <2>2, <2>3, FollowsOn DEF Leaves
  <2> QED BY <2>3, <2>4 DEF Leaves
<1> QED BY <1>1, <1>2

\* The timer of silence is armed before the exit only.
LEMMA ArmIdleSound ==
    ASSUME NEW k, NEW s, Sound(k, s)
    PROVE  /\ Sound(ArmIdle(k), s) /\ Follows(k, ArmIdle(k))
           /\ ArmIdle(k).failure = k.failure
PROOF
<1>1. k \in CallStates BY DEF Sound
<1>2. CASE ~req.idle \/ ~k.idleArmed \/ k.settled \/ k.failure # "none" \/ k.exited
  <2>1. ArmIdle(k) = k BY <1>2 DEF ArmIdle
  <2> QED BY <2>1, FollowsItself
<1>3. CASE ~(~req.idle \/ ~k.idleArmed \/ k.settled \/ k.failure # "none" \/ k.exited)
  <2> DEFINE timers == k.timers \cup {"idle"}
  <2>1. ArmIdle(k) = [k EXCEPT !.timers = timers] BY <1>3 DEF ArmIdle
  <2>2. timers \in SUBSET TimerNames BY <1>1, CallFields DEF TimerNames
  <2>3. Sound([k EXCEPT !.timers = timers], s) BY <1>3, <2>2, TimersSound
  <2>4. /\ Follows(k, [k EXCEPT !.timers = timers])
        /\ [k EXCEPT !.timers = timers].failure = k.failure
    BY <1>1 DEF CallStates, Follows
  <2> QED BY <2>1, <2>3, <2>4
<1> QED BY <1>2, <1>3

\* A timer that fires is armed no more.
LEMMA SpentSound ==
    ASSUME Sound(h, sent), NEW timer
    PROVE  /\ Sound(Spent(timer), sent) /\ Follows(h, Spent(timer))
           /\ Spent(timer) = [h EXCEPT !.timers = h.timers \ {timer}]
           /\ Spent(timer).failure = h.failure
           /\ Spent(timer).timers = h.timers \ {timer}
           /\ Spent(timer).exited = h.exited /\ Spent(timer).settled = h.settled
           /\ Spent(timer).ended = h.ended /\ Spent(timer).reaped = h.reaped
           /\ Spent(timer).truncated = h.truncated
PROOF
<1> DEFINE timers == h.timers \ {timer}
<1>1. h \in CallStates BY DEF Sound
<1>2. Spent(timer) = [h EXCEPT !.timers = timers] BY DEF Spent
<1>3. timers \in SUBSET TimerNames BY <1>1, CallFields
<1>4. h.settled => timers = {} BY DEF Sound, SettledWhole
<1>5. Sound([h EXCEPT !.timers = timers], sent) BY <1>3, <1>4, TimersSound
<1>6. /\ Follows(h, [h EXCEPT !.timers = timers])
      /\ [h EXCEPT !.timers = timers].failure = h.failure
      /\ [h EXCEPT !.timers = timers].timers = timers
      /\ [h EXCEPT !.timers = timers].exited = h.exited
      /\ [h EXCEPT !.timers = timers].settled = h.settled
      /\ [h EXCEPT !.timers = timers].ended = h.ended
      /\ [h EXCEPT !.timers = timers].reaped = h.reaped
      /\ [h EXCEPT !.timers = timers].truncated = h.truncated
  BY <1>1 DEF CallStates, Follows
<1> QED BY <1>2, <1>5, <1>6

-----------------------------------------------------------------------------
(* Each action leaves a call sound, and no deadline, silence or abort fails a *)
(* leader that has exited                                                     *)

Stands == h.exited /\ h.failure = "none" => h'.failure \notin {"deadline", "idle", "abort"}

LEMMA FiresUnsettled ==
    ASSUME Sound(h, sent), NEW timer, Fires(timer) PROVE ~h.settled
BY DEF Sound, SettledWhole, Fires

LEMMA ExitLeaves ==
    ASSUME ProcessInv, Exit PROVE Leaves(h) /\ Stands
PROOF
<1> DEFINE timers == (h.timers \ {"deadline", "idle"}) \cup {"drain"}
           left == [h EXCEPT !.exited = TRUE, !.timers = timers]
<1>1. Surroundings /\ Sound(h, sent) /\ h \in CallStates BY DEF ProcessInv, Sound
<1>2. ~h.settled /\ ~h.exited BY DEF Exit
<1>3. timers \in SUBSET TimerNames BY <1>1, CallFields DEF TimerNames
<1>4. /\ left \in CallStates /\ left.timers = timers /\ left.failure = h.failure
      /\ left.settled = h.settled /\ left.exited = TRUE /\ left.ended = h.ended
      /\ left.truncated = h.truncated /\ left.reaped = h.reaped /\ left.gone = h.gone
      /\ left.cleaning = h.cleaning
  BY <1>1, <1>3 DEF CallStates
<1>5. CleanupThen(left, queue, TRUE)
  BY DEF Exit
<1>6. /\ "deadline" \notin timers /\ "idle" \notin timers
      /\ "delivery" \in timers => "delivery" \in h.timers
      /\ "backstop" \in timers => "backstop" \in h.timers
  OBVIOUS
<1> HIDE DEF timers, left
<1>7. Sound(left, sent)
  BY <1>1, <1>2, <1>4, <1>6 DEF Sound, GoneIsGone, ReadToTheEnd, TimersMean, SettledWhole
<1>8. Follows(h, left) BY <1>4 DEF Follows
<1>9. Leaves(left) BY <1>1, <1>5, <1>7, CleanupThenLeaves
<1>10. Follows(h, h') BY <1>8, <1>9, FollowsOn DEF Leaves
<1> QED BY <1>2, <1>9, <1>10 DEF Leaves, Stands

LEMMA SpawnErrorLeaves ==
    ASSUME ProcessInv, SpawnError PROVE Leaves(h) /\ Stands
PROOF
<1> DEFINE failed == [h EXCEPT !.failure = "spawn"]
<1>1. Surroundings /\ Sound(h, sent) BY DEF ProcessInv
<1>2. "spawn" \in Failures \ {"none"} BY DEF Failures
<1>3. h' = Finish(failed) /\ sent' = sent /\ os.leader = "none" BY DEF SpawnError, Quietly
<1>4. Sound(failed, sent) /\ Follows(h, failed) /\ failed.failure = "spawn"
  BY <1>1, <1>2, FailureSound
<1> HIDE DEF failed
<1>5. ~GroupAlive BY <1>3, <1>4 DEF Sound, GoneIsGone
<1>6. Sound(h', sent) /\ Follows(failed, h') /\ h'.failure = "spawn"
  BY <1>3, <1>4, <1>5, FinishSound
<1>7. Follows(h, h') BY <1>4, <1>6, FollowsOn
<1>8. Leaves(h) BY <1>1, <1>3, <1>6, <1>7, QuietlyLeaves
<1> QED BY <1>6, <1>8 DEF Stands

LEMMA DataLeaves ==
    ASSUME ProcessInv, NEW p \in Pipes, NEW exceeds \in BOOLEAN, Data(p, exceeds)
    PROVE  Leaves(h) /\ Stands
PROOF
<1>1. Surroundings /\ Sound(h, sent) BY DEF ProcessInv
<1>2. /\ Sound(ArmIdle(h), sent) /\ Follows(h, ArmIdle(h)) /\ ArmIdle(h).failure = h.failure
  BY <1>1, ArmIdleSound
<1>3. CASE exceeds
  <2>1. Stop(ArmIdle(h), "limit", queue) BY <1>3 DEF Data
  <2>2. "limit" \in Failures \ {"none"} BY DEF Failures
  <2>3. Leaves(ArmIdle(h)) /\ h'.failure \in {h.failure, "limit"}
    BY <1>1, <1>2, <2>1, <2>2, StopLeaves
  <2>4. Follows(h, h') BY <1>2, <2>3, FollowsOn DEF Leaves
  <2> QED BY <2>3, <2>4 DEF Leaves, Stands
<1>4. CASE ~exceeds
  <2>1. h' = ArmIdle(h) /\ sent' = sent BY <1>4 DEF Data, Quietly
  <2> QED BY <1>1, <1>2, <2>1, QuietlyLeaves DEF Stands
<1> QED BY <1>3, <1>4

LEMMA EndLeaves ==
    ASSUME ProcessInv, NEW p \in Pipes, End(p) PROVE Leaves(h) /\ Stands
PROOF
<1> DEFINE ended == [h EXCEPT !.ended = h.ended \cup {p}]
<1>1. Surroundings /\ Sound(h, sent) /\ h \in CallStates BY DEF ProcessInv, Sound
<1>2. /\ ~h.settled /\ p \notin h.ended /\ pipe[p].shut /\ pipe[p].unread = 0
      /\ h' = MaybeFinish(ended, queue) /\ sent' = sent
  BY DEF End, Flows, Quietly
<1>3. /\ ended \in CallStates /\ ended.timers = h.timers /\ ended.failure = h.failure
      /\ ended.settled = h.settled /\ ended.exited = h.exited
      /\ ended.ended = h.ended \cup {p}
      /\ ended.truncated = h.truncated /\ ended.reaped = h.reaped /\ ended.gone = h.gone
  BY <1>1 DEF CallStates
<1>a. h.ended \subseteq Pipes BY <1>1, CallFields
<1> HIDE DEF ended
<1>4. ReadToTheEnd(ended) BY <1>1, <1>2, <1>3 DEF Sound, ReadToTheEnd
<1>b. TimersMean(ended, sent) BY <1>1, <1>2, <1>3, <1>a DEF Sound, TimersMean
<1>5. Sound(ended, sent)
  BY <1>1, <1>2, <1>3, <1>4, <1>b DEF Sound, GoneIsGone, SettledWhole
<1>6. Follows(h, ended) BY <1>3 DEF Follows
<1>7. Sound(h', sent) /\ Follows(ended, h') /\ h'.failure = ended.failure
  BY <1>2, <1>5, MaybeFinishSound
<1>8. Follows(h, h') BY <1>6, <1>7, FollowsOn
<1>9. Leaves(h) BY <1>1, <1>2, <1>7, <1>8, QuietlyLeaves
<1> QED BY <1>3, <1>7, <1>9 DEF Stands

LEMMA PipeErrorLeaves ==
    ASSUME ProcessInv, PipeError PROVE Leaves(h) /\ Stands
PROOF
<1>1. Surroundings /\ Sound(h, sent) /\ Stop(h, "pipe", queue) BY DEF ProcessInv, PipeError
<1>2. "pipe" \in Failures \ {"none"} BY DEF Failures
<1>3. Leaves(h) /\ h'.failure \in {h.failure, "pipe"} BY <1>1, <1>2, StopLeaves
<1> QED BY <1>3 DEF Stands

LEMMA ConsumedLeaves ==
    ASSUME ProcessInv, NEW p \in Pipes, Consumed(p) PROVE Leaves(h) /\ Stands
PROOF
<1>1. Surroundings /\ Sound(h, sent) BY DEF ProcessInv
<1>2. h' = MaybeFinish(ArmIdle(h), queue') /\ sent' = sent BY DEF Consumed, Quietly
<1>3. Sound(ArmIdle(h), sent) /\ Follows(h, ArmIdle(h)) /\ ArmIdle(h).failure = h.failure
  BY <1>1, ArmIdleSound
<1>4. Sound(h', sent) /\ Follows(ArmIdle(h), h') /\ h'.failure = h.failure
  BY <1>2, <1>3, MaybeFinishSound
<1>5. Follows(h, h') BY <1>3, <1>4, FollowsOn
<1>6. Leaves(h) BY <1>1, <1>2, <1>4, <1>5, QuietlyLeaves
<1> QED BY <1>4, <1>6 DEF Stands

LEMMA ConsumerThrowsLeaves ==
    ASSUME ProcessInv, NEW p \in Pipes, ConsumerThrows(p) PROVE Leaves(h) /\ Stands
PROOF
<1> DEFINE failed == [h EXCEPT !.failure = "consumer"]
<1>1. Surroundings /\ Sound(h, sent) BY DEF ProcessInv
<1>2. "consumer" \in Failures \ {"none"} BY DEF Failures
<1>3. \/ h' = MaybeFinish(failed, queue') /\ sent' = sent
      \/ Cleanup(failed, queue')
  BY DEF ConsumerThrows, Quietly
<1>4. Sound(failed, sent) /\ Follows(h, failed) /\ failed.failure = "consumer"
  BY <1>1, <1>2, FailureSound
<1> HIDE DEF failed
<1>5. Leaves(failed) /\ h'.failure = "consumer"
  <2>1. CASE h' = MaybeFinish(failed, queue') /\ sent' = sent
    <3>1. Sound(h', sent) /\ Follows(failed, h') /\ h'.failure = failed.failure
      BY <1>4, <2>1, MaybeFinishSound
    <3> QED BY <1>1, <1>4, <2>1, <3>1, QuietlyLeaves
  <2>2. CASE Cleanup(failed, queue') BY <1>1, <1>4, <2>2, CleanupLeaves
  <2> QED BY <1>3, <2>1, <2>2
<1>6. Follows(h, h') BY <1>4, <1>5, FollowsOn DEF Leaves
<1> QED BY <1>5, <1>6 DEF Leaves, Stands

LEMMA RegistrationFailsLeaves ==
    ASSUME ProcessInv, RegistrationFails PROVE Leaves(h) /\ Stands
PROOF
<1> DEFINE failed == [h EXCEPT !.failure = "registration"]
<1>1. Surroundings /\ Sound(h, sent) BY DEF ProcessInv
<1>2. "registration" \in Failures \ {"none"} BY DEF Failures
<1>3. Cleanup(failed, queue) BY DEF RegistrationFails
<1>4. Sound(failed, sent) /\ Follows(h, failed) /\ failed.failure = "registration"
  BY <1>1, <1>2, FailureSound
<1> HIDE DEF failed
<1>5. Leaves(failed) /\ h'.failure = "registration" BY <1>1, <1>3, <1>4, CleanupLeaves
<1>6. Follows(h, h') BY <1>4, <1>5, FollowsOn DEF Leaves
<1> QED BY <1>5, <1>6 DEF Leaves, Stands

\* The fields of the input say nothing about the outcome.
LEMMA InputSound ==
    ASSUME Sound(h, sent), NEW fed \in BOOLEAN, NEW armed \in BOOLEAN
    PROVE  /\ Sound([h EXCEPT !.fed = fed, !.idleArmed = armed], sent)
           /\ Follows(h, [h EXCEPT !.fed = fed, !.idleArmed = armed])
           /\ [h EXCEPT !.fed = fed, !.idleArmed = armed].failure = h.failure
PROOF
<1> DEFINE l == [h EXCEPT !.fed = fed, !.idleArmed = armed]
<1>1. h \in CallStates BY DEF Sound
<1>2. /\ l \in CallStates /\ l.timers = h.timers /\ l.failure = h.failure
      /\ l.settled = h.settled /\ l.exited = h.exited /\ l.ended = h.ended
      /\ l.truncated = h.truncated /\ l.reaped = h.reaped /\ l.gone = h.gone
  BY <1>1 DEF CallStates
<1> HIDE DEF l
<1>3. Sound(l, sent)
  BY <1>2 DEF Sound, GoneIsGone, ReadToTheEnd, TimersMean, SettledWhole
<1>4. Follows(h, l) BY <1>2 DEF Follows
<1> QED BY <1>2, <1>3, <1>4 DEF l

LEMMA InputLeaves ==
    ASSUME ProcessInv, Registered \/ Untracked \/ Flushed PROVE Leaves(h) /\ Stands
PROOF
<1>1. Surroundings /\ Sound(h, sent) /\ h \in CallStates BY DEF ProcessInv, Sound
<1>2. h.fed \in BOOLEAN /\ h.idleArmed \in BOOLEAN BY <1>1, CallFields
<1>3. CASE Registered
  <2> DEFINE fed == ~h.settled /\ h.failure = "none" /\ ~h.exited
  <2>1. h' = [h EXCEPT !.fed = fed] /\ sent' = sent BY <1>3 DEF Registered
  <2>2. fed \in BOOLEAN OBVIOUS
  <2> HIDE DEF fed
  <2>3. h' = [h EXCEPT !.fed = fed, !.idleArmed = h.idleArmed] BY <1>1, <2>1 DEF CallStates
  <2>4. Sound(h', sent) /\ Follows(h, h') /\ h'.failure = h.failure
    BY <1>1, <1>2, <2>2, <2>3, InputSound
  <2> QED BY <1>1, <2>1, <2>4, QuietlyLeaves DEF Stands
<1>4. CASE Untracked
  <2>1. h' = [h EXCEPT !.fed = TRUE, !.idleArmed = h.idleArmed] /\ sent' = sent
    BY <1>1, <1>4 DEF Untracked, CallStates
  <2>2. Sound(h', sent) /\ Follows(h, h') /\ h'.failure = h.failure
    BY <1>1, <1>2, <2>1, InputSound
  <2> QED BY <1>1, <2>1, <2>2, QuietlyLeaves DEF Stands
<1>5. CASE Flushed
  <2> DEFINE armed == [h EXCEPT !.idleArmed = TRUE]
  <2>1. h' = ArmIdle(armed) /\ sent' = sent BY <1>5 DEF Flushed
  <2>2. armed = [h EXCEPT !.fed = h.fed, !.idleArmed = TRUE] BY <1>1 DEF CallStates
  <2>3. Sound(armed, sent) /\ Follows(h, armed) /\ armed.failure = h.failure
    BY <1>1, <1>2, <2>2, InputSound
  <2> HIDE DEF armed
  <2>4. Sound(h', sent) /\ Follows(armed, h') /\ h'.failure = h.failure
    BY <2>1, <2>3, ArmIdleSound
  <2>5. Follows(h, h') BY <2>3, <2>4, FollowsOn
  <2>6. Leaves(h) BY <1>1, <2>1, <2>4, <2>5, QuietlyLeaves
  <2> QED BY <2>4, <2>6 DEF Stands
<1> QED BY <1>3, <1>4, <1>5

\* A completed leader's result is not thrown away.
LEMMA AbortLeaves ==
    ASSUME ProcessInv, Abort PROVE Leaves(h) /\ Stands
PROOF
<1>1. Surroundings /\ Sound(h, sent) /\ Stop(h, "abort", queue) /\ ~h.exited
  BY DEF ProcessInv, Abort
<1>2. "abort" \in Failures \ {"none"} BY DEF Failures
<1>3. Leaves(h) BY <1>1, <1>2, StopLeaves
<1> QED BY <1>1, <1>3 DEF Stands

-----------------------------------------------------------------------------
(* The timers                                                                *)

LEMMA DeadlineLeaves ==
    ASSUME ProcessInv, Deadline PROVE Leaves(h) /\ Stands
PROOF
<1>1. Surroundings /\ Sound(h, sent) /\ Stop(Spent("deadline"), "deadline", queue)
  BY DEF ProcessInv, Deadline
<1>2. "deadline" \in Failures \ {"none"} BY DEF Failures
<1>3. Sound(Spent("deadline"), sent) /\ Follows(h, Spent("deadline")) BY <1>1, SpentSound
<1>4. Leaves(Spent("deadline")) BY <1>1, <1>2, <1>3, StopLeaves
<1>5. Follows(h, h') BY <1>3, <1>4, FollowsOn DEF Leaves
<1>6. ~h.exited BY <1>1 DEF Deadline, Fires, Sound, TimersMean
<1> QED BY <1>4, <1>5, <1>6 DEF Leaves, Stands

LEMMA IdleLeaves ==
    ASSUME ProcessInv, Idle PROVE Leaves(h) /\ Stands
PROOF
<1> DEFINE spent == Spent("idle")
<1>1. Surroundings /\ Sound(h, sent) BY DEF ProcessInv
<1>2. "idle" \in Failures \ {"none"} BY DEF Failures
<1>3. Sound(spent, sent) /\ Follows(h, spent) BY <1>1, SpentSound
<1>4. ~h.exited BY <1>1 DEF Idle, Fires, Sound, TimersMean
<1>5. \/ h' = ArmIdle(spent) /\ sent' = sent
      \/ Stop(spent, "idle", queue)
  BY DEF Idle, Quietly
<1> HIDE DEF spent
<1>6. CASE h' = ArmIdle(spent) /\ sent' = sent
  <2>1. Sound(h', sent) /\ Follows(spent, h') BY <1>3, <1>6, ArmIdleSound
  <2>2. Follows(h, h') BY <1>3, <2>1, FollowsOn
  <2> QED BY <1>1, <1>4, <1>6, <2>1, <2>2, QuietlyLeaves DEF Stands
<1>7. CASE Stop(spent, "idle", queue)
  <2>1. Leaves(spent) BY <1>1, <1>2, <1>3, <1>7, StopLeaves
  <2>2. Follows(h, h') BY <1>3, <2>1, FollowsOn DEF Leaves
  <2> QED BY <1>4, <2>1, <2>2 DEF Leaves, Stands
<1> QED BY <1>5, <1>6, <1>7

LEMMA PollLeaves ==
    ASSUME ProcessInv, Poll PROVE Leaves(h) /\ Stands
PROOF
<1>1. Surroundings /\ Sound(h, sent) BY DEF ProcessInv
<1>2. h' \in Again(h, queue) /\ sent' = sent BY DEF Poll, Quietly
<1>3. Sound(h', sent) /\ Follows(h, h') /\ h'.failure = h.failure
  BY <1>1, <1>2, AgainSound
<1>4. Leaves(h) BY <1>1, <1>2, <1>3, QuietlyLeaves
<1> QED BY <1>3, <1>4 DEF Stands

\* The backstop is armed when the group is gone or SIGKILL has been sent to it.
LEMMA EscalateLeaves ==
    ASSUME ProcessInv, Escalate PROVE Leaves(h) /\ Stands
PROOF
<1> DEFINE spent == Spent("escalation")
           Bounded(known) == IF known.exited /\ known.reaped /\ known.failure = "none" THEN known
                             ELSE [known EXCEPT !.timers = @ \cup {"backstop"}]
<1>1. Surroundings /\ Sound(h, sent) /\ ~h.settled
  BY FiresUnsettled DEF ProcessInv, Escalate
<1>2. Sound(spent, sent) /\ Follows(h, spent) /\ spent.failure = h.failure /\ ~spent.settled
  BY <1>1, SpentSound
<1>3. PICK known \in Looks(spent) : h' = Bounded(known) /\ Signals(known, "KILL")
  BY Zenon DEF Escalate
<1> HIDE DEF spent
<1>5. Sound(known, sent) /\ Follows(spent, known) /\ Looked(spent, known)
  BY <1>1, <1>2, <1>3, LooksSound
<1>7. known \in CallStates /\ ~known.settled /\ known.failure = h.failure
  BY <1>2, <1>5 DEF Sound, Looked
<1>8. Follows(h, known) BY <1>2, <1>5, FollowsOn
<1>9. h' = Bounded(known) /\ Signals(known, "KILL") BY <1>3
<1>10. sent \subseteq sent' /\ sent' \subseteq {"TERM", "KILL", "blind"}
       /\ (~GroupAlive \/ "KILL" \in sent')
  BY <1>1, <1>5, <1>9, SignalsSound
<1>11. Sound(known, sent') BY <1>5, <1>10, SoundWithMore
<1>12. CASE known.exited /\ known.reaped /\ known.failure = "none"
  <2>1. h' = known BY <1>9, <1>12
  <2> QED BY <1>7, <1>8, <1>10, <1>11, <2>1 DEF Leaves, Stands
<1>13. CASE ~(known.exited /\ known.reaped /\ known.failure = "none")
  <2> DEFINE timers == known.timers \cup {"backstop"}
  <2>1. h' = [known EXCEPT !.timers = timers] BY <1>9, <1>13
  <2>2. timers \in SUBSET TimerNames BY <1>7, CallFields DEF TimerNames
  <2>3. Sound([known EXCEPT !.timers = timers], sent')
    BY <1>7, <1>10, <1>11, <2>2, TimersSound
  <2>4. /\ Follows(known, [known EXCEPT !.timers = timers])
        /\ [known EXCEPT !.timers = timers].failure = known.failure
    BY <1>7 DEF CallStates, Follows
  <2> HIDE DEF timers
  <2>5. Sound(h', sent') /\ Follows(known, h') /\ h'.failure = h.failure
    BY <1>7, <2>1, <2>3, <2>4
  <2>6. Follows(h, h') BY <1>8, <2>5, FollowsOn
  <2> QED BY <1>10, <2>5, <2>6 DEF Leaves, Stands
<1> QED BY <1>12, <1>13

LEMMA BackstopLeaves ==
    ASSUME ProcessInv, Backstop PROVE Leaves(h) /\ Stands
PROOF
<1> DEFINE Cut(k) == k.truncated \/ k.ended # Pipes
           Failed(k) == IF ~k.exited /\ k.failure = "none" THEN "stuck" ELSE k.failure
           Closed(k) == [k EXCEPT !.truncated = Cut(k), !.failure = Failed(k)]
<1>1. Surroundings /\ Sound(h, sent) /\ ~h.settled /\ "backstop" \in h.timers
  BY FiresUnsettled DEF ProcessInv, Backstop, Fires
<1>2. PICK k \in Refresh(h) : h' = Finish(Closed(k)) BY DEF Backstop, Quietly
<1>3. sent' = sent BY DEF Backstop, Quietly
<1>4. Sound(k, sent) /\ Follows(h, k) /\ Looked(h, k) BY <1>1, RefreshSound
<1>5. k \in CallStates /\ ~k.settled /\ (~GroupAlive \/ "KILL" \in sent)
  BY <1>1, <1>4 DEF Sound, TimersMean, Looked
<1> DEFINE cut == Cut(k)
           failed == Failed(k)
<1>6. cut \in BOOLEAN /\ failed \in Failures BY <1>5 DEF CallStates, Failures
<1>7. /\ k.truncated => cut
      /\ k.ended # Pipes => cut
      /\ k.exited => failed = k.failure
      /\ k.failure # "none" => failed = k.failure
      /\ ~k.exited => failed # "none"
      /\ failed \in {k.failure, "stuck"}
  OBVIOUS
<1> HIDE DEF cut, failed
<1> DEFINE closed == [k EXCEPT !.truncated = cut, !.failure = failed]
<1>8. /\ closed \in CallStates /\ closed.timers = k.timers /\ closed.failure = failed
      /\ closed.settled = k.settled /\ closed.exited = k.exited /\ closed.ended = k.ended
      /\ closed.truncated = cut /\ closed.reaped = k.reaped /\ closed.gone = k.gone
  BY <1>5, <1>6 DEF CallStates
<1>9. h' = Finish(closed) BY <1>2 DEF cut, failed
<1> HIDE DEF closed
<1>10. Sound(closed, sent)
  BY <1>4, <1>5, <1>7, <1>8 DEF Sound, GoneIsGone, ReadToTheEnd, TimersMean, SettledWhole
<1>11. Follows(k, closed) BY <1>7, <1>8 DEF Follows
<1>12. Sound(h', sent) /\ Follows(closed, h') /\ h'.failure = failed
  BY <1>5, <1>7, <1>8, <1>9, <1>10, FinishSound
<1>13. Follows(h, h') BY <1>4, <1>11, <1>12, FollowsOn
<1>14. Leaves(h) BY <1>1, <1>3, <1>12, <1>13, QuietlyLeaves
<1> QED BY <1>4, <1>7, <1>12, <1>14 DEF Looked, Stands

LEMMA DrainLeaves ==
    ASSUME ProcessInv, Drain PROVE Leaves(h) /\ Stands
PROOF
<1> DEFINE spent == Spent("drain")
           cut == spent.truncated \/ h.ended # Pipes
           drained == [spent EXCEPT !.truncated = cut, !.ended = Pipes]
<1>1. Surroundings /\ Sound(h, sent) /\ ~h.settled
  BY FiresUnsettled DEF ProcessInv, Drain
<1>2. h' = MaybeFinish(drained, queue) /\ sent' = sent BY DEF Drain, Quietly
<1>3. /\ Sound(spent, sent) /\ Follows(h, spent) /\ spent.failure = h.failure
      /\ ~spent.settled /\ spent.ended = h.ended
  BY <1>1, SpentSound
<1> HIDE DEF spent
<1>4. spent \in CallStates /\ cut \in BOOLEAN BY <1>3 DEF Sound, CallStates
<1>5. (spent.truncated => cut) /\ (spent.ended # Pipes => cut) BY <1>3
<1> HIDE DEF cut
<1>6. /\ drained \in CallStates /\ drained.timers = spent.timers
      /\ drained.failure = spent.failure
      /\ drained.settled = spent.settled /\ drained.exited = spent.exited
      /\ drained.ended = Pipes /\ drained.truncated = cut
      /\ drained.reaped = spent.reaped /\ drained.gone = spent.gone
  BY <1>4 DEF CallStates
<1> HIDE DEF drained
<1>7. ReadToTheEnd(drained) BY <1>3, <1>5, <1>6 DEF Sound, ReadToTheEnd
<1>8. Sound(drained, sent)
  BY <1>3, <1>5, <1>6, <1>7 DEF Sound, GoneIsGone, TimersMean, SettledWhole
<1>9. Follows(spent, drained) BY <1>5, <1>6 DEF Follows
<1>10. Sound(h', sent) /\ Follows(drained, h') /\ h'.failure = drained.failure
  BY <1>2, <1>8, MaybeFinishSound
<1>11. Follows(h, h') BY <1>3, <1>9, <1>10, FollowsOn
<1>12. Leaves(h) BY <1>1, <1>2, <1>10, <1>11, QuietlyLeaves
<1> QED BY <1>3, <1>6, <1>10, <1>12 DEF Stands

LEMMA DeliveryLeaves ==
    ASSUME ProcessInv, Delivery PROVE Leaves(h) /\ Stands
PROOF
<1>1. Surroundings /\ Sound(h, sent) /\ "delivery" \in h.timers
  BY DEF ProcessInv, Delivery, Fires
<1>2. h' = Finish(h) /\ sent' = sent BY DEF Delivery, Quietly
<1>3. h.exited /\ ~GroupAlive /\ h.ended = Pipes BY <1>1 DEF Sound, TimersMean, GoneIsGone
<1>4. Sound(h', sent) /\ Follows(h, h') /\ h'.failure = h.failure
  BY <1>1, <1>2, <1>3, FinishSound
<1>5. Leaves(h) BY <1>1, <1>2, <1>4, QuietlyLeaves
<1> QED BY <1>4, <1>5 DEF Stands

-----------------------------------------------------------------------------
(* The asynchronous part of finish                                           *)

LEMMA FailSound ==
    ASSUME ProcessInv, NEW failure \in Failures \ {"none"}
    PROVE  /\ Sound(Fail(h, failure), sent) /\ Follows(h, Fail(h, failure))
           /\ Fail(h, failure).failure # "none"
           /\ Fail(h, failure).failure \in {h.failure, failure}
PROOF
<1>1. Sound(h, sent) BY DEF ProcessInv
<1>2. CASE h.failure = "none"
  <2>1. Fail(h, failure) = [h EXCEPT !.failure = failure] BY <1>2 DEF Fail
  <2>2. /\ Sound([h EXCEPT !.failure = failure], sent)
        /\ Follows(h, [h EXCEPT !.failure = failure])
        /\ [h EXCEPT !.failure = failure].failure = failure
    BY <1>1, FailureSound
  <2> QED BY <2>1, <2>2
<1>3. CASE h.failure # "none"
  <2>1. Fail(h, failure) = h BY <1>3 DEF Fail
  <2> QED BY <1>1, <1>3, <2>1, FollowsItself
<1> QED BY <1>2, <1>3

LEMMA SettlingLeaves ==
    ASSUME ProcessInv, Deliver \/ Lease PROVE Leaves(h) /\ Stands
PROOF
<1>1. Surroundings /\ Sound(h, sent) /\ sent' = sent BY DEF ProcessInv, Deliver, Lease
<1>2. "stalled" \in Failures \ {"none"} /\ "registration" \in Failures \ {"none"}
  BY DEF Failures
<1>3. h' = h \/ h' = Fail(h, "stalled") \/ h' = Fail(h, "registration")
  BY DEF Deliver, Lease
<1>4. Sound(h', sent) /\ Follows(h, h') /\ h'.failure \in {h.failure, "stalled", "registration"}
  BY <1>1, <1>2, <1>3, FailSound, FollowsItself
<1>5. Leaves(h) BY <1>1, <1>4, QuietlyLeaves
<1> QED BY <1>4, <1>5 DEF Stands

-----------------------------------------------------------------------------
(* The invariant                                                             *)

LEMMA StepLeaves ==
    ASSUME ProcessInv, [ProcessNext]_processVars PROVE Leaves(h) /\ Stands
PROOF
<1> USE DEF ProcessNext
<1>1. CASE Exit BY <1>1, ExitLeaves
<1>2. CASE SpawnError BY <1>2, SpawnErrorLeaves
<1>3. CASE PipeError BY <1>3, PipeErrorLeaves
<1>4. ASSUME NEW p \in Pipes, \E exceeds \in BOOLEAN : Data(p, exceeds)
      PROVE  Leaves(h) /\ Stands
  BY <1>4, DataLeaves
<1>5. ASSUME NEW p \in Pipes, End(p) PROVE Leaves(h) /\ Stands BY <1>5, EndLeaves
<1>6. ASSUME NEW p \in Pipes, Consumed(p) PROVE Leaves(h) /\ Stands BY <1>6, ConsumedLeaves
<1>7. ASSUME NEW p \in Pipes, ConsumerThrows(p) PROVE Leaves(h) /\ Stands
  BY <1>7, ConsumerThrowsLeaves
<1>8. CASE Registered \/ Untracked \/ Flushed BY <1>8, InputLeaves
<1>9. CASE RegistrationFails BY <1>9, RegistrationFailsLeaves
<1>10. CASE Abort BY <1>10, AbortLeaves
<1>11. CASE Timers
  BY <1>11, DeadlineLeaves, IdleLeaves, PollLeaves, EscalateLeaves, BackstopLeaves, DrainLeaves,
     DeliveryLeaves DEF Timers
<1>12. CASE Deliver \/ Lease BY <1>12, SettlingLeaves
<1>13. CASE h' = h /\ sent' = sent
  <2>1. Surroundings /\ Sound(h, sent) BY DEF ProcessInv
  <2>2. Leaves(h) BY <1>13, <2>1, QuietlyLeaves, FollowsItself
  <2> QED BY <1>13, <2>2 DEF Stands
<1>14. ASSUME \/ \E p \in Pipes : Writes(p) \/ Shuts(p)
              \/ Dies \/ Reused \/ UNCHANGED processVars
       PROVE  h' = h /\ sent' = sent
  BY <1>14 DEF Writes, Shuts, Dies, Reused, Acts, processVars
<1> QED
  BY <1>1, <1>2, <1>3, <1>4, <1>5, <1>6, <1>7, <1>8, <1>9, <1>10, <1>11, <1>12, <1>13, <1>14

\* What a step may do to the group, to a pipe and to the deliveries: a group that is gone stays
\* gone, a pipe that is read to its end stays so, and once the call has settled nothing is
\* delivered any more.
LEMMA StepSurrounds ==
    ASSUME ProcessAssumption, ProcessInv, [ProcessNext]_processVars
    PROVE  /\ Surroundings'
           /\ GroupAlive' => GroupAlive
           /\ os'.leader = "none" => os.leader = "none"
           /\ \A p \in Pipes : /\ pipe[p].shut /\ pipe[p].unread = 0 =>
                                     pipe'[p].shut /\ pipe'[p].unread = 0
                               /\ h.settled => queue'[p] <= queue[p]
           /\ Over => pipe' = pipe /\ queue' = queue
PROOF
<1> DEFINE Goal == /\ os' \in [leader: {"none", "alive", "dead"}, kin: BOOLEAN, foreign: BOOLEAN]
                   /\ os'.foreign => ~GroupAlive'
                   /\ GroupAlive' => GroupAlive
                   /\ os'.leader = "none" => os.leader = "none"
           Piped == /\ pipe' \in [Pipes -> [unread: Nat, shut: BOOLEAN]]
                    /\ wrote' \in 0..MaxChunks
                    /\ \A p \in Pipes : pipe[p].shut /\ pipe[p].unread = 0 =>
                                          pipe'[p].shut /\ pipe'[p].unread = 0
                    /\ Over => pipe' = pipe
           Queued == /\ queue' \in [Pipes -> Nat]
                     /\ \A p \in Pipes : h.settled => queue'[p] <= queue[p]
                     /\ Over => queue' = queue
           Booked == /\ req' \in [stream: BOOLEAN, idle: BOOLEAN, track: BOOLEAN]
                     /\ reg' \in {"none", "pending", "held", "failed", "released", "kept"}
                     /\ fin' \in {"no", "lease", "stalled", "resolved", "rejected"}
<1>1. Surroundings /\ Finishing /\ (Over => h.settled) /\ MaxChunks \in Nat
  BY DEF ProcessInv, Finishing, Over, ProcessAssumption
<1>2. Goal
  <2>1. CASE os' = os BY <1>1, <2>1 DEF Surroundings, GroupAlive
  <2>2. CASE Dies BY <1>1, <2>2 DEF Surroundings, GroupAlive, Dies
  <2>3. CASE Reused BY <1>1, <2>3 DEF Surroundings, GroupAlive, Reused
  <2>4. os' = os \/ Dies \/ Reused
    BY DEF ProcessNext, processVars, Exit, SpawnError, PipeError, Data, End, Consumed,
       ConsumerThrows, Writes, Shuts, Registered, RegistrationFails, Untracked, Flushed, Abort,
       Timers, Deadline, Idle, Poll, Escalate, Backstop, Drain, Delivery, Deliver, Lease,
       environment
  <2> QED BY <2>1, <2>2, <2>3, <2>4
<1>3. Piped
  <2>1. CASE pipe' = pipe /\ wrote' = wrote BY <1>1, <2>1 DEF Surroundings
  <2>2. ASSUME NEW p \in Pipes, Writes(p) PROVE Piped
    <3>1. pipe[p] \in [unread: Nat, shut: BOOLEAN] BY <1>1 DEF Surroundings
    <3>2. /\ ~Over /\ ~pipe[p].shut /\ wrote < MaxChunks /\ wrote' = wrote + 1
          /\ pipe' = [pipe EXCEPT ![p] = [pipe[p] EXCEPT !.unread = pipe[p].unread + 1]]
      BY <2>2 DEF Writes, Acts
    <3>3. [pipe[p] EXCEPT !.unread = pipe[p].unread + 1] \in [unread: Nat, shut: BOOLEAN]
      BY <3>1
    <3>4. pipe' \in [Pipes -> [unread: Nat, shut: BOOLEAN]]
      BY <1>1, <3>2, <3>3 DEF Surroundings
    <3>5. wrote' \in 0..MaxChunks BY <1>1, <3>2 DEF Surroundings
    <3>6. \A q \in Pipes : q # p => pipe'[q] = pipe[q] BY <1>1, <3>2 DEF Surroundings
    <3> QED BY <3>2, <3>4, <3>5, <3>6
  <2>3. ASSUME NEW p \in Pipes, Shuts(p) PROVE Piped
    <3>1. pipe[p] \in [unread: Nat, shut: BOOLEAN] BY <1>1 DEF Surroundings
    <3>2. /\ ~Over /\ ~pipe[p].shut /\ wrote' = wrote
          /\ pipe' = [pipe EXCEPT ![p] = [pipe[p] EXCEPT !.shut = TRUE]]
      BY <2>3 DEF Shuts, Acts
    <3>3. [pipe[p] EXCEPT !.shut = TRUE] \in [unread: Nat, shut: BOOLEAN]
      BY <3>1
    <3>4. pipe' \in [Pipes -> [unread: Nat, shut: BOOLEAN]]
      BY <1>1, <3>2, <3>3 DEF Surroundings
    <3>6. \A q \in Pipes : q # p => pipe'[q] = pipe[q] BY <1>1, <3>2 DEF Surroundings
    <3> QED BY <1>1, <3>2, <3>4, <3>6 DEF Surroundings
  <2>4. ASSUME NEW p \in Pipes, NEW exceeds \in BOOLEAN, Data(p, exceeds) PROVE Piped
    <3>1. pipe[p] \in [unread: Nat, shut: BOOLEAN] BY <1>1 DEF Surroundings
    <3>2. /\ ~h.settled /\ pipe[p].unread > 0 /\ wrote' = wrote
          /\ pipe' = [pipe EXCEPT ![p] = [pipe[p] EXCEPT !.unread = pipe[p].unread - 1]]
      BY <2>4 DEF Data, Flows
    <3>3. [pipe[p] EXCEPT !.unread = pipe[p].unread - 1] \in [unread: Nat, shut: BOOLEAN]
      BY <3>1, <3>2
    <3>4. pipe' \in [Pipes -> [unread: Nat, shut: BOOLEAN]]
      BY <1>1, <3>2, <3>3 DEF Surroundings
    <3>6. \A q \in Pipes : q # p => pipe'[q] = pipe[q] BY <1>1, <3>2 DEF Surroundings
    <3> QED BY <1>1, <3>2, <3>4, <3>6 DEF Surroundings
  <2>5. \/ pipe' = pipe /\ wrote' = wrote
        \/ \E p \in Pipes : Writes(p) \/ Shuts(p) \/ \E exceeds \in BOOLEAN : Data(p, exceeds)
    BY DEF ProcessNext, processVars, Exit, SpawnError, PipeError, End, Consumed,
       ConsumerThrows, Registered, RegistrationFails, Untracked, Flushed, Abort,
       Timers, Deadline, Idle, Poll, Escalate, Backstop, Drain, Delivery, Deliver, Lease,
       environment, Dies, Reused
  <2> QED BY <2>1, <2>2, <2>3, <2>4, <2>5
<1>4. Queued
  <2>1. CASE queue' = queue BY <1>1, <2>1 DEF Surroundings
  <2>2. ASSUME NEW p \in Pipes, Consumed(p) \/ ConsumerThrows(p) PROVE Queued
    <3>1. ~Over /\ queue[p] > 0 /\ queue' = [queue EXCEPT ![p] = queue[p] - 1]
      BY <2>2 DEF Consumed, ConsumerThrows
    <3> QED BY <1>1, <3>1 DEF Surroundings
  <2>3. ASSUME NEW p \in Pipes, NEW exceeds \in BOOLEAN, Data(p, exceeds) PROVE Queued
    <3>1. ~h.settled /\ queue' \in {queue, [queue EXCEPT ![p] = queue[p] + 1]}
      BY <2>3 DEF Data, Flows
    <3> QED BY <1>1, <3>1 DEF Surroundings
  <2>4. \/ queue' = queue
        \/ \E p \in Pipes : \/ Consumed(p) \/ ConsumerThrows(p)
                            \/ \E exceeds \in BOOLEAN : Data(p, exceeds)
    BY DEF ProcessNext, processVars, Exit, SpawnError, PipeError, End, Writes, Shuts,
       Registered, RegistrationFails, Untracked, Flushed, Abort,
       Timers, Deadline, Idle, Poll, Escalate, Backstop, Drain, Delivery, Deliver, Lease,
       Dies, Reused, Acts
  <2> QED BY <2>1, <2>2, <2>3, <2>4
<1>5. Booked
  <2>1. CASE req' = req /\ reg' = reg /\ fin' = fin BY <1>1, <2>1 DEF Surroundings
  <2>2. CASE Registered \/ RegistrationFails
    BY <1>1, <2>2 DEF Registered, RegistrationFails, Surroundings
  <2>3. CASE Deliver BY <1>1, <2>3 DEF Deliver, Surroundings
  <2>4. CASE Lease BY <1>1, <2>4 DEF Lease, Surroundings, Outcome
  <2>5. (req' = req /\ reg' = reg /\ fin' = fin) \/ Registered \/ RegistrationFails
        \/ Deliver \/ Lease
    BY DEF ProcessNext, processVars, Exit, SpawnError, PipeError, Data, End, Writes, Shuts,
       Consumed, ConsumerThrows, Untracked, Flushed, Abort, environment,
       Timers, Deadline, Idle, Poll, Escalate, Backstop, Drain, Delivery, Dies, Reused, Acts
  <2> QED BY <2>1, <2>2, <2>3, <2>4, <2>5
<1>6. sent' \subseteq {"TERM", "KILL", "blind"} BY StepLeaves DEF Leaves
<1>7. Surroundings' BY <1>2, <1>3, <1>4, <1>5, <1>6 DEF Surroundings
<1> QED BY <1>2, <1>3, <1>4, <1>7

LEMMA StepSound ==
    ASSUME ProcessAssumption, ProcessInv, [ProcessNext]_processVars
    PROVE  Sound(h, sent)'
PROOF
<1>1. Sound(h', sent') BY StepLeaves DEF Leaves
<1>2. h' \in CallStates BY <1>1 DEF Sound
<1>3. GoneIsGone(h)' BY <1>1, StepSurrounds DEF Sound, GoneIsGone
<1>4. ReadToTheEnd(h)'
  <2>1. h'.ended \subseteq Pipes BY <1>2, CallFields
  <2> QED BY <1>1, <2>1, StepSurrounds DEF Sound, ReadToTheEnd
<1>5. TimersMean(h, sent)' BY <1>1, StepSurrounds DEF Sound, TimersMean
<1>6. SettledWhole(h, sent)' BY <1>1, StepSurrounds DEF Sound, SettledWhole
<1>7. (h \in CallStates)' BY <1>2 DEF CallStates
<1> QED BY <1>3, <1>4, <1>5, <1>6, <1>7 DEF Sound

LEMMA StillNotHolding ==
    ASSUME ProcessAssumption, ProcessInv, [ProcessNext]_processVars, h.settled, ~Holding(queue)
    PROVE  ~Holding(queue')
PROOF
<1>1. SUFFICES ASSUME NEW p \in Pipes PROVE ~(queue'[p] > 0)
  BY DEF Holding
<1>2. queue'[p] <= queue[p] /\ queue' \in [Pipes -> Nat]
  BY StepSurrounds DEF Surroundings
<1>3. queue[p] \in Nat /\ queue[p] = 0 BY DEF ProcessInv, Surroundings, Holding
<1> QED BY <1>2, <1>3

\* What a call that ends without a failure stands for.
LEMMA LeaseResolves ==
    ASSUME ProcessInv, Lease, fin' = "resolved"
    PROVE  h.failure = "none" /\ h.exited /\ (h.truncated \/ Whole)
PROOF
<1>1. Surroundings /\ Sound(h, sent) /\ Finishing BY DEF ProcessInv
<1>2. h'.failure = "none" /\ fin \in {"lease", "stalled"} BY DEF Lease, Outcome
<1>3. h' = h \/ h' = Fail(h, "registration") BY DEF Lease
<1>4. "registration" \in Failures \ {"none"} BY DEF Failures
<1>5. h.failure = "none"
  <2>1. CASE h' = h BY <1>2, <2>1
  <2>2. CASE h' = Fail(h, "registration") BY <1>2, <1>4, <2>2, FailSound
  <2> QED BY <1>3, <2>1, <2>2
<1>6. fin = "lease" BY <1>1, <1>2, <1>5 DEF Finishing
<1>7. h.settled /\ ~Holding(queue) BY <1>1, <1>6 DEF Finishing
<1>8. h.exited /\ (h.truncated \/ h.ended = Pipes)
  BY <1>1, <1>5, <1>7 DEF Sound, SettledWhole
<1>9. ASSUME ~h.truncated PROVE Whole
  <2>1. \A p \in Pipes : pipe[p].shut /\ pipe[p].unread = 0
    BY <1>1, <1>8, <1>9 DEF Sound, ReadToTheEnd
  <2>2. \A p \in Pipes : queue[p] = 0
    BY <1>1, <1>7 DEF Surroundings, Holding
  <2> QED BY <2>1, <2>2 DEF Whole
<1> QED BY <1>5, <1>8, <1>9

LEMMA StepFinishing ==
    ASSUME ProcessAssumption, ProcessInv, [ProcessNext]_processVars
    PROVE  Finishing'
PROOF
<1>1. Surroundings /\ Sound(h, sent) /\ Finishing /\ Follows(h, h')
  BY StepLeaves DEF ProcessInv, Leaves
<1>2. fin' = fin \/ Deliver \/ Lease
  BY DEF ProcessNext, processVars, Exit, SpawnError, PipeError, Data, End, Writes, Shuts,
     Consumed, ConsumerThrows, Registered, RegistrationFails, Untracked, Flushed, Abort,
     Timers, Deadline, Idle, Poll, Escalate, Backstop, Drain, Delivery, Dies, Reused, Acts
<1>3. fin' # "no" => h'.settled
  <2>1. fin # "no" => h.settled BY <1>1 DEF Finishing
  <2>2. Deliver \/ Lease => h.settled BY <2>1 DEF Deliver, Lease
  <2> QED BY <1>1, <1>2, <2>1, <2>2 DEF Follows
<1>4. fin' = "lease" => ~Holding(queue')
  <2>1. CASE fin' = fin BY <1>1, <2>1, StillNotHolding DEF Finishing
  <2>2. CASE Deliver BY <2>2 DEF Deliver
  <2>3. CASE Lease BY <2>3 DEF Lease, Outcome
  <2> QED BY <1>2, <2>1, <2>2, <2>3
<1>5. fin' = "stalled" => h'.failure # "none"
  <2>1. CASE fin' = fin BY <1>1, <2>1 DEF Finishing, Follows
  <2>2. CASE Deliver
    <3>1. "stalled" \in Failures \ {"none"} BY DEF Failures
    <3>2. fin' = "stalled" => h' = Fail(h, "stalled") BY <2>2 DEF Deliver
    <3> QED BY <3>1, <3>2, FailSound
  <2>3. CASE Lease BY <2>3 DEF Lease, Outcome
  <2> QED BY <1>2, <2>1, <2>2, <2>3
<1>6. reg' = "released" => h'.settled /\ h'.reaped /\ ~Holding(queue')
  <2>1. SUFFICES ASSUME reg' = "released"
                 PROVE  h.settled /\ h.reaped /\ ~Holding(queue)
    BY <1>1, StillNotHolding DEF Follows
  <2>2. CASE reg' = reg BY <1>1, <2>1, <2>2 DEF Finishing
  <2>3. CASE reg' # reg
    <3>1. Lease
      BY <2>1, <2>3
      DEF ProcessNext, processVars, Exit, SpawnError, PipeError, Data, End, Writes, Shuts,
          Consumed, ConsumerThrows, Registered, RegistrationFails, Untracked, Flushed, Abort,
          Timers, Deadline, Idle, Poll, Escalate, Backstop, Drain, Delivery, Dies, Reused, Acts,
          Deliver
    <3>2. h.reaped /\ fin = "lease" BY <2>1, <2>3, <3>1 DEF Lease, MayRelease
    <3> QED BY <1>1, <3>2 DEF Finishing
  <2> QED BY <2>2, <2>3
<1>7. fin' = "resolved" => h'.exited /\ (h'.truncated \/ Whole')
  <2>1. SUFFICES ASSUME fin' = "resolved" PROVE h'.exited /\ (h'.truncated \/ Whole')
    OBVIOUS
  <2>2. CASE fin' = fin
    <3>1. h.exited /\ (h.truncated \/ Whole) /\ Over BY <1>1, <2>1, <2>2 DEF Finishing, Over
    <3>2. pipe' = pipe /\ queue' = queue BY <3>1, StepSurrounds
    <3> QED BY <1>1, <3>1, <3>2 DEF Follows, Whole
  <2>3. CASE Deliver BY <2>1, <2>3 DEF Deliver
  <2>4. CASE Lease
    <3>1. h.exited /\ (h.truncated \/ Whole) BY <2>1, <2>4, LeaseResolves
    <3>2. pipe' = pipe /\ queue' = queue BY <2>4 DEF Lease, environment
    <3> QED BY <1>1, <3>1, <3>2 DEF Follows, Whole
  <2> QED BY <1>2, <2>2, <2>3, <2>4
<1>8. Finishing' <=> /\ fin' # "no" => h'.settled
                     /\ fin' = "lease" => ~Holding(queue')
                     /\ fin' = "stalled" => h'.failure # "none"
                     /\ reg' = "released" => h'.settled /\ h'.reaped /\ ~Holding(queue')
                     /\ fin' = "resolved" => h'.exited /\ (h'.truncated \/ Whole')
  BY DEF Finishing, Holding
<1> QED BY <1>3, <1>4, <1>5, <1>6, <1>7, <1>8

LEMMA ProcessBegins ==
    ASSUME ProcessAssumption, ProcessInit PROVE ProcessInv
PROOF
<1>1. PICK spawned \in BOOLEAN, kin \in BOOLEAN :
        /\ kin => spawned
        /\ os = [leader |-> IF spawned THEN "alive" ELSE "none", kin |-> kin, foreign |-> FALSE]
        /\ reg = IF spawned /\ req.track THEN "pending" ELSE "none"
        /\ h = [failure |-> "none", settled |-> FALSE, exited |-> FALSE, ended |-> {},
                truncated |-> FALSE, reaped |-> ~spawned, gone |-> FALSE, cleaning |-> FALSE,
                fed |-> FALSE, idleArmed |-> FALSE, timers |-> {"deadline"}]
  BY DEF ProcessInit
<1>2. /\ h \in CallStates /\ h.failure = "none" /\ h.settled = FALSE /\ h.exited = FALSE
      /\ h.ended = {} /\ h.reaped = ~spawned /\ h.gone = FALSE /\ h.timers = {"deadline"}
  BY <1>1 DEF CallStates, Failures, TimerNames
<1>3. /\ os \in [leader: {"none", "alive", "dead"}, kin: BOOLEAN, foreign: BOOLEAN]
      /\ ~os.foreign /\ (GroupAlive => spawned) /\ (os.leader = "none" => ~spawned)
  BY <1>1 DEF GroupAlive
<1>4. /\ pipe \in [Pipes -> [unread: Nat, shut: BOOLEAN]]
      /\ queue \in [Pipes -> Nat] /\ wrote \in 0..MaxChunks
      /\ req \in [stream: BOOLEAN, idle: BOOLEAN, track: BOOLEAN]
      /\ sent = {} /\ fin = "no"
  BY DEF ProcessInit, ProcessAssumption
<1>5. reg \in {"none", "pending"} BY <1>1
<1>6. Surroundings BY <1>3, <1>4, <1>5 DEF Surroundings
<1>7. GoneIsGone(h) BY <1>2, <1>3 DEF GoneIsGone
<1>8. ReadToTheEnd(h) /\ TimersMean(h, sent) /\ SettledWhole(h, sent)
  BY <1>2 DEF ReadToTheEnd, TimersMean, SettledWhole
<1>9. Finishing BY <1>4, <1>5 DEF Finishing
<1> QED BY <1>2, <1>6, <1>7, <1>8, <1>9 DEF ProcessInv, Sound

\* One call of runProcess, whatever its child, the child's descendants and its consumer do: what
\* each armed timer means, what a settled call has established, and that a group that counts as
\* gone is gone.
THEOREM ProcessInvariant ==
    ProcessSpec => []ProcessInv
PROOF
<1>1. ProcessInit => ProcessInv BY ProcessBegins, ProcessAssumption
<1>2. ProcessInv /\ [ProcessNext]_processVars => ProcessInv'
  <2> SUFFICES ASSUME ProcessInv, [ProcessNext]_processVars PROVE ProcessInv'
    OBVIOUS
  <2> QED BY ProcessAssumption, StepSurrounds, StepSound, StepFinishing DEF ProcessInv
<1> QED BY <1>1, <1>2, PTL DEF ProcessSpec

\* process-lifecycle.md, "release records only after reaping": the record of a group goes only when
\* no process of the group is alive and all its output is consumed; a group that is alive when the
\* call is over was sent SIGKILL and keeps its record; and once a look has found the group gone, no
\* signal goes to its number, which may be another group's.
THEOREM AlwaysOwnershipIsKept ==
    ProcessSpec => []OwnershipIsKept
PROOF
<1>1. ProcessInv => OwnershipIsKept
  <2> SUFFICES ASSUME ProcessInv PROVE OwnershipIsKept
    OBVIOUS
  <2>1. Surroundings /\ Sound(h, sent) /\ Finishing /\ h \in CallStates
    BY DEF ProcessInv, Sound
  <2>2. h.timers \subseteq TimerNames /\ h.ended \subseteq Pipes BY <2>1, CallFields
  <2>3. ProcessTypeOK BY <2>1, <2>2 DEF Surroundings, TimerNames, ProcessTypeOK
  <2>4. reg = "released" => ~GroupAlive /\ ~Holding(queue)
    BY <2>1 DEF Finishing, Sound, GoneIsGone
  <2>5. Over /\ GroupAlive => "KILL" \in sent
    <3>1. Over => h.settled BY <2>1 DEF Finishing, Over
    <3> QED BY <2>1, <3>1 DEF Sound, SettledWhole
  <2>6. "stray" \notin sent BY <2>1 DEF Surroundings
  <2> QED BY <2>3, <2>4, <2>5, <2>6 DEF OwnershipIsKept
<1> QED BY <1>1, ProcessInvariant, PTL

\* The outcome is the leader's own once it has exited by itself, and a result that is not marked
\* truncated has every chunk of both pipes, consumed.
THEOREM AlwaysResultsStand ==
    ProcessSpec => ResultsStand
PROOF
<1> DEFINE Step == /\ h.exited /\ h.failure = "none" =>
                        h'.failure \notin {"deadline", "idle", "abort"}
                   /\ fin' = "resolved" => h.exited /\ (h.truncated \/ Whole)
<1>1. ProcessInv /\ [ProcessNext]_processVars => [Step]_processVars
  <2> SUFFICES ASSUME ProcessInv, [ProcessNext]_processVars PROVE Step
    OBVIOUS
  <2>1. Stands BY StepLeaves
  <2>2. ASSUME fin' = "resolved" PROVE h.exited /\ (h.truncated \/ Whole)
    <3>1. CASE fin' = fin BY <2>2, <3>1 DEF ProcessInv, Finishing
    <3>2. CASE fin' # fin
      <4>1. Deliver \/ Lease
        BY <3>2
        DEF ProcessNext, processVars, Exit, SpawnError, PipeError, Data, End, Writes, Shuts,
            Consumed, ConsumerThrows, Registered, RegistrationFails, Untracked, Flushed, Abort,
            Timers, Deadline, Idle, Poll, Escalate, Backstop, Drain, Delivery, Dies, Reused, Acts
      <4>2. Lease BY <2>2, <4>1 DEF Deliver
      <4> QED BY <2>2, <4>2, LeaseResolves
    <3> QED BY <3>1, <3>2
  <2> QED BY <2>1, <2>2 DEF Stands
<1>2. ProcessInv /\ [ProcessNext]_processVars =>
        [/\ h.exited /\ h.failure = "none" => h'.failure \notin {"deadline", "idle", "abort"}
         /\ fin' = "resolved" => h.exited /\ (h.truncated \/ Whole)]_processVars
  BY <1>1
<1> QED BY <1>2, ProcessInvariant, PTL DEF ProcessSpec, ResultsStand
=============================================================================
