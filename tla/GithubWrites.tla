--------------------------- MODULE GithubWrites ---------------------------
(* One GitHub write step of a workflow (github-writes.ts): each attempt reads *)
(* what GitHub shows, decides, and writes only what is still missing. An      *)
(* attempt may end anywhere, after a write that GitHub committed and whose    *)
(* answer was lost too; the next attempt has the same idempotency key, and so *)
(* the same marker. GitHub and everybody else who uses the repository are     *)
(* external: they act between any two commands of the step.                   *)
EXTENDS Naturals, FiniteSets

CONSTANTS
    Runs,          \* workflow runs of the commit that checks.rerunFailed names
    Attempts,      \* bound: attempts of the step, over retries and resumes
    MaxTheirs,     \* bound: what others do in the repository
    MaxRunAttempt  \* bound: attempts of a workflow run

\* The bounds are numbers, and there is an attempt.
ASSUME WritesAssumption == Attempts \in Nat \ {0} /\ MaxTheirs \in Nat

VARIABLES
    op,      \* the op and its arguments
    hub,     \* what GitHub holds
    step,    \* the step: where its attempt is, what it read, what it returned
    did,     \* history: the step's own writes that GitHub committed
    theirs   \* history: what others did

vars == <<op, hub, step, did, theirs>>

Sha == "asked"    \* the head that pr.merge and pr.edit name
Base == "main"    \* the base that pr.create and pr.merge name
Scalar == 2       \* rerunFailed's attempt, for runs that its map leaves out
Baseline == 1     \* the attempt its map names

Asked ==
    [kind: {"comment", "pr.create", "pr.edit", "alert.dismiss"}]
    \cup [kind: {"thread.reply"}, resolve: BOOLEAN]
    \cup [kind: {"issue.state"}, to: {"open", "closed"}, comment: BOOLEAN]
    \cup [kind: {"issue.create"}, parent: BOOLEAN]
    \cup [kind: {"pr.merge"}, base: BOOLEAN]
    \cup [kind: {"rerunFailed"}, mapped: SUBSET Runs]

Nothing == [kind |-> "nothing"]
Fresh == [pc |-> "start", try |-> 1, fresh |-> FALSE, resolved |-> FALSE, status |-> "none",
          left |-> {}, result |-> Nothing]

Init ==
    /\ op \in Asked
    /\ hub \in [comments: {0}, resolved: {FALSE, op.kind = "thread.reply"},
                state: {"open", IF op.kind = "issue.state" THEN "closed" ELSE "open"},
                issues: {0}, parent: {"none"}, exists: {TRUE, op.kind # "issue.create"},
                pulls: {{}},
                pr: IF op.kind \in {"pr.edit", "pr.merge"}
                    THEN [state: {"open"}, head: {Sha, "moved"}, base: {Base, "other"},
                          title: {"old", "new"}]
                    ELSE {[state |-> "open", head |-> Sha, base |-> Base, title |-> "old"]},
                alert: {"open", IF op.kind = "alert.dismiss" THEN "fixed" ELSE "open"},
                runs: {[r \in Runs |-> [attempt |-> 1, status |-> "failed"]]}]
    /\ step = Fresh
    /\ did = [comment |-> 0, issue |-> 0, link |-> 0, pull |-> 0, state |-> 0, alert |-> 0,
              edit |-> 0, merge |-> 0, resolve |-> 0, rerun |-> [r \in Runs |-> 0]]
    /\ theirs = 0

-----------------------------------------------------------------------------
\* One attempt of the step

At(kind, pc) == op.kind = kind /\ step.pc = pc
Goes(pc) == step' = [step EXCEPT !.pc = pc]
Returns(result) == step' = [step EXCEPT !.pc = "done", !.result = result]
Reads == UNCHANGED <<op, hub, did, theirs>>

\* The attempt throws, or its process ends: the next one starts over
Fails ==
    step' = IF step.try = Attempts THEN [Fresh EXCEPT !.pc = "failed", !.try = Attempts]
            ELSE [Fresh EXCEPT !.try = step.try + 1]

\* GitHub has committed a write. Its answer arrives and the attempt goes on, or it does not.
Answered(next) ==
    /\ step' = next \/ Fails
    /\ UNCHANGED <<op, theirs>>

Break ==
    /\ step.pc \notin {"done", "failed"}
    /\ Fails
    /\ Reads

\* GitHub refuses the write
Refused == Fails /\ Reads

-----------------------------------------------------------------------------
\* Comments: comment, thread.reply, and the comment of issue.close and issue.reopen

Marked(count) == count > 0

Commented(created) ==
    CASE op.kind = "comment" -> [step EXCEPT !.pc = "done",
                                     !.result = [kind |-> "commented", created |-> created]]
      [] op.kind = "thread.reply" -> [step EXCEPT !.pc = "resolve", !.fresh = created]
      [] op.kind = "issue.state" -> [step EXCEPT !.pc = "patch"]

\* Whether a reply should resolve its thread, as the read of its comments showed the thread
ReadComments ==
    /\ At("comment", "start") \/ At("thread.reply", "start") \/ At("issue.state", "comments")
    /\ LET read == [step EXCEPT !.resolved = hub.resolved]
       IN step' = IF ~Marked(hub.comments) THEN [read EXCEPT !.pc = "post"]
                  ELSE [Commented(FALSE) EXCEPT !.resolved = hub.resolved]
    /\ Reads

PostComment ==
    /\ op.kind \in {"comment", "thread.reply", "issue.state"} /\ step.pc = "post"
    /\ hub' = [hub EXCEPT !.comments = @ + 1]
    /\ did' = [did EXCEPT !.comment = @ + 1]
    /\ Answered(Commented(TRUE))

ThreadReplied(resolved) == [kind |-> "replied", created |-> step.fresh, resolved |-> resolved]

ResolveThread ==
    /\ At("thread.reply", "resolve")
    /\ IF op.resolve /\ ~step.resolved
       THEN /\ hub' = [hub EXCEPT !.resolved = TRUE]
            /\ did' = [did EXCEPT !.resolve = @ + 1]
            /\ Answered([step EXCEPT !.pc = "done", !.result = ThreadReplied(TRUE)])
       ELSE Returns(ThreadReplied(step.resolved)) /\ Reads

-----------------------------------------------------------------------------
\* issue.close and issue.reopen, alert.dismiss

\* Mutant of AfterMatch: the state changes without waiting for the comment.
AfterMatchPatch == "patch"

AfterMatch == IF op.comment THEN "comments" ELSE "patch"

ReadState ==
    /\ At("issue.state", "start")
    /\ IF hub.state = op.to
       THEN Returns([kind |-> "state", state |-> hub.state, acted |-> FALSE])
       ELSE Goes(AfterMatch)
    /\ Reads

PatchState ==
    /\ At("issue.state", "patch")
    /\ hub' = [hub EXCEPT !.state = op.to]
    /\ did' = [did EXCEPT !.state = @ + 1]
    /\ Answered([step EXCEPT !.pc = "done",
                     !.result = [kind |-> "state", state |-> op.to, acted |-> TRUE]])

AlertSettled(state) == state \in {"dismissed", "fixed"}

ReadAlert ==
    /\ At("alert.dismiss", "start")
    /\ IF AlertSettled(hub.alert) THEN Returns([kind |-> "alert", state |-> hub.alert])
       ELSE Goes("patch")
    /\ Reads

\* GitHub refuses to dismiss an alert that is fixed
PatchAlert ==
    /\ At("alert.dismiss", "patch")
    /\ \/ hub.alert # "fixed"
          /\ hub' = [hub EXCEPT !.alert = "dismissed"]
          /\ did' = [did EXCEPT !.alert = @ + 1]
          /\ Answered([step EXCEPT !.pc = "done",
                           !.result = [kind |-> "alert", state |-> "dismissed"]])
       \/ hub.alert = "fixed" /\ Refused

-----------------------------------------------------------------------------
\* issue.create: the wanted parent, the viewer's issues, the issue, its link

Created == [kind |-> "issue", created |-> step.fresh]

ReadParent ==
    /\ At("issue.create", "start")
    /\ IF op.parent /\ ~hub.exists THEN Fails ELSE Goes("list")
    /\ Reads

ListIssues ==
    /\ At("issue.create", "list")
    /\ CASE ~Marked(hub.issues) -> Goes("post")
         [] Marked(hub.issues) /\ op.parent -> Goes("child")
         [] OTHER -> Returns(Created)
    /\ Reads

PostIssue ==
    /\ At("issue.create", "post")
    /\ hub' = [hub EXCEPT !.issues = @ + 1]
    /\ did' = [did EXCEPT !.issue = @ + 1]
    /\ Answered(IF op.parent THEN [step EXCEPT !.pc = "link", !.fresh = TRUE]
                ELSE [step EXCEPT !.pc = "done", !.result = [Created EXCEPT !.created = TRUE]])

ParentDecision(parent) ==
    CASE parent = "none" -> "link" [] parent = "wanted" -> "same" [] OTHER -> "different"

ReadChild ==
    /\ At("issue.create", "child")
    /\ CASE ParentDecision(hub.parent) = "same" -> Returns(Created)
         [] ParentDecision(hub.parent) = "link" -> Goes("link")
         [] OTHER -> Fails
    /\ Reads

\* addSubIssue moves no issue that has a parent
LinkIssue ==
    /\ At("issue.create", "link")
    /\ \/ hub.parent = "none"
          /\ hub' = [hub EXCEPT !.parent = "wanted"]
          /\ did' = [did EXCEPT !.link = @ + 1]
          /\ Answered([step EXCEPT !.pc = "done", !.result = Created])
       \/ hub.parent # "none" /\ Refused

-----------------------------------------------------------------------------
\* pr.create and pr.edit

OpenInto(base) == {r \in hub.pulls : r.open /\ r.base = base}

\* Mutant of Listed: an open pull request comes before the step's own.
ListedOpenFirst(rows) ==
    LET open == {r \in rows : r.open /\ r.base = Base}
    IN IF open # {} THEN open ELSE {r \in rows : r.mine}

\* createDecision: what pr.create may return without creating one
Listed(rows) ==
    LET mine == {r \in rows : r.mine}
    IN IF mine # {} THEN mine ELSE {r \in rows : r.open /\ r.base = Base}

ListPulls ==
    /\ At("pr.create", "start")
    /\ \/ \E r \in Listed(hub.pulls) : Returns([kind |-> "pull", id |-> r.id])
       \/ Listed(hub.pulls) = {} /\ Goes("post")
    /\ Reads

Pull(base, mine) == [id |-> Cardinality(hub.pulls) + 1, mine |-> mine, open |-> TRUE, base |-> base]

\* GitHub allows one open pull request for a head and a base
PostPull ==
    /\ At("pr.create", "post")
    /\ \/ OpenInto(Base) = {}
          /\ hub' = [hub EXCEPT !.pulls = @ \cup {Pull(Base, TRUE)}]
          /\ did' = [did EXCEPT !.pull = @ + 1]
          /\ Answered([step EXCEPT !.pc = "done",
                           !.result = [kind |-> "pull", id |-> Pull(Base, TRUE).id]])
       \/ OpenInto(Base) # {} /\ Refused

Edited(edited, reason) == [kind |-> "edit", edited |-> edited, reason |-> reason]

ReadEdited ==
    /\ At("pr.edit", "start")
    /\ CASE hub.pr.state # "open" -> Returns(Edited(FALSE, "closed"))
         [] hub.pr.state = "open" /\ hub.pr.head # Sha -> Returns(Edited(FALSE, "head-moved"))
         [] hub.pr.state = "open" /\ hub.pr.head = Sha /\ hub.pr.title = "new" ->
                Returns(Edited(FALSE, "none"))
         [] OTHER -> Goes("patch")
    /\ Reads

PatchPull ==
    /\ At("pr.edit", "patch")
    /\ hub' = [hub EXCEPT !.pr.title = "new"]
    /\ did' = [did EXCEPT !.edit = @ + 1]
    /\ Answered([step EXCEPT !.pc = "done", !.result = Edited(TRUE, "none")])

-----------------------------------------------------------------------------
\* pr.merge

MergePrecheck(pr) ==
    CASE pr.state = "merged" /\ pr.head = Sha -> "merged"
      [] pr.state = "merged" /\ pr.head # Sha -> "merged-elsewhere"
      [] pr.state = "closed" -> "closed"
      [] pr.state = "open" /\ pr.head # Sha -> "head-moved"
      [] pr.state = "open" /\ pr.head = Sha /\ op.base /\ pr.base # Base -> "base-changed"
      [] OTHER -> "put"

\* mergeFailure: the pull request read again decides before GitHub's status does
MergeFailure(pr) ==
    LET settled == MergePrecheck(pr)
    IN CASE settled # "put" -> settled
         [] settled = "put" /\ step.status = "409" -> "head-moved"
         [] settled = "put" /\ step.status = "405" -> "not-mergeable"
         [] OTHER -> "unknown"

Merge(merged, reason) == [kind |-> "merge", merged |-> merged, reason |-> reason]

Settled(decision) ==
    CASE decision = "merged" -> Returns(Merge(TRUE, "none"))
      [] decision \in {"merged-elsewhere", "unknown"} -> Fails
      [] OTHER -> Returns(Merge(FALSE, decision))

ReadMerge ==
    /\ At("pr.merge", "start")
    /\ IF MergePrecheck(hub.pr) = "put" THEN Goes("put") ELSE Settled(MergePrecheck(hub.pr))
    /\ Reads

\* GitHub compares the head of the PUT in the same request
Mergeable == hub.pr.state = "open" /\ hub.pr.head = Sha

Put ==
    /\ At("pr.merge", "put")
    /\ Mergeable
    /\ hub' = [hub EXCEPT !.pr.state = "merged"]
    /\ did' = [did EXCEPT !.merge = @ + 1]
    /\ Answered([step EXCEPT !.pc = "confirm"])

\* The head moved (409), the pull request or a rule of its base forbids it (405), or another error
PutRefused ==
    /\ At("pr.merge", "put")
    /\ \E status \in {"405", "409", "422"} :
          /\ status = "409" => hub.pr.head # Sha
          /\ status = "422" => hub.pr.state # "open"
          /\ step' = [step EXCEPT !.pc = "reread", !.status = status]
    /\ Reads

RereadMerge ==
    /\ At("pr.merge", "reread")
    /\ Settled(MergeFailure(hub.pr))
    /\ Reads

\* When GitHub's reads do not show the merge in time, the attempt fails: Break
ConfirmMerge ==
    /\ At("pr.merge", "confirm") /\ hub.pr.state = "merged"
    /\ Returns(Merge(TRUE, "none"))
    /\ Reads

-----------------------------------------------------------------------------
\* checks.rerunFailed

\* Mutant of Selects: a run of the map is rerun at or below the scalar, like the others.
SelectsBelow(r, run) == run.status = "failed" /\ run.attempt <= Scalar

\* rerunSelection
Selects(r, run) ==
    /\ run.status = "failed"
    /\ IF r \in op.mapped THEN run.attempt = Baseline ELSE run.attempt <= Scalar

Reruns == [kind |-> "rerun"]

ListRuns ==
    /\ At("rerunFailed", "start")
    /\ LET chosen == {r \in Runs : Selects(r, hub.runs[r])}
       IN IF chosen = {} THEN Returns(Reruns)
          ELSE step' = [step EXCEPT !.pc = "rerun", !.left = chosen]
    /\ Reads

\* GitHub refuses to rerun a run that is not completed
Rerun(r) ==
    /\ At("rerunFailed", "rerun") /\ r \in step.left
    /\ \/ hub.runs[r].status # "running" /\ hub.runs[r].attempt < MaxRunAttempt
          /\ hub' = [hub EXCEPT !.runs[r] = [attempt |-> @.attempt + 1, status |-> "running"]]
          /\ did' = [did EXCEPT !.rerun[r] = @ + 1]
          /\ Answered(IF step.left = {r}
                      THEN [step EXCEPT !.pc = "done", !.left = {}, !.result = Reruns]
                      ELSE [step EXCEPT !.left = @ \ {r}])
       \/ hub.runs[r].status = "running" /\ Refused

-----------------------------------------------------------------------------
\* GitHub and everybody else

Others(kinds) ==
    /\ op.kind \in kinds /\ step.pc \notin {"done", "failed"}
    /\ theirs < MaxTheirs /\ theirs' = theirs + 1
    /\ UNCHANGED <<op, step, did>>

Discuss ==
    /\ Others({"thread.reply", "issue.state", "issue.create", "alert.dismiss"})
    /\ \/ op.kind = "thread.reply" /\ hub' = [hub EXCEPT !.resolved = ~@]
       \/ op.kind = "issue.state"
          /\ hub' = [hub EXCEPT !.state = IF @ = "open" THEN "closed" ELSE "open"]
       \/ op.kind = "issue.create" /\ hub.issues > 0 /\ hub.parent = "none"
          /\ \E parent \in {"wanted", "other"} : hub' = [hub EXCEPT !.parent = parent]
       \/ op.kind = "alert.dismiss"
          /\ \E state \in {"open", "dismissed", "fixed"} \ {hub.alert} :
                hub' = [hub EXCEPT !.alert = state]

OthersPulls ==
    /\ Others({"pr.create"})
    /\ \/ \E base \in {Base, "other"} :
             /\ OpenInto(base) = {}
             /\ hub' = [hub EXCEPT !.pulls = @ \cup {Pull(base, FALSE)}]
       \/ \E r \in hub.pulls :
             /\ r.open
             /\ hub' = [hub EXCEPT !.pulls = (@ \ {r}) \cup {[r EXCEPT !.open = FALSE]}]
       \/ \E r \in hub.pulls, base \in {Base, "other"} :
             /\ r.open /\ OpenInto(base) = {}
             /\ hub' = [hub EXCEPT !.pulls = (@ \ {r}) \cup {[r EXCEPT !.base = base]}]

OthersPull ==
    /\ Others({"pr.edit", "pr.merge"})
    /\ hub.pr.state # "merged"
    /\ \/ \E state \in {"open", "closed", "merged"} \ {hub.pr.state} :
             /\ state = "merged" => hub.pr.state = "open"
             /\ hub' = [hub EXCEPT !.pr.state = state]
       \/ \E head \in {Sha, "moved"} \ {hub.pr.head} : hub' = [hub EXCEPT !.pr.head = head]
       \/ \E base \in {Base, "other"} \ {hub.pr.base} : hub' = [hub EXCEPT !.pr.base = base]
       \/ hub.pr.title # "theirs" /\ hub' = [hub EXCEPT !.pr.title = "theirs"]

OthersRerun(r) ==
    /\ Others({"rerunFailed"})
    /\ hub.runs[r].status # "running" /\ hub.runs[r].attempt < MaxRunAttempt
    /\ hub' = [hub EXCEPT !.runs[r] = [attempt |-> @.attempt + 1, status |-> "running"]]

RunEnds(r) ==
    /\ op.kind = "rerunFailed" /\ step.pc \notin {"done", "failed"}
    /\ hub.runs[r].status = "running"
    /\ \E status \in {"failed", "passed"} : hub' = [hub EXCEPT !.runs[r].status = status]
    /\ UNCHANGED <<op, step, did, theirs>>

Next ==
    \/ Break
    \/ ReadComments \/ PostComment \/ ResolveThread
    \/ ReadState \/ PatchState \/ ReadAlert \/ PatchAlert
    \/ ReadParent \/ ListIssues \/ PostIssue \/ ReadChild \/ LinkIssue
    \/ ListPulls \/ PostPull \/ ReadEdited \/ PatchPull
    \/ ReadMerge \/ Put \/ PutRefused \/ RereadMerge \/ ConfirmMerge
    \/ ListRuns \/ \E r \in Runs : Rerun(r) \/ OthersRerun(r) \/ RunEnds(r)
    \/ Discuss \/ OthersPulls \/ OthersPull

Spec == Init /\ [][Next]_vars

-----------------------------------------------------------------------------
TypeOK ==
    /\ op \in Asked
    /\ step.pc \in {"start", "comments", "post", "resolve", "patch", "list", "child", "link",
                    "put", "confirm", "reread", "rerun", "done", "failed"}
    /\ step.try \in 1..Attempts /\ step.left \subseteq Runs
    /\ hub.parent \in {"none", "wanted", "other"} /\ hub.pr.state \in {"open", "closed", "merged"}
    /\ theirs \in 0..MaxTheirs

\* However its attempts break, a step posts one comment, creates one issue and one pull request and
\* merges once: a retry after a committed write finds that write by its marker or by the state it
\* left. A state, an alert or a title is written again only after somebody else changed it back; a run
\* of rerunFailed's map is not rerun twice, even when it fails again between the attempts.
WritesOnce ==
    /\ TypeOK
    /\ \A write \in {"comment", "issue", "link", "pull", "merge"} : did[write] <= 1
    /\ \A write \in {"state", "alert", "edit", "resolve"} : did[write] <= 1 + theirs
    /\ op.kind = "rerunFailed" => \A r \in op.mapped : did.rerun[r] <= 1

\* An issue that the step closed or reopened carries the step's comment, whichever of the two an
\* attempt broke after; and no issue is left behind for a parent that does not exist.
NothingIsLost ==
    /\ op.kind = "issue.state" => (op.comment /\ did.state > 0 => hub.comments = 1)
    /\ op.kind = "issue.create" => (op.parent /\ ~hub.exists => did.issue = 0)

\* What the step returns is true of the repository and of all its attempts: `merged: true` means
\* merged at the head the caller named, `merged: false` that no attempt merged it; a created issue
\* has the wanted parent; a pull request the step opened is the one it returns.
OutcomesAreTrue ==
    LET result == step.result
    IN CASE result.kind = "merge" ->
               IF result.merged THEN hub.pr.state = "merged" /\ hub.pr.head = Sha
               ELSE did.merge = 0
         [] result.kind = "issue" -> hub.issues = 1 /\ (op.parent => hub.parent = "wanted")
         [] result.kind = "pull" ->
               \A r \in hub.pulls : r.mine => result.id = r.id
         [] result.kind \in {"commented", "replied"} -> hub.comments = 1
         [] OTHER -> TRUE
=============================================================================
