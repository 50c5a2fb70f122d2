--------------------------- MODULE GitRepository ---------------------------
(* The git repository of one agent and the deploy attempts that write to it:  *)
(* the part of _trigger_deployment (app/api/v1/agents.py) between the record  *)
(* it creates and the branch and pull request it records, over the four       *)
(* providers of app/modules/git_provider.  Every call is a step and may fail  *)
(* before or after its effect.  Of a tree only the CI workflow files matter;  *)
(* the agent's version is left out, since a retry deploys the same one.       *)
EXTENDS Integers, FiniteSets

CONSTANTS
    Attempts,          \* the deployments triggered, numbered as they are
    MaxAttemptsOverlapping,  \* bound on the attempts where they may overlap
    WorkflowPaths,     \* where the CI providers keep their workflow file
    NoCommit           \* a branch without a commit

\* The provider's first commit is by nobody, so that no attempt is numbered 0.
ASSUME GitAssumption == Attempts \subseteq Nat \ {0} /\ WorkflowPaths # {}

VARIABLES
    provider,          \* GIT_PROVIDER, fixed by the initial state
    cicd,              \* the workflow path of the tenant's cicd_provider
    repository,        \* does it exist, and the commit at the head of main
    branches,          \* [the deploy branches -> the commit at their head]
    pulls,             \* the attempts whose pull request is open
    attempt,           \* [Attempts -> how far _trigger_deployment is]
    refusals,          \* calls the repository refused because of its own state
    attemptsOverlap    \* may two attempts overlap?  fixed by the initial state

gitVars ==
    <<provider, cicd, repository, branches, pulls, attempt, refusals, attemptsOverlap>>

----------------------------------------------------------------------------

Providers == {"github", "gitlab", "bitbucket", "codecommit"}

\* by: the attempt that made it, 0 for the provider's first commit.
Commit == [by : Attempts \cup {0}, merged : BOOLEAN, workflows : SUBSET WorkflowPaths]
BranchHead == Commit \cup {NoCommit}

ASSUME NoCommitAssumption == NoCommit \notin Commit

Running == {"exists", "create", "file", "branch", "read", "commit", "pull"}
Ended == {"pushed", "failed", "escaped"}

\* deploy/v{version}-{deployment id}, of which the id tells them apart.
DeployBranches == {0} \cup Attempts

GitTypeOK ==
    /\ provider \in Providers
    /\ cicd \in WorkflowPaths
    /\ repository \in [exists : BOOLEAN, main : BranchHead]
    /\ DOMAIN branches \subseteq DeployBranches
    /\ \A b \in DOMAIN branches : branches[b] \in Commit
    /\ pulls \subseteq Attempts
    /\ attempt \in [Attempts -> [at : Running \cup Ended \cup {"idle"},
                                 path : WorkflowPaths,
                                 existed : BOOLEAN, carries : BOOLEAN, parent : BranchHead,
                                 misread : BOOLEAN]]
    /\ refusals \subseteq [attempt : Attempts, main : BranchHead, misread : BOOLEAN]
    /\ attemptsOverlap \in BOOLEAN

GitInit ==
    /\ provider \in Providers
    /\ cicd = CHOOSE p \in WorkflowPaths : TRUE
    /\ repository = [exists |-> FALSE, main |-> NoCommit]
    /\ branches = [b \in {} |-> NoCommit]
    /\ pulls = {}
    /\ attempt = [d \in Attempts |-> [at |-> "idle", path |-> cicd, existed |-> FALSE,
                                      carries |-> TRUE, parent |-> NoCommit,
                                      misread |-> FALSE]]
    /\ refusals = {}
    /\ attemptsOverlap \in BOOLEAN

----------------------------------------------------------------------------
(* How an attempt ends *)

AttemptGoes(d, state) == attempt' = [attempt EXCEPT ![d].at = state]

\* An httpx error marks the record FAILED; the exceptions of CodeCommit's
\* client are none, escape the handler and leave the record as it was created.
Failure == IF provider = "codecommit" THEN "escaped" ELSE "failed"

CallFails(d) == AttemptGoes(d, Failure) /\ UNCHANGED refusals

Refuses(d) ==
    /\ AttemptGoes(d, Failure)
    /\ refusals' = refusals \cup
          {[attempt |-> d, main |-> repository.main, misread |-> attempt[d].misread]}

\* A call that took effect: its answer arrives and the attempt goes on, or is lost.
Answered(d, state) ==
    \E outcome \in {state, Failure} : attempt' = [attempt EXCEPT ![d].at = outcome]

----------------------------------------------------------------------------
(* _trigger_deployment *)

\* The attempt reads the CI provider when it is triggered.
Trigger(d) ==
    /\ attempt[d].at = "idle"
    /\ \A e \in Attempts : e < d => attempt[e].at # "idle"
    /\ IF attemptsOverlap THEN d <= MaxAttemptsOverlapping
       ELSE \A e \in Attempts : attempt[e].at \notin Running
    /\ attempt' = [attempt EXCEPT ![d].at = "exists", ![d].path = cicd]
    /\ UNCHANGED <<provider, cicd, repository, branches, pulls, refusals, attemptsOverlap>>

RepositoryExists(d) ==
    /\ attempt[d].at = "exists"
    /\ \/ /\ attempt' = [attempt EXCEPT ![d].at = IF repository.exists THEN "file" ELSE "create",
                                        ![d].existed = repository.exists]
          /\ UNCHANGED refusals
       \/ CallFails(d)
    /\ UNCHANGED <<provider, cicd, repository, branches, pulls, attemptsOverlap>>

\* GitHub and GitLab give a new repository a first commit; the two others none.
InitialisesRepository == provider \in {"github", "gitlab"}

FirstCommit ==
    IF InitialisesRepository
    THEN [by |-> 0, merged |-> FALSE, workflows |-> {}]
    ELSE NoCommit

CreateRepository(d) ==
    /\ attempt[d].at = "create"
    /\ \/ /\ ~repository.exists
          /\ repository' = [exists |-> TRUE, main |-> FirstCommit]
          /\ Answered(d, "read")
          /\ UNCHANGED refusals
       \/ repository.exists /\ Refuses(d) /\ UNCHANGED repository
       \/ CallFails(d) /\ UNCHANGED repository
    /\ UNCHANGED <<provider, cicd, branches, pulls, attemptsOverlap>>

\* Mutant of WorkflowMissing: a repository that exists has its workflow file.
WorkflowMissingIfNew(d) == {~attempt[d].existed}

\* What file_exists may answer of the workflow file on main, negated.  GitLab's
\* takes an error for a missing file.
WorkflowMissing(d) ==
    {repository.main = NoCommit \/ attempt[d].path \notin repository.main.workflows}
        \cup (IF provider = "gitlab" THEN {TRUE} ELSE {})

FileExists(d) ==
    /\ attempt[d].at = "file"
    /\ \/ /\ \E missing \in WorkflowMissing(d) :
                attempt' = [attempt EXCEPT ![d].at = "branch", ![d].carries = missing]
          /\ UNCHANGED refusals
       \/ CallFails(d)
    /\ UNCHANGED <<provider, cicd, repository, branches, pulls, attemptsOverlap>>

Branch(d) == d

CreateBranch(d) ==
    /\ attempt[d].at = "branch"
    /\ \/ /\ repository.main # NoCommit
          /\ Branch(d) \notin DOMAIN branches
          /\ branches' = [b \in DOMAIN branches \cup {Branch(d)} |->
                             IF b = Branch(d) THEN repository.main ELSE branches[b]]
          /\ Answered(d, "read")
          /\ UNCHANGED refusals
       \/ /\ repository.main = NoCommit \/ Branch(d) \in DOMAIN branches
          /\ Refuses(d)
          /\ UNCHANGED branches
       \/ CallFails(d) /\ UNCHANGED branches
    /\ UNCHANGED <<provider, cicd, repository, pulls, attemptsOverlap>>

----------------------------------------------------------------------------
(* commit_files of the four providers *)

TargetHead(d) == IF attempt[d].existed THEN branches[Branch(d)] ELSE repository.main

\* GitLab's lookup of a file takes every answer but 200 for a missing file.  The
\* README among the files is there since the first commit, so that there always is
\* one to misread.
MayMisread == IF provider = "gitlab" THEN BOOLEAN ELSE {FALSE}

\* What the providers read before they commit: GitHub the scope of its token and
\* the parent, CodeCommit the parent, GitLab which of the files are there.  Only a
\* lookup without any answer ends an attempt on GitLab.
ReadHead(d) ==
    /\ attempt[d].at = "read"
    /\ \/ /\ \E misread \in MayMisread :
                attempt' = [attempt EXCEPT ![d].at = "commit", ![d].parent = TargetHead(d),
                                           ![d].misread = misread]
          /\ UNCHANGED refusals
       \/ provider # "bitbucket" /\ CallFails(d)
    /\ UNCHANGED <<provider, cicd, repository, branches, pulls, attemptsOverlap>>

\* GitHub moves the branch by a fast forward only and CodeCommit compares the
\* parent; GitLab refuses to create a file that is there or to update one that is not.
\* A misread file is one that commit_files would create although it is there.
Applies(d) ==
    LET head == TargetHead(d)
        parent == attempt[d].parent
    IN  CASE provider \in {"github", "codecommit"} -> head = parent
          [] provider = "gitlab" -> head.workflows = parent.workflows /\ ~attempt[d].misread
          [] OTHER -> TRUE

\* The workflow files of the parent's tree that stay: with omit_base_tree, which
\* only GitHub minds, none does.
Kept(d) ==
    IF TargetHead(d) = NoCommit \/ (provider = "github" /\ attempt[d].carries)
    THEN {}
    ELSE TargetHead(d).workflows

Committed(d) ==
    [by |-> d, merged |-> FALSE,
     workflows |-> Kept(d) \cup (IF attempt[d].carries THEN {attempt[d].path} ELSE {})]

CommitFiles(d) ==
    /\ attempt[d].at = "commit"
    /\ \/ /\ Applies(d)
          /\ IF attempt[d].existed
             THEN /\ branches' = [branches EXCEPT ![Branch(d)] = Committed(d)]
                  /\ Answered(d, "pull")
                  /\ UNCHANGED repository
             ELSE /\ repository' = [repository EXCEPT !.main = Committed(d)]
                  /\ Answered(d, "pushed")
                  /\ UNCHANGED branches
          /\ UNCHANGED refusals
       \/ ~Applies(d) /\ Refuses(d) /\ UNCHANGED <<repository, branches>>
       \/ CallFails(d) /\ UNCHANGED <<repository, branches>>
    /\ UNCHANGED <<provider, cicd, pulls, attemptsOverlap>>

----------------------------------------------------------------------------
(* Pull requests *)

CreatePullRequest(d) ==
    /\ attempt[d].at = "pull"
    /\ \/ pulls' = pulls \cup {d} /\ Answered(d, "pushed") /\ UNCHANGED refusals
       \/ CallFails(d) /\ UNCHANGED pulls
    /\ UNCHANGED <<provider, cicd, repository, branches, attemptsOverlap>>

\* merge_pull_request, called by POLICY_CHECK of the workflow.  The providers are
\* assumed to merge only a branch whose base is still the head of main: every
\* deployment rewrites the same lines of the README and the metadata, so that any
\* other conflicts, and its pull request stays open.
MergePullRequest(d) ==
    /\ d \in pulls
    /\ repository.main = attempt[d].parent
    /\ repository' = [repository EXCEPT !.main = [branches[Branch(d)] EXCEPT !.merged = TRUE]]
    /\ pulls' = pulls \ {d}
    /\ UNCHANGED <<provider, cicd, branches, attempt, refusals, attemptsOverlap>>

ClosePullRequest(d) ==
    /\ d \in pulls
    /\ pulls' = pulls \ {d}
    /\ UNCHANGED <<provider, cicd, repository, branches, attempt, refusals, attemptsOverlap>>

ChangeCicdProvider ==
    /\ cicd' \in WorkflowPaths \ {cicd}
    /\ UNCHANGED <<provider, repository, branches, pulls, attempt, refusals, attemptsOverlap>>

GitNext ==
    \/ \E d \in Attempts :
          \/ Trigger(d) \/ RepositoryExists(d) \/ CreateRepository(d) \/ FileExists(d)
          \/ CreateBranch(d) \/ ReadHead(d) \/ CommitFiles(d) \/ CreatePullRequest(d)
          \/ MergePullRequest(d) \/ ClosePullRequest(d)
    \/ ChangeCicdProvider

GitSpec == GitInit /\ [][GitNext]_gitVars

----------------------------------------------------------------------------
(* Properties *)

\* What an earlier attempt left behind (a repository, a branch, a commit, an open
\* pull request) never makes a later one fail, unless it overlaps with it.  Two
\* exceptions: a repository of Bitbucket or CodeCommit that got no first commit, and
\* an attempt on GitLab one of whose lookups was answered with an error, which
\* commit_files takes for a missing file: it creates what is there and is refused.
RetryNotRefused ==
    ~attemptsOverlap =>
        \A r \in refusals :
           \/ ~InitialisesRepository /\ r.main = NoCommit
           \/ provider = "gitlab" /\ r.misread

\* Whatever failed before and whatever overlaps, a deployment's commit holds a CI
\* workflow file, on its branch and once merged: no pull request is opened that no
\* pipeline runs for.
WorkflowCommitted ==
    /\ \A d \in Attempts :
          attempt[d].at = "pushed" /\ attempt[d].existed => branches[Branch(d)].workflows # {}
    /\ repository.main # NoCommit /\ repository.main.by # 0 =>
          repository.main.workflows # {}

\* Both of a repository whose deploys failed somewhere and were retried.
RepositoryMended == RetryNotRefused /\ WorkflowCommitted

=============================================================================
