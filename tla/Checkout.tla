------------------------------ MODULE Checkout ------------------------------
(***************************************************************************)
(* Remote checkouts: checkout/git.py's _resolve_remote, called by concurrent *)
(* indexer runs that share one checkout_root, and the walk that reads what   *)
(* it returns.                                                              *)
(*                                                                         *)
(* The checkout of commit s lives in a directory of its own, <repo>@<s>.    *)
(* Git is external: "git clone" creates the directory, then .git, then       *)
(* checks out the branch's tip, refuses a directory that is not empty, and  *)
(* removes what it created when it fails; "git checkout" needs the objects. *)
(***************************************************************************)
EXTENDS Naturals

CONSTANTS
    Runs,        \* indexer runs, in one process or several
    MaxCommits,  \* bound: commits pushed to the remote's branch
    MaxFaults    \* bound: runs killed

ASSUME CheckoutAssumption == MaxCommits \in Nat \ {0} /\ MaxFaults \in Nat

\* Commits are numbered in the order they are pushed.
Commits == 1..MaxCommits

\* No commit, no tree, no files.
None == 0

VARIABLES
    remote,   \* the branch's tip, and the commits that it reaches
    dir,      \* per commit, its directory under checkout_root
    run,      \* per run, the local state of its _resolve_remote and its walk
    spoiled,  \* history: commits that two runs were cloning at once, or whose
              \* clone was killed once .git was there
    faults    \* how much of the bound is used up

vars == <<remote, dir, run, spoiled, faults>>

\* st: "absent", "empty" (no .git) or "git"; tree: the commit whose files are
\* there, completely; objects: the commits it can be switched to.
Absent == [st |-> "absent", tree |-> None, objects |-> {}]

Fresh == [Absent EXCEPT !.st = "git"]

Init ==
    /\ remote = [tip |-> 1, log |-> {1}]
    /\ dir = [s \in Commits |-> Absent]
    /\ run = [i \in Runs |-> [pc |-> "idle", sha |-> 1, read |-> None]]
    /\ spoiled = {}
    /\ faults = 0

(***************************************************************************)
(* The remote: a commit is pushed, or replaces the tip (git push --force).  *)
(***************************************************************************)
Push(force) ==
    LET new == remote.tip + 1 IN
    /\ remote.tip < MaxCommits
    /\ remote' = [tip |-> new,
                  log |-> (IF force THEN remote.log \ {remote.tip} ELSE remote.log) \cup {new}]
    /\ UNCHANGED <<dir, run, spoiled, faults>>

(***************************************************************************)
(* _resolve_remote.                                                         *)
(***************************************************************************)
\* From the resolution of the commit to the return of the function.
Cloning(i) == run[i].pc \in {"check", "clear", "clone", "init", "fetch", "switch", "cleanup"}

Goto(i, pc) == run' = [run EXCEPT ![i].pc = pc]

\* _ls_remote_head
Resolve(i) ==
    /\ run[i].pc \in {"idle", "done", "failed"}
    /\ run' = [run EXCEPT ![i] = [pc |-> "check", sha |-> remote.tip, read |-> None]]
    /\ spoiled' = IF \E j \in Runs \ {i} : Cloning(j) /\ run[j].sha = remote.tip
                  THEN spoiled \cup {remote.tip} ELSE spoiled
    /\ UNCHANGED <<remote, dir, faults>>

\* Mutant of Present: the directory is not looked for.
PresentNever(d) == FALSE

\* target.exists() and (target / ".git").is_dir()
Present(d) == d.st = "git"

Look(i) ==
    /\ run[i].pc = "check"
    /\ Goto(i, IF Present(dir[run[i].sha]) THEN "read" ELSE "clear")
    /\ UNCHANGED <<remote, dir, spoiled, faults>>

\* if target.exists(): shutil.rmtree(target)
Clear(i) ==
    /\ run[i].pc = "clear"
    /\ dir' = [dir EXCEPT ![run[i].sha] = Absent]
    /\ Goto(i, "clone")
    /\ UNCHANGED <<remote, spoiled, faults>>

\* git clone takes a directory that does not exist or is empty.
CloneMkdir(i) ==
    /\ run[i].pc = "clone"
    /\ dir[run[i].sha].st # "git"
    /\ dir' = [dir EXCEPT ![run[i].sha].st = "empty"]
    /\ Goto(i, "init")
    /\ UNCHANGED <<remote, spoiled, faults>>

CloneRefuses(i) ==
    /\ run[i].pc = "clone"
    /\ dir[run[i].sha].st = "git"
    /\ Goto(i, "cleanup")
    /\ UNCHANGED <<remote, dir, spoiled, faults>>

CloneInit(i) ==
    /\ run[i].pc = "init"
    /\ dir[run[i].sha].st # "absent"
    /\ dir' = [dir EXCEPT ![run[i].sha] = Fresh]
    /\ Goto(i, "fetch")
    /\ UNCHANGED <<remote, spoiled, faults>>

\* The clone ends at the tip the branch has by now.
CloneFetch(i) ==
    LET s == run[i].sha IN
    /\ run[i].pc = "fetch"
    /\ dir[s].st = "git"
    /\ dir' = [dir EXCEPT ![s] = [Fresh EXCEPT !.tree = remote.tip, !.objects = remote.log]]
    /\ Goto(i, "switch")
    /\ UNCHANGED <<remote, spoiled, faults>>

\* The network fails, or the directory has gone.
CloneFails(i) ==
    /\ run[i].pc \in {"init", "fetch"}
    /\ dir' = [dir EXCEPT ![run[i].sha] = Absent]
    /\ Goto(i, "cleanup")
    /\ UNCHANGED <<remote, spoiled, faults>>

\* Mutant of Switched: the checkout of the commit is left out.
NotSwitched(d, s) == d

Switched(d, s) == [d EXCEPT !.tree = s]

\* Repo(target).git.checkout(sha)
Switch(i) ==
    LET s == run[i].sha IN
    /\ run[i].pc = "switch"
    /\ dir[s].st = "git" /\ s \in dir[s].objects
    /\ dir' = [dir EXCEPT ![s] = Switched(dir[s], s)]
    /\ Goto(i, "read")
    /\ UNCHANGED <<remote, spoiled, faults>>

\* The commit is not there any more, or a blob cannot be fetched.
SwitchFails(i) ==
    /\ run[i].pc = "switch"
    /\ dir[run[i].sha].st = "git"
    /\ Goto(i, "cleanup")
    /\ UNCHANGED <<remote, dir, spoiled, faults>>

\* Repo(target) raises something else than GitCommandError: no clean-up.
RepoMissing(i) ==
    /\ run[i].pc = "switch"
    /\ dir[run[i].sha].st # "git"
    /\ Goto(i, "failed")
    /\ UNCHANGED <<remote, dir, spoiled, faults>>

\* Mutant of Removed: the clone that failed stays.
NotRemoved(d) == d

\* Mutant of Removed: only .git is removed.
GitRemoved(d) == [d EXCEPT !.st = "empty"]

Removed(d) == Absent

\* shutil.rmtree(target, ignore_errors=True); raise
Cleanup(i) ==
    /\ run[i].pc = "cleanup"
    /\ dir' = [dir EXCEPT ![run[i].sha] = Removed(dir[run[i].sha])]
    /\ Goto(i, "failed")
    /\ UNCHANGED <<remote, spoiled, faults>>

\* _walk_repo lists and reads the files under root; a directory that is not
\* there has none.
Read(i) ==
    /\ run[i].pc = "read"
    /\ run' = [run EXCEPT ![i] = [@ EXCEPT !.pc = "done", !.read = dir[run[i].sha].tree]]
    /\ UNCHANGED <<remote, dir, spoiled, faults>>

\* The run is killed; a removal may have come to the files and not to .git.
Kill(i) ==
    LET s == run[i].sha IN
    /\ Cloning(i)
    /\ faults < MaxFaults
    /\ faults' = faults + 1
    /\ \/ dir' = dir
       \/ /\ run[i].pc \in {"clear", "cleanup"} /\ dir[s].st = "git"
          /\ dir' = [dir EXCEPT ![s].tree = None]
    /\ spoiled' = IF run[i].pc \in {"fetch", "switch", "cleanup"} THEN spoiled \cup {s} ELSE spoiled
    /\ Goto(i, "idle")
    /\ UNCHANGED remote

Next ==
    \/ \E force \in BOOLEAN : Push(force)
    \/ \E i \in Runs :
          \/ Resolve(i) \/ Look(i) \/ Clear(i)
          \/ CloneMkdir(i) \/ CloneRefuses(i) \/ CloneInit(i) \/ CloneFetch(i) \/ CloneFails(i)
          \/ Switch(i) \/ SwitchFails(i) \/ RepoMissing(i) \/ Cleanup(i)
          \/ Read(i) \/ Kill(i)

Spec == Init /\ [][Next]_vars

-----------------------------------------------------------------------------
(***************************************************************************)
(* Properties.                                                              *)
(***************************************************************************)
Dirs == [st : {"absent", "empty", "git"}, tree : Commits \cup {None}, objects : SUBSET Commits]

Pcs == {"idle", "check", "clear", "clone", "init", "fetch", "switch", "cleanup",
        "read", "done", "failed"}

\* Every variable has its type; only a clone has files.
TypeOK ==
    /\ remote \in [tip : Commits, log : SUBSET Commits]
    /\ dir \in [Commits -> Dirs]
    /\ \A s \in Commits : dir[s].st # "git" => dir[s].tree = None
    /\ run \in [Runs -> [pc : Pcs, sha : Commits, read : Commits \cup {None}]]
    /\ spoiled \subseteq Commits
    /\ faults \in 0..MaxFaults

\* Unless two runs cloned a commit at once or a run was killed while .git was
\* there and the files were not, a run reads the files of the commit it
\* records: however the branch moves, clones fail and directories are reused.
ReadsItsCommit ==
    \A i \in Runs : run[i].pc = "done" /\ run[i].sha \notin spoiled => run[i].read = run[i].sha

\* Between calls a directory with .git holds the whole commit, also when a clone
\* or a switch has failed, the branch moved or a run was killed before it made
\* .git: that .git is there is all the next call looks at (git.py:110).  It does
\* not for the spoiled commits: a run killed in fetching, switching or cleaning
\* up leaves .git without the files, and so may two clones that overlap; the
\* next call takes such a directory for a finished checkout.
GitMeansWhole ==
    \A s \in Commits \ spoiled :
        dir[s].st = "git" /\ (\A i \in Runs : ~(Cloning(i) /\ run[i].sha = s)) => dir[s].tree = s

\* A checkout is never changed under a run that it was returned to, unless its
\* commit is spoiled, at the latest by this step: a run that takes a clone in
\* progress for a checkout reads while the other goes on, fails or cleans up.
NotPulledAway ==
    [][\A i \in Runs : run[i].pc = "read" /\ run[i].sha \notin spoiled'
          => dir'[run[i].sha] = dir[run[i].sha]]_vars

\* git.py:11 "Checkouts are keyed by SHA so concurrent indexer runs never
\* collide": a run reads the files of its commit whatever other runs do.
NeverCollide == \A i \in Runs : run[i].pc = "done" => run[i].read = run[i].sha
=============================================================================
