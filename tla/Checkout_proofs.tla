--------------------------- MODULE Checkout_proofs ---------------------------
(***************************************************************************)
(* For any number of runs, commits and kills: type correctness of Checkout, *)
(* that an undisturbed run reads its commit, and that no checkout is changed *)
(* under a run it was returned to.                                          *)
(***************************************************************************)
EXTENDS Checkout, TLAPS

\* Stages in which a run has found no checkout and builds one.
Building == {"clear", "clone", "init", "fetch", "switch", "cleanup"}

\* Stages that may leave .git behind without the files of the commit.
Dirty == {"fetch", "switch", "cleanup"}

Whole(s) == dir[s].st = "git" /\ dir[s].tree = s

\* Two runs clone one commit at once only if that has been noted.
Exclusive ==
    \A i, j \in Runs : i # j /\ Cloning(i) /\ Cloning(j) /\ run[i].sha = run[j].sha
        => run[i].sha \in spoiled

\* What each stage of an undisturbed run knows of its directory.
Stage ==
    \A i \in Runs : run[i].sha \notin spoiled =>
        /\ run[i].pc \in {"clear", "clone", "init"} => dir[run[i].sha].st # "git"
        /\ run[i].pc = "read" => Whole(run[i].sha)
        /\ run[i].pc = "done" => run[i].read = run[i].sha

\* A checkout that was returned is not being built by anybody.
Returned ==
    \A i, j \in Runs : run[i].sha \notin spoiled /\ run[i].pc = "read" /\ run[j].sha = run[i].sha
        => run[j].pc \notin Building

\* Where .git is, the files are, unless some run is in a dirty stage.
Clean ==
    \A s \in Commits : s \notin spoiled /\ dir[s].st = "git" =>
        \/ dir[s].tree = s
        \/ \E i \in Runs : run[i].sha = s /\ run[i].pc \in Dirty

CheckoutInv == TypeOK /\ Exclusive /\ Stage /\ Returned /\ Clean

-----------------------------------------------------------------------------
\* The type invariant is inductive: a step moves one run and sets one directory.
LEMMA TypeStep == TypeOK /\ [Next]_vars => TypeOK'
<1> SUFFICES ASSUME TypeOK, [Next]_vars PROVE TypeOK'
    OBVIOUS
<1> DEFINE RunType == run \in [Runs -> [pc : Pcs, sha : Commits, read : Commits \cup {None}]]
           Proper(d) == d \in Dirs /\ (d.st # "git" => d.tree = None)
           DirType == dir \in [Commits -> Dirs]
                          /\ \A s \in Commits : dir[s].st # "git" => dir[s].tree = None
<1>a. ASSUME NEW i \in Runs, NEW pc \in Pcs, Goto(i, pc) PROVE RunType'
    BY <1>a DEF Goto, TypeOK
<1>b. ASSUME NEW s \in Commits, NEW d, Proper(d), dir' = [dir EXCEPT ![s] = d] PROVE DirType'
    BY <1>b DEF TypeOK
<1>c. Proper(Absent) /\ Proper(Fresh)
    BY DEF Absent, Fresh, Dirs
<1>d. \A i \in Runs : run[i].sha \in Commits /\ Proper(dir[run[i].sha])
    BY DEF TypeOK
<1>e. remote.tip \in Commits /\ remote.log \subseteq Commits
    BY DEF TypeOK
<1>1. CASE UNCHANGED vars
    BY <1>1 DEF vars, TypeOK
<1>2. ASSUME NEW force \in BOOLEAN, Push(force) PROVE TypeOK'
    BY <1>2, CheckoutAssumption DEF Push, Commits, TypeOK
<1>3. ASSUME NEW i \in Runs, Resolve(i) PROVE TypeOK'
    BY <1>3 DEF Resolve, TypeOK, Pcs
<1>4. ASSUME NEW i \in Runs, Look(i) \/ CloneRefuses(i) \/ SwitchFails(i) \/ RepoMissing(i)
      PROVE  TypeOK'
  <2>1. UNCHANGED <<remote, dir, spoiled, faults>>
      BY <1>4 DEF Look, CloneRefuses, SwitchFails, RepoMissing
  <2>2. \E pc \in Pcs : Goto(i, pc)
      BY <1>4 DEF Look, CloneRefuses, SwitchFails, RepoMissing, Pcs
  <2> QED
      BY <1>a, <2>1, <2>2 DEF TypeOK
<1>5. ASSUME NEW i \in Runs, NEW pc \in Pcs, NEW d, Proper(d), Goto(i, pc),
             dir' = [dir EXCEPT ![run[i].sha] = d], UNCHANGED <<remote, spoiled, faults>>
      PROVE  TypeOK'
    BY <1>a, <1>b, <1>d, <1>5 DEF TypeOK
<1>6. ASSUME NEW i \in Runs, Clear(i) PROVE TypeOK'
    BY <1>5, <1>6, <1>c DEF Clear, Pcs
<1>7. ASSUME NEW i \in Runs, CloneFails(i) PROVE TypeOK'
    BY <1>5, <1>7, <1>c DEF CloneFails, Pcs
<1>8. ASSUME NEW i \in Runs, Cleanup(i) PROVE TypeOK'
    BY <1>5, <1>8, <1>c DEF Cleanup, Removed, Pcs
<1>9. ASSUME NEW i \in Runs, CloneInit(i) PROVE TypeOK'
    BY <1>5, <1>9, <1>c DEF CloneInit, Pcs
<1>10. ASSUME NEW i \in Runs, CloneMkdir(i) PROVE TypeOK'
  <2> DEFINE d == [dir[run[i].sha] EXCEPT !.st = "empty"]
  <2>1. dir' = [dir EXCEPT ![run[i].sha] = d] /\ dir[run[i].sha].st # "git" /\ Goto(i, "init")
            /\ UNCHANGED <<remote, spoiled, faults>>
      BY <1>10 DEF CloneMkdir
  <2>2. Proper(d)
      BY <1>d, <2>1 DEF Dirs
  <2>3. "init" \in Pcs
      BY DEF Pcs
  <2> HIDE DEF d, Proper
  <2> QED
      BY <1>5, <2>1, <2>2, <2>3
<1>11. ASSUME NEW i \in Runs, CloneFetch(i) PROVE TypeOK'
  <2> DEFINE d == [Fresh EXCEPT !.tree = remote.tip, !.objects = remote.log]
  <2>1. dir' = [dir EXCEPT ![run[i].sha] = d] /\ Goto(i, "switch")
            /\ UNCHANGED <<remote, spoiled, faults>>
      BY <1>11 DEF CloneFetch
  <2>2. Proper(d)
      BY <1>e DEF Dirs, Fresh, Absent
  <2>3. "switch" \in Pcs
      BY DEF Pcs
  <2> HIDE DEF d, Proper
  <2> QED
      BY <1>5, <2>1, <2>2, <2>3
<1>12. ASSUME NEW i \in Runs, Switch(i) PROVE TypeOK'
  <2> DEFINE d == [dir[run[i].sha] EXCEPT !.tree = run[i].sha]
  <2>1. dir' = [dir EXCEPT ![run[i].sha] = d] /\ dir[run[i].sha].st = "git" /\ Goto(i, "read")
            /\ UNCHANGED <<remote, spoiled, faults>>
      BY <1>12 DEF Switch, Switched
  <2>2. Proper(d)
      BY <1>d, <2>1 DEF Dirs
  <2>3. "read" \in Pcs
      BY DEF Pcs
  <2> HIDE DEF d, Proper
  <2> QED
      BY <1>5, <2>1, <2>2, <2>3
<1>13. ASSUME NEW i \in Runs, Read(i) PROVE TypeOK'
  <2>1. dir[run[i].sha].tree \in Commits \cup {None}
      BY <1>d DEF Dirs
  <2> QED
      BY <1>13, <2>1 DEF Read, TypeOK, Pcs
<1>14. ASSUME NEW i \in Runs, Kill(i) PROVE TypeOK'
  <2>1. RunType' /\ remote' = remote
      BY <1>14, <1>a DEF Kill, Pcs
  <2>2. spoiled' \subseteq Commits /\ faults' \in 0..MaxFaults
      BY <1>14, CheckoutAssumption DEF Kill, TypeOK
  <2>3. CASE dir' = dir
      BY <2>1, <2>2, <2>3 DEF TypeOK
  <2>4. CASE dir[run[i].sha].st = "git" /\ dir' = [dir EXCEPT ![run[i].sha].tree = None]
    <3> DEFINE d == [dir[run[i].sha] EXCEPT !.tree = None]
    <3>1. Proper(d)
        BY <1>d, <2>4 DEF Dirs
    <3>2. dir' = [dir EXCEPT ![run[i].sha] = d]
        BY <2>4
    <3> HIDE DEF d, Proper
    <3>3. DirType'
        BY <1>b, <1>d, <3>1, <3>2
    <3> QED
        BY <2>1, <2>2, <3>3 DEF TypeOK
  <2> QED
      BY <1>14, <2>3, <2>4 DEF Kill
<1> QED
    BY <1>1, <1>2, <1>3, <1>4, <1>6, <1>7, <1>8, <1>9, <1>10, <1>11, <1>12, <1>13, <1>14
    DEF Next

\* Checkout is type-correct, and only a directory with .git has files in it.
THEOREM TypeCorrect == Spec => []TypeOK
<1>1. Init => TypeOK
    BY CheckoutAssumption DEF Init, TypeOK, Absent, Dirs, Pcs, Commits, None
<1> QED
    BY <1>1, TypeStep, PTL DEF Spec

-----------------------------------------------------------------------------
\* Every step keeps the invariant.  Each case says what the step changes; the
\* invariant's parts follow for the runs and the directory it touches.
LEMMA InvStep == CheckoutInv /\ [Next]_vars => CheckoutInv'
<1> SUFFICES ASSUME CheckoutInv, [Next]_vars PROVE CheckoutInv'
    OBVIOUS
<1> TypeOK'
    BY TypeStep DEF CheckoutInv
<1> USE DEF CheckoutInv, TypeOK, Dirs, Pcs, Exclusive, Stage, Returned, Clean, Cloning,
            Building, Dirty, Whole
<1>1. CASE UNCHANGED vars
    BY <1>1 DEF vars
<1>2. ASSUME NEW force \in BOOLEAN, Push(force) PROVE CheckoutInv'
    BY <1>2 DEF Push
<1>3. ASSUME NEW i \in Runs, Resolve(i) PROVE CheckoutInv'
    BY <1>3 DEF Resolve
<1>4. ASSUME NEW i \in Runs, Look(i) PROVE CheckoutInv'
  <2>1. CASE dir[run[i].sha].st = "git"
    <3>1. run' = [run EXCEPT ![i].pc = "read"]
        BY <1>4, <2>1 DEF Look, Goto, Present
    <3>2. run[i].sha \notin spoiled => Whole(run[i].sha)
        BY <1>4, <2>1 DEF Look
    <3>3. UNCHANGED <<dir, spoiled>> /\ run[i].pc = "check"
        BY <1>4 DEF Look
    <3> QED
        BY <3>1, <3>2, <3>3
  <2>2. CASE dir[run[i].sha].st # "git"
    <3>1. run' = [run EXCEPT ![i].pc = "clear"]
        BY <1>4, <2>2 DEF Look, Goto, Present
    <3>2. UNCHANGED <<dir, spoiled>> /\ run[i].pc = "check"
        BY <1>4 DEF Look
    <3> QED
        BY <2>2, <3>1, <3>2
  <2> QED
      BY <2>1, <2>2
<1>5. ASSUME NEW i \in Runs, CloneRefuses(i) \/ SwitchFails(i) \/ RepoMissing(i)
      PROVE  CheckoutInv'
    BY <1>5, SMTT(30) DEF CloneRefuses, SwitchFails, RepoMissing, Goto
<1>6. ASSUME NEW i \in Runs, Clear(i) PROVE CheckoutInv'
    BY <1>6, SMTT(30) DEF Clear, Goto, Absent
<1>7. ASSUME NEW i \in Runs, CloneMkdir(i) PROVE CheckoutInv'
    BY <1>7, SMTT(30) DEF CloneMkdir, Goto
<1>8. ASSUME NEW i \in Runs, CloneInit(i) PROVE CheckoutInv'
    BY <1>8, SMTT(30) DEF CloneInit, Goto, Fresh, Absent
<1>9. ASSUME NEW i \in Runs, CloneFetch(i) PROVE CheckoutInv'
    BY <1>9, SMTT(30) DEF CloneFetch, Goto, Fresh, Absent
<1>10. ASSUME NEW i \in Runs, CloneFails(i) PROVE CheckoutInv'
    BY <1>10 DEF CloneFails, Goto, Absent
<1>11. ASSUME NEW i \in Runs, Switch(i) PROVE CheckoutInv'
  <2>1. /\ run[i].pc = "switch" /\ dir[run[i].sha].st = "git" /\ UNCHANGED spoiled
        /\ dir' = [dir EXCEPT ![run[i].sha].tree = run[i].sha]
      BY <1>11 DEF Switch, Switched
  <2>2. run' = [run EXCEPT ![i].pc = "read"]
      BY <1>11 DEF Switch, Goto
  <2>3. \A j \in Runs : run'[j].sha = run[j].sha /\ (j # i => run'[j] = run[j])
      BY <2>2
  <2>4. run'[i].pc = "read"
      BY <2>2
  <2>5. \A s \in Commits : dir'[s].st = dir[s].st /\ (s # run[i].sha => dir'[s] = dir[s])
      BY <2>1
  <2>6. dir'[run[i].sha].tree = run[i].sha
      BY <2>1
  <2>t. Exclusive /\ Stage /\ Returned /\ Clean /\ TypeOK' /\ \A j \in Runs : run[j].sha \in Commits
      OBVIOUS
  <2> HIDE DEF CheckoutInv, TypeOK
  <2>7. Exclusive'
      BY <2>1, <2>3, <2>4, <2>t
  <2>8. Stage'
      BY <2>1, <2>3, <2>4, <2>5, <2>6, <2>t
  <2>9. Returned'
      BY <2>1, <2>3, <2>4, <2>t
  <2>10. Clean'
      BY <2>1, <2>3, <2>4, <2>5, <2>6, <2>t
  <2> HIDE DEF Exclusive, Stage, Returned, Clean
  <2> QED
      BY <2>7, <2>8, <2>9, <2>10, <2>t DEF CheckoutInv
<1>12. ASSUME NEW i \in Runs, Read(i) PROVE CheckoutInv'
  <2>1. run[i].pc = "read" /\ UNCHANGED <<dir, spoiled>>
      BY <1>12 DEF Read
  <2>2. \A j \in Runs : run'[j].sha = run[j].sha /\ (j # i => run'[j] = run[j])
      BY <1>12 DEF Read
  <2>3. run'[i].pc = "done" /\ run'[i].read = dir[run[i].sha].tree
      BY <1>12 DEF Read
  <2>4. \A s \in Commits : Whole(s)' = Whole(s)
      BY <2>1
  <2>5. Exclusive'
      BY <2>1, <2>2, <2>3
  <2>6. Stage'
      BY <2>1, <2>2, <2>3, <2>4
  <2>7. Returned'
      BY <2>1, <2>2, <2>3
  <2>8. Clean'
    <3>1. \A j \in Runs : run[j].pc \in Dirty => run'[j].pc \in Dirty
        BY <2>1, <2>2
    <3> QED
        BY <2>1, <2>2, <3>1
  <2> QED
      BY <2>5, <2>6, <2>7, <2>8
<1>13. ASSUME NEW i \in Runs, Kill(i) PROVE CheckoutInv'
    BY <1>13 DEF Kill, Goto
<1>14. ASSUME NEW i \in Runs, Cleanup(i) PROVE CheckoutInv'
    BY <1>14 DEF Cleanup, Goto, Absent, Removed
<1> HIDE DEF CheckoutInv, TypeOK, Dirs, Pcs, Exclusive, Stage, Returned, Clean, Cloning,
             Building, Dirty, Whole
<1> QED
    BY <1>1, <1>2, <1>3, <1>4, <1>5, <1>6, <1>7, <1>8, <1>9, <1>10, <1>11, <1>12, <1>13,
       <1>14
    DEF Next

\* The invariant holds throughout.
LEMMA InvCorrect == Spec => []CheckoutInv
<1>1. Init => CheckoutInv
    BY CheckoutAssumption
    DEF Init, CheckoutInv, TypeOK, Absent, Dirs, Pcs, Commits, None, Exclusive, Stage,
        Returned, Clean, Cloning, Building, Dirty, Whole
<1> QED
    BY <1>1, InvStep, PTL DEF Spec

\* A run that was not disturbed reads exactly the files of the commit that
\* index_workspace records for it (_resolve_remote's return value).
THEOREM ReadsCorrect == Spec => []ReadsItsCommit
<1>1. CheckoutInv => ReadsItsCommit
    BY DEF CheckoutInv, Stage, ReadsItsCommit
<1> QED
    BY <1>1, InvCorrect, PTL

\* Between calls of _resolve_remote, .git stands for the whole commit, so that
\* the test for it at git.py:110 is enough: except for the commits in spoiled,
\* whose clone was killed once .git was there or overlapped another one.
THEOREM PresenceEnough == Spec => []GitMeansWhole
<1>1. CheckoutInv => GitMeansWhole
    BY DEF CheckoutInv, Clean, Dirty, Cloning, GitMeansWhole
<1> QED
    BY <1>1, InvCorrect, PTL

\* GitMeansWhole without an exception.
AlwaysWhole ==
    \A s \in Commits :
        dir[s].st = "git" /\ (\A i \in Runs : ~(Cloning(i) /\ run[i].sha = s)) => dir[s].tree = s

\* There is one run at a time, and none is killed.
Alone == MaxFaults = 0 /\ \A i, j \in Runs : i = j

\* Where runs do not overlap and none is killed, no commit is excepted: .git
\* stands for the whole commit in every directory no call is at work on,
\* however the branch moves and clones and switches fail (git.py:110).
THEOREM PresenceEnoughAlone == ASSUME Alone PROVE Spec => []AlwaysWhole
<1> DEFINE Spotless == spoiled = {}
<1>1. Init => Spotless
    BY DEF Init
<1>2. ASSUME TypeOK, Spotless, [Next]_vars PROVE Spotless'
  <2> USE <1>2 DEF Spotless
  <2>1. ASSUME NEW i \in Runs, Resolve(i) PROVE Spotless'
      BY <2>1 DEF Alone, Resolve
  <2>2. ASSUME NEW i \in Runs, Kill(i) PROVE Spotless'
      BY <2>2 DEF Alone, Kill, TypeOK
  <2> QED
      BY <2>1, <2>2 DEF Next, vars, Push, Look, Clear, CloneMkdir, CloneRefuses, CloneInit,
          CloneFetch, CloneFails, Switch, SwitchFails, RepoMissing, Cleanup, Read
<1>3. GitMeansWhole /\ Spotless => AlwaysWhole
    BY DEF GitMeansWhole, AlwaysWhole
<1> HIDE DEF Spotless
<1> QED
    BY <1>1, <1>2, <1>3, TypeCorrect, PresenceEnough, PTL DEF Spec

Untouched(i) ==
    run[i].pc = "read" /\ run[i].sha \notin spoiled' => dir'[run[i].sha] = dir[run[i].sha]

\* No step of any run changes a directory that was returned and is still to be
\* read, unless the commit is spoiled, at the latest by that step.
THEOREM NeverPulledAway == Spec => NotPulledAway
<1>1. ASSUME CheckoutInv, [Next]_vars, NEW i \in Runs PROVE Untouched(i)
  <2> USE <1>1 DEF CheckoutInv, TypeOK, Returned, Building, Untouched
  <2>1. spoiled \subseteq spoiled'
    BY DEF Next, vars, Push, Resolve, Look, Clear, CloneMkdir, CloneRefuses, CloneInit,
           CloneFetch, CloneFails, Switch, SwitchFails, RepoMissing, Cleanup, Read, Kill
  <2>2. CASE dir' = dir
    BY <2>2
  <2>3. ASSUME NEW j \in Runs, run[j].pc \in Building, UNCHANGED remote,
               \A s \in Commits : s # run[j].sha => dir'[s] = dir[s]
        PROVE  Untouched(i)
    BY <2>1, <2>3
  <2> QED
    BY <2>2, <2>3
    DEF Next, vars, Push, Resolve, Look, Clear, CloneMkdir, CloneRefuses, CloneInit,
        CloneFetch, CloneFails, Switch, SwitchFails, RepoMissing, Cleanup, Read, Kill
<1>2. CheckoutInv /\ [Next]_vars => [\A i \in Runs : Untouched(i)]_vars
    BY <1>1
<1> QED
    BY <1>2, InvCorrect, PTL DEF NotPulledAway, Spec, Untouched
=============================================================================
