----------------------------- MODULE PackInstall -----------------------------
(***************************************************************************)
(* Installing and uninstalling Lesson Packs, src/pack.ts: processes that    *)
(* share one pitlore.lock.yaml and one content-addressed cache.             *)
(*                                                                         *)
(* A process verifies the packs it was given, waits for the guard file      *)
(* beside the lockfile, and only then reads the lockfile, resolves the      *)
(* dependencies against it, copies the packs into the cache and replaces    *)
(* the lockfile with one rename. Several packs may come as one bundle.      *)
(* Cached packs are never removed. Nothing but an operator removes the      *)
(* guard of a process that died.                                            *)
(***************************************************************************)
EXTENDS Naturals

CONSTANTS
  Proc,      \* the processes
  Free,      \* no guard file
  Name,      \* pack names
  Artifact   \* the verified packs there are to install

\* needs[n]: the versions of n that the range in the manifest accepts.
ASSUME ArtifactAssumption ==
  \A a \in Artifact :
    /\ a.name \in Name /\ a.version \in Nat
    /\ DOMAIN a.needs \subseteq Name \ {a.name}
    /\ \A n \in DOMAIN a.needs : a.needs[n] \subseteq Nat
ASSUME FreeAssumption == Free \notin Proc

VARIABLES
  lockfile,  \* pitlore.lock.yaml
  cache,     \* the packs whose directory is in the cache
  guard,     \* the process that created the guard file, or Free
  pc,        \* pc[p]: where p is
  op,        \* op[p]: what it was asked to do
  working,   \* working[p]: the lock it is computing
  todo       \* todo[p]: the packs it has yet to resolve and cache

vars == <<lockfile, cache, guard, pc, op, working, todo>>

-----------------------------------------------------------------------------
(* Locks.                                                                   *)

\* A lock names its root packs, and has an entry for each of its packages that
\* pins the dependencies to the versions they had when it was made.
IsLock(lock) ==
  /\ lock = [roots |-> lock.roots, packages |-> lock.packages]
  /\ lock.roots \subseteq Name
  /\ DOMAIN lock.packages \subseteq Name
  /\ \A n \in DOMAIN lock.packages :
       LET entry == lock.packages[n] IN
       /\ entry.artifact \in Artifact /\ entry.artifact.name = n
       /\ entry.pins \in [DOMAIN entry.artifact.needs -> Nat]

\* What loadPackLock returns when there is no file.
EmptyLock == [roots |-> {}, packages |-> <<>>]

Installed(lock) == DOMAIN lock.packages

ArtifactOf(lock, n) == lock.packages[n].artifact

VersionOf(lock, n) == ArtifactOf(lock, n).version

DependenciesOf(lock, n) == DOMAIN lock.packages[n].pins

GraphWithoutVersions(lock) ==
  /\ lock.roots \subseteq Installed(lock)
  /\ \A n \in Installed(lock) : DependenciesOf(lock, n) \subseteq Installed(lock)

\* validateDependencyGraph: roots and dependencies are there, at the versions
\* they are pinned to; there is no cycle, and nothing that no root needs.
ValidGraph(lock) ==
  /\ lock.roots \subseteq Installed(lock)
  /\ \A n \in Installed(lock) : \A d \in DependenciesOf(lock, n) :
       d \in Installed(lock) /\ VersionOf(lock, d) = lock.packages[n].pins[d]
  /\ \A S \in SUBSET Installed(lock) \ {{}} :
       \E n \in S : DependenciesOf(lock, n) \cap S = {}
  /\ \A S \in SUBSET Installed(lock) :
       lock.roots \subseteq S /\ (\A n \in S : DependenciesOf(lock, n) \subseteq S)
         => S = Installed(lock)

AlteredRoot(a, lock) ==
  /\ a.name \in lock.roots
  /\ lock.packages[a.name].artifact.version = a.version
  /\ lock.packages[a.name].artifact # a

\* resolveDependencies: every dependency is installed at a compatible version.
Resolvable(a, lock) ==
  \A n \in DOMAIN a.needs : n \in Installed(lock) /\ VersionOf(lock, n) \in a.needs[n]

\* The same version was locked with another content.
Altered(a, lock) ==
  /\ a.name \in Installed(lock)
  /\ VersionOf(lock, a.name) = a.version
  /\ ArtifactOf(lock, a.name) # a

WithPackUnpinned(lock, a) ==
  [lock EXCEPT !.packages = [n \in Installed(lock) \cup {a.name} |->
                               IF n = a.name THEN [artifact |-> a, pins |-> <<>>]
                               ELSE lock.packages[n]]]

WithPack(lock, a) ==
  LET entry == [artifact |-> a, pins |-> [n \in DOMAIN a.needs |-> VersionOf(lock, n)]]
  IN  [lock EXCEPT !.packages = [n \in Installed(lock) \cup {a.name} |->
                                   IF n = a.name THEN entry ELSE lock.packages[n]]]

Without(lock, n) ==
  [roots |-> lock.roots \ {n},
   packages |-> [m \in Installed(lock) \ {n} |-> lock.packages[m]]]

NeededByOther(lock, n) == \E m \in Installed(lock) \ {n} : n \in DependenciesOf(lock, m)

-----------------------------------------------------------------------------
(* What a process can be asked for.                                         *)

\* verifyAirgapPackBundle: packs of different names, the root and exactly its
\* dependency closure, every dependency inside and compatible, no cycle.
IsBundle(S, root) ==
  /\ \A a, b \in S : a.name = b.name => a = b
  /\ root \in {a.name : a \in S}
  /\ \A a \in S : \A n \in DOMAIN a.needs :
       \E b \in S : b.name = n /\ b.version \in a.needs[n]
  /\ \A T \in SUBSET S \ {{}} :
       \E a \in T : DOMAIN a.needs \cap {b.name : b \in T} = {}
  /\ \A T \in SUBSET S :
       /\ root \in {a.name : a \in T}
       /\ \A a \in T : \A n \in DOMAIN a.needs : n \in {b.name : b \in T}
       => T = S

Install == [kind : {"install"}, packs : {{a} : a \in Artifact}, root : Name]

\* installPack and its variants give one pack, installAirgapPackBundle several.
Operation ==
  {o \in Install : \A a \in o.packs : a.name = o.root}
    \cup {o \in [kind : {"bundle"}, packs : SUBSET Artifact, root : Name] : IsBundle(o.packs, o.root)}
    \cup [kind : {"uninstall"}, packs : {{}}, root : Name]

NoOp == [kind |-> "none", packs |-> {}, root |-> Free]

Pc == {"idle", "waiting", "guarded", "resolving", "validating", "writing",
       "synced", "checked", "closing", "refused"}

TypeOK ==
  /\ IsLock(lockfile)
  /\ cache \subseteq Artifact
  /\ guard \in Proc \cup {Free}
  /\ pc \in [Proc -> Pc]
  /\ op \in [Proc -> Operation \cup {NoOp}]
  /\ DOMAIN working = Proc /\ \A p \in Proc : IsLock(working[p])
  /\ todo \in [Proc -> SUBSET Artifact]

Init ==
  /\ lockfile = EmptyLock
  /\ cache = {}
  /\ guard = Free
  /\ pc = [p \in Proc |-> "idle"]
  /\ op = [p \in Proc |-> NoOp]
  /\ working = [p \in Proc |-> EmptyLock]
  /\ todo = [p \in Proc |-> {}]

Goto(p, place) == pc' = [pc EXCEPT ![p] = place]

-----------------------------------------------------------------------------
(* The guard file (withPackLockMutation).                                   *)

\* The packs are fetched and verified before the guard is asked for.
Begin(p, o) ==
  /\ pc[p] = "idle"
  /\ op' = [op EXCEPT ![p] = o]
  /\ Goto(p, "waiting")
  /\ UNCHANGED <<lockfile, cache, guard, working, todo>>

AcquireAnyway(p) ==
  /\ pc[p] = "waiting"
  /\ guard' = p
  /\ Goto(p, "guarded")
  /\ UNCHANGED <<lockfile, cache, op, working, todo>>

\* Exclusive creation, tried again until it succeeds or the time is over.
Acquire(p) ==
  /\ pc[p] = "waiting"
  /\ guard = Free
  /\ guard' = p
  /\ Goto(p, "guarded")
  /\ UNCHANGED <<lockfile, cache, op, working, todo>>

\* The process forgets what it was doing.
Forget(p) ==
  /\ Goto(p, "idle")
  /\ op' = [op EXCEPT ![p] = NoOp]
  /\ working' = [working EXCEPT ![p] = EmptyLock]
  /\ todo' = [todo EXCEPT ![p] = {}]

TimeOut(p) ==
  /\ pc[p] = "waiting"
  /\ guard # Free
  /\ Forget(p)
  /\ UNCHANGED <<lockfile, cache, guard>>

\* Only the guard file that p created is removed.
Release(p) ==
  /\ pc[p] \in {"closing", "refused"}
  /\ guard' = IF guard = p THEN Free ELSE guard
  /\ Forget(p)
  /\ UNCHANGED <<lockfile, cache>>

-----------------------------------------------------------------------------
(* The mutation, under the guard.                                           *)

\* loadPackLock.
Load(p) ==
  /\ pc[p] = "guarded"
  /\ working' = [working EXCEPT ![p] = lockfile]
  /\ todo' = [todo EXCEPT ![p] = op[p].packs]
  /\ Goto(p, "resolving")
  /\ UNCHANGED <<lockfile, cache, guard, op>>

\* A pack that needs none of those that are still to come.
NextPack(p, a) ==
  /\ pc[p] = "resolving"
  /\ a \in todo[p]
  /\ DOMAIN a.needs \cap {b.name : b \in todo[p]} = {}

InstallUncached(p, a) ==
  /\ NextPack(p, a)
  /\ Resolvable(a, working[p]) /\ ~Altered(a, working[p])
  /\ working' = [working EXCEPT ![p] = WithPack(@, a)]
  /\ todo' = [todo EXCEPT ![p] = @ \ {a}]
  /\ UNCHANGED <<lockfile, cache, guard, pc, op>>

\* installVerifiedPack, the loop of installAirgapPackBundle: the dependencies
\* are resolved against what is locked and what came before in the bundle, and
\* cachePack renames a complete copy of the pack into the cache.
InstallOne(p, a) ==
  /\ NextPack(p, a)
  /\ Resolvable(a, working[p]) /\ ~Altered(a, working[p])
  /\ cache' = cache \cup {a}
  /\ working' = [working EXCEPT ![p] = WithPack(@, a)]
  /\ todo' = [todo EXCEPT ![p] = @ \ {a}]
  /\ UNCHANGED <<lockfile, guard, pc, op>>

RefuseOne(p, a) ==
  /\ NextPack(p, a)
  /\ ~Resolvable(a, working[p]) \/ Altered(a, working[p])
  /\ Goto(p, "refused")
  /\ UNCHANGED <<lockfile, cache, guard, op, working, todo>>

\* The pack or bundle root becomes a root of the lock.
InstallRoot(p) ==
  /\ pc[p] = "resolving" /\ todo[p] = {} /\ op[p].kind # "uninstall"
  /\ working' = [working EXCEPT ![p].roots = @ \cup {op[p].root}]
  /\ Goto(p, "validating")
  /\ UNCHANGED <<lockfile, cache, guard, op, todo>>

\* uninstallPack: of a pack that is there and that no other one needs.
Uninstall(p) ==
  LET n == op[p].root IN
  /\ pc[p] = "resolving" /\ op[p].kind = "uninstall"
  /\ IF n \in Installed(working[p]) /\ ~NeededByOther(working[p], n)
       THEN /\ working' = [working EXCEPT ![p] = Without(@, n)]
            /\ Goto(p, "validating")
       ELSE Goto(p, "refused") /\ UNCHANGED working
  /\ UNCHANGED <<lockfile, cache, guard, op, todo>>

Validate(p) ==
  /\ pc[p] = "validating"
  /\ Goto(p, IF ValidGraph(working[p]) THEN "writing" ELSE "refused")
  /\ UNCHANGED <<lockfile, cache, guard, op, working, todo>>

\* writePackLockUnderGuard: the guard must still be p's before the temporary
\* file is written, and once more before it is renamed.
AssertGuard(p, place) == Goto(p, IF guard = p THEN place ELSE "closing")

WriteTemporary(p) ==
  /\ pc[p] = "writing"
  /\ AssertGuard(p, "synced")
  /\ UNCHANGED <<lockfile, cache, guard, op, working, todo>>

Recheck(p) ==
  /\ pc[p] = "synced"
  /\ AssertGuard(p, "checked")
  /\ UNCHANGED <<lockfile, cache, guard, op, working, todo>>

Rename(p) ==
  /\ pc[p] = "checked"
  /\ lockfile' = working[p]
  /\ Goto(p, "closing")
  /\ UNCHANGED <<cache, guard, op, working, todo>>

\* A system call fails: the guard is released all the same.
Fail(p) ==
  /\ pc[p] \in {"guarded", "resolving", "writing", "synced", "checked"}
  /\ Goto(p, "closing")
  /\ UNCHANGED <<lockfile, cache, guard, op, working, todo>>

-----------------------------------------------------------------------------

Crash(p) ==
  /\ pc[p] \notin {"idle", "waiting"}
  /\ Forget(p)
  /\ UNCHANGED <<lockfile, cache, guard>>

\* The operator removes a guard file whose process is gone.
OperatorUnlock ==
  /\ guard # Free /\ pc[guard] \in {"idle", "waiting"}
  /\ guard' = Free
  /\ UNCHANGED <<lockfile, cache, pc, op, working, todo>>

Step(p) ==
  \/ Acquire(p) \/ TimeOut(p) \/ Load(p)
  \/ \E a \in todo[p] : InstallOne(p, a) \/ RefuseOne(p, a)
  \/ InstallRoot(p) \/ Uninstall(p) \/ Validate(p)
  \/ WriteTemporary(p) \/ Recheck(p) \/ Rename(p) \/ Release(p)

Next ==
  \/ \E p \in Proc :
       \/ \E o \in Operation : Begin(p, o)
       \/ Step(p) \/ Fail(p) \/ Crash(p)
  \/ OperatorUnlock

Spec == Init /\ [][Next]_vars

-----------------------------------------------------------------------------
(* Properties.                                                              *)

\* Whatever was installed, upgraded and uninstalled by whom, every locked pack
\* finds its dependencies locked at versions that its manifest accepts.
RequirementsMet ==
  \A n \in Installed(lockfile) : Resolvable(ArtifactOf(lockfile, n), lockfile)

\* Every pack the lockfile names is in the cache, at every moment: a reader, who
\* takes no guard, and a crash anywhere in an install find a lock that loads.
LockedIsCached ==
  \A n \in Installed(lockfile) : ArtifactOf(lockfile, n) \in cache

EntryIn(lock, n) == IF n \in Installed(lock) THEN {lock.packages[n]} ELSE {}

\* Only a process asked for a pack changes what is locked of it: no install or
\* uninstall undoes one that another process had finished in the meantime
\* (docs/TROUBLESHOOTING.md:225-243 tells of the time when that happened).
NoLostUpdate ==
  [][\A n \in Name :
       EntryIn(lockfile', n) # EntryIn(lockfile, n) \/ ((n \in lockfile'.roots) # (n \in lockfile.roots))
         => \E p \in Proc :
              pc[p] = "checked" /\ n \in {op[p].root} \cup {a.name : a \in op[p].packs}]_vars

\* While a version of a pack is locked, its content stays what it was.
SameVersionSameContent ==
  [][\A n \in Installed(lockfile) \cap Installed(lockfile') :
       VersionOf(lockfile', n) = VersionOf(lockfile, n)
         => ArtifactOf(lockfile', n) = ArtifactOf(lockfile, n)]_vars

\* README.md:166: uninstall removes a pack and "fails if another Pack depends on
\* it". So it should not fail for a locked pack that no other one depends on.
UninstallsWhatNobodyNeeds ==
  \A p \in Proc :
    pc[p] = "refused" /\ op[p].kind = "uninstall" /\ op[p].root \in Installed(lockfile)
      => NeededByOther(lockfile, op[p].root)

=============================================================================
