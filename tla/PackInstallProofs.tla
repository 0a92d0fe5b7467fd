-------------------------- MODULE PackInstallProofs --------------------------
(***************************************************************************)
(* Proofs about PackInstall, for any processes and packs: what a process    *)
(* computes from the lockfile still fits the lockfile when it replaces it.   *)
(***************************************************************************)
EXTENDS PackInstall, TLAPS

\* The places of a process that has loaded the lockfile and not yet replaced it.
Loaded == {"resolving", "validating", "writing", "synced", "checked"}

\* Where the graph of what it has computed is valid.
Validated == {"writing", "synced", "checked"}

\* Whoever is past the wait has the guard.
GuardHeld == \A p \in Proc : pc[p] \notin {"idle", "waiting"} => guard = p

\* Every entry is pinned to versions that its manifest accepts.
PinsAccepted(lock) ==
  \A n \in Installed(lock) : \A d \in DependenciesOf(lock, n) :
    lock.packages[n].pins[d] \in ArtifactOf(lock, n).needs[d]

InCache(lock, packs) == \A n \in Installed(lock) : ArtifactOf(lock, n) \in packs

SameContent(old, new) ==
  \A n \in Installed(old) \cap Installed(new) :
    VersionOf(new, n) = VersionOf(old, n) => ArtifactOf(new, n) = ArtifactOf(old, n)

\* The new lock differs from the old one by what o asks for: packs of o that are
\* done are installed, or the one that o names is removed.
DiffersBy(o, done, old, new) ==
  /\ \A n \in Installed(new) :
       \/ \E a \in done : a.name = n
       \/ n \in Installed(old) /\ new.packages[n] = old.packages[n]
  /\ \A n \in Installed(old) \ Installed(new) : o.kind = "uninstall" /\ n = o.root
  /\ \A n \in Name \ {o.root} : n \in new.roots <=> n \in old.roots

\* What p has computed so far.
WorkSound(p) ==
  /\ pc[p] # "idle" => op[p] \in Operation
  /\ pc[p] \in Loaded =>
       /\ todo[p] \subseteq op[p].packs
       /\ PinsAccepted(working[p]) /\ InCache(working[p], cache)
       /\ SameContent(lockfile, working[p])
       /\ DiffersBy(op[p], op[p].packs \ todo[p], lockfile, working[p])
  /\ pc[p] \in Validated => ValidGraph(working[p])

IInv ==
  /\ TypeOK /\ GuardHeld
  /\ PinsAccepted(lockfile) /\ RequirementsMet /\ LockedIsCached
  /\ \A p \in Proc : WorkSound(p)

\* A step of p leaves where the others are.
OnlyMoves(p) ==
  \A q \in Proc \ {p} :
    pc'[q] = pc[q] /\ op'[q] = op[q] /\ working'[q] = working[q] /\ todo'[q] = todo[q]

-----------------------------------------------------------------------------
(* Operations and locks.                                                    *)

LEMMA OperationShape ==
  ASSUME NEW o \in Operation
  PROVE  /\ o.packs \subseteq Artifact /\ o.root \in Name
         /\ o.kind \in {"install", "bundle", "uninstall"}
         /\ o.kind = "uninstall" => o.packs = {}
         /\ \A a, b \in o.packs : a.name = b.name => a = b
<1>1. CASE o \in Install
  BY <1>1 DEF Install
<1>2. CASE o \in [kind : {"bundle"}, packs : SUBSET Artifact, root : Name] /\ IsBundle(o.packs, o.root)
  BY <1>2 DEF IsBundle
<1>3. CASE o \in [kind : {"uninstall"}, packs : {{}}, root : Name]
  BY <1>3
<1>. QED  BY <1>1, <1>2, <1>3 DEF Operation

LEMMA NothingLocked ==
  /\ IsLock(EmptyLock) /\ Installed(EmptyLock) = {}
BY DEF IsLock, EmptyLock, Installed

LEMMA LockShape ==
  ASSUME NEW lock, IsLock(lock), NEW n \in Installed(lock)
  PROVE  /\ n \in Name /\ ArtifactOf(lock, n) \in Artifact /\ ArtifactOf(lock, n).name = n
         /\ VersionOf(lock, n) \in Nat
         /\ DependenciesOf(lock, n) = DOMAIN ArtifactOf(lock, n).needs
BY ArtifactAssumption DEF IsLock, Installed, ArtifactOf, VersionOf, DependenciesOf

\* A pack is locked with the versions of its dependencies that are there.
LEMMA WithPackLocked ==
  ASSUME NEW lock, IsLock(lock), NEW a \in Artifact, Resolvable(a, lock)
  PROVE  LET new == WithPack(lock, a) IN
         /\ IsLock(new) /\ new.roots = lock.roots
         /\ Installed(new) = Installed(lock) \cup {a.name}
         /\ ArtifactOf(new, a.name) = a
         /\ \A d \in DependenciesOf(new, a.name) : new.packages[a.name].pins[d] \in a.needs[d]
         /\ \A n \in Installed(lock) \ {a.name} : new.packages[n] = lock.packages[n]
<1>. DEFINE new == WithPack(lock, a)
            entry == [artifact |-> a, pins |-> [n \in DOMAIN a.needs |-> VersionOf(lock, n)]]
            packages == [n \in Installed(lock) \cup {a.name} |->
                           IF n = a.name THEN entry ELSE lock.packages[n]]
<1>1. new = [roots |-> lock.roots, packages |-> packages]
  BY DEF IsLock, WithPack
<1>2. a.name \in Name /\ Installed(lock) \subseteq Name
  BY ArtifactAssumption DEF IsLock, Installed
<1>3. \A n \in DOMAIN a.needs : VersionOf(lock, n) \in Nat /\ VersionOf(lock, n) \in a.needs[n]
  BY LockShape DEF Resolvable
<1>4. new.roots = lock.roots /\ Installed(new) = Installed(lock) \cup {a.name}
  BY <1>1 DEF Installed
<1>5. \A n \in Installed(lock) \ {a.name} : new.packages[n] = lock.packages[n]
  BY <1>1
<1>6. new.packages[a.name] = entry
  BY <1>1
<1>7. /\ ArtifactOf(new, a.name) = a
      /\ \A d \in DependenciesOf(new, a.name) : new.packages[a.name].pins[d] \in a.needs[d]
  BY <1>3, <1>6 DEF ArtifactOf, DependenciesOf
<1>8. IsLock(new)
  <2>1. new = [roots |-> new.roots, packages |-> new.packages] /\ new.roots \subseteq Name
        /\ DOMAIN new.packages \subseteq Name
    BY <1>1, <1>2, <1>4 DEF IsLock, Installed
  <2>2. ASSUME NEW n \in DOMAIN new.packages
        PROVE  /\ new.packages[n].artifact \in Artifact /\ new.packages[n].artifact.name = n
               /\ new.packages[n].pins \in [DOMAIN new.packages[n].artifact.needs -> Nat]
    <3>1. CASE n = a.name
      BY <1>3, <1>6, <3>1
    <3>2. CASE n # a.name
      BY <1>4, <1>5, <2>2, <3>2 DEF IsLock, Installed
    <3>. QED  BY <3>1, <3>2
  <2>. HIDE DEF new
  <2>. QED  BY <2>1, <2>2 DEF IsLock
<1>. QED  BY <1>4, <1>5, <1>7, <1>8

LEMMA WithoutLocked ==
  ASSUME NEW lock, IsLock(lock), NEW n
  PROVE  LET new == Without(lock, n) IN
         /\ IsLock(new) /\ new.roots = lock.roots \ {n}
         /\ Installed(new) = Installed(lock) \ {n}
         /\ \A m \in Installed(new) : new.packages[m] = lock.packages[m]
BY DEF Without, IsLock, Installed

LEMMA WithRootLocked ==
  ASSUME NEW lock, IsLock(lock), NEW n \in Name,
         NEW new, new = [lock EXCEPT !.roots = @ \cup {n}]
  PROVE  /\ IsLock(new) /\ new.roots = lock.roots \cup {n}
         /\ new.packages = lock.packages /\ Installed(new) = Installed(lock)
<1>1. new = [roots |-> lock.roots \cup {n}, packages |-> lock.packages]
  <2>1. PICK roots, packages : lock = [roots |-> roots, packages |-> packages]
    BY DEF IsLock
  <2>2. new = [roots |-> roots \cup {n}, packages |-> packages]
    BY <2>1
  <2>. QED  BY <2>1, <2>2
<1>2. new.roots = lock.roots \cup {n} /\ new.packages = lock.packages
  BY <1>1
<1>3. new = [roots |-> new.roots, packages |-> new.packages]
  BY <1>1
<1>4. IsLock(new)
  BY <1>2, <1>3 DEF IsLock
<1>. QED  BY <1>2, <1>4 DEF Installed

\* In a valid graph, what is pinned to accepted versions is resolved.
LEMMA PinsResolve ==
  ASSUME NEW lock, IsLock(lock), ValidGraph(lock), PinsAccepted(lock), NEW n \in Installed(lock)
  PROVE  Resolvable(ArtifactOf(lock, n), lock)
<1>1. \A d \in DependenciesOf(lock, n) :
        d \in Installed(lock) /\ VersionOf(lock, d) = lock.packages[n].pins[d]
  BY DEF ValidGraph
<1>. QED  BY <1>1, LockShape DEF PinsAccepted, Resolvable

-----------------------------------------------------------------------------
(* The processes beside the one that takes a step.                          *)

\* A lockfile is only replaced by the process that has the guard.
LEMMA OthersSound ==
  ASSUME IInv, NEW p \in Proc, OnlyMoves(p), cache \subseteq cache', lockfile' = lockfile \/ guard = p
  PROVE  \A q \in Proc \ {p} : WorkSound(q)'
<1>. SUFFICES ASSUME NEW q \in Proc \ {p} PROVE WorkSound(q)'
  OBVIOUS
<1>1. /\ pc'[q] = pc[q] /\ op'[q] = op[q] /\ working'[q] = working[q] /\ todo'[q] = todo[q]
      /\ WorkSound(q)
  BY DEF OnlyMoves, IInv
<1>2. pc[q] \in Loaded => lockfile' = lockfile
  BY DEF IInv, GuardHeld, Loaded
<1>3. InCache(working[q], cache) => InCache(working[q], cache')
  BY DEF InCache
<1>. QED  BY <1>1, <1>2, <1>3 DEF WorkSound

\* Types and guard, when p has changed only its own.
LEMMA Moved ==
  ASSUME IInv, NEW p \in Proc, NEW place \in Pc, Goto(p, place)
  PROVE  /\ pc' \in [Proc -> Pc] /\ pc'[p] = place
         /\ \A q \in Proc \ {p} : pc'[q] = pc[q]
BY DEF IInv, TypeOK, Goto

\* A process only goes to another place.
LEMMA MoveStep ==
  ASSUME IInv, NEW p \in Proc, NEW place \in Pc \ {"idle"}, Goto(p, place), pc[p] # "idle",
         place \in Loaded => pc[p] \in Loaded,
         place \in Validated => ValidGraph(working[p]),
         guard' = guard, pc[p] = "waiting" => place = "waiting",
         UNCHANGED <<lockfile, cache, op, working, todo>>
  PROVE  IInv'
<1>1. pc' \in [Proc -> Pc] /\ pc'[p] = place /\ \A q \in Proc \ {p} : pc'[q] = pc[q]
  BY Moved
<1>2. TypeOK'
  BY <1>1 DEF IInv, TypeOK
<1>3. GuardHeld'
  BY <1>1 DEF IInv, GuardHeld
<1>4. OnlyMoves(p)
  BY <1>1 DEF OnlyMoves
<1>5. WorkSound(p)'
  BY <1>1 DEF IInv, WorkSound
<1>6. \A q \in Proc \ {p} : WorkSound(q)'
  BY <1>4, OthersSound
<1>7. PinsAccepted(lockfile)' /\ RequirementsMet' /\ LockedIsCached'
  BY DEF IInv, RequirementsMet, LockedIsCached
<1>. QED  BY <1>2, <1>3, <1>5, <1>6, <1>7 DEF IInv

\* A process that ends, gives up or dies forgets; its guard file may stay.
LEMMA ForgetStep ==
  ASSUME IInv, NEW p \in Proc, Forget(p), guard' = guard \/ (guard = p /\ guard' = Free),
         UNCHANGED <<lockfile, cache>>
  PROVE  IInv'
<1>1. pc' \in [Proc -> Pc] /\ pc'[p] = "idle" /\ \A q \in Proc \ {p} : pc'[q] = pc[q]
  BY Moved DEF Forget, Pc
<1>2. /\ op' = [op EXCEPT ![p] = NoOp] /\ working' = [working EXCEPT ![p] = EmptyLock]
      /\ todo' = [todo EXCEPT ![p] = {}]
  BY DEF Forget
<1>3. TypeOK'
  BY <1>1, <1>2, NothingLocked DEF IInv, TypeOK
<1>4. GuardHeld'
  BY <1>1 DEF IInv, GuardHeld
<1>5. OnlyMoves(p)
  BY <1>1, <1>2 DEF OnlyMoves, IInv, TypeOK
<1>6. WorkSound(p)'
  BY <1>1 DEF WorkSound, Loaded, Validated
<1>7. \A q \in Proc \ {p} : WorkSound(q)'
  BY <1>5, OthersSound
<1>8. PinsAccepted(lockfile)' /\ RequirementsMet' /\ LockedIsCached'
  BY DEF IInv, RequirementsMet, LockedIsCached
<1>. QED  BY <1>3, <1>4, <1>6, <1>7, <1>8 DEF IInv

LEMMA BeginStep ==
  ASSUME IInv, NEW p \in Proc, NEW o \in Operation, Begin(p, o)
  PROVE  IInv'
<1>1. pc' \in [Proc -> Pc] /\ pc'[p] = "waiting" /\ \A q \in Proc \ {p} : pc'[q] = pc[q]
  BY Moved DEF Begin, Pc
<1>2. op' = [op EXCEPT ![p] = o] /\ UNCHANGED <<lockfile, cache, guard, working, todo>>
  BY DEF Begin
<1>3. TypeOK'
  BY <1>1, <1>2 DEF IInv, TypeOK
<1>4. GuardHeld'
  BY <1>1, <1>2 DEF IInv, GuardHeld
<1>5. OnlyMoves(p)
  BY <1>1, <1>2 DEF OnlyMoves, IInv, TypeOK
<1>6. WorkSound(p)'
  BY <1>1, <1>2 DEF WorkSound, Loaded, Validated, IInv, TypeOK
<1>7. \A q \in Proc \ {p} : WorkSound(q)'
  BY <1>2, <1>5, OthersSound
<1>8. PinsAccepted(lockfile)' /\ RequirementsMet' /\ LockedIsCached'
  BY <1>2 DEF IInv, RequirementsMet, LockedIsCached
<1>. QED  BY <1>3, <1>4, <1>6, <1>7, <1>8 DEF IInv

\* Nobody is past the wait while there is no guard file.
LEMMA AcquireStep ==
  ASSUME IInv, NEW p \in Proc, Acquire(p)
  PROVE  IInv'
<1>1. pc' \in [Proc -> Pc] /\ pc'[p] = "guarded" /\ \A q \in Proc \ {p} : pc'[q] = pc[q]
  BY Moved DEF Acquire, Pc
<1>2. guard = Free /\ guard' = p /\ pc[p] = "waiting" /\ UNCHANGED <<lockfile, cache, op, working, todo>>
  BY DEF Acquire
<1>3. TypeOK'
  BY <1>1, <1>2 DEF IInv, TypeOK
<1>4. GuardHeld'
  BY <1>1, <1>2, FreeAssumption DEF IInv, GuardHeld
<1>5. OnlyMoves(p)
  BY <1>1, <1>2 DEF OnlyMoves
<1>6. WorkSound(p)'
  BY <1>1, <1>2 DEF WorkSound, Loaded, Validated, IInv
<1>7. \A q \in Proc \ {p} : WorkSound(q)'
  BY <1>2, <1>5, OthersSound
<1>8. PinsAccepted(lockfile)' /\ RequirementsMet' /\ LockedIsCached'
  BY <1>2 DEF IInv, RequirementsMet, LockedIsCached
<1>. QED  BY <1>3, <1>4, <1>6, <1>7, <1>8 DEF IInv

LEMMA OperatorUnlockStep ==
  ASSUME IInv, OperatorUnlock
  PROVE  IInv'
<1>1. pc[guard] \in {"idle", "waiting"} /\ guard' = Free /\ UNCHANGED <<lockfile, cache, pc, op, working, todo>>
  BY DEF OperatorUnlock
<1>2. TypeOK'
  BY <1>1 DEF IInv, TypeOK
<1>3. GuardHeld'
  BY <1>1 DEF IInv, GuardHeld
<1>4. \A q \in Proc : WorkSound(q)'
  BY <1>1 DEF IInv, WorkSound
<1>5. PinsAccepted(lockfile)' /\ RequirementsMet' /\ LockedIsCached'
  BY <1>1 DEF IInv, RequirementsMet, LockedIsCached
<1>. QED  BY <1>2, <1>3, <1>4, <1>5 DEF IInv

-----------------------------------------------------------------------------
(* The mutation.                                                            *)

\* A process that holds the guard changes what it computes, and the cache at
\* most grows.
LEMMA WorkStep ==
  ASSUME IInv, NEW p \in Proc, NEW place \in Loaded, Goto(p, place), pc[p] # "idle", pc[p] # "waiting",
         NEW w, IsLock(w), working' = [working EXCEPT ![p] = w],
         NEW left \in SUBSET op[p].packs, todo' = [todo EXCEPT ![p] = left],
         cache \subseteq cache', cache' \subseteq Artifact, UNCHANGED <<lockfile, guard, op>>,
         PinsAccepted(w), InCache(w, cache'), SameContent(lockfile, w),
         DiffersBy(op[p], op[p].packs \ left, lockfile, w),
         place \notin Validated
  PROVE  IInv'
<1>1. pc' \in [Proc -> Pc] /\ pc'[p] = place /\ \A q \in Proc \ {p} : pc'[q] = pc[q]
  BY Moved DEF Loaded, Pc
<1>2. op[p] \in Operation /\ op[p].packs \subseteq Artifact
  BY OperationShape DEF IInv, WorkSound
<1>3. working'[p] = w /\ todo'[p] = left
  BY DEF IInv, TypeOK
<1>4. TypeOK'
  BY <1>1, <1>2, <1>3 DEF IInv, TypeOK
<1>5. GuardHeld'
  BY <1>1 DEF IInv, GuardHeld
<1>6. OnlyMoves(p)
  BY <1>1 DEF OnlyMoves, IInv, TypeOK
<1>7. WorkSound(p)'
  BY <1>1, <1>2, <1>3 DEF WorkSound
<1>8. \A q \in Proc \ {p} : WorkSound(q)'
  BY <1>6, OthersSound
<1>9. PinsAccepted(lockfile)' /\ RequirementsMet' /\ LockedIsCached'
  BY DEF IInv, RequirementsMet, LockedIsCached
<1>. QED  BY <1>4, <1>5, <1>7, <1>8, <1>9 DEF IInv

LEMMA LoadStep ==
  ASSUME IInv, NEW p \in Proc, Load(p)
  PROVE  IInv'
<1>1. /\ pc[p] = "guarded" /\ Goto(p, "resolving")
      /\ working' = [working EXCEPT ![p] = lockfile] /\ todo' = [todo EXCEPT ![p] = op[p].packs]
      /\ UNCHANGED <<lockfile, cache, guard, op>>
  BY DEF Load
<1>2. IsLock(lockfile) /\ cache \subseteq Artifact /\ PinsAccepted(lockfile)
  BY DEF IInv, TypeOK
<1>3. InCache(lockfile, cache)
  BY DEF IInv, LockedIsCached, InCache
<1>4. SameContent(lockfile, lockfile) /\ DiffersBy(op[p], op[p].packs \ op[p].packs, lockfile, lockfile)
  BY DEF SameContent, DiffersBy
<1>. QED  BY <1>1, <1>2, <1>3, <1>4, WorkStep DEF Loaded, Validated

\* The pack was not installed before, so what is locked of it is what was.
LEMMA InstallOneStep ==
  ASSUME IInv, NEW p \in Proc, NEW a \in todo[p], InstallOne(p, a)
  PROVE  IInv'
<1>. DEFINE old == working[p]
            new == WithPack(old, a)
<1>1. /\ pc[p] = "resolving" /\ Resolvable(a, old) /\ ~Altered(a, old)
      /\ cache' = cache \cup {a} /\ working' = [working EXCEPT ![p] = new]
      /\ todo' = [todo EXCEPT ![p] = todo[p] \ {a}]
      /\ UNCHANGED <<lockfile, guard, pc, op>>
  BY DEF InstallOne, NextPack, IInv, TypeOK
<1>2. /\ op[p] \in Operation /\ todo[p] \subseteq op[p].packs /\ IsLock(old)
      /\ PinsAccepted(old) /\ InCache(old, cache) /\ SameContent(lockfile, old)
      /\ DiffersBy(op[p], op[p].packs \ todo[p], lockfile, old)
  BY <1>1 DEF IInv, WorkSound, Loaded, TypeOK
<1>3. /\ a \in Artifact /\ op[p].kind # "uninstall"
      /\ \A b \in op[p].packs : b.name = a.name => b = a
  BY <1>2, OperationShape
<1>4. /\ IsLock(new) /\ new.roots = old.roots /\ Installed(new) = Installed(old) \cup {a.name}
      /\ ArtifactOf(new, a.name) = a
      /\ \A d \in DependenciesOf(new, a.name) : new.packages[a.name].pins[d] \in a.needs[d]
      /\ \A n \in Installed(old) \ {a.name} : new.packages[n] = old.packages[n]
  BY <1>1, <1>2, <1>3, WithPackLocked
<1>. HIDE DEF new
<1>5. PinsAccepted(new) /\ InCache(new, cache')
  BY <1>1, <1>2, <1>4 DEF PinsAccepted, InCache, ArtifactOf, DependenciesOf
<1>6. DiffersBy(op[p], op[p].packs \ (todo[p] \ {a}), lockfile, new)
  BY <1>2, <1>3, <1>4 DEF DiffersBy
<1>7. SameContent(lockfile, new)
  <2>1. ASSUME a.name \in Installed(lockfile), VersionOf(new, a.name) = VersionOf(lockfile, a.name)
        PROVE  ArtifactOf(lockfile, a.name) = a
    <3>1. a.name \in Installed(old)
      BY <1>2, <1>3, <2>1 DEF DiffersBy
    <3>2. old.packages[a.name] = lockfile.packages[a.name]
      BY <1>2, <1>3, <3>1 DEF DiffersBy
    <3>. QED  BY <1>1, <1>4, <2>1, <3>1, <3>2 DEF Altered, VersionOf, ArtifactOf
  <2>2. \A n \in Installed(lockfile) \cap Installed(new) :
          n # a.name /\ VersionOf(new, n) = VersionOf(lockfile, n)
            => ArtifactOf(new, n) = ArtifactOf(lockfile, n)
    BY <1>2, <1>4 DEF SameContent, VersionOf, ArtifactOf
  <2>. QED  BY <1>4, <2>1, <2>2 DEF SameContent
<1>8. Goto(p, "resolving")
  BY <1>1 DEF Goto, IInv, TypeOK
<1>9. cache' \subseteq Artifact
  BY <1>1, <1>3 DEF IInv, TypeOK
<1>. QED  BY <1>1, <1>2, <1>4, <1>5, <1>6, <1>7, <1>8, <1>9, WorkStep DEF Loaded, Validated

LEMMA InstallRootStep ==
  ASSUME IInv, NEW p \in Proc, InstallRoot(p)
  PROVE  IInv'
<1>. DEFINE old == working[p]
            new == [old EXCEPT !.roots = @ \cup {op[p].root}]
<1>1. /\ pc[p] = "resolving" /\ Goto(p, "validating")
      /\ working' = [working EXCEPT ![p] = new]
      /\ UNCHANGED <<lockfile, cache, guard, op, todo>>
  BY DEF InstallRoot, IInv, TypeOK
<1>2. /\ op[p] \in Operation /\ todo[p] \subseteq op[p].packs /\ IsLock(old)
      /\ PinsAccepted(old) /\ InCache(old, cache) /\ SameContent(lockfile, old)
      /\ DiffersBy(op[p], op[p].packs \ todo[p], lockfile, old)
  BY <1>1 DEF IInv, WorkSound, Loaded, TypeOK
<1>3. /\ IsLock(new) /\ new.roots = old.roots \cup {op[p].root}
      /\ new.packages = old.packages /\ Installed(new) = Installed(old)
  BY <1>2, OperationShape, WithRootLocked
<1>. HIDE DEF new
<1>4. PinsAccepted(new) /\ InCache(new, cache) /\ SameContent(lockfile, new)
  BY <1>2, <1>3 DEF PinsAccepted, InCache, SameContent, VersionOf, ArtifactOf, DependenciesOf
<1>5. DiffersBy(op[p], op[p].packs \ todo[p], lockfile, new)
  BY <1>2, <1>3 DEF DiffersBy
<1>6. todo' = [todo EXCEPT ![p] = todo[p]] /\ cache' \subseteq Artifact
  BY <1>1 DEF IInv, TypeOK
<1>. QED  BY <1>1, <1>2, <1>3, <1>4, <1>5, <1>6, WorkStep DEF Loaded, Validated

LEMMA UninstallStep ==
  ASSUME IInv, NEW p \in Proc, Uninstall(p)
  PROVE  IInv'
<1>. DEFINE old == working[p]
            new == Without(old, op[p].root)
<1>1. pc[p] = "resolving" /\ op[p].kind = "uninstall" /\ UNCHANGED <<lockfile, cache, guard, op, todo>>
  BY DEF Uninstall
<1>2. /\ op[p] \in Operation /\ todo[p] \subseteq op[p].packs /\ IsLock(old)
      /\ PinsAccepted(old) /\ InCache(old, cache) /\ SameContent(lockfile, old)
      /\ DiffersBy(op[p], op[p].packs \ todo[p], lockfile, old)
  BY <1>1 DEF IInv, WorkSound, Loaded, TypeOK
<1>3. CASE Goto(p, "validating") /\ working' = [working EXCEPT ![p] = new]
  <2>1. /\ IsLock(new) /\ new.roots = old.roots \ {op[p].root}
        /\ Installed(new) = Installed(old) \ {op[p].root}
        /\ \A m \in Installed(new) : new.packages[m] = old.packages[m]
    BY <1>2, WithoutLocked
  <2>. HIDE DEF new
  <2>2. PinsAccepted(new) /\ InCache(new, cache) /\ SameContent(lockfile, new)
    BY <1>2, <2>1 DEF PinsAccepted, InCache, SameContent, VersionOf, ArtifactOf, DependenciesOf
  <2>3. DiffersBy(op[p], op[p].packs \ todo[p], lockfile, new)
    BY <1>1, <1>2, <2>1 DEF DiffersBy
  <2>4. todo' = [todo EXCEPT ![p] = todo[p]] /\ cache' \subseteq Artifact
    BY <1>1 DEF IInv, TypeOK
  <2>. QED  BY <1>1, <1>2, <1>3, <2>1, <2>2, <2>3, <2>4, WorkStep DEF Loaded, Validated
<1>4. CASE Goto(p, "refused") /\ UNCHANGED working
  BY <1>1, <1>4, MoveStep DEF Loaded, Validated, Pc
<1>5. working' = [working EXCEPT ![p] = new] \/ UNCHANGED working
  BY DEF Uninstall
<1>. QED  BY <1>3, <1>4 DEF Uninstall

\* The lock that replaces the lockfile is valid, and differs from it only by
\* what p was asked for.
LEMMA RenameStep ==
  ASSUME IInv, NEW p \in Proc, Rename(p)
  PROVE  IInv'
<1>1. /\ pc[p] = "checked" /\ Goto(p, "closing") /\ lockfile' = working[p]
      /\ UNCHANGED <<cache, guard, op, working, todo>>
  BY DEF Rename
<1>2. IsLock(working[p]) /\ ValidGraph(working[p]) /\ PinsAccepted(working[p]) /\ InCache(working[p], cache)
  BY <1>1 DEF IInv, WorkSound, TypeOK, Loaded, Validated
<1>3. pc' \in [Proc -> Pc] /\ pc'[p] = "closing" /\ \A q \in Proc \ {p} : pc'[q] = pc[q]
  BY <1>1, Moved DEF Pc
<1>4. TypeOK' /\ GuardHeld'
  BY <1>1, <1>2, <1>3 DEF IInv, TypeOK, GuardHeld
<1>5. PinsAccepted(lockfile)' /\ LockedIsCached'
  BY <1>1, <1>2 DEF LockedIsCached, InCache
<1>6. RequirementsMet'
  BY <1>1, <1>2, PinsResolve DEF RequirementsMet
<1>7. WorkSound(p)'
  BY <1>1, <1>3 DEF WorkSound, IInv, Loaded, Validated
<1>8. OnlyMoves(p) /\ guard = p
  BY <1>1, <1>3 DEF OnlyMoves, IInv, GuardHeld
<1>9. \A q \in Proc \ {p} : WorkSound(q)'
  BY <1>1, <1>8, OthersSound
<1>. QED  BY <1>4, <1>5, <1>6, <1>7, <1>9 DEF IInv

-----------------------------------------------------------------------------
(* The invariant.                                                           *)

LEMMA IInvInit == Init => IInv
<1>. SUFFICES ASSUME Init PROVE IInv
  OBVIOUS
<1>1. TypeOK
  BY NothingLocked DEF Init, TypeOK, Pc
<1>2. PinsAccepted(lockfile) /\ RequirementsMet /\ LockedIsCached
  BY NothingLocked DEF Init, PinsAccepted, RequirementsMet, LockedIsCached
<1>3. GuardHeld /\ \A p \in Proc : WorkSound(p)
  BY DEF Init, GuardHeld, WorkSound, Loaded, Validated
<1>. QED  BY <1>1, <1>2, <1>3 DEF IInv

\* The steps by which a process goes on under the guard, or gives up.
LEMMA GoOnStep ==
  ASSUME IInv, NEW p \in Proc,
         \/ \E a \in todo[p] : RefuseOne(p, a)
         \/ Validate(p) \/ WriteTemporary(p) \/ Recheck(p) \/ Fail(p)
  PROVE  IInv'
<1>1. PICK place \in Pc \ {"idle"} :
        /\ Goto(p, place) /\ pc[p] \notin {"idle", "waiting"}
        /\ place \in Loaded => pc[p] \in Loaded
        /\ place \in Validated => pc[p] \in Validated \/ ValidGraph(working[p])
  BY DEF RefuseOne, NextPack, Validate, WriteTemporary, Recheck, Fail, AssertGuard, Pc, Loaded, Validated
<1>2. place \in Validated => ValidGraph(working[p])
  BY <1>1 DEF IInv, WorkSound
<1>3. UNCHANGED <<lockfile, cache, guard, op, working, todo>>
  BY DEF RefuseOne, Validate, WriteTemporary, Recheck, Fail
<1>. QED  BY <1>1, <1>2, <1>3, MoveStep

LEMMA EndStep ==
  ASSUME IInv, NEW p \in Proc, TimeOut(p) \/ Release(p) \/ Crash(p)
  PROVE  IInv'
BY ForgetStep DEF TimeOut, Release, Crash

LEMMA IInvNext ==
  ASSUME IInv, [Next]_vars
  PROVE  IInv'
<1>1. ASSUME NEW p \in Proc, NEW o \in Operation, Begin(p, o)
      PROVE  IInv'
  BY <1>1, BeginStep
<1>2. ASSUME NEW p \in Proc, Step(p)
      PROVE  IInv'
  BY <1>2, AcquireStep, EndStep, LoadStep, InstallOneStep, GoOnStep, InstallRootStep, UninstallStep,
     RenameStep DEF Step
<1>3. ASSUME NEW p \in Proc, Fail(p) \/ Crash(p)
      PROVE  IInv'
  BY <1>3, GoOnStep, EndStep
<1>4. CASE UNCHANGED vars
  BY <1>4 DEF vars, IInv, TypeOK, GuardHeld, RequirementsMet, LockedIsCached, WorkSound
<1>. QED  BY <1>1, <1>2, <1>3, <1>4, OperatorUnlockStep DEF Next

LEMMA IInvHolds == Spec => []IInv
BY IInvInit, IInvNext, PTL DEF Spec

\* For any processes and packs, the lockfile and what is computed from it are
\* locks, and the processes stay well-typed.
THEOREM TypeCorrect == Spec => []TypeOK
BY IInvHolds, PTL DEF IInv

\* Whatever is installed, upgraded and uninstalled at once: every locked pack
\* finds its dependencies locked at versions its manifest accepts.
THEOREM RequirementsAreMet == Spec => []RequirementsMet
BY IInvHolds, PTL DEF IInv

\* At every moment, of every install and after every crash, what the lockfile
\* names is in the cache.
THEOREM LockedAreCached == Spec => []LockedIsCached
BY IInvHolds, PTL DEF IInv

\* Only a rename changes the lockfile.
LEMMA OnlyRenames ==
  ASSUME [Next]_vars, lockfile' # lockfile
  PROVE  \E p \in Proc : Rename(p)
BY DEF Next, vars, Begin, Step, Fail, Crash, OperatorUnlock, Acquire, TimeOut, Load, InstallOne, RefuseOne,
       InstallRoot, Uninstall, Validate, WriteTemporary, Recheck, Release

\* No process undoes what another one has locked since it looked.
THEOREM NoUpdateIsLost == Spec => NoLostUpdate
<1>. DEFINE Changed(n) == \/ EntryIn(lockfile', n) # EntryIn(lockfile, n)
                          \/ (n \in lockfile'.roots) # (n \in lockfile.roots)
            Asked(n) == \E p \in Proc :
                          pc[p] = "checked" /\ n \in {op[p].root} \cup {a.name : a \in op[p].packs}
<1>1. ASSUME IInv, [Next]_vars, NEW n \in Name, Changed(n)
      PROVE  Asked(n)
  <2>1. PICK p \in Proc : Rename(p)
    BY <1>1, OnlyRenames
  <2>2. pc[p] = "checked" /\ lockfile' = working[p]
    BY <2>1 DEF Rename
  <2>3. DiffersBy(op[p], op[p].packs \ todo[p], lockfile, lockfile')
    BY <1>1, <2>2 DEF IInv, WorkSound, Loaded
  <2>4. ASSUME n # op[p].root, \A a \in op[p].packs : a.name # n
        PROVE  FALSE
    <3>1. (n \in lockfile'.roots) = (n \in lockfile.roots)
      BY <2>3, <2>4 DEF DiffersBy
    <3>2. EntryIn(lockfile', n) = EntryIn(lockfile, n)
      BY <2>3, <2>4 DEF DiffersBy, EntryIn
    <3>. QED  BY <1>1, <3>1, <3>2
  <2>. QED  BY <2>2, <2>4
<1>2. IInv /\ [Next]_vars =>
        \A n \in Name :
          EntryIn(lockfile', n) # EntryIn(lockfile, n) \/ ((n \in lockfile'.roots) # (n \in lockfile.roots))
            => \E p \in Proc :
                 pc[p] = "checked" /\ n \in {op[p].root} \cup {a.name : a \in op[p].packs}
  BY <1>1
<1>. QED  BY <1>2, IInvHolds, PTL DEF Spec, NoLostUpdate

\* A version that stays locked stays what it was.
THEOREM ContentIsKept == Spec => SameVersionSameContent
<1>1. ASSUME IInv, [Next]_vars
      PROVE  SameContent(lockfile, lockfile')
  <2>1. CASE lockfile' = lockfile
    BY <2>1 DEF SameContent
  <2>2. CASE lockfile' # lockfile
    <3>1. PICK p \in Proc : Rename(p)
      BY <1>1, <2>2, OnlyRenames
    <3>. QED  BY <1>1, <3>1 DEF Rename, IInv, WorkSound, Loaded
  <2>. QED  BY <2>1, <2>2
<1>2. IInv /\ [Next]_vars =>
        \A n \in Installed(lockfile) \cap Installed(lockfile') :
          VersionOf(lockfile', n) = VersionOf(lockfile, n) => ArtifactOf(lockfile', n) = ArtifactOf(lockfile, n)
  BY <1>1 DEF SameContent
<1>. QED  BY <1>2, IInvHolds, PTL DEF Spec, SameVersionSameContent

=============================================================================
