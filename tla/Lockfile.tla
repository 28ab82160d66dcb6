------------------------------ MODULE Lockfile -------------------------------
(***************************************************************************)
(* The lock file of a package manager: snapshot() of                       *)
(* packages/apm/src/lockfile.ts walks the graph of the dependencies of a   *)
(* package, all branches together, and records each package with the       *)
(* package that each of its specifiers resolved to.  It is given the lock  *)
(* of an earlier snapshot(), of whatever package, when there is one.       *)
(*                                                                         *)
(* A call of processPackage() is named by the way it was reached: the      *)
(* steps <<kind, specifier>> of dependencies and <<Member, package>> of    *)
(* workspaces that lead from the root to it.  The dependency kinds are two *)
(* of the five: one that is followed everywhere, and one, Dev, that is not *)
(* followed below a dependency.  A package stands for its key, and a       *)
(* specifier for its URL; the URL of an exact version is the key of a      *)
(* package.                                                                *)
(***************************************************************************)
EXTENDS Naturals, Sequences, FiniteSets

CONSTANTS
  Graphs,       \* what to walk: root, deps, members and resolution, and the lock given
  MaxFailures   \* bound: resolutions and additions that may fail

Regular == "dependencies"
Dev == "devDependencies"
Member == "workspace"
Unknown == "unknown"   \* what a handler answers for a URL that is no package

\* deps has the specifiers of each package by kind, members its workspaces, in
\* order and each once, and resolution what each specifier stands for; the URL
\* of a package is not one that no handler knows.  The edges of the lock that is
\* given may lead anywhere: a snapshot() whose addPkg() failed leaves such a one.
ASSUME LockAssumption ==
  /\ MaxFailures \in Nat
  /\ \A g \in Graphs :
       /\ g.root \in DOMAIN g.deps /\ Unknown \notin DOMAIN g.deps
       /\ \A p \in DOMAIN g.deps :
            /\ DOMAIN g.deps[p] \subseteq {Regular, Dev}
            /\ \A k \in DOMAIN g.deps[p] : g.deps[p][k] \subseteq DOMAIN g.resolution
            /\ g.members[p] \in Seq(DOMAIN g.deps)
            /\ \A i, j \in DOMAIN g.members[p] : g.members[p][i] = g.members[p][j] => i = j
       /\ \A u \in DOMAIN g.resolution :
            IF u \in DOMAIN g.deps THEN g.resolution[u] = u ELSE g.resolution[u] \in DOMAIN g.deps \union {Unknown}
       /\ DOMAIN g.lock \subseteq DOMAIN g.deps \union DOMAIN g.resolution
       /\ \A key \in DOMAIN g.lock : DOMAIN g.lock[key] \subseteq {Regular, Dev}

VARIABLES
  graph,      \* the graph being walked
  lock,       \* lock.packages: for each key, for each kind, specifier -> key
  calls,      \* the calls of processPackage(), and where each stands
  visited,    \* the set `visited` of each snapshot(), nested ones included
  aborted,    \* the signal
  failures,   \* failures so far
  addFailed,  \* history: an addPkg() has failed
  announced,  \* history: the calls of addPkg() for each package
  replaced    \* history: an entry was made again, over what another walk had put there

lockVars == <<graph, lock, calls, visited, aborted, failures, addFailed, announced, replaced>>

Packages == DOMAIN graph.deps
Loaded == DOMAIN graph.lock
IsDependency(p) == p # <<>> /\ p[Len(p)][1] # Member
Parent(p) == SubSeq(p, 1, Len(p) - 1)
Kind(p) == p[Len(p)][1]
Specifier(p) == p[Len(p)][2]
Children(p) == {q \in DOMAIN calls : q # <<>> /\ Parent(q) = p}
Update(f, g) == [x \in DOMAIN f \union DOMAIN g |-> IF x \in DOMAIN g THEN g[x] ELSE f[x]]
Set(f, x, v) == Update(f, [y \in {x} |-> v])
Nothing == [x \in {} |-> x]
Goes(p, to) == [calls EXCEPT ![p].at = to]

\* Mutant of KindsOf: workspaces are walked like dependencies.
KindsOfDependency(p) == DOMAIN graph.deps[calls[p].pkg] \ (IF p # <<>> THEN {Dev} ELSE {})

\* The kinds of dependencies that a call follows.
KindsOf(p) == DOMAIN graph.deps[calls[p].pkg] \ (IF IsDependency(p) THEN {Dev} ELSE {})

\* The beginning of processPackage(), which runs without a pause.
Entry(pkg, snapshot) ==
  IF pkg \in visited[snapshot] THEN "done"
  ELSE IF aborted THEN "thrown"
  ELSE IF pkg \in DOMAIN lock THEN "done"
  ELSE "adding"
AnnouncePkg(pkg, at) == announced' = IF at = "adding" THEN [announced EXCEPT ![pkg] = @ + 1] ELSE announced

------------------------------------------------------------------------------
\* snapshot() of the root, up to its first pause: it ends there when the lock it
\* is given has the root already.
LockInit ==
  /\ graph \in Graphs
  /\ lock = graph.lock
  /\ calls = [p \in {<<>>} |-> [pkg |-> graph.root, snapshot |-> <<>>,
                                at |-> IF graph.root \in Loaded THEN "done" ELSE "adding"]]
  /\ visited = [p \in {<<>>} |-> {graph.root}]
  /\ aborted = FALSE
  /\ failures = 0
  /\ addFailed = FALSE
  /\ announced = [p \in Packages |-> IF p = graph.root /\ p \notin Loaded THEN 1 ELSE 0]
  /\ replaced = FALSE

\* The dependencies of a package have started: its entry has kinds.
Begun(pkg) == pkg \in DOMAIN lock /\ lock[pkg] # Nothing

\* The dependencies of p start, each on its own: an entry for each kind in
\* `entry`, what the lock holds for the package, and a task for each specifier.
\* A task that finds the signal aborted is rejected outside of its try.
StartDependencies(p, entry) ==
  LET steps == {<<k, u>> : k \in KindsOf(p), u \in DOMAIN graph.resolution}
      tasks == {Append(p, s) : s \in {t \in steps : t[2] \in graph.deps[calls[p].pkg][t[1]]}}
  IN /\ lock' = Set(lock, calls[p].pkg, Update(entry, [k \in KindsOf(p) |-> Nothing]))
     /\ calls' = Update(Goes(p, "dependencies"),
                        [t \in tasks |-> [pkg |-> Unknown, snapshot |-> calls[p].snapshot,
                                          at |-> IF aborted THEN "failed" ELSE "resolving"]])

\* addPkg() resolves: the entry of the package is made, over the one that
\* another walk may have made meanwhile.
Added(p) ==
  /\ calls[p].at = "adding"
  /\ IF graph.members[calls[p].pkg] = <<>> THEN StartDependencies(p, Nothing)
     ELSE /\ lock' = Set(lock, calls[p].pkg, Nothing)
          /\ calls' = Goes(p, "members")
  /\ replaced' = (replaced \/ Begun(calls[p].pkg))
  /\ UNCHANGED <<graph, visited, aborted, failures, addFailed, announced>>

\* addPkg() rejects.
AddFails(p) ==
  /\ calls[p].at = "adding"
  /\ failures < MaxFailures
  /\ failures' = failures + 1
  /\ addFailed' = TRUE
  /\ calls' = Goes(p, "thrown")
  /\ UNCHANGED <<graph, lock, visited, aborted, announced, replaced>>

\* The workspaces of a package, one after the other, each with a snapshot()
\* that has a set `visited` of its own; then its dependencies.
NextMember(p) ==
  /\ calls[p].at = "members"
  /\ \A q \in Children(p) : calls[q].at = "done"
  /\ LET n == Cardinality(Children(p))
         all == graph.members[calls[p].pkg]
         w == all[n + 1]
         q == Append(p, <<Member, w>>)
         at == IF aborted THEN "thrown" ELSE IF w \in DOMAIN lock THEN "done" ELSE "adding"
     IN IF n = Len(all)
        THEN /\ StartDependencies(p, lock[calls[p].pkg])
             /\ replaced' = (replaced \/ Begun(calls[p].pkg))
             /\ UNCHANGED <<visited, announced>>
        ELSE /\ calls' = Set(calls, q, [pkg |-> w, snapshot |-> q, at |-> at])
             /\ visited' = Set(visited, q, {w})
             /\ AnnouncePkg(w, at)
             /\ UNCHANGED <<lock, replaced>>
  /\ UNCHANGED <<graph, aborted, failures, addFailed>>

MemberThrows(p) ==
  /\ calls[p].at = "members"
  /\ \E q \in Children(p) : calls[q].at = "thrown"
  /\ calls' = Goes(p, "thrown")
  /\ UNCHANGED <<graph, lock, visited, aborted, failures, addFailed, announced, replaced>>

\* The edge of a task is recorded in the entry of its package, if the entry
\* still has the kind of the edge: another walk may have replaced it.
HasKind(p) == Kind(p) \in DOMAIN lock[calls[Parent(p)].pkg]
WithEdge(p, key) ==
  LET pkg == calls[Parent(p)].pkg IN
    Set(lock, pkg, Set(lock[pkg], Kind(p), Set(lock[pkg][Kind(p)], Specifier(p), key)))

\* The catch of a task: the edge goes to an entry that stands for the
\* specifier.  It throws again when the entry has lost the kind.
Catch(p, locked) ==
  /\ lock' = IF HasKind(p) THEN Update([k \in {Specifier(p)} |-> Nothing], locked) ELSE lock
  /\ calls' = Goes(p, IF HasKind(p) THEN "done" ELSE "failed")

\* The handler answers with a package: the edge, and processPackage() up to
\* its first pause.
Resolved(p) ==
  /\ calls[p].at = "resolving"
  /\ LET r == graph.resolution[Specifier(p)]
         s == calls[p].snapshot
         at == Entry(r, s)
     IN /\ r # Unknown
        /\ IF HasKind(p)
           THEN /\ lock' = WithEdge(p, r)
                /\ calls' = [calls EXCEPT ![p].pkg = r, ![p].at = at]
                /\ visited' = [visited EXCEPT ![s] = @ \union {r}]
                /\ AnnouncePkg(r, at)
           ELSE Catch(p, lock) /\ UNCHANGED <<visited, announced>>
  /\ UNCHANGED <<graph, aborted, failures, addFailed, replaced>>

\* The handler knows no package for the specifier: an entry, and no edge.
NotResolved(p) ==
  /\ calls[p].at = "resolving"
  /\ graph.resolution[Specifier(p)] = Unknown
  /\ lock' = Update([k \in {Specifier(p)} |-> Nothing], lock)
  /\ calls' = Goes(p, "done")
  /\ UNCHANGED <<graph, visited, aborted, failures, addFailed, announced, replaced>>

\* The handler rejects.
ResolutionFails(p) ==
  /\ calls[p].at = "resolving"
  /\ failures < MaxFailures
  /\ failures' = failures + 1
  /\ Catch(p, WithEdge(p, Specifier(p)))
  /\ UNCHANGED <<graph, visited, aborted, addFailed, announced, replaced>>

\* processPackage() has thrown in a task: abort and addPkg() included.
Caught(p) ==
  /\ IsDependency(p) /\ calls[p].at = "thrown"
  /\ Catch(p, WithEdge(p, Specifier(p)))
  /\ UNCHANGED <<graph, visited, aborted, failures, addFailed, announced, replaced>>

\* Promise.all() of the tasks: it resolves with the last, and rejects with the
\* first that failed, while the others go on.
TasksDone(p) ==
  /\ calls[p].at = "dependencies"
  /\ \A q \in Children(p) : Kind(q) # Member => calls[q].at = "done"
  /\ calls' = Goes(p, "done")
  /\ UNCHANGED <<graph, lock, visited, aborted, failures, addFailed, announced, replaced>>

TaskFails(p) ==
  /\ calls[p].at = "dependencies"
  /\ \E q \in Children(p) : calls[q].at = "failed"
  /\ calls' = Goes(p, "thrown")
  /\ UNCHANGED <<graph, lock, visited, aborted, failures, addFailed, announced, replaced>>

Abort ==
  /\ ~aborted
  /\ aborted' = TRUE
  /\ UNCHANGED <<graph, lock, calls, visited, failures, addFailed, announced, replaced>>

Proceeds(p) ==
  \/ Added(p) \/ NextMember(p) \/ MemberThrows(p)
  \/ Resolved(p) \/ NotResolved(p) \/ Caught(p)
  \/ TasksDone(p) \/ TaskFails(p)

LockNext == Abort \/ \E p \in DOMAIN calls : Proceeds(p) \/ AddFails(p) \/ ResolutionFails(p)

\* Whatever a call awaits answers in the end: an addPkg(), a handler, a file,
\* a promise that is settled.
LockFairness == WF_lockVars(\E p \in DOMAIN calls : Proceeds(p))

LockSpec == LockInit /\ [][LockNext]_lockVars /\ LockFairness

------------------------------------------------------------------------------
Resolves == calls[<<>>].at = "done"
Rejects == calls[<<>>].at = "thrown"
NothingFailed == failures = 0 /\ ~aborted

\* A lock is a function from keys to what each kind recorded.
LockTypeOK ==
  /\ graph \in Graphs
  /\ DOMAIN lock \subseteq Packages \union DOMAIN graph.resolution
  /\ \A key \in DOMAIN lock : DOMAIN lock[key] \subseteq {Regular, Dev}
  /\ \A p \in DOMAIN calls : calls[p].snapshot \in DOMAIN visited
  /\ \A s \in DOMAIN visited : visited[s] \subseteq Packages
  /\ aborted \in BOOLEAN /\ addFailed \in BOOLEAN /\ failures \in 0..MaxFailures
  /\ announced \in [Packages -> Nat]

\* A package of which a workspace list is nested in a dependency is walked by
\* several snapshots at the same time.
NestedWorkspaces == \E p \in Packages \ {graph.root} : graph.members[p] # <<>>

\* addPkg() is called once for a package at most, and an entry is made once,
\* although the lock is asked before it and written after it (lines 84 to 88):
\* the set `visited` makes the difference, so it holds as long as one set serves
\* all the walks that run together.  An addPkg() that failed is called again by
\* the next snapshot.
AddedOnce == ~NestedWorkspaces /\ ~addFailed => ~replaced /\ \A p \in Packages : announced[p] <= 1

\* What the lock had is left as it was: neither what package.json says by now,
\* nor an edge that leads nowhere, nor a package whose walk failed is looked at
\* again (line 84), and a root that is in the lock is not walked at all.
LoadedIsKept ==
  /\ \A key \in Loaded : key \in DOMAIN lock /\ lock[key] = graph.lock[key]
  /\ \A p \in Packages \intersect Loaded : announced[p] = 0

\* When snapshot() resolves, every package that the packages it recorded resolve
\* to is recorded: install.ts, which links them, finds each (its line 169
\* throws otherwise).  The edge is recorded before the package, and a second
\* walk that reaches a package does not wait for the first one: only the walk
\* that was there first waits for it.  Not so once an addPkg() has failed, the
\* signal was aborted, or the workspaces of a dependency have made an entry
\* again: see README.
EdgesResolve ==
  Resolves /\ ~addFailed /\ ~aborted /\ ~replaced =>
    \A key \in DOMAIN lock \ Loaded : \A k \in DOMAIN lock[key] : \A u \in DOMAIN lock[key][k] :
      lock[key][k][u] \in DOMAIN lock

\* When nothing failed, every specifier of a package that it recorded is recorded
\* with what it resolves to: cycles, shared dependencies and workspaces included.
EveryDependencyRecorded ==
  Resolves /\ NothingFailed /\ ~replaced =>
    \A p \in Packages \intersect (DOMAIN lock \ Loaded) :
      /\ Regular \in DOMAIN graph.deps[p] => Regular \in DOMAIN lock[p]
      /\ \A k \in DOMAIN lock[p] : \A u \in graph.deps[p][k] :
           IF graph.resolution[u] = Unknown THEN u \in DOMAIN lock
           ELSE u \in DOMAIN lock[p][k] /\ lock[p][k][u] = graph.resolution[u]

\* The development dependencies of the root and of its workspaces are
\* recorded, unless another package depends on the workspace: a package that
\* is reached as a dependency first is recorded without them, and as a
\* workspace it is then in the lock already (lines 84, 104 and 165).
WorkspacesKeepDevDependencies ==
  Resolves /\ NothingFailed /\ ~replaced /\ graph.root \notin Loaded =>
    \A p \in ({graph.root} \union {graph.members[graph.root][i] : i \in DOMAIN graph.members[graph.root]}) \ Loaded :
      Dev \in DOMAIN graph.deps[p] => \/ Dev \in DOMAIN lock[p]
                                     \/ \E u \in DOMAIN graph.resolution : graph.resolution[u] = p

\* Once the signal is aborted no package is announced any more: nothing comes
\* between throwIfAborted() and addPkg() (lines 81 to 86).
AbortStopsAdding == [][aborted => announced' = announced]_lockVars

\* What a lock file keeps of the one it was given, what it holds when its snapshot
\* resolves, and that an abort stops it.
LockIsComplete ==
  /\ [](LockTypeOK /\ AddedOnce /\ LoadedIsKept)
  /\ [](EdgesResolve /\ EveryDependencyRecorded /\ WorkspacesKeepDevDependencies)
  /\ AbortStopsAdding
==============================================================================
