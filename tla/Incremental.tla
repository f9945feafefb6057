---------------------------- MODULE Incremental ----------------------------
(***************************************************************************)
(* A working tree over many runs of the program: the user edits files and  *)
(* the manifest, builds, cleans, interrupts; the program may be killed     *)
(* between any two steps.  The question is whether what a later run finds  *)
(* clean is what a build from nothing would make.                          *)
(*                                                                         *)
(* A content is [cmd, v, in]: a source has a version, an output the        *)
(* command that made it and the contents it was made from.                 *)
(***************************************************************************)
EXTENDS ActionCache, Cleaner

CONSTANTS Rules,          \* sets of edges that share a rule
          MaxUser,        \* bound: steps of the user, crashes, interrupts and
                          \* inputs that cannot be hashed
          MaxBuilds,      \* bound: builds
          Editable,       \* sources the user edits
          Deletable       \* sources the user deletes

\* What the commands of manifest m of project p read: p.includes[e][v] besides the
\* inputs of e, when the first of these has version v.  In a project with a cache
\* the compiler reports what it reads; a generated file that is read is an input
\* or an order-only input of the edge; and no command reads its own output.
GoodCommands(p, m) ==
    \A e \in m.edges:
       /\ p.includes[e] \in [0..2 -> SUBSET Files]
       /\ e \in m.phony \/ m.ins[e] # <<>>
       /\ p.cache => \A v \in 0..2:
            /\ m.deps[e] \in {"gcc", "depfile"} \/ p.includes[e][v] = {}
            /\ m.out[e] \notin Range(m.ins[e]) \union p.includes[e][v]
            /\ \A x \in m.edges: m.out[x] \in p.includes[e][v] =>
                 m.out[x] \in Range(m.ins[e]) \union m.orderOnly[e]

ASSUME CommandAssumption ==
    \A p \in Projects: \A k \in 1..Len(p.manifests): GoodCommands(p, p.manifests[k])

VARIABLES clock,          \* the last mtime the file system gave out
          phase,          \* "idle", or "building": the loop of Build
          scan,           \* what the scan of this build found
          want,           \* edges of the plan wanted and not finished
          dirty,          \* nodes still dirty in this build
          run,            \* run[e]: how far e is in this build
          uploads,        \* results on their way to the cache
          failed,         \* a command of this build failed
          user, builds,   \* how much of the bounds is used up
          settled,        \* since the last build began nothing failed and the user
                          \* did nothing
          stale,          \* history: edges of this build that looked up or read a
                          \* file which was changed since
          doubtful,       \* history: edges whose last result may not be what a
                          \* later scan takes it for (Doubtful)
          skipped         \* history: edges of the last build that it passed over or
                          \* left without a file they need (Skipped)

treeVars == <<project, version, disk, depfile, log, depsLog, actionCache>>
buildVars == <<phase, scan, want, dirty, run, uploads, failed>>
userVars == <<user, builds, settled, stale, doubtful, skipped>>
vars == <<treeVars, clock, buildVars, userVars>>

Source(v) == [cmd |-> "source", v |-> v, in |-> <<>>]
Idle == [at |-> "no", start |-> 0, action |-> <<>>, content |-> Missing.c, hit |-> "no",
         deps |-> <<>>]
NoScan == [dirty |-> {}, mtime |-> <<>>, ins |-> <<>>, depsMissing |-> {}]

Cached == project.cache

\* S in some order.
Listing(S) == CHOOSE s \in [1..Cardinality(S) -> S]: Range(s) = S

Init ==
    /\ project \in Projects
    /\ version = 1
    /\ disk = [f \in Files |-> IF f \in ManifestNodes /\ InEdges(f) # {} THEN Missing
                               ELSE [c |-> Source(0), m |-> 1]]
    /\ depfile = [e \in Edges |-> NoDepfile]
    /\ log = [f \in Files |-> NoEntry]
    /\ depsLog = [f \in Files |-> NoDeps]
    /\ actionCache = {}
    /\ clock = 1
    /\ phase = "idle" /\ scan = NoScan /\ want = {} /\ dirty = {}
    /\ run = [e \in Edges |-> Idle]
    /\ uploads = {} /\ failed = FALSE
    /\ user = 0 /\ builds = 0 /\ settled = FALSE
    /\ stale = {} /\ doubtful = {} /\ skipped = {}

-----------------------------------------------------------------------------
(* The user, who edits and deletes files at any time, and does the rest    *)
(* between builds.                                                         *)
Running(e) == run[e].at # "no"

\* The edges whose result belongs to contents of f from before it is changed now:
\* they looked for one with f in the key, or ran and read f.
Overtaken(f) ==
    {e \in Edges: \/ run[e].at = "lookup" /\ f \in DOMAIN run[e].action.in
                  \/ run[e].at \in {"read", "ended"} /\ f \in DOMAIN run[e].content.in}
    \union {u.edge: u \in {x \in uploads: f \in DOMAIN x.content.in}}

UserStep == user < MaxUser /\ user' = user + 1 /\ settled' = FALSE

Touch(f, content) ==
    disk' = [disk EXCEPT ![f] = [c |-> content, m |-> clock']]

Edit(f) ==
    /\ UserStep
    /\ disk[f].m = 0 \/ disk[f].c.v < 2
    /\ clock' = clock + 1
    /\ Touch(f, IF disk[f].m = 0 THEN Source(0) ELSE [disk[f].c EXCEPT !.v = @ + 1])
    /\ stale' = stale \union Overtaken(f)
    /\ UNCHANGED <<project, version, depfile, log, depsLog, actionCache, buildVars, builds,
                   doubtful, skipped>>

Delete(f) ==
    /\ UserStep
    /\ disk[f].m > 0
    /\ disk' = [disk EXCEPT ![f] = Missing]
    /\ stale' = stale \union Overtaken(f)
    /\ UNCHANGED <<project, version, depfile, log, depsLog, actionCache, clock, buildVars,
                   builds, doubtful, skipped>>

ChangeManifest ==
    /\ phase = "idle" /\ UserStep
    /\ version' \in (version + 1)..Len(project.manifests)
    /\ UNCHANGED <<project, disk, depfile, log, depsLog, actionCache, clock, buildVars,
                   builds, stale, doubtful, skipped>>

RemoveFiles(files) ==
    /\ disk' = [f \in Files |-> IF f \in files.outs THEN Missing ELSE disk[f]]
    /\ depfile' = [e \in Edges |-> IF e \in files.depfiles THEN NoDepfile ELSE depfile[e]]

ToolClean(files) ==
    /\ phase = "idle" /\ UserStep
    /\ RemoveFiles(files)
    /\ UNCHANGED <<project, version, log, depsLog, actionCache, clock, buildVars, builds,
                   stale, doubtful, skipped>>

User ==
    \/ \E f \in Editable: Edit(f)
    \/ \E f \in Deletable: Delete(f)
    \/ ChangeManifest
    \/ \E generator \in BOOLEAN: ToolClean(CleanAll(generator))
    \/ \E f \in ManifestNodes: ToolClean(CleanTarget(f))
    \/ \E r \in Rules: ToolClean(CleanRule(r \intersect M.edges))
    \/ ToolClean(CleanDead)

-----------------------------------------------------------------------------
(* One build of everything. *)

\* AddSubTarget: a source of the manifest is missing that an edge needs which
\* is visited, as something it needs is dirty.
MissingInput(found) ==
    \E e \in M.edges: \E f \in Range(M.ins[e]) \union M.orderOnly[e]:
        /\ f \in found.dirty /\ InEdges(f) = {}
        /\ \E x \in Needs(found.ins, M.out[e]): M.out[x] \in found.dirty

StartBuild ==
    /\ phase = "idle" /\ builds < MaxBuilds
    /\ builds' = builds + 1
    /\ \E found \in {RecomputeDirty}:
         IF MissingInput(found)
         THEN settled' = FALSE /\ UNCHANGED <<phase, scan, want, dirty>>
         ELSE /\ phase' = "building"
              /\ scan' = found
              /\ want' = {e \in M.edges: M.out[e] \in found.dirty}
              /\ dirty' = found.dirty
              /\ settled' = TRUE
    /\ skipped' = {}
    /\ UNCHANGED <<treeVars, clock, run, uploads, failed, user, stale, doubtful>>

Ready(e) ==
    /\ e \in want /\ ~Running(e) /\ ~failed
    /\ (Needs(scan.ins, M.out[e]) \ {e}) \intersect want = {}

FinishPhony(e) ==
    /\ phase = "building" /\ Ready(e) /\ e \in M.phony
    /\ want' = want \ {e}
    /\ UNCHANGED <<treeVars, clock, phase, scan, dirty, run, uploads, failed, userVars>>

\* StartEdge, with the hashing of the inputs that StartCommand of the caching
\* runner does before it returns.  The lock file is written to get the time.
StartEdge(e) ==
    /\ phase = "building" /\ Ready(e) /\ e \notin M.phony
    /\ clock' = clock + 1
    /\ run' = [run EXCEPT ![e] = [Idle EXCEPT !.at = IF Cached THEN "lookup" ELSE "spawned",
                                             !.start = clock',
                                             !.action = Action(e, Range(scan.ins[e]))]]
    /\ UNCHANGED <<treeVars, phase, scan, want, dirty, uploads, failed, userVars>>

Results(e) == Hits(e, scan.ins[e], run[e].action)

\* Nothing is found, or a call to the cache fails.
Miss(e) ==
    /\ run[e].at = "lookup"
    /\ run' = [run EXCEPT ![e].at = "spawned"]
    /\ UNCHANGED <<treeVars, clock, phase, scan, want, dirty, uploads, failed, userVars>>

\* fetchOutputsAndResult; a pointer has no files to write.
Hit(e) ==
    /\ run[e].at = "lookup"
    /\ \E r \in Results(e):
          \/ /\ r.kind = "full"
             /\ clock' = clock + 1 /\ Touch(M.out[e], r.content)
             /\ run' = [run EXCEPT ![e].at = "ended",
                                   ![e].hit = IF r.sound THEN "sound" ELSE "unsound"]
          \/ /\ r.kind = "pointer"
             /\ run' = [run EXCEPT ![e].at = "ended", ![e].hit = "empty"]
             /\ UNCHANGED <<clock, disk>>
    /\ UNCHANGED <<project, version, depfile, log, depsLog, actionCache, phase, scan, want,
                   dirty, uploads, failed, userVars>>

-----------------------------------------------------------------------------
(* The command, modelled by what the program assumes of commands: it reads *)
(* its inputs and what they include, then writes its output, its depfile   *)
(* and nothing else; a restat command looks only at every second version   *)
(* and leaves an output alone that would not change.                       *)
View(e, c) == IF e \in M.restat THEN [c EXCEPT !.v = @ \div 2] ELSE c

Reads(e, first) ==
    {f \in Range(M.ins[e]): ~\E p \in M.phony: M.out[p] = f} \union project.includes[e][first.v]

Made(e, contents) ==
    [cmd |-> M.cmd[e], v |-> 0,
     in |-> [f \in Reads(e, contents[M.ins[e][1]]) |-> View(e, contents[f])]]

Contents == [f \in Files |-> disk[f].c]

Read(e) ==
    /\ run[e].at = "spawned"
    /\ run' = IF \E f \in Reads(e, disk[M.ins[e][1]].c): disk[f].m = 0
              THEN [run EXCEPT ![e].at = "broken"]
              ELSE [run EXCEPT ![e].at = "read", ![e].content = Made(e, Contents)]
    /\ stale' = stale \ {e}
    /\ UNCHANGED <<treeVars, clock, phase, scan, want, dirty, uploads, failed, user, builds,
                   settled, doubtful, skipped>>

WriteOutput(e) ==
    /\ run[e].at = "read"
    /\ IF e \in M.restat /\ disk[M.out[e]].m > 0 /\ disk[M.out[e]].c = run[e].content
       THEN UNCHANGED <<clock, disk>>
       ELSE clock' = clock + 1 /\ Touch(M.out[e], run[e].content)
    /\ depfile' = IF M.deps[e] = "none" THEN depfile
                  ELSE [depfile EXCEPT ![e] =
                          [exists |-> TRUE, ins |-> Listing(DOMAIN run[e].content.in)]]
    /\ run' = [run EXCEPT ![e].at = "ended"]
    /\ UNCHANGED <<project, version, log, depsLog, actionCache, phase, scan, want, dirty,
                   uploads, failed, userVars>>

-----------------------------------------------------------------------------
(* FinishCommand. *)

\* sort.Search, which probes as if the answers were sorted.
SearchFindsNone(ins, nodes) ==
    LET low[i \in 0..Len(ins), j \in 0..Len(ins)] ==
            IF i >= j THEN i
            ELSE LET h == (i + j) \div 2
                 IN  IF ins[h + 1] \in nodes THEN low[i, h] ELSE low[h + 1, j]
    IN  low[0, Len(ins)] = Len(ins)

OutEdges(n) == {e \in M.edges: n \in Range(scan.ins[e]) \union M.orderOnly[e]}

NothingCleaned == [edges |-> {}, nodes |-> {}, mtime |-> scan.mtime, todo |-> <<>>]

\* UpdatePhonyMtime: the output of a phony edge that does not exist.
PhonyMtime(e, mtime, recent) ==
    IF e \in M.phony /\ mtime[M.out[e]] = 0 /\ recent >= 0
    THEN [mtime EXCEPT ![M.out[e]] = recent] ELSE mtime

\* CleanNode looks at one edge: c has the edges un-wanted, the nodes marked clean,
\* the mtimes of the nodes and, innermost call first, the out-edges that its calls
\* have yet to look at.
CleanStep(c) ==
    LET e == Head(c.todo)
        recent == Max({c.mtime[i]: i \in Range(scan.ins[e])} \union {-1})
    IN  IF c.todo = <<>> THEN c
        ELSE IF /\ e \in want \ c.edges /\ e \notin scan.depsMissing
                /\ SearchFindsNone(scan.ins[e], dirty \ c.nodes)
                /\ ~OutputDirty(e, c.mtime[M.out[e]], recent)
        THEN [edges |-> c.edges \union {e}, nodes |-> c.nodes \union {M.out[e]},
              mtime |-> PhonyMtime(e, c.mtime, recent),
              todo |-> Listing(OutEdges(M.out[e])) \o Tail(c.todo)]
        ELSE [c EXCEPT !.todo = Tail(@)]

\* CleanNode(f), its calls to itself included.  Every edge is un-wanted once at
\* most, so that no more than n * (n + 1) edges are looked at.
CleanNode(f) ==
    LET n == Cardinality(M.edges)
        c[i \in 0..(n * (n + 1))] ==
            IF i = 0
            THEN [edges |-> {}, nodes |-> {f}, mtime |-> scan.mtime, todo |-> Listing(OutEdges(f))]
            ELSE CleanStep(c[i - 1])
    IN  c[n * (n + 1)]

\* ExtractDeps.  A missing depfile counts as an empty one.
ExtractDeps(e) == IF M.deps[e] = "gcc" THEN depfile[e].ins ELSE <<>>

\* Mutant: the log gets the time the output was written.
RecordOutputMtime(e, cleaned) == disk[M.out[e]].m

RecordMtime(e, cleaned) ==
    IF ~cleaned /\ e \in M.restat \union M.generator
    THEN Max({run[e].start, disk[M.out[e]].m})
    ELSE run[e].start

\* The result of e may be older than what a later scan compares: it is a hit whose
\* deps are not known or whose entry is not sound, or an input was changed before
\* the output got the mtime that the log keeps of it.
Doubtful(e) ==
    \/ run[e].hit # "no" /\ (run[e].hit = "unsound" \/ M.deps[e] # "none")
    \/ e \in stale \intersect (M.restat \union M.generator)

NowDoubtful(e) == IF Doubtful(e) THEN doubtful \union {e} ELSE doubtful \ {e}

\* What the build passes over: the edges that CleanNode un-wants with an input
\* still dirty, and an edge whose hit brought no output or not its depfile.
Skipped(e, cleaned, still) ==
    {x \in cleaned: Range(scan.ins[x]) \intersect still # {}}
    \union {x \in {e}: \/ run[e].hit = "empty"
                       \/ run[e].hit # "no" /\ M.deps[e] = "depfile"}

\* FinishCommand up to the record in the build log.
FinishCommand(e) ==
    LET out == M.out[e]
        deps == ExtractDeps(e)
        cleaned == e \in M.restat /\ scan.mtime[out] = disk[out].m
        c == IF cleaned THEN CleanNode(out) ELSE NothingCleaned
    IN  /\ run[e].at = "ended"
        /\ depfile' = IF M.deps[e] = "gcc" THEN [depfile EXCEPT ![e] = NoDepfile] ELSE depfile
        /\ uploads' = IF Cached /\ run[e].hit = "no"
                      THEN uploads \union {[edge |-> e, deps |-> deps, i |-> 1,
                                            content |-> run[e].content]}
                      ELSE uploads
        /\ want' = want \ (c.edges \union {e})
        /\ dirty' = dirty \ c.nodes
        /\ log' = [log EXCEPT ![out] = [hash |-> M.cmd[e], mtime |-> RecordMtime(e, cleaned)]]
        /\ run' = [run EXCEPT ![e] = IF M.deps[e] = "gcc"
                                     THEN [@ EXCEPT !.at = "logged", !.deps = deps]
                                     ELSE Idle]
        /\ scan' = [scan EXCEPT !.mtime = c.mtime]
        /\ doubtful' = IF M.deps[e] = "gcc" THEN doubtful ELSE NowDoubtful(e)
        /\ skipped' = skipped \union Skipped(e, c.edges, dirty')
        /\ UNCHANGED <<project, version, disk, depsLog, actionCache, clock, phase, failed, user,
                       builds, settled, stale>>

\* The rest of FinishCommand.
RecordDeps(e) ==
    /\ run[e].at = "logged"
    /\ depsLog' = [depsLog EXCEPT ![M.out[e]] = [mtime |-> disk[M.out[e]].m,
                                                 nodes |-> run[e].deps]]
    /\ doubtful' = NowDoubtful(e)
    /\ run' = [run EXCEPT ![e] = Idle]
    /\ UNCHANGED <<project, version, disk, depfile, log, actionCache, clock, phase, scan, want,
                   dirty, uploads, failed, user, builds, settled, stale, skipped>>

\* FinishCommand of a command that failed; ExtractDeps runs all the same.
FinishFailed(e) ==
    /\ run[e].at = "broken"
    /\ depfile' = IF M.deps[e] = "gcc" THEN [depfile EXCEPT ![e] = NoDepfile] ELSE depfile
    /\ run' = [run EXCEPT ![e] = Idle]
    /\ want' = want \ {e}
    /\ failed' = TRUE /\ settled' = FALSE
    /\ UNCHANGED <<project, version, disk, log, depsLog, actionCache, clock, phase, scan, dirty,
                   uploads, user, builds, stale, doubtful, skipped>>

\* The goroutine of CacheResult uploads one entry; it ends after the last one,
\* or with the first that fails.  When the inputs of an entry cannot be hashed the
\* error is lost, and the entry is stored under the digest of no action.  The key
\* of a result says what its command read unless a file was changed meanwhile, or
\* the edge has a depfile and no deps: what that lists is not discovered.
Upload(u) ==
    LET results == ActionResults(u.edge, scan.ins[u.edge], u.deps, u.content)
        entry == [results[u.i] EXCEPT !.sound = /\ u.edge \notin stale
                                                /\ M.deps[u.edge] # "depfile"]
        rest == uploads \ {u}
        next == IF u.i < Len(results) THEN rest \union {[u EXCEPT !.i = @ + 1]} ELSE rest
    IN  /\ \/ /\ actionCache' = UploadActionResult(entry)
              /\ uploads' = next /\ UNCHANGED user
           \/ /\ user < MaxUser /\ user' = user + 1
              /\ actionCache' = UploadActionResult([entry EXCEPT !.key = NilAction])
              /\ uploads' = next
           \/ uploads' = rest /\ UNCHANGED <<actionCache, user>>
        /\ UNCHANGED <<project, version, disk, depfile, log, depsLog, clock, phase, scan, want,
                       dirty, run, failed, builds, settled, stale, doubtful, skipped>>

-----------------------------------------------------------------------------
(* How a build ends. *)
Reset ==
    /\ phase' = "idle" /\ scan' = NoScan /\ want' = {} /\ dirty' = {}
    /\ run' = [e \in Edges |-> Idle] /\ uploads' = {} /\ failed' = FALSE /\ stale' = {}

EndBuild ==
    /\ phase = "building"
    /\ ~\E e \in Edges: Running(e)
    /\ failed \/ (want = {} /\ uploads = {})
    /\ Reset
    /\ UNCHANGED <<treeVars, clock, user, builds, settled, doubtful, skipped>>

\* Cleanup after an interrupt.  The commands that were killed have changed
\* some of their outputs.
Interrupt ==
    LET active == {e \in Edges: run[e].at \notin {"no", "logged"}}
    IN  /\ phase = "building" /\ UserStep
        /\ active # {} /\ ~\E e \in Edges: run[e].at = "logged"
        /\ \E partly \in SUBSET {e \in active: run[e].at \in {"spawned", "read", "lookup"}}:
              LET changed == {e \in active: disk[M.out[e]].m # scan.mtime[M.out[e]]} \union partly
                  hasDepfile == {e \in active: M.deps[e] # "none"}
              IN  RemoveFiles([outs |-> {M.out[e]: e \in changed \union hasDepfile},
                               depfiles |-> hasDepfile])
        /\ Reset
        /\ UNCHANGED <<project, version, log, depsLog, actionCache, clock, builds, doubtful,
                       skipped>>

Crash ==
    /\ phase = "building" /\ UserStep
    /\ Reset
    /\ UNCHANGED <<treeVars, clock, builds, doubtful, skipped>>

Build ==
    \/ StartBuild
    \/ \E e \in M.edges: \/ FinishPhony(e) \/ StartEdge(e) \/ Miss(e) \/ Hit(e)
                          \/ Read(e) \/ WriteOutput(e) \/ FinishCommand(e) \/ RecordDeps(e)
                          \/ FinishFailed(e)
    \/ \E u \in uploads: Upload(u)
    \/ EndBuild

\* The user is content, or has used up the bounds.
Terminated == phase = "idle" /\ UNCHANGED vars

Next == User \/ Build \/ Interrupt \/ Crash \/ Terminated

Spec == Init /\ [][Next]_vars

-----------------------------------------------------------------------------
\* What a build from nothing would make of the sources as they are now.
FromScratch ==
    LET made[f \in Files] ==
            IF InEdges(f) = {} THEN disk[f].c
            ELSE LET e == CHOOSE x \in InEdges(f): TRUE
                 IN  IF e \in M.phony THEN Missing.c
                     ELSE LET reads == Reads(e, made[M.ins[e][1]])
                          IN  [cmd |-> M.cmd[e], v |-> 0,
                               in |-> [r \in reads |-> View(e, made[r])]]
    IN  made

Clean == phase = "idle" /\ RecomputeDirty.dirty = {}

Fresh(e) == disk[M.out[e]].c = FromScratch[M.out[e]]

\* When the scan finds nothing to do, every output has the content a build
\* from nothing would give it, whatever was edited, deleted, cleaned,
\* interrupted or killed before, during a build included.  Left out are the
\* outputs made, directly or not, by an edge whose last result was a hit without
\* its deps (DepsSurviveHits), a hit of an entry that is not sound (Upload), or
\* the output of a restat or generator command with an input that was changed
\* while it ran (RecordMtime).
CleanIsFresh ==
    Clean => \A e \in Commands:
               Fresh(e) \/ Needs(M.ins, M.out[e]) \intersect doubtful # {}

\* README: "This way if either explicit or implicit inputs change, the object
\* will be recompiled."  CleanIsFresh without the exception for hits, when every
\* entry of the cache is sound.
DepsSurviveHits ==
    Clean /\ (\A r \in actionCache: r.sound) => \A e \in Commands: Fresh(e)

\* A second build after a successful one has nothing to do, when the user changed
\* nothing since the first began, but to make what the first left out: an output
\* that needs an edge which CleanNode passed over although one of its inputs was
\* dirty (UnwantedHasCleanInputs of Plan), or an edge whose cache hit did not
\* bring the output (a pointer taken for a result) or the depfile.
BuildConverges ==
    phase = "idle" /\ settled =>
        \A found \in {RecomputeDirty}: \A e \in M.edges: M.out[e] \in found.dirty =>
            Needs(found.ins, M.out[e]) \intersect skipped # {}

\* A full entry of the cache holds what its command makes of the inputs in its
\* key, and everything the command read is in the key, so that a lookup by anyone
\* with these inputs may take it; except an entry that was uploaded after an input
\* its command had read was changed, or by an edge with a depfile and no deps, and
\* one under the digest of no action, which no lookup finds.  The key is hashed
\* by the upload, beside later commands (uploadActionResult).
CacheEntriesMatchKeys ==
    \A r \in actionCache: r.kind = "full" /\ r.sound /\ r.key # NilAction =>
        /\ r.content.cmd = r.key.cmd
        /\ DOMAIN r.content.in \subseteq DOMAIN r.key.in
        /\ \A f \in DOMAIN r.content.in:
              r.content.in[f] \in {r.key.in[f], [r.key.in[f] EXCEPT !.v = @ \div 2]}

\* No step of the program, in a build, in Cleanup after an interrupt or in a clean
\* tool, changes or removes a file that the manifest uses and has no edge for; a
\* file that an earlier manifest built and this one takes as a source is such a
\* file.  Only the user's own edit or deletion of the file does.
SourcesAreKept ==
    [][\A f \in ManifestNodes: InEdges(f) = {} /\ disk'[f] # disk[f] =>
         \/ f \in Editable /\ Edit(f)
         \/ f \in Deletable /\ Delete(f)]_vars
=============================================================================
