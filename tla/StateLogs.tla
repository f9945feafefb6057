----------------------------- MODULE StateLogs -----------------------------
(***************************************************************************)
(* The two logs of a build directory across runs of the program: main      *)
(* opens both, FinishCommand records a finished edge in the build log and  *)
(* then in the deps log, -t restat rewrites the build log.  The process    *)
(* can be killed, or a write can fail and end it, between any two writes   *)
(* and inside one.                                                         *)
(***************************************************************************)
EXTENDS BuildLog, DepsLog

CONSTANTS Times,          \* mtimes
          DepLists,       \* what a depfile may list
          MaxRecords,     \* bound: edges finished and restats
          MaxCrashes,     \* bound: processes that end early
          MaxTears        \* bound: of these, inside a write of the build log

ASSUME LogsAssumption ==
    /\ IsFiniteSet(Outputs)
    /\ {"none", "empty", "wrong"} \intersect Hashes = {}
    /\ Times \subseteq Nat
    /\ DepLists \subseteq Seq(Paths)

VARIABLES proc,           \* where the process is; "down" when there is none
          pending,        \* the writes FinishCommand still has to do
          dead,           \* paths that are dead for this process
          request,        \* the arguments of the running RecordDeps
          stored,         \* history: the deps a process starting now would load
          recorded,       \* history: what RecordCommand and Restat had to record
          finishes, crashes, tears

vars == <<logVars, depsVars, stored, proc, pending, dead, request, recorded,
          finishes, crashes, tears>>
bounds == <<finishes, crashes, tears>>

NoRequest == [out |-> "none"]
StoredIn(file) == [o \in Outputs \intersect Paths |-> GetDeps(LoadDeps(file.recs), o)]

Init ==
    /\ LogInit /\ DepsInit
    /\ proc = "down" /\ pending = <<>> /\ dead = {} /\ request = NoRequest
    /\ stored = StoredIn(depsFile)
    /\ recorded = {} /\ finishes = 0 /\ crashes = 0 /\ tears = 0

\* OpenBuildLog: Load, then OpenForWrite recompacts if Load said so.
OpenBuildLog ==
    /\ proc = "down"
    /\ LogReadable(logFile)
    /\ OpenLog
    /\ IF NeedsRecompaction(logFile)
       THEN \E d \in SUBSET Outputs: dead' = d /\ proc' = "recompact"
       ELSE dead' = {} /\ proc' = "deps"
    /\ UNCHANGED <<depsVars, stored, pending, request, recorded, bounds>>

\* Recompact: the new file is written beside the log, which is removed.
Recompact ==
    /\ proc = "recompact"
    /\ entries' = Recompacted(entries, dead)
    /\ logFile' = NoLog
    /\ proc' = "rename"
    /\ UNCHANGED <<depsVars, stored, pending, dead, request, recorded, bounds>>

\* ReplaceFileContent ends: the new file takes the name of the log.
Rename ==
    /\ proc \in {"rename", "rename restat"}
    /\ logFile' = FileOf(entries)
    /\ proc' = IF proc = "rename" THEN "deps" ELSE "down"
    /\ UNCHANGED <<entries, depsVars, stored, pending, dead, request, recorded, bounds>>

OpenDepsLog ==
    /\ proc = "deps"
    /\ ~DepsUnreadable
    /\ OpenDeps
    /\ stored' = StoredIn(depsFile')
    /\ proc' = "up"
    /\ UNCHANGED <<logVars, pending, dead, request, recorded, bounds>>

\* main exits with status 1 when a log does not load.
ExitUnreadable ==
    /\ \/ proc = "down" /\ ~LogReadable(logFile)
       \/ proc = "deps" /\ DepsUnreadable
    /\ proc' = "refused"
    /\ UNCHANGED <<logVars, depsVars, stored, pending, dead, request, recorded, bounds>>

\* -t restat loads the build log and replaces it; a missing output has mtime
\* 0.  A log of another version is gone after Load and cannot be replaced.
ToolRestat ==
    /\ proc = "down"
    /\ finishes < MaxRecords
    /\ finishes' = finishes + 1
    /\ logFile.header # "absent" /\ LogReadable(logFile)
    /\ logFile' = NoLog
    /\ IF logFile.header = "old"
       THEN UNCHANGED <<entries, proc, recorded>>
       ELSE /\ \E outs \in {{}} \union {{o}: o \in Outputs},
                  mtime \in [Outputs -> Times \union {0}]:
                 entries' = Restatted(LoadEntries(logFile.lines), outs, mtime)
            /\ recorded' = recorded \union {[out |-> o, entry |-> entries'[o]]:
                                              o \in Outputs}
            /\ proc' = "rename restat"
    /\ UNCHANGED <<depsVars, stored, pending, dead, request, crashes, tears>>

\* The end of FinishCommand for an edge with one output; an edge with deps
\* records them after the command.
FinishCommand(out) ==
    /\ proc = "up" /\ pending = <<>>
    /\ out \notin dead
    /\ finishes < MaxRecords
    /\ \E hash \in Hashes, mtime \in Times, ins \in DepLists:
         LET e == [hash |-> hash, mtime |-> mtime]
         IN  /\ entries' = [entries EXCEPT ![out] = e]
             /\ recorded' = recorded \union {[out |-> out, entry |-> e]}
             /\ IF out \in Paths
                THEN /\ pending' = <<[line |-> out]>> \o RecordDeps(out, mtime, ins)
                     /\ request' = [out |-> out,
                                    value |-> [mtime |-> mtime, paths |-> ins]]
                ELSE pending' = <<[line |-> out]>> /\ UNCHANGED request
    /\ finishes' = finishes + 1
    /\ UNCHANGED <<logFile, depsVars, stored, proc, dead, crashes, tears>>

IsLine(w) == "line" \in DOMAIN w

\* The next write; the record is done once the file has its header.
Write ==
    /\ proc = "up" /\ pending # <<>>
    /\ LET w == Head(pending)
           whole == IF IsLine(w) THEN LineNext ELSE DepsRecordNext
       IN  /\ IF IsLine(w)
              THEN WriteLine(w.line, entries[w.line]) /\ UNCHANGED <<entries, depsVars>>
              ELSE WriteDeps(w) /\ UNCHANGED logVars
           /\ pending' = IF whole THEN Tail(pending) ELSE pending
           /\ request' = IF pending' = <<>> THEN NoRequest ELSE request
    /\ stored' = StoredIn(depsFile')
    /\ UNCHANGED <<proc, dead, recorded, bounds>>

\* What is lost with the process.
ProcessEnds ==
    /\ proc' = "down" /\ pending' = <<>> /\ dead' = {} /\ request' = NoRequest
    /\ entries' = NoEntries
    /\ nodes' = <<>> /\ deps' = <<>>

\* The program exits with nothing left to write, or after it refused to start.
Exit ==
    /\ proc = "refused" \/ (proc = "up" /\ pending = <<>>)
    /\ ProcessEnds
    /\ UNCHANGED <<logFile, depsFile, stored, recorded, bounds>>

\* The process is killed between two writes or inside a deps record, or a
\* write fails half way: FinishCommand's error ends the build.
Crash ==
    /\ proc \notin {"down", "refused"}
    /\ crashes < MaxCrashes
    /\ crashes' = crashes + 1
    /\ ProcessEnds
    /\ \/ UNCHANGED <<logFile, depsFile, tears>>
       \/ /\ pending # <<>> /\ ~IsLine(Head(pending))
          /\ TearDeps
          /\ UNCHANGED <<logFile, tears>>
       \/ /\ pending # <<>> /\ IsLine(Head(pending))
          /\ tears < MaxTears
          /\ TearLine(Head(pending).line, entries[Head(pending).line])
          /\ tears' = tears + 1
          /\ UNCHANGED depsFile
    /\ stored' = StoredIn(depsFile')
    /\ UNCHANGED <<recorded, finishes>>

Next ==
    \/ OpenBuildLog \/ Recompact \/ Rename \/ OpenDepsLog \/ ExitUnreadable
    \/ ToolRestat \/ (\E out \in Outputs: FinishCommand(out))
    \/ Write \/ Exit \/ Crash

Spec == Init /\ [][Next]_vars

----------------------------------------------------------------------------
\* The deps log keeps what it promises through every crash: what a process
\* that starts now would load changes only by whole records.
Store == INSTANCE DepsStore WITH
    StoreOutputs <- Outputs \intersect Paths, store <- stored,
    NoValue <- [mtime |-> -1, paths |-> <<>>]
ImplementsDepsStore == Store!StoreSpec

\* Between two records a running process and its files agree, after loading,
\* truncation, recompaction, restat and appending: what it believes is what
\* the next process will believe.
MemoryAgreesWithDisk ==
    proc = "up" /\ pending = <<>> /\ tears = 0 =>
        /\ entries = LoadEntries(logFile.lines)
        /\ \A p \in Paths: GetDeps([nodes |-> nodes, deps |-> deps], p)
                             = GetDeps(LoadDeps(depsFile.recs), p)

\* A torn line is never read as a command that was not recorded: every loaded
\* entry was recorded as it is, or its hash is one no command has.
LoadInventsNothing ==
    \A o \in Outputs:
        LET e == LoadEntries(logFile.lines)[o]
        IN  LogReadable(logFile) /\ e.hash \in Hashes
            => [out |-> o, entry |-> e] \in recorded

\* Every id a deps record names has its path record before it in the file, so
\* Load never keeps a nil node, wherever a process died.
IdsAreKnown ==
    LET recs == depsFile.recs
    IN  \A k \in DOMAIN recs: isDeps(recs[k]) =>
          \A id \in {recs[k].out} \union Range(recs[k].ids):
             \E j \in 1..(k - 1): ~isDeps(recs[j]) /\ recs[j].id = id

\* The message of an unreadable deps log says "starting over": the program
\* never refuses to start because of what an earlier process left.
StartsOver == proc # "refused"
=============================================================================
