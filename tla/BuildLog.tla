------------------------------ MODULE BuildLog ------------------------------
(***************************************************************************)
(* .ninja_log: a signature and one line per record, each in one write.  A  *)
(* write cut short leaves a last line without its newline, and the next    *)
(* line is appended to it.  Load counts the fields of each line.           *)
(***************************************************************************)
EXTENDS Naturals, Sequences, Functions, FiniteSets

CONSTANTS Outputs, Hashes,
          minCompactionEntryCount, compactionRatio

VARIABLES logFile,      \* on disk: header, lines, and whether the last is open
          entries       \* BuildLog.entries; NoEntry where there is none

logVars == <<logFile, entries>>

NoEntry == [hash |-> "none", mtime |-> 0]
NoEntries == [o \in Outputs |-> NoEntry]
NoLog == [header |-> "absent", lines |-> <<>>, open |-> FALSE]

\* What is left of a line cut short: digits of the start time; one to three
\* tabs; all tabs and no hash; part of the hash; all but the newline.
Cuts == {"digits", "tabs", "no hash", "part hash", "no newline"}

Line(out, e) == [fields |-> 5, out |-> out, entry |-> e]
Other(n) == [fields |-> n, out |-> "none", entry |-> NoEntry]

Cut(out, e, how) ==
    CASE how = "digits" -> Other(1)
      [] how = "tabs" -> Other(3)
      [] how = "no hash" -> Line(out, [e EXCEPT !.hash = "empty"])
      [] how = "part hash" -> Line(out, [e EXCEPT !.hash = "wrong"])
      [] how = "no newline" -> Line(out, e)

\* A write appended to an open line: the digits run into the start time, every
\* other rest makes a line of too many fields.
AppendLine(file, l) ==
    IF ~file.open THEN [file EXCEPT !.lines = Append(@, l)]
    ELSE LET n == Len(file.lines)
             rest == file.lines[n].fields
         IN  [file EXCEPT !.open = FALSE,
                          !.lines[n] = IF rest = 1 THEN l
                                       ELSE Other(rest + l.fields - 1)]

\* The lines Load does not skip.
Parsed(lines) == {k \in DOMAIN lines: lines[k].fields = 5}

\* Load: false when it returns an error, which ends the program.
LogReadable(file) ==
    /\ file.header # "torn"
    /\ \A k \in Parsed(file.lines): file.lines[k].entry.hash # "empty"

\* Mutant: the first line of an output wins.
LoadFirstEntries(lines) ==
    [o \in Outputs |->
        LET own == {k \in Parsed(lines): lines[k].out = o}
        IN  IF own = {} THEN NoEntry
            ELSE lines[CHOOSE k \in own: \A j \in own: k <= j].entry]

\* One round of Load's loop: the last line of an output wins.
LoadLine(es, l) == IF l.fields = 5 THEN [es EXCEPT ![l.out] = l.entry] ELSE es

LoadEntries(lines) ==
    LET es[k \in 0..Len(lines)] == IF k = 0 THEN NoEntries
                                   ELSE LoadLine(es[k - 1], lines[k])
    IN  es[Len(lines)]

NeedsRecompaction(file) ==
    LET total == Cardinality(Parsed(file.lines))
        unique == Cardinality({o \in Outputs: LoadEntries(file.lines)[o] # NoEntry})
    IN  /\ file.header = "complete"
        /\ total > minCompactionEntryCount
        /\ total > unique * compactionRatio

\* The order in which the iteration over a map meets its keys.
Listing(S) == CHOOSE s \in [1..Cardinality(S) -> S]: Range(s) = S

\* Mutant: every line is written from the same entry.
FileOfFirst(es) ==
    LET outs == Listing({o \in Outputs: es[o] # NoEntry})
    IN  [header |-> "complete", open |-> FALSE,
         lines |-> [k \in DOMAIN outs |-> Line(outs[k], es[outs[1]])]]

\* The lines of a fresh file with these entries, in the order of the map.
FileOf(es) ==
    LET outs == Listing({o \in Outputs: es[o] # NoEntry})
    IN  [header |-> "complete", open |-> FALSE,
         lines |-> [k \in DOMAIN outs |-> Line(outs[k], es[outs[k]])]]

LogInit ==
    /\ logFile \in {NoLog, [NoLog EXCEPT !.header = "old"]}
    /\ entries = NoEntries

\* A log of another version is removed, with a warning.
OpenLog ==
    IF logFile.header = "old"
    THEN logFile' = NoLog /\ entries' = NoEntries
    ELSE entries' = LoadEntries(logFile.lines) /\ UNCHANGED logFile

\* Recompact leaves out the entries of dead paths.
Recompacted(es, dead) ==
    [o \in Outputs |-> IF o \in dead THEN NoEntry ELSE es[o]]

\* Restat of the named outputs, of all of them if none is named.
Restatted(es, outs, mtime) ==
    [o \in Outputs |->
        IF es[o] # NoEntry /\ (outs = {} \/ o \in outs)
        THEN [es[o] EXCEPT !.mtime = mtime[o]] ELSE es[o]]

\* The next write of RecordCommand: the file is created, the signature is
\* written, the line is written.  The entry in memory was set before.  With a line
\* behind a signature without its newline the first line does not scan any more.
WriteLine(out, e) ==
    /\ logFile' = CASE logFile.header = "absent" -> [logFile EXCEPT !.header = "empty"]
                    [] logFile.header = "empty" -> [logFile EXCEPT !.header = "complete"]
                    [] logFile.header = "open" -> [logFile EXCEPT !.header = "torn"]
                    [] OTHER -> AppendLine(logFile, Line(out, e))

LineNext == logFile.header \notin {"absent", "empty"}

\* The write is cut short and the program ends.  Behind a signature without its
\* newline the digits of a start time make it one of another version.
TearLine(out, e) ==
    \/ /\ logFile.header = "empty"
       /\ \E how \in {"torn", "open"}: logFile' = [logFile EXCEPT !.header = how]
    \/ /\ logFile.header = "open"
       /\ \E how \in {"torn", "old"}: logFile' = [logFile EXCEPT !.header = how]
    \/ /\ logFile.header \in {"complete", "torn"}
       /\ \E how \in Cuts:
             logFile' = [AppendLine(logFile, Cut(out, e, how)) EXCEPT !.open = TRUE]
=============================================================================
