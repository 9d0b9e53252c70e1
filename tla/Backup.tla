------------------------------- MODULE Backup -------------------------------
(***************************************************************************)
(* The index over restarts of the server: SearchEngine::dump when the       *)
(* server object is destroyed, SearchEngine::restore when the next one is   *)
(* configured, and processes that are killed at any point.  Files are       *)
(* touched and removed by others all the while.                             *)
(*                                                                          *)
(* is_persistent and is_restoring_on_start are on.  The file is JSON or     *)
(* BJData and holds the time of the dump, the entries of each token and the *)
(* documents with statistics; cut short it does not parse.  Times are       *)
(* numbers of a clock that moves when a file is written; last_write_time    *)
(* counts from an epoch of its own, which a standard library may put in the *)
(* future: its count is negative and becomes a size_t when it is compared.  *)
(***************************************************************************)
EXTENDS Shard

CONSTANTS
    Main,               \* the thread that constructs and destroys the server
    FileEpochs,         \* when the epoch of the file clock may lie
    TimeWidth,          \* bits of the times compared (size_t)
    Volatile,           \* bound: the documents whose files are written or removed
    MaxTime             \* bound: how often files are written

ASSUME MainAssumption == Main \in Threads /\ Volatile \subseteq Paths
ASSUME TimeAssumption ==
    /\ TimeWidth \in Nat /\ 2 ^ TimeWidth \in Nat \ {0}
    /\ MaxTime \in Nat /\ FileEpochs \subseteq Nat

VARIABLES
    life,               \* what the process is doing
    files,              \* document -> when it was last written, for those that exist
    now,                \* the time
    fileEpoch,          \* the epoch of the file clock
    dumpFile,           \* the file of the dump
    remaining,          \* the entries restore has still to insert
    isStale,            \* restore's second result
    touched, late       \* documents written since the dump, before and during restore (history)

diskVars == <<files, now, fileEpoch, dumpFile>>
backupVars == <<life, diskVars, remaining, isStale, touched, late>>
allVars == <<vars, backupVars>>

Triples == Tokens \X Views \X Positions
DumpOf(state, ts, dump, docTrace, origin) ==
    [state |-> state, ts |-> ts, dump |-> dump, docTrace |-> docTrace, origin |-> origin]
NoDump == DumpOf("missing", 0, {}, {}, "kept")
TornDump == DumpOf("torn", 0, {}, {}, "kept")

\* What the process that dumps has gone through: all its documents were kept, one has left
\* the index, or its erases have gone astray (history).
Origin == IF Astray THEN "astray" ELSE IF freed THEN "freed" ELSE "kept"

BackupTypeOK ==
    /\ TypeOK
    /\ life \in {"up", "writing", "down", "restoring", "failed"}
    /\ DOMAIN files \subseteq Paths
    /\ \A d \in DOMAIN files : files[d] \in 0 .. now
    /\ now \in 0 .. MaxTime
    /\ fileEpoch \in FileEpochs
    /\ dumpFile \in [state : {"missing", "torn", "whole"}, ts : 0 .. MaxTime,
                     dump : SUBSET Triples, docTrace : SUBSET Views,
                     origin : {"kept", "freed", "astray"}]
    /\ remaining \subseteq dumpFile.dump
    /\ isStale \in BOOLEAN
    /\ touched \subseteq Paths /\ late \subseteq Paths

BackupInit ==
    /\ Init
    /\ life = "up"
    /\ files = [d \in Paths |-> 0]
    /\ now = 0
    /\ fileEpoch \in FileEpochs
    /\ dumpFile = NoDump
    /\ remaining = {}
    /\ isStale = FALSE
    /\ touched = {}
    /\ late = {}

-----------------------------------------------------------------------------
(* Serving                                                                  *)

\* The server's threads insert from files that are there, and erase.
Serve(th) ==
    /\ life = "up"
    /\ \/ ThreadStep(th)
       \/ \E i \in Inserts : i.doc \in DOMAIN files /\ CallInsert(th, i)
       \/ \E tk \in Erasable : CallEraseToken(th, tk)
    /\ UNCHANGED backupVars

Touch(d) ==
    /\ d \in DOMAIN files
    /\ now < MaxTime
    /\ now' = now + 1
    /\ files' = [files EXCEPT ![d] = now + 1]
    /\ IF life = "restoring"
       THEN late' = late \union {d} /\ UNCHANGED touched
       ELSE touched' = touched \union {d} /\ UNCHANGED late
    /\ UNCHANGED <<vars, life, fileEpoch, dumpFile, remaining, isStale>>

RemoveFile(d) ==
    /\ d \in DOMAIN files
    /\ files' = Erased(files, d)
    /\ UNCHANGED <<vars, life, now, fileEpoch, dumpFile, remaining, isStale, touched, late>>

-----------------------------------------------------------------------------
(* dump                                                                     *)

\* serializeType follows the shared_ptr to the record, whose entries become an array ...
SerializedRecord(record) == heap[record]

\* ... and Shard::serialize makes an object of the tokens.
Serialized ==
    UNION {{<<tk, e[1], e[2]>> : e \in SerializedRecord(m_record[tk])} : tk \in DOMAIN m_record}

\* What the entries read as.
Dumps == IF Astray
         THEN SUBSET {t \in Triples : \E s \in Serialized : t[1] = s[1] /\ t[3] = s[3]}
         ELSE {Serialized}

\* DocTrace::serialize: the documents by their views, with statistics; a view that dangles
\* reads as some path.
SerializedTraces ==
    {m_stats \union misread : misread \in {s \in SUBSET Paths : Cardinality(s) <= dangling}}

\* shutDown has joined the server's threads.  dump takes the time and serializes, and
\* opening the file empties it.
OpenDump ==
    /\ life = "up"
    /\ Quiet
    /\ life' = "writing"
    /\ \E dump \in Dumps, docTrace \in SerializedTraces :
         dumpFile' = DumpOf("torn", now, dump, docTrace, Origin)
    /\ touched' = {} /\ late' = {}
    /\ UNCHANGED <<vars, files, now, fileEpoch, remaining, isStale>>

\* The memory of a process is gone with it.
MemoryLost ==
    /\ m_size' = [m \in Maps |-> 0]
    /\ diff' = [th \in Threads |-> <<>>]
    /\ m_trace' = <<>> /\ m_record' = <<>> /\ heap' = <<>>
    /\ m_stats' = {} /\ dangling' = 0
    /\ freed' = FALSE /\ lost' = {} /\ crossed' = FALSE
    /\ dpc' = [th \in Threads |-> "idle"] /\ shpc' = [th \in Threads |-> "idle"]
    /\ dpath' = [th \in Threads |-> NoView] /\ hook' = [th \in Threads |-> NoView]
    /\ call' = [th \in Threads |-> NoCall]
    /\ found' = [th \in Threads |-> 0]
    /\ todo' = [th \in Threads |-> {}]
    /\ surplus' = [p \in Views |-> 0]
    /\ UNCHANGED inserts

\* The file is complete, and the process ends.
WriteDump ==
    /\ life = "writing"
    /\ life' = "down"
    /\ dumpFile' = [dumpFile EXCEPT !.state = "whole"]
    /\ MemoryLost
    /\ UNCHANGED <<files, now, fileEpoch, remaining, isStale, touched, late>>

\* A view that dangles may read as bytes that are not UTF-8: Json::dump throws in the
\* destructor, and the process ends with nothing in the file.
WriteThrows ==
    /\ life = "writing"
    /\ dangling > 0 \/ Astray
    /\ life' = "down"
    /\ dumpFile' = TornDump
    /\ MemoryLost
    /\ UNCHANGED <<files, now, fileEpoch, remaining, isStale, touched, late>>

\* A dump that was being written is of no use.
Kill ==
    /\ life \in {"up", "writing", "restoring"}
    /\ life' = "down"
    /\ dumpFile' = IF life = "writing" THEN TornDump ELSE dumpFile
    /\ remaining' = {}
    /\ isStale' = FALSE
    /\ MemoryLost
    /\ UNCHANGED <<files, now, fileEpoch, touched, late>>

-----------------------------------------------------------------------------
(* restore                                                                  *)

\* No file: restore returns false and the server goes on with what it has.  A file that
\* does not parse: parse throws, nobody catches, and the process ends.
Start ==
    /\ life \in {"down", "failed"}
    /\ life' = CASE dumpFile.state = "missing" -> "up"
                 [] dumpFile.state = "torn" -> "failed"
                 [] dumpFile.state = "whole" -> "restoring"
    /\ remaining' = dumpFile.dump
    /\ isStale' = FALSE
    /\ touched' = touched \union late
    /\ late' = {}
    /\ UNCHANGED <<vars, diskVars>>

\* Slip: the time is compared before the wrap.
FileTimeSigned(d) == files[d] - fileEpoch
FileTime(d) == (files[d] - fileEpoch) % (2 ^ TimeWidth)

\* last_write_time, the comparison, docTrace.at, insert.
RestoreEntry(entry) ==
    LET d == entry[2] IN
    /\ life = "restoring"
    /\ entry \in remaining
    /\ d \in DOMAIN files /\ d \in dumpFile.docTrace
    /\ isStale' = (isStale \/ dumpFile.ts < FileTime(d))
    /\ BeginInsert(Main, [token |-> entry[1], doc |-> d, pos |-> entry[3]])
    /\ remaining' = remaining \ {entry}
    /\ UNCHANGED <<inserts, life, diskVars, touched, late>>

RestoreInserts ==
    /\ life = "restoring"
    /\ ThreadStep(Main)
    /\ UNCHANGED backupVars

\* Slip: somebody catches the exception, and the server starts with what it has.
Swallowed == life' = "up" /\ UNCHANGED vars
Thrown == life' = "failed" /\ MemoryLost

\* last_write_time throws if the file is gone, at if there are no statistics.
RestoreThrows(entry) ==
    LET d == entry[2] IN
    /\ life = "restoring"
    /\ AtRest(Main)
    /\ entry \in remaining
    /\ d \notin DOMAIN files \/ d \notin dumpFile.docTrace
    /\ Thrown
    /\ remaining' = {}
    /\ isStale' = FALSE
    /\ UNCHANGED <<diskVars, touched, late>>

RestoreDone ==
    /\ life = "restoring"
    /\ AtRest(Main)
    /\ remaining = {}
    /\ life' = "up"
    /\ UNCHANGED <<vars, diskVars, remaining, isStale, touched, late>>

BackupNext ==
    \/ \E th \in Threads \ {Main} : Serve(th)
    \/ \E d \in Volatile : Touch(d) \/ RemoveFile(d)
    \/ OpenDump \/ WriteDump \/ WriteThrows \/ Kill \/ Start
    \/ \E entry \in remaining : RestoreEntry(entry) \/ RestoreThrows(entry)
    \/ RestoreInserts \/ RestoreDone

BackupSpec == BackupInit /\ [][BackupNext]_allVars

-----------------------------------------------------------------------------
(* Properties                                                               *)

Answers == life \in {"up", "writing"}

Known == ~Astray
Shown == IF Answers /\ Known THEN Serialized ELSE {}
Saved ==
    IF dumpFile.state # "whole" THEN <<dumpFile.state, TRUE, {}>>
    ELSE IF dumpFile.origin = "astray" THEN <<"whole", FALSE, {}>>
    ELSE <<"whole", TRUE, dumpFile.dump>>

Durable == INSTANCE DurableIndex WITH
    Entries <- Triples,
    up <- Answers,
    known <- Known,
    index <- Shown,
    saved <- Saved

\* However restore and the process are cut short, the index that answers after a restart
\* is the last dump's, every entry of every token of it and nothing else, though restore
\* inserts one entry after the other into a live index and may throw at any of them.
ImplementsDurableIndex == Durable!Spec

\* What keeps the server from starting is a dump cut short, a referenced file that is gone,
\* or a dump of a server that saw a document leave the index: then statistics may be missing
\* or garbled.  The dump of a server that did not has statistics for each document it
\* mentions, whatever its threads inserted and erased side by side.
OnlyMissingFilesFail ==
    life = "failed" =>
      \/ dumpFile.state = "torn"
      \/ \E entry \in dumpFile.dump : entry[2] \notin DOMAIN files
      \/ dumpFile.origin # "kept"

\* restore reports a dump as stale if a document in it was written between the dump and
\* the start, and not if none has been written since the dump - unless the file clock's
\* epoch lies in the future: then it reports every dump that has an entry.
StaleFlag ==
    [][ (life = "restoring" /\ life' = "up") =>
          LET docs == {entry[2] : entry \in dumpFile.dump} IN
          IF fileEpoch > now THEN isStale = (docs # {})
          ELSE /\ docs \intersect touched # {} => isStale
               /\ isStale => docs \intersect (touched \union late) # {} ]_allVars
=============================================================================
