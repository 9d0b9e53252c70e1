---------------------------- MODULE BackupProofs ----------------------------
(***************************************************************************)
(* What holds of the index over restarts, for every number of threads,      *)
(* documents, tokens and inserts: the types, the counts, that Backup        *)
(* implements DurableIndex, the references between records and documents,   *)
(* what keeps a server from starting, and when a dump counts as stale.      *)
(***************************************************************************)
EXTENDS Backup, ShardProofs

\* They only group variables.
USE DEF statVars, fateVars

-----------------------------------------------------------------------------
(* Types and counts                                                         *)

\* Only restore has entries left to insert, and only a whole dump, or one being written,
\* has entries at all.
DumpInv ==
    /\ life # "restoring" => remaining = {}
    /\ life # "writing" /\ dumpFile.state # "whole" => dumpFile.dump = {}

BackupInv == BackupTypeOK /\ SizesInv /\ DumpInv

\* A process that starts has the empty index of a server that was just constructed.
LEMMA FreshMemory ==
  ASSUME BackupInv, MemoryLost
  PROVE  SizesInv'
<1>1. SizesOK(Maps)'
  <2>1. 2 ^ SizeWidth \in Nat \ {0}  BY SizeWidthAssumption
  <2>2. 0 \in 0 .. 2 ^ SizeWidth - 1  BY <2>1
  <2> QED  BY <2>2 DEF MemoryLost, SizesOK
<1>2. DocTypeOK'
  <2>1. freed' \in BOOLEAN  BY DEF MemoryLost
  <2> QED  BY <1>1, <2>1 DEF MemoryLost, DocTypeOK, Views, DocPlaces
<1>3. call' \in [Threads -> [token : Tokens, pos : Nat]]
  <2>1. NoCall \in [token : Tokens, pos : Nat]  BY TokensAssumption DEF NoCall
  <2> QED  BY <2>1 DEF MemoryLost
<1>4. inserts' \in 0 .. MaxCalls  BY DEF MemoryLost, BackupInv, BackupTypeOK, TypeOK
<1>5. heap' \in Seq(SUBSET Entries) /\ DOMAIN m_record' = {} /\ DOMAIN m_trace' = {}
  BY DEF MemoryLost
<1>6. TypeInv'  BY <1>2, <1>3, <1>4, <1>5 DEF MemoryLost, TypeInv, TypeOK, CallsTyped
<1>7. KeysFinite'  BY <1>5, FS_EmptySet DEF KeysFinite
<1>8. SizesAddUp'
  <2>1. SizeWrap(0) = 0
    <3> DEFINE M == 2 ^ SizeWidth
    <3>1. M \in Nat \ {0}  BY SizeWidthAssumption
    <3> HIDE DEF M
    <3>2. 0 % M = 0  BY <3>1
    <3> QED  BY <3>2 DEF SizeWrap, M
  <2>2. ASSUME NEW map \in Maps
        PROVE  m_size'[map] = SizeWrap(Cardinality({}) - Owed(diff', map))
    <3>1. m_size'[map] = 0 /\ diff' = [th \in Threads |-> <<>>]  BY DEF MemoryLost
    <3>2. Owing(diff', <<map, 1>>) = {} /\ Owing(diff', <<map, -1>>) = {}
      BY <3>1 DEF Owing
    <3>3. Owed(diff', map) = 0 /\ Cardinality({}) = 0  BY <3>2, FS_EmptySet DEF Owed
    <3> QED  BY <3>1, <3>3, <2>1
  <2> QED  BY <1>5, <2>2 DEF SizesAddUp, SizeAddsUp, OwedTo, Owed, Owing, Maps
<1> QED  BY <1>6, <1>7, <1>8 DEF SizesInv

\* What a server writes is made of its tokens, documents and positions.
LEMMA SerializedType ==
  ASSUME TypeOK
  PROVE  Serialized \subseteq Triples
<1> SUFFICES ASSUME NEW tk \in DOMAIN m_record, NEW e \in heap[m_record[tk]]
             PROVE  <<tk, e[1], e[2]>> \in Triples
  BY DEF Serialized, SerializedRecord
<1>1. tk \in Tokens /\ m_record[tk] \in DOMAIN heap  BY DEF TypeOK
<1>2. heap[m_record[tk]] \in SUBSET Entries  BY <1>1 DEF TypeOK
<1>3. e \in Views \X Positions  BY <1>2 DEF Entries
<1> QED  BY <1>1, <1>3 DEF Triples

LEMMA BackupInitInv == BackupInit => BackupInv
<1> SUFFICES ASSUME BackupInit PROVE BackupInv  OBVIOUS
<1>1. SizesInv  BY InitSizes DEF BackupInit
<1>2. dumpFile = [state |-> "missing", ts |-> 0, dump |-> {}, docTrace |-> {}, origin |-> "kept"]
  BY DEF BackupInit, NoDump, DumpOf
<1>3. 0 \in 0 .. MaxTime  BY TimeAssumption
<1>4. dumpFile \in [state : {"missing", "torn", "whole"}, ts : 0 .. MaxTime,
                    dump : SUBSET Triples, docTrace : SUBSET Views,
                    origin : {"kept", "freed", "astray"}]
  BY <1>2, <1>3
<1>5. TypeOK  BY <1>1 DEF SizesInv, TypeInv
<1>6. DOMAIN files = Paths /\ \A d \in DOMAIN files : files[d] \in 0 .. now
  BY DEF BackupInit
<1>7. BackupTypeOK
  BY <1>3, <1>4, <1>5, <1>6 DEF BackupInit, BackupTypeOK
<1>8. DumpInv  BY <1>2 DEF BackupInit, DumpInv
<1> QED  BY <1>1, <1>7, <1>8 DEF BackupInv

LEMMA SameSizes ==
  ASSUME SizesInv, UNCHANGED vars
  PROVE  SizesInv'
BY NextSizes

\* Serving, and the inserts of restore.
LEMMA ServeInv ==
  ASSUME BackupInv, NEW th \in Threads, Serve(th)
  PROVE  BackupInv'
<1>1. SizesInv'
  <2>1. CASE ThreadStep(th)  BY <2>1, ThreadStepSizes DEF BackupInv
  <2>2. ASSUME NEW i \in Inserts, CallInsert(th, i)  PROVE SizesInv'
    BY <2>2, NextSizes DEF BackupInv, Next
  <2>3. ASSUME NEW tk \in Erasable, CallEraseToken(th, tk)  PROVE SizesInv'
    BY <2>3, NextSizes DEF BackupInv, Next
  <2> QED  BY <2>1, <2>2, <2>3 DEF Serve
<1>2. UNCHANGED backupVars  BY DEF Serve
<1> QED  BY <1>1, <1>2 DEF BackupInv, BackupTypeOK, DumpInv, backupVars, diskVars, SizesInv, TypeInv

LEMMA RestoreInsertsInv ==
  ASSUME BackupInv, RestoreInserts
  PROVE  BackupInv'
<1>1. SizesInv'  BY ThreadStepSizes, MainAssumption DEF BackupInv, RestoreInserts
<1>2. UNCHANGED backupVars  BY DEF RestoreInserts
<1> QED  BY <1>1, <1>2 DEF BackupInv, BackupTypeOK, DumpInv, backupVars, diskVars, SizesInv, TypeInv

LEMMA RestoreEntryInv ==
  ASSUME BackupInv, NEW entry \in remaining, RestoreEntry(entry)
  PROVE  BackupInv'
<1> DEFINE i == [token |-> entry[1], doc |-> entry[2], pos |-> entry[3]]
<1>1. entry \in Tokens \X Views \X Positions
  BY DEF BackupInv, BackupTypeOK, Triples
<1>2. /\ i.token \in Tokens /\ i.pos \in Positions /\ i.doc \in Paths
  BY <1>1 DEF RestoreEntry, BackupInv, BackupTypeOK
<1>3. i.pos \in Nat  BY <1>2, InsertsAssumption DEF Positions
<1>4. BeginInsert(Main, i) /\ inserts' = inserts  BY DEF RestoreEntry
<1> HIDE DEF i
<1>5. TypeInv'
  BY <1>2, <1>3, <1>4, MainAssumption, BeginInsertType
     DEF BackupInv, BackupTypeOK, TypeOK, SizesInv
<1>6. UNCHANGED <<mapVars, m_trace, m_record>>  BY <1>4 DEF BeginInsert, CallAdd
<1>7. SizesInv'  BY <1>5, <1>6, SizesUntouched DEF BackupInv, SizesInv
<1>8. BackupTypeOK'
  BY <1>5 DEF BackupInv, BackupTypeOK, RestoreEntry, diskVars, TypeInv
<1>9. DumpInv'  BY DEF BackupInv, DumpInv, RestoreEntry, diskVars
<1> QED  BY <1>7, <1>8, <1>9 DEF BackupInv

\* Files are written and removed while the server does not look.
LEMMA FilesInv ==
  ASSUME BackupInv, NEW d \in Volatile, Touch(d) \/ RemoveFile(d)
  PROVE  BackupInv'
<1>1. UNCHANGED vars  BY DEF Touch, RemoveFile
<1>2. SizesInv'  BY <1>1, SameSizes DEF BackupInv
<1>3. d \in Paths  BY MainAssumption
<1>4. CASE Touch(d)
  <2>1. now' = now + 1 /\ now < MaxTime /\ files' = [files EXCEPT ![d] = now + 1]
    BY <1>4 DEF Touch
  <2>2. \A p \in DOMAIN files' : files'[p] \in 0 .. now'
    BY <2>1 DEF BackupInv, BackupTypeOK
  <2>3. touched' \subseteq Paths /\ late' \subseteq Paths
    BY <1>3, <1>4 DEF Touch, BackupInv, BackupTypeOK
  <2> QED  BY <1>2, <1>4, <2>1, <2>2, <2>3, TimeAssumption
           DEF Touch, BackupInv, BackupTypeOK, DumpInv, SizesInv, TypeInv
<1>5. CASE RemoveFile(d)
  BY <1>2, <1>5 DEF RemoveFile, Erased, Restrict, BackupInv, BackupTypeOK, DumpInv, SizesInv,
                        TypeInv
<1> QED  BY <1>4, <1>5

\* The process goes from one life to the next.
LEMMA LifeInv ==
  ASSUME BackupInv,
         OpenDump \/ WriteDump \/ WriteThrows \/ Kill \/ Start \/ RestoreDone
         \/ \E entry \in remaining : RestoreThrows(entry)
  PROVE  BackupInv'
<1>1. UNCHANGED vars \/ MemoryLost
  BY DEF OpenDump, WriteDump, WriteThrows, Kill, Start, RestoreDone, RestoreThrows, Thrown
<1>2. SizesInv'  BY <1>1, FreshMemory, SameSizes DEF BackupInv
<1>3. TypeOK'  BY <1>2 DEF SizesInv, TypeInv
<1> USE DEF BackupInv, BackupTypeOK, DumpInv
<1>4. 0 \in 0 .. MaxTime /\ now \in 0 .. MaxTime  BY TimeAssumption
<1>5. CASE OpenDump
  <2>1. PICK dump \in Dumps, docTrace \in SerializedTraces :
          dumpFile' = DumpOf("torn", now, dump, docTrace, Origin)
    BY <1>5 DEF OpenDump
  <2>2. dump \subseteq Triples /\ docTrace \subseteq Views /\ Origin \in {"kept", "freed", "astray"}
    BY SerializedType DEF TypeOK, DocTypeOK, Dumps, SerializedTraces, Views, Origin
  <2>3. dumpFile' = [state |-> "torn", ts |-> now, dump |-> dump, docTrace |-> docTrace,
                     origin |-> Origin]
    BY <2>1 DEF DumpOf
  <2>4. remaining' = {}  BY <1>5 DEF OpenDump
  <2> QED  BY <1>2, <1>3, <1>4, <1>5, <2>2, <2>3, <2>4 DEF OpenDump
<1>6. CASE WriteDump
  BY <1>2, <1>3, <1>6 DEF WriteDump
<1>7. CASE WriteThrows \/ Kill
  <2>1. TornDump = [state |-> "torn", ts |-> 0, dump |-> {}, docTrace |-> {}, origin |-> "kept"]
    BY DEF TornDump, DumpOf
  <2>2. dumpFile' \in {TornDump, dumpFile}  BY <1>7 DEF Kill, WriteThrows
  <2>3. remaining' = {} /\ life' = "down" /\ isStale' \in BOOLEAN
    BY <1>7 DEF Kill, WriteThrows
  <2>4. UNCHANGED <<files, now, fileEpoch, touched, late>>  BY <1>7 DEF Kill, WriteThrows
  <2>5. dumpFile' \in [state : {"missing", "torn", "whole"}, ts : 0 .. MaxTime,
                       dump : SUBSET Triples, docTrace : SUBSET Views,
                       origin : {"kept", "freed", "astray"}]
    BY <1>4, <2>1, <2>2
  <2>6. DumpInv'
    <3>1. CASE dumpFile' = TornDump  BY <2>1, <2>3, <3>1
    <3>2. CASE dumpFile' = dumpFile /\ life # "writing"  BY <2>3, <3>2
    <3>3. life = "writing" => dumpFile' = TornDump  BY <1>7 DEF Kill, WriteThrows
    <3> QED  BY <2>2, <2>3, <3>1, <3>2, <3>3
  <2> QED  BY <1>2, <1>3, <2>3, <2>4, <2>5, <2>6
<1>8. CASE Start
  BY <1>2, <1>3, <1>8 DEF Start, diskVars
<1>9. CASE RestoreDone
  BY <1>2, <1>3, <1>9 DEF RestoreDone, diskVars
<1>10. CASE \E entry \in remaining : RestoreThrows(entry)
  BY <1>2, <1>3, <1>10 DEF RestoreThrows, Thrown, diskVars
<1> QED  BY <1>5, <1>6, <1>7, <1>8, <1>9, <1>10

LEMMA BackupNextInv == BackupInv /\ [BackupNext]_allVars => BackupInv'
<1> SUFFICES ASSUME BackupInv, [BackupNext]_allVars PROVE BackupInv'  OBVIOUS
<1>1. CASE \E th \in Threads \ {Main} : Serve(th)  BY <1>1, ServeInv
<1>2. CASE \E d \in Volatile : Touch(d) \/ RemoveFile(d)  BY <1>2, FilesInv
<1>3. CASE \/ OpenDump \/ WriteDump \/ WriteThrows \/ Kill \/ Start \/ RestoreDone
           \/ \E entry \in remaining : RestoreThrows(entry)
  BY <1>3, LifeInv
<1>4. CASE \E entry \in remaining : RestoreEntry(entry)  BY <1>4, RestoreEntryInv
<1>5. CASE RestoreInserts  BY <1>5, RestoreInsertsInv
<1>6. CASE UNCHANGED allVars
  <2>1. UNCHANGED vars /\ UNCHANGED backupVars  BY <1>6 DEF allVars
  <2>2. SizesInv'  BY <2>1, SameSizes DEF BackupInv
  <2> QED  BY <2>1, <2>2
           DEF BackupInv, BackupTypeOK, DumpInv, backupVars, diskVars, SizesInv, TypeInv
<1> QED  BY <1>1, <1>2, <1>3, <1>4, <1>5, <1>6 DEF BackupNext

LEMMA BackupInvariance == BackupSpec => []BackupInv
BY BackupInitInv, BackupNextInv, PTL DEF BackupSpec

\* The variables of Backup keep their types, what is dumped and restored included.
THEOREM BackupTypeCorrect == BackupSpec => []BackupTypeOK
<1>1. BackupInv => BackupTypeOK  BY DEF BackupInv
<1> QED  BY <1>1, BackupInvariance, PTL

\* The counts of the maps are off by what is owed and by nothing else, though processes are
\* killed in the middle of a push and restore inserts what a dump holds.
THEOREM CountsAddUpOverRestarts == BackupSpec => []SizesAddUp
<1>1. BackupInv => SizesAddUp  BY DEF BackupInv, SizesInv
<1> QED  BY <1>1, BackupInvariance, PTL

-----------------------------------------------------------------------------
(* What the index holds                                                     *)

EntriesIn(tokens, records) ==
    {x \in Triples : x[1] \in DOMAIN tokens /\ <<x[2], x[3]>> \in records[tokens[x[1]]]}

LEMMA SerializedIs == TypeOK => Serialized = EntriesIn(m_record, heap)
<1> SUFFICES ASSUME TypeOK PROVE Serialized = EntriesIn(m_record, heap)  OBVIOUS
<1>1. Serialized \subseteq EntriesIn(m_record, heap)
  <2> SUFFICES ASSUME NEW tk \in DOMAIN m_record, NEW e \in heap[m_record[tk]]
               PROVE  <<tk, e[1], e[2]>> \in EntriesIn(m_record, heap)
    BY DEF Serialized, SerializedRecord
  <2>1. tk \in Tokens /\ m_record[tk] \in DOMAIN heap  BY DEF TypeOK
  <2>2. heap[m_record[tk]] \in SUBSET Entries  BY <2>1 DEF TypeOK
  <2>3. e \in Views \X Positions  BY <2>2 DEF Entries
  <2>4. e = <<e[1], e[2]>>  BY <2>3
  <2> QED  BY <2>1, <2>3, <2>4 DEF EntriesIn, Triples
<1>2. EntriesIn(m_record, heap) \subseteq Serialized
  <2> SUFFICES ASSUME NEW x \in EntriesIn(m_record, heap)  PROVE x \in Serialized  OBVIOUS
  <2>1. /\ x \in Tokens \X Views \X Positions /\ x[1] \in DOMAIN m_record
        /\ <<x[2], x[3]>> \in heap[m_record[x[1]]]
    BY DEF EntriesIn, Triples
  <2> DEFINE part(tk) == {<<tk, e[1], e[2]>> : e \in heap[m_record[tk]]}
  <2>2. x = <<x[1], x[2], x[3]>>  BY <2>1
  <2>3. x \in part(x[1])  BY <2>1, <2>2
  <2>4. Serialized = UNION {part(tk) : tk \in DOMAIN m_record}
    BY DEF Serialized, SerializedRecord
  <2> HIDE DEF part
  <2> QED  BY <2>1, <2>3, <2>4
<1> QED  BY <1>1, <1>2

LEMMA SerializedBefore ==
  ASSUME TypeInv
  PROVE  Serialized = EntriesIn(m_record, heap)
BY SerializedIs DEF TypeInv

LEMMA SerializedAfter ==
  ASSUME TypeInv'
  PROVE  Serialized' = EntriesIn(m_record', heap')
<1>1. (TypeOK => Serialized = EntriesIn(m_record, heap))'  BY SerializedIs, PTL
<1>2. TypeOK'  BY DEF TypeInv
<1> QED  BY <1>1, <1>2 DEF EntriesIn

\* An insert adds its entry ...
LEMMA InsertAdds ==
  ASSUME TypeInv, TypeInv', RecordsApart, NEW th \in Threads, InsertRecord(th)
  PROVE  /\ Serialized' = Serialized \union {<<call[th].token, hook[th], call[th].pos>>}
         /\ RecordsApart'
<1> USE DEF TypeInv
<1> DEFINE tk == call[th].token
           entry == <<hook[th], call[th].pos>>
           new == <<tk, hook[th], call[th].pos>>
<1>1. tk \in Tokens /\ hook[th] \in Views /\ call[th].pos \in Positions
  BY DEF TypeOK, DocTypeOK, CallsTyped, InsertRecord
<1>2. new \in Triples /\ new[1] = tk /\ <<new[2], new[3]>> = entry  BY <1>1 DEF Triples
<1>3. /\ Serialized = EntriesIn(m_record, heap)
      /\ Serialized' = EntriesIn(m_record', heap')
  BY SerializedBefore, SerializedAfter
<1>4. \A k \in DOMAIN m_record : m_record[k] \in DOMAIN heap  BY DEF TypeOK
<1>5. CASE Contains(m_record, tk)
  <2>1. /\ m_record' = m_record /\ tk \in DOMAIN m_record
        /\ heap' = [heap EXCEPT ![m_record[tk]] = @ \union {entry}]
    BY <1>5 DEF InsertRecord, Contains
  <2>2. \A k \in DOMAIN m_record :
          heap'[m_record[k]] = IF k = tk THEN heap[m_record[k]] \union {entry}
                               ELSE heap[m_record[k]]
    BY <2>1, <1>4 DEF RecordsApart
  <2>3. \A x \in Triples : x \in EntriesIn(m_record', heap')
                             <=> x \in EntriesIn(m_record, heap) \/ x = new
    <3> SUFFICES ASSUME NEW x \in Triples
                 PROVE  x \in EntriesIn(m_record', heap')
                          <=> x \in EntriesIn(m_record, heap) \/ x = new
      OBVIOUS
    <3>1. x = <<x[1], x[2], x[3]>>  BY DEF Triples
    <3>2. x = new <=> x[1] = tk /\ <<x[2], x[3]>> = entry  BY <3>1
    <3> HIDE DEF new, entry, tk
    <3> QED  BY <2>1, <2>2, <3>2 DEF EntriesIn
  <2>4. RecordsApart'  BY <2>1 DEF RecordsApart
  <2> QED  BY <1>2, <1>3, <2>3, <2>4 DEF EntriesIn
<1>6. CASE ~Contains(m_record, tk)
  <2>1. /\ m_record' = Inserted(m_record, tk, Len(heap) + 1) /\ tk \notin DOMAIN m_record
        /\ heap' = Append(heap, {entry}) /\ heap \in Seq(SUBSET Entries)
    BY <1>6 DEF InsertRecord, NextRecord, Contains, TypeOK
  <2>2. DOMAIN m_record' = DOMAIN m_record \union {tk}  BY <2>1 DEF Inserted
  <2>3. /\ m_record'[tk] = Len(heap) + 1
        /\ \A k \in DOMAIN m_record : k # tk /\ m_record'[k] = m_record[k]
    BY <2>1 DEF Inserted
  <2>4. /\ heap'[Len(heap) + 1] = {entry}
        /\ \A n \in DOMAIN heap : n # Len(heap) + 1 /\ heap'[n] = heap[n]
    BY <2>1
  <2>5. \A x \in Triples : x \in EntriesIn(m_record', heap')
                             <=> x \in EntriesIn(m_record, heap) \/ x = new
    <3> SUFFICES ASSUME NEW x \in Triples
                 PROVE  x \in EntriesIn(m_record', heap')
                          <=> x \in EntriesIn(m_record, heap) \/ x = new
      OBVIOUS
    <3>1. x = <<x[1], x[2], x[3]>>  BY DEF Triples
    <3>2. x = new <=> x[1] = tk /\ <<x[2], x[3]>> = entry  BY <3>1
    <3> HIDE DEF new, entry, tk
    <3> QED  BY <1>4, <2>2, <2>3, <2>4, <3>2 DEF EntriesIn
  <2>6. RecordsApart'  BY <1>4, <2>2, <2>3, <2>4 DEF RecordsApart
  <2> QED  BY <1>2, <1>3, <2>5, <2>6 DEF EntriesIn
<1> QED  BY <1>5, <1>6

\* ... and an erase takes all of its token's away at once.
LEMMA EraseTakes ==
  ASSUME TypeInv, TypeInv', RecordsApart, NEW th \in Threads, EraseRecord(th)
  PROVE  /\ Serialized' = {x \in Serialized : x[1] # call[th].token}
         /\ RecordsApart'
<1> USE DEF TypeInv
<1>1. /\ Serialized = EntriesIn(m_record, heap)
      /\ Serialized' = EntriesIn(m_record', heap')
  BY SerializedBefore, SerializedAfter
<1>2. DOMAIN m_record' = DOMAIN m_record \ {call[th].token} /\ heap' = heap
  BY DEF EraseRecord, Erased, Restrict, Contains
<1>3. \A k \in DOMAIN m_record' : m_record'[k] = m_record[k]
  BY DEF EraseRecord, Erased, Restrict, Contains
<1>4. RecordsApart'  BY <1>2, <1>3 DEF RecordsApart
<1>5. Serialized' = {x \in Serialized : x[1] # call[th].token}
  BY <1>1, <1>2, <1>3 DEF EntriesIn
<1> QED  BY <1>4, <1>5

\* Everything else leaves the index as it is.
LEMMA IndexUntouched ==
  ASSUME UNCHANGED <<m_record, heap>>
  PROVE  Serialized' = Serialized /\ (RecordsApart => RecordsApart')
BY DEF Serialized, SerializedRecord, RecordsApart

-----------------------------------------------------------------------------
(* Refinement                                                               *)

\* The entry restore has taken and not inserted yet.
Pending ==
    IF shpc[Main] = "trace" THEN {<<call[Main].token, dpath[Main], call[Main].pos>>} ELSE {}

\* Where restore is in addOrIncrement.  The first mutate makes the document if it was not
\* there, so one of the two yields a view of it, and the insert goes to its document.
RestoreOnItsWay ==
    /\ shpc[Main] \in {"idle", "trace"}
    /\ shpc[Main] = "trace" =>
         /\ dpath[Main] \in Paths
         /\ dpc[Main] \in {"add1", "add2", "stat", "idle"}
         /\ dpc[Main] = "add2" => dpath[Main] \in DOMAIN m_trace
         /\ dpc[Main] \in {"stat", "idle"} => hook[Main] = dpath[Main]

\* While a dump is written the index is what it was; while one is restored the entries that
\* are in the index, on their way and left over make up the dump; between two lives there
\* is no index.  Erases go astray only while the server answers.
IndexInv ==
    /\ RecordsApart
    /\ ~Answers => ~crossed /\ ~freed
    /\ life = "writing" =>
         /\ dumpFile.state = "torn" /\ dumpFile.origin = Origin
         /\ ~Astray => dumpFile.dump = Serialized
    /\ life = "restoring" =>
         /\ dumpFile.state = "whole"
         /\ RestoreOnItsWay
         /\ dumpFile.dump = Serialized \union Pending \union remaining
    /\ life \in {"down", "failed"} => DOMAIN m_record = {} /\ shpc[Main] = "idle"

RestoreInv == BackupInv /\ IndexInv

LEMMA NothingLeft ==
  ASSUME MemoryLost
  PROVE  /\ DOMAIN m_record' = {} /\ Serialized' = {} /\ shpc'[Main] = "idle"
         /\ RecordsApart' /\ ~crossed' /\ ~freed'
<1>1. DOMAIN m_record' = {}  BY DEF MemoryLost
<1> QED  BY <1>1, MainAssumption DEF MemoryLost, Serialized, RecordsApart

\* What a step of a thread does to the index.
LEMMA ThreadStepIndex ==
  ASSUME BackupInv, BackupInv', RecordsApart, NEW th \in Threads, ThreadStep(th)
  PROVE  /\ RecordsApart'
         /\ \/ InsertRecord(th)
               /\ Serialized' = Serialized \union {<<call[th].token, hook[th], call[th].pos>>}
            \/ EraseRecord(th) /\ Serialized' = {x \in Serialized : x[1] # call[th].token}
            \/ UNCHANGED <<m_record, heap>> /\ Serialized' = Serialized
<1>1. TypeInv /\ TypeInv'  BY DEF BackupInv, SizesInv
<1>2. CASE InsertRecord(th)  BY <1>1, <1>2, InsertAdds
<1>3. CASE EraseRecord(th)  BY <1>1, <1>3, EraseTakes
<1>4. CASE TraceStep(th) \/ SizeStep(th) \/ EraseEnd(th) \/ \E entry \in todo[th] : EraseEntry(th, entry)
  <2>1. UNCHANGED <<m_record, heap>>
    BY <1>4 DEF TraceStep, SizeStep, EraseEnd, EraseEntry, shardVars
  <2> QED  BY <2>1, IndexUntouched
<1> QED  BY <1>2, <1>3, <1>4 DEF ThreadStep

LEMMA InitIndex == BackupInit => RestoreInv
<1> SUFFICES ASSUME BackupInit PROVE RestoreInv  OBVIOUS
<1>1. DOMAIN m_record = {}  BY DEF BackupInit, Init
<1> QED  BY <1>1, BackupInitInv DEF BackupInit, RestoreInv, IndexInv, RecordsApart, Answers

LEMMA ServeIndex ==
  ASSUME RestoreInv, BackupInv', NEW th \in Threads, Serve(th)
  PROVE  IndexInv'
<1>1. life = "up" /\ life' = "up"  BY DEF Serve, backupVars
<1>2. RecordsApart'
  <2>1. CASE ThreadStep(th)  BY <2>1, ThreadStepIndex DEF RestoreInv, IndexInv
  <2>2. CASE ~ThreadStep(th)
    <3>1. UNCHANGED <<m_record, heap>>
      BY <2>2 DEF Serve, CallInsert, BeginInsert, CallEraseToken
    <3> QED  BY <3>1, IndexUntouched DEF RestoreInv, IndexInv
  <2> QED  BY <2>1, <2>2
<1> QED  BY <1>1, <1>2 DEF IndexInv, Answers

LEMMA RestoreEntryIndex ==
  ASSUME RestoreInv, BackupInv', NEW entry \in remaining, RestoreEntry(entry)
  PROVE  IndexInv'
<1> DEFINE i == [token |-> entry[1], doc |-> entry[2], pos |-> entry[3]]
<1>1. entry \in Tokens \X Views \X Positions
  BY DEF RestoreInv, BackupInv, BackupTypeOK, Triples
<1>2. entry = <<i.token, i.doc, i.pos>> /\ i.doc \in Paths
  BY <1>1 DEF RestoreEntry, RestoreInv, BackupInv, BackupTypeOK
<1>3. BeginInsert(Main, i) /\ UNCHANGED <<life, dumpFile>> /\ life = "restoring"
  BY DEF RestoreEntry, diskVars
<1>4. remaining' = remaining \ {entry}  BY DEF RestoreEntry
<1> HIDE DEF i
<1>5. /\ shpc'[Main] = "trace" /\ dpc'[Main] = "add1" /\ dpath'[Main] = i.doc
      /\ call'[Main] = [token |-> i.token, pos |-> i.pos] /\ shpc[Main] = "idle"
  BY <1>3, MainAssumption
     DEF BeginInsert, CallAdd, AtRest, RestoreInv, BackupInv, BackupTypeOK, TypeOK, DocTypeOK
<1>6. UNCHANGED <<m_record, heap, freed, crossed>>  BY <1>3 DEF BeginInsert, CallAdd
<1>7. Serialized' = Serialized /\ RecordsApart'
  BY <1>6, IndexUntouched DEF RestoreInv, IndexInv
<1>8. Pending' = {entry} /\ Pending = {}  BY <1>2, <1>5 DEF Pending
<1>9. dumpFile'.dump = Serialized' \union Pending' \union remaining'
  BY <1>3, <1>4, <1>7, <1>8 DEF RestoreInv, IndexInv
<1> QED
  BY <1>2, <1>3, <1>5, <1>6, <1>7, <1>9 DEF RestoreInv, IndexInv, RestoreOnItsWay, Answers

\* The two mutates of addOrIncrement, and the statistics.
LEMMA RestoreTraceIndex ==
  ASSUME RestoreInv, BackupInv', RestoreInserts, TraceStep(Main)
  PROVE  IndexInv'
<1> USE DEF RestoreInv
<1>1. /\ life = "restoring" /\ UNCHANGED <<life, dumpFile, remaining>> /\ UNCHANGED shardVars
      /\ dpc[Main] # "idle"
  BY DEF RestoreInserts, backupVars, diskVars, TraceStep, DocStep, AddFirst, AddSecond, AddStat,
         EraseDecrement, EraseCheck, EraseStat
<1>2. shpc[Main] = "trace" /\ RestoreOnItsWay
  BY <1>1, MainAssumption
     DEF IndexInv, RestoreOnItsWay, BackupInv, SizesInv, TypeInv, CallsTyped
<1>3. /\ dpath' = dpath /\ dpath[Main] \in Paths /\ dpath[Main] # NoView
      /\ Main \in DOMAIN dpc /\ Main \in DOMAIN hook
  BY <1>2, MainAssumption, PathsAssumption
     DEF RestoreOnItsWay, BackupInv, BackupTypeOK, TypeOK, DocTypeOK, TraceStep, DocStep, AddFirst,
         AddSecond, AddStat, EraseDecrement, EraseCheck, EraseStat
<1>4. Serialized' = Serialized /\ RecordsApart' /\ Pending' = Pending
  BY <1>1, <1>3, IndexUntouched DEF shardVars, IndexInv, Pending
<1>6. UNCHANGED <<freed, crossed>>
  BY <1>1, <1>2 DEF RestoreOnItsWay, TraceStep, DocStep, AddFirst, AddSecond, AddStat, EraseDecrement,
                    EraseCheck, EraseStat, shardVars
<1>5. RestoreOnItsWay'
  <2>1. CASE AddFirst(Main)
    <3>1. dpath[Main] \in DOMAIN m_trace'
      BY <2>1 DEF AddFirst, Incremented, Inserted, Contains
    <3> QED  BY <1>1, <1>2, <1>3, <2>1, <3>1 DEF AddFirst, HookFor, RestoreOnItsWay, shardVars
  <2>2. CASE AddSecond(Main)
    BY <1>1, <1>2, <1>3, <2>2 DEF AddSecond, HookFor, Contains, RestoreOnItsWay, shardVars
  <2>3. CASE AddStat(Main)
    BY <1>1, <1>2, <1>3, <2>3 DEF AddStat, RestoreOnItsWay, shardVars
  <2> QED
    BY <1>2, <2>1, <2>2, <2>3
       DEF RestoreOnItsWay, TraceStep, DocStep, EraseDecrement, EraseCheck, EraseStat
<1> QED  BY <1>1, <1>4, <1>5, <1>6 DEF IndexInv, Answers

LEMMA RestoreInsertsIndex ==
  ASSUME RestoreInv, BackupInv', RestoreInserts
  PROVE  IndexInv'
<1> USE DEF RestoreInv
<1>1. life = "restoring" /\ UNCHANGED <<life, dumpFile, remaining>> /\ ThreadStep(Main)
  BY DEF RestoreInserts, backupVars, diskVars
<1>2. RestoreOnItsWay /\ dumpFile.dump = Serialized \union Pending \union remaining
      /\ dumpFile.state = "whole" /\ RecordsApart /\ Main \in DOMAIN shpc
  BY <1>1, MainAssumption DEF IndexInv, BackupInv, BackupTypeOK, TypeOK
<1>3. CASE TraceStep(Main)  BY <1>3, RestoreTraceIndex
<1>4. CASE InsertRecord(Main)
  <2>1. /\ shpc[Main] = "trace" /\ hook[Main] = dpath[Main]
        /\ shpc' = [shpc EXCEPT ![Main] = "idle"]
    BY <1>2, <1>4 DEF InsertRecord, RestoreOnItsWay
  <2>2. /\ Serialized' = Serialized \union {<<call[Main].token, hook[Main], call[Main].pos>>}
        /\ RecordsApart'
    BY <1>2, <1>4, InsertAdds, MainAssumption DEF BackupInv, SizesInv
  <2>3. Pending' = {} /\ Serialized' = Serialized \union Pending
    BY <1>2, <2>1, <2>2 DEF Pending
  <2>4. RestoreOnItsWay'  BY <1>2, <2>1 DEF RestoreOnItsWay
  <2>5. UNCHANGED <<freed, crossed>>  BY <1>4 DEF InsertRecord, traceVars
  <2> QED  BY <1>1, <1>2, <2>2, <2>3, <2>4, <2>5 DEF IndexInv, Answers
<1>5. CASE SizeStep(Main)
  <2>1. UNCHANGED <<traceVars, shardVars>>  BY <1>5 DEF SizeStep
  <2>2. Serialized' = Serialized /\ RecordsApart'
    BY <1>2, <2>1, IndexUntouched DEF shardVars
  <2>3. Pending' = Pending /\ RestoreOnItsWay'
    BY <1>2, <2>1 DEF shardVars, traceVars, Pending, RestoreOnItsWay
  <2> QED  BY <1>1, <1>2, <2>1, <2>2, <2>3 DEF IndexInv, Answers, traceVars, shardVars
<1> QED
  BY <1>1, <1>2, <1>3, <1>4, <1>5
     DEF ThreadStep, EraseRecord, EraseEnd, EraseEntry, RestoreOnItsWay

LEMMA LifeIndex ==
  ASSUME RestoreInv, BackupInv',
         OpenDump \/ WriteDump \/ WriteThrows \/ Kill \/ Start \/ RestoreDone
         \/ \E entry \in remaining : RestoreThrows(entry)
  PROVE  IndexInv'
<1> USE DEF RestoreInv, IndexInv, Answers
<1>1. CASE OpenDump
  <2>1. PICK dump \in Dumps, docTrace \in SerializedTraces :
          dumpFile' = DumpOf("torn", now, dump, docTrace, Origin)
    BY <1>1 DEF OpenDump
  <2>2. /\ life' = "writing" /\ dumpFile'.state = "torn" /\ dumpFile'.dump = dump
        /\ dumpFile'.origin = Origin
    BY <1>1, <2>1 DEF OpenDump, DumpOf
  <2>3. UNCHANGED <<m_record, heap, freed, crossed>>
    BY <1>1 DEF OpenDump, vars, traceVars, shardVars
  <2>4. Serialized' = Serialized /\ RecordsApart'  BY <2>3, IndexUntouched
  <2>5. Astray' = Astray /\ Origin' = Origin  BY <2>3 DEF Astray, Origin
  <2>6. ~Astray => dump = Serialized  BY DEF Dumps
  <2> QED  BY <2>2, <2>4, <2>5, <2>6
<1>2. CASE WriteDump \/ WriteThrows \/ Kill \/ \E entry \in remaining : RestoreThrows(entry)
  <2>1. life' \in {"down", "failed"} /\ MemoryLost
    BY <1>2 DEF WriteDump, WriteThrows, Kill, RestoreThrows, Thrown
  <2> QED  BY <2>1, NothingLeft
<1>3. CASE Start
  <2>1. /\ UNCHANGED <<m_record, heap, shpc, dumpFile, freed, crossed>> /\ DOMAIN m_record = {}
        /\ shpc[Main] = "idle" /\ ~crossed /\ ~freed
    BY <1>3 DEF Start, vars, traceVars, shardVars, diskVars
  <2>2. Serialized' = {} /\ RecordsApart'  BY <2>1 DEF Serialized, RecordsApart
  <2>3. Pending' = {} /\ RestoreOnItsWay'  BY <2>1 DEF Pending, RestoreOnItsWay
  <2>4. /\ remaining' = dumpFile'.dump
        /\ life' = IF dumpFile'.state = "missing" THEN "up"
                   ELSE IF dumpFile'.state = "torn" THEN "failed" ELSE "restoring"
        /\ dumpFile'.state \in {"missing", "torn", "whole"}
    BY <1>3, <2>1 DEF Start, BackupInv, BackupTypeOK
  <2> QED  BY <2>1, <2>2, <2>3, <2>4
<1>4. CASE RestoreDone
  <2>1. life' = "up" /\ UNCHANGED <<m_record, heap>>
    BY <1>4 DEF RestoreDone, vars, shardVars
  <2> QED  BY <2>1, IndexUntouched
<1> QED  BY <1>1, <1>2, <1>3, <1>4

\* Nothing that the index, restore or the dump is made of.
LEMMA IndexKept ==
  ASSUME RestoreInv, UNCHANGED vars, UNCHANGED <<life, dumpFile, remaining>>
  PROVE  IndexInv'
<1>1. Serialized' = Serialized /\ (RecordsApart => RecordsApart')
  BY IndexUntouched DEF vars, shardVars
<1> QED
  BY <1>1 DEF vars, traceVars, shardVars, RestoreInv, IndexInv, RestoreOnItsWay, Pending, Answers,
              Astray, Origin

LEMMA RestoreInvNext == RestoreInv /\ [BackupNext]_allVars => RestoreInv'
<1> SUFFICES ASSUME RestoreInv, [BackupNext]_allVars PROVE RestoreInv'  OBVIOUS
<1>1. BackupInv'  BY BackupNextInv DEF RestoreInv
<1>2. CASE \E th \in Threads \ {Main} : Serve(th)  BY <1>1, <1>2, ServeIndex DEF RestoreInv
<1>3. CASE \E d \in Volatile : Touch(d) \/ RemoveFile(d)
  BY <1>1, <1>3, IndexKept DEF Touch, RemoveFile, RestoreInv
<1>4. CASE \/ OpenDump \/ WriteDump \/ WriteThrows \/ Kill \/ Start \/ RestoreDone
           \/ \E entry \in remaining : RestoreThrows(entry)
  BY <1>1, <1>4, LifeIndex DEF RestoreInv
<1>5. CASE \E entry \in remaining : RestoreEntry(entry)
  BY <1>1, <1>5, RestoreEntryIndex DEF RestoreInv
<1>6. CASE RestoreInserts  BY <1>1, <1>6, RestoreInsertsIndex DEF RestoreInv
<1>7. CASE UNCHANGED allVars
  BY <1>1, <1>7, IndexKept DEF allVars, backupVars, diskVars, RestoreInv
<1> QED  BY <1>2, <1>3, <1>4, <1>5, <1>6, <1>7 DEF BackupNext

\* What has gone astray stays so while the process lives.
LEMMA StaysAstray ==
  ASSUME NEW th \in Threads, Serve(th), Astray
  PROVE  Astray'
BY DEF Serve, ThreadStep, TraceStep, SizeStep, InsertRecord, EraseRecord, EraseEntry, EraseEnd,
       CallInsert, BeginInsert, CallAdd, CallEraseToken, CallErase, DocStep, AddFirst, AddSecond,
       AddStat, EraseDecrement, EraseCheck, EraseStat, Astray, traceVars, shardVars

\* A server that answers: what its threads do to the index, DurableIndex does in one step.
LEMMA DurableStutters ==
  ASSUME Answers' <=> Answers, Known' <=> Known, Shown' = Shown, Saved' = Saved
  PROVE  UNCHANGED Durable!vars
BY DEF Durable!vars

LEMMA ServeRefines ==
  ASSUME RestoreInv, RestoreInv', NEW th \in Threads, Serve(th)
  PROVE  [Durable!Next]_Durable!vars
<1>1. Answers /\ Answers' /\ UNCHANGED dumpFile
  BY DEF Serve, backupVars, diskVars, Answers
<1>2. Saved' = Saved  BY <1>1 DEF Saved
<1>3. TypeInv  BY DEF RestoreInv, BackupInv, SizesInv
<1>4. CASE Astray
  <2>1. ~Known /\ ~Known' /\ Shown' = Shown  BY <1>4, StaysAstray DEF Known, Shown
  <2> QED  BY <1>1, <1>2, <2>1, DurableStutters
<1>5. CASE ~Astray /\ Astray'
  <2>1. Known /\ ~Known' /\ Shown' = {}  BY <1>5 DEF Known, Shown
  <2>2. Durable!GoAstray  BY <1>1, <1>2, <2>1 DEF Durable!GoAstray
  <2> QED  BY <2>2 DEF Durable!Next
<1>6. CASE ~Astray /\ ~Astray'
  <2>1. Known /\ Known' /\ Shown = Serialized /\ Shown' = Serialized'
    BY <1>1, <1>6 DEF Known, Shown
  <2>2. CASE InsertRecord(th)
    <3> DEFINE new == <<call[th].token, hook[th], call[th].pos>>
    <3>1. new \in Triples
      BY <1>3, <2>2 DEF TypeInv, TypeOK, DocTypeOK, CallsTyped, InsertRecord, Triples
    <3>2. Serialized' = Serialized \union {new}
      BY <2>2, InsertAdds DEF RestoreInv, BackupInv, SizesInv, IndexInv
    <3>3. Durable!Insert(new)  BY <1>1, <1>2, <2>1, <3>2 DEF Durable!Insert
    <3> QED  BY <3>1, <3>3 DEF Durable!Next
  <2>3. CASE EraseRecord(th)
    <3>1. Serialized' = {x \in Serialized : x[1] # call[th].token}
      BY <2>3, EraseTakes DEF RestoreInv, BackupInv, SizesInv, IndexInv
    <3>2. CASE \E x \in Serialized : x[1] = call[th].token
      <4>1. PICK x \in Triples : x[1] = call[th].token
        BY <1>3, <3>2, SerializedType DEF TypeInv
      <4>2. Durable!Erase(x[1])  BY <1>1, <1>2, <2>1, <3>1, <4>1 DEF Durable!Erase
      <4> QED  BY <4>2 DEF Durable!Next
    <3>3. CASE \A x \in Serialized : x[1] # call[th].token
      <4>1. Serialized' = Serialized  BY <3>1, <3>3
      <4> QED  BY <1>1, <1>2, <2>1, <4>1, DurableStutters
    <3> QED  BY <3>2, <3>3
  <2>4. CASE ~InsertRecord(th) /\ ~EraseRecord(th)
    <3>1. UNCHANGED <<m_record, heap>>
      BY <2>4 DEF Serve, ThreadStep, TraceStep, SizeStep, EraseEnd, EraseEntry, shardVars,
                  CallInsert, BeginInsert, CallEraseToken
    <3>2. Serialized' = Serialized  BY <3>1, IndexUntouched
    <3> QED  BY <1>1, <1>2, <2>1, <3>2, DurableStutters
  <2> QED  BY <2>2, <2>3, <2>4
<1> QED  BY <1>4, <1>5, <1>6

\* From one life to the next.
LEMMA LifeRefines ==
  ASSUME RestoreInv, RestoreInv',
         OpenDump \/ WriteDump \/ WriteThrows \/ Kill \/ Start \/ RestoreDone
         \/ \E entry \in remaining : RestoreThrows(entry)
  PROVE  [Durable!Next]_Durable!vars
<1>1. dumpFile \in [state : {"missing", "torn", "whole"}, ts : 0 .. MaxTime,
                    dump : SUBSET Triples, docTrace : SUBSET Views,
                    origin : {"kept", "freed", "astray"}]
  BY DEF RestoreInv, BackupInv, BackupTypeOK
\* The lives in which a server answers; in the others nothing is astray.
<1>2. /\ Answers <=> life \in {"up", "writing"}
      /\ Answers' <=> life' \in {"up", "writing"}
  BY DEF Answers
<1>3. /\ ~Answers => Known /\ Shown = {}
      /\ ~Answers' => Known' /\ Shown' = {}
  BY DEF RestoreInv, IndexInv, Astray, Known, Shown
<1>4. dumpFile' = dumpFile => Saved' = Saved  BY DEF Saved
<1>5. CASE OpenDump
  <2>1. /\ life = "up" /\ life' = "writing" /\ dumpFile'.state = "torn"
        /\ UNCHANGED <<m_record, heap, freed, crossed>>
    BY <1>5 DEF OpenDump, DumpOf, vars, traceVars, shardVars
  <2>2. Answers /\ Answers' /\ (Known' <=> Known)  BY <1>2, <2>1 DEF Astray, Known
  <2>3. Shown' = Shown  BY <2>1, <2>2, IndexUntouched DEF Shown
  <2>4. Saved' = <<"torn", TRUE, {}>>  BY <2>1 DEF Saved
  <2>5. UNCHANGED <<Answers, Known, Shown>>
    <3>1. Answers' <=> Answers  BY <2>2
    <3>2. Answers' = Answers  BY <3>1
    <3>3. Known' <=> Known  BY <2>2
    <3>4. Known' = Known  BY <3>3
    <3> QED  BY <2>3, <3>2, <3>4, Zenon
  <2>6. Durable!BeginSave  BY <2>2, <2>4, <2>5 DEF Durable!BeginSave
  <2> QED  BY <2>6 DEF Durable!Next
<1>6. CASE WriteDump
  <2>1. /\ life = "writing" /\ life' = "down" /\ dumpFile'.state = "whole"
        /\ dumpFile'.dump = dumpFile.dump /\ dumpFile'.origin = dumpFile.origin
        /\ dumpFile.origin = Origin /\ (~Astray => dumpFile.dump = Serialized)
    BY <1>1, <1>6 DEF WriteDump, RestoreInv, IndexInv
  <2>2. Answers /\ ~Answers'  BY <1>2, <2>1
  <2>3. CASE Astray
    <3>1. Saved' = <<"whole", FALSE, {}>>  BY <2>1, <2>3 DEF Saved, Origin
    <3>2. ~Known /\ Shown = {}  BY <2>3 DEF Known, Shown
    <3>3. <<"whole", FALSE, {}>> = <<"whole", Known, Shown>>
      <4>1. FALSE = Known  BY <3>2
      <4> QED  BY <3>2, <4>1, Zenon
    <3>4. Saved' = <<"whole", Known, Shown>>  BY <3>1, <3>3
    <3>5. Durable!EndSave  BY <1>3, <2>2, <3>4 DEF Durable!EndSave
    <3> QED  BY <3>5 DEF Durable!Next
  <2>4. CASE ~Astray
    <3>1. Known /\ Shown = Serialized  BY <2>2, <2>4 DEF Known, Shown
    <3>2. Saved' = <<"whole", TRUE, Shown>>  BY <2>1, <2>4, <3>1 DEF Saved, Origin
    <3>3. <<"whole", TRUE, Shown>> = <<"whole", Known, Shown>>
      <4>1. TRUE = Known  BY <3>1
      <4> QED  BY <4>1, Zenon
    <3>4. Saved' = <<"whole", Known, Shown>>  BY <3>2, <3>3
    <3>5. Durable!EndSave  BY <1>3, <2>2, <3>4 DEF Durable!EndSave
    <3> QED  BY <3>5 DEF Durable!Next
  <2> QED  BY <2>3, <2>4
<1>7. CASE WriteThrows \/ Kill
  <2>1. life \in {"up", "writing", "restoring"} /\ life' = "down"
    BY <1>7 DEF WriteThrows, Kill
  <2>2. ~Answers'  BY <1>2, <2>1
  <2>3. Saved' = Saved
    <3>1. CASE life = "writing"
      <4>1. dumpFile.state = "torn" /\ dumpFile'.state = "torn"
        BY <1>7, <3>1 DEF WriteThrows, Kill, TornDump, DumpOf, RestoreInv, IndexInv
      <4> QED  BY <4>1 DEF Saved
    <3>2. CASE life # "writing"
      BY <1>4, <1>7, <3>2 DEF WriteThrows, Kill
    <3> QED  BY <3>1, <3>2
  <2>4. CASE Answers
    <3>1. Durable!Crash  BY <1>3, <2>2, <2>3, <2>4 DEF Durable!Crash
    <3> QED  BY <3>1 DEF Durable!Next
  <2>5. CASE ~Answers  BY <1>3, <2>2, <2>3, <2>5, DurableStutters
  <2> QED  BY <2>4, <2>5
<1>8. CASE Start
  <2>1. /\ life \in {"down", "failed"} /\ dumpFile' = dumpFile /\ DOMAIN m_record' = {}
        /\ life' = "up" => dumpFile.state = "missing"
        /\ life' \in {"up", "failed", "restoring"} /\ UNCHANGED <<freed, crossed>>
    BY <1>1, <1>8 DEF Start, RestoreInv, IndexInv, vars, traceVars, shardVars, diskVars
  <2>2. ~Answers /\ Known' /\ Saved' = Saved
    BY <1>2, <1>3, <1>4, <2>1 DEF Known, Astray
  <2>3. CASE life' = "up"
    <3>1. Shown' = {}  BY <2>1 DEF Shown, Serialized
    <3>2. Saved[1] = "missing" /\ Saved[2] = TRUE /\ Saved[3] = {}  BY <2>1, <2>3 DEF Saved
    <3>3. Answers'  BY <1>2, <2>3
    <3>4. Durable!Restart  BY <1>3, <2>2, <3>1, <3>2, <3>3 DEF Durable!Restart
    <3> QED  BY <3>4 DEF Durable!Next
  <2>4. CASE life' # "up"
    <3>1. ~Answers'  BY <1>2, <2>1, <2>4
    <3> QED  BY <1>3, <2>2, <3>1, DurableStutters
  <2> QED  BY <2>3, <2>4
<1>9. CASE RestoreDone
  <2>1. /\ life = "restoring" /\ life' = "up" /\ dumpFile' = dumpFile
        /\ UNCHANGED <<m_record, heap, freed, crossed>> /\ remaining = {} /\ shpc[Main] = "idle"
    BY <1>9 DEF RestoreDone, AtRest, vars, traceVars, shardVars, diskVars
  <2>2. dumpFile.state = "whole" /\ dumpFile.dump = Serialized
    BY <2>1 DEF RestoreInv, IndexInv, Pending
  <2>3. ~Answers /\ Answers' /\ Known /\ Known' /\ Saved' = Saved
    BY <1>2, <1>3, <1>4, <2>1 DEF Known, Astray
  <2>4. Shown' = dumpFile.dump  BY <2>1, <2>2, <2>3, IndexUntouched DEF Shown
  <2>5. dumpFile.dump \subseteq Triples  BY <1>1
  <2>6. Saved \in {<<"whole", FALSE, {}>>, <<"whole", TRUE, dumpFile.dump>>}
    BY <2>2 DEF Saved
  <2>7. Saved[1] = "whole" /\ (Saved[2] => Saved[3] = dumpFile.dump)
    <3>1. CASE Saved = <<"whole", FALSE, {}>>
      <4>1. Saved[1] = "whole" /\ Saved[2] = FALSE  BY <3>1
      <4> QED  BY <4>1, Zenon
    <3>2. CASE Saved = <<"whole", TRUE, dumpFile.dump>>  BY <3>2
    <3> QED  BY <2>6, <3>1, <3>2
  <2>8. Durable!Restart  BY <2>3, <2>4, <2>5, <2>7 DEF Durable!Restart
  <2> QED  BY <2>8 DEF Durable!Next
<1>10. CASE \E entry \in remaining : RestoreThrows(entry)
  <2>1. life = "restoring" /\ life' = "failed" /\ dumpFile' = dumpFile
    BY <1>10 DEF RestoreThrows, Thrown, diskVars
  <2>2. ~Answers /\ ~Answers'  BY <1>2, <2>1
  <2> QED  BY <1>3, <1>4, <2>1, <2>2, DurableStutters
<1> QED  BY <1>5, <1>6, <1>7, <1>8, <1>9, <1>10

LEMMA NextRefines ==
  RestoreInv /\ RestoreInv' /\ [BackupNext]_allVars => [Durable!Next]_Durable!vars
<1> SUFFICES ASSUME RestoreInv, RestoreInv', [BackupNext]_allVars
             PROVE  [Durable!Next]_Durable!vars
  OBVIOUS
<1>1. CASE \E th \in Threads \ {Main} : Serve(th)  BY <1>1, ServeRefines
<1>2. CASE \/ OpenDump \/ WriteDump \/ WriteThrows \/ Kill \/ Start \/ RestoreDone
           \/ \E entry \in remaining : RestoreThrows(entry)
  BY <1>2, LifeRefines
<1>3. CASE \/ \E d \in Volatile : Touch(d) \/ RemoveFile(d)
           \/ UNCHANGED allVars
  <2>1. UNCHANGED <<m_record, heap, life, dumpFile, freed, crossed>>
    BY <1>3 DEF Touch, RemoveFile, allVars, vars, traceVars, shardVars, backupVars, diskVars
  <2>2. (Answers' <=> Answers) /\ (Known' <=> Known) /\ Saved' = Saved
    BY <2>1 DEF Answers, Known, Astray, Saved
  <2>3. Shown' = Shown  BY <2>1, <2>2, IndexUntouched DEF Shown
  <2> QED  BY <2>2, <2>3, DurableStutters
<1>4. CASE RestoreInserts \/ \E entry \in remaining : RestoreEntry(entry)
  <2>1. life = "restoring" /\ UNCHANGED <<life, dumpFile>>
    BY <1>4 DEF RestoreInserts, RestoreEntry, backupVars, diskVars
  <2>2. ~Answers /\ ~Answers' /\ Saved' = Saved  BY <2>1 DEF Answers, Saved
  <2>3. Known /\ Known'  BY <2>2 DEF RestoreInv, IndexInv, Astray, Known
  <2>4. Shown = {} /\ Shown' = {}  BY <2>2 DEF Shown
  <2> QED  BY <2>2, <2>3, <2>4, DurableStutters
<1> QED  BY <1>1, <1>2, <1>3, <1>4 DEF BackupNext

\* A restart brings back the index of the last dump as a whole or does not get through: with
\* any number of threads, documents and tokens, wherever the process is killed and whichever
\* files are written or removed, Backup takes the steps of DurableIndex or none.
THEOREM DurableIndexRefined == BackupSpec => ImplementsDurableIndex
<1>1. BackupInit => Durable!Init
  <2> SUFFICES ASSUME BackupInit PROVE Durable!Init  OBVIOUS
  <2>1. life = "up" /\ dumpFile.state = "missing" /\ DOMAIN m_record = {}
    BY DEF BackupInit, Init, NoDump, DumpOf
  <2>2. Serialized = {}  BY <2>1 DEF Serialized
  <2>3. Known /\ Answers  BY <2>1 DEF BackupInit, Init, Astray, Known, Answers
  <2>4. Shown = {} /\ Saved = <<"missing", TRUE, {}>>  BY <2>1, <2>2 DEF Shown, Saved
  <2> QED  BY <2>3, <2>4 DEF Durable!Init
<1> QED
  BY <1>1, InitIndex, RestoreInvNext, NextRefines, PTL
     DEF BackupSpec, ImplementsDurableIndex, Durable!Spec

-----------------------------------------------------------------------------
(* References over restarts                                                 *)

\* The tokens and positions that were inserted: those of the entries of the index and of the
\* dump, whatever documents they are read as, and those on their way.
Named ==
    {<<x[1], x[3]>> : x \in Serialized \union dumpFile.dump}
      \union {<<call[th].token, call[th].pos>> : th \in {o \in Threads : shpc[o] = "trace"}}

\* restore inserts nothing that was not inserted before the dump.
NamedBounded == IsFiniteSet(Named) /\ Cardinality(Named) <= inserts

\* The entries of a document that restore has still to insert.
Left == [p \in Paths |-> {x \in remaining : x[2] = p}]

\* So what is due to a document stays below the number of inserts.
LeftBounded == ~crossed => \A p \in Paths : Due[p] + Cardinality(Left[p]) <= inserts

\* The dump of a server that kept its documents has statistics for those its entries name.
DumpTraced ==
    dumpFile.origin = "kept" => \A x \in dumpFile.dump : x[2] \in dumpFile.docTrace

DownIsBlank == life \in {"down", "failed"} => Blank

RestartInv ==
    RestoreInv /\ RefsInv /\ StatsInv /\ NamedBounded /\ LeftBounded /\ DumpTraced /\ DownIsBlank

\* Of each document there is at most one entry for each token and position.
LEMMA LeftCounted ==
  ASSUME BackupInv, NamedBounded, NEW p \in Paths, NEW S, S \subseteq dumpFile.dump
  PROVE  LET left == {x \in S : x[2] = p} IN
         /\ IsFiniteSet(left) /\ Cardinality(left) \in Nat /\ Cardinality(left) <= inserts
         /\ inserts \in 0 .. MaxCalls
<1> DEFINE left == {x \in S : x[2] = p}
           f == [x \in left |-> <<x[1], x[3]>>]
<1>1. \A x \in left : x \in Tokens \X Views \X Positions /\ x[2] = p /\ x \in dumpFile.dump
  BY DEF BackupInv, BackupTypeOK, Triples
<1>2. f \in [left -> Named]  BY <1>1 DEF Named
<1>3. ASSUME NEW x \in left, NEW y \in left, f[x] = f[y]  PROVE x = y
  <2>1. x[1] = y[1] /\ x[3] = y[3] /\ x[2] = y[2]  BY <1>1, <1>3
  <2>2. x \in Tokens \X Views \X Positions /\ y \in Tokens \X Views \X Positions  BY <1>1
  <2> HIDE DEF left
  <2> QED  BY <2>1, <2>2
<1> HIDE DEF left, f
<1>4. f \in Injection(left, Named)  BY <1>2, <1>3 DEF Injection, IsInjective, f
<1>5. IsFiniteSet(left) /\ Cardinality(left) <= Cardinality(Named)
  BY <1>4, FS_Injection DEF NamedBounded
<1>6. Cardinality(left) \in Nat /\ Cardinality(Named) \in Nat
  BY <1>5, FS_CardinalityType DEF NamedBounded
<1>7. inserts \in 0 .. MaxCalls /\ inserts \in Nat
  BY MaxCallsAssumption DEF BackupInv, BackupTypeOK, TypeOK
<1>8. Cardinality(left) <= inserts  BY <1>5, <1>6, <1>7 DEF NamedBounded
<1> QED  BY <1>5, <1>6, <1>7, <1>8 DEF left

\* What is due is bounded, so it fits.
LEMMA LeftFits ==
  ASSUME RestartInv, ~crossed, NEW p \in Paths
  PROVE  /\ Due[p] \in Nat /\ IsFiniteSet(Left[p]) /\ Cardinality(Left[p]) \in Nat
         /\ inserts \in Nat /\ Due[p] <= MaxCalls /\ Due[p] + Cardinality(Left[p]) <= inserts
<1>1. Due[p] \in Nat  BY CountNat DEF RestartInv, RefsInv, Straight
<1>2. remaining \subseteq dumpFile.dump  BY DEF RestartInv, RestoreInv, BackupInv, BackupTypeOK
<1>3. /\ IsFiniteSet(Left[p]) /\ Cardinality(Left[p]) \in Nat /\ inserts \in 0 .. MaxCalls
  BY <1>2, LeftCounted DEF RestartInv, RestoreInv, Left
<1>4. Due[p] + Cardinality(Left[p]) <= inserts  BY DEF RestartInv, LeftBounded
<1> QED  BY <1>1, <1>3, <1>4, MaxCallsAssumption

LEMMA DueFitsNow ==
  ASSUME RestartInv
  PROVE  ~crossed => DueFits
BY LeftFits DEF DueFits

\* As long as nothing is taken from the dump, all is well if no more is due.
LEMMA LeftKept ==
  ASSUME RestartInv, UNCHANGED remaining, inserts' = inserts,
         ~crossed' => ~crossed /\ NotMoreDue
  PROVE  LeftBounded'
<1> SUFFICES ASSUME ~crossed', NEW p \in Paths
             PROVE  Due'[p] + Cardinality(Left'[p]) <= inserts'
  BY DEF LeftBounded
<1>1. Left' = Left  BY DEF Left
<1>2. /\ Due[p] \in Nat /\ Cardinality(Left[p]) \in Nat /\ inserts \in Nat
      /\ Due[p] + Cardinality(Left[p]) <= inserts
  BY LeftFits
<1>3. Due'[p] \in Nat /\ Due'[p] <= Due[p]  BY DEF NotMoreDue
<1> QED  BY <1>1, <1>2, <1>3

\* Nothing is named that was not, unless it was inserted.
LEMMA NamedKept ==
  ASSUME RestartInv, Named' \subseteq Named, inserts' = inserts
  PROVE  NamedBounded'
<1>1. IsFiniteSet(Named) /\ Cardinality(Named) <= inserts  BY DEF RestartInv, NamedBounded
<1>2. IsFiniteSet(Named') /\ Cardinality(Named') <= Cardinality(Named)
  BY <1>1, FS_Subset
<1>3. Cardinality(Named) \in Nat /\ Cardinality(Named') \in Nat
  BY <1>1, <1>2, FS_CardinalityType
<1>4. inserts \in Nat
  BY MaxCallsAssumption DEF RestartInv, RestoreInv, BackupInv, BackupTypeOK, TypeOK
<1> QED  BY <1>1, <1>2, <1>3, <1>4 DEF NamedBounded

\* What a thread has on its way goes into the index as it is.
LEMMA ThreadStepNames ==
  ASSUME RestartInv, BackupInv', NEW th \in Threads, ThreadStep(th), UNCHANGED dumpFile
  PROVE  Named' \subseteq Named
<1>1. TypeInv  BY DEF RestartInv, RefsInv
<1>2. \A o \in Threads : shpc'[o] = "trace" => shpc[o] = "trace" /\ call'[o] = call[o]
  BY <1>1 DEF ThreadStep, TraceStep, SizeStep, InsertRecord, EraseRecord, EraseEntry, EraseEnd,
              shardVars, TypeInv, TypeOK
<1>3. \/ InsertRecord(th)
         /\ Serialized' = Serialized \union {<<call[th].token, hook[th], call[th].pos>>}
      \/ Serialized' \subseteq Serialized
  BY ThreadStepIndex DEF RestartInv, RestoreInv, IndexInv
<1>4. InsertRecord(th) => shpc[th] = "trace"  BY DEF InsertRecord
<1> QED  BY <1>2, <1>3, <1>4 DEF Named

LEMMA RestartInit == BackupInit => RestartInv
<1> SUFFICES ASSUME BackupInit PROVE RestartInv  OBVIOUS
<1>1. RestoreInv /\ ReferenceInv /\ Init  BY InitIndex, InitReferences DEF BackupInit
<1>2. StatsInv  BY <1>1, InitType, BlankStats DEF Init, DocInit, Blank
<1>3. dumpFile.dump = {} /\ remaining = {} /\ life = "up" /\ inserts = 0
  BY <1>1 DEF BackupInit, NoDump, DumpOf, Init
<1>4. IsFiniteSet({}) /\ Cardinality({}) = 0  BY FS_EmptySet
<1>5. NamedBounded
  <2>1. Serialized = {}  BY <1>1 DEF Init, Serialized
  <2>2. \A th \in Threads : shpc[th] # "trace"  BY <1>1 DEF Init
  <2>3. Named = {}  BY <1>3, <2>1, <2>2 DEF Named
  <2> QED  BY <1>3, <1>4, <2>3 DEF NamedBounded
<1>6. LeftBounded
  <2> SUFFICES ASSUME ~crossed, NEW p \in Paths
               PROVE  Due[p] + Cardinality(Left[p]) <= inserts
    BY DEF LeftBounded
  <2>1. Left[p] = {}  BY <1>3 DEF Left
  <2>2. Due[p] \in Nat /\ Due[p] <= inserts
    BY <1>1, DueBounded DEF ReferenceInv, DueOfInserts
  <2> QED  BY <1>3, <1>4, <2>1, <2>2
<1> QED
  BY <1>1, <1>2, <1>3, <1>5, <1>6 DEF RestartInv, ReferenceInv, DumpTraced, DownIsBlank

\* A call of insert names one more token and position.
LEMMA InsertNames ==
  ASSUME RestartInv, BackupInv', NEW th \in Threads, NEW i, BeginInsert(th, i),
         UNCHANGED dumpFile
  PROVE  Named' = Named \union {<<i.token, i.pos>>}
<1>1. TypeInv  BY DEF RestartInv, RefsInv
<1>2. /\ shpc[th] = "idle" /\ shpc' = [shpc EXCEPT ![th] = "trace"]
      /\ call' = [call EXCEPT ![th] = [token |-> i.token, pos |-> i.pos]]
      /\ UNCHANGED <<m_record, heap>>
  BY DEF BeginInsert, AtRest
<1>3. Serialized' = Serialized  BY <1>2, IndexUntouched
<1>4. th \in DOMAIN shpc /\ th \in DOMAIN call  BY <1>1 DEF TypeInv, TypeOK
<1> DEFINE going == {<<call[o].token, call[o].pos>> : o \in {u \in Threads : shpc[u] = "trace"}}
<1>5. going' = going \union {<<i.token, i.pos>>}
  <2>1. \A o \in Threads : shpc'[o] = "trace" <=> shpc[o] = "trace" \/ o = th
    BY <1>1, <1>2, <1>4 DEF TypeInv, TypeOK
  <2>2. \A o \in Threads : o # th => call'[o] = call[o]  BY <1>1, <1>2 DEF TypeInv, TypeOK
  <2>3. call'[th].token = i.token /\ call'[th].pos = i.pos  BY <1>2, <1>4
  <2> QED  BY <1>2, <2>1, <2>2, <2>3
<1> QED  BY <1>3, <1>5 DEF Named

\* The server's threads.
LEMMA ServeRefs ==
  ASSUME CountsFit, RestartInv, RestoreInv', NEW th \in Threads, Serve(th)
  PROVE  RestartInv'
<1> USE DEF RestartInv
<1>1. life = "up" /\ life' = "up" /\ UNCHANGED <<remaining, dumpFile>> /\ remaining = {}
  BY DEF Serve, backupVars, diskVars, RestoreInv, BackupInv, DumpInv
<1>2. TypeInv' /\ BackupInv'  BY DEF RestoreInv, BackupInv, SizesInv
<1>3. DownIsBlank' /\ DumpTraced'  BY <1>1 DEF DownIsBlank, DumpTraced
<1>4. CASE ThreadStep(th)
  <2>1. inserts' = inserts
    BY <1>4 DEF ThreadStep, TraceStep, SizeStep, InsertRecord, EraseRecord, EraseEntry, EraseEnd,
                shardVars
  <2>2. RefsInv' /\ (~crossed' => ~crossed /\ NotMoreDue)
    BY <1>4, DueFitsNow, ThreadStepRefs
  <2>3. StatsInv'  BY <1>4, ThreadStepStats
  <2>4. NamedBounded'  BY <1>1, <1>2, <1>4, <2>1, ThreadStepNames, NamedKept
  <2>5. LeftBounded'  BY <1>1, <2>1, <2>2, LeftKept
  <2> QED  BY <1>3, <2>2, <2>3, <2>4, <2>5
<1>5. ASSUME NEW i \in Inserts, CallInsert(th, i)  PROVE RestartInv'
  <2>1. BeginInsert(th, i) /\ inserts' = inserts + 1 /\ i.doc \in Paths
    BY <1>5, InsertsAssumption DEF CallInsert
  <2>2. inserts \in Nat
    BY MaxCallsAssumption DEF RestoreInv, BackupInv, BackupTypeOK, TypeOK
  <2>3. /\ RefsInv' /\ crossed' = crossed
        /\ ~crossed => \A p \in Paths :
             Due'[p] \in Nat /\ Due'[p] = IF p = i.doc THEN Due[p] + 1 ELSE Due[p]
    BY <1>2, <2>1, BeginInsertRefs
  <2>4. StatsInv'  BY <1>2, <2>1, BeginInsertStats
  <2>5. NamedBounded'
    <3>1. Named' = Named \union {<<i.token, i.pos>>}  BY <1>1, <1>2, <2>1, InsertNames
    <3>2. IsFiniteSet(Named) /\ Cardinality(Named) <= inserts  BY DEF NamedBounded
    <3>3. IsFiniteSet(Named') /\ Cardinality(Named') <= Cardinality(Named) + 1
          /\ Cardinality(Named) \in Nat /\ Cardinality(Named') \in Nat
      <4>1. IsFiniteSet(Named')  BY <3>1, <3>2, FS_AddElement
      <4>2. Cardinality(Named') = IF <<i.token, i.pos>> \in Named THEN Cardinality(Named)
                                  ELSE Cardinality(Named) + 1
        BY <3>1, <3>2, FS_AddElement
      <4>3. Cardinality(Named) \in Nat /\ Cardinality(Named') \in Nat
        BY <3>2, <4>1, FS_CardinalityType
      <4> QED  BY <4>1, <4>2, <4>3
    <3> QED  BY <2>1, <2>2, <3>2, <3>3 DEF NamedBounded
  <2>6. LeftBounded'
    <3> SUFFICES ASSUME ~crossed', NEW p \in Paths
                 PROVE  Due'[p] + Cardinality(Left'[p]) <= inserts'
      BY DEF LeftBounded
    <3>1. Left' = Left  BY <1>1 DEF Left
    <3>2. /\ Due[p] \in Nat /\ Cardinality(Left[p]) \in Nat
          /\ Due[p] + Cardinality(Left[p]) <= inserts
      BY <2>3, LeftFits
    <3>3. Due'[p] \in Nat /\ Due'[p] <= Due[p] + 1  BY <2>3, <3>2
    <3> QED  BY <2>1, <2>2, <3>1, <3>2, <3>3
  <2> QED  BY <1>3, <2>3, <2>4, <2>5, <2>6
<1>6. ASSUME NEW tk \in Erasable, CallEraseToken(th, tk)  PROVE RestartInv'
  <2>1. inserts' = inserts /\ UNCHANGED <<m_record, heap>>  BY <1>6 DEF CallEraseToken
  <2>2. RefsInv' /\ crossed' = crossed /\ (~crossed => NotMoreDue)
    BY <1>2, <1>6, CallEraseRefs
  <2>3. StatsInv'  BY <1>2, <1>6, CallEraseStats
  <2>4. Named' \subseteq Named
    <3>1. \A o \in Threads : shpc'[o] = "trace" => shpc[o] = "trace" /\ call'[o] = call[o]
      BY <1>6 DEF CallEraseToken, RefsInv, TypeInv, TypeOK
    <3>2. Serialized' = Serialized  BY <2>1, IndexUntouched
    <3> QED  BY <1>1, <3>1, <3>2 DEF Named
  <2>5. NamedBounded'  BY <2>1, <2>4, NamedKept
  <2>6. LeftBounded'  BY <1>1, <2>1, <2>2, LeftKept
  <2> QED  BY <1>3, <2>2, <2>3, <2>5, <2>6
<1> QED  BY <1>4, <1>5, <1>6 DEF Serve

LEMMA RestoreInsertsRefs ==
  ASSUME CountsFit, RestartInv, RestoreInv', RestoreInserts
  PROVE  RestartInv'
<1> USE DEF RestartInv
<1>1. life' = life /\ UNCHANGED <<remaining, dumpFile>> /\ ThreadStep(Main) /\ life = "restoring"
  BY DEF RestoreInserts, backupVars, diskVars
<1>2. inserts' = inserts
  BY <1>1 DEF ThreadStep, TraceStep, SizeStep, InsertRecord, EraseRecord, EraseEntry, EraseEnd,
              shardVars
<1>3. RefsInv' /\ (~crossed' => ~crossed /\ NotMoreDue)
  BY <1>1, DueFitsNow, MainAssumption, ThreadStepRefs
<1>4. StatsInv'  BY <1>1, MainAssumption, ThreadStepStats
<1>5. NamedBounded'
  BY <1>1, <1>2, MainAssumption, ThreadStepNames, NamedKept DEF RestoreInv
<1>6. LeftBounded'  BY <1>1, <1>2, <1>3, LeftKept
<1> QED  BY <1>1, <1>3, <1>4, <1>5, <1>6 DEF DownIsBlank, DumpTraced

\* restore takes an entry: one less is left, one more is due.
LEMMA RestoreEntryRefs ==
  ASSUME RestartInv, RestoreInv', NEW x \in remaining, RestoreEntry(x)
  PROVE  RestartInv'
<1> USE DEF RestartInv
<1> DEFINE d == x[2]
           i == [token |-> x[1], doc |-> d, pos |-> x[3]]
<1>1. /\ d \in Paths /\ BeginInsert(Main, i) /\ i.doc = d /\ i.token = x[1] /\ i.pos = x[3]
      /\ remaining' = remaining \ {x} /\ UNCHANGED <<dumpFile, inserts, life>>
      /\ life = "restoring" /\ x \in dumpFile.dump
  BY DEF RestoreEntry, RestoreInv, BackupInv, BackupTypeOK, diskVars
<1>2. TypeInv' /\ BackupInv'  BY DEF RestoreInv, BackupInv, SizesInv
<1> HIDE DEF i, d
<1>3. /\ RefsInv' /\ crossed' = crossed
      /\ ~crossed => \A p \in Paths :
           Due'[p] \in Nat /\ Due'[p] = IF p = i.doc THEN Due[p] + 1 ELSE Due[p]
  BY <1>1, <1>2, BeginInsertRefs, MainAssumption
<1>4. StatsInv'  BY <1>1, <1>2, BeginInsertStats, MainAssumption
<1>5. NamedBounded'
  <2>1. Named' = Named \union {<<i.token, i.pos>>}  BY <1>1, <1>2, InsertNames, MainAssumption
  <2>2. <<i.token, i.pos>> \in Named  BY <1>1 DEF Named
  <2>3. Named' \subseteq Named  BY <2>1, <2>2
  <2> QED  BY <1>1, <2>3, NamedKept
<1>6. LeftBounded'
  <2> SUFFICES ASSUME ~crossed', NEW p \in Paths
               PROVE  Due'[p] + Cardinality(Left'[p]) <= inserts'
    BY DEF LeftBounded
  <2>1. /\ IsFiniteSet(Left[p]) /\ Due[p] \in Nat /\ Cardinality(Left[p]) \in Nat
        /\ inserts \in Nat /\ Due[p] + Cardinality(Left[p]) <= inserts
    BY <1>3, LeftFits
  <2>2. CASE p = d
    <3>1. Left'[p] = Left[p] \ {x} /\ x \in Left[p]  BY <1>1, <2>2 DEF Left, d
    <3>2. Cardinality(Left'[p]) = Cardinality(Left[p]) - 1
      BY <2>1, <3>1, FS_RemoveElement
    <3>3. Due'[p] = Due[p] + 1  BY <1>1, <1>3, <2>2
    <3> QED  BY <1>1, <2>1, <3>2, <3>3
  <2>3. CASE p # d
    <3>1. Left'[p] = Left[p]  BY <1>1, <2>3 DEF Left, d
    <3>2. Due'[p] = Due[p]  BY <1>1, <1>3, <2>3
    <3> QED  BY <1>1, <2>1, <3>1, <3>2
  <2> QED  BY <2>2, <2>3
<1>7. DumpTraced' /\ DownIsBlank'  BY <1>1 DEF DumpTraced, DownIsBlank
<1> QED  BY <1>3, <1>4, <1>5, <1>6, <1>7

\* The dump takes nothing into the index.  If no document has gone, the statistics it takes
\* are those of the documents its entries name.
LEMMA OpenDumpRefs ==
  ASSUME RestartInv, RestoreInv', OpenDump
  PROVE  RestartInv'
<1> USE DEF RestartInv
<1>1. /\ UNCHANGED vars /\ UNCHANGED remaining /\ life' = "writing" /\ Quiet
  BY DEF OpenDump
<1>2. PICK dump \in Dumps, docTrace \in SerializedTraces :
        /\ dumpFile'.dump = dump /\ dumpFile'.docTrace = docTrace
        /\ dumpFile'.origin = Origin
  BY DEF OpenDump, DumpOf
<1>3. UNCHANGED <<m_record, heap, shpc, call, inserts, crossed, freed>>
  BY <1>1 DEF vars, shardVars, traceVars
<1>4. RefsInv' /\ Due' = Due  BY <1>1, SameRefs
<1>5. StatsInv'
  BY <1>1, <1>4 DEF vars, traceVars, shardVars, StatsInv, NothingGone, NamesHeld, Stating, RefsInv
<1>6. Serialized' = Serialized  BY <1>3, IndexUntouched
<1>7. NamedBounded'
  <2>1. \A x \in dump : \E s \in Serialized : x[1] = s[1] /\ x[3] = s[3]  BY DEF Dumps
  <2>2. {<<call'[th].token, call'[th].pos>> : th \in {o \in Threads : shpc'[o] = "trace"}}
          \subseteq Named
    BY <1>3 DEF Named
  <2>3. \A x \in Serialized' \union dumpFile'.dump : <<x[1], x[3]>> \in Named
    <3>1. \A s \in Serialized : <<s[1], s[3]>> \in Named  BY DEF Named
    <3>2. \A x \in dump : <<x[1], x[3]>> \in Named
      <4> SUFFICES ASSUME NEW x \in dump  PROVE <<x[1], x[3]>> \in Named  OBVIOUS
      <4>1. PICK s \in Serialized : x[1] = s[1] /\ x[3] = s[3]  BY <2>1
      <4>2. <<s[1], s[3]>> \in Named  BY <3>1
      <4> QED  BY <4>1, <4>2
    <3> QED  BY <1>2, <1>6, <3>1, <3>2
  <2>4. Named' \subseteq Named  BY <2>2, <2>3 DEF Named
  <2> QED  BY <1>3, <2>4, NamedKept
<1>8. LeftBounded'
  <2>1. ~crossed => NotMoreDue
    <3> SUFFICES ASSUME ~crossed, NEW p \in Paths  PROVE Due'[p] \in Nat /\ Due'[p] <= Due[p]
      BY DEF NotMoreDue
    <3>1. Due[p] \in Nat  BY LeftFits
    <3> QED  BY <1>4, <3>1
  <2> QED  BY <1>1, <1>3, <2>1, LeftKept
<1>9. DumpTraced'
  <2> SUFFICES ASSUME dumpFile'.origin = "kept", NEW x \in dumpFile'.dump
               PROVE  x[2] \in dumpFile'.docTrace
    BY DEF DumpTraced
  <2>1. ~freed /\ ~Astray  BY <1>2 DEF Origin, Astray
  <2>2. x \in Serialized  BY <1>2, <2>1 DEF Dumps
  <2>3. PICK tk \in DOMAIN m_record : \E e \in heap[m_record[tk]] : x = <<tk, e[1], e[2]>>
    BY <2>2 DEF Serialized, SerializedRecord
  <2>4. m_record[tk] \in DOMAIN heap  BY DEF RefsInv, TypeInv, TypeOK
  <2>5. x[2] \in DOMAIN m_trace  BY <2>1, <2>3, <2>4 DEF StatsInv, NothingGone
  <2>6. m_stats = DOMAIN m_trace  BY <1>1, <2>1, StatsAtRest DEF IndexedHaveStats
  <2>7. m_stats \subseteq docTrace  BY DEF SerializedTraces
  <2> QED  BY <1>2, <2>5, <2>6, <2>7
<1> QED  BY <1>1, <1>4, <1>5, <1>7, <1>8, <1>9 DEF DownIsBlank

LEMMA BlankAfter ==
  ASSUME TypeInv', Blank'
  PROVE  RefsInv' /\ \A p \in Paths : Due'[p] = 0
<1>1. (TypeInv /\ Blank => RefsInv /\ \A p \in Paths : Due[p] = 0)'  BY BlankRefs, PTL
<1> QED  BY <1>1

\* With nothing in memory nothing is on its way: what is named, the dump names, and what is
\* due is left.
LEMMA BlankNames ==
  ASSUME RestartInv, BackupInv', Blank', inserts' = inserts, dumpFile'.dump \subseteq dumpFile.dump,
         remaining' \subseteq dumpFile'.dump
  PROVE  NamedBounded' /\ LeftBounded'
<1> USE DEF RestartInv
<1>1. DOMAIN m_record' = {} /\ \A th \in Threads : shpc'[th] # "trace"  BY DEF Blank
<1>2. NamedBounded'
  <2>1. Serialized' = {}  BY <1>1 DEF Serialized
  <2>2. Named' \subseteq Named  BY <1>1, <2>1 DEF Named
  <2> QED  BY <2>2, NamedKept
<1>3. LeftBounded'
  <2> SUFFICES ASSUME NEW p \in Paths  PROVE Due'[p] + Cardinality(Left'[p]) <= inserts'
    BY DEF LeftBounded
  <2>1. TypeInv'  BY DEF BackupInv, SizesInv
  <2>3. Due'[p] = 0  BY <2>1, BlankAfter
  <2>4. Left'[p] = {x \in remaining' : x[2] = p}  BY DEF Left
  <2>5. remaining' \subseteq dumpFile.dump  OBVIOUS
  <2>6. Cardinality(Left'[p]) \in Nat /\ Cardinality(Left'[p]) <= inserts
    BY <2>4, <2>5, LeftCounted DEF RestoreInv
  <2> QED  BY <2>3, <2>6
<1> QED  BY <1>2, <1>3

LEMMA BlankIs == MemoryLost => Blank'
BY DEF MemoryLost, Blank

\* A process starts with an empty memory, and ends with one.
LEMMA LifeRefs ==
  ASSUME RestartInv, RestoreInv',
         WriteDump \/ WriteThrows \/ Kill \/ Start \/ RestoreDone
         \/ \E entry \in remaining : RestoreThrows(entry)
  PROVE  RestartInv'
<1> USE DEF RestartInv
<1>1. TypeInv' /\ BackupInv'  BY DEF RestoreInv, BackupInv, SizesInv
<1>2. CASE RestoreDone
  <2>1. /\ UNCHANGED vars /\ UNCHANGED <<remaining, dumpFile>> /\ life' = "up"
        /\ UNCHANGED <<m_record, heap, shpc, call, inserts, crossed>>
    BY <1>2 DEF RestoreDone, diskVars, vars, shardVars
  <2>2. RefsInv' /\ Due' = Due  BY <2>1, SameRefs
  <2>3. StatsInv'
    BY <2>1, <2>2 DEF vars, traceVars, shardVars, StatsInv, NothingGone, NamesHeld, Stating, RefsInv
  <2>4. Serialized' = Serialized  BY <2>1, IndexUntouched
  <2>5. NamedBounded' /\ LeftBounded'
    BY <2>1, <2>2, <2>4 DEF NamedBounded, LeftBounded, Named, Left
  <2> QED  BY <2>1, <2>2, <2>3, <2>5 DEF DumpTraced, DownIsBlank
<1>3. CASE WriteDump \/ WriteThrows \/ Kill \/ Start \/ \E entry \in remaining : RestoreThrows(entry)
  <2>1. Blank'
    <3>1. CASE Start
      BY <3>1 DEF Start, DownIsBlank, Blank, vars, traceVars, shardVars
    <3>2. CASE ~Start
      BY <1>3, <3>2, BlankIs DEF WriteDump, WriteThrows, Kill, RestoreThrows, Thrown
    <3> QED  BY <3>1, <3>2
  <2>2. inserts' = inserts /\ remaining' \subseteq dumpFile'.dump
    BY <1>1, <1>3 DEF WriteDump, WriteThrows, Kill, Start, RestoreThrows, Thrown, MemoryLost, vars,
                      shardVars, BackupInv, BackupTypeOK
  <2>3. dumpFile'.dump \subseteq dumpFile.dump /\ DumpTraced'
    <3>1. CASE dumpFile' = TornDump  BY <3>1 DEF TornDump, DumpOf, DumpTraced
    <3>2. CASE dumpFile' = dumpFile  BY <3>2 DEF DumpTraced
    <3>3. CASE WriteDump
      <4>1. /\ dumpFile'.dump = dumpFile.dump /\ dumpFile'.docTrace = dumpFile.docTrace
            /\ dumpFile'.origin = dumpFile.origin
        BY <3>3 DEF WriteDump, RestoreInv, BackupInv, BackupTypeOK
      <4> QED  BY <4>1 DEF DumpTraced
    <3> QED
      BY <1>3, <3>1, <3>2, <3>3 DEF WriteThrows, Kill, Start, RestoreThrows, diskVars
  <2>4. NamedBounded' /\ LeftBounded'  BY <1>1, <2>1, <2>2, <2>3, BlankNames
  <2>5. RefsInv'  BY <1>1, <2>1, BlankAfter
  <2>6. StatsInv'
    <3>1. (TypeInv /\ Blank => StatsInv)'  BY BlankStats, PTL
    <3> QED  BY <1>1, <2>1, <3>1
  <2> QED  BY <2>1, <2>3, <2>4, <2>5, <2>6 DEF DownIsBlank
<1> QED  BY <1>2, <1>3

LEMMA RestartNext ==
  ASSUME CountsFit, RestartInv, [BackupNext]_allVars
  PROVE  RestartInv'
<1>1. RestoreInv'  BY RestoreInvNext DEF RestartInv
<1>2. CASE \E th \in Threads \ {Main} : Serve(th)  BY <1>1, <1>2, ServeRefs
<1>3. CASE (\E d \in Volatile : Touch(d) \/ RemoveFile(d)) \/ UNCHANGED allVars
  <2> USE DEF RestartInv
  <2>1. UNCHANGED vars /\ UNCHANGED <<life, remaining, dumpFile>>
    BY <1>3 DEF Touch, RemoveFile, allVars, backupVars, diskVars
  <2>2. UNCHANGED <<m_record, heap, shpc, call, inserts, crossed>>
    BY <2>1 DEF vars, shardVars
  <2>3. RefsInv' /\ Due' = Due  BY <2>1, SameRefs
  <2>4. StatsInv'
    BY <2>1, <2>3 DEF vars, traceVars, shardVars, StatsInv, NothingGone, NamesHeld, Stating, RefsInv
  <2>5. Serialized' = Serialized  BY <2>2, IndexUntouched
  <2>6. NamedBounded' /\ LeftBounded'
    BY <2>1, <2>2, <2>3, <2>5 DEF NamedBounded, LeftBounded, Named, Left
  <2>7. DownIsBlank' /\ DumpTraced'
    BY <2>1 DEF DownIsBlank, DumpTraced, Blank, vars, traceVars, shardVars
  <2> QED  BY <1>1, <2>3, <2>4, <2>6, <2>7
<1>4. CASE OpenDump  BY <1>1, <1>4, OpenDumpRefs
<1>5. CASE \/ WriteDump \/ WriteThrows \/ Kill \/ Start \/ RestoreDone
           \/ \E entry \in remaining : RestoreThrows(entry)
  BY <1>1, <1>5, LifeRefs
<1>6. CASE RestoreInserts  BY <1>1, <1>6, RestoreInsertsRefs
<1>7. CASE \E entry \in remaining : RestoreEntry(entry)  BY <1>1, <1>7, RestoreEntryRefs
<1> QED  BY <1>2, <1>3, <1>4, <1>5, <1>6, <1>7 DEF BackupNext

LEMMA RestartInvariance ==
  ASSUME CountsFit
  PROVE  BackupSpec => []RestartInv
<1>1. RestartInv /\ [BackupNext]_allVars => RestartInv'  BY RestartNext
<1> QED  BY <1>1, RestartInit, PTL DEF BackupSpec

\* Over kills, dumps and restores the entries of the index name documents that DocTrace
\* holds, with the two exceptions of one process, whatever inserts and erases run side by
\* side before the dump and after the restart ...
THEOREM EntriesTracedOverRestarts ==
  ASSUME CountsFit
  PROVE  BackupSpec => []EntriesAreTraced
<1>1. RestartInv => EntriesAreTraced  BY ReferencesTraced DEF RestartInv
<1> QED  BY <1>1, RestartInvariance, PTL

\* ... at rest the counts of the documents are the numbers of their entries, those that
\* restore inserted included ...
THEOREM RefCountsRightOverRestarts ==
  ASSUME CountsFit
  PROVE  BackupSpec => []RefCountIsEntryCount
<1>1. RestartInv => RefCountIsEntryCount  BY ReferencesCounted DEF RestartInv
<1> QED  BY <1>1, RestartInvariance, PTL

\* ... and until a document leaves the index, restore included, the documents with
\* statistics are those with a count.
THEOREM StatsOfIndexedOverRestarts ==
  ASSUME CountsFit
  PROVE  BackupSpec => []IndexedHaveStats
<1>1. RestartInv => IndexedHaveStats  BY StatsAtRest DEF RestartInv
<1> QED  BY <1>1, RestartInvariance, PTL

-----------------------------------------------------------------------------
(* What restore makes of a dump                                             *)

\* The dump of a server that kept its documents has statistics for what it mentions.
LEMMA FailureNext ==
  ASSUME RestartInv, OnlyMissingFilesFail, [BackupNext]_allVars
  PROVE  OnlyMissingFilesFail'
<1> USE DEF OnlyMissingFilesFail
<1>1. CASE (\E th \in Threads \ {Main} : Serve(th)) \/ RestoreInserts \/ UNCHANGED allVars
  <2>1. UNCHANGED <<life, dumpFile, files>>
    BY <1>1 DEF Serve, RestoreInserts, allVars, backupVars, diskVars
  <2> QED  BY <2>1
<1>2. CASE \E d \in Volatile : Touch(d) \/ RemoveFile(d)
  <2>1. UNCHANGED <<life, dumpFile>> /\ DOMAIN files' \subseteq DOMAIN files
    BY <1>2 DEF Touch, RemoveFile, Erased, Restrict
  <2> QED  BY <2>1
<1>3. CASE OpenDump \/ WriteDump \/ WriteThrows \/ Kill \/ RestoreDone
  BY <1>3 DEF OpenDump, WriteDump, WriteThrows, Kill, RestoreDone
<1>4. CASE Start
  <2>1. dumpFile.state \in {"missing", "torn", "whole"}
    BY DEF RestartInv, RestoreInv, BackupInv, BackupTypeOK
  <2> QED  BY <1>4, <2>1 DEF Start, diskVars
<1>5. CASE \E entry \in remaining : RestoreEntry(entry)
  BY <1>5 DEF RestoreEntry, diskVars
<1>6. ASSUME NEW entry \in remaining, RestoreThrows(entry)  PROVE OnlyMissingFilesFail'
  <2>1. entry \in dumpFile.dump  BY DEF RestartInv, RestoreInv, BackupInv, BackupTypeOK
  <2>2. entry[2] \notin DOMAIN files \/ dumpFile.origin # "kept"
    BY <1>6, <2>1 DEF RestoreThrows, RestartInv, DumpTraced
  <2> QED  BY <1>6, <2>1, <2>2 DEF RestoreThrows, diskVars
<1> QED  BY <1>1, <1>2, <1>3, <1>4, <1>5, <1>6 DEF BackupNext

\* The server fails to start over a dump that was cut short, a referenced file that is gone,
\* or the dump of a server that saw a document leave the index.  The dump of one that did not
\* has the statistics restore looks up, whatever its threads inserted and erased side by
\* side (engine.cpp:357).
THEOREM MissingFilesFail ==
  ASSUME CountsFit
  PROVE  BackupSpec => []OnlyMissingFilesFail
<1>1. BackupInit => OnlyMissingFilesFail  BY DEF BackupInit, OnlyMissingFilesFail
<1>2. RestartInv /\ OnlyMissingFilesFail /\ [BackupNext]_allVars => OnlyMissingFilesFail'
  BY FailureNext
<1> QED  BY <1>1, <1>2, RestartInvariance, PTL DEF BackupSpec

\* The epoch of the file clock is that of the other clock, or later than any time a process
\* sees, but not so much later that the difference gets small again.
ClocksApart ==
    /\ MaxTime < 2 ^ TimeWidth
    /\ \A epoch \in FileEpochs :
         epoch = 0 \/ (MaxTime < epoch /\ epoch + MaxTime < 2 ^ TimeWidth)

\* What the time of the last write is compared as.
LEMMA FileTimeIs ==
  ASSUME ClocksApart, BackupTypeOK, NEW d \in DOMAIN files
  PROVE  /\ fileEpoch <= now => FileTime(d) = files[d]
         /\ fileEpoch > now => FileTime(d) > MaxTime
<1> DEFINE T == 2 ^ TimeWidth
<1>1. /\ T \in Nat \ {0} /\ MaxTime \in Nat /\ MaxTime < T
      /\ now \in 0 .. MaxTime /\ files[d] \in 0 .. now /\ fileEpoch \in Nat
      /\ fileEpoch = 0 \/ (MaxTime < fileEpoch /\ fileEpoch + MaxTime < T)
  BY TimeAssumption DEF ClocksApart, BackupTypeOK
<1> HIDE DEF T
<1>2. CASE fileEpoch = 0
  <2> DEFINE r == files[d] - fileEpoch
  <2>1. r \in 0 .. T - 1 /\ r = files[d]  BY <1>1, <1>2
  <2> HIDE DEF r
  <2>2. (T * 0 + r) % T = r /\ T * 0 + r = r  BY <1>1, <2>1, Remainder
  <2>3. (files[d] - fileEpoch) % T = files[d]  BY <2>1, <2>2 DEF r
  <2> QED  BY <1>1, <1>2, <2>3 DEF FileTime, T
<1>3. CASE MaxTime < fileEpoch /\ fileEpoch + MaxTime < T
  <2> DEFINE r == files[d] - fileEpoch + T
  <2>1. r \in 0 .. T - 1 /\ r > MaxTime  BY <1>1, <1>3
  <2>2. files[d] - fileEpoch = T * (-1) + r  BY <1>1
  <2> HIDE DEF r
  <2>3. (T * (-1) + r) % T = r  BY <1>1, <2>1, Remainder
  <2>4. (files[d] - fileEpoch) % T = r  BY <2>2, <2>3
  <2> QED  BY <1>1, <1>3, <2>1, <2>4 DEF FileTime, T
<1> QED  BY <1>1, <1>2, <1>3

\* The files written after a dump are those that were seen to be.
TimesTell ==
    life = "writing" \/ dumpFile.state = "whole" =>
      /\ dumpFile.ts <= now
      /\ \A d \in DOMAIN files : files[d] > dumpFile.ts <=> d \in touched \union late

\* What restore has noticed so far.
StaleSoFar ==
    life = "restoring" =>
      /\ dumpFile.state = "whole"
      /\ fileEpoch > now => (isStale <=> remaining # dumpFile.dump)
      /\ fileEpoch <= now =>
           /\ \A x \in dumpFile.dump \ remaining : x[2] \in touched => isStale
           /\ isStale => \E x \in dumpFile.dump : x[2] \in touched \union late

StaleInv == BackupInv /\ TimesTell /\ StaleSoFar

LEMMA TimesTellNext ==
  ASSUME StaleInv, [BackupNext]_allVars
  PROVE  TimesTell'
<1> USE DEF StaleInv, TimesTell
<1>1. /\ now \in Nat /\ \A d \in DOMAIN files : files[d] \in 0 .. now
      /\ dumpFile.ts \in Nat /\ dumpFile.state \in {"missing", "torn", "whole"}
  BY TimeAssumption DEF BackupInv, BackupTypeOK
<1>2. CASE (\E th \in Threads \ {Main} : Serve(th)) \/ RestoreInserts \/ UNCHANGED allVars
  <2>1. UNCHANGED <<life, dumpFile, files, now, touched, late>>
    BY <1>2 DEF Serve, RestoreInserts, allVars, backupVars, diskVars
  <2> QED  BY <2>1
<1>3. ASSUME NEW d \in Volatile, Touch(d)  PROVE TimesTell'
  <2>1. /\ now' = now + 1 /\ files' = [files EXCEPT ![d] = now + 1] /\ d \in DOMAIN files
        /\ touched' \union late' = touched \union late \union {d}
        /\ UNCHANGED <<life, dumpFile>>
    BY <1>3 DEF Touch
  <2> QED  BY <1>1, <2>1
<1>4. ASSUME NEW d \in Volatile, RemoveFile(d)  PROVE TimesTell'
  BY <1>4 DEF RemoveFile, Erased, Restrict
<1>5. CASE OpenDump
  <2>1. PICK dump \in Dumps, docTrace \in SerializedTraces :
          dumpFile' = DumpOf("torn", now, dump, docTrace, Origin)
    BY <1>5 DEF OpenDump
  <2>2. /\ dumpFile'.ts = now /\ UNCHANGED <<files, now>> /\ touched' = {} /\ late' = {}
    BY <1>5, <2>1 DEF OpenDump, DumpOf
  <2> QED  BY <1>1, <2>2
<1>6. CASE WriteDump
  <2>1. life = "writing" /\ dumpFile'.ts = dumpFile.ts /\ UNCHANGED <<files, now, touched, late>>
    BY <1>6 DEF WriteDump, BackupInv, BackupTypeOK
  <2> QED  BY <2>1
<1>7. CASE WriteThrows \/ Kill  BY <1>7 DEF WriteThrows, Kill, TornDump, DumpOf
<1>8. CASE Start
  <2>1. /\ UNCHANGED <<dumpFile, files, now>> /\ life' # "writing"
        /\ touched' \union late' = touched \union late
    BY <1>1, <1>8 DEF Start, diskVars
  <2> QED  BY <2>1
<1>9. CASE RestoreDone \/ \E entry \in remaining : RestoreEntry(entry) \/ RestoreThrows(entry)
  <2>1. /\ UNCHANGED <<dumpFile, files, now, touched, late>> /\ life' # "writing"
    BY <1>9 DEF RestoreDone, RestoreEntry, RestoreThrows, Thrown, diskVars
  <2> QED  BY <2>1
<1> QED  BY <1>2, <1>3, <1>4, <1>5, <1>6, <1>7, <1>8, <1>9 DEF BackupNext

LEMMA StaleSoFarNext ==
  ASSUME ClocksApart, StaleInv, [BackupNext]_allVars
  PROVE  StaleSoFar'
<1> USE DEF StaleInv, StaleSoFar
<1>1. /\ now \in Nat /\ MaxTime \in Nat /\ now <= MaxTime /\ fileEpoch \in Nat
      /\ fileEpoch = 0 \/ MaxTime < fileEpoch
      /\ dumpFile.state \in {"missing", "torn", "whole"} /\ dumpFile.ts \in 0 .. MaxTime
      /\ remaining \subseteq dumpFile.dump /\ isStale \in BOOLEAN
  BY TimeAssumption DEF BackupInv, BackupTypeOK, ClocksApart
<1>2. CASE (\E th \in Threads \ {Main} : Serve(th)) \/ RestoreInserts \/ UNCHANGED allVars
  <2>1. UNCHANGED backupVars
    BY <1>2 DEF Serve, RestoreInserts, allVars
  <2> QED  BY <2>1 DEF backupVars, diskVars
<1>3. ASSUME NEW d \in Volatile, Touch(d)  PROVE StaleSoFar'
  <2>1. /\ UNCHANGED <<life, dumpFile, fileEpoch, remaining, isStale>>
        /\ now' = now + 1 /\ now < MaxTime
        /\ life = "restoring" => touched' = touched /\ late' = late \union {d}
    BY <1>3 DEF Touch
  <2>2. fileEpoch > now' <=> fileEpoch > now  BY <1>1, <2>1
  <2>3. fileEpoch <= now' <=> fileEpoch <= now  BY <1>1, <2>1
  <2> QED  BY <2>1, <2>2, <2>3
<1>4. ASSUME NEW d \in Volatile, RemoveFile(d)  PROVE StaleSoFar'
  BY <1>4 DEF RemoveFile
<1>5. CASE \/ OpenDump \/ WriteDump \/ WriteThrows \/ Kill \/ RestoreDone
           \/ \E entry \in remaining : RestoreThrows(entry)
  BY <1>5 DEF OpenDump, WriteDump, WriteThrows, Kill, RestoreDone, RestoreThrows, Thrown
<1>6. CASE Start
  <2>1. /\ UNCHANGED <<dumpFile, now, fileEpoch>> /\ remaining' = dumpFile.dump /\ isStale' = FALSE
        /\ life' = "restoring" => dumpFile.state = "whole"
    BY <1>1, <1>6 DEF Start, diskVars
  <2> QED  BY <2>1
<1>7. ASSUME NEW entry \in remaining, RestoreEntry(entry)  PROVE StaleSoFar'
  <2> DEFINE d == entry[2]
  <2>1. /\ life = "restoring" /\ d \in DOMAIN files /\ remaining' = remaining \ {entry}
        /\ isStale' = (isStale \/ dumpFile.ts < FileTime(d)) /\ entry \in dumpFile.dump
        /\ UNCHANGED <<life, files, now, fileEpoch, dumpFile, touched, late>>
    BY <1>1, <1>7 DEF RestoreEntry, diskVars
  <2>2. CASE fileEpoch > now
    <3>1. FileTime(d) > MaxTime  BY <2>1, <2>2, FileTimeIs DEF BackupInv
    <3>2. FileTime(d) \in Int
      <4>1. 2 ^ TimeWidth \in Nat \ {0} /\ files[d] \in Int
        BY <2>1, TimeAssumption DEF BackupInv, BackupTypeOK
      <4> QED  BY <1>1, <4>1 DEF FileTime
    <3>3. isStale'
      <4>1. dumpFile.ts < FileTime(d)  BY <1>1, <3>1, <3>2
      <4> QED  BY <2>1, <4>1, Zenon
    <3>4. remaining' # dumpFile.dump  BY <2>1
    <3>5. ~(fileEpoch <= now)  BY <1>1, <2>2
    <3> QED  BY <2>1, <3>3, <3>4, <3>5
  <2>3. CASE fileEpoch <= now
    <3>1. FileTime(d) = files[d]  BY <2>1, <2>3, FileTimeIs DEF BackupInv
    <3>2. dumpFile.ts < files[d] <=> d \in touched \union late
      <4>1. files[d] \in Int  BY <2>1 DEF BackupInv, BackupTypeOK
      <4> QED  BY <1>1, <2>1, <4>1 DEF TimesTell
    <3>3. isStale' = (isStale \/ d \in touched \union late)  BY <2>1, <3>1, <3>2
    <3>4. ~(fileEpoch > now)  BY <1>1, <2>3
    <3> QED  BY <2>1, <2>3, <3>3, <3>4
  <2> QED  BY <1>1, <2>2, <2>3
<1> QED  BY <1>2, <1>3, <1>4, <1>5, <1>6, <1>7 DEF BackupNext

\* Whether a dump is reported as stale is what the times of the files say - or, with a file
\* clock whose epoch lies in the future, whether it has an entry.
THEOREM StaleFlagRight ==
  ASSUME ClocksApart
  PROVE  BackupSpec => StaleFlag
<1>1. BackupInit => StaleInv
  <2> SUFFICES ASSUME BackupInit PROVE StaleInv  OBVIOUS
  <2>1. dumpFile.state = "missing" /\ life = "up"  BY DEF BackupInit, NoDump, DumpOf
  <2> QED  BY <2>1, BackupInitInv DEF StaleInv, TimesTell, StaleSoFar
<1>2. StaleInv /\ [BackupNext]_allVars => StaleInv'
  BY BackupNextInv, TimesTellNext, StaleSoFarNext DEF StaleInv
<1>3. StaleInv /\ [BackupNext]_allVars =>
        [ (life = "restoring" /\ life' = "up") =>
            LET docs == {entry[2] : entry \in dumpFile.dump} IN
            IF fileEpoch > now THEN isStale = (docs # {})
            ELSE /\ docs \intersect touched # {} => isStale
                 /\ isStale => docs \intersect (touched \union late) # {} ]_allVars
  <2> SUFFICES ASSUME StaleInv, [BackupNext]_allVars, life = "restoring", life' = "up"
               PROVE  LET docs == {entry[2] : entry \in dumpFile.dump} IN
                      IF fileEpoch > now THEN isStale = (docs # {})
                      ELSE /\ docs \intersect touched # {} => isStale
                           /\ isStale => docs \intersect (touched \union late) # {}
    OBVIOUS
  <2>1. remaining = {}
    BY DEF BackupNext, Serve, Touch, RemoveFile, OpenDump, WriteDump, WriteThrows, Kill, Start,
           RestoreEntry,
           RestoreThrows, Thrown, RestoreInserts, RestoreDone, allVars, backupVars, diskVars
  <2> DEFINE docs == {entry[2] : entry \in dumpFile.dump}
  <2>2. isStale \in BOOLEAN /\ now \in Int /\ fileEpoch \in Int
    BY TimeAssumption DEF StaleInv, BackupInv, BackupTypeOK
  <2>3. docs # {} <=> remaining # dumpFile.dump  BY <2>1
  <2>4. CASE fileEpoch > now
    <3>1. isStale <=> docs # {}  BY <2>3, <2>4 DEF StaleInv, StaleSoFar
    <3>2. isStale = (docs # {})  BY <2>2, <3>1, Zenon
    <3> QED  BY <2>4, <3>2
  <2>5. CASE ~(fileEpoch > now)
    <3>1. fileEpoch <= now  BY <2>2, <2>5
    <3>2. \A x \in dumpFile.dump : x[2] \in touched => isStale
      BY <2>1, <3>1 DEF StaleInv, StaleSoFar
    <3>3. isStale => \E x \in dumpFile.dump : x[2] \in touched \union late
      BY <3>1 DEF StaleInv, StaleSoFar
    <3> QED  BY <2>5, <3>2, <3>3
  <2> QED  BY <2>4, <2>5
<1> QED  BY <1>1, <1>2, <1>3, PTL DEF BackupSpec, StaleFlag
=============================================================================
