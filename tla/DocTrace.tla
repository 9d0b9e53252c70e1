------------------------------ MODULE DocTrace ------------------------------
(***************************************************************************)
(* core::DocTrace: the reference counts and token counts of the indexed     *)
(* documents.  addOrIncrement and eraseOrDecrement are sequences of single  *)
(* SUMap operations, each atomic under its bucket's lock; what another      *)
(* thread does in between is what this module is about.                     *)
(*                                                                          *)
(* A string_view is the path it was made from, "" being the view of a       *)
(* caller that got none: paths are too long for std::string to keep inline, *)
(* so their bytes stay where they are while m_trace grows and shrinks, and  *)
(* are freed with their key.  A view of freed bytes dangles: it may read as *)
(* any path, the bytes having become another string's, or as none.  m_stats *)
(* is keyed by views; those in m_stats below are the valid ones, those that *)
(* dangle are only counted, and what they read as is chosen at each use.    *)
(* Paths are taken to share a bucket, so that any of them may be met.       *)
(*                                                                          *)
(* The rolling average only sizes new records and is left out, and so is    *)
(* m_size of m_stats, which nobody reads.                                   *)
(***************************************************************************)
EXTENDS SUMap

CONSTANTS
    Paths,              \* the documents
    NoView,             \* the empty string_view
    CountWidth          \* bits of the reference count (size_t)

ASSUME PathsAssumption == NoView \notin Paths
ASSUME WidthAssumption == CountWidth \in Nat /\ 2 ^ CountWidth \in Nat \ {0}

VARIABLES
    m_trace,            \* path -> reference count, for the paths it holds
    m_stats,            \* the valid views m_stats has a token count for
    dangling,           \* how many views in m_stats dangle
    dpc,                \* thread -> where it is in addOrIncrement, eraseOrDecrement
    dpath,              \* thread -> the path of that call
    hook,               \* thread -> the view addOrIncrement returns
    freed,              \* was the key of a document erased? (history)
    lost                \* documents erased between the two halves of an add (history)

statVars == <<m_stats, dangling>>
fateVars == <<freed, lost>>
traceVars == <<m_trace, statVars, dpc, dpath, hook, fateVars>>

Views == Paths \union {NoView}
DocPlaces == {"idle", "add1", "add2", "stat", "dec", "check", "unstat"}
Maps == {"trace", "record"}
Wrap(n) == n % (2 ^ CountWidth)

DocTypeOK ==
    /\ SizesOK(Maps)
    /\ DOMAIN m_trace \subseteq Views
    /\ \A p \in DOMAIN m_trace : m_trace[p] \in 0 .. 2 ^ CountWidth - 1
    /\ m_stats \subseteq Views
    /\ dangling \in Nat
    /\ freed \in BOOLEAN /\ lost \subseteq Views
    /\ dpc \in [Threads -> DocPlaces]
    /\ dpath \in [Threads -> Views]
    /\ hook \in [Threads -> Views]

DocInit ==
    /\ SizesInit(Maps)
    /\ m_trace = <<>>
    /\ m_stats = {} /\ dangling = 0
    /\ freed = FALSE /\ lost = {}
    /\ dpc = [th \in Threads |-> "idle"]
    /\ dpath = [th \in Threads |-> NoView]
    /\ hook = [th \in Threads |-> NoView]

-----------------------------------------------------------------------------
(* addOrIncrement                                                           *)

CallAdd(th, p) ==
    /\ dpc[th] = "idle"
    /\ dpc' = [dpc EXCEPT ![th] = "add1"]
    /\ dpath' = [dpath EXCEPT ![th] = p]
    /\ hook' = [hook EXCEPT ![th] = NoView]
    /\ UNCHANGED <<mapVars, m_trace, statVars, fateVars>>

\* Slip: a path that is not there is not pushed.
IncrementedIfThere(p) ==
    IF Contains(m_trace, p) THEN [m_trace EXCEPT ![p] = Wrap(@ + 1)] ELSE m_trace

\* Slip: a path that is pushed counts at once, and once more in the second mutate.
IncrementedFromOne(p) ==
    IF Contains(m_trace, p)
    THEN [m_trace EXCEPT ![p] = Wrap(@ + 1)]
    ELSE Inserted(m_trace, p, 1)

\* The callback: a count that is there goes up and yields a view of its key, one that
\* is not there starts at 0 and yields none.
Incremented(p) ==
    IF Contains(m_trace, p)
    THEN [m_trace EXCEPT ![p] = Wrap(@ + 1)]
    ELSE Inserted(m_trace, p, 0)

HookFor(p) == IF Contains(m_trace, p) THEN p ELSE NoView

\* m_trace.mutate, the first time.
AddFirst(th) ==
    LET p == dpath[th] IN
    /\ dpc[th] = "add1"
    /\ m_trace' = Incremented(p)
    /\ Owe(th, "trace", PushDiff(m_trace, p))
    /\ hook' = [hook EXCEPT ![th] = HookFor(p)]
    /\ dpc' = [dpc EXCEPT ![th] = IF HookFor(p) = NoView THEN "add2" ELSE "idle"]
    /\ UNCHANGED <<statVars, dpath, fateVars>>

\* m_trace.mutate once more, because there was no view.
AddSecond(th) ==
    LET p == dpath[th] IN
    /\ dpc[th] = "add2"
    /\ m_trace' = Incremented(p)
    /\ Owe(th, "trace", PushDiff(m_trace, p))
    /\ hook' = [hook EXCEPT ![th] = HookFor(p)]
    /\ dpc' = [dpc EXCEPT ![th] = "stat"]
    /\ UNCHANGED <<statVars, dpath, fateVars>>

\* A view of p dangles once p's key is gone; the empty view has no bytes to lose.
Valid(p) == p = NoView \/ Contains(m_trace, p)

\* Does a view in m_stats that dangles read as p?  It may, unless p is "".
MayReadAs(p) == dangling > 0 /\ p # NoView

\* m_stats.insert(hook, docStat).  A dangling view that reads as the document has its
\* count replaced and goes on dangling, unless its bytes are the document's new key.
AddStat(th) ==
    LET p == hook[th] IN
    /\ dpc[th] = "stat"
    /\ \/ IF Valid(p)
          THEN m_stats' = m_stats \union {p} /\ UNCHANGED dangling
          ELSE dangling' = dangling + 1 /\ UNCHANGED m_stats
       \/ MayReadAs(p) /\ UNCHANGED statVars
       \/ /\ MayReadAs(p) /\ Valid(p)
          /\ m_stats' = m_stats \union {p} /\ dangling' = dangling - 1
    /\ dpc' = [dpc EXCEPT ![th] = "idle"]
    /\ UNCHANGED <<mapVars, m_trace, dpath, hook, fateVars>>

-----------------------------------------------------------------------------
(* eraseOrDecrement                                                         *)

CallErase(th, p) ==
    /\ dpc[th] = "idle"
    /\ dpc' = [dpc EXCEPT ![th] = "dec"]
    /\ dpath' = [dpath EXCEPT ![th] = p]
    /\ UNCHANGED <<mapVars, m_trace, statVars, hook, fateVars>>

\* The callback: erase at 0; a path that is not there is pushed with a count of 0.
Decremented(p) ==
    IF ~Contains(m_trace, p) THEN Inserted(m_trace, p, 0)
    ELSE IF m_trace[p] = 1 THEN Erased(m_trace, p)
    ELSE [m_trace EXCEPT ![p] = Wrap(@ - 1)]

DecrementDiff(p) ==
    IF ~Contains(m_trace, p) THEN 1 ELSE IF m_trace[p] = 1 THEN -1 ELSE 0

\* p's key goes, and its bytes with it: what views of them there are dangle from now on.
KeyGoes(p) == DecrementDiff(p) = -1

\* Is another thread between the two mutates that add p?
HalfAdded(p) == \E th \in Threads : dpc[th] = "add2" /\ dpath[th] = p

EraseDecrement(th) ==
    LET p == dpath[th] IN
    /\ dpc[th] = "dec"
    /\ m_trace' = Decremented(p)
    /\ Owe(th, "trace", DecrementDiff(p))
    /\ IF KeyGoes(p) /\ p # NoView /\ p \in m_stats
       THEN m_stats' = m_stats \ {p} /\ dangling' = dangling + 1
       ELSE UNCHANGED statVars
    /\ freed' = (freed \/ KeyGoes(p))
    /\ lost' = IF KeyGoes(p) /\ HalfAdded(p) THEN lost \union {p} ELSE lost
    /\ dpc' = [dpc EXCEPT ![th] = "check"]
    /\ UNCHANGED <<dpath, hook>>

\* Slip: the statistics go with the first entry of the document that goes.
NeverTraced(p) == FALSE
StillTraced(p) == Contains(m_trace, p)

\* m_trace.contains(path)
EraseCheck(th) ==
    /\ dpc[th] = "check"
    /\ dpc' = [dpc EXCEPT ![th] = IF StillTraced(dpath[th]) THEN "idle" ELSE "unstat"]
    /\ UNCHANGED <<mapVars, m_trace, statVars, dpath, hook, fateVars>>

\* m_stats.erase(path) compares path with the views: it finds one that is valid if another
\* thread has added the document meanwhile, or one that dangles, or nothing.
EraseStat(th) ==
    LET p == dpath[th] IN
    /\ dpc[th] = "unstat"
    /\ \/ m_stats' = m_stats \ {p} /\ UNCHANGED dangling
       \/ MayReadAs(p) /\ dangling' = dangling - 1 /\ UNCHANGED m_stats
    /\ dpc' = [dpc EXCEPT ![th] = "idle"]
    /\ UNCHANGED <<mapVars, m_trace, dpath, hook, fateVars>>

\* A mutate has settled its m_size before the thread goes on.
DocStep(th) ==
    /\ ~Owes(th)
    /\ \/ AddFirst(th) \/ AddSecond(th) \/ AddStat(th)
       \/ EraseDecrement(th) \/ EraseCheck(th) \/ EraseStat(th)

DocQuiet == \A th \in Threads : dpc[th] = "idle" /\ ~Owes(th)
=============================================================================
