---------------------------- MODULE WorkflowStores ----------------------------
(***************************************************************************)
(* The stores of src/app/automation that keep one JSON document each: an   *)
(* operation reads the document, changes it, writes it to a second file    *)
(* and renames that one.  The store in memory that has the same interface  *)
(* is what it must look like after every crash.                            *)
(*                                                                         *)
(* A dictionary is the sequence of its keys and values in their order.     *)
(***************************************************************************)
EXTENDS Integers, Sequences, SequencesExt, FiniteSets, FiniteSetsExt

CONSTANTS
    Ids,       \* of workflows, runs or schedules
    Versions,  \* of a workflow, by their version key
    MaxSaves   \* bound: operations that write

VARIABLES
    kind,     \* which of the four stores this is
    file,     \* the document; "torn" where a write may have ended early
    tmp,      \* the temporary file: "none", "torn" or a document
    pending,  \* the operation under way, or none
    memory,   \* the store in memory after the operations that have returned
    writes    \* history: operations that have written

vars == <<kind, file, tmp, pending, memory, writes>>

None == <<>>
Statuses == {"draft", "published"}
RunStatuses == {"running", "waiting_approval", "succeeded"}
Resumable == {"running", "waiting_approval"}

-----------------------------------------------------------------------------
(* Dictionaries. *)
At(d, key) == SelectInSeq(d, LAMBDA e : e.key = key)
Has(d, key) == At(d, key) # 0
Value(d, key) == d[At(d, key)].value
Put(d, key, value) ==
    IF Has(d, key) THEN [d EXCEPT ![At(d, key)].value = value]
    ELSE Append(d, [key |-> key, value |-> value])
Drop(d, key) == SelectSeq(d, LAMBDA e : e.key # key)
Values(d) == {d[i].value : i \in DOMAIN d}

-----------------------------------------------------------------------------
(* Reading.  The first version that is published, or the highest.            *)
DefinitionOf(d, w) ==
    IF ~Has(d, w) \/ Value(d, w) = <<>> THEN None
    ELSE LET versions == Value(d, w)
             published == SelectSeq(versions, LAMBDA e : e.value = "published")
         IN  IF published # <<>> THEN <<published[1].key>>
             ELSE <<Max({versions[i].key : i \in DOMAIN versions})>>

(* A document says of a workflow without versions that it has none. *)
FileHas(w) == Has(file, w) /\ Value(file, w) # <<>>
MemoryHas(w) == Has(memory, w)

(* The run of a key that was created last, and of those the highest id. *)
FoundRun(d, idempotency) ==
    LET matches == {i \in DOMAIN d : d[i].value.idempotency = idempotency}
    IN  IF matches = {} THEN None
        ELSE <<CHOOSE i \in matches : \A j \in matches :
                  \/ d[i].value.created > d[j].value.created
                  \/ d[i].value.created = d[j].value.created /\ d[i].key >= d[j].key>>

ResumableRuns(d) == SelectSeq(d, LAMBDA e : e.value.status \in Resumable)

(* Newest first; the sort is stable. *)
RunsListed(d) ==
    LET place == [i \in DOMAIN d |-> [run |-> d[i], at |-> i]]
    IN  SortSeq(place, LAMBDA x, y :
            \/ x.run.value.created > y.run.value.created
            \/ x.run.value.created = y.run.value.created /\ x.at < y.at)

(* A document holds the events of each run, memory all in one list. *)
FileEvents(run) == IF Has(file, run) THEN Value(file, run) ELSE <<>>
MemoryEvents(run) == SelectSeq(memory, LAMBDA e : e.run = run)
FileListed == FoldLeft(LAMBDA all, e : all \o e.value, <<>>, file)

-----------------------------------------------------------------------------
(* Writing: what an operation makes of the document and of the store in      *)
(* memory.  It is not done when there is nothing to delete.                  *)
SaveDefinition(w, v, status) ==
    LET Saved(d) == Put(d, w, Put(IF Has(d, w) THEN Value(d, w) ELSE <<>>, v, status))
    IN  [file |-> Saved(file), memory |-> Saved(memory)]

DeleteVersion(w, v) ==
    LET Deleted(d) == Put(d, w, Drop(Value(d, w), v))
    IN  [file |-> Deleted(file), memory |-> Deleted(memory)]

SaveItem(id, item) == [file |-> Put(file, id, item), memory |-> Put(memory, id, item)]
DeleteItem(id) == [file |-> Drop(file, id), memory |-> Drop(memory, id)]

AppendEvent(run) ==
    LET event == [run |-> run, number |-> writes]
    IN  [file |-> Put(file, run, Append(FileEvents(run), event)), memory |-> Append(memory, event)]

DeleteEvents(run) ==
    [file |-> Drop(file, run), memory |-> SelectSeq(memory, LAMBDA e : e.run # run)]

(* The version is checked only in a workflow that has some. *)
Operations ==
    CASE kind = "definitions" ->
            {SaveDefinition(w, v, s) : w \in Ids, v \in Versions, s \in Statuses}
              \cup {DeleteItem(w) : w \in {u \in Ids : FileHas(u)}}
              \cup UNION {{DeleteVersion(w, v) : v \in {u \in Versions : Has(Value(file, w), u)}} :
                          w \in {u \in Ids : FileHas(u)}}
      [] kind = "runs" ->
            {SaveItem(id, IF Has(file, id) THEN [Value(file, id) EXCEPT !.status = s]
                          ELSE [status |-> s, idempotency |-> "k", created |-> writes \div 2]) :
                id \in Ids, s \in RunStatuses}
              \cup {DeleteItem(id) : id \in {u \in Ids : Has(file, u)}}
      [] kind = "schedules" ->
            {SaveItem(id, [enabled |-> e]) : id \in Ids, e \in BOOLEAN}
              \cup {DeleteItem(id) : id \in {u \in Ids : Has(file, u)}}
      [] kind = "events" ->
            {AppendEvent(r) : r \in Ids} \cup {DeleteEvents(r) : r \in {u \in Ids : Has(file, u)}}

Init ==
    /\ kind \in {"definitions", "runs", "schedules", "events"}
    /\ file = <<>> /\ tmp = "none" /\ pending = None /\ memory = <<>> /\ writes = 0

(* The lock is held from reading to renaming; opening the temporary file     *)
(* empties it.                                                               *)
Begin ==
    /\ pending = None /\ writes < MaxSaves
    /\ \E op \in Operations : pending' = <<op>>
    /\ tmp' = "torn"
    /\ UNCHANGED <<kind, file, memory, writes>>

Dump ==
    /\ pending # None /\ tmp = "torn"
    /\ tmp' = "written"
    /\ UNCHANGED <<kind, file, pending, memory, writes>>

(* Something in the document is no JSON: the operation raises. *)
DumpRaises ==
    /\ pending # None /\ tmp = "torn"
    /\ pending' = None
    /\ UNCHANGED <<kind, file, tmp, memory, writes>>

Replace ==
    /\ pending # None /\ tmp = "written"
    /\ file' = pending[1].file /\ memory' = pending[1].memory
    /\ tmp' = "none" /\ pending' = None /\ writes' = writes + 1
    /\ UNCHANGED kind

Crash ==
    /\ pending # None
    /\ pending' = None
    /\ UNCHANGED <<kind, file, tmp, memory, writes>>

Next == Begin \/ Dump \/ DumpRaises \/ Replace \/ Crash

Spec == Init /\ [][Next]_vars

-----------------------------------------------------------------------------
(* FileKept: whatever crashes or raises, the file holds what the operations  *)
(* that returned have made, as the store in memory would hold it: the same   *)
(* definitions, runs and schedules in one order.                             *)
FileKept == kind # "events" => file = memory

(* LookupsSound: of each run the file holds the same events in one order;    *)
(* and what is looked up is what the interface promises: a published version *)
(* or else the newest, the last run of an idempotency key, all runs that     *)
(* wait or run and none that has ended.                                      *)
LookupsSound ==
    /\ kind = "definitions" =>
         \A w \in Ids :
            /\ FileHas(w) => MemoryHas(w)
            /\ DefinitionOf(file, w) # None =>
                 LET versions == Value(file, w)
                     found == versions[At(versions, DefinitionOf(file, w)[1])]
                 IN  \A i \in DOMAIN versions :
                        \/ found.value = "published"
                        \/ versions[i].value = "draft" /\ versions[i].key <= found.key
    /\ kind = "runs" =>
         /\ \A i \in DOMAIN file :
              /\ FoundRun(file, "k") # None
              /\ file[FoundRun(file, "k")[1]].value.created >= file[i].value.created
              /\ file[i].value.status # "succeeded"
                   <=> \E j \in DOMAIN ResumableRuns(file) : ResumableRuns(file)[j] = file[i]
         /\ file # <<>> => RunsListed(file)[1].run.value.created =
                             file[FoundRun(file, "k")[1]].value.created
    /\ kind = "events" =>
         /\ \A r \in Ids : FileEvents(r) = MemoryEvents(r)
         /\ ToSet(FileListed) = ToSet(memory) /\ Len(FileListed) = Len(memory)
=============================================================================
