----------------------------- MODULE JsonStore ------------------------------
(***************************************************************************)
(* The JSON stores as their processes run them: a call loads the file,     *)
(* changes the table in memory, opens a temporary file, writes it, and     *)
(* renames it over the file.  Nothing is locked.  Other processes' calls   *)
(* come in between, and a process may die between any two steps.           *)
(*                                                                         *)
(* A temporary file is an inode under a name.  Opening it truncates the    *)
(* inode of that name, if there is one; a rename takes the inode along, so *)
(* that a process that still has it open then writes into the file itself, *)
(* and after a second rename into an inode without a name.                 *)
(***************************************************************************)
EXTENDS StoreOps, FiniteSets

CONSTANTS
    Clients,        \* processes that call the store
    MaxCalls,       \* bound on calls
    MaxCrashes      \* bound on crashes

ASSUME StoreAssumption == MaxCalls \in Nat /\ MaxCrashes \in Nat

VARIABLES
    kind,           \* which store it is
    file,           \* content of the file: {t}, or {} if it does not parse
    present,        \* names of the temporary files that exist
    temp,           \* content of each temporary file
    at,             \* where each client is in its call
    call,           \* the call of each client
    mem,            \* what it is going to save: {t}
    fd,             \* what its open descriptor refers to
    mixed,          \* clients whose call overlaps, or overlapped, another
    past,           \* every table that was ever read from the file
    calls, deaths   \* counted for the bounds

storeVars == <<kind, file, present, temp, at, call, mem, fd, mixed, past, calls, deaths>>

TempNames == Clients \cup {"shared"}

\* with_name(".<file>.tmp"), or with process id and time.
TempName(c) == IF SharesTemp(kind) THEN "shared" ELSE c

NoCall == [name |-> "none", arg |-> "none", by |-> "none"]

Busy == {c \in Clients : at[c] # "idle"}

JsonStoreInit ==
    /\ kind \in StoreKinds
    /\ file = {EmptyTable(kind)}
    /\ past = {EmptyTable(kind)}
    /\ present = {} /\ temp = [n \in TempNames |-> {}]
    /\ at = [c \in Clients |-> "idle"]
    /\ call = [c \in Clients |-> NoCall]
    /\ mem = [c \in Clients |-> {}]
    /\ fd = [c \in Clients |-> "none"]
    /\ mixed = {} /\ calls = 0 /\ deaths = 0

Publish(content) == file' = content /\ past' = past \cup {Loaded(kind, content)}

\* A method loads the table and changes it.  It goes on only if the file
\* could be loaded and the method saves.
Call(c, op) ==
    /\ at[c] = "idle" /\ op.by = c
    /\ calls < MaxCalls
    /\ file # {} \/ Lenient(kind)
    /\ Update(kind, op, Loaded(kind, file)) # {}
    /\ at' = [at EXCEPT ![c] = "loaded"]
    /\ call' = [call EXCEPT ![c] = op]
    /\ mem' = [mem EXCEPT ![c] = Update(kind, op, Loaded(kind, file))]
    /\ mixed' = IF Busy = {} THEN mixed ELSE mixed \cup Busy \cup {c}
    /\ calls' = calls + 1
    /\ UNCHANGED <<kind, file, present, temp, fd, past, deaths>>

\* A wrong OpenTemp: the file itself is opened for writing.
OpenTempInPlace(c) ==
    /\ at[c] = "loaded"
    /\ at' = [at EXCEPT ![c] = "open"]
    /\ fd' = [fd EXCEPT ![c] = "file"]
    /\ Publish({})
    /\ UNCHANGED <<kind, present, temp, call, mem, mixed, calls, deaths>>

\* tmp.open("w").
OpenTemp(c) ==
    /\ at[c] = "loaded"
    /\ at' = [at EXCEPT ![c] = "open"]
    /\ fd' = [fd EXCEPT ![c] = "temp"]
    /\ present' = present \cup {TempName(c)}
    /\ temp' = [temp EXCEPT ![TempName(c)] = {}]
    /\ UNCHANGED <<kind, file, call, mem, mixed, past, calls, deaths>>

\* What is in an inode after c wrote its table there: another writer of the
\* inode may have left more, or may overwrite what c writes.
Writes(c) == IF c \in mixed /\ SharesTemp(kind) THEN {mem[c], {}} ELSE {mem[c]}

WriteTemp(c) ==
    /\ at[c] = "open"
    /\ at' = [at EXCEPT ![c] = "written"]
    /\ \E content \in Writes(c) :
          \/ fd[c] = "temp" /\ temp' = [temp EXCEPT ![TempName(c)] = content]
                /\ UNCHANGED <<file, past>>
          \/ fd[c] = "file" /\ Publish(content) /\ UNCHANGED temp
          \/ fd[c] = "gone" /\ UNCHANGED <<file, past, temp>>
    /\ fd' = [fd EXCEPT ![c] = "none"]
    /\ UNCHANGED <<kind, present, call, mem, mixed, calls, deaths>>

Finish(c, where) ==
    /\ at' = [at EXCEPT ![c] = where]
    /\ mixed' = IF where = "idle" THEN mixed \ {c} ELSE mixed
    /\ call' = IF where = "idle" THEN [call EXCEPT ![c] = NoCall] ELSE call
    /\ mem' = [mem EXCEPT ![c] = {}]

\* os.replace: whoever has the temporary file open now has the file open,
\* and whoever had the file open has an inode without a name.
Moved(c) ==
    [d \in Clients |->
        CASE fd[d] = "temp" /\ TempName(d) = TempName(c) -> "file"
          [] fd[d] = "file" -> "gone"
          [] OTHER -> fd[d]]

Replace(c) ==
    /\ at[c] = "written" /\ TempName(c) \in present
    /\ Publish(temp[TempName(c)])
    /\ present' = present \ {TempName(c)}
    /\ temp' = [temp EXCEPT ![TempName(c)] = {}]
    /\ fd' = Moved(c)
    /\ Finish(c, IF call[c].name = "archive_mission" THEN "archiving" ELSE "idle")
    /\ UNCHANGED <<kind, calls, deaths>>

\* The temporary file is gone: os.replace raises.
ReplaceFails(c) ==
    /\ at[c] = "written" /\ TempName(c) \notin present
    /\ Finish(c, "idle")
    /\ UNCHANGED <<kind, file, present, temp, fd, past, calls, deaths>>

\* archive_mission moves the file into the archive, or raises if it is gone.
\* (No descriptor refers to a mission's file: its temporary names are unique.)
MoveAway(c) ==
    /\ at[c] = "archiving"
    /\ Publish({EmptyTable(kind)})
    /\ Finish(c, "idle")
    /\ UNCHANGED <<kind, present, temp, fd, calls, deaths>>

\* The process dies; a write in progress may be left in the middle.
Crash(c) ==
    /\ at[c] # "idle" /\ deaths < MaxCrashes
    /\ \/ UNCHANGED <<file, past, temp>>
       \/ fd[c] = "temp" /\ temp' = [temp EXCEPT ![TempName(c)] = {}] /\ UNCHANGED <<file, past>>
       \/ fd[c] = "file" /\ Publish({}) /\ UNCHANGED temp
    /\ fd' = [fd EXCEPT ![c] = "none"]
    /\ Finish(c, "idle")
    /\ deaths' = deaths + 1
    /\ UNCHANGED <<kind, present, calls>>

StoreStep(c) ==
    \/ \E op \in OpsOf(kind, Clients) : Call(c, op)
    \/ OpenTemp(c) \/ WriteTemp(c) \/ Replace(c) \/ ReplaceFails(c) \/ MoveAway(c)

JsonStoreNext == \E c \in Clients : StoreStep(c) \/ Crash(c)

JsonStoreSpec == JsonStoreInit /\ [][JsonStoreNext]_storeVars

-----------------------------------------------------------------------------
\* Types; a store whose temporary names are unique always parses.
JsonStoreTypeOK ==
    /\ kind \in StoreKinds
    /\ Cardinality(file) <= 1
    /\ present \subseteq TempNames
    /\ \A n \in TempNames : Cardinality(temp[n]) <= 1
    /\ at \in [Clients -> {"idle", "loaded", "open", "written", "archiving"}]
    /\ \A c \in Clients : Cardinality(mem[c]) <= 1
    /\ fd \in [Clients -> {"none", "temp", "file", "gone"}]
    /\ mixed \subseteq Busy
    /\ calls \in 0 .. MaxCalls /\ deaths \in 0 .. MaxCrashes
    /\ ~SharesTemp(kind) => file # {}

Atomic == INSTANCE AtomicStore WITH table <- file, overlapped <- (mixed # {})

(* Without locks, but through a temporary file and a rename, calls that do *)
(* not overlap are atomic, whichever process dies in between: every change *)
(* of the file is the whole effect of one call on the table before it.     *)
(* Calls that do overlap never do worse than AtomicStore says.             *)
StoreIsAtomic == Atomic!AtomicSpec
=============================================================================
