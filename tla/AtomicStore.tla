---------------------------- MODULE AtomicStore -----------------------------
(***************************************************************************)
(* What a JSON store of the control plane promises its callers.  The file  *)
(* holds one table; a call changes it in one step or not at all, and a     *)
(* crash is no step.  That promise is for calls that follow one another.   *)
(* While calls overlap the stores promise less: what one of them saves is  *)
(* an update of some earlier table, so that others' updates may be lost;   *)
(* and where all write through one temporary name, the file may be left    *)
(* unparsable.                                                             *)
(***************************************************************************)
CONSTANTS
    Clients,            \* the processes that call the store
    StoreKinds,         \* the stores, and of a store k:
    EmptyTable(_),      \* ... what a missing file is read as
    Loaded(_, _),       \* ... the table that its load makes of a content
    OpsOf(_, _),        \* ... its calls, for a set of callers
    Update(_, _, _),    \* ... {u} if a call turns table t into u, {} if it saves nothing
    Lenient(_),         \* ... whether it loads a file that does not parse
    SharesTemp(_)       \* ... whether its processes share a temporary name

VARIABLES
    kind,          \* which store it is
    table,         \* {t} if the file holds table t, {} if it does not parse
    past,          \* every table that was ever read from the file
    overlapped     \* calls are, or were until now, in progress together

atomicVars == <<kind, table, past, overlapped>>

AtomicInit ==
    /\ kind \in StoreKinds
    /\ table = {EmptyTable(kind)}
    /\ past = {EmptyTable(kind)}
    /\ overlapped = FALSE

\* The file gets new contents; its table joins the past.
Becomes(content) == table' = content /\ past' = past \cup {Loaded(kind, content)}

\* A call takes effect, on the table as it is.
Takes(op) ==
    /\ table # {} \/ Lenient(kind)
    /\ Update(kind, op, Loaded(kind, table)) # {}
    /\ Becomes(Update(kind, op, Loaded(kind, table)))

\* archive_mission, after its status update, moves the file away.
MovesAway == kind = "missions" /\ Becomes({EmptyTable(kind)})

\* Calls overlap: an update of an earlier table.
TakesLate(op) ==
    /\ overlapped
    /\ \E t \in past : Update(kind, op, t) # {} /\ Becomes(Update(kind, op, t))

\* Calls overlap, and share a temporary file.
Tears == overlapped /\ SharesTemp(kind) /\ Becomes({})

Overlaps == UNCHANGED <<table, past>>

AtomicNext ==
    /\ kind' = kind
    /\ overlapped' \in BOOLEAN
    /\ \/ \E op \in OpsOf(kind, Clients) : Takes(op) \/ TakesLate(op)
       \/ MovesAway \/ Tears \/ Overlaps

AtomicSpec == AtomicInit /\ [][AtomicNext]_atomicVars
=============================================================================
