------------------------- MODULE ControlPlane_Proofs -------------------------
(***************************************************************************)
(* The control plane.  First part by part: the JSON stores implement       *)
(* AtomicStore; a mission's task gets the legacy slot at most once; an     *)
(* approval holds for the packet that was reviewed and for nothing else;   *)
(* and a drift report made from current reports accuses none of them.      *)
(* Then what each part's generators write passes the contract they check   *)
(* before they write.  At the end, these four and the chain from findings  *)
(* to dossiers (WorkChain_Proofs) side by side.                            *)
(***************************************************************************)
EXTENDS MCControlPlane, WorkChain_Proofs

(***************************************************************************)
(* The JSON stores, for any number of processes, calls and crashes.  A     *)
(* call that overlaps no other has been alone since it loaded the file, so *)
(* that the file is still what it loaded and its temporary file holds what *)
(* it wrote; and whatever a call that does overlap may publish was         *)
(* computed from some earlier table.                                       *)
(***************************************************************************)

\* Content x is what some call makes of one of the tables in p.
SavedFrom(k, p, x) ==
    /\ x # {}
    /\ \E op \in OpsOf(k, Clients) : \E t \in p : x = Update(k, op, t)

\* Content x is what some call makes of the file as it is.
Fresh(k, content, x) ==
    /\ x # {}
    /\ content # {} \/ Lenient(k)
    /\ \E op \in OpsOf(k, Clients) : x = Update(k, op, Loaded(k, content))

Saving == {"loaded", "open", "written"}

Shapes ==
    /\ kind \in StoreKinds
    /\ at \in [Clients -> Saving \cup {"idle", "archiving"}]
    /\ fd \in [Clients -> {"none", "temp", "file", "gone"}]
    /\ mem = [c \in Clients |-> mem[c]]
    /\ call = [c \in Clients |-> call[c]]
    /\ temp = [n \in TempNames |-> temp[n]]
    /\ mixed \subseteq Busy
    /\ Loaded(kind, file) \in past

\* A call that overlaps no other is alone.
Alone == \A c \in Busy : c \notin mixed => Busy = {c}

\* ... and what it is going to save is an update of the file as it is.
AloneIsFresh == \A c \in Clients : at[c] \in Saving /\ c \notin mixed => Fresh(kind, file, mem[c])

\* What a call is going to save is an update of some earlier table.
MemIsSaved == \A c \in Clients : at[c] \in Saving => SavedFrom(kind, past, mem[c])

\* A temporary file is torn or holds such an update.
TempIsSaved == \A n \in TempNames : temp[n] = {} \/ SavedFrom(kind, past, temp[n])

Descriptors == \A c \in Clients : at[c] # "open" => fd[c] = "none"

\* A call that is alone, or whose temporary name is its own, has its own
\* temporary file.
OwnTemp ==
    \A c \in Clients : c \notin mixed \/ ~SharesTemp(kind) =>
        /\ at[c] = "open" => fd[c] = "temp" /\ TempName(c) \in present
        /\ at[c] = "written" => TempName(c) \in present /\ temp[TempName(c)] = mem[c]

Archiving ==
    \A c \in Clients :
        /\ at[c] = "archiving" => kind = "missions"
        /\ at[c] \in Saving => call[c] \in OpsOf(kind, Clients)

\* Where every process has a temporary name of its own, the file parses.
Parses == ~SharesTemp(kind) => file # {}

StoreInv ==
    /\ Shapes /\ Alone /\ AloneIsFresh /\ MemIsSaved /\ TempIsSaved /\ Descriptors /\ OwnTemp
    /\ Archiving /\ Parses

-----------------------------------------------------------------------------
\* Only a mission is archived.
LEMMA OnlyMissionsArchive ==
    ASSUME NEW k \in StoreKinds, NEW op \in OpsOf(k, Clients), op.name = "archive_mission"
    PROVE  k = "missions"
BY DEF OpsOf, Methods, Pairs, StoreKinds

\* What was an update of an earlier table remains one.
LEMMA SavedGrows ==
    ASSUME NEW k, NEW p, NEW q, p \subseteq q, NEW x, SavedFrom(k, p, x)
    PROVE  SavedFrom(k, q, x)
BY DEF SavedFrom

\* An update of the file as it is is an update of an earlier table.
LEMMA FreshIsSaved ==
    ASSUME NEW k, NEW content, NEW p, Loaded(k, content) \in p, NEW x, Fresh(k, content, x)
    PROVE  SavedFrom(k, p, x)
BY DEF Fresh, SavedFrom

\* A store's process starts with nothing loaded and no temporary file.
LEMMA InitEstablishes == JsonStoreInit => StoreInv
BY DEF JsonStoreInit, StoreInv, Shapes, Alone, AloneIsFresh, MemIsSaved, TempIsSaved, Descriptors,
       OwnTemp, Archiving, Parses, Saving, Busy, Loaded

\* A call enters: if it finds others, all of them overlap.
LEMMA CallKeeps ==
    ASSUME StoreInv, NEW c \in Clients, NEW op \in OpsOf(kind, Clients), Call(c, op)
    PROVE  StoreInv'
<1>1. Shapes'
  BY DEF StoreInv, Shapes, Call, Busy, Saving
<1>2. Alone'
  BY DEF StoreInv, Shapes, Alone, Call, Busy, Saving
<1>3. Fresh(kind, file, mem'[c])
  BY DEF StoreInv, Shapes, Call, Fresh
<1>4. AloneIsFresh' /\ MemIsSaved'
  BY <1>3, FreshIsSaved DEF StoreInv, Shapes, AloneIsFresh, MemIsSaved, Call, Busy, Saving
<1>5. TempIsSaved' /\ Descriptors' /\ Parses'
  BY DEF StoreInv, Shapes, TempIsSaved, Descriptors, Parses, Call
<1>6. OwnTemp' /\ Archiving'
  BY DEF StoreInv, Shapes, OwnTemp, Archiving, Call, TempName, Saving
<1> QED
  BY <1>1, <1>2, <1>4, <1>5, <1>6 DEF StoreInv

\* Opening the temporary file truncates it, unless the name is another's.
LEMMA OpenTempKeeps ==
    ASSUME StoreInv, NEW c \in Clients, OpenTemp(c)
    PROVE  StoreInv'
<1>1. Shapes' /\ Alone'
  BY DEF StoreInv, Shapes, Alone, OpenTemp, Busy, Saving
<1>2. AloneIsFresh' /\ MemIsSaved' /\ Parses'
  BY DEF StoreInv, Shapes, AloneIsFresh, MemIsSaved, Parses, OpenTemp, Saving
<1>3. TempIsSaved' /\ Descriptors' /\ Archiving'
  BY DEF StoreInv, Shapes, TempIsSaved, Descriptors, Archiving, OpenTemp, Saving
<1>4. OwnTemp'
  BY DEF StoreInv, Shapes, Alone, OwnTemp, OpenTemp, TempName, TempNames, Busy, Saving
<1> QED
  BY <1>1, <1>2, <1>3, <1>4 DEF StoreInv

\* Writing into the temporary file fills what the descriptor points to.
LEMMA WriteTempKeeps ==
    ASSUME StoreInv, NEW c \in Clients, WriteTemp(c)
    PROVE  StoreInv'
<1> PICK content \in Writes(c) :
        \/ fd[c] = "temp" /\ temp' = [temp EXCEPT ![TempName(c)] = content] /\ UNCHANGED <<file, past>>
        \/ fd[c] = "file" /\ Publish(content) /\ UNCHANGED temp
        \/ fd[c] = "gone" /\ UNCHANGED <<file, past, temp>>
  BY DEF WriteTemp
<1>1. content = {} \/ SavedFrom(kind, past, content)
  BY DEF StoreInv, MemIsSaved, WriteTemp, Writes, Saving
<1>2. /\ past \subseteq past' /\ kind' = kind /\ Loaded(kind, file') \in past'
  BY DEF StoreInv, Shapes, WriteTemp, Publish
<1>3. c \notin mixed \/ ~SharesTemp(kind) => file' = file /\ past' = past /\ content = mem[c]
  BY DEF StoreInv, OwnTemp, WriteTemp, Writes
<1>4. Shapes' /\ Alone' /\ Parses'
  BY <1>2, <1>3 DEF StoreInv, Shapes, Alone, Parses, WriteTemp, Busy, Saving
<1>5. AloneIsFresh'
  <2> SUFFICES ASSUME NEW d \in Clients, at'[d] \in Saving, d \notin mixed'
               PROVE  Fresh(kind, file, mem[d]) /\ file' = file
    BY <1>2 DEF AloneIsFresh, WriteTemp
  <2>1. at[d] \in Saving /\ d \notin mixed /\ d \in Busy /\ c \in Busy
    BY DEF StoreInv, Shapes, WriteTemp, Saving, Busy
  <2>2. d = c
    BY <2>1 DEF StoreInv, Alone
  <2> QED
    BY <2>1, <2>2, <1>3 DEF StoreInv, AloneIsFresh
<1>6. MemIsSaved' /\ TempIsSaved'
  BY <1>1, <1>2, SavedGrows DEF StoreInv, Shapes, MemIsSaved, TempIsSaved, WriteTemp, Saving
<1>7. Descriptors' /\ Archiving'
  BY DEF StoreInv, Shapes, Descriptors, Archiving, WriteTemp, Saving
<1>8. OwnTemp'
  <2> SUFFICES ASSUME NEW d \in Clients, d \notin mixed \/ ~SharesTemp(kind)
               PROVE  /\ at'[d] = "open" => fd'[d] = "temp" /\ TempName(d) \in present
                      /\ at'[d] = "written" => TempName(d) \in present /\ temp'[TempName(d)] = mem[d]
    BY DEF OwnTemp, WriteTemp, TempName
  <2>1. CASE d = c
    BY <2>1, <1>3 DEF StoreInv, Shapes, OwnTemp, WriteTemp, TempName, TempNames
  <2>2. CASE d # c /\ at[d] \in Saving
    <3>1. c \in mixed /\ d \in Busy
      BY <2>2 DEF StoreInv, Shapes, Alone, WriteTemp, Busy, Saving
    <3>2. ~SharesTemp(kind)
      BY <3>1, <2>2 DEF StoreInv, Alone, WriteTemp, Busy
    <3> QED
      BY <3>2, <2>2 DEF StoreInv, Shapes, OwnTemp, WriteTemp, TempName, TempNames
  <2>3. CASE d # c /\ at[d] \notin Saving
    BY <2>3 DEF StoreInv, Shapes, WriteTemp, Saving
  <2> QED
    BY <2>1, <2>2, <2>3
<1> QED
  BY <1>4, <1>5, <1>6, <1>7, <1>8 DEF StoreInv

\* A call that is alone, and one with a temporary name of its own, publishes
\* what it computed.
LEMMA ReplaceKeeps ==
    ASSUME StoreInv, NEW c \in Clients, Replace(c)
    PROVE  StoreInv'
<1>1. /\ past \subseteq past' /\ kind' = kind /\ Loaded(kind, file') \in past'
      /\ c \in Busy /\ mixed' \subseteq mixed
  BY DEF StoreInv, Shapes, Replace, Publish, Finish, Busy
<1>2. at'[c] \in {"idle", "archiving"} /\ \A d \in Clients : d # c => at'[d] = at[d] /\ mem'[d] = mem[d]
  BY DEF StoreInv, Shapes, Replace, Finish
<1>3. c \notin mixed => \A d \in Clients : d # c => at[d] = "idle"
  BY <1>1 DEF StoreInv, Alone, Busy
<1>4. Busy' \subseteq Busy /\ \A d \in Clients : d # c => (d \in mixed' <=> d \in mixed)
  BY <1>2 DEF StoreInv, Shapes, Replace, Finish, Busy
<1>5. Shapes'
  BY <1>1, <1>2 DEF StoreInv, Shapes, Replace, Finish, Moved, Busy, Saving, TempNames, TempName
<1>6. Alone'
  <2> SUFFICES ASSUME NEW d \in Busy', d \notin mixed' PROVE Busy' = {d}
    BY DEF Alone
  <2>1. CASE d = c
    <3>1. c \notin mixed
      BY <2>1 DEF Replace, Finish, Busy, StoreInv, Shapes
    <3> QED
      BY <3>1, <1>3, <1>2, <2>1 DEF Busy
  <2>2. CASE d # c
    <3>1. d \in Busy /\ d \notin mixed
      BY <2>2, <1>4 DEF Busy
    <3> QED
      BY <3>1, <2>2, <1>1 DEF StoreInv, Alone
  <2> QED
    BY <2>1, <2>2
<1>7. AloneIsFresh'
  <2> SUFFICES ASSUME NEW d \in Clients, at'[d] \in Saving, d \notin mixed' PROVE FALSE
    BY DEF AloneIsFresh
  <2>1. d # c /\ at[d] \in Saving /\ d \notin mixed /\ d \in Busy
    BY <1>2, <1>4 DEF Saving, Busy
  <2> QED
    BY <2>1, <1>1 DEF StoreInv, Alone
<1>8. MemIsSaved' /\ TempIsSaved'
  BY <1>1, <1>2, SavedGrows DEF StoreInv, Shapes, MemIsSaved, TempIsSaved, Replace, Saving
<1>9. Descriptors'
  BY <1>2 DEF StoreInv, Shapes, Descriptors, Replace, Moved
<1>10. OwnTemp'
  <2> SUFFICES ASSUME NEW d \in Clients, d \notin mixed' \/ ~SharesTemp(kind), at'[d] \in Saving
               PROVE  /\ at'[d] = "open" => fd'[d] = "temp" /\ TempName(d) \in present'
                      /\ at'[d] = "written" => TempName(d) \in present' /\ temp'[TempName(d)] = mem[d]
    BY <1>1, <1>2 DEF OwnTemp, TempName, Saving
  <2>1. d # c /\ at[d] = at'[d] /\ d \in Busy
    BY <1>2 DEF Saving, Busy
  <2>2. d \in mixed
    BY <2>1, <1>1 DEF StoreInv, Alone
  <2>3. ~SharesTemp(kind)
    BY <2>1, <2>2, <1>4
  <2> QED
    BY <2>1, <2>3 DEF StoreInv, Shapes, OwnTemp, Replace, Moved, TempName, TempNames, Saving
<1>11. Archiving'
  BY <1>1, <1>2, OnlyMissionsArchive DEF StoreInv, Shapes, Archiving, Replace, Finish, Saving
<1>12. Parses'
  BY <1>1 DEF StoreInv, OwnTemp, MemIsSaved, SavedFrom, Parses, Replace, Publish, Saving
<1> QED
  BY <1>5, <1>6, <1>7, <1>8, <1>9, <1>10, <1>11, <1>12 DEF StoreInv

\* The steps that end a call without its rename.
LEMMA EndKeeps ==
    ASSUME StoreInv, NEW c \in Clients, ReplaceFails(c) \/ MoveAway(c) \/ Crash(c)
    PROVE  StoreInv'
<1>1. /\ past \subseteq past' /\ kind' = kind /\ Loaded(kind, file') \in past'
      /\ c \in Busy /\ mixed' = mixed \ {c} /\ present' = present
  BY DEF StoreInv, Shapes, ReplaceFails, MoveAway, Crash, Publish, Finish, Busy
<1>2. at'[c] = "idle" /\ \A d \in Clients : d # c =>
          at'[d] = at[d] /\ mem'[d] = mem[d] /\ fd'[d] = fd[d] /\ call'[d] = call[d]
  BY DEF StoreInv, Shapes, ReplaceFails, MoveAway, Crash, Finish
<1>3. Busy' = Busy \ {c}
  BY <1>2 DEF Busy
<1>4. Shapes' /\ Alone'
  BY <1>1, <1>2, <1>3 DEF StoreInv, Shapes, Alone, ReplaceFails, MoveAway, Crash, Finish, Saving,
                          TempNames, TempName
<1>5. AloneIsFresh'
  <2> SUFFICES ASSUME NEW d \in Clients, at'[d] \in Saving, d \notin mixed' PROVE FALSE
    BY DEF AloneIsFresh
  <2>1. d # c /\ d \notin mixed /\ d \in Busy
    BY <1>1, <1>2 DEF Saving, Busy
  <2> QED
    BY <2>1, <1>1 DEF StoreInv, Alone
<1>6. MemIsSaved' /\ TempIsSaved'
  BY <1>1, <1>2, SavedGrows
     DEF StoreInv, Shapes, MemIsSaved, TempIsSaved, ReplaceFails, MoveAway, Crash, Saving
<1>7. Descriptors' /\ Archiving'
  BY <1>1, <1>2 DEF StoreInv, Shapes, Descriptors, Archiving, ReplaceFails, MoveAway, Crash, Saving
<1>8. OwnTemp'
  <2> SUFFICES ASSUME NEW d \in Clients, d \notin mixed' \/ ~SharesTemp(kind), at'[d] \in Saving
               PROVE  /\ at'[d] = "open" => fd'[d] = "temp" /\ TempName(d) \in present
                      /\ at'[d] = "written" => TempName(d) \in present /\ temp'[TempName(d)] = mem[d]
    BY <1>1, <1>2 DEF OwnTemp, TempName, Saving
  <2>1. d # c /\ at[d] = at'[d] /\ d \in Busy
    BY <1>2 DEF Saving, Busy
  <2>2. d \in mixed
    BY <2>1, <1>1 DEF StoreInv, Alone
  <2>3. ~SharesTemp(kind)
    BY <2>1, <2>2, <1>1
  <2> QED
    BY <2>1, <2>3, <1>2 DEF StoreInv, Shapes, OwnTemp, ReplaceFails, MoveAway, Crash, TempName,
                            TempNames, Saving
<1>9. Parses'
  BY <1>1 DEF StoreInv, OwnTemp, Parses, Descriptors, ReplaceFails, MoveAway, Crash, Publish
<1> QED
  BY <1>4, <1>5, <1>6, <1>7, <1>8, <1>9 DEF StoreInv

\* Every step of the stores keeps the invariant.
LEMMA StepKeeps ==
    ASSUME StoreInv, [JsonStoreNext]_storeVars
    PROVE  StoreInv'
<1>1. CASE UNCHANGED storeVars
  BY <1>1 DEF storeVars, StoreInv, Shapes, Alone, AloneIsFresh, MemIsSaved, TempIsSaved, Descriptors,
              OwnTemp, Archiving, Parses, Busy, TempName
<1>2. CASE JsonStoreNext
  <2> PICK c \in Clients : StoreStep(c) \/ Crash(c)
    BY <1>2 DEF JsonStoreNext
  <2> QED
    BY CallKeeps, OpenTempKeeps, WriteTempKeeps, ReplaceKeeps, EndKeeps DEF StoreStep
<1> QED
  BY <1>1, <1>2

(* StoreInv, the inductive invariant: who is alone, what a call holds in   *)
(* memory and in its temporary file.                                       *)
THEOREM StoreInvariant == JsonStoreSpec => []StoreInv
BY InitEstablishes, StepKeeps, PTL DEF JsonStoreSpec

(* The stores of missions, memory graph and metrics, whose processes use   *)
(* temporary names of their own, always leave a file that parses, whatever *)
(* overlaps and whoever dies.                                              *)
THEOREM OwnTempParses == JsonStoreSpec => []Parses
<1>1. StoreInv => Parses
  BY DEF StoreInv
<1> QED
  BY <1>1, StoreInvariant, PTL

-----------------------------------------------------------------------------
\* Every step of the store is a step of AtomicStore.
LEMMA StepSimulates ==
    ASSUME StoreInv, [JsonStoreNext]_storeVars
    PROVE  [Atomic!AtomicNext]_(Atomic!atomicVars)
<1>1. CASE UNCHANGED storeVars
  BY <1>1 DEF storeVars, Atomic!atomicVars
<1>2. CASE JsonStoreNext
  <2> PICK c \in Clients : StoreStep(c) \/ Crash(c)
    BY <1>2 DEF JsonStoreNext
  <2>1. kind' = kind /\ (mixed' # {}) \in BOOLEAN
    BY DEF StoreStep, Call, OpenTemp, WriteTemp, Replace, ReplaceFails, MoveAway, Crash
  <2>2. CASE UNCHANGED <<file, past>>
    BY <2>1, <2>2 DEF Atomic!AtomicNext, Atomic!Overlaps
  <2>3. ASSUME c \in mixed, NEW content, Publish(content), SavedFrom(kind, past, content)
        PROVE  Atomic!AtomicNext
    <3> PICK op \in OpsOf(kind, Clients), t \in past : content = Update(kind, op, t)
      BY <2>3 DEF SavedFrom
    <3>1. Atomic!TakesLate(op)
      BY <2>3 DEF Atomic!TakesLate, Atomic!Becomes, Publish, SavedFrom
    <3> QED
      BY <3>1, <2>1 DEF Atomic!AtomicNext
  <2>4. ASSUME c \in mixed, SharesTemp(kind), Publish({})
        PROVE  Atomic!AtomicNext
    BY <2>1, <2>4 DEF Atomic!AtomicNext, Atomic!Tears, Atomic!Becomes, Publish
  <2>5. ASSUME NEW content, Publish(content), Fresh(kind, file, content)
        PROVE  Atomic!AtomicNext
    <3> PICK op \in OpsOf(kind, Clients) : content = Update(kind, op, Loaded(kind, file))
      BY <2>5 DEF Fresh
    <3>1. Atomic!Takes(op)
      BY <2>5 DEF Atomic!Takes, Atomic!Becomes, Publish, Fresh
    <3> QED
      BY <3>1, <2>1 DEF Atomic!AtomicNext
  <2>6. CASE (\E op \in OpsOf(kind, Clients) : Call(c, op)) \/ OpenTemp(c) \/ ReplaceFails(c)
    BY <2>6, <2>2 DEF Call, OpenTemp, ReplaceFails
  <2>7. CASE WriteTemp(c)
    <3>1. fd[c] = "file" => c \in mixed /\ SharesTemp(kind)
      BY <2>7 DEF StoreInv, OwnTemp, WriteTemp
    <3>2. SavedFrom(kind, past, mem[c])
      BY <2>7 DEF StoreInv, MemIsSaved, WriteTemp, Saving
    <3>3. CASE UNCHANGED <<file, past>>
      BY <3>3, <2>2
    <3>4. CASE fd[c] = "file" /\ (Publish(mem[c]) \/ Publish({}))
      BY <3>4, <3>1, <3>2, <2>3, <2>4
    <3> QED
      BY <2>7, <3>3, <3>4 DEF WriteTemp, Writes
  <2>8. CASE Replace(c)
    <3> DEFINE content == temp[TempName(c)]
    <3>1. Publish(content) /\ at[c] = "written"
      BY <2>8 DEF Replace
    <3>2. CASE c \notin mixed
      BY <3>1, <3>2, <2>5 DEF StoreInv, OwnTemp, AloneIsFresh, Saving
    <3>3. CASE c \in mixed /\ content = {}
      BY <3>1, <3>3, <2>4 DEF StoreInv, OwnTemp, MemIsSaved, SavedFrom, Saving
    <3>4. CASE c \in mixed /\ content # {}
      <4>1. TempName(c) \in TempNames
        BY DEF TempName, TempNames
      <4> QED
        BY <3>1, <3>4, <2>3, <4>1 DEF StoreInv, TempIsSaved
    <3> QED
      BY <3>2, <3>3, <3>4
  <2>9. CASE MoveAway(c)
    <3>1. kind = "missions"
      BY <2>9 DEF StoreInv, Archiving, MoveAway
    <3> QED
      BY <2>9, <3>1, <2>1 DEF MoveAway, Publish, Atomic!AtomicNext, Atomic!MovesAway, Atomic!Becomes
  <2>10. CASE Crash(c)
    <3>1. fd[c] = "file" => c \in mixed /\ SharesTemp(kind)
      BY DEF StoreInv, OwnTemp, Descriptors
    <3> QED
      BY <2>10, <3>1, <2>2, <2>4 DEF Crash
  <2> QED
    BY <2>6, <2>7, <2>8, <2>9, <2>10 DEF StoreStep
<1> QED
  BY <1>1, <1>2

(* The refinement, for every set of processes and any number of calls and  *)
(* crashes: calls of a store that do not overlap are atomic.               *)
THEOREM StoresAreAtomic == JsonStoreSpec => StoreIsAtomic
<1>1. JsonStoreInit => Atomic!AtomicInit
  BY DEF JsonStoreInit, Atomic!AtomicInit
<1>2. StoreInv /\ [JsonStoreNext]_storeVars => [Atomic!AtomicNext]_(Atomic!atomicVars)
  BY StepSimulates
<1> QED
  BY <1>1, <1>2, StoreInvariant, PTL DEF JsonStoreSpec, StoreIsAtomic, Atomic!AtomicSpec

-----------------------------------------------------------------------------
(***************************************************************************)
(* A mission's task gets the legacy slot at most once, and the mission     *)
(* file does not lie about it, for any number of command lines and deaths. *)
(***************************************************************************)

\* While the engine works the slot is taken and written; a free slot has no
\* payload.
SlotInv ==
    /\ working # "none" => slot = working /\ slotWritten
    /\ slotWritten => slot # "free"

\* Where a command line stands tells how often its task got the slot; the
\* mission file says so only when the command line is done.
ClaimInv(m) ==
    /\ Claims(m) <= 1
    /\ step[m] \in {"start", "created", "offer", "blocked"} => Claims(m) = 0
    /\ step[m] \in {"opened", "enqueued"} => Claims(m) = 1
    /\ mission[m].task = "queued" => Claims(m) = 1 /\ step[m] = "done"
    /\ mission[m].task = "blocked" => Claims(m) = 0 /\ step[m] = "done"

IntakeInv ==
    /\ MissionTypeOK
    /\ SlotInv
    /\ \A m \in Missions : ClaimInv(m)

\* The initial state: nothing is in the slot and no mission file exists.
LEMMA IntakeInit == MissionInit => IntakeInv
<1> SUFFICES ASSUME MissionInit PROVE IntakeInv
  OBVIOUS
<1>1. mission \in [Missions -> [status : {"missing", "planned", "scheduled"},
                                task : {"none", "pending", "queued", "blocked"}]]
  BY DEF MissionInit, NoMission
<1>2. /\ step = [m \in Missions |-> "start"] /\ mission = [m \in Missions |-> NoMission]
      /\ slot = "free" /\ working = "none" /\ unreadable = {}
      /\ taken = [m \in Missions |-> 0] /\ lostProcesses = 0
  BY Zenon DEF MissionInit
<1>3. enqueue \in [Missions -> BOOLEAN] /\ slotWritten \in BOOLEAN /\ ~slotWritten
  BY Zenon DEF MissionInit
<1>4. MissionTypeOK
  BY <1>1, <1>2, <1>3, MissionAssumption DEF MissionTypeOK
<1>5. \A m \in Missions : Claims(m) = 0
  <2> TAKE m \in Missions
  <2>1. taken[m] = 0 /\ m \notin unreadable /\ slot # m
    BY <1>2, MissionAssumption
  <2> QED BY <2>1 DEF Claims
<1>6. \A m \in Missions : ClaimInv(m)
  <2> TAKE m \in Missions
  <2>1. Claims(m) = 0 /\ step[m] = "start" /\ mission[m].task = "none"
    BY <1>2, <1>5 DEF NoMission
  <2> QED BY <2>1 DEF ClaimInv
<1> QED BY <1>2, <1>3, <1>4, <1>6 DEF IntakeInv, SlotInv

\* The steps of a command line other than the offer leave every claim alone.
LEMMA ClaimsKept ==
    ASSUME UNCHANGED <<slot, working, taken, unreadable>>
    PROVE  \A m \in Missions : Claims(m)' = Claims(m)
BY DEF Claims

\* Creating, recording and dying: the claims of every task stay as they are,
\* and the mission file says what the command line saw.
LEMMA FileSteps ==
    ASSUME IntakeInv, NEW m \in Missions,
           CreateMission(m) \/ LogCreation(m) \/ RecordResult(m) \/ Die(m)
    PROVE  IntakeInv'
<1>1. MissionTypeOK'
  <2> USE MissionAssumption DEF IntakeInv, MissionTypeOK
  <2>1. CASE CreateMission(m)
    BY <2>1 DEF CreateMission
  <2>2. CASE LogCreation(m)
    BY <2>2 DEF LogCreation
  <2>3. CASE RecordResult(m)
    BY <2>3 DEF RecordResult
  <2>4. CASE Die(m)
    BY <2>4 DEF Die
  <2> QED BY <2>1, <2>2, <2>3, <2>4
<1>2. SlotInv'
  BY DEF IntakeInv, SlotInv, CreateMission, LogCreation, RecordResult, Die
<1>3. \A n \in Missions : Claims(n)' = Claims(n)
  BY ClaimsKept DEF CreateMission, LogCreation, RecordResult, Die
<1>4. \A n \in Missions : ClaimInv(n)'
  <2>1. CASE CreateMission(m)
    BY <1>3, <2>1 DEF IntakeInv, MissionTypeOK, ClaimInv, CreateMission
  <2>2. CASE LogCreation(m)
    BY <1>3, <2>2 DEF IntakeInv, MissionTypeOK, ClaimInv, LogCreation
  <2>3. CASE RecordResult(m)
    BY <1>3, <2>3 DEF IntakeInv, MissionTypeOK, ClaimInv, RecordResult
  <2>4. CASE Die(m)
    BY <1>3, <2>4 DEF IntakeInv, MissionTypeOK, ClaimInv, Die
  <2> QED BY <2>1, <2>2, <2>3, <2>4
<1> QED BY <1>1, <1>2, <1>4 DEF IntakeInv

\* The offer: only a free slot is taken, and only by a task without a claim.
LEMMA OfferSteps ==
    ASSUME IntakeInv, NEW m \in Missions, EnqueueTask(m) \/ WritePayload(m)
    PROVE  IntakeInv'
<1>1. MissionTypeOK'
  BY MissionAssumption DEF IntakeInv, MissionTypeOK, EnqueueTask, WritePayload
<1>2. SlotInv'
  BY MissionAssumption DEF IntakeInv, MissionTypeOK, SlotInv, EnqueueTask, WritePayload
<1>3. \A n \in Missions : ClaimInv(n)'
  <2>1. CASE WritePayload(m)
    <3>1. \A n \in Missions : Claims(n)' = Claims(n)
      BY <2>1, ClaimsKept DEF WritePayload
    <3> QED BY <2>1, <3>1 DEF IntakeInv, MissionTypeOK, ClaimInv, WritePayload
  <2>2. CASE EnqueueTask(m) /\ slot # "free"
    <3>1. \A n \in Missions : Claims(n)' = Claims(n)
      BY <2>2, ClaimsKept DEF EnqueueTask
    <3> QED BY <2>2, <3>1 DEF IntakeInv, MissionTypeOK, ClaimInv, EnqueueTask
  <2>3. CASE EnqueueTask(m) /\ slot = "free"
    <3>1. working = "none" /\ slot' = m /\ m # "none"
      BY <2>3, MissionAssumption DEF IntakeInv, MissionTypeOK, SlotInv, EnqueueTask
    <3>2. \A n \in Missions : n # m => Claims(n)' = Claims(n)
      BY <2>3, <3>1, MissionAssumption DEF Claims, EnqueueTask
    <3>3. Claims(m) = 0
      BY <2>3 DEF IntakeInv, ClaimInv, EnqueueTask
    <3>4. Claims(m)' = 1
      BY <2>3, <3>1, <3>3, MissionAssumption
         DEF IntakeInv, MissionTypeOK, Claims, EnqueueTask
    <3> QED BY <2>3, <3>2, <3>3, <3>4 DEF IntakeInv, MissionTypeOK, ClaimInv, EnqueueTask
  <2> QED BY <2>1, <2>2, <2>3
<1> QED BY <1>1, <1>2, <1>3 DEF IntakeInv

\* The engine turns a claim into another: in the slot, taken or unreadable.
LEMMA EngineSteps ==
    ASSUME IntakeInv, TakeTask \/ RemoveTask \/ ArchiveUnread
    PROVE  IntakeInv'
<1>1. \A m \in Missions : slot = m /\ working # m => taken[m] = 0 /\ m \notin unreadable
  BY DEF IntakeInv, MissionTypeOK, ClaimInv, Claims
<1>2. \A m \in Missions : Claims(m)' = Claims(m)
  <2>1. CASE TakeTask
    BY <1>1, <2>1, MissionAssumption DEF IntakeInv, MissionTypeOK, Claims, TakeTask
  <2>2. CASE RemoveTask
    BY <2>2, MissionAssumption DEF IntakeInv, MissionTypeOK, SlotInv, Claims, RemoveTask
  <2>3. CASE ArchiveUnread
    BY <1>1, <2>3, MissionAssumption DEF IntakeInv, MissionTypeOK, Claims, ArchiveUnread
  <2> QED BY <2>1, <2>2, <2>3
<1>3. MissionTypeOK'
  <2>1. CASE TakeTask
    <3>1. slot \in Missions /\ taken[slot] = 0
      BY <1>1, <2>1, MissionAssumption DEF IntakeInv, MissionTypeOK, TakeTask
    <3> QED BY <2>1, <3>1 DEF IntakeInv, MissionTypeOK, TakeTask
  <2>2. CASE RemoveTask
    BY <2>2 DEF IntakeInv, MissionTypeOK, RemoveTask
  <2>3. CASE ArchiveUnread
    BY <2>3 DEF IntakeInv, MissionTypeOK, ArchiveUnread
  <2> QED BY <2>1, <2>2, <2>3
<1>4. SlotInv'
  BY MissionAssumption DEF IntakeInv, MissionTypeOK, SlotInv, TakeTask, RemoveTask, ArchiveUnread
<1>5. \A m \in Missions : ClaimInv(m)'
  BY <1>2 DEF IntakeInv, ClaimInv, TakeTask, RemoveTask, ArchiveUnread
<1> QED BY <1>3, <1>4, <1>5 DEF IntakeInv

\* Every step of the command lines and the engine keeps the invariant.
LEMMA IntakeStep == IntakeInv /\ [MissionNext]_missionVars => IntakeInv'
<1>1. IntakeInv /\ UNCHANGED missionVars => IntakeInv'
  BY DEF IntakeInv, MissionTypeOK, SlotInv, ClaimInv, Claims, missionVars
<1>2. IntakeInv /\ MissionNext => IntakeInv'
  BY FileSteps, OfferSteps, EngineSteps DEF MissionNext
<1> QED BY <1>1, <1>2

\* The inductive invariant of the intake: types, the slot's protocol and the
\* claim of every command line, for any missions and any number of deaths.
THEOREM IntakeInvariant == MissionSpec => []IntakeInv
BY IntakeInit, IntakeStep, PTL DEF MissionSpec

\* enqueue_task's exclusive create gives the slot to a mission's task at most
\* once, a task marked queued got it, and one marked blocked never did.
THEOREM TasksQueuedOnce == MissionSpec => []QueuedOnce
<1>1. IntakeInv => QueuedOnce
  BY DEF IntakeInv, SlotInv, ClaimInv, QueuedOnce
<1> QED BY <1>1, IntakeInvariant, PTL

-----------------------------------------------------------------------------
(***************************************************************************)
(* An approval holds for the packet that was reviewed and for nothing      *)
(* else, however often the reports between are generated again.            *)
(***************************************************************************)

\* The current report's packets carry its number, and may be reviewed.
PacketsCurrent ==
    /\ packetReports \in Nat
    /\ \A t \in DOMAIN packets :
          /\ packetReports > 0 /\ packets[t].id = <<packetReports, t>>
          /\ packets[t].status \in Reviewable

IsList(s) == \E S : s \in Seq(S)

\* A recorded decision is valid, is on a packet of this report or an earlier
\* one, and what it says of a current packet was said of what the packet is.
DecisionInv(d) ==
    /\ DecisionValid(d)
    /\ \E n \in 1 .. packetReports : \E t : d.packet = <<n, t>>
    /\ \A t \in DOMAIN packets : d.packet = packets[t].id => d.seen = packets[t]

DecisionsInv ==
    /\ IsList(decisions)
    /\ \A i \in DOMAIN decisions : DecisionInv(decisions[i])

\* The decision report lists recorded decisions only.
ReportInv == \A i \in DOMAIN decided : \E j \in DOMAIN decisions : decided[i] = decisions[j]

FlowInv == PacketsCurrent /\ DecisionsInv /\ ReportInv /\ ApprovedAsReviewed

\* Nothing is planned, reported or decided at first.
LEMMA FlowInit == GovernanceInit => FlowInv
<1> SUFFICES ASSUME GovernanceInit PROVE FlowInv
  OBVIOUS
<1>1. packets = <<>> /\ packetReports = 0 /\ decisions = <<>> /\ decided = <<>> /\ manualQueue = <<>>
  BY DEF GovernanceInit
<1>2. IsList(decisions)
  <2>1. decisions \in Seq({})
    BY <1>1
  <2> QED BY <2>1 DEF IsList
<1> QED BY <1>1, <1>2 DEF FlowInv, PacketsCurrent, DecisionsInv, ReportInv, ApprovedAsReviewed

\* Appending to a list keeps its elements and adds one.
LEMMA AppendKeeps ==
    ASSUME NEW s, IsList(s), NEW e
    PROVE  /\ IsList(Append(s, e))
           /\ \A i \in DOMAIN s : i \in DOMAIN Append(s, e) /\ Append(s, e)[i] = s[i]
           /\ \A i \in DOMAIN Append(s, e) :
                 \/ i \in DOMAIN s /\ Append(s, e)[i] = s[i]
                 \/ Append(s, e)[i] = e
<1>1. PICK S : s \in Seq(S)
  BY DEF IsList
<1>2. s \in Seq(S \cup {e})
  BY <1>1
<1>3. Append(s, e) \in Seq(S \cup {e})
  BY <1>2
<1>4. IsList(Append(s, e))
  BY <1>3 DEF IsList
<1> QED BY <1>2, <1>4

\* Steps that touch neither packets nor decisions nor the queue.
LEMMA OtherReports ==
    ASSUME FlowInv,
           UNCHANGED <<packets, packetReports, decisions, decided, manualQueue>>
    PROVE  FlowInv'
BY DEF FlowInv, PacketsCurrent, DecisionsInv, IsList, DecisionInv, DecisionValid, ReportInv,
       ApprovedAsReviewed

\* A new packet report: its ids are new, so no decision is about it.
LEMMA NewPackets ==
    ASSUME FlowInv, WritePackets
    PROVE  FlowInv'
<1>1. PacketsCurrent'
  BY DEF FlowInv, PacketsCurrent, WritePackets, BuildPacket, PacketId
<1>2. \A d : DecisionInv(d) => DecisionInv(d)'
  <2> SUFFICES ASSUME NEW d, DecisionInv(d) PROVE DecisionInv(d)'
    OBVIOUS
  <2>1. PICK n \in 1 .. packetReports : \E t : d.packet = <<n, t>>
    BY DEF DecisionInv
  <2>2. packetReports \in Nat /\ packetReports' = packetReports + 1
    BY DEF FlowInv, PacketsCurrent, WritePackets
  <2>3. \A t \in DOMAIN packets' : d.packet # packets'[t].id
    BY <1>1, <2>1, <2>2 DEF PacketsCurrent
  <2>4. \E k \in 1 .. packetReports' : \E t : d.packet = <<k, t>>
    BY <2>1, <2>2
  <2> QED BY <2>3, <2>4 DEF DecisionInv, DecisionValid
<1>3. DecisionsInv'
  BY <1>2 DEF FlowInv, DecisionsInv, IsList, WritePackets
<1>4. ReportInv' /\ ApprovedAsReviewed'
  BY DEF FlowInv, ReportInv, ApprovedAsReviewed, WritePackets
<1> QED BY <1>1, <1>3, <1>4 DEF FlowInv

\* A decision is appended, and the report is exported or not.
LEMMA NewDecision ==
    ASSUME FlowInv, NEW t, NEW decision, NEW acks, NEW export \in BOOLEAN,
           RecordDecision(t, decision, acks, export)
    PROVE  FlowInv'
<1> DEFINE d == [packet |-> packets[t].id, decision |-> decision, acks |-> acks, seen |-> packets[t]]
<1>1. t \in DOMAIN packets /\ DecisionValid(d) /\ decisions' = Append(decisions, d)
  BY DEF RecordDecision
<1>2. PacketsCurrent'
  BY DEF FlowInv, PacketsCurrent, RecordDecision
<1>3. packets' = packets /\ packetReports' = packetReports /\ manualQueue' = manualQueue
  BY DEF RecordDecision
<1>4. \A e : DecisionInv(e) => DecisionInv(e)'
  BY <1>3 DEF DecisionInv, DecisionValid
<1>5. packets[t].id = <<packetReports, t>>
  BY <1>1 DEF FlowInv, PacketsCurrent
<1>6. packetReports \in 1 .. packetReports
  BY <1>1 DEF FlowInv, PacketsCurrent
<1>7. DecisionInv(d)
  <2>1. \A u \in DOMAIN packets : d.packet = packets[u].id => d.seen = packets[u]
    BY <1>1, <1>5 DEF FlowInv, PacketsCurrent
  <2>2. \E n \in 1 .. packetReports : \E u : d.packet = <<n, u>>
    BY <1>5, <1>6
  <2> QED BY <1>1, <2>1, <2>2 DEF DecisionInv
<1> HIDE DEF d
<1>8. IsList(decisions)
  BY DEF FlowInv, DecisionsInv
<1>9. /\ IsList(decisions')
      /\ \A i \in DOMAIN decisions : i \in DOMAIN decisions' /\ decisions'[i] = decisions[i]
      /\ \A i \in DOMAIN decisions' :
            (i \in DOMAIN decisions /\ decisions'[i] = decisions[i]) \/ decisions'[i] = d
  BY <1>1, <1>8, AppendKeeps
<1>10. DecisionsInv'
  BY <1>4, <1>7, <1>9 DEF FlowInv, DecisionsInv, IsList
<1>11. ReportInv'
  <2>1. CASE decided' = decisions'
    BY <2>1 DEF ReportInv
  <2>2. CASE decided' = decided
    BY <1>9, <2>2 DEF FlowInv, ReportInv
  <2> QED BY <2>1, <2>2 DEF RecordDecision
<1>12. ApprovedAsReviewed'
  BY <1>3, <1>9 DEF FlowInv, ApprovedAsReviewed
<1> QED BY <1>2, <1>10, <1>11, <1>12 DEF FlowInv

\* The queue joins packets and exported decisions: what it shows as approved
\* was decided on the packet it shows.
LEMMA NewQueue ==
    ASSUME FlowInv, BuildManualQueue
    PROVE  FlowInv'
<1>1. PacketsCurrent' /\ DecisionsInv' /\ ReportInv'
  BY DEF FlowInv, PacketsCurrent, DecisionsInv, IsList, DecisionInv, DecisionValid, ReportInv,
         BuildManualQueue
<1>2. ASSUME NEW t \in DOMAIN packets, QueueItem(packets[t]).status = "approved_manual"
      PROVE  \E i \in DOMAIN decisions :
                /\ decisions[i].decision = "approve_for_manual_execution"
                /\ RequiredAcks \subseteq decisions[i].acks
                /\ decisions[i].seen = packets[t]
  <2>1. DecisionOn(decided, packets[t].id) = "approve_for_manual_execution"
    BY <1>2 DEF QueueItem, QueueStatus
  <2>2. PICK e \in LastOn(decided, packets[t].id) : e.decision = "approve_for_manual_execution"
    BY <2>1 DEF DecisionOn
  <2>3. PICK k \in DOMAIN decided : e = decided[k] /\ e.packet = packets[t].id
    BY <2>2 DEF LastOn
  <2>4. PICK i \in DOMAIN decisions : e = decisions[i]
    BY <2>3 DEF FlowInv, ReportInv
  <2>5. DecisionInv(e)
    BY <2>4 DEF FlowInv, DecisionsInv
  <2> QED BY <2>2, <2>3, <2>4, <2>5 DEF DecisionInv, DecisionValid
<1>3. ASSUME NEW t \in DOMAIN packets
      PROVE  QueueItem(packets[t]).packet = packets[t] /\ packets[t].status \in Reviewable
  BY DEF FlowInv, PacketsCurrent, QueueItem
<1>4. ApprovedAsReviewed'
  <2>1. manualQueue' = [t \in DOMAIN packets |-> QueueItem(packets[t])] /\ decisions' = decisions
    BY DEF BuildManualQueue
  <2> QED BY <1>2, <1>3, <2>1 DEF ApprovedAsReviewed
<1> QED BY <1>1, <1>4 DEF FlowInv

\* The inductive invariant of the flow from packets to the manual queue.
LEMMA FlowStep == FlowInv /\ [GovernanceNext]_governanceVars => FlowInv'
<1>1. FlowInv /\ UNCHANGED governanceVars => FlowInv'
  BY OtherReports DEF governanceVars
<1>2. FlowInv /\ GovernanceNext => FlowInv'
  <2> SUFFICES ASSUME FlowInv, GovernanceNext PROVE FlowInv'
    OBVIOUS
  <2>1. CASE ReassessIndex \/ PlanRecovery \/ WriteDossiers \/ EvaluateReadiness
    BY <2>1, OtherReports DEF ReassessIndex, PlanRecovery, WriteDossiers, EvaluateReadiness
  <2>2. CASE \E t \in Titles, f \in HandFlaws : AmendDossier(t, f)
    BY <2>2, OtherReports DEF AmendDossier
  <2>3. CASE WritePackets
    BY <2>3, NewPackets
  <2>4. CASE \E t \in Titles, decision \in AllowedDecisions, export \in BOOLEAN :
                \E acks \in AcksGiven(decision) : RecordDecision(t, decision, acks, export)
    BY <2>4, NewDecision
  <2>5. CASE ExportDecisions
    BY <2>5 DEF ExportDecisions, FlowInv, PacketsCurrent, DecisionsInv, IsList, DecisionInv,
                DecisionValid, ReportInv, ApprovedAsReviewed
  <2>6. CASE BuildManualQueue
    BY <2>6, NewQueue
  <2> QED BY <2>1, <2>2, <2>3, <2>4, <2>5, <2>6 DEF GovernanceNext
<1> QED BY <1>1, <1>2

\* So every reachable state of the way from index to manual work has it.
THEOREM FlowInvariant == GovernanceSpec => []FlowInv
BY FlowInit, FlowStep, PTL DEF GovernanceSpec

\* Because new_id makes the ids of every packet report fresh, an approval in
\* the manual queue was given to the packet shown, for any number of reports,
\* decisions and edits by hand.
THEOREM ApprovalsAreReviewed == GovernanceSpec => []ApprovedAsReviewed
<1>1. FlowInv => ApprovedAsReviewed
  BY DEF FlowInv
<1> QED BY <1>1, FlowInvariant, PTL

-----------------------------------------------------------------------------
(***************************************************************************)
(* The portfolio reports, for any registry, any repositories and any       *)
(* number of rounds.  A report that counts as current is what its          *)
(* generator would write again: its inputs are current too, and running    *)
(* one of them once more changes nothing.  So the drift generator compares *)
(* reports that were all computed from the same registry.                  *)
(***************************************************************************)

\* The generators whose report is a function of the registry and their inputs.
Planners == {"bootstrap", "onboarding", "portfolio", "dependencies", "critical_path", "roadmap"}

\* The reports of C in L are what their generators compute from w and L.
Recomputed(w, L, C) ==
    /\ "bootstrap" \in C => L["bootstrap"] = Bootstrap(w)
    /\ "onboarding" \in C => L["onboarding"] = Onboarding(L)
    /\ "portfolio" \in C => L["portfolio"] = Portfolio(w, L)
    /\ "dependencies" \in C => L["dependencies"] = Dependencies(w, L)
    /\ "critical_path" \in C => L["critical_path"] = CriticalPath(w, L)
    /\ "roadmap" \in C => L["roadmap"] = Roadmap(w, L)
    /\ "progress" \in C => L["progress"].present

InputsCurrent == \A k \in current : Inputs(k) \subseteq current

ReportsInv ==
    /\ latest = [k \in Kinds |-> latest[k]] /\ current \subseteq Kinds
    /\ InputsCurrent
    /\ Recomputed(world, latest, current)
    /\ CleanAfterRefresh

\* The kinds of report, one of each stage of a round.
LEMMA StagesAre ==
    Kinds = {"bootstrap", "onboarding", "portfolio", "dependencies", "critical_path",
             "roadmap", "progress", "drift", "index"}
<1>1. Len(Stages) = 9 BY DEF Stages
<1>2. 1 .. 9 = {1, 2, 3, 4, 5, 6, 7, 8, 9} OBVIOUS
<1>3. QED BY <1>1, <1>2 DEF Kinds, Stages

\* What each generator reads, stage by stage.
LEMMA InputsAre ==
    /\ Inputs("onboarding") = {"bootstrap"}
    /\ Inputs("bootstrap") = {}
    /\ Inputs("portfolio") = {"bootstrap"}
    /\ Inputs("dependencies") = {"bootstrap", "onboarding", "portfolio"}
    /\ Inputs("critical_path") = {"dependencies", "portfolio", "onboarding"}
    /\ Inputs("roadmap") = {"critical_path", "dependencies", "onboarding"}
    /\ Inputs("progress") = {"portfolio", "roadmap", "bootstrap", "dependencies", "critical_path"}
    /\ Inputs("drift") = Planners \cup {"progress"}
    /\ Inputs("index") = Planners \cup {"progress"}
<1>1. 1 .. 7 = {1, 2, 3, 4, 5, 6, 7} OBVIOUS
<1>2. {Stages[i] : i \in 1 .. 7} = Planners \cup {"progress"} BY <1>1 DEF Stages, Planners
<1>3. QED BY <1>2 DEF Inputs

\* What a generator computes depends on its inputs only.
LEMMA OnboardingReads ==
    ASSUME NEW L, NEW M, L["bootstrap"] = M["bootstrap"]
    PROVE Onboarding(L) = Onboarding(M)
BY DEF Onboarding

\* The portfolio generator reads the bootstrap report only.
LEMMA PortfolioReads ==
    ASSUME NEW w, NEW L, NEW M, L["bootstrap"] = M["bootstrap"]
    PROVE Portfolio(w, L) = Portfolio(w, M)
BY DEF Portfolio

\* The dependency generator reads the three reports before it.
LEMMA DependenciesReads ==
    ASSUME NEW w, NEW L, NEW M,
           L["bootstrap"] = M["bootstrap"], L["onboarding"] = M["onboarding"],
           L["portfolio"] = M["portfolio"]
    PROVE Dependencies(w, L) = Dependencies(w, M)
<1>1. \A r, d : EdgeFindings(w, L, r, d) = EdgeFindings(w, M, r, d) BY DEF EdgeFindings
<1> DEFINE edges == {p \in Repos \X Repos : p[2] \in DepsOf(DependencyGraph, p[1])}
<1>2. {EdgeFindings(w, L, e[1], e[2]) : e \in edges} = {EdgeFindings(w, M, e[1], e[2]) : e \in edges}
  <2> HIDE DEF edges
  <2>1. QED BY <1>1
<1>3. QED BY <1>2 DEF Dependencies

\* The critical path generator reads its three inputs only.
LEMMA CriticalPathReads ==
    ASSUME NEW w, NEW L, NEW M,
           L["dependencies"] = M["dependencies"], L["onboarding"] = M["onboarding"],
           L["portfolio"] = M["portfolio"]
    PROVE CriticalPath(w, L) = CriticalPath(w, M)
<1>1. RiskFindings(L) = RiskFindings(M) /\ ReportedChains(L) = ReportedChains(M)
  BY DEF RiskFindings, ReportedChains
<1>2. \A r : RepoScore(L, r) = RepoScore(M, r) BY <1>1 DEF RepoScore
<1>3. QED BY <1>2 DEF CriticalPath

\* The roadmap generator reads its three inputs only.
LEMMA RoadmapReads ==
    ASSUME NEW w, NEW L, NEW M,
           L["dependencies"] = M["dependencies"], L["onboarding"] = M["onboarding"],
           L["critical_path"] = M["critical_path"]
    PROVE Roadmap(w, L) = Roadmap(w, M)
<1>1. \A r, p : RoadmapItem(L, r, p) = RoadmapItem(M, r, p) BY DEF RoadmapItem
<1> DEFINE recs == Field(L["critical_path"], "priority")
           planned(X) == [r \in DOMAIN recs |-> RoadmapItem(X, r, recs[r])]
           items(X) == IF DOMAIN recs = {} THEN FallbackItems(w) ELSE planned(X)
<1>2. planned(L) = planned(M)
  <2> HIDE DEF recs
  <2>1. QED BY <1>1
<1>3. items(L) = items(M) BY <1>2
<1>4. /\ Roadmap(w, L) = [present |-> TRUE, items |-> items(L),
                           waves |-> Cardinality({items(L)[r].wave : r \in DOMAIN items(L)})]
      /\ Roadmap(w, M) = [present |-> TRUE, items |-> items(M),
                           waves |-> Cardinality({items(M)[r].wave : r \in DOMAIN items(M)})]
  BY DEF Roadmap
<1> HIDE DEF items
<1>5. QED BY <1>3, <1>4

\* Reports that are current stay so when only others are replaced.
LEMMA RecomputedFrame ==
    ASSUME NEW w, NEW L, NEW M, NEW C, Recomputed(w, L, C),
           \A k \in C : Inputs(k) \subseteq C,
           \A k \in C \cap Planners : M[k] = L[k],
           "progress" \in C => M["progress"].present
    PROVE Recomputed(w, M, C)
<1>1. "bootstrap" \in C => M["bootstrap"] = Bootstrap(w) BY DEF Recomputed, Planners
<1>2. "onboarding" \in C => M["onboarding"] = Onboarding(M)
  BY InputsAre, OnboardingReads DEF Recomputed, Planners
<1>3. "portfolio" \in C => M["portfolio"] = Portfolio(w, M)
  BY InputsAre, PortfolioReads DEF Recomputed, Planners
<1>4. "dependencies" \in C => M["dependencies"] = Dependencies(w, M)
  BY InputsAre, DependenciesReads DEF Recomputed, Planners
<1>5. "critical_path" \in C => M["critical_path"] = CriticalPath(w, M)
  BY InputsAre, CriticalPathReads DEF Recomputed, Planners
<1>6. "roadmap" \in C => M["roadmap"] = Roadmap(w, M)
  BY InputsAre, RoadmapReads DEF Recomputed, Planners
<1>7. QED BY <1>1, <1>2, <1>3, <1>4, <1>5, <1>6 DEF Recomputed

-----------------------------------------------------------------------------
\* A drift report of reports that are all current accuses none of them.

Blameless(w, f) ==
    \/ f[1] \in {"unregistered_dependency", "no_dependency_entry",
                  "contradictory_status", "stale_artifact"}
    \/ f[1] = "unranked_risk" /\ f[3] \notin Registered(w)

\* The lists that drift compares are of the registered repositories.
LEMMA RecordsAre ==
    ASSUME NEW w, NEW L, NEW C, Recomputed(w, L, C), Planners \subseteq C
    PROVE  /\ Field(L["bootstrap"], "records") = [r \in Registered(w) |-> OnboardingRecord(w[r])]
           /\ Field(L["onboarding"], "priority") =
                 [r \in Registered(w) |-> OnboardingPriority(OnboardingRecord(w[r]))]
           /\ DOMAIN Field(L["critical_path"], "priority") = Registered(w)
<1>1. L["bootstrap"] = Bootstrap(w) /\ L["onboarding"] = Onboarding(L)
      /\ L["critical_path"] = CriticalPath(w, L)
  BY DEF Recomputed, Planners
<1>2. Field(L["bootstrap"], "records") = [r \in Registered(w) |-> OnboardingRecord(w[r])]
  BY <1>1 DEF Bootstrap, Field
<1>3. Field(L["onboarding"], "priority") =
        [r \in DOMAIN Field(L["bootstrap"], "records") |->
            OnboardingPriority(Field(L["bootstrap"], "records")[r])]
  <2>1. L["onboarding"].present /\ L["onboarding"].priority =
          [r \in DOMAIN Field(L["bootstrap"], "records") |->
            OnboardingPriority(Field(L["bootstrap"], "records")[r])]
    BY <1>1 DEF Onboarding
  <2>2. QED BY <2>1 DEF Field
<1>4. DOMAIN Field(L["critical_path"], "priority") = Registered(w)
  BY <1>1 DEF CriticalPath, Field
<1>5. QED BY <1>2, <1>3, <1>4

\* A repository whose artifacts are complete is not urgent.
LEMMA CompleteIsNotUrgent ==
    ASSUME NEW p, OnboardingRecord(p).status = "complete"
    PROVE OnboardingPriority(OnboardingRecord(p)) \notin {"P0", "P1"}
<1>1. p.exists
  BY DEF OnboardingRecord, ArtifactStatus
<1>2. QED BY <1>1 DEF OnboardingRecord, OnboardingPriority

\* The roadmap plans registered repositories only, and the urgent ones soon.
LEMMA RoadmapItemsAre ==
    ASSUME NEW w, NEW L, NEW C, Recomputed(w, L, C), Planners \subseteq C
    PROVE  LET recs == Field(L["critical_path"], "priority")
               items == Field(L["roadmap"], "items")
           IN /\ DOMAIN items \subseteq Registered(w)
              /\ \A r \in DOMAIN recs : recs[r] \in {"P0", "P1"} =>
                    r \in DOMAIN items /\ items[r].horizon = "near_term"
<1> DEFINE recs == Field(L["critical_path"], "priority")
           items == Field(L["roadmap"], "items")
<1>1. L["roadmap"] = Roadmap(w, L) BY DEF Recomputed, Planners
<1>2. items = IF DOMAIN recs = {} THEN FallbackItems(w)
              ELSE [r \in DOMAIN recs |-> RoadmapItem(L, r, recs[r])]
  <2>1. L["roadmap"].present
        /\ L["roadmap"].items = IF DOMAIN recs = {} THEN FallbackItems(w)
                                ELSE [r \in DOMAIN recs |-> RoadmapItem(L, r, recs[r])]
    BY <1>1 DEF Roadmap
  <2>2. QED BY <2>1 DEF Field
<1>3. DOMAIN recs = Registered(w) BY RecordsAre
<1>4. DOMAIN FallbackItems(w) \subseteq Registered(w)
  BY DEF FallbackItems, Registered, Repos
<1>5. \A r, p : p \in {"P0", "P1"} => RoadmapItem(L, r, p).horizon = "near_term"
  BY DEF RoadmapItem, HorizonForPriority
<1> HIDE DEF recs, items
<1>6. DOMAIN items \subseteq Registered(w) BY <1>2, <1>3, <1>4
<1>7. \A r \in DOMAIN recs : recs[r] \in {"P0", "P1"} =>
         r \in DOMAIN items /\ items[r].horizon = "near_term"
  BY <1>2, <1>5
<1>8. QED BY <1>6, <1>7 DEF recs, items

\* Drift against reports computed from this registry accuses none of them.
LEMMA DriftIsBlameless ==
    ASSUME NEW w, NEW L, NEW C, Recomputed(w, L, C), Planners \cup {"progress"} \subseteq C,
           NEW f \in Drift(w, L).findings
    PROVE Blameless(w, f)
<1>1. f \in RegistryDrift(w, L) \/ f \in RecommendationDrift(L) \/ f \in PlanningDrift(w, L)
      \/ f \in StatusDrift(L) \/ f \in StaleArtifacts(L)
  BY DEF Drift
<1>2. CASE f \in RegistryDrift(w, L)
  <2>1. DOMAIN Field(L["bootstrap"], "records") = Registered(w) BY RecordsAre
  <2>2. Enabled(w) \subseteq Registered(w) BY DEF Enabled
  <2>3. \/ f \in {<<"unregistered_dependency", "high", r>> : r \in DependencyIds \ Registered(w)}
        \/ f \in {<<"no_dependency_entry", "low", r>> : r \in Enabled(w) \ DependencyIds}
    BY <1>2, <2>1, <2>2 DEF RegistryDrift
  <2>4. QED BY <2>3 DEF Blameless
<1>3. CASE f \in RecommendationDrift(L)
  <2> DEFINE records == Field(L["bootstrap"], "records")
             priority == Field(L["onboarding"], "priority")
  <2>1. DOMAIN records = Registered(w) /\ DOMAIN priority = Registered(w) BY RecordsAre
  <2>2. \A q \in Registered(w) : records[q].status = "complete" => priority[q] \notin {"P0", "P1"}
    <3> SUFFICES ASSUME NEW q \in Registered(w), records[q].status = "complete"
                 PROVE  priority[q] \notin {"P0", "P1"}
      OBVIOUS
    <3>1. /\ records = [r \in Registered(w) |-> OnboardingRecord(w[r])]
          /\ priority = [r \in Registered(w) |-> OnboardingPriority(OnboardingRecord(w[r]))]
      BY RecordsAre
    <3> HIDE DEF records, priority
    <3>2. records[q] = OnboardingRecord(w[q]) BY <3>1
    <3>3. priority[q] = OnboardingPriority(OnboardingRecord(w[q])) BY <3>1
    <3>4. OnboardingRecord(w[q]).status = "complete" BY <3>2
    <3>5. QED BY <3>3, <3>4, CompleteIsNotUrgent
  <2> HIDE DEF records, priority
  <2>3. ~(\E q \in DOMAIN records \ DOMAIN priority : TRUE) BY <2>1
  <2>4. RecommendationDrift(L) =
           {<<"missing_recommendation", "medium", r>> :
               r \in {q \in DOMAIN records \ DOMAIN priority : records[q].status = "none"}}
           \cup {<<"stale_recommendation", "low", r>> :
               r \in {q \in DOMAIN records \cap DOMAIN priority :
                         records[q].status = "complete" /\ priority[q] \in {"P0", "P1"}}}
    BY DEF RecommendationDrift, records, priority
  <2>5. QED BY <1>3, <2>1, <2>2, <2>4
<1>4. CASE f \in PlanningDrift(w, L)
  <2> DEFINE recs == Field(L["critical_path"], "priority")
             items == Field(L["roadmap"], "items")
             risks == {g.repo : g \in {h \in RiskFindings(L) : h.severity = "high"}}
  <2>1. DOMAIN recs = Registered(w) BY RecordsAre
  <2>2. /\ DOMAIN items \subseteq Registered(w)
        /\ \A r \in DOMAIN recs : recs[r] \in {"P0", "P1"} =>
               r \in DOMAIN items /\ items[r].horizon = "near_term"
    BY RoadmapItemsAre
  <2>3. L["progress"].present BY DEF Recomputed
  <2>4. PlanningDrift(w, L) =
          {<<"unranked_risk", "high", r>> : r \in risks \ DOMAIN recs}
          \cup {<<"unregistered_ranking", "high", r>> : r \in DOMAIN recs \ Registered(w)}
          \cup {<<"unplanned_ranking", "medium", r>> :
                   r \in {q \in DOMAIN recs : /\ recs[q] \in {"P0", "P1"}
                                              /\ ~(q \in DOMAIN items /\ items[q].horizon = "near_term")}}
          \cup {<<"unregistered_item", "high", r>> : r \in DOMAIN items \ Registered(w)}
          \cup {<<"missing_progress_metric", "medium", "portfolio">> :
                   x \in {y \in {"roadmap"} : DOMAIN items # {} /\ ~L["progress"].present}}
    BY DEF PlanningDrift
  <2> HIDE DEF recs, items, risks
  <2>5. f \in {<<"unranked_risk", "high", r>> : r \in risks \ DOMAIN recs}
    BY <1>4, <2>1, <2>2, <2>3, <2>4
  <2>6. QED BY <2>1, <2>5 DEF Blameless
<1>5. CASE f \in StatusDrift(L)
  BY <1>5 DEF StatusDrift, Blameless
<1>6. CASE f \in StaleArtifacts(L)
  BY <1>6 DEF StaleArtifacts, Blameless
<1>7. QED BY <1>1, <1>2, <1>3, <1>4, <1>5, <1>6

-----------------------------------------------------------------------------
\* A generator that is not current is an input of none that are, and one that
\* is writes the report it wrote before.
LEMMA PlannerKeeps ==
    ASSUME ReportsInv, NEW k \in Planners, NEW rep, NEW logged, Export(k, rep, logged),
           k \in current => rep = latest[k],
           \A M : /\ M[k] = rep /\ \A i \in Inputs(k) : M[i] = latest[i]
                 /\ Recomputed(world, M, current)
                 => Recomputed(world, M, current \cup {k})
    PROVE ReportsInv'
<1>1. k \in Kinds /\ k # "drift" /\ k \notin Inputs(k) /\ k # "progress"
  BY StagesAre, InputsAre DEF Planners
<1>2. /\ latest' = [latest EXCEPT ![k] = rep]
      /\ current' = IF Inputs(k) \subseteq current THEN current \cup {k} ELSE current \ {k}
      /\ world' = world
  BY DEF Export
<1>3. /\ latest' = [j \in Kinds |-> latest'[j]]
      /\ latest'[k] = rep /\ \A j \in Kinds \ {k} : latest'[j] = latest[j]
  BY <1>1, <1>2 DEF ReportsInv
<1>4. \A j \in current : Inputs(j) \subseteq current BY DEF ReportsInv, InputsCurrent
<1>5. current' = IF Inputs(k) \subseteq current THEN current \cup {k} ELSE current
  BY <1>2, <1>4
<1>6. current' \subseteq Kinds BY <1>1, <1>5 DEF ReportsInv
<1>7. \A j \in current' : Inputs(j) \subseteq current' BY <1>4, <1>5
<1>8. Recomputed(world, latest', current)
  <2>1. \A j \in current \cap Planners : latest'[j] = latest[j] BY <1>3 DEF ReportsInv
  <2>2. "progress" \in current => latest'["progress"].present
    BY <1>1, <1>3, StagesAre DEF ReportsInv, Recomputed
  <2>3. Recomputed(world, latest, current) BY DEF ReportsInv
  <2>4. QED BY <1>4, <2>1, <2>2, <2>3, RecomputedFrame
<1>9. Recomputed(world, latest', current')
  <2>1. \A i \in Inputs(k) : latest'[i] = latest[i]
    BY <1>1, <1>3, StagesAre, InputsAre DEF Planners
  <2>2. QED BY <1>3, <1>5, <1>8, <2>1
<1>10. CleanAfterRefresh'
  <2>1. latest'["drift"] = latest["drift"] BY <1>1, <1>3, StagesAre
  <2>2. "drift" \in current' => "drift" \in current BY <1>1, <1>5
  <2>3. Registered(world)' = Registered(world) BY <1>2 DEF Registered
  <2>4. QED BY <2>1, <2>2, <2>3 DEF ReportsInv, CleanAfterRefresh
<1>11. QED BY <1>2, <1>3, <1>6, <1>7, <1>9, <1>10 DEF ReportsInv, InputsCurrent

\* The planners' command lines.
LEMMA PlannerStep ==
    ASSUME ReportsInv, NEW logged,
           \/ BootstrapMain(logged) \/ OnboardingMain(logged) \/ PortfolioMain(logged)
           \/ DependenciesMain(logged) \/ CriticalPathMain(logged) \/ RoadmapMain(logged)
    PROVE ReportsInv'
<1>1. Recomputed(world, latest, current) BY DEF ReportsInv
<1>2. CASE BootstrapMain(logged)
  <2>1. Export("bootstrap", Bootstrap(world), logged) BY <1>2 DEF BootstrapMain
  <2>2. "bootstrap" \in current => Bootstrap(world) = latest["bootstrap"] BY <1>1 DEF Recomputed
  <2>3. \A M : M["bootstrap"] = Bootstrap(world) /\ Recomputed(world, M, current)
           => Recomputed(world, M, current \cup {"bootstrap"})
    BY DEF Recomputed
  <2>4. QED BY <2>1, <2>2, <2>3, PlannerKeeps DEF Planners
<1>3. CASE OnboardingMain(logged)
  <2>1. Export("onboarding", Onboarding(latest), logged) BY <1>3 DEF OnboardingMain
  <2>2. "onboarding" \in current => Onboarding(latest) = latest["onboarding"] BY <1>1 DEF Recomputed
  <2>3. ASSUME NEW M, M["onboarding"] = Onboarding(latest),
               \A i \in Inputs("onboarding") : M[i] = latest[i], Recomputed(world, M, current)
        PROVE  Recomputed(world, M, current \cup {"onboarding"})
    <3>1. Onboarding(latest) = Onboarding(M) BY <2>3, InputsAre, OnboardingReads
    <3>2. QED BY <2>3, <3>1 DEF Recomputed
  <2>4. QED BY <2>1, <2>2, <2>3, PlannerKeeps DEF Planners
<1>4. CASE PortfolioMain(logged)
  <2>1. Export("portfolio", Portfolio(world, latest), logged) BY <1>4 DEF PortfolioMain
  <2>2. "portfolio" \in current => Portfolio(world, latest) = latest["portfolio"] BY <1>1 DEF Recomputed
  <2>3. ASSUME NEW M, M["portfolio"] = Portfolio(world, latest),
               \A i \in Inputs("portfolio") : M[i] = latest[i], Recomputed(world, M, current)
        PROVE  Recomputed(world, M, current \cup {"portfolio"})
    <3>1. Portfolio(world, latest) = Portfolio(world, M) BY <2>3, InputsAre, PortfolioReads
    <3>2. QED BY <2>3, <3>1 DEF Recomputed
  <2>4. QED BY <2>1, <2>2, <2>3, PlannerKeeps DEF Planners
<1>5. CASE DependenciesMain(logged)
  <2>1. Export("dependencies", Dependencies(world, latest), logged) BY <1>5 DEF DependenciesMain
  <2>2. "dependencies" \in current => Dependencies(world, latest) = latest["dependencies"]
    BY <1>1 DEF Recomputed
  <2>3. ASSUME NEW M, M["dependencies"] = Dependencies(world, latest),
               \A i \in Inputs("dependencies") : M[i] = latest[i], Recomputed(world, M, current)
        PROVE  Recomputed(world, M, current \cup {"dependencies"})
    <3>1. Dependencies(world, latest) = Dependencies(world, M) BY <2>3, InputsAre, DependenciesReads
    <3>2. QED BY <2>3, <3>1 DEF Recomputed
  <2>4. QED BY <2>1, <2>2, <2>3, PlannerKeeps DEF Planners
<1>6. CASE CriticalPathMain(logged)
  <2>1. Export("critical_path", CriticalPath(world, latest), logged) BY <1>6 DEF CriticalPathMain
  <2>2. "critical_path" \in current => CriticalPath(world, latest) = latest["critical_path"]
    BY <1>1 DEF Recomputed
  <2>3. ASSUME NEW M, M["critical_path"] = CriticalPath(world, latest),
               \A i \in Inputs("critical_path") : M[i] = latest[i], Recomputed(world, M, current)
        PROVE  Recomputed(world, M, current \cup {"critical_path"})
    <3>1. CriticalPath(world, latest) = CriticalPath(world, M) BY <2>3, InputsAre, CriticalPathReads
    <3>2. QED BY <2>3, <3>1 DEF Recomputed
  <2>4. QED BY <2>1, <2>2, <2>3, PlannerKeeps DEF Planners
<1>7. CASE RoadmapMain(logged)
  <2>1. Export("roadmap", Roadmap(world, latest), logged) BY <1>7 DEF RoadmapMain
  <2>2. "roadmap" \in current => Roadmap(world, latest) = latest["roadmap"] BY <1>1 DEF Recomputed
  <2>3. ASSUME NEW M, M["roadmap"] = Roadmap(world, latest),
               \A i \in Inputs("roadmap") : M[i] = latest[i], Recomputed(world, M, current)
        PROVE  Recomputed(world, M, current \cup {"roadmap"})
    <3>1. Roadmap(world, latest) = Roadmap(world, M) BY <2>3, InputsAre, RoadmapReads
    <3>2. QED BY <2>3, <3>1 DEF Recomputed
  <2>4. QED BY <2>1, <2>2, <2>3, PlannerKeeps DEF Planners
<1>8. QED BY <1>2, <1>3, <1>4, <1>5, <1>6, <1>7

\* The others: the progress report changes with the histories, and nothing
\* current is computed from a drift report or an index.
LEMMA ReviewStep ==
    ASSUME ReportsInv, NEW logged,
           ProgressMain(logged) \/ DriftMain(logged) \/ IndexMain(logged)
    PROVE ReportsInv'
<1>1. PICK k \in {"progress", "drift", "index"} : \E rep :
        /\ Export(k, rep, logged)
        /\ k = "progress" => rep.present
        /\ k = "drift" => rep = Drift(world, latest)
  <2>1. Progress(latest).present BY DEF Progress
  <2>2. QED BY <2>1 DEF ProgressMain, DriftMain, IndexMain
<1>2. PICK rep : /\ Export(k, rep, logged)
                 /\ k = "progress" => rep.present
                 /\ k = "drift" => rep = Drift(world, latest)
  BY <1>1
<1>3. /\ latest' = [latest EXCEPT ![k] = rep]
      /\ current' = IF Inputs(k) \subseteq current THEN current \cup {k} ELSE current \ {k}
      /\ world' = world
  BY <1>2 DEF Export
<1>4. k \in Kinds /\ k \notin Planners BY StagesAre DEF Planners
<1>5. /\ latest' = [j \in Kinds |-> latest'[j]]
      /\ latest'[k] = rep /\ \A j \in Kinds \ {k} : latest'[j] = latest[j]
  BY <1>3, <1>4 DEF ReportsInv
<1>6. \A j \in current : Inputs(j) \subseteq current BY DEF ReportsInv, InputsCurrent
<1>7. current' = IF Inputs(k) \subseteq current THEN current \cup {k} ELSE current
  BY <1>3, <1>6
<1>8. current' \subseteq Kinds BY <1>4, <1>7 DEF ReportsInv
<1>9. \A j \in current' : Inputs(j) \subseteq current' BY <1>6, <1>7
<1>10. Recomputed(world, latest', current')
  <2>1. \A j \in current \cap Planners : latest'[j] = latest[j] BY <1>4, <1>5 DEF ReportsInv
  <2>2. "progress" \in current' => latest'["progress"].present
    BY <1>2, <1>5, <1>7, StagesAre DEF ReportsInv, Recomputed
  <2>3. Recomputed(world, latest, current) BY DEF ReportsInv
  <2>4. Recomputed(world, latest', current)
    BY <1>6, <1>7, <2>1, <2>2, <2>3, RecomputedFrame
  <2>5. QED BY <1>4, <1>7, <2>2, <2>4 DEF Recomputed, Planners
<1>11. CleanAfterRefresh'
  <2>1. Registered(world)' = Registered(world) BY <1>3 DEF Registered
  <2>2. CASE k = "drift" /\ Inputs(k) \subseteq current
    <3>1. latest'["drift"] = Drift(world, latest) BY <1>2, <1>5, <2>2
    <3>2. \A f \in Drift(world, latest).findings : Blameless(world, f)
      BY <2>2, InputsAre, DriftIsBlameless DEF ReportsInv
    <3>3. QED BY <2>1, <3>1, <3>2 DEF CleanAfterRefresh, Blameless
  <2>3. CASE k = "drift" /\ ~(Inputs(k) \subseteq current)
    <3>1. "drift" \notin current' BY <1>3, <2>3
    <3>2. QED BY <3>1 DEF CleanAfterRefresh
  <2>4. CASE k # "drift"
    <3>1. latest'["drift"] = latest["drift"] BY <1>5, <2>4, StagesAre
    <3>2. "drift" \in current' => "drift" \in current BY <1>7, <2>4
    <3>3. QED BY <2>1, <3>1, <3>2 DEF ReportsInv, CleanAfterRefresh
  <2>5. QED BY <2>2, <2>3, <2>4
<1>12. QED BY <1>3, <1>5, <1>8, <1>9, <1>10, <1>11 DEF ReportsInv, InputsCurrent

\* A current report is what its generator would write again, and so are the
\* reports it was computed from (the rounds of the nine command lines, with
\* commands left out, reports not logged and a registry that changes).
LEMMA ReportsInit == PortfolioInit => ReportsInv
BY DEF PortfolioInit, ReportsInv, InputsCurrent, Recomputed, CleanAfterRefresh

\* A round goes on, is broken off, or the world changes, and then no report is
\* current.
LEMMA ReportsStep == ReportsInv /\ [PortfolioNext]_portfolioVars => ReportsInv'
<1> SUFFICES ASSUME ReportsInv, [PortfolioNext]_portfolioVars PROVE ReportsInv'
  OBVIOUS
<1>1. ASSUME NEW logged, Main(logged) PROVE ReportsInv'
  BY <1>1, PlannerStep, ReviewStep DEF Main
<1>2. CASE SkipStage \/ UNCHANGED portfolioVars
  <2>1. latest' = latest /\ current' = current /\ world' = world
    BY <1>2 DEF SkipStage, portfolioVars
  <2>2. Registered(world)' = Registered(world) BY <2>1 DEF Registered
  <2>3. QED BY <2>1, <2>2 DEF ReportsInv, InputsCurrent, CleanAfterRefresh
<1>3. CASE ChangeWorld
  <2>1. latest' = latest /\ current' = {} BY <1>3 DEF ChangeWorld
  <2>2. QED BY <2>1 DEF ReportsInv, InputsCurrent, Recomputed, CleanAfterRefresh
<1>4. QED BY <1>1, <1>2, <1>3 DEF PortfolioNext, RefreshStep, LeaveUnlogged

\* A report that counts as current is what its generator would write again.
THEOREM ReportsInvariant == PortfolioSpec => []ReportsInv
BY ReportsInit, ReportsStep, PTL DEF PortfolioSpec

\* However the rounds went before, a drift report made from current reports
\* accuses none of them: what it lists is in the registries themselves.
THEOREM RefreshedReportsAreClean == PortfolioSpec => []CleanAfterRefresh
<1>1. ReportsInv => CleanAfterRefresh BY DEF ReportsInv
<1>2. QED BY <1>1, ReportsInvariant, PTL

-----------------------------------------------------------------------------
(***************************************************************************)
(* The types of the stores: a file, a copy in memory and a temporary file  *)
(* hold one table or none, whatever its methods do to it.                  *)
(***************************************************************************)

\* A content is a table, or does not parse.
IsContent(x) == \A s, t \in x : s = t

\* A call of any store saves one table, or saves nothing.
LEMMA UpdateIsContent ==
    ASSUME NEW k \in StoreKinds, NEW op \in OpsOf(k, Clients), NEW t
    PROVE  IsContent(Update(k, op, t))
<1>1. IsContent(SchedulerUpdate(op, t))
  BY DEF SchedulerUpdate, IsContent
<1>2. IsContent(DecisionsUpdate(op, t))
  BY DEF DecisionsUpdate, IsContent
<1>3. IsContent(LifecycleUpdate(op, t))
  BY DEF LifecycleUpdate, IsContent
<1>0. PICK m \in Methods(k) : op.name = m[1]
  BY DEF OpsOf
<1>4. k = "repository" => IsContent(RepositoryUpdate(op, t))
  <2>1. SUFFICES ASSUME k = "repository" PROVE IsContent(RepositoryUpdate(op, t))
    OBVIOUS
  <2>2. Methods(k) = Pairs({"upsert_profile", "append_health_snapshot", "append_audit_record"}, {"r"})
    BY ONLY <2>1, Zenon DEF Methods
  <2>3. op.name \in {"upsert_profile", "append_health_snapshot", "append_audit_record"}
    BY ONLY <1>0, <2>2, SMT DEF Pairs
  <2> QED BY <2>3 DEF RepositoryUpdate, IsContent
<1>5. IsContent(MissionUpdate(op, t))
  BY DEF MissionUpdate, IsContent
<1>6. k = "memory" => IsContent(MemoryUpdate(op, t))
  <2>1. SUFFICES ASSUME k = "memory" PROVE IsContent(MemoryUpdate(op, t))
    OBVIOUS
  <2>2. Methods(k) = Pairs({"upsert_node", "upsert_edge"}, {"n"})
    BY ONLY <2>1, Zenon DEF Methods
  <2>3. op.name \in {"upsert_node", "upsert_edge"}
    BY ONLY <1>0, <2>2, SMT DEF Pairs
  <2> QED BY <2>3 DEF MemoryUpdate, IsContent
<1>7. k = "metrics" => IsContent(MetricsUpdate(op, t))
  <2>1. SUFFICES ASSUME k = "metrics" PROVE IsContent(MetricsUpdate(op, t))
    OBVIOUS
  <2>2. Methods(k) = Pairs({"review", "rejected_review", "refinement"}, {"-"})
    BY ONLY <2>1, Zenon DEF Methods
  <2>3. op.name \in {"review", "rejected_review", "refinement"}
    BY ONLY <1>0, <2>2, SMT DEF Pairs
  <2> QED BY <2>3 DEF MetricsUpdate, IsContent
<1> HIDE DEF IsContent
<1> QED BY <1>1, <1>2, <1>3, <1>4, <1>5, <1>6, <1>7 DEF Update, StoreKinds

\* A file, a temporary file and what a process has loaded hold one table each.
StoreShape ==
    /\ IsContent(file) /\ \A n \in TempNames : IsContent(temp[n])
    /\ \A c \in Clients : IsContent(mem[c])
    /\ present \subseteq TempNames
    /\ calls \in 0..MaxCalls /\ deaths \in 0..MaxCrashes

\* At first there is a file to load, and nothing else.
LEMMA StoreShapeInit == JsonStoreInit => StoreShape
BY StoreAssumption DEF JsonStoreInit, StoreShape, IsContent

\* No step leaves more than one table in a file or in memory.
LEMMA StoreShapeStep ==
    ASSUME StoreInv, StoreShape, [JsonStoreNext]_storeVars
    PROVE  StoreShape'
<1>1. mem = [c \in Clients |-> mem[c]] /\ temp = [n \in TempNames |-> temp[n]]
  BY DEF StoreInv, Shapes
<1>2. \A c \in Clients : TempName(c) \in TempNames
  BY DEF TempName, TempNames
<1>3. IsContent({}) /\ \A t : IsContent({t})
  BY DEF IsContent
<1> HIDE DEF IsContent
<1>4. CASE UNCHANGED storeVars
  BY <1>4 DEF storeVars, StoreShape
<1>5. ASSUME NEW c \in Clients, NEW where, Finish(c, where)
      PROVE  \A d \in Clients : IsContent(mem'[d])
  BY <1>1, <1>3, <1>5 DEF Finish, StoreShape
<1>6. ASSUME NEW c \in Clients, NEW op \in OpsOf(kind, Clients), Call(c, op) PROVE StoreShape'
  <2>1. IsContent(Update(kind, op, Loaded(kind, file)))
    BY UpdateIsContent DEF StoreInv, Shapes
  <2>2. calls' \in 0..MaxCalls
    BY <1>6, StoreAssumption DEF Call, StoreShape
  <2>3. \A d \in Clients : IsContent(mem'[d])
    BY <1>1, <1>6, <2>1 DEF Call, StoreShape
  <2> QED BY <1>6, <2>2, <2>3 DEF Call, StoreShape
<1>7. ASSUME NEW c \in Clients, OpenTemp(c) PROVE StoreShape'
  BY <1>1, <1>2, <1>3, <1>7 DEF OpenTemp, StoreShape
<1>8. ASSUME NEW c \in Clients, WriteTemp(c) PROVE StoreShape'
  <2>1. \A content \in Writes(c) : IsContent(content)
    BY <1>3 DEF Writes, StoreShape
  <2>2. IsContent(file') /\ \A n \in TempNames : IsContent(temp'[n])
    BY <1>1, <1>8, <2>1 DEF WriteTemp, Publish, StoreShape
  <2> QED BY <1>8, <2>2 DEF WriteTemp, StoreShape
<1>9. ASSUME NEW c \in Clients, Replace(c) PROVE StoreShape'
  <2>1. \A d \in Clients : IsContent(mem'[d])
    BY <1>5, <1>9 DEF Replace
  <2>2. IsContent(file') /\ \A n \in TempNames : IsContent(temp'[n])
    BY <1>1, <1>2, <1>3, <1>9 DEF Replace, Publish, StoreShape
  <2> QED BY <1>9, <2>1, <2>2 DEF Replace, StoreShape
<1>10. ASSUME NEW c \in Clients, ReplaceFails(c) PROVE StoreShape'
  <2>1. \A d \in Clients : IsContent(mem'[d])
    BY <1>5, <1>10 DEF ReplaceFails
  <2> QED BY <1>10, <2>1 DEF ReplaceFails, StoreShape
<1>11. ASSUME NEW c \in Clients, MoveAway(c) PROVE StoreShape'
  <2>1. \A d \in Clients : IsContent(mem'[d])
    BY <1>5, <1>11 DEF MoveAway
  <2> QED BY <1>3, <1>11, <2>1 DEF MoveAway, Publish, StoreShape
<1>12. ASSUME NEW c \in Clients, Crash(c) PROVE StoreShape'
  <2>1. \A d \in Clients : IsContent(mem'[d])
    BY <1>5, <1>12 DEF Crash
  <2>2. IsContent(file') /\ \A n \in TempNames : IsContent(temp'[n])
    BY <1>1, <1>3, <1>12 DEF Crash, Publish, StoreShape
  <2>3. deaths' \in 0..MaxCrashes
    BY <1>12, StoreAssumption DEF Crash, StoreShape
  <2> QED BY <1>12, <2>1, <2>2, <2>3 DEF Crash, StoreShape
<1> QED BY <1>4, <1>6, <1>7, <1>8, <1>9, <1>10, <1>11, <1>12 DEF JsonStoreNext, StoreStep

\* The two invariants of the stores say all that their types do.
LEMMA StoreTyped == StoreInv /\ StoreShape => JsonStoreTypeOK
<1>1. ASSUME NEW x, IsContent(x) PROVE Cardinality(x) <= 1
  <2>1. CASE x = {}
    BY <2>1, FS_EmptySet
  <2>2. CASE x # {}
    <3>1. PICK t \in x : x = {t}
      BY <1>1, <2>2 DEF IsContent
    <3> QED BY <3>1, FS_Singleton
  <2> QED BY <2>1, <2>2
<1> HIDE DEF IsContent
<1> QED BY <1>1 DEF StoreInv, StoreShape, Shapes, Saving, Parses, JsonStoreTypeOK

\* Whatever overlaps and whoever dies, a file of the stores and what a process has
\* loaded is one table or does not parse, and calls and deaths stay in their bounds.
THEOREM StoreTypes == JsonStoreSpec => []JsonStoreTypeOK
BY StoreShapeInit, StoreShapeStep, StoreTyped, StoreInvariant, PTL DEF JsonStoreSpec

-----------------------------------------------------------------------------
(***************************************************************************)
(* Sums and averages, as the reports form them: SumOf folds a map over its *)
(* domain in an order that CHOOSE picks, so a table of the sums over all   *)
(* subsets says what it returns.                                           *)
(***************************************************************************)

\* h sums map over each set of elements, taking out what CHOOSE chooses.
Sums(h, S, map) ==
    /\ h[{}] = 0
    /\ \A s \in SUBSET S :
          s # {} => h[s] = map[CHOOSE x \in s : TRUE] + h[s \ {CHOOSE x \in s : TRUE}]

\* There is such a table: the one after n steps is right for sets of n elements.
LEMMA SumsExist ==
    ASSUME NEW S, IsFiniteSet(S), NEW map \in [S -> Int]
    PROVE  \E h : /\ h = [s \in SUBSET S |-> h[s]]
                  /\ Sums(h, S, map)
<1> DEFINE W == [SUBSET S -> Int]
           b == [s \in SUBSET S |-> 0]
           c(s) == CHOOSE x \in s : TRUE
           next(a) == [s \in SUBSET S |-> IF s = {} THEN 0 ELSE map[c(s)] + a[s \ {c(s)}]]
           g == [k \in Nat |-> [a \in W |-> next(a)]]
<1>1. \A s \in SUBSET S : s # {} => c(s) \in s /\ s \ {c(s)} \in SUBSET S /\ map[c(s)] \in Int
  OBVIOUS
<1> HIDE DEF c
<1>2. \A a \in W : next(a) \in W
  <2> SUFFICES ASSUME NEW a \in W, NEW s \in SUBSET S
               PROVE  (IF s = {} THEN 0 ELSE map[c(s)] + a[s \ {c(s)}]) \in Int
    OBVIOUS
  <2>1. CASE s = {}
    BY <2>1
  <2>2. CASE s # {}
    <3>1. map[c(s)] \in Int /\ a[s \ {c(s)}] \in Int
      BY <1>1, <2>2
    <3> QED BY <3>1, <2>2
  <2> QED BY <2>1, <2>2
<1>3. b \in W
  OBVIOUS
<1>4. g \in [Nat -> [W -> W]] /\ \A k \in Nat, a \in W : g[k][a] = next(a)
  <2> HIDE DEF next, W
  <2> QED BY <1>2
<1>5. PICK r \in [Nat -> W] : r[0] = b /\ \A k \in Nat : r[k + 1] = g[k][r[k]]
  <2> HIDE DEF W, b, g
  <2>1. \E r : RunsOn(r, W, b, g)
    BY ONLY <1>3, <1>4, RecursionExists
  <2> QED BY <2>1 DEF RunsOn
<1> DEFINE h == [s \in SUBSET S |-> r[Cardinality(s)][s]]
<1>6. h[{}] = 0
  <2>1. Cardinality({}) = 0 /\ {} \in SUBSET S
    BY FS_EmptySet
  <2> QED BY <1>5, <2>1
<1>7. ASSUME NEW s \in SUBSET S, s # {}
      PROVE  h[s] = map[c(s)] + h[s \ {c(s)}]
  <2>1. IsFiniteSet(s) /\ Cardinality(s) \in Nat
    BY FS_Subset, FS_CardinalityType
  <2>2. Cardinality(s \ {c(s)}) = Cardinality(s) - 1 /\ Cardinality(s) - 1 \in Nat
    <3>1. c(s) \in s
      BY <1>1, <1>7
    <3>2. Cardinality(s \ {c(s)}) = Cardinality(s) - 1
      BY ONLY <2>1, <3>1, FS_RemoveElement
    <3>3. Cardinality(s) # 0
      BY ONLY <2>1, <3>1, FS_EmptySet
    <3> QED BY ONLY <2>1, <3>2, <3>3
  <2> DEFINE k == Cardinality(s) - 1
  <2>3. k \in Nat /\ k + 1 = Cardinality(s) /\ Cardinality(s \ {c(s)}) = k
    BY <2>1, <2>2
  <2> HIDE DEF k, g, next
  <2>4. r[k] \in W /\ r[k + 1] = next(r[k])
    BY <1>4, <1>5, <2>3
  <2>5. r[k + 1][s] = map[c(s)] + r[k][s \ {c(s)}]
    BY <1>7, <2>4 DEF next
  <2>6. h[s] = r[k + 1][s] /\ h[s \ {c(s)}] = r[k][s \ {c(s)}]
    BY <1>1, <1>7, <2>3
  <2> QED BY ONLY <2>5, <2>6
<1>8. h = [s \in SUBSET S |-> h[s]]
  OBVIOUS
<1> HIDE DEF h
<1>9. Sums(h, S, map)
  BY <1>6, <1>7 DEF Sums, c
<1> QED BY <1>8, <1>9

\* A sum of naturals is a natural, and no more than what bounds every step of it.
LEMMA SumsWithin ==
    ASSUME NEW S, IsFiniteSet(S), NEW map \in [S -> Nat], NEW h, Sums(h, S, map),
           NEW G \in [SUBSET S -> Nat],
           \A s \in SUBSET S : \A x \in s : G[s \ {x}] + map[x] <= G[s]
    PROVE  h[S] \in 0..G[S]
<1> DEFINE Bad == {s \in SUBSET S : h[s] \notin 0..G[s]}
           T == {Cardinality(s) : s \in Bad}
<1>1. ASSUME NEW s \in SUBSET S
      PROVE  IsFiniteSet(s) /\ Cardinality(s) \in Nat
  BY FS_Subset, FS_CardinalityType
<1>2. Bad = {}
  <2> SUFFICES ASSUME Bad # {} PROVE FALSE
    OBVIOUS
  <2>1. T \in SUBSET Nat /\ T # {}
    BY <1>1
  <2>2. PICK n \in T : \A y \in T : n <= y
    <3> HIDE DEF T
    <3> QED BY <2>1, LeastNat
  <2>3. PICK s \in Bad : n = Cardinality(s)
    OBVIOUS
  <2>4. s # {}
    <3>1. G[{}] \in Nat /\ h[{}] = 0
      BY DEF Sums
    <3>2. 0 \in 0..G[{}]
      BY ONLY <3>1
    <3> QED BY <2>3, <3>1, <3>2
  <2> DEFINE x == CHOOSE y \in s : TRUE
  <2>5. x \in s /\ h[s] = map[x] + h[s \ {x}]
    BY <2>3, <2>4 DEF Sums
  <2> HIDE DEF x
  <2>6. s \ {x} \in SUBSET S /\ Cardinality(s \ {x}) = Cardinality(s) - 1
    BY <1>1, <2>3, <2>5, FS_RemoveElement
  <2>7. s \ {x} \notin Bad
    <3> SUFFICES ASSUME s \ {x} \in Bad PROVE FALSE
      OBVIOUS
    <3>1. n <= Cardinality(s \ {x})
      BY <2>2
    <3>2. Cardinality(s) \in Nat
      BY <1>1, <2>3
    <3> QED BY ONLY <2>3, <2>6, <3>1, <3>2
  <2>8. h[s \ {x}] \in 0..G[s \ {x}]
    BY <2>6, <2>7
  <2>9. G[s \ {x}] + map[x] <= G[s] /\ G[s] \in Nat /\ G[s \ {x}] \in Nat /\ map[x] \in Nat
    BY <2>3, <2>5, <2>6
  <2>10. h[s] \in 0..G[s]
    BY ONLY <2>5, <2>8, <2>9
  <2> QED BY <2>3, <2>10
<1> QED BY <1>2

\* A sum of percentages is at most as many hundreds.
LEMMA PercentSums ==
    ASSUME NEW S, IsFiniteSet(S), NEW map \in [S -> 0..100], NEW h, Sums(h, S, map)
    PROVE  Cardinality(S) \in Nat /\ h[S] \in 0..100 * Cardinality(S)
<1> DEFINE G == [s \in SUBSET S |-> 100 * Cardinality(s)]
<1>1. ASSUME NEW s \in SUBSET S PROVE IsFiniteSet(s) /\ Cardinality(s) \in Nat
  BY FS_Subset, FS_CardinalityType
<1>2. G \in [SUBSET S -> Nat]
  BY <1>1
<1>3. ASSUME NEW s \in SUBSET S, NEW x \in s PROVE G[s \ {x}] + map[x] <= G[s]
  <2>1. IsFiniteSet(s) /\ Cardinality(s) \in Nat
    BY <1>1
  <2>2. Cardinality(s \ {x}) = Cardinality(s) - 1
    BY ONLY <1>3, <2>1, FS_RemoveElement
  <2>3. G[s \ {x}] = 100 * (Cardinality(s) - 1) /\ G[s] = 100 * Cardinality(s)
    BY <2>2
  <2>4. map[x] \in 0..100
    OBVIOUS
  <2> HIDE DEF G
  <2> QED BY ONLY <2>1, <2>3, <2>4
<1>4. G[S] = 100 * Cardinality(S) /\ map \in [S -> Nat]
  OBVIOUS
<1> HIDE DEF G
<1>5. h[S] \in 0..G[S]
  BY <1>2, <1>3, <1>4, SumsWithin
<1> QED BY <1>1, <1>4, <1>5

\* The sum of the values of a map.
LEMMA SumOfIs ==
    ASSUME NEW S, IsFiniteSet(S), NEW map \in [S -> Nat]
    PROVE  \E h : Sums(h, S, map) /\ SumOf(map) = h[S]
<1> DEFINE F(h) == [s \in SUBSET S |->
                       IF s = {} THEN 0
                       ELSE map[CHOOSE x \in s : TRUE] + h[s \ {CHOOSE x \in s : TRUE}]]
           u == CHOOSE h : h = F(h)
<1>1. DOMAIN map = S
  OBVIOUS
<1>2. SumOf(map) = u[S]
  BY <1>1 DEF SumOf, MapThenSumSet, MapThenFoldSet
<1>3. map \in [S -> Int]
  OBVIOUS
<1>4. PICK h : h = [s \in SUBSET S |-> h[s]] /\ Sums(h, S, map)
  BY <1>3, SumsExist
<1>5. h = F(h)
  BY <1>4 DEF Sums
<1>6. u = F(u)
  <2> HIDE DEF F
  <2> QED BY <1>5
<1> HIDE DEF u
<1>7. Sums(u, S, map)
  BY <1>6 DEF Sums
<1> QED BY <1>2, <1>7

\* A share of n hundreds is a percentage.
LEMMA ShareIs ==
    ASSUME NEW n \in Nat, n # 0, NEW a \in 0..100 * n
    PROVE  a \div n \in 0..100
<1>1. a \in Nat /\ a <= 100 * n
  OBVIOUS
<1>2. a \div n \in Int /\ n * (a \div n) <= a /\ a < n * (a \div n) + n
  BY <1>1
<1> DEFINE q == a \div n
<1> HIDE DEF q
<1>3. q \in Int /\ n * q <= a /\ a < n * q + n
  BY <1>2 DEF q
<1>4. 0 <= q
  <2> SUFFICES ASSUME q <= -1 PROVE FALSE
    BY <1>3
  <2>1. n * q <= n * (-1)
    BY <1>3
  <2> QED BY <1>1, <1>3, <2>1
<1>5. q <= 100
  <2> SUFFICES ASSUME q >= 101 PROVE FALSE
    BY <1>3
  <2>1. n * q >= n * 101
    BY <1>3
  <2> QED BY <1>1, <1>3, <2>1
<1> QED BY <1>3, <1>4, <1>5 DEF q

\* The average of percentages is one.
LEMMA AverageIs ==
    ASSUME NEW S, IsFiniteSet(S), NEW map \in [S -> 0..100]
    PROVE  Average(map) \in 0..100
<1>1. DOMAIN map = S /\ map \in [S -> Nat]
  OBVIOUS
<1>2. Cardinality(S) \in Nat /\ (Cardinality(S) = 0 <=> S = {})
  BY FS_CardinalityType, FS_EmptySet
<1>3. CASE S = {}
  BY <1>1, <1>3 DEF Average
<1>4. CASE S # {}
  <2>1. PICK h : Sums(h, S, map) /\ SumOf(map) = h[S]
    BY <1>1, SumOfIs
  <2>2. SumOf(map) \in 0..100 * Cardinality(S)
    BY <2>1, PercentSums
  <2>3. SumOf(map) \div Cardinality(S) \in 0..100
    BY ONLY <1>2, <1>4, <2>2, ShareIs
  <2> QED BY <1>1, <1>4, <2>3 DEF Average
<1> QED BY <1>3, <1>4

\* Sets of up to four named elements, from which the larger ones are made.
LEMMA FourFinite == \A a, b, c, d : IsFiniteSet({a, b, c, d})
<1> SUFFICES ASSUME NEW a, NEW b, NEW c, NEW d PROVE IsFiniteSet({a, b, c, d})
  OBVIOUS
<1>1. IsFiniteSet({a} \cup {b}) /\ IsFiniteSet({c} \cup {d})
  BY ONLY FS_Singleton, FS_AddElement
<1>2. IsFiniteSet(({a} \cup {b}) \cup ({c} \cup {d}))
  BY ONLY <1>1, FS_Union
<1>3. {a, b, c, d} = ({a} \cup {b}) \cup ({c} \cup {d})
  OBVIOUS
<1> QED BY ONLY <1>2, <1>3

-----------------------------------------------------------------------------
(***************************************************************************)
(* No governance report fails its own contract: what the commands write is *)
(* in range, complete and of the vocabularies of contracts.py, whatever was*)
(* decided or edited before.                                               *)
(***************************************************************************)

\* The titles of the catalogue.
LEMMA TitlesAre ==
    /\ Titles = {"validate_onboarding", "generate_baselines", "resolve_onboarding", "refresh_onboarding",
                 "reduce_findings", "resolve_drift", "regenerate_roadmap", "build_history",
                 "execute_critical"}
    /\ IsFiniteSet(Titles)
    /\ \A t \in Titles :
          /\ Catalogue[t].impact \in 0..100
          /\ Catalogue[t].priority \in {"P1", "P2", "P3"}
<1>1. Titles = {"validate_onboarding", "generate_baselines", "resolve_onboarding", "refresh_onboarding",
                "reduce_findings", "resolve_drift", "regenerate_roadmap", "build_history",
                "execute_critical"}
  BY DEF Titles, Catalogue
<1>2. IsFiniteSet(Titles)
  <2>1. Titles = ({"validate_onboarding", "generate_baselines", "resolve_onboarding", "refresh_onboarding"}
                    \cup {"reduce_findings", "resolve_drift", "regenerate_roadmap", "build_history"})
                    \cup {"execute_critical"}
    BY <1>1
  <2>2. IsFiniteSet({"validate_onboarding", "generate_baselines", "resolve_onboarding", "refresh_onboarding"}
                      \cup {"reduce_findings", "resolve_drift", "regenerate_roadmap", "build_history"})
    BY ONLY FourFinite, FS_Union
  <2> QED BY ONLY <2>1, <2>2, FS_AddElement
<1>3. ASSUME NEW t \in Titles
      PROVE  Catalogue[t].impact \in 0..100 /\ Catalogue[t].priority \in {"P1", "P2", "P3"}
  BY <1>1 DEF Catalogue, RecoveryAction
<1> QED BY <1>1, <1>2, <1>3

\* The target of a plan is never below the index, nor above 100.
LEMMA TargetIs ==
    ASSUME NEW sc, sc["index"] \in 0..100, NEW titles \in SUBSET Titles
    PROVE  TargetScore(sc, titles) \in sc["index"]..100
<1> DEFINE map == [t \in titles |-> Catalogue[t].impact]
           F(h) == [s \in SUBSET titles |->
                       IF s = {} THEN 0
                       ELSE Catalogue[CHOOSE t \in s : TRUE].impact + h[s \ {CHOOSE t \in s : TRUE}]]
           u == CHOOSE h : h = F(h)
           sum == MapThenSumSet(LAMBDA t : Catalogue[t].impact, titles)
<1>1. sum = u[titles]
  BY DEF MapThenSumSet, MapThenFoldSet
<1>2. IsFiniteSet(titles) /\ map \in [titles -> 0..100] /\ map \in [titles -> Int]
  <2>1. \A t \in titles : Catalogue[t].impact \in 0..100
    BY TitlesAre
  <2>2. IsFiniteSet(titles)
    BY TitlesAre, FS_Subset
  <2> QED BY <2>1, <2>2
<1>3. PICK h : h = [s \in SUBSET titles |-> h[s]] /\ Sums(h, titles, map)
  <2> HIDE DEF map
  <2> QED BY <1>2, SumsExist
<1>4. h = F(h)
  <2>1. \A s \in SUBSET titles :
           s # {} => map[CHOOSE t \in s : TRUE] = Catalogue[CHOOSE t \in s : TRUE].impact
    OBVIOUS
  <2> HIDE DEF map
  <2>2. \A s \in SUBSET titles :
           h[s] = IF s = {} THEN 0
                  ELSE Catalogue[CHOOSE t \in s : TRUE].impact + h[s \ {CHOOSE t \in s : TRUE}]
    BY ONLY <1>3, <2>1 DEF Sums
  <2> QED BY ONLY <1>3, <2>2
<1>5. u = F(u)
  <2> HIDE DEF F
  <2> QED BY <1>4
<1> HIDE DEF u, sum
<1>6. Sums(u, titles, map)
  BY <1>5 DEF Sums
<1> HIDE DEF map, F
<1>7. u[titles] \in Nat
  BY ONLY <1>2, <1>6, PercentSums
<1> QED BY <1>1, <1>7 DEF TargetScore, sum

\* A dossier is judged by finitely many requirements.
LEMMA RequirementsFinite == IsFiniteSet(Requirements)
<1>1. Requirements = {"advisory", "runtime_path", "commands", "rollback"}
                       \cup {"checklist", "prompt", "prompt", "prompt"}
  BY DEF Requirements
<1> QED BY ONLY <1>1, FourFinite, FS_Union

Risks == {"low", "medium", "high", "critical"}

\* The dossiers of the first n reports, edited by hand or not.
Dossiers(n) ==
    [id : (1..n) \X Titles, wave : {"wave_1", "wave_2", "wave_3"}, risk : Risks, flaws : SUBSET Flaws]

DecisionValues == AllowedDecisions \cup {"pending_review"}

\* A fresh dossier, whatever its number.
LEMMA DossierIs ==
    ASSUME NEW t \in Titles, NEW n \in Nat
    PROVE  DossierFor(t, n + 1) \in Dossiers(n + 1)
<1>1. WaveOf(t) \in {"wave_1", "wave_2", "wave_3"}
  BY DEF WaveOf
<1>2. ExecutionRisk(Catalogue[t].priority) \in Risks
  BY DEF ExecutionRisk, Risks
<1>3. <<n + 1, t>> \in (1..(n + 1)) \X Titles
  OBVIOUS
<1>4. (IF Catalogue[t].artifacts > 6 THEN {"scope"} ELSE {}) \in SUBSET Flaws
  BY DEF Flaws
<1> HIDE DEF Titles, Flaws, WaveOf, ExecutionRisk, Catalogue
<1> QED BY ONLY <1>1, <1>2, <1>3, <1>4 DEF DossierFor, Dossiers

\* The evaluation of a dossier.
LEMMA EvaluationIs ==
    ASSUME NEW n, NEW d \in Dossiers(n)
    PROVE  ReadinessContract(EvaluateDossier(d))
<1> DEFINE c == Cardinality(d.flaws \cap Requirements)
           statuses == {"ready_for_review", "needs_review", "blocked", "rejected_advisory", "unknown"}
<1>1. d.risk \in Risks
  BY DEF Dossiers
<1>2. ApprovalStatus(d) \in statuses
  BY DEF ApprovalStatus
<1>3. c \in Nat
  <2>1. d.flaws \cap Requirements \in SUBSET Requirements
    OBVIOUS
  <2> QED BY ONLY <2>1, RequirementsFinite, FS_Subset, FS_CardinalityType
<1>4. ReadinessScore(d) \in 0..100
  <2> DEFINE base == [ready_for_review |-> 90, needs_review |-> 65, blocked |-> 25,
                      rejected_advisory |-> 10, unknown |-> 40][ApprovalStatus(d)]
             lost == CASE d.risk = "critical" -> 20 [] d.risk = "high" -> 10 [] OTHER -> 0
  <2>1. base \in 0..90
    <3> DEFINE a == ApprovalStatus(d)
    <3> HIDE DEF a
    <3> QED BY <1>2 DEF a
  <2>2. lost \in 0..20
    OBVIOUS
  <2> DEFINE held == IF 5 * c > 20 THEN 20 ELSE 5 * c
  <2>3. held \in 0..20
    <3> HIDE DEF c
    <3> QED BY <1>3
  <2>4. ReadinessScore(d) = IF base - lost - held < 0 THEN 0 ELSE base - lost - held
    BY DEF ReadinessScore
  <2> HIDE DEF base, lost, held
  <2> QED BY ONLY <2>1, <2>2, <2>3, <2>4
<1> HIDE DEF c
<1> QED BY <1>1, <1>2, <1>4 DEF EvaluateDossier, ReadinessContract, Risks

\* What a list of valid decisions says of a packet.
LEMMA DecisionIs ==
    ASSUME NEW list, \A i \in DOMAIN list : DecisionValid(list[i]), NEW id
    PROVE  DecisionOn(list, id) \in DecisionValues
<1>1. CASE LastOn(list, id) = {}
  BY <1>1 DEF DecisionOn, DecisionValues
<1>2. CASE LastOn(list, id) # {}
  <2> DEFINE d == CHOOSE e \in LastOn(list, id) : TRUE
  <2>1. d \in LastOn(list, id) /\ DecisionOn(list, id) = d.decision
    BY <1>2 DEF DecisionOn
  <2> HIDE DEF d
  <2>2. \E i \in DOMAIN list : d = list[i]
    BY <2>1 DEF LastOn
  <2> QED BY <2>1, <2>2 DEF DecisionValid, DecisionValues
<1> QED BY <1>1, <1>2

\* The item of a packet.
LEMMA ItemIs ==
    ASSUME NEW p, \A i \in DOMAIN decided : DecisionValid(decided[i])
    PROVE  QueueContract(QueueItem(p))
<1>1. DecisionOn(decided, p.id) \in DecisionValues
  BY DecisionIs
<1> DEFINE status == QueueStatus(DecisionOn(decided, p.id))
<1>2. status \in {"approved_manual", "deferred", "needs_changes", "pending_review", "rejected"}
  <2> DEFINE v == DecisionOn(decided, p.id)
  <2> HIDE DEF v
  <2>1. \A w \in DecisionValues :
           QueueStatus(w) \in {"approved_manual", "deferred", "needs_changes", "pending_review", "rejected"}
    BY DEF QueueStatus, DecisionValues, AllowedDecisions
  <2> QED BY <1>1, <2>1 DEF v
<1>3. QueuePriority(status) \in {"P1", "P2", "P3", "P4"}
  <2> HIDE DEF status
  <2> QED BY DEF QueuePriority
<1> QED BY <1>2, <1>3 DEF QueueItem, QueueContract

\* What the reports are made of, each of the latest one.
DossiersInv ==
    /\ dossierReports \in 0..MaxDossiers
    /\ DOMAIN dossiers \subseteq Titles
    /\ dossiers \in [DOMAIN dossiers -> Dossiers(dossierReports)]

ReadinessInv ==
    /\ DOMAIN readiness \subseteq Titles
    /\ \A t \in DOMAIN readiness : ReadinessContract(readiness[t])

PacketsInv ==
    /\ packetReports \in 0..MaxPackets
    /\ DOMAIN packets \subseteq Titles
    /\ \A t \in DOMAIN packets : PacketContract(packets[t])

RecoveryInv ==
    /\ scores \in ScoreSets /\ plan \subseteq Titles
    /\ changes \in 0..MaxScoreChanges /\ amends \in 0..MaxAmends

ManualInv == \A t \in DOMAIN manualQueue : QueueContract(manualQueue[t])

ContractsInv == FlowInv /\ RecoveryInv /\ DossiersInv /\ ReadinessInv /\ PacketsInv /\ ManualInv

\* A dossier of the latest report is contained in a packet as it is.
LEMMA DossierPasses ==
    ASSUME NEW d \in Dossiers(dossierReports) PROVE DossierContract(d)
BY DEF Dossiers, DossierContract, Risks

\* Later reports do not take dossiers back.
LEMMA DossiersGrow ==
    ASSUME NEW n \in Nat PROVE Dossiers(n) \subseteq Dossiers(n + 1)
<1>1. (1..n) \X Titles \subseteq (1..(n + 1)) \X Titles
  OBVIOUS
<1> HIDE DEF Titles, Flaws, Risks
<1> QED BY <1>1 DEF Dossiers

\* Every recorded decision is valid, and so is every reported one.
LEMMA DecisionsAreValid ==
    ASSUME FlowInv
    PROVE  /\ \A i \in DOMAIN decisions : DecisionValid(decisions[i])
           /\ \A i \in DOMAIN decided : DecisionValid(decided[i])
BY DEF FlowInv, DecisionsInv, DecisionInv, ReportInv

\* Before the first command there are no reports to fail.
LEMMA ContractsInit == GovernanceInit => ContractsInv
<1> SUFFICES ASSUME GovernanceInit PROVE ContractsInv
  OBVIOUS
<1>1. FlowInv
  BY FlowInit
<1>2. scores \in ScoreSets /\ changes = 0 /\ amends = 0 /\ plan = {} /\ dossiers = <<>> /\ dossierReports = 0
      /\ readiness = <<>> /\ packets = <<>> /\ packetReports = 0 /\ manualQueue = <<>>
  BY DEF GovernanceInit
<1>3. DOMAIN <<>> = {}
  OBVIOUS
<1>4. RecoveryInv
  BY <1>2, ScoresAssumption DEF RecoveryInv
<1>5. DossiersInv
  BY <1>2, <1>3, ScoresAssumption DEF DossiersInv
<1>6. ReadinessInv /\ PacketsInv /\ ManualInv
  BY <1>2, <1>3, ScoresAssumption DEF ReadinessInv, PacketsInv, ManualInv
<1> QED BY <1>1, <1>4, <1>5, <1>6 DEF ContractsInv

\* What a contract says, when only other reports change.
LEMMA ContractsFrame ==
    /\ RecoveryInv /\ UNCHANGED <<scores, plan, changes, amends>> => RecoveryInv'
    /\ DossiersInv /\ UNCHANGED <<dossiers, dossierReports>> => DossiersInv'
    /\ ReadinessInv /\ UNCHANGED readiness => ReadinessInv'
    /\ PacketsInv /\ UNCHANGED <<packets, packetReports, dossierReports>> => PacketsInv'
    /\ ManualInv /\ UNCHANGED manualQueue => ManualInv'
<1>1. RecoveryInv /\ UNCHANGED <<scores, plan, changes, amends>> => RecoveryInv'
  BY DEF RecoveryInv
<1>2. DossiersInv /\ UNCHANGED <<dossiers, dossierReports>> => DossiersInv'
  BY DEF DossiersInv
<1>3. ReadinessInv /\ UNCHANGED readiness => ReadinessInv'
  BY DEF ReadinessInv
<1>4. PacketsInv /\ UNCHANGED <<packets, packetReports, dossierReports>> => PacketsInv'
  BY DEF PacketsInv, PacketContract, DossierContract
<1>5. ManualInv /\ UNCHANGED manualQueue => ManualInv'
  BY DEF ManualInv
<1> QED BY <1>1, <1>2, <1>3, <1>4, <1>5

\* An index that is assessed anew leaves the reports as they are.
LEMMA ReassessKeeps == ContractsInv /\ FlowInv' /\ ReassessIndex => ContractsInv'
<1> SUFFICES ASSUME ContractsInv, FlowInv', ReassessIndex PROVE ContractsInv'
  OBVIOUS
<1>1. RecoveryInv'
  BY ScoresAssumption DEF ContractsInv, RecoveryInv, ReassessIndex
<1> QED BY <1>1, ContractsFrame DEF ContractsInv, ReassessIndex

\* A recovery plan targets titles of what is weak in the index.
LEMMA PlanKeeps == ContractsInv /\ FlowInv' /\ PlanRecovery => ContractsInv'
<1> SUFFICES ASSUME ContractsInv, FlowInv', PlanRecovery PROVE ContractsInv'
  OBVIOUS
<1>1. RecoveryInv'
  BY DEF ContractsInv, RecoveryInv, PlanRecovery, Planned
<1> QED BY <1>1, ContractsFrame DEF ContractsInv, PlanRecovery

\* The next report's dossiers have its number in their ids.
LEMMA WriteDossiersKeeps == ContractsInv /\ FlowInv' /\ WriteDossiers => ContractsInv'
<1> SUFFICES ASSUME ContractsInv, FlowInv', WriteDossiers PROVE ContractsInv'
  OBVIOUS
<1>1. dossierReports \in Nat /\ dossierReports' = dossierReports + 1 /\ dossierReports' \in 0..MaxDossiers
  BY ScoresAssumption DEF ContractsInv, DossiersInv, WriteDossiers
<1>2. plan \subseteq Titles /\ dossiers' = [t \in plan |-> DossierFor(t, dossierReports + 1)]
  BY DEF ContractsInv, RecoveryInv, WriteDossiers
<1>3. \A t \in plan : DossierFor(t, dossierReports + 1) \in Dossiers(dossierReports + 1)
  BY <1>1, <1>2, DossierIs
<1>4. DossiersInv'
  <2>1. DOMAIN dossiers' = plan /\ dossiers' \in [plan -> Dossiers(dossierReports + 1)]
    <3> HIDE DEF Titles
    <3> QED BY ONLY <1>2, <1>3
  <2> HIDE DEF Titles
  <2> QED BY <1>1, <1>2, <2>1 DEF DossiersInv, Dossiers
<1>5. PacketsInv'
  <2>1. packets' = packets /\ packetReports' = packetReports
    BY DEF WriteDossiers
  <2>2. \A d : DossierContract(d) => DossierContract(d)'
    <3> HIDE DEF Titles, Flaws
    <3>1. (1..dossierReports) \X Titles \subseteq (1..dossierReports') \X Titles
      BY <1>1
    <3> QED BY <3>1 DEF DossierContract
  <2> QED BY <2>1, <2>2 DEF ContractsInv, PacketsInv, PacketContract
<1> QED BY <1>4, <1>5, ContractsFrame DEF ContractsInv, WriteDossiers

\* An edit by hand leaves a dossier of its report.
LEMMA AmendKeeps ==
    ASSUME ContractsInv, FlowInv', NEW t \in Titles, NEW f \in HandFlaws, AmendDossier(t, f)
    PROVE  ContractsInv'
<1>1. RecoveryInv'
  BY ScoresAssumption DEF ContractsInv, RecoveryInv, AmendDossier
<1>2. DossiersInv'
  <2>1. dossiers' = [dossiers EXCEPT ![t].flaws = {f}] /\ dossierReports' = dossierReports
        /\ t \in DOMAIN dossiers
    BY DEF AmendDossier
  <2>2. {f} \in SUBSET Flaws
    BY HandFlawsAssumption DEF Flaws, Requirements
  <2>3. [dossiers[t] EXCEPT !.flaws = {f}] \in Dossiers(dossierReports)
    <3>1. dossiers[t] \in Dossiers(dossierReports)
      BY <2>1 DEF ContractsInv, DossiersInv
    <3> HIDE DEF Titles, Flaws
    <3> QED BY <2>2, <3>1 DEF Dossiers
  <2>4. DOMAIN dossiers' = DOMAIN dossiers /\ dossiers' \in [DOMAIN dossiers -> Dossiers(dossierReports)]
    BY <2>1, <2>3 DEF ContractsInv, DossiersInv
  <2> QED BY <2>1, <2>4 DEF ContractsInv, DossiersInv, Dossiers
<1> QED BY <1>1, <1>2, ContractsFrame DEF ContractsInv, AmendDossier

\* The evaluation of a dossier is in range and of one of the verdicts.
LEMMA EvaluateKeeps == ContractsInv /\ FlowInv' /\ EvaluateReadiness => ContractsInv'
<1> SUFFICES ASSUME ContractsInv, FlowInv', EvaluateReadiness PROVE ContractsInv'
  OBVIOUS
<1>1. ReadinessInv'
  <2>1. readiness' = [t \in DOMAIN dossiers |-> EvaluateDossier(dossiers[t])]
    BY DEF EvaluateReadiness
  <2>2. \A t \in DOMAIN dossiers : ReadinessContract(EvaluateDossier(dossiers[t]))
    BY EvaluationIs DEF ContractsInv, DossiersInv
  <2>3. DOMAIN dossiers \subseteq Titles
    BY DEF ContractsInv, DossiersInv
  <2>4. DOMAIN readiness' = DOMAIN dossiers /\ \A t \in DOMAIN dossiers : readiness'[t] = EvaluateDossier(dossiers[t])
    BY ONLY <2>1
  <2>5. \A x : ReadinessContract(x)' <=> ReadinessContract(x)
    BY DEF ReadinessContract
  <2> QED BY <2>2, <2>3, <2>4, <2>5 DEF ReadinessInv, ReadinessContract
<1> QED BY <1>1, ContractsFrame DEF ContractsInv, EvaluateReadiness

\* A packet contains a dossier and its evaluation as they are.
LEMMA WritePacketsKeeps == ContractsInv /\ FlowInv' /\ WritePackets => ContractsInv'
<1> SUFFICES ASSUME ContractsInv, FlowInv', WritePackets PROVE ContractsInv'
  OBVIOUS
<1>1. packetReports \in Nat /\ packetReports' = packetReports + 1 /\ packetReports' \in 0..MaxPackets
      /\ dossierReports' = dossierReports
  BY ScoresAssumption DEF ContractsInv, PacketsInv, WritePackets
<1> DEFINE R == {u \in DOMAIN readiness : readiness[u].status \in Reviewable}
<1>2. R \subseteq Titles /\ packets' = [t \in R |-> BuildPacket(t, packetReports + 1)]
  BY DEF ContractsInv, ReadinessInv, WritePackets
<1>3. ASSUME NEW t \in R, NEW p, p = BuildPacket(t, packetReports + 1)
      PROVE  /\ p.id \in (1..(packetReports + 1)) \X Titles
             /\ p.status \in {"ready_for_review", "needs_review", "blocked", "rejected_advisory", "unknown"}
             /\ \A d \in p.body : DossierContract(d)
  <2>1. p.id = <<packetReports + 1, t>> /\ p.status = readiness[t].status /\ p.body = QuotedDossier(t)
    BY <1>3 DEF BuildPacket, PacketId
  <2>2. p.id \in (1..(packetReports + 1)) \X Titles
    <3>1. t \in Titles
      BY <1>2
    <3> HIDE DEF Titles
    <3> QED BY ONLY <1>1, <2>1, <3>1
  <2>3. \A d \in QuotedDossier(t) : DossierContract(d)
    BY DossierPasses DEF QuotedDossier, ContractsInv, DossiersInv
  <2>4. p.status \in {"ready_for_review", "needs_review", "blocked", "rejected_advisory", "unknown"}
    BY <2>1 DEF Reviewable
  <2> QED BY ONLY <2>1, <2>2, <2>3, <2>4
<1>4. PacketsInv'
  <2>1. DOMAIN packets' = R /\ \A t \in R : packets'[t] = BuildPacket(t, packetReports + 1)
    BY ONLY <1>2
  <2>2. \A d : DossierContract(d) => DossierContract(d)'
    BY <1>1 DEF DossierContract
  <2>3. \A t \in R :
          /\ packets'[t].id \in (1..packetReports') \X Titles
          /\ packets'[t].status \in {"ready_for_review", "needs_review", "blocked", "rejected_advisory", "unknown"}
          /\ \A d \in packets'[t].body : DossierContract(d)'
    <3> SUFFICES ASSUME NEW t \in R, NEW p, p = packets'[t]
                 PROVE /\ p.id \in (1..packetReports') \X Titles
                       /\ p.status \in {"ready_for_review", "needs_review", "blocked", "rejected_advisory", "unknown"}
                       /\ \A d \in p.body : DossierContract(d)'
      OBVIOUS
    <3> HIDE DEF Titles
    <3> QED BY <1>1, <1>3, <2>1, <2>2
  <2> HIDE DEF Titles
  <2> QED BY <1>1, <1>2, <2>1, <2>3 DEF PacketsInv, PacketContract
<1> QED BY <1>4, ContractsFrame DEF ContractsInv, WritePackets

\* A queue item takes its status from the decision on its packet.
LEMMA BuildQueueKeeps == ContractsInv /\ FlowInv' /\ BuildManualQueue => ContractsInv'
<1> SUFFICES ASSUME ContractsInv, FlowInv', BuildManualQueue PROVE ContractsInv'
  OBVIOUS
<1>1. ManualInv'
  <2>1. manualQueue' = [t \in DOMAIN packets |-> QueueItem(packets[t])]
    BY DEF BuildManualQueue
  <2>2. \A t \in DOMAIN packets : QueueContract(QueueItem(packets[t]))
    BY DecisionsAreValid, ItemIs DEF ContractsInv
  <2>3. \A t \in DOMAIN manualQueue' : manualQueue'[t] = QueueItem(packets[t]) /\ t \in DOMAIN packets
    BY ONLY <2>1
  <2> QED BY <2>2, <2>3 DEF ManualInv, QueueContract
<1> QED BY <1>1, ContractsFrame DEF ContractsInv, BuildManualQueue

\* The inductive invariant of the commands from the index to the manual queue.
LEMMA ContractsStep ==
    ContractsInv /\ FlowInv' /\ [GovernanceNext]_governanceVars => ContractsInv'
<1> SUFFICES ASSUME ContractsInv, FlowInv', [GovernanceNext]_governanceVars PROVE ContractsInv'
  OBVIOUS
<1>1. CASE UNCHANGED governanceVars
  BY <1>1, ContractsFrame DEF ContractsInv, governanceVars
<1>2. CASE ReassessIndex \/ PlanRecovery \/ WriteDossiers
  BY <1>2, ReassessKeeps, PlanKeeps, WriteDossiersKeeps
<1>3. CASE EvaluateReadiness \/ WritePackets \/ BuildManualQueue
  BY <1>3, EvaluateKeeps, WritePacketsKeeps, BuildQueueKeeps
<1>4. CASE \E t \in Titles, f \in HandFlaws : AmendDossier(t, f)
  BY <1>4, AmendKeeps
<1>5. CASE \E t \in Titles, decision \in AllowedDecisions, export \in BOOLEAN :
              \E acks \in AcksGiven(decision) : RecordDecision(t, decision, acks, export)
  BY <1>5, ContractsFrame DEF ContractsInv, RecordDecision
<1>6. CASE ExportDecisions
  BY <1>6, ContractsFrame DEF ContractsInv, ExportDecisions
<1> QED BY <1>1, <1>2, <1>3, <1>4, <1>5, <1>6 DEF GovernanceNext

\* Whatever the operator decides and edits, every report of the way is as its
\* contract says.
THEOREM ContractsInvariant == GovernanceSpec => []ContractsInv
<1>1. ContractsInv /\ FlowInv' /\ [GovernanceNext]_governanceVars => ContractsInv'
  BY ContractsStep
<1> QED BY ContractsInit, <1>1, FlowInvariant, PTL DEF GovernanceSpec

\* The contracts, field by field, are what the commands check.
LEMMA ContractsTyped == ContractsInv => GovernanceTypeOK
<1> SUFFICES ASSUME ContractsInv PROVE GovernanceTypeOK
  OBVIOUS
<1>1. PlanContract
  <2>1. Planned(scores) \in SUBSET Titles /\ scores["index"] \in 0..100
    BY ScoresAssumption DEF Planned, ContractsInv, RecoveryInv
  <2> QED BY <2>1, TargetIs DEF PlanContract, ContractsInv, RecoveryInv
<1>2. \A t \in DOMAIN dossiers : DossierContract(dossiers[t])
  BY DossierPasses DEF ContractsInv, DossiersInv
<1>3. DecisionReportContract
  <2>1. \A t \in DOMAIN packets : DecisionOn(decisions, packets[t].id) \in DecisionValues
    BY DecisionsAreValid, DecisionIs DEF ContractsInv
  <2>2. \A i \in DOMAIN decisions : DecisionValid(decisions[i])
    BY DecisionsAreValid DEF ContractsInv
  <2> QED BY <2>1, <2>2 DEF DecisionReportContract, PacketsDecided, DecisionValues
<1> QED BY <1>1, <1>2, <1>3 DEF GovernanceTypeOK, ContractsInv, RecoveryInv, DossiersInv, ReadinessInv,
                               PacketsInv, ManualInv

\* Every command's report passes the contract it checks before it writes.
THEOREM GovernanceReportsPass == GovernanceSpec => []GovernanceTypeOK
BY ContractsTyped, ContractsInvariant, PTL

-----------------------------------------------------------------------------
(***************************************************************************)
(* No portfolio report fails its own contract, in any world and from any   *)
(* earlier reports, so that no generator of a round raises.                *)
(***************************************************************************)

\* There are finitely many repositories, listed in an order.
LEMMA ReposFinite == IsFiniteSet(Repos) /\ Len(RepoOrder) \in Nat /\ DOMAIN RepoOrder = 1..Len(RepoOrder)
<1>1. Len(RepoOrder) \in Nat /\ DOMAIN RepoOrder = 1..Len(RepoOrder)
  BY PortfolioAssumption
<1>2. RepoOrder \in [1..Len(RepoOrder) -> Repos]
  BY PortfolioAssumption
<1>3. \A r \in Repos : \E i \in 1..Len(RepoOrder) : RepoOrder[i] = r
  BY DEF Repos
<1>4. RepoOrder \in Surjection(1..Len(RepoOrder), Repos)
  BY <1>2, <1>3 DEF Surjection
<1>5. IsFiniteSet(1..Len(RepoOrder))
  BY ONLY <1>1, FS_Interval, 1 \in Int
<1> QED BY ONLY <1>1, <1>4, <1>5, FS_Surjection

\* max(0, min(100, n)) is a percentage.
LEMMA ClampIs == ASSUME NEW n \in Int PROVE Clamp(n) \in 0..100
BY DEF Clamp, Least

\* The fields of a repository in a world.
LEMMA WorldIs ==
    ASSUME NEW w \in Worlds, NEW r \in Repos
    PROVE  /\ w[r].registered \in BOOLEAN /\ w[r].exists \in BOOLEAN
           /\ w[r].structure \in SUBSET {"readme", "docs", "src", "tests"}
           /\ w[r].artifacts \in 0..3
           /\ w[r].remediation \in Nat /\ w[r].intel \in Nat /\ w[r].queued \in Nat
           /\ w[r].dossiers \in Nat /\ w[r].highRisk \in Nat
           /\ w[r].queueReady \in Int /\ w[r].dossierReady \in Int
<1> DEFINE P == [registered : BOOLEAN, enabled : BOOLEAN, exists : BOOLEAN,
                 structure : SUBSET {"readme", "docs", "src", "tests"}, artifacts : 0 .. 3,
                 remediation : Nat, intel : Nat, queued : Nat, queueReady : Int,
                 dossiers : Nat, dossierReady : Int, highRisk : Nat]
<1>1. w \in [Repos -> P]
  BY PortfolioAssumption
<1>2. w[r] \in P
  <2> HIDE DEF P
  <2> QED BY <1>1
<1> QED BY ONLY <1>2

\* The points for what a repository has are a natural number.
LEMMA StructureSum ==
    ASSUME NEW S \in SUBSET {"readme", "docs", "src", "tests"}
    PROVE  MapThenSumSet(LAMBDA s : Points[s], S) \in Nat
<1> DEFINE map == [x \in S |-> Points[x]]
           F(h) == [s \in SUBSET S |->
                       IF s = {} THEN 0
                       ELSE Points[CHOOSE x \in s : TRUE] + h[s \ {CHOOSE x \in s : TRUE}]]
           u == CHOOSE h : h = F(h)
           sum == MapThenSumSet(LAMBDA s : Points[s], S)
<1>1. sum = u[S]
  BY DEF MapThenSumSet, MapThenFoldSet
<1>2. IsFiniteSet(S)
  <2>1. IsFiniteSet({"readme", "docs", "src", "tests"})
    BY FourFinite
  <2> QED BY <2>1, FS_Subset
<1>3. map \in [S -> 0..100] /\ map \in [S -> Int]
  <2>1. \A x \in S : Points[x] \in 0..100
    BY DEF Points
  <2> QED BY <2>1
<1>4. PICK h : h = [s \in SUBSET S |-> h[s]] /\ Sums(h, S, map)
  <2> HIDE DEF map
  <2> QED BY <1>2, <1>3, SumsExist
<1>5. h = F(h)
  BY <1>4 DEF Sums
<1>6. u = F(u)
  <2> HIDE DEF F
  <2> QED BY <1>5
<1> HIDE DEF u, sum
<1>7. Sums(u, S, map)
  BY <1>6 DEF Sums
<1> HIDE DEF map, F
<1>8. u[S] \in Nat
  <2>1. Cardinality(S) \in Nat /\ u[S] \in 0..100 * Cardinality(S)
    BY ONLY <1>2, <1>3, <1>7, PercentSums
  <2> QED BY ONLY <2>1
<1> QED BY <1>1, <1>8 DEF sum

ArtifactStates == {"none", "partial", "complete", "unknown"}
Records == [discovered : BOOLEAN, readiness : 0 .. 100, status : ArtifactStates,
            state : {"discovered", "registered", "assessed", "onboarded"}]

\* The onboarding record of a repository has its fields in range.
LEMMA RecordIs ==
    ASSUME NEW w \in Worlds, NEW r \in Repos
    PROVE  OnboardingRecord(w[r]) \in Records
<1> DEFINE p == w[r]
<1>1. p.exists \in BOOLEAN /\ p.artifacts \in 0..3 /\ p.structure \in SUBSET {"readme", "docs", "src", "tests"}
  BY WorldIs
<1> HIDE DEF p
<1>2. ReadinessEstimate(p) \in 0..100
  <2>1. MapThenSumSet(LAMBDA s : Points[s], p.structure) \in Nat
    BY <1>1, StructureSum
  <2> DEFINE sum == MapThenSumSet(LAMBDA s : Points[s], p.structure)
             share == (p.artifacts * 25) \div 3
  <2>2. share \in Int
    BY <1>1
  <2> HIDE DEF sum, share
  <2>3. Clamp(sum + share) \in 0..100
    BY <2>1, <2>2, ClampIs DEF sum
  <2>4. ReadinessEstimate(p) = IF ~p.exists THEN 0 ELSE Clamp(sum + share)
    BY DEF ReadinessEstimate, sum, share
  <2> QED BY <2>3, <2>4
<1>3. ArtifactStatus(p) \in ArtifactStates
  BY DEF ArtifactStatus, ArtifactStates
<1>4. OnboardingState(p) \in {"discovered", "registered", "assessed", "onboarded"}
  <2> HIDE DEF ArtifactStatus, ReadinessEstimate
  <2> QED BY DEF OnboardingState
<1> HIDE DEF ArtifactStates
<1>5. OnboardingRecord(p) \in Records
  BY ONLY <1>1, <1>2, <1>3, <1>4 DEF OnboardingRecord, Records
<1> QED BY <1>5 DEF p

-----------------------------------------------------------------------------
(* What a report of each generator is, in enough detail for those that read it *)

\* A list of a report: an entry for some of the repositories.
Entries(map, V) == DOMAIN map \subseteq Repos /\ \A r \in DOMAIN map : map[r] \in V

StatusRecords == [health : 0 .. 100, readiness : 0 .. 100, overall : Statuses]

EdgeFindingSet ==
    [repo : Repos, dep : Repos,
     category : {"dependency_unknown", "dependency_blocked", "dependency_risk", "dependency_missing"},
     severity : {"high", "medium"}]

ItemRecords == [horizon : {"near_term", "mid_term", "long_term"}, wave : {"wave_1", "wave_2", "wave_3"}]

IsBootstrap(rep) == Entries(rep.records, Records) /\ rep.average \in 0..100

IsOnboarding(rep) == Entries(rep.priority, Priorities)

IsPortfolio(rep) ==
    Entries(rep.statuses, StatusRecords) /\ rep.health \in 0..100 /\ rep.readiness \in 0..100

IsDependencies(rep) ==
    /\ rep.graph = DependencyGraph
    /\ rep.findings \in SUBSET EdgeFindingSet /\ IsFiniteSet(rep.findings)
    /\ IsFiniteSet(rep.chains)

IsCriticalPath(rep) ==
    /\ Entries(rep.scores, 0..100) /\ Entries(rep.priority, Priorities)
    /\ DOMAIN rep.priority = DOMAIN rep.scores

IsRoadmap(rep) == Entries(rep.items, ItemRecords) /\ rep.waves \in Nat

IsProgress(rep) ==
    /\ rep.improving \in Nat /\ rep.stable \in Nat /\ rep.declining \in Nat
    /\ ProgressContract(rep)

IsDrift(rep) == IsFiniteSet(rep.findings) /\ DriftContract(rep)

Is(k, rep) ==
    /\ k = "bootstrap" => IsBootstrap(rep)
    /\ k = "onboarding" => IsOnboarding(rep)
    /\ k = "portfolio" => IsPortfolio(rep)
    /\ k = "dependencies" => IsDependencies(rep)
    /\ k = "critical_path" => IsCriticalPath(rep)
    /\ k = "roadmap" => IsRoadmap(rep)
    /\ k = "progress" => IsProgress(rep)
    /\ k = "drift" => IsDrift(rep)
    /\ k = "index" => IndexContract(rep)

\* Reports each of which is absent or what its generator makes.
Made(L) == \A k \in Kinds : L[k].present \in BOOLEAN /\ (L[k].present => Is(k, L[k]))

\* The lists that the generators read, of a report that may be absent.
LEMMA ListsAre ==
    ASSUME NEW L, Made(L)
    PROVE  /\ Entries(Field(L["bootstrap"], "records"), Records)
           /\ Entries(Field(L["onboarding"], "priority"), Priorities)
           /\ Entries(Field(L["portfolio"], "statuses"), StatusRecords)
           /\ Entries(Field(L["critical_path"], "priority"), Priorities)
           /\ Entries(Field(L["critical_path"], "scores"), 0..100)
           /\ Entries(Field(L["roadmap"], "items"), ItemRecords)
<1>1. \A V : Entries(<<>>, V)
  BY DEF Entries
<1> HIDE DEF Records, Entries
<1>2. Entries(Field(L["bootstrap"], "records"), Records)
  BY <1>1, StagesAre DEF Made, Is, IsBootstrap, Field
<1>3. Entries(Field(L["onboarding"], "priority"), Priorities)
  BY <1>1, StagesAre DEF Made, Is, IsOnboarding, Field
<1>4. Entries(Field(L["portfolio"], "statuses"), StatusRecords)
  BY <1>1, StagesAre DEF Made, Is, IsPortfolio, Field
<1>5. Entries(Field(L["critical_path"], "priority"), Priorities) /\ Entries(Field(L["critical_path"], "scores"), 0..100)
  BY <1>1, StagesAre DEF Made, Is, IsCriticalPath, Field
<1>6. Entries(Field(L["roadmap"], "items"), ItemRecords)
  BY <1>1, StagesAre DEF Made, Is, IsRoadmap, Field
<1> QED BY <1>2, <1>3, <1>4, <1>5, <1>6

\* What the dependency report lists, which may be absent too.
LEMMA DependencyListsAre ==
    ASSUME NEW L, Made(L)
    PROVE  /\ RiskFindings(L) \in SUBSET EdgeFindingSet /\ IsFiniteSet(RiskFindings(L))
           /\ IsFiniteSet(ReportedChains(L))
           /\ Field(L["dependencies"], "graph") \in {DependencyGraph, <<>>}
<1>1. IsFiniteSet({}) /\ {} \in SUBSET EdgeFindingSet
  BY FS_EmptySet
<1>2. L["dependencies"].present => IsDependencies(L["dependencies"])
  BY StagesAre DEF Made, Is
<1> HIDE DEF EdgeFindingSet, DependencyGraph
<1> QED BY <1>1, <1>2 DEF IsDependencies, RiskFindings, ReportedChains, Field

\* What dict.get finds in a list of a report, or its default.
LEMMA FindIn ==
    ASSUME NEW map, NEW V, Entries(map, V), NEW r, NEW default \in V
    PROVE  Lookup(map, r, default) \in V
BY DEF Entries, Lookup

\* Registered repositories are repositories.
LEMMA RegisteredIs ==
    ASSUME NEW w
    PROVE  Registered(w) \subseteq Repos /\ IsFiniteSet(Registered(w))
<1>1. Registered(w) \in SUBSET Repos
  BY DEF Registered
<1> QED BY <1>1, ReposFinite, FS_Subset

\* The bootstrap generator writes records and an average in range.
LEMMA BootstrapMakes ==
    ASSUME NEW w \in Worlds
    PROVE  Bootstrap(w).present = TRUE /\ IsBootstrap(Bootstrap(w))
<1> DEFINE R == Registered(w)
           records == [r \in R |-> OnboardingRecord(w[r])]
           ratings == [r \in DOMAIN records |-> records[r].readiness]
<1>1. R \subseteq Repos /\ IsFiniteSet(R)
  BY RegisteredIs
<1>2. \A r \in R : OnboardingRecord(w[r]) \in Records
  BY <1>1, RecordIs
<1> HIDE DEF R
<1>3. DOMAIN records = R /\ \A r \in R : records[r] \in Records
  BY <1>2
<1> HIDE DEF records
<1>4. Entries(records, Records)
  BY <1>1, <1>3 DEF Entries
<1>5. ratings \in [R -> 0..100]
  BY <1>3 DEF Records
<1>6. Average(ratings) \in 0..100
  <2> HIDE DEF ratings
  <2> QED BY <1>1, <1>5, AverageIs
<1> HIDE DEF ratings
<1>7. Bootstrap(w) = [present |-> TRUE, records |-> records, average |-> Average(ratings)]
  BY DEF Bootstrap, records, R, ratings
<1> QED BY <1>4, <1>6, <1>7 DEF IsBootstrap

\* The onboarding generator gives every record a priority.
LEMMA OnboardingMakes ==
    ASSUME NEW L, Made(L)
    PROVE  Onboarding(L).present = TRUE /\ IsOnboarding(Onboarding(L))
<1> DEFINE records == Field(L["bootstrap"], "records")
           priority == [r \in DOMAIN records |-> OnboardingPriority(records[r])]
<1>1. DOMAIN records \subseteq Repos
  BY ListsAre DEF Entries
<1>2. \A rec : OnboardingPriority(rec) \in Priorities
  BY DEF OnboardingPriority, Priorities
<1>3. Onboarding(L) = [present |-> TRUE, priority |-> priority]
  BY DEF Onboarding
<1> HIDE DEF records
<1>4. Entries(priority, Priorities)
  BY <1>1, <1>2 DEF Entries
<1> HIDE DEF priority
<1> QED BY <1>3, <1>4 DEF IsOnboarding

\* The readiness of a repository averages the sources it has.
LEMMA NormalReadinessIs ==
    ASSUME NEW w \in Worlds, NEW r \in Repos, NEW estimate \in 0..100
    PROVE  NormalReadiness(w[r], estimate) \in 0..100
<1> DEFINE p == w[r]
           vals == [q |-> p.queueReady, d |-> p.dossierReady, b |-> estimate]
           used == {s \in {"q", "d", "b"} :
                       \/ s = "q" /\ p.queued > 0
                       \/ s = "d" /\ p.dossiers > 0
                       \/ s = "b" /\ estimate > 0}
           map == [s \in used |-> Clamp(vals[s])]
<1>1. p.queueReady \in Int /\ p.dossierReady \in Int
  BY WorldIs
<1>2. used \in SUBSET {"q", "d", "b"}
  OBVIOUS
<1>3. IsFiniteSet(used)
  <2>1. {"q", "d", "b"} = {"q", "d", "b", "b"}
    OBVIOUS
  <2>2. IsFiniteSet({"q", "d", "b"})
    BY ONLY <2>1, FourFinite
  <2> HIDE DEF used
  <2> QED BY <1>2, <2>2, FS_Subset
<1> HIDE DEF used
<1>4. \A s \in used : vals[s] \in Int
  <2> HIDE DEF p
  <2> QED BY <1>1, <1>2
<1> HIDE DEF vals
<1>5. \A s \in used : Clamp(vals[s]) \in 0..100
  BY <1>4, ClampIs
<1>6. map \in [used -> 0..100]
  BY <1>5
<1>7. Average(map) \in 0..100
  <2> HIDE DEF map
  <2> QED BY <1>3, <1>6, AverageIs
<1>8. NormalReadiness(w[r], estimate) = Average(map)
  BY DEF NormalReadiness, used, vals, map, p
<1> QED BY <1>7, <1>8

\* Health loses points for what is open, down to zero.
LEMMA StatusIs ==
    ASSUME NEW w \in Worlds, NEW r \in Repos, NEW estimate \in 0..100
    PROVE  RepositoryStatus(w[r], estimate) \in StatusRecords
<1> DEFINE p == w[r]
           ready == NormalReadiness(p, estimate)
           health == HealthScore(p, ready)
<1>1. p.remediation \in Nat /\ p.intel \in Nat /\ p.highRisk \in Nat
  BY WorldIs
<1>2. ready \in 0..100
  BY NormalReadinessIs
<1> HIDE DEF p, ready
<1>3. health \in 0..100
  <2> DEFINE lost == Least(40, p.remediation * 4)
             worn == Least(20, p.intel * 6)
             risk == Least(20, p.highRisk * 7)
             stuck == IF p.queued > 0 /\ p.dossiers = 0 THEN 15 ELSE 0
             idle == IF p.queued = 0 /\ p.remediation > 0 THEN 10 ELSE 0
             low == IF ready < 50 THEN 10 ELSE 0
  <2>1. lost \in Int /\ worn \in Int /\ risk \in Int
    BY <1>1 DEF Least
  <2>2. stuck \in Int /\ idle \in Int /\ low \in Int
    OBVIOUS
  <2>3. health = Clamp(100 - lost - worn - risk - stuck - idle - low)
    BY DEF HealthScore
  <2> HIDE DEF lost, worn, risk, stuck, idle, low, health
  <2>4. 100 - lost - worn - risk - stuck - idle - low \in Int
    BY ONLY <2>1, <2>2
  <2> QED BY <2>3, <2>4, ClampIs
<1> HIDE DEF health
<1>4. StatusFromScores(health, ready) \in Statuses
  BY DEF StatusFromScores, Statuses
<1>5. RepositoryStatus(p, estimate) = [health |-> health, readiness |-> ready,
                                       overall |-> StatusFromScores(health, ready)]
  BY DEF RepositoryStatus, health, ready
<1> HIDE DEF Statuses, StatusFromScores
<1>6. RepositoryStatus(p, estimate) \in StatusRecords
  BY ONLY <1>2, <1>3, <1>4, <1>5 DEF StatusRecords
<1> QED BY <1>6 DEF p

\* The portfolio generator writes a status for every registered repository.
LEMMA PortfolioMakes ==
    ASSUME NEW w \in Worlds, NEW L, Made(L)
    PROVE  Portfolio(w, L).present = TRUE /\ IsPortfolio(Portfolio(w, L))
<1> DEFINE R == Registered(w)
           records == Field(L["bootstrap"], "records")
           estimate(r) == IF r \in DOMAIN records THEN records[r].readiness ELSE 0
           statuses == [r \in R |-> RepositoryStatus(w[r], estimate(r))]
           healths == [r \in DOMAIN statuses |-> statuses[r].health]
           ratings == [r \in DOMAIN statuses |-> statuses[r].readiness]
<1>1. R \subseteq Repos /\ IsFiniteSet(R)
  BY RegisteredIs
<1>2. \A r \in R : estimate(r) \in 0..100
  <2>1. Entries(records, Records)
    BY ListsAre
  <2> HIDE DEF records
  <2> QED BY <2>1 DEF Entries, Records
<1> HIDE DEF estimate, R
<1>3. \A r \in R : RepositoryStatus(w[r], estimate(r)) \in StatusRecords
  BY <1>1, <1>2, StatusIs
<1>4. DOMAIN statuses = R /\ \A r \in R : statuses[r] \in StatusRecords
  BY <1>3
<1> HIDE DEF statuses
<1>5. Entries(statuses, StatusRecords)
  BY <1>1, <1>4 DEF Entries
<1>6. healths \in [R -> 0..100] /\ ratings \in [R -> 0..100]
  BY <1>4 DEF StatusRecords
<1>7. Average(healths) \in 0..100 /\ Average(ratings) \in 0..100
  <2> HIDE DEF healths, ratings
  <2> QED BY <1>1, <1>6, AverageIs
<1> HIDE DEF healths, ratings
<1>8. Portfolio(w, L) = [present |-> TRUE, statuses |-> statuses,
                         health |-> Average(healths), readiness |-> Average(ratings)]
  BY DEF Portfolio, statuses, R, healths, ratings, estimate
<1> QED BY <1>5, <1>7, <1>8 DEF IsPortfolio

\* There are finitely many paths without a repetition.
LEMMA PathsFinite == IsFiniteSet(SimplePaths) /\ IsFiniteSet(Chains)
<1> DEFINE N == Len(RepoOrder)
           B == SUBSET ((1..N) \X Repos)
           graph(p) == {<<i, p[i]>> : i \in DOMAIN p}
           f == [p \in SimplePaths |-> graph(p)]
<1>1. N \in Nat /\ IsFiniteSet(Repos)
  BY ReposFinite
<1> HIDE DEF N
<1>2. IsFiniteSet(1..N)
  BY ONLY <1>1, FS_Interval, 1 \in Int
<1>3. IsFiniteSet(B)
  BY ONLY <1>1, <1>2, FS_Product, FS_SUBSET
<1>4. \A p \in SimplePaths : \E n \in 1..N : p \in [1..n -> Repos]
  BY DEF SimplePaths, N
<1>5. \A p \in SimplePaths : graph(p) \in B
  BY <1>1, <1>4
<1>6. ASSUME NEW p \in SimplePaths, NEW q \in SimplePaths, graph(p) = graph(q)
      PROVE  p = q
  <2>1. PICK n \in 1..N : p \in [1..n -> Repos]
    BY <1>4
  <2>2. PICK m \in 1..N : q \in [1..m -> Repos]
    BY <1>4
  <2>3. \A i \in DOMAIN p : <<i, p[i]>> \in graph(q)
    BY <1>6
  <2>4. \A i \in DOMAIN p : i \in DOMAIN q /\ p[i] = q[i]
    BY <2>3
  <2>5. \A i \in DOMAIN q : <<i, q[i]>> \in graph(p)
    BY <1>6
  <2>6. \A i \in DOMAIN q : i \in DOMAIN p
    BY <2>5
  <2> HIDE DEF graph
  <2> QED BY <2>1, <2>2, <2>4, <2>6
<1> HIDE DEF graph, B
<1>7. f \in Injection(SimplePaths, B)
  <2>1. f \in [SimplePaths -> B] /\ \A p \in SimplePaths : f[p] = graph(p)
    BY <1>5
  <2> HIDE DEF f
  <2>2. \A p, q \in SimplePaths : f[p] = f[q] => p = q
    BY <1>6, <2>1
  <2> QED BY ONLY <2>1, <2>2 DEF Injection, IsInjective
<1>8. IsFiniteSet(SimplePaths)
  <2> HIDE DEF f
  <2> QED BY ONLY <1>3, <1>7, FS_Injection
<1>9. Chains \in SUBSET SimplePaths
  BY DEF Chains
<1> QED BY ONLY <1>8, <1>9, FS_Subset

\* There are finitely many findings that the dependency report could make.
LEMMA EdgeSetFinite == IsFiniteSet(EdgeFindingSet)
<1> DEFINE C == {"dependency_unknown", "dependency_blocked", "dependency_risk", "dependency_missing"}
           V == {"high", "medium"}
           A == ((Repos \X Repos) \X C) \X V
           f == [a \in A |-> [repo |-> a[1][1][1], dep |-> a[1][1][2], category |-> a[1][2], severity |-> a[2]]]
<1>1. IsFiniteSet(C)
  BY FourFinite
<1>2. IsFiniteSet(V)
  <2>1. V = {"high", "high", "medium", "medium"}
    OBVIOUS
  <2> QED BY ONLY <2>1, FourFinite
<1>3. IsFiniteSet(A)
  <2>1. IsFiniteSet(Repos)
    BY ReposFinite
  <2>2. IsFiniteSet(Repos \X Repos)
    BY ONLY <2>1, FS_Product
  <2> HIDE DEF C, V
  <2>3. IsFiniteSet((Repos \X Repos) \X C)
    BY ONLY <1>1, <2>2, FS_Product
  <2> QED BY ONLY <1>2, <2>3, FS_Product DEF A
<1>4. f \in [A -> EdgeFindingSet]
  BY DEF EdgeFindingSet
<1>5. \A e \in EdgeFindingSet : \E a \in A : f[a] = e
  <2> SUFFICES ASSUME NEW e \in EdgeFindingSet PROVE \E a \in A : f[a] = e
    OBVIOUS
  <2> DEFINE a == <<<<<<e.repo, e.dep>>, e.category>>, e.severity>>
  <2>1. a \in A /\ e = [repo |-> e.repo, dep |-> e.dep, category |-> e.category, severity |-> e.severity]
    BY DEF EdgeFindingSet
  <2>2. f[a] = e
    BY <2>1
  <2> QED BY <2>1, <2>2
<1> HIDE DEF A, f
<1>6. f \in Surjection(A, EdgeFindingSet)
  BY <1>4, <1>5 DEF Surjection
<1> QED BY ONLY <1>3, <1>6, FS_Surjection

\* The dependency generator writes the graph, findings on its edges and chains.
LEMMA DependenciesMakes ==
    ASSUME NEW w, NEW L
    PROVE  Dependencies(w, L).present = TRUE /\ IsDependencies(Dependencies(w, L))
<1> DEFINE E == {p \in Repos \X Repos : p[2] \in DepsOf(DependencyGraph, p[1])}
           found == UNION {EdgeFindings(w, L, e[1], e[2]) : e \in E}
<1>1. \A r, d \in Repos : EdgeFindings(w, L, r, d) \in SUBSET EdgeFindingSet
  BY DEF EdgeFindings, Finding, EdgeFindingSet
<1>2. found \in SUBSET EdgeFindingSet
  BY <1>1
<1>3. IsFiniteSet(EdgeFindingSet)
  BY EdgeSetFinite
<1> HIDE DEF found
<1>4. IsFiniteSet(found)
  BY ONLY <1>2, <1>3, FS_Subset
<1>5. Dependencies(w, L) = [present |-> TRUE, graph |-> DependencyGraph, chains |-> Chains, findings |-> found]
  BY DEF Dependencies, found
<1> QED BY ONLY <1>2, <1>4, <1>5, PathsFinite DEF IsDependencies

\* A repository has finitely many consumers and providers, in the dependency
\* report or where there is none.
LEMMA GraphFinite ==
    ASSUME NEW g \in {DependencyGraph, <<>>}, NEW r
    PROVE  IsFiniteSet({c \in DOMAIN g : r \in g[c]}) /\ IsFiniteSet(DepsOf(g, r))
<1>1. IsFiniteSet(DOMAIN g) /\ \A c \in DOMAIN g : IsFiniteSet(g[c])
  <2>1. DOMAIN <<>> = {} /\ IsFiniteSet({})
    BY FS_EmptySet
  <2>2. g = Depends \/ g = <<>>
    BY DEF DependencyGraph
  <2> QED BY <2>1, <2>2, PortfolioAssumption
<1>2. {c \in DOMAIN g : r \in g[c]} \in SUBSET DOMAIN g
  OBVIOUS
<1>3. IsFiniteSet({c \in DOMAIN g : r \in g[c]})
  BY ONLY <1>1, <1>2, FS_Subset
<1>4. IsFiniteSet(DepsOf(g, r))
  BY <1>1, FS_EmptySet DEF DepsOf, Lookup
<1> QED BY <1>3, <1>4

\* Every priority has a weight.
LEMMA PriorityWeightIs == \A p \in Priorities : PriorityWeight[p] \in Int
BY DEF Priorities, PriorityWeight

\* The score of a repository on the critical path is a percentage.
LEMMA ScoreIs ==
    ASSUME NEW L, Made(L), NEW r
    PROVE  RepoScore(L, r) \in 0..100
<1> DEFINE g == Field(L["dependencies"], "graph")
           statuses == Field(L["portfolio"], "statuses")
           ready == IF r \in DOMAIN statuses THEN statuses[r].readiness ELSE 0
           consumers == Cardinality({c \in DOMAIN g : r \in g[c]})
           providers == Cardinality(DepsOf(g, r))
           paths == {p \in ReportedChains(L) : \E i \in DOMAIN p : p[i] = r}
           mine == {f \in RiskFindings(L) : f.repo = r}
           severe == {f \in mine : f.severity = "high"}
           priority == Lookup(Field(L["onboarding"], "priority"), r, "P4")
           influence == InfluenceScore(consumers, providers, Cardinality(paths), Cardinality(mine), ready)
<1>1. ready \in 0..100
  <2>1. Entries(statuses, StatusRecords)
    BY ListsAre
  <2> HIDE DEF statuses
  <2> QED BY <2>1 DEF Entries, StatusRecords
<1>2. consumers \in Nat /\ providers \in Nat
  <2>1. g \in {DependencyGraph, <<>>}
    BY DependencyListsAre
  <2> HIDE DEF g
  <2> QED BY <2>1, GraphFinite, FS_CardinalityType
<1>3. Cardinality(paths) \in Nat
  <2>1. paths \in SUBSET ReportedChains(L) /\ IsFiniteSet(ReportedChains(L))
    BY DependencyListsAre
  <2> HIDE DEF paths
  <2> QED BY ONLY <2>1, FS_Subset, FS_CardinalityType
<1>4. Cardinality(mine) \in Nat /\ Cardinality(severe) \in Nat
  <2>1. mine \in SUBSET RiskFindings(L) /\ severe \in SUBSET RiskFindings(L) /\ IsFiniteSet(RiskFindings(L))
    BY DependencyListsAre
  <2> HIDE DEF mine, severe
  <2> QED BY ONLY <2>1, FS_Subset, FS_CardinalityType
<1>5. PriorityWeight[priority] \in Int
  <2>1. Entries(Field(L["onboarding"], "priority"), Priorities) /\ "P4" \in Priorities
    BY ListsAre DEF Priorities
  <2>2. priority \in Priorities
    BY ONLY <2>1, FindIn
  <2> HIDE DEF priority
  <2> QED BY <2>2, PriorityWeightIs
<1> DEFINE weight == PriorityWeight[priority]
           chains == Cardinality(paths)
           risks == Cardinality(mine)
           highs == Cardinality(severe)
<1>6. RepoScore(L, r) = Clamp((influence * 45) \div 100 + (100 - ready) \div 4 + Least(15, consumers * 4)
                               + Least(10, highs * 3) + weight)
  BY DEF RepoScore, CriticalPathScore
<1>7. influence = Clamp(Least(30, consumers * 6) + Least(20, providers * 4) + Least(20, chains * 3)
                          + Least(20, risks * 4) + Least(10, (100 - ready) \div 10))
  BY DEF InfluenceScore
<1>8. weight \in Int /\ chains \in Nat /\ risks \in Nat /\ highs \in Nat
  BY <1>3, <1>4, <1>5
<1> HIDE DEF g, statuses, ready, consumers, providers, paths, mine, severe, priority, influence, weight,
             chains, risks, highs
<1>9. influence \in 0..100
  <2>1. consumers * 6 \in Int /\ providers * 4 \in Int /\ chains * 3 \in Int /\ risks * 4 \in Int
        /\ (100 - ready) \div 10 \in Int
    BY ONLY <1>1, <1>2, <1>8
  <2>2. Least(30, consumers * 6) + Least(20, providers * 4) + Least(20, chains * 3)
          + Least(20, risks * 4) + Least(10, (100 - ready) \div 10) \in Int
    <3>1. Least(30, consumers * 6) \in Int /\ Least(20, providers * 4) \in Int /\ Least(20, chains * 3) \in Int
          /\ Least(20, risks * 4) \in Int /\ Least(10, (100 - ready) \div 10) \in Int
      BY ONLY <2>1 DEF Least
    <3> QED BY ONLY <3>1
  <2> QED BY <1>7, <2>2, ClampIs
<1>10. (influence * 45) \div 100 + (100 - ready) \div 4 + Least(15, consumers * 4)
          + Least(10, highs * 3) + weight \in Int
  <2>1. (influence * 45) \div 100 \in Int /\ (100 - ready) \div 4 \in Int /\ consumers * 4 \in Int
        /\ highs * 3 \in Int
    BY ONLY <1>1, <1>2, <1>8, <1>9
  <2>2. Least(15, consumers * 4) \in Int /\ Least(10, highs * 3) \in Int
    BY ONLY <2>1 DEF Least
  <2> QED BY ONLY <1>8, <2>1, <2>2
<1> QED BY <1>6, <1>10, ClampIs

\* The critical path generator scores and ranks registered repositories.
LEMMA CriticalPathMakes ==
    ASSUME NEW w, NEW L, Made(L)
    PROVE  CriticalPath(w, L).present = TRUE /\ IsCriticalPath(CriticalPath(w, L))
<1> DEFINE R == Registered(w)
           ratings == [r \in R |-> RepoScore(L, r)]
           priority == [r \in DOMAIN ratings |-> RecommendationPriority(ratings[r])]
<1>1. R \subseteq Repos
  BY RegisteredIs
<1>2. \A r \in R : RepoScore(L, r) \in 0..100
  BY ScoreIs
<1>3. \A n : RecommendationPriority(n) \in Priorities
  BY DEF RecommendationPriority, Priorities
<1>4. CriticalPath(w, L) = [present |-> TRUE, scores |-> ratings, priority |-> priority]
  BY DEF CriticalPath
<1> HIDE DEF R, RepoScore, RecommendationPriority
<1>5. DOMAIN ratings = R /\ \A r \in R : ratings[r] \in 0..100
  BY ONLY <1>2 DEF ratings
<1> HIDE DEF ratings
<1>6. DOMAIN priority = R /\ \A r \in R : priority[r] \in Priorities
  BY ONLY <1>3, <1>5 DEF priority
<1> HIDE DEF priority
<1>7. Entries(ratings, 0..100) /\ Entries(priority, Priorities)
  BY ONLY <1>1, <1>5, <1>6 DEF Entries
<1> QED BY ONLY <1>4, <1>5, <1>6, <1>7 DEF IsCriticalPath

\* What the roadmap plans for a repository.
LEMMA ItemFor ==
    ASSUME NEW L, NEW r, NEW priority
    PROVE  RoadmapItem(L, r, priority) \in ItemRecords
<1> DEFINE horizon == HorizonForPriority(priority)
           depth == IF L["dependencies"].present THEN Lookup(DependencyDepth, r, 0) ELSE 0
           early == Lookup(Field(L["onboarding"], "priority"), r, "P4") \in {"P0", "P1"} /\ horizon # "near_term"
<1>1. horizon \in {"near_term", "mid_term", "long_term"}
  BY DEF HorizonForPriority
<1> HIDE DEF horizon, depth
<1>2. WaveFor(horizon, depth) \in {"wave_1", "wave_2", "wave_3"}
  BY DEF WaveFor
<1>3. RoadmapItem(L, r, priority) = IF early THEN [horizon |-> "near_term", wave |-> "wave_1"]
                                    ELSE [horizon |-> horizon, wave |-> WaveFor(horizon, depth)]
  BY DEF RoadmapItem, horizon, depth
<1> HIDE DEF early, WaveFor
<1> QED BY ONLY <1>1, <1>2, <1>3 DEF ItemRecords

\* Without a critical path, the roadmap takes the first three repositories.
LEMMA FallbackIs ==
    ASSUME NEW w \in Worlds
    PROVE  Entries(FallbackItems(w), ItemRecords)
<1> DEFINE before(i) == {j \in 1 .. i : w[RepoOrder[j]].registered}
           rank(i) == Cardinality(before(i))
           first == <<[horizon |-> "near_term", wave |-> "wave_1"],
                      [horizon |-> "mid_term", wave |-> "wave_2"],
                      [horizon |-> "long_term", wave |-> "wave_3"]>>
           chosen == {i \in 1 .. Len(RepoOrder) : w[RepoOrder[i]].registered /\ rank(i) <= 3}
           place(r) == CHOOSE i \in chosen : RepoOrder[i] = r
           some == {RepoOrder[i] : i \in chosen}
<1>1. some \subseteq Repos
  BY DEF Repos
<1>2. ASSUME NEW i \in chosen PROVE rank(i) \in 1..3
  <2>1. i \in Int /\ i \in before(i) /\ before(i) \in SUBSET (1..i)
    BY ReposFinite
  <2>2. IsFiniteSet(1..i)
    BY ONLY <2>1, FS_Interval, 1 \in Int
  <2>3. rank(i) <= 3
    OBVIOUS
  <2> HIDE DEF before
  <2>4. IsFiniteSet(before(i))
    BY ONLY <2>1, <2>2, FS_Subset
  <2>5. rank(i) \in Nat /\ rank(i) # 0
    BY ONLY <2>1, <2>4, FS_CardinalityType, FS_EmptySet
  <2> HIDE DEF rank
  <2> QED BY ONLY <2>3, <2>5
<1>3. \A n \in 1..3 : first[n] \in ItemRecords
  <2>1. first[1] \in ItemRecords /\ first[2] \in ItemRecords /\ first[3] \in ItemRecords
    BY DEF ItemRecords
  <2> HIDE DEF first
  <2> QED BY <2>1
<1>4. FallbackItems(w) = [r \in some |-> first[rank(place(r))]]
  BY DEF FallbackItems
<1> HIDE DEF rank, first, chosen
<1>5. \A r \in some : place(r) \in chosen
  OBVIOUS
<1> HIDE DEF place, some
<1>6. \A r \in some : first[rank(place(r))] \in ItemRecords
  BY <1>2, <1>3, <1>5
<1> QED BY ONLY <1>1, <1>4, <1>6 DEF Entries

\* The roadmap generator writes items of the three horizons and waves.
LEMMA RoadmapMakes ==
    ASSUME NEW w \in Worlds, NEW L, Made(L)
    PROVE  Roadmap(w, L).present = TRUE /\ IsRoadmap(Roadmap(w, L))
<1> DEFINE recs == Field(L["critical_path"], "priority")
           planned == [r \in DOMAIN recs |-> RoadmapItem(L, r, recs[r])]
           items == IF DOMAIN recs = {} THEN FallbackItems(w) ELSE planned
           used == {items[r].wave : r \in DOMAIN items}
<1>1. Entries(planned, ItemRecords)
  <2>1. DOMAIN recs \subseteq Repos
    BY ListsAre DEF Entries
  <2> HIDE DEF recs
  <2>2. DOMAIN planned = DOMAIN recs /\ \A r \in DOMAIN recs : planned[r] \in ItemRecords
    BY ItemFor
  <2> HIDE DEF planned
  <2> QED BY ONLY <2>1, <2>2 DEF Entries
<1>2. Entries(items, ItemRecords)
  BY <1>1, FallbackIs
<1>3. Roadmap(w, L) = [present |-> TRUE, items |-> items, waves |-> Cardinality(used)]
  BY DEF Roadmap
<1> HIDE DEF items
<1>4. used \in SUBSET {"wave_1", "wave_2", "wave_3"}
  BY <1>2 DEF Entries, ItemRecords
<1>5. IsFiniteSet({"wave_1", "wave_2", "wave_3"})
  <2>1. {"wave_1", "wave_2", "wave_3"} = {"wave_1", "wave_2", "wave_3", "wave_3"}
    OBVIOUS
  <2> QED BY ONLY <2>1, FourFinite
<1> HIDE DEF used
<1>6. Cardinality(used) \in Nat
  BY ONLY <1>4, <1>5, FS_Subset, FS_CardinalityType
<1> QED BY ONLY <1>2, <1>3, <1>6 DEF IsRoadmap

\* The progress generator counts trends as its contract says.
LEMMA ProgressMakes ==
    ASSUME NEW L
    PROVE  Progress(L).present = TRUE /\ IsProgress(Progress(L))
<1> DEFINE trend(m) == Trend(m, Metrics(L)[m], Metrics(Previous)[m])
           A == {m \in MetricNames : trend(m) = "improving"}
           B == {m \in MetricNames : trend(m) = "stable"}
           C == {m \in MetricNames : trend(m) = "declining"}
<1>1. IsFiniteSet(MetricNames)
  <2>1. MetricNames = ({"health", "readiness", "onboarding", "unknown"}
                         \cup {"dependencies", "highs", "recommendations", "items"})
                         \cup {"waves", "drift", "governance", "governance"}
    BY DEF MetricNames
  <2>2. IsFiniteSet({"health", "readiness", "onboarding", "unknown"}
                      \cup {"dependencies", "highs", "recommendations", "items"})
    BY ONLY FourFinite, FS_Union
  <2> QED BY ONLY <2>1, <2>2, FourFinite, FS_Union
<1> HIDE DEF trend
<1>2. /\ A \in SUBSET MetricNames /\ B \in SUBSET MetricNames /\ C \in SUBSET MetricNames
      /\ A \cap B = {} /\ (A \cup B) \cap C = {} /\ (A \cup B) \cup C \in SUBSET MetricNames
  OBVIOUS
<1>3. Progress(L) = [present |-> TRUE, improving |-> Cardinality(A), stable |-> Cardinality(B),
                     declining |-> Cardinality(C)]
  BY DEF Progress, trend
<1> HIDE DEF A, B, C
<1>4. IsFiniteSet(A) /\ IsFiniteSet(B) /\ IsFiniteSet(C)
  BY ONLY <1>1, <1>2, FS_Subset
<1>5. Cardinality(A) \in Nat /\ Cardinality(B) \in Nat /\ Cardinality(C) \in Nat /\ Cardinality(MetricNames) \in Nat
  BY ONLY <1>1, <1>4, FS_CardinalityType
<1>6. Cardinality({}) = 0
  BY FS_EmptySet
<1>7. IsFiniteSet(A \cup B) /\ Cardinality(A \cup B) = Cardinality(A) + Cardinality(B)
  <2>1. IsFiniteSet(A \cup B)
        /\ Cardinality(A \cup B) = Cardinality(A) + Cardinality(B) - Cardinality(A \cap B)
    BY ONLY <1>4, FS_Union
  <2>2. Cardinality(A \cap B) = 0
    BY ONLY <1>2, <1>6
  <2> QED BY ONLY <1>5, <2>1, <2>2
<1>8. Cardinality((A \cup B) \cup C) = Cardinality(A) + Cardinality(B) + Cardinality(C)
  <2>1. Cardinality((A \cup B) \cup C)
          = Cardinality(A \cup B) + Cardinality(C) - Cardinality((A \cup B) \cap C)
    BY ONLY <1>4, <1>7, FS_Union
  <2>2. Cardinality((A \cup B) \cap C) = 0
    BY ONLY <1>2, <1>6
  <2> QED BY ONLY <1>5, <1>7, <2>1, <2>2
<1>9. Cardinality((A \cup B) \cup C) <= Cardinality(MetricNames)
  BY ONLY <1>1, <1>2, FS_Subset
<1>10. Cardinality(A) + Cardinality(B) + Cardinality(C) \in 0..Cardinality(MetricNames)
  BY ONLY <1>5, <1>8, <1>9
<1> QED BY ONLY <1>3, <1>5, <1>10 DEF IsProgress, ProgressContract

\* What a drift report may find.
DriftNames ==
    {"unregistered_dependency", "no_dependency_entry", "missing_bootstrap_record",
     "unregistered_bootstrap", "missing_recommendation", "stale_recommendation",
     "unranked_risk", "unregistered_ranking", "unplanned_ranking", "unregistered_item",
     "missing_progress_metric", "contradictory_status", "stale_artifact"}
DriftSubjects == ((Repos \cup DependencyIds) \cup Kinds) \cup {"portfolio"}
DriftFindings == {<<n, l, s>> : n \in DriftNames, l \in {"low", "medium", "high"}, s \in DriftSubjects}

\* There are finitely many drift findings, each of a severity.
LEMMA DriftFindingsAre == IsFiniteSet(DriftFindings) /\ \A f \in DriftFindings : f[2] \in Severities
<1> DEFINE Levels == {"low", "medium", "high"}
           A == (DriftNames \X Levels) \X DriftSubjects
           f == [a \in A |-> <<a[1][1], a[1][2], a[2]>>]
<1>1. IsFiniteSet(DriftNames)
  <2>1. DriftNames =
           (({"unregistered_dependency", "no_dependency_entry", "missing_bootstrap_record", "unregistered_bootstrap"}
               \cup {"missing_recommendation", "stale_recommendation", "unranked_risk", "unregistered_ranking"})
              \cup {"unplanned_ranking", "unregistered_item", "missing_progress_metric", "contradictory_status"})
             \cup {"stale_artifact"}
    BY DEF DriftNames
  <2>2. IsFiniteSet({"unregistered_dependency", "no_dependency_entry", "missing_bootstrap_record",
                     "unregistered_bootstrap"}
               \cup {"missing_recommendation", "stale_recommendation", "unranked_risk", "unregistered_ranking"})
    BY ONLY FourFinite, FS_Union
  <2>3. IsFiniteSet(
           ({"unregistered_dependency", "no_dependency_entry", "missing_bootstrap_record", "unregistered_bootstrap"}
               \cup {"missing_recommendation", "stale_recommendation", "unranked_risk", "unregistered_ranking"})
              \cup {"unplanned_ranking", "unregistered_item", "missing_progress_metric", "contradictory_status"})
    BY ONLY <2>2, FourFinite, FS_Union
  <2> QED BY ONLY <2>1, <2>3, FS_AddElement
<1>2. IsFiniteSet(Levels)
  <2>1. Levels = {"low", "medium", "high", "high"}
    OBVIOUS
  <2> QED BY ONLY <2>1, FourFinite
<1>3. IsFiniteSet(DriftSubjects)
  <2>1. IsFiniteSet(Kinds)
    <3> DEFINE N == {Stages[i] : i \in 1..9}
               h == [i \in 1..9 |-> Stages[i]]
    <3>1. Kinds = N
      BY DEF Kinds, Stages
    <3>2. h \in Surjection(1..9, N)
      BY DEF Surjection
    <3>3. IsFiniteSet(1..9)
      BY ONLY FS_Interval, 1 \in Int, 9 \in Int
    <3> HIDE DEF N, h
    <3> QED BY ONLY <3>1, <3>2, <3>3, FS_Surjection
  <2>2. IsFiniteSet(DependencyIds)
    <3>1. IsFiniteSet(UNION {Depends[r] : r \in DOMAIN Depends})
      <4> DEFINE D == DOMAIN Depends
                 h == [r \in D |-> Depends[r]]
                 V == {Depends[r] : r \in D}
      <4>1. h \in Surjection(D, V)
        BY DEF Surjection
      <4>2. IsFiniteSet(D) /\ \A X \in V : IsFiniteSet(X)
        BY PortfolioAssumption
      <4> HIDE DEF D, h, V
      <4>3. IsFiniteSet(V)
        BY ONLY <4>1, <4>2, FS_Surjection
      <4>4. IsFiniteSet(UNION V)
        BY ONLY <4>2, <4>3, FS_UNION
      <4> QED BY <4>4 DEF V, D
    <3>2. IsFiniteSet(DOMAIN Depends \cup UNION {Depends[r] : r \in DOMAIN Depends})
      BY ONLY <3>1, FS_Union, PortfolioAssumption
    <3> QED BY <3>2, FS_EmptySet DEF DependencyIds
  <2>3. IsFiniteSet(Repos)
    BY ReposFinite
  <2>4. IsFiniteSet(Repos \cup DependencyIds)
    BY ONLY <2>2, <2>3, FS_Union
  <2>5. IsFiniteSet((Repos \cup DependencyIds) \cup Kinds)
    BY ONLY <2>1, <2>4, FS_Union
  <2> QED BY ONLY <2>5, FS_AddElement DEF DriftSubjects
<1>4. IsFiniteSet(A)
  <2> HIDE DEF Levels
  <2>1. IsFiniteSet(DriftNames \X Levels)
    BY ONLY <1>1, <1>2, FS_Product
  <2> QED BY ONLY <1>3, <2>1, FS_Product DEF A
<1>5. f \in [A -> DriftFindings]
  BY DEF DriftFindings
<1>6. \A x \in DriftFindings : \E a \in A : f[a] = x
  <2> SUFFICES ASSUME NEW x \in DriftFindings PROVE \E a \in A : f[a] = x
    OBVIOUS
  <2>1. PICK n \in DriftNames, l \in Levels, s \in DriftSubjects : x = <<n, l, s>>
    BY DEF DriftFindings
  <2> DEFINE a == <<<<n, l>>, s>>
  <2>2. a \in A
    OBVIOUS
  <2>3. f[a] = <<n, l, s>>
    BY <2>2
  <2> QED BY <2>1, <2>2, <2>3
<1> HIDE DEF A, f
<1>7. f \in Surjection(A, DriftFindings)
  BY <1>5, <1>6 DEF Surjection
<1>8. IsFiniteSet(DriftFindings)
  BY ONLY <1>4, <1>7, FS_Surjection
<1>9. \A x \in DriftFindings : x[2] \in Severities
  BY DEF DriftFindings, Severities
<1> QED BY <1>8, <1>9

\* The drift report has finitely many findings, each of a known severity.
LEMMA DriftMakes ==
    ASSUME NEW w, NEW L, Made(L)
    PROVE  Drift(w, L).present = TRUE /\ IsDrift(Drift(w, L))
<1> DEFINE records == Field(L["bootstrap"], "records")
           priority == Field(L["onboarding"], "priority")
           recs == Field(L["critical_path"], "priority")
           items == Field(L["roadmap"], "items")
           statuses == Field(L["portfolio"], "statuses")
           findings == RegistryDrift(w, L) \cup RecommendationDrift(L) \cup PlanningDrift(w, L)
                          \cup StatusDrift(L) \cup StaleArtifacts(L)
<1>1. DOMAIN records \subseteq Repos /\ DOMAIN priority \subseteq Repos /\ DOMAIN recs \subseteq Repos
      /\ DOMAIN items \subseteq Repos /\ DOMAIN statuses \subseteq Repos
  BY ListsAre DEF Entries
<1>2. Registered(w) \subseteq Repos /\ Enabled(w) \subseteq Repos
  BY RegisteredIs DEF Enabled
<1>3. \A f \in RiskFindings(L) : f.repo \in Repos
  BY DependencyListsAre DEF EdgeFindingSet
<1>4. \A u \in UpDown : u[2] \in Kinds
  BY StagesAre DEF UpDown
<1> HIDE DEF records, priority, recs, items, statuses
<1>5. Repos \subseteq DriftSubjects /\ DependencyIds \subseteq DriftSubjects /\ Kinds \subseteq DriftSubjects /\ "portfolio" \in DriftSubjects
  BY DEF DriftSubjects
<1>6. RegistryDrift(w, L) \subseteq DriftFindings
  BY <1>1, <1>2, <1>5 DEF RegistryDrift, records, DriftFindings, DriftNames
<1>7. RecommendationDrift(L) \subseteq DriftFindings
  BY <1>1, <1>5 DEF RecommendationDrift, records, priority, DriftFindings, DriftNames
<1>8. PlanningDrift(w, L) \subseteq DriftFindings
  BY <1>1, <1>3, <1>5 DEF PlanningDrift, recs, items, DriftFindings, DriftNames
<1>9. StatusDrift(L) \subseteq DriftFindings
  BY <1>1, <1>5 DEF StatusDrift, statuses, DriftFindings, DriftNames
<1>10. StaleArtifacts(L) \subseteq DriftFindings
  BY <1>4, <1>5 DEF StaleArtifacts, DriftFindings, DriftNames
<1>11. findings \in SUBSET DriftFindings
  BY <1>6, <1>7, <1>8, <1>9, <1>10
<1>12. IsFiniteSet(DriftFindings) /\ \A f \in DriftFindings : f[2] \in Severities
  BY DriftFindingsAre
<1>13. Drift(w, L) = [present |-> TRUE, findings |-> findings]
  BY DEF Drift
<1> HIDE DEF findings
<1>14. IsFiniteSet(findings)
  BY ONLY <1>11, <1>12, FS_Subset
<1> QED BY ONLY <1>11, <1>12, <1>13, <1>14 DEF IsDrift, DriftContract

ComponentNames == {"health", "readiness", "onboarding", "dependencies", "critical_path", "roadmap",
                   "progress", "drift"}

\* Every component of the governance index is a percentage.
LEMMA ComponentsAre ==
    ASSUME NEW L, Made(L)
    PROVE  Components(L) \in [ComponentNames -> 0..100]
<1> DEFINE high == {f \in RiskFindings(L) : f.severity = "high"}
           recs == Field(L["critical_path"], "priority")
           urgent == {r \in DOMAIN recs : recs[r] \in {"P0", "P1"}}
           health == IF L["portfolio"].present THEN L["portfolio"].health ELSE 50
           ready == IF L["portfolio"].present THEN L["portfolio"].readiness ELSE 50
           onboarding == IF L["bootstrap"].present THEN OnboardingCoverage(L["bootstrap"]) ELSE 50
           deps == IF L["dependencies"].present THEN 100 - Least(100, Cardinality(high) * 10) ELSE 50
           critical == IF L["critical_path"].present THEN 100 - Least(100, Cardinality(urgent) * 15) ELSE 50
           roadmap == IF L["roadmap"].present THEN Least(100, L["roadmap"].waves * 34) ELSE 50
           progress == IF L["progress"].present THEN TrendScore(L["progress"]) ELSE 50
           drift == IF L["drift"].present THEN DriftScore(L["drift"].findings) ELSE 50
<1>1. health \in 0..100 /\ ready \in 0..100
  BY StagesAre DEF Made, Is, IsPortfolio
<1>2. onboarding \in 0..100
  <2> SUFFICES ASSUME NEW b, b = L["bootstrap"], b.present PROVE OnboardingCoverage(b) \in 0..100
    OBVIOUS
  <2> DEFINE none == {r \in DOMAIN b.records : b.records[r].status = "none"}
  <2>1. IsBootstrap(b)
    BY StagesAre DEF Made, Is
  <2>2. none \in SUBSET Repos /\ b.average \in 0..100
    BY <2>1 DEF IsBootstrap, Entries
  <2>3. OnboardingCoverage(b) = Clamp(b.average - Least(40, 5 * Cardinality(none)))
    BY DEF OnboardingCoverage
  <2> HIDE DEF none
  <2>4. IsFiniteSet(Repos)
    BY ReposFinite
  <2>5. Cardinality(none) \in Nat
    BY ONLY <2>2, <2>4, FS_Subset, FS_CardinalityType
  <2>6. b.average - Least(40, 5 * Cardinality(none)) \in Int
    BY ONLY <2>2, <2>5 DEF Least
  <2> QED BY <2>3, <2>6, ClampIs
<1>3. \A n \in Nat : 100 - Least(100, n) \in 0..100 /\ Least(100, n) \in 0..100
  BY DEF Least
<1>4. deps \in 0..100
  <2>1. high \in SUBSET RiskFindings(L) /\ IsFiniteSet(RiskFindings(L))
    BY DependencyListsAre
  <2> HIDE DEF high
  <2>2. Cardinality(high) \in Nat
    BY ONLY <2>1, FS_Subset, FS_CardinalityType
  <2>3. Cardinality(high) * 10 \in Nat
    BY ONLY <2>2
  <2> QED BY <1>3, <2>3
<1>5. critical \in 0..100
  <2>1. urgent \in SUBSET Repos /\ IsFiniteSet(Repos)
    BY ListsAre, ReposFinite DEF Entries
  <2> HIDE DEF urgent
  <2>2. Cardinality(urgent) \in Nat
    BY ONLY <2>1, FS_Subset, FS_CardinalityType
  <2>3. Cardinality(urgent) * 15 \in Nat
    BY ONLY <2>2
  <2> QED BY <1>3, <2>3
<1>6. roadmap \in 0..100
  <2> SUFFICES ASSUME L["roadmap"].present PROVE Least(100, L["roadmap"].waves * 34) \in 0..100
    OBVIOUS
  <2>1. L["roadmap"].waves \in Nat
    BY StagesAre DEF Made, Is, IsRoadmap
  <2>2. L["roadmap"].waves * 34 \in Nat
    BY ONLY <2>1
  <2> QED BY <1>3, <2>2
<1>7. progress \in 0..100
  <2> SUFFICES ASSUME NEW p, p = L["progress"], p.present PROVE TrendScore(p) \in 0..100
    OBVIOUS
  <2>1. p.improving \in Nat /\ p.stable \in Nat /\ p.declining \in Nat
    BY StagesAre DEF Made, Is, IsProgress
  <2>2. 60 + p.improving * 8 - p.declining * 12 + Least(20, p.stable * 2) \in Int
    BY ONLY <2>1 DEF Least
  <2> QED BY <2>2, ClampIs DEF TrendScore
<1>8. drift \in 0..100
  <2> SUFFICES ASSUME NEW F, F = L["drift"].findings, L["drift"].present PROVE DriftScore(F) \in 0..100
    OBVIOUS
  <2> DEFINE worst == {f \in F : f[2] = "high"}
             n == Cardinality(worst)
             m == Cardinality(F)
  <2>1. IsFiniteSet(F)
    BY StagesAre DEF Made, Is, IsDrift
  <2>2. worst \in SUBSET F /\ DriftScore(F) = 100 - Least(100, n * 30 + (m - n) * 8)
    BY DEF DriftScore
  <2> HIDE DEF worst
  <2>3. n \in Nat /\ m \in Nat /\ n <= m
    BY ONLY <2>1, <2>2, FS_Subset, FS_CardinalityType
  <2> HIDE DEF n, m
  <2>4. n * 30 + (m - n) * 8 \in Nat
    BY ONLY <2>3
  <2> QED BY <1>3, <2>2, <2>4
<1>9. Components(L) = [health |-> health, readiness |-> ready, onboarding |-> onboarding,
                       dependencies |-> deps, critical_path |-> critical, roadmap |-> roadmap,
                       progress |-> progress, drift |-> drift]
  BY DEF Components
<1> HIDE DEF health, ready, onboarding, deps, critical, roadmap, progress, drift
<1>10. DOMAIN Components(L) = ComponentNames
  BY <1>9 DEF ComponentNames
<1> QED BY ONLY <1>1, <1>2, <1>4, <1>5, <1>6, <1>7, <1>8, <1>9 DEF ComponentNames

\* The weights add up to 100, so that the weighted score is a percentage.
LEMMA WeightedIs ==
    ASSUME NEW c \in [ComponentNames -> 0..100]
    PROVE  WeightedScore(c) \in 0..100
<1> DEFINE map == [m \in DOMAIN Weight |-> c[m] * Weight[m]]
           has(s, m) == IF m \in s THEN 100 * Weight[m] ELSE 0
           G == [s \in SUBSET ComponentNames |->
                    has(s, "health") + has(s, "readiness") + has(s, "onboarding") + has(s, "dependencies")
                    + has(s, "critical_path") + has(s, "roadmap") + has(s, "progress") + has(s, "drift")]
<1>1. DOMAIN Weight = ComponentNames
  BY DEF Weight, ComponentNames
<1>2. IsFiniteSet(ComponentNames)
  <2>1. ComponentNames = {"health", "readiness", "onboarding", "dependencies"}
                           \cup {"critical_path", "roadmap", "progress", "drift"}
    BY DEF ComponentNames
  <2> QED BY ONLY <2>1, FourFinite, FS_Union
<1>3. /\ Weight["health"] = 20 /\ Weight["readiness"] = 20 /\ Weight["onboarding"] = 15
      /\ Weight["dependencies"] = 15 /\ Weight["critical_path"] = 10 /\ Weight["roadmap"] = 10
      /\ Weight["progress"] = 5 /\ Weight["drift"] = 5
  BY DEF Weight
<1>4. \A m \in ComponentNames : Weight[m] \in Nat
  BY <1>3 DEF ComponentNames
<1> HIDE DEF Weight
<1>5. \A m \in ComponentNames : map[m] = c[m] * Weight[m] /\ map[m] \in 0..100 * Weight[m]
  <2> SUFFICES ASSUME NEW m \in ComponentNames PROVE map[m] = c[m] * Weight[m] /\ map[m] \in 0..100 * Weight[m]
    OBVIOUS
  <2>1. map[m] = c[m] * Weight[m] /\ c[m] \in 0..100 /\ Weight[m] \in Nat
    BY <1>1, <1>4
  <2>2. \A x \in 0..100, y \in Nat : x * y \in 0..100 * y
    OBVIOUS
  <2> HIDE DEF map
  <2> QED BY ONLY <2>1, <2>2
<1>6. map \in [ComponentNames -> Nat]
  BY <1>1, <1>4, <1>5
<1>7. \A s, m : m \in ComponentNames => has(s, m) \in Nat
  BY <1>4
<1>8. G \in [SUBSET ComponentNames -> Nat]
  <2> HIDE DEF has
  <2> QED BY <1>7 DEF ComponentNames
<1>9. ASSUME NEW s \in SUBSET ComponentNames, NEW x \in s PROVE G[s \ {x}] + map[x] <= G[s]
  <2>1. \A m : m # x => has(s \ {x}, m) = has(s, m)
    OBVIOUS
  <2>2. has(s, x) = 100 * Weight[x] /\ has(s \ {x}, x) = 0 /\ map[x] <= 100 * Weight[x] /\ map[x] \in Nat
    BY <1>5, <1>6
  <2>3. G[s] = has(s, "health") + has(s, "readiness") + has(s, "onboarding") + has(s, "dependencies")
                + has(s, "critical_path") + has(s, "roadmap") + has(s, "progress") + has(s, "drift")
    OBVIOUS
  <2> DEFINE t == s \ {x}
  <2>4. G[t] = has(t, "health") + has(t, "readiness") + has(t, "onboarding") + has(t, "dependencies")
                + has(t, "critical_path") + has(t, "roadmap") + has(t, "progress") + has(t, "drift")
    OBVIOUS
  <2>5. x \in {"health", "readiness", "onboarding", "dependencies", "critical_path", "roadmap", "progress", "drift"}
    BY DEF ComponentNames
  <2>6. \A m \in ComponentNames : has(s, m) \in Nat /\ has(t, m) \in Nat
    BY <1>7
  <2>7. /\ has(s, "health") \in Nat /\ has(s, "readiness") \in Nat /\ has(s, "onboarding") \in Nat
        /\ has(s, "dependencies") \in Nat /\ has(s, "critical_path") \in Nat /\ has(s, "roadmap") \in Nat
        /\ has(s, "progress") \in Nat /\ has(s, "drift") \in Nat
    BY <2>6 DEF ComponentNames
  <2>8. G[t] = G[s] - 100 * Weight[x]
    <3>1. Weight[x] \in Nat
      BY <1>4
    <3> HIDE DEF has, G, map
    <3>2. \A m \in {"health", "readiness", "onboarding", "dependencies", "critical_path", "roadmap", "progress", "drift"} :
             m # x => has(t, m) = has(s, m)
      BY <2>1
    <3> HIDE DEF t
    <3> QED BY ONLY <2>2, <2>3, <2>4, <2>5, <2>7, <3>1, <3>2 DEF t
  <2> HIDE DEF has, G, map
  <2>9. G[s] \in Nat /\ Weight[x] \in Nat
    BY <1>4, <1>8
  <2> QED BY ONLY <2>2, <2>8, <2>9 DEF t
<1>10. G[ComponentNames] = 100 * 100
  <2>1. G[ComponentNames] = has(ComponentNames, "health") + has(ComponentNames, "readiness")
          + has(ComponentNames, "onboarding") + has(ComponentNames, "dependencies")
          + has(ComponentNames, "critical_path") + has(ComponentNames, "roadmap")
          + has(ComponentNames, "progress") + has(ComponentNames, "drift")
    OBVIOUS
  <2>2. \A m \in ComponentNames : has(ComponentNames, m) = 100 * Weight[m]
    OBVIOUS
  <2> HIDE DEF G, has
  <2> QED BY <1>3, <2>1, <2>2 DEF ComponentNames
<1> HIDE DEF map, G
<1>11. PICK h : Sums(h, ComponentNames, map) /\ SumOf(map) = h[ComponentNames]
  BY <1>2, <1>6, SumOfIs
<1>12. h[ComponentNames] \in 0..G[ComponentNames]
  BY <1>2, <1>6, <1>8, <1>9, <1>11, SumsWithin
<1>13. SumOf(map) \in 0..100 * 100
  <2>1. SumOf(map) = h[ComponentNames]
    BY ONLY <1>11, Zenon
  <2>2. h[ComponentNames] \in 0..100 * 100
    BY ONLY <1>10, <1>12, Zenon
  <2> QED BY ONLY <2>1, <2>2, Zenon
<1>14. WeightedScore(c) = RoundHundredths(SumOf(map))
  BY DEF WeightedScore, map
<1>15. RoundHundredths(SumOf(map)) \in 0..100
  <2> DEFINE n == SumOf(map)
  <2> HIDE DEF n
  <2>0. n \in 0..100 * 100
    BY ONLY <1>13, Zenon DEF n
  <2> DEFINE q == n \div 100
             r == n % 100
  <2>1. q \in Nat /\ r \in 0..99 /\ n = 100 * q + r
    BY <2>0
  <2>2. RoundHundredths(n) \in {q, q + 1} /\ (RoundHundredths(n) = q + 1 => r # 0)
    <3>1. RoundHundredths(n) = IF r > 50 \/ (r = 50 /\ q % 2 = 1) THEN q + 1 ELSE q
      BY DEF RoundHundredths
    <3> HIDE DEF q, r
    <3> QED BY ONLY <2>1, <3>1
  <2> HIDE DEF q, r
  <2>3. q \in 0..100 /\ (r # 0 => q + 1 \in 0..100)
    <3>1. n \in Int /\ n <= 100 * 100
      BY ONLY <2>0
    <3>2. n = 100 * q + r /\ q \in Int /\ 0 <= q /\ r \in Int /\ 0 <= r
      BY ONLY <2>1
    <3>3. q <= 100 /\ (r # 0 => q + 1 <= 100)
      BY ONLY <3>1, <3>2
    <3> QED BY ONLY <3>2, <3>3
  <2>4. RoundHundredths(n) \in 0..100
    BY ONLY <2>1, <2>2, <2>3
  <2> QED BY <2>4 DEF n
<1> QED BY ONLY <1>14, <1>15

\* The index, weighted from its components, and each of them are percentages.
LEMMA IndexMakes ==
    ASSUME NEW L, Made(L)
    PROVE  Index(L).present = TRUE /\ IndexContract(Index(L))
<1> DEFINE n == WeightedScore(Components(L))
           status == GovernanceStatus(n, Unknowns(L))
<1>1. n \in 0..100
  BY ComponentsAre, WeightedIs
<1>2. status \in Statuses
  BY DEF GovernanceStatus, Statuses
<1>3. Index(L) = [present |-> TRUE, score |-> n, status |-> status]
  BY DEF Index
<1> HIDE DEF n, status
<1> QED BY <1>1, <1>2, <1>3 DEF IndexContract

-----------------------------------------------------------------------------
(* The generators one after the other, in any round, with any step left out. *)

PortfolioInv ==
    /\ world \in Worlds
    /\ latest = [k \in Kinds |-> latest[k]] /\ Made(latest)
    /\ history = [k \in Kinds |-> history[k]] /\ \A k \in Kinds : history[k].own \in BOOLEAN
    /\ stage \in 1..9
    /\ recent \subseteq Kinds /\ current \subseteq Kinds /\ moved \subseteq Kinds
    /\ edits \in 0..MaxWorldEdits /\ slips \in 0..MaxSlips

\* A round has nine stages.
LEMMA NineStages == Len(Stages) = 9
BY DEF Stages

\* The bounds of the instance are natural numbers.
LEMMA BoundsAre == MaxWorldEdits \in Nat /\ MaxSlips \in Nat
BY PortfolioAssumption

\* Before the first round no report is present.
LEMMA PortfolioStarts == PortfolioInit => PortfolioInv
<1> SUFFICES ASSUME PortfolioInit PROVE PortfolioInv
  OBVIOUS
<1>1. Made(latest) /\ latest = [k \in Kinds |-> latest[k]]
  BY DEF PortfolioInit, Made, Absent
<1>2. history = [k \in Kinds |-> history[k]] /\ \A k \in Kinds : history[k].own \in BOOLEAN
  BY DEF PortfolioInit
<1>3. 1 \in 1..9 /\ 0 \in 0..MaxWorldEdits /\ 0 \in 0..MaxSlips
  BY BoundsAre
<1> QED BY <1>1, <1>2, <1>3 DEF PortfolioInit, PortfolioInv

\* A generator that makes its report leaves the others as they are.
LEMMA ExportKeeps ==
    ASSUME PortfolioInv, NEW k \in Kinds, NEW report, report.present = TRUE, Is(k, report),
           NEW logged \in BOOLEAN, Export(k, report, logged)
    PROVE  /\ latest' = [x \in Kinds |-> latest'[x]] /\ Made(latest)'
           /\ history' = [x \in Kinds |-> history'[x]] /\ \A x \in Kinds : history'[x].own \in BOOLEAN
           /\ stage' \in 1..9
           /\ recent' \subseteq Kinds /\ current' \subseteq Kinds /\ moved' \subseteq Kinds
           /\ world' = world /\ edits' = edits
<1>1. latest' = [latest EXCEPT ![k] = report]
  BY DEF Export
<1>2. latest' = [x \in Kinds |-> IF x = k THEN report ELSE latest[x]]
  BY <1>1 DEF PortfolioInv
<1>3. Made(latest)'
  <2>1. \A x \in Kinds : latest'[x] = IF x = k THEN report ELSE latest[x]
    BY ONLY <1>2
  <2>2. \A x \in Kinds : latest[x].present \in BOOLEAN /\ (latest[x].present => Is(x, latest[x]))
    BY DEF PortfolioInv, Made
  <2>3. \A x \in Kinds : latest'[x].present \in BOOLEAN /\ (latest'[x].present => Is(x, latest'[x]))
    <3> SUFFICES ASSUME NEW x \in Kinds, NEW rep, rep = latest'[x]
                 PROVE  rep.present \in BOOLEAN /\ (rep.present => Is(x, rep))
      OBVIOUS
    <3> QED BY <2>1, <2>2
  <2> HIDE DEF Is
  <2> QED BY <2>3 DEF Made
<1>4. history' = [x \in Kinds |-> history'[x]] /\ \A x \in Kinds : history'[x].own \in BOOLEAN
  <2> DEFINE line == [last |-> IF history[k].own THEN latest[k] ELSE history[k].last, own |-> logged]
  <2>1. history' = [history EXCEPT ![k] = line] /\ line.own \in BOOLEAN
    BY DEF Export
  <2> HIDE DEF line
  <2> QED BY <2>1 DEF PortfolioInv
<1>5. stage' \in 1..9
  BY NineStages DEF Export, PortfolioInv
<1>6. recent' \subseteq Kinds /\ current' \subseteq Kinds /\ moved' \subseteq Kinds
  BY DEF Export, PortfolioInv
<1>7. world' = world /\ edits' = edits
  BY DEF Export
<1>8. latest' = [x \in Kinds |-> latest'[x]]
  BY <1>2
<1> QED BY <1>3, <1>4, <1>5, <1>6, <1>7, <1>8

\* A generator of a round writes what passes its contract.
LEMMA MainKeeps ==
    ASSUME PortfolioInv, NEW logged \in BOOLEAN, Main(logged), slips' \in 0..MaxSlips
    PROVE  PortfolioInv'
<1>1. world \in Worlds /\ Made(latest)
  BY DEF PortfolioInv
<1>2. PICK k, report : k \in Kinds /\ report.present = TRUE /\ Is(k, report) /\ Export(k, report, logged)
  <2>1. {"bootstrap", "onboarding", "portfolio", "dependencies", "critical_path", "roadmap", "progress",
         "drift", "index"} \subseteq Kinds
    BY StagesAre
  <2>2. CASE BootstrapMain(logged)
    BY <1>1, <2>1, <2>2, BootstrapMakes DEF BootstrapMain, Is
  <2>3. CASE OnboardingMain(logged)
    BY <1>1, <2>1, <2>3, OnboardingMakes DEF OnboardingMain, Is
  <2>4. CASE PortfolioMain(logged)
    BY <1>1, <2>1, <2>4, PortfolioMakes DEF PortfolioMain, Is
  <2>5. CASE DependenciesMain(logged)
    BY <1>1, <2>1, <2>5, DependenciesMakes DEF DependenciesMain, Is
  <2>6. CASE CriticalPathMain(logged)
    BY <1>1, <2>1, <2>6, CriticalPathMakes DEF CriticalPathMain, Is
  <2>7. CASE RoadmapMain(logged)
    BY <1>1, <2>1, <2>7, RoadmapMakes DEF RoadmapMain, Is
  <2>8. CASE ProgressMain(logged)
    BY <1>1, <2>1, <2>8, ProgressMakes DEF ProgressMain, Is
  <2>9. CASE DriftMain(logged)
    BY <1>1, <2>1, <2>9, DriftMakes DEF DriftMain, Is
  <2>10. CASE IndexMain(logged)
    BY <1>1, <2>1, <2>10, IndexMakes DEF IndexMain, Is
  <2> QED BY <2>2, <2>3, <2>4, <2>5, <2>6, <2>7, <2>8, <2>9, <2>10 DEF Main
<1> QED BY <1>2, ExportKeeps DEF PortfolioInv

\* Every step of a round, and every change of the world, keeps the reports made.
LEMMA PortfolioSteps == PortfolioInv /\ [PortfolioNext]_portfolioVars => PortfolioInv'
<1> SUFFICES ASSUME PortfolioInv, [PortfolioNext]_portfolioVars PROVE PortfolioInv'
  OBVIOUS
<1>1. CASE RefreshStep
  BY <1>1, MainKeeps DEF RefreshStep, PortfolioInv
<1>2. CASE LeaveUnlogged
  <2>1. slips' \in 0..MaxSlips
    BY <1>2, BoundsAre DEF LeaveUnlogged, PortfolioInv
  <2> QED BY <1>2, <2>1, MainKeeps DEF LeaveUnlogged
<1>3. CASE SkipStage
  <2>1. slips' \in 0..MaxSlips /\ stage' \in 1..9 /\ recent' \subseteq Kinds
    BY <1>3, NineStages, BoundsAre DEF SkipStage, PortfolioInv
  <2> QED BY <1>3, <2>1 DEF SkipStage, PortfolioInv, Made
<1>4. CASE ChangeWorld
  <2>1. world' \in Worlds /\ edits' \in 0..MaxWorldEdits /\ current' \subseteq Kinds
    BY <1>4, BoundsAre DEF ChangeWorld, PortfolioInv
  <2> QED BY <1>4, <2>1 DEF ChangeWorld, PortfolioInv, Made
<1>5. CASE UNCHANGED portfolioVars
  BY <1>5 DEF portfolioVars, PortfolioInv, Made
<1> QED BY <1>1, <1>2, <1>3, <1>4, <1>5 DEF PortfolioNext

\* What a report is made of implies the contract of its generator.
LEMMA MadeToContract ==
    ASSUME NEW k \in Kinds, NEW rep, Is(k, rep)
    PROVE  Contract(k, rep)
<1>1. CASE k = "bootstrap"
  BY <1>1 DEF Contract, Is, IsBootstrap, BootstrapContract, Entries, Records, ArtifactStates
<1>2. CASE k = "onboarding"
  BY <1>2 DEF Contract, Is, IsOnboarding, OnboardingContract, Entries
<1>3. CASE k = "portfolio"
  BY <1>3 DEF Contract, Is, IsPortfolio, PortfolioContract, Entries, StatusRecords
<1>4. CASE k = "dependencies"
  BY <1>4 DEF Contract, Is, IsDependencies, DependenciesContract, EdgeFindingSet, Severities
<1>5. CASE k = "critical_path"
  BY <1>5 DEF Contract, Is, IsCriticalPath, CriticalPathContract, Entries
<1>6. CASE k = "roadmap"
  BY <1>6 DEF Contract, Is, IsRoadmap, RoadmapContract, Entries, ItemRecords
<1>7. CASE k = "progress"
  BY <1>7 DEF Contract, Is, IsProgress
<1>8. CASE k = "drift"
  BY <1>8 DEF Contract, Is, IsDrift
<1>9. CASE k = "index"
  BY <1>9 DEF Contract, Is
<1> QED BY <1>1, <1>2, <1>3, <1>4, <1>5, <1>6, <1>7, <1>8, <1>9, StagesAre

\* Reports that their generators made have the types of the portfolio.
LEMMA PortfolioTyped == PortfolioInv => PortfolioTypeOK
BY MadeToContract, NineStages DEF PortfolioInv, PortfolioTypeOK, Made

\* No generator of a round raises: in any world, from any earlier reports, what it
\* writes passes the contract it checks before it writes.
THEOREM PortfolioReportsPass == PortfolioSpec => []PortfolioTypeOK
BY PortfolioStarts, PortfolioSteps, PortfolioTyped, PTL DEF PortfolioSpec

-----------------------------------------------------------------------------
(***************************************************************************)
(* The five parts of the control plane side by side.                       *)
(***************************************************************************)

ControlInv ==
    /\ PortfolioInv /\ ReportsInv
    /\ ContractsInv
    /\ WorkInv
    /\ StoreInv /\ StoreShape
    /\ IntakeInv

\* Each part starts as it does by itself.
LEMMA ControlStarts == ControlInit => ControlInv
BY PortfolioStarts, ReportsInit, ContractsInit, InitInv, InitEstablishes, StoreShapeInit, IntakeInit
   DEF ControlInit, ControlInv

\* A step of the control plane is a step of one part, and of the others none.
LEMMA PartsStep ==
    ASSUME [ControlNext]_controlVars
    PROVE  /\ [PortfolioNext]_portfolioVars /\ [GovernanceNext]_governanceVars
           /\ [WorkNext]_workVars /\ [JsonStoreNext]_storeVars /\ [MissionNext]_missionVars
BY Zenon DEF ControlNext, controlVars, RunsPortfolio, RunsGovernance, RunsWork, RunsStore, RunsMissions

\* Every step of one part keeps the invariants of all.
LEMMA ControlSteps == ControlInv /\ [ControlNext]_controlVars => ControlInv'
<1> SUFFICES ASSUME ControlInv, [ControlNext]_controlVars PROVE ControlInv'
  OBVIOUS
<1>1. PortfolioInv' /\ ReportsInv'
  BY PartsStep, PortfolioSteps, ReportsStep DEF ControlInv
<1>2. ContractsInv'
  <2>1. FlowInv'
    BY PartsStep, FlowStep DEF ControlInv, ContractsInv
  <2> QED BY <2>1, PartsStep, ContractsStep DEF ControlInv
<1>3. WorkInv'
  BY PartsStep, StepInv DEF ControlInv
<1>4. StoreInv' /\ StoreShape'
  BY PartsStep, StepKeeps, StoreShapeStep DEF ControlInv
<1>5. IntakeInv'
  BY PartsStep, IntakeStep DEF ControlInv
<1> QED BY <1>1, <1>2, <1>3, <1>4, <1>5 DEF ControlInv

\* The parts keep their invariants beside each other, in any order of steps.
THEOREM ControlInvariant == ControlSpec => []ControlInv
BY ControlStarts, ControlSteps, PTL DEF ControlSpec

\* Types of the five parts: every report passes the contract that its writer
\* checks, and a store holds at most one table.
THEOREM ControlTypeCorrect == ControlSpec => []ControlTypeOK
<1>1. ControlInv => ControlTypeOK
  BY PortfolioTyped, ContractsTyped, InvTypes, StoreTyped DEF ControlInv, IntakeInv, ControlTypeOK
<1> QED BY <1>1, ControlInvariant, PTL

\* What each part promises by itself, it promises beside the others: reports made
\* from current reports accuse none of them, approvals are of what was reviewed, a
\* queue can be followed, no finding is forgotten, dossiers are of their queue,
\* and a mission's task gets the slot once.
THEOREM ControlIsSafe ==
    ControlSpec =>
        [](/\ CleanAfterRefresh /\ ApprovedAsReviewed /\ QueuedOnce
           /\ WorkInOrder /\ NothingForgotten /\ DossiersMatchQueue)
<1>1. ControlInv => CleanAfterRefresh /\ ApprovedAsReviewed
  BY DEF ControlInv, ReportsInv, ContractsInv, FlowInv
<1>2. ControlInv => QueuedOnce
  BY DEF ControlInv, IntakeInv, SlotInv, ClaimInv, QueuedOnce
<1>3. ControlInv => WorkInOrder /\ NothingForgotten /\ DossiersMatchQueue
  BY InvOrder, InvForgets, InvMatches DEF ControlInv
<1> QED BY <1>1, <1>2, <1>3, ControlInvariant, PTL
=============================================================================
