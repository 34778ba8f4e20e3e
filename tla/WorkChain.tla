------------------------------ MODULE WorkChain ------------------------------
(***************************************************************************)
(* From what is missing in a repository to dossiers of work: repository    *)
(* intelligence, remediation plan, handoff packages, their refinement, the *)
(* work queue and the execution dossiers.  Each is a command of its own    *)
(* that reads the latest report of the one before it and exports its own,  *)
(* in whatever order the operator calls them; every generation gives its   *)
(* batches and packages new identifiers.                                   *)
(*                                                                         *)
(* A finding is what is missing (kind) and for which source module.  The   *)
(* file that closes it and the command that validates that file are named  *)
(* after the same two, so one record stands for all three.  Wording, the   *)
(* list of expected changes and the reports' history files are left out.   *)
(***************************************************************************)
EXTENDS Naturals, Sequences, FiniteSets, SequencesExt

CONSTANTS
    Repositories,    \* the source trees there may be
    ModuleOrder,     \* the names of source modules, in the order of strings
    ContractModules, \* modules with a name in ..._contracts
    RouterModules,   \* modules with a name in router...
    StrategyModules, \* modules with a name in ...strategic_mission_generation
    Naming,          \* for each word, the modules with the word in their name
    Limits,          \* values of --limit, 0 for none
    MaxRefreshes     \* how often each report is generated

\* The words the text of a command is searched for; no module is called test_...
\* or ..._cli, so that a command has the words of the module it is for.
Words == {"cli", "contract", "compat", "docs", "mission_engine", "orchastrator", "orchestrator",
          "routers", "strategic_missions", "system", "tools", "ui"}

\* A source tree is made of the named modules, and speaks of the known areas.
ASSUME WorkAssumption ==
    /\ ModuleOrder \in Seq(STRING)
    /\ DOMAIN Naming = Words /\ ContractModules \subseteq Naming["contract"]
    /\ Limits \subseteq Nat
    /\ \A r \in Repositories :
          /\ r.modules \cup r.clis \subseteq {ModuleOrder[i] : i \in DOMAIN ModuleOrder}
          /\ \A m \in r.modules : r.area[m] \in {"none", "lifecycle", "release", "memory"}
          /\ r.untested \subseteq {"config", "compat"}

VARIABLES
    intel,     \* repository_intelligence_report.json: the findings
    remPlan,   \* remediation_plan_report.json: batches of findings
    handoff,   \* remediation_handoffs/latest.json: one package per batch
    refined,   \* handoff_refinements/latest.json: narrow packages
    queue,     \* work_queue/latest.json
    workDossiers, \* execution_dossiers/latest.json
    refreshes  \* how often each report was generated

workVars == <<intel, remPlan, handoff, refined, queue, workDossiers, refreshes>>

Reports == {"intel", "plan", "handoff", "refined", "queue", "dossiers"}

\* A report that does not exist reads as {}.
Missing == [missing |-> TRUE]

\* items[:limit], where a limit is given
Cut(s, limit) == IF limit > 0 /\ limit < Len(s) THEN SubSeq(s, 1, limit) ELSE s

\* A set as a sequence: R orders it strictly and totally, and the place of an
\* element is the number of those below it.
Below(R, S, x) == {y \in S : <<y, x>> \in R}
Sorted(S, R) == [i \in 1..Cardinality(S) |-> CHOOSE x \in S : Cardinality(Below(R, S, x)) = i - 1]

Increasing(P) == Sorted(P, {e \in P \X P : e[1] < e[2]})

\* The elements of s at the positions in P, in their order.
Select(s, P) ==
    LET places == Increasing(P) IN [k \in DOMAIN places |-> s[places[k]]]

PosIn(x, s) == CHOOSE i \in DOMAIN s : s[i] = x

-----------------------------------------------------------------------------
(* Repository intelligence *)

Gap(kind, module) == [kind |-> kind, module |-> module]

\* A source tree is its modules, which of them have tests and documents of their
\* name, which have a command line and a test of it, the area each one's name
\* speaks of, and what else is untested: "config", configuration files without
\* contract tests, and "compat", the platform engine without compatibility tests.

\* analyze_repository_intelligence.  The file name of a module's CLI test also
\* matches the pattern of its direct tests; a module of the lifecycle, release
\* or memory area asks for a document that names the area.
Findings(r) ==
    {Gap("tests", m) : m \in r.modules \ (r.tested \cup r.cliTested)}
    \cup {Gap("docs", m) : m \in r.modules \ r.documented}
    \cup {Gap("cli", m) : m \in r.clis \ r.cliTested}
    \cup {Gap(a, "") : a \in {r.area[m] : m \in r.modules}
                                 \ ({"none"} \cup {r.area[m] : m \in r.documented})}
    \cup {Gap(k, "") : k \in r.untested}

\* build_repository_inventory of the tree as it is now, and the export.
AnalyzeRepository ==
    /\ \E r \in Repositories : intel' = [found |-> Findings(r)]
    /\ UNCHANGED <<remPlan, handoff, refined, queue, workDossiers>>

-----------------------------------------------------------------------------
(* The remediation plan *)

Severity(f) ==
    CASE f.kind = "compat" -> "high"
      [] f.kind \in {"docs", "memory"} -> "low"
      [] OTHER -> "medium"

RiskScore == [high |-> 85, medium |-> 70, low |-> 50]
ConfidenceScore == [high |-> 85, medium |-> 80, low |-> 75]

\* The table knows "tests" and "docs"; the findings say "testing" and
\* "documentation" and get the default.
EffortScore(f) ==
    CASE f.kind = "compat" -> 70
      [] f.kind = "lifecycle" -> 50
      [] f.kind = "release" -> 55
      [] OTHER -> 45

\* derive_priority, as 0..4 for P0..P4
PriorityOf(f) ==
    LET pressure == (RiskScore[Severity(f)] + ConfidenceScore[Severity(f)]) - EffortScore(f)
    IN  CASE pressure >= 120 -> 0
          [] pressure \in 95..119 -> 1
          [] pressure \in 75..94 -> 2
          [] pressure \in 55..74 -> 3
          [] OTHER -> 4

RankOf(f) == (2 * RiskScore[Severity(f)] + ConfidenceScore[Severity(f)]) - EffortScore(f)

\* Titles in the order of strings: by kind, then by module.
TitleOrder == <<"cli", "config", "lifecycle", "memory", "release", "compat", "tests", "docs">>
TitleOf(f) == <<PosIn(f.kind, TitleOrder), IF f.module = "" THEN 0 ELSE PosIn(f.module, ModuleOrder)>>

\* The sort key of generate_remediation_plan_report.
KeyOf(f) == <<PriorityOf(f), 300 - RankOf(f), TitleOf(f)[1], TitleOf(f)[2]>>

Before(f, g) ==
    \E i \in 1..4 : /\ KeyOf(f)[i] < KeyOf(g)[i]
                     /\ \A j \in 1..(i - 1) : KeyOf(f)[j] = KeyOf(g)[j]

\* _continuity_item: what is planned when nothing is found.
Continuity == Gap("continuity", "")

Items(found) == IF found = {} THEN <<Continuity>> ELSE Sorted(found, {e \in found \X found : Before(e[1], e[2])})

BatchPriority(f) == IF f = Continuity THEN 3 ELSE PriorityOf(f)

\* _build_batches: one batch per priority, under a new identifier.
Batches(n, items) ==
    LET Of(p) == Select(items, {i \in DOMAIN items : BatchPriority(items[i]) = p})
        used == {p \in 0..4 : Of(p) # <<>>}
    IN  [i \in 1..Cardinality(used) |->
            LET p == Increasing(used)[i] IN [id |-> <<n, p>>, items |-> Of(p)]]

PlanRemediation(limit) ==
    LET found == IF intel = Missing THEN {} ELSE intel.found
        items == Items(found)
    IN  /\ remPlan' = [batches |-> Batches(refreshes["plan"], Cut(items, limit)),
                    found |-> ToSet(items), cut |-> Cut(items, limit) # items]
        /\ UNCHANGED <<intel, handoff, refined, queue, workDossiers>>

-----------------------------------------------------------------------------
(* Handoff packages *)

SourceTree == Gap("src", "")          \* the target "src/"
AnalyzerTests == Gap("analyzer", "")  \* the tests of the intelligence engine
AllTests == Gap("all", "")            \* python -m unittest -v

Dedupe(s) == Select(s, {i \in DOMAIN s : \A j \in 1..(i - 1) : s[j] # s[i]})

\* _target_files_for_items and _validation_commands_for_items
TargetOf(f) == IF f.kind \in {"cli", "tests", "docs"} THEN f ELSE SourceTree

Commands(items) ==
    LET named == Select(items, {i \in DOMAIN items : items[i].kind \in {"cli", "tests", "docs"}})
        Of(f) == IF f.kind = "docs" THEN AnalyzerTests ELSE f
    IN  IF named = <<>> THEN <<AllTests>> ELSE Dedupe([i \in DOMAIN named |-> Of(named[i])])

Package(batch) ==
    [batch |-> batch.id,
     files |-> Dedupe([i \in DOMAIN batch.items |-> TargetOf(batch.items[i])]),
     commands |-> Commands(batch.items),
     compat |-> batch.items[1].kind = "compat" \/ batch.items[1].module \in Naming["compat"]]

HandOver(limit) ==
    LET batches == IF remPlan = Missing THEN <<>> ELSE remPlan.batches
        packages == [i \in DOMAIN batches |-> Package(batches[i])]
    IN  /\ handoff' = [packages |-> Cut(packages, limit),
                       found |-> IF remPlan = Missing THEN {} ELSE remPlan.found,
                       cut |-> remPlan = Missing \/ remPlan.cut \/ Cut(packages, limit) # packages]
        /\ UNCHANGED <<intel, remPlan, refined, queue, workDossiers>>

-----------------------------------------------------------------------------
(* Refinement: a broad package is split by subsystem and kind of change *)

\* infer_subsystem, of the files a package can name: a document of a module
\* called router... is in the routers subsystem.
Subsystem(f) ==
    CASE f.kind = "tests" /\ f.module \in {"mission_engine", "orchestrator", "orchastrator",
                                           "routers", "tools", "ui"} -> f.module
      [] f.kind = "cli" /\ f.module = "mission_engine" -> f.module
      [] f.kind = "docs" /\ f.module \in StrategyModules -> "strategic_missions"
      [] f.kind = "docs" /\ f.module \in RouterModules \ StrategyModules -> "routers"
      [] f.kind = "docs" /\ f.module \notin RouterModules \cup StrategyModules -> "docs"
      [] OTHER -> "system"

\* infer_change_type: what has "compat" in its name is compatibility work, a
\* document too, unless it is a CLI test or the test of a contract.
ChangeType(f) ==
    LET contract == f.kind = "tests" /\ f.module \in ContractModules
        compat == f.kind \in {"tests", "docs"} /\ f.module \in Naming["compat"]
    IN  CASE f.kind = "cli" -> "add_cli_test"
          [] contract -> "add_contract_test"
          [] compat /\ ~contract -> "add_runtime_compat_test"
          [] f.kind = "tests" /\ ~contract /\ ~compat -> "add_test"
          [] f.kind = "docs" /\ ~compat -> "add_docs"
          [] OTHER -> "add_update"

\* Both in the order of strings.
SubsystemOrder ==
    <<"docs", "mission_engine", "orchastrator", "orchestrator", "routers", "strategic_missions",
      "system", "tools", "ui">>
ChangeOrder ==
    <<"add_cli_test", "add_contract_test", "add_docs", "add_runtime_compat_test", "add_test", "add_update">>

GroupOf(f) == <<Subsystem(f), ChangeType(f)>>

GroupsOf(p) == {GroupOf(p.files[i]) : i \in DOMAIN p.files}

GroupBefore(g, h) ==
    LET s == PosIn(g[1], SubsystemOrder)
        t == PosIn(h[1], SubsystemOrder)
    IN  s < t \/ (s = t /\ PosIn(g[2], ChangeOrder) < PosIn(h[2], ChangeOrder))

\* detect_broad_package
Broad(p) ==
    \/ Len(p.files) > 3
    \/ Cardinality({g[1] : g \in GroupsOf(p)}) > 1
    \/ Len(p.commands) > 2
    \/ Cardinality({g[2] : g \in GroupsOf(p)}) > 1

\* The text of command c has the subsystem in it, or fits the kind of change
\* (_command_matches_change_type); every command has "test" in it.
Matches(c, group) ==
    \/ c.module \in Naming[group[1]]
    \/ group[2] = "add_cli_test" /\ (c.kind = "cli" \/ c.module \in Naming["cli"])
    \/ group[2] = "add_contract_test" /\ c.module \in Naming["contract"]
    \/ group[2] = "add_runtime_compat_test" /\ c.module \in Naming["compat"]
    \/ group[2] = "add_test"
    \/ group[2] = "add_docs" /\ c.kind = "analyzer"

\* The search for a group ends at the first one that matches.
CommandsForFirst(p, group) ==
    Select(p.commands, {i \in DOMAIN p.commands :
        /\ Matches(p.commands[i], group)
        /\ \A g \in GroupsOf(p) : Matches(p.commands[i], g) => ~GroupBefore(g, group)})

\* split_groups: a command goes to every group it matches, or to the first.
CommandsFor(p, group) ==
    Select(p.commands, {i \in DOMAIN p.commands :
        \/ Matches(p.commands[i], group)
        \/ \A g \in GroupsOf(p) : ~Matches(p.commands[i], g) /\ ~GroupBefore(g, group)})

RiskLevel(files, commands, broad) ==
    IF broad /\ (Len(files) > 5 \/ Len(commands) > 4) THEN "high"
    ELSE IF Len(files) <= 1 /\ Len(commands) <= 1 THEN "low"
    ELSE IF Len(files) <= 3 /\ Len(commands) <= 2 THEN "medium"
    ELSE "high"

EstimatedScope(files, commands) ==
    LET size == Len(files) + Len(commands)
    IN  CASE size <= 2 -> "tiny" [] size \in 3..5 -> "small" [] size \in 6..8 -> "medium" [] OTHER -> "large"

Refined(p, group, files, commands, broad) ==
    [batch |-> p.batch, subsystem |-> group[1], change |-> group[2],
     files |-> files, commands |-> commands,
     compat |-> IF broad THEN group[2] = "add_runtime_compat_test" ELSE p.compat,
     risk |-> RiskLevel(files, commands, broad), scope |-> EstimatedScope(files, commands)]

\* _split_package
Split(p) ==
    LET groups == Sorted(GroupsOf(p), {e \in GroupsOf(p) \X GroupsOf(p) : GroupBefore(e[1], e[2])})
        Part(g) == LET files == Select(p.files, {i \in DOMAIN p.files : GroupOf(p.files[i]) = g})
                       commands == CommandsFor(p, g)
                   IN  Refined(p, g, files, IF commands = <<>> THEN <<AllTests>> ELSE commands, TRUE)
    IN  [i \in DOMAIN groups |-> Part(groups[i])]

\* _refine_packages
Refine(p) ==
    IF Broad(p) THEN Split(p)
    ELSE LET g == CHOOSE x \in GroupsOf(p) : TRUE
         IN  <<Refined(p, g, p.files, p.commands, FALSE)>>

\* Packages that are called the same are taken for the same.
PackageIdByTitle(n, i, p) == <<0, p.subsystem, p.change>>

\* new_id("refined_pkg")
PackageId(n, i, p) == <<n, i>>

RefineHandoff(limit) ==
    LET packages == IF handoff = Missing THEN <<>> ELSE handoff.packages
        narrow == FlattenSeq([i \in DOMAIN packages |-> Refine(packages[i])])
        Tag(i) == [id |-> PackageId(refreshes["refined"], i, narrow[i]), package |-> narrow[i]]
    IN  /\ refined' = [packages |-> Cut([i \in DOMAIN narrow |-> Tag(i)], limit),
                       found |-> IF handoff = Missing THEN {} ELSE handoff.found,
                       cut |-> handoff = Missing \/ handoff.cut \/ Cut(narrow, limit) # narrow]
        /\ UNCHANGED <<intel, remPlan, handoff, queue, workDossiers>>

-----------------------------------------------------------------------------
(* The work queue *)

\* The kinds of change a package has to wait for, within its subsystem: the
\* rules of _deps_for_package.  No subsystem has "release" in its name.
WaitsFor(p) ==
    (IF p.change = "add_cli_test" \/ p.change = "add_runtime_compat_test" \/ p.compat
     THEN {"add_test"} ELSE {})
    \cup (IF p.change = "add_contract_test" THEN {"add_update"} ELSE {})

\* Package j is a candidate of one of i's rules, and not i itself.
Needs(packages, i, j) ==
    /\ j # i
    /\ packages[j].package.subsystem = packages[i].package.subsystem
    /\ packages[j].package.change \in WaitsFor(packages[i].package)

\* infer_dependencies: the positions of the packages that package i waits for,
\* the rule for updates before the one for tests.
DependsOn(packages, i) ==
    LET all == [j \in DOMAIN packages |-> j]
        Of(change) == Select(all, {j \in DOMAIN packages :
                          Needs(packages, i, j) /\ packages[j].package.change = change})
    IN  Of("add_update") \o Of("add_test")

\* topological_order, with the calls of visit as a stack: those to be made, and
\* the ends of those that are open, where the node is appended.
VisitOf(i) == [step |-> "visit", node |-> i]
EndOf(i) == [step |-> "append", node |-> i]

VisitStep(packages, walk) ==
    LET call == Head(walk.calls)
        rest == Tail(walk.calls)
        deps == DependsOn(packages, call.node)
        visits == [k \in DOMAIN deps |-> VisitOf(deps[k])]
    IN  CASE walk.calls = <<>> -> walk
          [] walk.calls # <<>> /\ call.step = "append" ->
                [walk EXCEPT !.calls = rest, !.order = Append(@, call.node)]
          [] walk.calls # <<>> /\ call.step = "visit" /\ call.node \in walk.seen ->
                [walk EXCEPT !.calls = rest]
          [] OTHER ->
                [walk EXCEPT !.calls = (visits \o <<EndOf(call.node)>>) \o rest,
                             !.seen = @ \cup {call.node}]

\* A package is put down before what it waits for.
TopologicalOrderTopDown(packages) ==
    LET All == [i \in DOMAIN packages |-> i]
        Walk(w, i) == IF i \in w.seen THEN w
                      ELSE [seen |-> w.seen \cup {i}, order |-> Append(w.order, i)]
        Down(w, i) == FoldLeft(Walk, Walk(w, i), DependsOn(packages, i))
    IN  FoldLeft(Down, [seen |-> {}, order |-> <<>>], All).order

\* n visits from outside, and for each of the n packages its end and at most
\* n - 1 visits of what it waits for: the stack is empty by then.
TopologicalOrder(packages) ==
    LET n == Len(packages)
        start == [calls |-> [i \in 1..n |-> VisitOf(i)], seen |-> {}, order |-> <<>>]
        walk[k \in Nat] ==
            IF k = 0 THEN start ELSE VisitStep(packages, walk[k - 1])
    IN  walk[n * (n + 1)].order

EffortOf(p) ==
    LET base == CASE p.scope = "tiny" -> 15 [] p.scope = "small" -> 30
                  [] p.scope = "medium" -> 50 [] OTHER -> 70
        sum == base + 5 * Len(p.files) + 3 * Len(p.commands)
    IN  IF sum > 100 THEN 100 ELSE sum

RiskOf(p) == CASE p.risk = "low" -> 20 [] p.risk = "medium" -> 45 [] OTHER -> 70

\* compute_readiness_score.  Every dependency is a package of the report, so
\* there are no blockers.
ReadinessOf(packages, i) ==
    LET p == packages[i].package
        crowd == {j \in DOMAIN packages : packages[j].package.subsystem = p.subsystem}
        off == (RiskOf(p) * 35) \div 100 + 8 * Len(DependsOn(packages, i))
               + (EffortOf(p) * 15) \div 100 + (IF Cardinality(crowd) > 3 THEN 5 ELSE 0)
    IN  IF off > 100 THEN 0 ELSE 100 - off

\* execution_readiness_from_score
ExecutionReadiness(score) ==
    CASE score >= 85 -> "ready" [] score \in 60..84 -> "waiting" [] score \in 35..59 -> "blocked"
      [] OTHER -> "deferred"

\* _derive_priority, as 0..4 for P0..P4
QueuePriorityOf(readiness, risk) ==
    IF risk >= 85 THEN 0
    ELSE CASE readiness >= 75 -> 1 [] readiness \in 60..74 -> 2 [] readiness \in 40..59 -> 3
           [] OTHER -> 4

\* generate_work_queue_report.  The item's package and dependencies are kept
\* beside its identifiers, as a record of what was planned.
PlanQueue(limit) ==
    LET packages == IF refined = Missing THEN <<>> ELSE refined.packages
        order == TopologicalOrder(packages)
        Item(i) == LET p == packages[i].package
                       score == ReadinessOf(packages, i)
                   IN  [id |-> packages[i].id, batch |-> p.batch,
                        deps |-> {packages[j].id : j \in ToSet(DependsOn(packages, i))},
                        score |-> score, readiness |-> ExecutionReadiness(score),
                        risk |-> RiskOf(p), priority |-> QueuePriorityOf(score, RiskOf(p)),
                        package |-> p]
    IN  /\ queue' = [items |-> Cut([k \in DOMAIN order |-> Item(order[k])], limit)]
        /\ UNCHANGED <<intel, remPlan, handoff, refined, workDossiers>>

-----------------------------------------------------------------------------
(* Execution dossiers *)

\* The package of the latest refinement with the item's identifier, or {}.
Joined(item) ==
    LET found == IF refined = Missing THEN {}
                 ELSE {p \in ToSet(refined.packages) : p.id = item.id}
    IN  IF found = {} THEN Missing ELSE (CHOOSE p \in found : TRUE).package

\* _execution_risk
DossierRisk(score, risk) ==
    IF risk >= 85 \/ score < 30 THEN "critical"
    ELSE IF risk >= 70 \/ score < 50 THEN "high"
    ELSE IF risk >= 45 \/ score < 80 THEN "medium"
    ELSE "low"

\* _build_dossier: scope and commands come from the joined package, the
\* objective from it or else from the handoff package of the item's batch.
Dossier(item) ==
    LET p == Joined(item)
        offered == IF handoff = Missing THEN {} ELSE {q.batch : q \in ToSet(handoff.packages)}
    IN  [item |-> item, risk |-> DossierRisk(item.score, item.risk),
         files |-> IF p = Missing THEN <<>> ELSE p.files,
         commands |-> IF p = Missing THEN <<>> ELSE p.commands,
         objective |-> IF p # Missing THEN "package"
                       ELSE IF item.batch \in offered THEN "batch" ELSE "title"]

WriteWorkDossiers(limit) ==
    LET items == IF queue = Missing THEN <<>> ELSE queue.items
    IN  /\ workDossiers' = Cut([i \in DOMAIN items |-> Dossier(items[i])], limit)
        /\ UNCHANGED <<intel, remPlan, handoff, refined, queue>>

-----------------------------------------------------------------------------

WorkInit ==
    /\ intel = Missing /\ remPlan = Missing /\ handoff = Missing
    /\ refined = Missing /\ queue = Missing /\ workDossiers = <<>>
    /\ refreshes = [r \in Reports |-> 0]

\* A command with --export: a new report takes the place of the old one.
Refresh(r, A) ==
    /\ refreshes[r] < MaxRefreshes[r]
    /\ A
    /\ refreshes' = [refreshes EXCEPT ![r] = @ + 1]

WorkNext ==
    \/ Refresh("intel", AnalyzeRepository)
    \/ \E limit \in Limits :
          \/ Refresh("plan", PlanRemediation(limit))
          \/ Refresh("handoff", HandOver(limit))
          \/ Refresh("refined", RefineHandoff(limit))
          \/ Refresh("queue", PlanQueue(limit))
          \/ Refresh("dossiers", WriteWorkDossiers(limit))

WorkSpec == WorkInit /\ [][WorkNext]_workVars

-----------------------------------------------------------------------------
(* The checks that every generator applies to its report before it exports  *)
(* it, and that abort the export when they fail.  The actions leave them    *)
(* out: WorkTypeOK says that they never fail.                               *)

RemediationContract(r) ==
    \A i \in DOMAIN r.batches : r.batches[i].id[2] \in 0..4 /\ r.batches[i].items # <<>>

HandoffContract(r) ==
    \A i \in DOMAIN r.packages : r.packages[i].files # <<>> /\ r.packages[i].commands # <<>>

RefinementContract(r) ==
    \A i \in DOMAIN r.packages :
        LET p == r.packages[i].package
        IN  /\ p.risk \in {"low", "medium", "high", "critical"}
            /\ p.scope \in {"tiny", "small", "medium", "large"}
            /\ p.files # <<>> /\ p.commands # <<>>

WorkQueueContract(r) ==
    \A i \in DOMAIN r.items :
        /\ r.items[i].priority \in 0..4 /\ r.items[i].score \in 0..100
        /\ r.items[i].readiness \in {"ready", "waiting", "blocked", "deferred"}

WorkDossierContract(ds) ==
    \A i \in DOMAIN ds : ds[i].risk \in {"low", "medium", "high", "critical"}

\* Types: every report passes the checks of its own contracts module.
WorkTypeOK ==
    /\ remPlan # Missing => RemediationContract(remPlan)
    /\ handoff # Missing => HandoffContract(handoff)
    /\ refined # Missing => RefinementContract(refined)
    /\ queue # Missing => WorkQueueContract(queue)
    /\ WorkDossierContract(workDossiers)
    /\ refreshes \in [Reports -> Nat]

-----------------------------------------------------------------------------
(* Properties *)

\* The recommended order can be followed: whatever a queue item waits for comes
\* before it, also where --limit cut the queue short, and an item that is
\* reported ready waits for nothing.
WorkInOrder ==
    queue # Missing =>
        \A i \in DOMAIN queue.items :
            /\ queue.items[i].deps \subseteq {queue.items[j].id : j \in 1..(i - 1)}
            /\ queue.items[i].readiness = "ready" => queue.items[i].deps = {}

\* Between finding and refined package nothing falls through: unless a limit
\* cut a report short, the files that close the findings are the files of the
\* packages, no file is in two packages of its batch, and each test file is in
\* one package with the command that runs it.
NothingForgotten ==
    refined # Missing =>
        /\ ~refined.cut =>
              {TargetOf(f) : f \in refined.found}
                  = UNION {ToSet(p.package.files) : p \in ToSet(refined.packages)}
        /\ \A i, j \in DOMAIN refined.packages :
              LET p == refined.packages[i].package
                  q == refined.packages[j].package
              IN  /\ i # j /\ p.batch = q.batch => ToSet(p.files) \cap ToSet(q.files) = {}
                  /\ \A f \in ToSet(p.files) :
                        f.kind \in {"tests", "cli"} => f \in ToSet(p.commands)

\* A dossier tells the operator to change what its queue item was planned for,
\* or names no file and no command: a queue that is older than the refinement
\* is never joined to another package, and its objective is never that of
\* another batch.
DossiersMatchQueue ==
    \A i \in DOMAIN workDossiers :
        LET d == workDossiers[i]
        IN  \/ d.files = d.item.package.files /\ d.commands = d.item.package.commands
            \/ d.files = <<>> /\ d.commands = <<>> /\ d.objective # "package"

=============================================================================
