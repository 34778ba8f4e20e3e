-------------------------- MODULE PortfolioReports --------------------------
(***************************************************************************)
(* The nine portfolio generators under src/portfolio_*.  Each one is a     *)
(* command line of its own: it reads the registries and the latest.json of *)
(* the others, computes its report, replaces its own latest.json and,      *)
(* when asked, appends the report to its history.jsonl.  The reports feed  *)
(* each other in a loop: the progress report compares the governance index *)
(* with the one before it, and the index scores the progress report.       *)
(*                                                                         *)
(* An operator refreshes the reports in the order of Stages, over and      *)
(* over, while the registries and the repositories change.  A repository   *)
(* is a record of what the generators look at; texts, ids, timestamps,     *)
(* listings and the per-repository metrics that no other generator reads   *)
(* are left out.                                                           *)
(***************************************************************************)
EXTENDS Integers, Sequences, FiniteSets, FiniteSetsExt

CONSTANTS
    RepoOrder,      \* the repositories, in the order of the registry file
    Worlds,         \* states of the registry and of the repositories on disk
    Depends,        \* the lists of .config/portfolio/dependencies.json
    DependencyKey,  \* the key of that file the lists are under
    MaxWorldEdits,  \* bound on changes of the world
    MaxSlips        \* bound on skipped stages and unlogged reports

VARIABLES
    world,      \* world[r]: what the registry and the disk say of repository r
    latest,     \* latest[k]: latest.json of generator k
    history,    \* history[k].last: last line of history.jsonl that is not the
                \* latest report; .own: whether the latest report has a line
    stage,      \* position of the operator in Stages
    recent,     \* generators that ran in this round
    current,    \* reports computed from the present world through current ones
    moved,      \* generators whose last run changed their report
    edits, slips

portfolioVars == <<world, latest, history, stage, recent, current, moved, edits, slips>>

Stages == <<"bootstrap", "onboarding", "portfolio", "dependencies",
            "critical_path", "roadmap", "progress", "drift", "index">>

Kinds == {Stages[i] : i \in 1 .. Len(Stages)}

Repos == {RepoOrder[i] : i \in 1 .. Len(RepoOrder)}

\* What the registry and a disk can hold; a queue or dossier may report any readiness.
ASSUME PortfolioAssumption ==
    /\ RepoOrder \in Seq(Repos)
    /\ \A w \in Worlds :
          w \in [Repos -> [registered : BOOLEAN, enabled : BOOLEAN, exists : BOOLEAN,
                           structure : SUBSET {"readme", "docs", "src", "tests"}, artifacts : 0 .. 3,
                           remediation : Nat, intel : Nat, queued : Nat, queueReady : Int,
                           dossiers : Nat, dossierReady : Int, highRisk : Nat]]
    /\ IsFiniteSet(DOMAIN Depends) /\ \A r \in DOMAIN Depends : IsFiniteSet(Depends[r])
    /\ MaxWorldEdits \in Nat /\ MaxSlips \in Nat

\* What load_json returns for a file that is missing or does not parse.
Absent == [present |-> FALSE]

\* A list of a report, as a function of the repository; empty when absent.
Field(rep, f) == IF rep.present THEN rep[f] ELSE <<>>

Lookup(map, r, default) == IF r \in DOMAIN map THEN map[r] ELSE default

Least(a, b) == IF a < b THEN a ELSE b
Clamp(n) == IF n < 0 THEN 0 ELSE Least(n, 100)

SumOf(map) == MapThenSumSet(LAMBDA r : map[r], DOMAIN map)
Average(map) == IF DOMAIN map = {} THEN 0 ELSE SumOf(map) \div Cardinality(DOMAIN map)

-----------------------------------------------------------------------------
(* Bootstrap and onboarding.                                               *)

Registered(w) == {r \in Repos : w[r].registered}

ArtifactStatus(p) ==
    CASE ~p.exists -> "unknown"
      [] p.exists /\ p.artifacts = 0 -> "none"
      [] p.exists /\ p.artifacts = 3 -> "complete"
      [] OTHER -> "partial"

Points == [readme |-> 15, docs |-> 15, src |-> 25, tests |-> 20]

ReadinessEstimate(p) ==
    IF ~p.exists THEN 0
    ELSE Clamp(MapThenSumSet(LAMBDA s : Points[s], p.structure) + (p.artifacts * 25) \div 3)

OnboardingState(p) ==
    CASE ~p.exists -> "registered"
      [] p.exists /\ ArtifactStatus(p) = "complete" /\ ReadinessEstimate(p) >= 75 -> "onboarded"
      [] p.exists /\ ~(ArtifactStatus(p) = "complete" /\ ReadinessEstimate(p) >= 75)
                  /\ (ReadinessEstimate(p) >= 50 \/ ArtifactStatus(p) = "partial") -> "assessed"
      [] OTHER -> "discovered"

OnboardingRecord(p) ==
    [discovered |-> p.exists, status |-> ArtifactStatus(p),
     readiness |-> ReadinessEstimate(p), state |-> OnboardingState(p)]

\* A wrong Bootstrap: repositories whose path is missing are not listed.
BootstrapFound(w) ==
    LET records == [r \in {q \in Registered(w) : w[q].exists} |-> OnboardingRecord(w[r])]
    IN [present |-> TRUE, records |-> records,
        average |-> Average([r \in DOMAIN records |-> records[r].readiness])]

Bootstrap(w) ==
    LET records == [r \in Registered(w) |-> OnboardingRecord(w[r])]
    IN [present |-> TRUE, records |-> records,
        average |-> Average([r \in DOMAIN records |-> records[r].readiness])]

OnboardingPriority(rec) ==
    CASE rec.status = "unknown" \/ (~rec.discovered /\ rec.state = "registered") -> "P1"
      [] rec.discovered /\ rec.status = "none" -> "P1"
      [] rec.discovered /\ rec.status = "partial" -> "P2"
      [] OTHER -> "P3"

Onboarding(L) ==
    LET records == Field(L["bootstrap"], "records")
    IN [present |-> TRUE, priority |-> [r \in DOMAIN records |-> OnboardingPriority(records[r])]]

-----------------------------------------------------------------------------
(* The portfolio report: health and readiness of every repository.         *)

\* _normalize_readiness: the mean of the sources that have a say.
NormalReadiness(p, estimate) ==
    LET vals == [q |-> p.queueReady, d |-> p.dossierReady, b |-> estimate]
        used == {s \in {"q", "d", "b"} :
                    \/ s = "q" /\ p.queued > 0
                    \/ s = "d" /\ p.dossiers > 0
                    \/ s = "b" /\ estimate > 0}
    IN Average([s \in used |-> Clamp(vals[s])])

HealthScore(p, readiness) ==
    Clamp(100 - Least(40, p.remediation * 4)
              - Least(20, p.intel * 6)
              - Least(20, p.highRisk * 7)
              - (IF p.queued > 0 /\ p.dossiers = 0 THEN 15 ELSE 0)
              - (IF p.queued = 0 /\ p.remediation > 0 THEN 10 ELSE 0)
              - (IF readiness < 50 THEN 10 ELSE 0))

StatusFromScores(health, readiness) ==
    CASE health >= 85 /\ readiness >= 80 -> "healthy"
      [] ~(health >= 85 /\ readiness >= 80) /\ health >= 70 /\ readiness >= 60 -> "warning"
      [] ~(health >= 70 /\ readiness >= 60) /\ health >= 45 /\ readiness >= 40 -> "degraded"
      [] OTHER -> "critical"

RepositoryStatus(p, estimate) ==
    LET readiness == NormalReadiness(p, estimate)
        health == HealthScore(p, readiness)
    IN [health |-> health, readiness |-> readiness,
        overall |-> StatusFromScores(health, readiness)]

Portfolio(w, L) ==
    LET records == Field(L["bootstrap"], "records")
        statuses == [r \in Registered(w) |->
                        RepositoryStatus(w[r], IF r \in DOMAIN records THEN records[r].readiness ELSE 0)]
    IN [present |-> TRUE, statuses |-> statuses,
        health |-> Average([r \in DOMAIN statuses |-> statuses[r].health]),
        readiness |-> Average([r \in DOMAIN statuses |-> statuses[r].readiness])]

-----------------------------------------------------------------------------
(* The dependency report.                                                  *)

\* load_dependency_registry and build_dependency_graph read "repositories".
DependencyGraph == IF DependencyKey = "repositories" THEN Depends ELSE <<>>

DepsOf(g, r) == Lookup(g, r, {})

\* Paths that repeat no repository and follow the dependency lists.
SimplePaths ==
    {p \in UNION {[1 .. n -> Repos] : n \in 1 .. Len(RepoOrder)} :
        /\ p[1] \in DOMAIN DependencyGraph
        /\ \A i, j \in DOMAIN p : p[i] = p[j] => i = j
        /\ \A i \in 1 .. Len(p) - 1 : p[i + 1] \in DepsOf(DependencyGraph, p[i])}

\* build_dependency_chains: the paths its search cannot extend.
Chains ==
    {p \in SimplePaths :
        /\ Len(p) > 1
        /\ \A d \in DepsOf(DependencyGraph, p[Len(p)]) : \E i \in DOMAIN p : p[i] = d}

Finding(repo, dep, category, severity) ==
    [repo |-> repo, dep |-> dep, category |-> category, severity |-> severity]

EdgeFindings(w, L, r, d) ==
    LET records == Field(L["bootstrap"], "records")
        readiness == IF d \in DOMAIN records THEN records[d].readiness ELSE 0
        statuses == Field(L["portfolio"], "statuses")
        state == IF d \in DOMAIN statuses THEN statuses[d].overall ELSE "unknown"
        priority == Lookup(Field(L["onboarding"], "priority"), d, "P4")
    IN IF d \notin Registered(w)
       THEN {Finding(r, d, "dependency_unknown", "high")}
       ELSE {f \in {Finding(r, d, "dependency_blocked", "high"),
                    Finding(r, d, "dependency_risk", "medium"),
                    Finding(r, d, "dependency_missing", "medium")} :
                \/ f.category = "dependency_blocked"
                   /\ (readiness < 50 \/ state \in {"critical", "degraded"})
                \/ f.category = "dependency_risk" /\ priority \in {"P0", "P1"}
                \/ f.category = "dependency_missing" /\ readiness = 0}

\* The findings of severity info, one for every chain, are counted apart.
Dependencies(w, L) ==
    [present |-> TRUE, graph |-> DependencyGraph, chains |-> Chains,
     findings |-> UNION {EdgeFindings(w, L, e[1], e[2]) :
                            e \in {p \in Repos \X Repos : p[2] \in DepsOf(DependencyGraph, p[1])}}]

-----------------------------------------------------------------------------
(* Critical path and roadmap.                                              *)

RiskFindings(L) == IF L["dependencies"].present THEN L["dependencies"].findings ELSE {}
ReportedChains(L) == IF L["dependencies"].present THEN L["dependencies"].chains ELSE {}

InfluenceScore(consumers, providers, chains, risks, readiness) ==
    Clamp(Least(30, consumers * 6) + Least(20, providers * 4) + Least(20, chains * 3)
            + Least(20, risks * 4) + Least(10, (100 - readiness) \div 10))

PriorityWeight == [P0 |-> 10, P1 |-> 8, P2 |-> 5, P3 |-> 2, P4 |-> 0]

CriticalPathScore(influence, readiness, consumers, highs, priority) ==
    Clamp((influence * 45) \div 100 + (100 - readiness) \div 4 + Least(15, consumers * 4)
            + Least(10, highs * 3) + PriorityWeight[priority])

RecommendationPriority(score) ==
    CASE score >= 90 -> "P0"
      [] score \in 75 .. 89 -> "P1"
      [] score \in 60 .. 74 -> "P2"
      [] score \in 40 .. 59 -> "P3"
      [] OTHER -> "P4"

RepoScore(L, r) ==
    LET g == Field(L["dependencies"], "graph")
        statuses == Field(L["portfolio"], "statuses")
        readiness == IF r \in DOMAIN statuses THEN statuses[r].readiness ELSE 0
        consumers == Cardinality({c \in DOMAIN g : r \in g[c]})
        mine == {f \in RiskFindings(L) : f.repo = r}
        influence == InfluenceScore(consumers, Cardinality(DepsOf(g, r)),
                        Cardinality({p \in ReportedChains(L) : \E i \in DOMAIN p : p[i] = r}),
                        Cardinality(mine), readiness)
    IN CriticalPathScore(influence, readiness, consumers,
            Cardinality({f \in mine : f.severity = "high"}),
            Lookup(Field(L["onboarding"], "priority"), r, "P4"))

CriticalPath(w, L) ==
    LET scores == [r \in Registered(w) |-> RepoScore(L, r)]
    IN [present |-> TRUE, scores |-> scores,
        priority |-> [r \in DOMAIN scores |-> RecommendationPriority(scores[r])]]

HorizonForPriority(p) ==
    CASE p \in {"P0", "P1"} -> "near_term" [] p = "P2" -> "mid_term" [] OTHER -> "long_term"

\* dependency_depth: a step back onto the path still counts for one.
DependencyDepth ==
    LET closes(p) == \E i \in DOMAIN p : p[i] \in DepsOf(DependencyGraph, p[Len(p)])
    IN [r \in DOMAIN DependencyGraph |->
            Max({Len(p) - 1 + (IF closes(p) THEN 1 ELSE 0) : p \in {q \in SimplePaths : q[1] = r}})]

WaveFor(horizon, depth) ==
    CASE horizon = "near_term" -> IF depth <= 1 THEN "wave_1" ELSE "wave_2"
      [] horizon = "mid_term" -> IF depth <= 1 THEN "wave_2" ELSE "wave_3"
      [] OTHER -> "wave_3"

RoadmapItem(L, r, priority) ==
    LET horizon == HorizonForPriority(priority)
    IN IF Lookup(Field(L["onboarding"], "priority"), r, "P4") \in {"P0", "P1"} /\ horizon # "near_term"
       THEN [horizon |-> "near_term", wave |-> "wave_1"]
       ELSE [horizon |-> horizon,
             wave |-> WaveFor(horizon, IF L["dependencies"].present THEN Lookup(DependencyDepth, r, 0) ELSE 0)]

\* _fallback_items: the first three registered repositories.
FallbackItems(w) ==
    LET rank(i) == Cardinality({j \in 1 .. i : w[RepoOrder[j]].registered})
        plan == <<[horizon |-> "near_term", wave |-> "wave_1"],
                  [horizon |-> "mid_term", wave |-> "wave_2"],
                  [horizon |-> "long_term", wave |-> "wave_3"]>>
        chosen == {i \in 1 .. Len(RepoOrder) : w[RepoOrder[i]].registered /\ rank(i) <= 3}
    IN [r \in {RepoOrder[i] : i \in chosen} |-> plan[rank(CHOOSE i \in chosen : RepoOrder[i] = r)]]

Roadmap(w, L) ==
    LET recs == Field(L["critical_path"], "priority")
        items == IF DOMAIN recs = {} THEN FallbackItems(w)
                 ELSE [r \in DOMAIN recs |-> RoadmapItem(L, r, recs[r])]
    IN [present |-> TRUE, items |-> items,
        waves |-> Cardinality({items[r].wave : r \in DOMAIN items})]

-----------------------------------------------------------------------------
(* Progress: every metric of the latest reports against the reports that   *)
(* the histories hold before them.                                         *)

None == -1

\* A count is 0 when its report is absent; a score is unavailable.
Metrics(X) ==
    LET score(k, f) == IF X[k].present THEN X[k][f] ELSE None
        findings == RiskFindings(X)
    IN [health |-> score("portfolio", "health"),
        readiness |-> score("portfolio", "readiness"),
        onboarding |-> IF X["bootstrap"].present THEN X["bootstrap"].average ELSE 0,
        unknown |-> 0,      \* no generator writes the states it counts
        dependencies |-> Cardinality(findings) + Cardinality(ReportedChains(X)),
        highs |-> Cardinality({f \in findings : f.severity = "high"}),
        recommendations |-> Cardinality(DOMAIN Field(X["critical_path"], "priority")),
        items |-> Cardinality(DOMAIN Field(X["roadmap"], "items")),
        waves |-> IF X["roadmap"].present THEN 3 ELSE 0,
        drift |-> IF X["drift"].present THEN Cardinality(X["drift"].findings) ELSE 0,
        governance |-> score("index", "score")]

MetricNames == {"health", "readiness", "onboarding", "unknown", "dependencies", "highs",
                "recommendations", "items", "waves", "drift", "governance"}

PositiveMetrics == {"health", "readiness", "onboarding", "governance"}

\* A wrong Trend: the governance score counts as a metric that should fall.
TrendInverted(name, cur, prev) ==
    CASE cur = None \/ prev = None -> "unknown"
      [] cur # None /\ prev # None /\ cur = prev -> "stable"
      [] cur # None /\ prev # None /\ cur # prev ->
            IF (cur > prev) = (name \in PositiveMetrics \ {"governance"}) THEN "improving" ELSE "declining"

Trend(name, cur, prev) ==
    CASE cur = None \/ prev = None -> "unknown"
      [] cur # None /\ prev # None /\ cur = prev -> "stable"
      [] cur # None /\ prev # None /\ cur # prev ->
            IF (cur > prev) = (name \in PositiveMetrics) THEN "improving" ELSE "declining"

\* load_latest_and_previous, for every directory.
Previous == [k \in Kinds |-> history[k].last]

Progress(L) ==
    LET now == Metrics(L)
        before == Metrics(Previous)
        counted(t) == Cardinality({m \in MetricNames : Trend(m, now[m], before[m]) = t})
    IN [present |-> TRUE, improving |-> counted("improving"),
        stable |-> counted("stable"), declining |-> counted("declining")]

-----------------------------------------------------------------------------
(* Drift: what the reports and the registries say against each other.      *)

Enabled(w) == {r \in Registered(w) : w[r].enabled}

\* _dependency_ids reads the key "dependencies" of the dependency registry.
DependencyIds ==
    IF DependencyKey = "dependencies"
    THEN DOMAIN Depends \cup UNION {Depends[r] : r \in DOMAIN Depends}
    ELSE {}

RegistryDrift(w, L) ==
    LET records == Field(L["bootstrap"], "records")
    IN {<<"unregistered_dependency", "high", r>> : r \in DependencyIds \ Registered(w)}
       \cup {<<"no_dependency_entry", "low", r>> : r \in Enabled(w) \ DependencyIds}
       \cup {<<"missing_bootstrap_record", "medium", r>> : r \in Enabled(w) \ DOMAIN records}
       \cup {<<"unregistered_bootstrap", "medium", r>> : r \in DOMAIN records \ Registered(w)}

RecommendationDrift(L) ==
    LET records == Field(L["bootstrap"], "records")
        priority == Field(L["onboarding"], "priority")
    IN {<<"missing_recommendation", "medium", r>> :
            r \in {q \in DOMAIN records \ DOMAIN priority : records[q].status = "none"}}
       \cup {<<"stale_recommendation", "low", r>> :
            r \in {q \in DOMAIN records \cap DOMAIN priority :
                        records[q].status = "complete" /\ priority[q] \in {"P0", "P1"}}}

PlanningDrift(w, L) ==
    LET recs == Field(L["critical_path"], "priority")
        items == Field(L["roadmap"], "items")
    IN {<<"unranked_risk", "high", r>> :
            r \in {f.repo : f \in {g \in RiskFindings(L) : g.severity = "high"}} \ DOMAIN recs}
       \cup {<<"unregistered_ranking", "high", r>> : r \in DOMAIN recs \ Registered(w)}
       \cup {<<"unplanned_ranking", "medium", r>> :
                r \in {q \in DOMAIN recs : /\ recs[q] \in {"P0", "P1"}
                                           /\ ~(q \in DOMAIN items /\ items[q].horizon = "near_term")}}
       \cup {<<"unregistered_item", "high", r>> : r \in DOMAIN items \ Registered(w)}
       \cup {<<"missing_progress_metric", "medium", "portfolio">> :
                x \in {y \in {"roadmap"} : DOMAIN items # {} /\ ~L["progress"].present}}

StatusDrift(L) ==
    LET statuses == Field(L["portfolio"], "statuses")
        scores == Field(L["critical_path"], "scores")
    IN {<<"contradictory_status", "low", r>> :
            r \in {q \in DOMAIN statuses : statuses[q].overall = "healthy" /\ Lookup(scores, q, 0) >= 75}}

\* _stale_artifact_findings: the downstream report is more than five minutes
\* older.  A round of the operator is shorter than that, and two are not.
UpDown == {<<"bootstrap", "onboarding">>, <<"dependencies", "critical_path">>,
           <<"critical_path", "roadmap">>, <<"roadmap", "progress">>}

StaleArtifacts(L) ==
    {<<"stale_artifact", "low", p[2]>> :
        p \in {q \in UpDown : /\ L[q[1]].present /\ L[q[2]].present
                              /\ q[1] \in recent /\ q[2] \notin recent}}

Drift(w, L) ==
    [present |-> TRUE,
     findings |-> RegistryDrift(w, L) \cup RecommendationDrift(L) \cup PlanningDrift(w, L)
                    \cup StatusDrift(L) \cup StaleArtifacts(L)]

-----------------------------------------------------------------------------
(* The governance index.                                                   *)

Weight == [health |-> 20, readiness |-> 20, onboarding |-> 15, dependencies |-> 15,
           critical_path |-> 10, roadmap |-> 10, progress |-> 5, drift |-> 5]

OnboardingCoverage(b) ==
    Clamp(b.average - Least(40, 5 * Cardinality({r \in DOMAIN b.records : b.records[r].status = "none"})))

TrendScore(p) == Clamp(60 + p.improving * 8 - p.declining * 12 + Least(20, p.stable * 2))

DriftScore(findings) ==
    LET high == Cardinality({f \in findings : f[2] = "high"})
    IN 100 - Least(100, high * 30 + (Cardinality(findings) - high) * 8)

\* The score of every component; 50 when its report is unavailable.
Components(L) ==
    LET high == {f \in RiskFindings(L) : f.severity = "high"}
        urgent == LET recs == Field(L["critical_path"], "priority")
                  IN {r \in DOMAIN recs : recs[r] \in {"P0", "P1"}}
    IN [health |-> IF L["portfolio"].present THEN L["portfolio"].health ELSE 50,
        readiness |-> IF L["portfolio"].present THEN L["portfolio"].readiness ELSE 50,
        onboarding |-> IF L["bootstrap"].present THEN OnboardingCoverage(L["bootstrap"]) ELSE 50,
        dependencies |-> IF L["dependencies"].present THEN 100 - Least(100, Cardinality(high) * 10) ELSE 50,
        critical_path |-> IF L["critical_path"].present THEN 100 - Least(100, Cardinality(urgent) * 15) ELSE 50,
        roadmap |-> IF L["roadmap"].present THEN Least(100, L["roadmap"].waves * 34) ELSE 50,
        progress |-> IF L["progress"].present THEN TrendScore(L["progress"]) ELSE 50,
        drift |-> IF L["drift"].present THEN DriftScore(L["drift"].findings) ELSE 50]

\* Python's round: to the nearest, a half to the even neighbour.
RoundHundredths(n) ==
    LET q == n \div 100  r == n % 100
    IN IF r > 50 \/ (r = 50 /\ q % 2 = 1) THEN q + 1 ELSE q

WeightedScore(c) == RoundHundredths(SumOf([m \in DOMAIN Weight |-> c[m] * Weight[m]]))

GovernanceStatus(score, unknowns) ==
    CASE unknowns >= 5 -> "unknown"
      [] unknowns < 5 /\ score >= 85 -> "healthy"
      [] unknowns < 5 /\ score \in 70 .. 84 -> "warning"
      [] unknowns < 5 /\ score \in 50 .. 69 -> "degraded"
      [] OTHER -> "critical"

\* The portfolio report stands for two components.
Unknowns(L) ==
    SumOf([k \in {"portfolio", "bootstrap", "dependencies", "critical_path", "roadmap", "progress", "drift"} |->
            IF L[k].present THEN 0 ELSE IF k = "portfolio" THEN 2 ELSE 1])

Index(L) ==
    LET score == WeightedScore(Components(L))
    IN [present |-> TRUE, score |-> score, status |-> GovernanceStatus(score, Unknowns(L))]

-----------------------------------------------------------------------------
(* The contracts.  Every generator validates its report against the        *)
(* contracts.py of its package before it writes it, and raises if one      *)
(* fails.  Export leaves that check out: PortfolioTypeOK says that it      *)
(* never fails.                                                            *)

Priorities == {"P0", "P1", "P2", "P3", "P4"}
Severities == {"info", "low", "medium", "high", "critical"}
Statuses == {"healthy", "warning", "degraded", "critical", "unknown"}

BootstrapContract(rep) ==
    /\ \A r \in DOMAIN rep.records :
          rep.records[r] \in [discovered : BOOLEAN, readiness : 0 .. 100,
                              status : {"none", "partial", "complete", "unknown"},
                              state : {"discovered", "registered", "assessed", "onboarded"}]
    /\ rep.average \in 0 .. 100

OnboardingContract(rep) == \A r \in DOMAIN rep.priority : rep.priority[r] \in Priorities

PortfolioContract(rep) ==
    /\ \A r \in DOMAIN rep.statuses :
          rep.statuses[r] \in [health : 0 .. 100, readiness : 0 .. 100, overall : Statuses]
    /\ rep.health \in 0 .. 100 /\ rep.readiness \in 0 .. 100

DependenciesContract(rep) ==
    \A f \in rep.findings :
        /\ f.severity \in Severities
        /\ f.category \in {"dependency_missing", "dependency_unknown", "dependency_blocked",
                           "dependency_risk", "dependency_chain", "dependency_readiness"}

CriticalPathContract(rep) ==
    /\ DOMAIN rep.priority = DOMAIN rep.scores
    /\ \A r \in DOMAIN rep.scores : rep.scores[r] \in 0 .. 100 /\ rep.priority[r] \in Priorities

RoadmapContract(rep) ==
    \A r \in DOMAIN rep.items :
        rep.items[r] \in [horizon : {"near_term", "mid_term", "long_term"},
                          wave : {"wave_1", "wave_2", "wave_3"}]

\* Every metric has one trend; the rest are unknown.
ProgressContract(rep) == rep.improving + rep.stable + rep.declining \in 0 .. Cardinality(MetricNames)

DriftContract(rep) == \A f \in rep.findings : f[2] \in Severities

IndexContract(rep) == rep.score \in 0 .. 100 /\ rep.status \in Statuses

Contract(k, rep) ==
    CASE k = "bootstrap" -> BootstrapContract(rep)
      [] k = "onboarding" -> OnboardingContract(rep)
      [] k = "portfolio" -> PortfolioContract(rep)
      [] k = "dependencies" -> DependenciesContract(rep)
      [] k = "critical_path" -> CriticalPathContract(rep)
      [] k = "roadmap" -> RoadmapContract(rep)
      [] k = "progress" -> ProgressContract(rep)
      [] k = "drift" -> DriftContract(rep)
      [] k = "index" -> IndexContract(rep)

-----------------------------------------------------------------------------
(* The command lines.                                                      *)

\* The reports a generator computes from.
Inputs(k) ==
    CASE k = "bootstrap" -> {}
      [] k = "onboarding" -> {"bootstrap"}
      [] k = "portfolio" -> {"bootstrap"}
      [] k = "dependencies" -> {"bootstrap", "onboarding", "portfolio"}
      [] k = "critical_path" -> {"dependencies", "portfolio", "onboarding"}
      [] k = "roadmap" -> {"critical_path", "dependencies", "onboarding"}
      [] k = "progress" -> {"portfolio", "roadmap", "bootstrap", "dependencies", "critical_path"}
      [] OTHER -> {Stages[i] : i \in 1 .. 7}

PortfolioInit ==
    /\ world \in Worlds
    /\ latest = [k \in Kinds |-> Absent]
    /\ history = [k \in Kinds |-> [last |-> Absent, own |-> FALSE]]
    /\ stage = 1
    /\ recent = {} /\ current = {} /\ moved = {} /\ edits = 0 /\ slips = 0

\* A generator replaces latest.json, and with --export-jsonl appends the report
\* to history.jsonl.  The new report's id is on no earlier line, so what the
\* last line held is from now on the report before this one.
Export(k, report, logged) ==
    /\ Stages[stage] = k
    /\ latest' = [latest EXCEPT ![k] = report]
    /\ history' = [history EXCEPT ![k] =
            [last |-> IF history[k].own THEN latest[k] ELSE history[k].last, own |-> logged]]
    /\ current' = IF Inputs(k) \subseteq current THEN current \cup {k} ELSE current \ {k}
    /\ moved' = IF report = latest[k] THEN moved \ {k} ELSE moved \cup {k}
    /\ stage' = (stage % Len(Stages)) + 1
    /\ recent' = IF stage = Len(Stages) THEN {} ELSE recent \cup {k}
    /\ UNCHANGED <<world, edits>>

BootstrapMain(logged) == Export("bootstrap", Bootstrap(world), logged)
OnboardingMain(logged) == Export("onboarding", Onboarding(latest), logged)
PortfolioMain(logged) == Export("portfolio", Portfolio(world, latest), logged)
DependenciesMain(logged) == Export("dependencies", Dependencies(world, latest), logged)
CriticalPathMain(logged) == Export("critical_path", CriticalPath(world, latest), logged)
RoadmapMain(logged) == Export("roadmap", Roadmap(world, latest), logged)
ProgressMain(logged) == Export("progress", Progress(latest), logged)
DriftMain(logged) == Export("drift", Drift(world, latest), logged)
IndexMain(logged) == Export("index", Index(latest), logged)

Main(logged) ==
    \/ BootstrapMain(logged) \/ OnboardingMain(logged) \/ PortfolioMain(logged)
    \/ DependenciesMain(logged) \/ CriticalPathMain(logged) \/ RoadmapMain(logged)
    \/ ProgressMain(logged) \/ DriftMain(logged) \/ IndexMain(logged)

RefreshStep == Main(TRUE) /\ UNCHANGED slips

\* The command dies before the append, or ran without --export-jsonl.
LeaveUnlogged == slips < MaxSlips /\ Main(FALSE) /\ slips' = slips + 1

\* The operator leaves one command out of the round.
SkipStage ==
    /\ slips < MaxSlips
    /\ slips' = slips + 1
    /\ recent' = IF stage = Len(Stages) THEN {} ELSE recent
    /\ stage' = (stage % Len(Stages)) + 1
    /\ UNCHANGED <<world, latest, history, current, moved, edits>>

\* The registry or a repository changes.
ChangeWorld ==
    /\ edits < MaxWorldEdits
    /\ \E w \in Worlds \ {world} : world' = w
    /\ edits' = edits + 1 /\ current' = {}
    /\ UNCHANGED <<latest, history, stage, recent, moved, slips>>

PortfolioNext == RefreshStep \/ LeaveUnlogged \/ SkipStage \/ ChangeWorld

\* The operator keeps refreshing.
Advances == stage' = (stage % Len(Stages)) + 1

PortfolioSpec == PortfolioInit /\ [][PortfolioNext]_portfolioVars /\ WF_stage(Advances)

-----------------------------------------------------------------------------
\* Types; every report passes the contract its generator checks before writing.
PortfolioTypeOK ==
    /\ world \in Worlds
    /\ \A k \in Kinds : latest[k].present \in BOOLEAN /\ history[k].own \in BOOLEAN
    /\ stage \in 1 .. Len(Stages)
    /\ recent \subseteq Kinds /\ current \subseteq Kinds /\ moved \subseteq Kinds
    /\ edits \in 0 .. MaxWorldEdits /\ slips \in 0 .. MaxSlips
    /\ \A k \in Kinds : latest[k].present => Contract(k, latest[k])

(* A drift report made from reports that all describe the present registry *)
(* accuses none of them: whatever it still lists is a disagreement inside  *)
(* the registries, a repository whose dependencies are mapped but which is *)
(* not registered, a contradiction of scores, or a report left out of the  *)
(* round.  In particular every urgent ranking is in the near-term roadmap. *)
CleanAfterRefresh ==
    "drift" \in current =>
        \A f \in latest["drift"].findings :
            \/ f[1] \in {"unregistered_dependency", "no_dependency_entry",
                         "contradictory_status", "stale_artifact"}
            \/ f[1] = "unranked_risk" /\ f[3] \notin Registered(world)

\* Where the index sits exactly between two roundings, a falling, a steady and
\* a rising score of the last round give three different scores.
RoundingTie ==
    /\ latest["index"].present
    /\ LET c == Components(latest)
           others == SumOf([m \in DOMAIN Weight \ {"progress"} |-> c[m] * Weight[m]])
       IN (others + 68 * 5) % 200 = 50

(* The reports feed each other, and still refreshing them settles: once    *)
(* the world stops changing, from some round on no generator changes its   *)
(* report, unless the index is on a rounding tie (then it never settles).  *)
Settles == <>[](moved = {} \/ RoundingTie)

(* "Enabled repository '{rid}' has no dependency registry references": the *)
(* drift report says so only of repositories the dependency registry does  *)
(* not name.                                                               *)
DriftReadsRegistry ==
    latest["drift"].present =>
        \A f \in latest["drift"].findings :
            f[1] = "no_dependency_entry" =>
                f[3] \notin DOMAIN Depends \cup UNION {Depends[r] : r \in DOMAIN Depends}
=============================================================================
