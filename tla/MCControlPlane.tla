--------------------------- MODULE MCControlPlane ---------------------------
(***************************************************************************)
(* The control plane in one instance: the portfolio reports, the way from  *)
(* the governance index to approved manual work, the chain from findings   *)
(* to work dossiers, the JSON stores, and the intake of missions.  They    *)
(* meet only in files that one of them writes and the next one reads whole *)
(* (the governance index, the reports of a repository, the task slot), so  *)
(* the instance explores each one by itself, against all that its          *)
(* surroundings may do.                                                    *)
(***************************************************************************)
EXTENDS PortfolioReports, GovernanceFlow, WorkChain, JsonStore, MissionIntake, TLC

VARIABLE focus     \* the component that runs

controlVars == <<focus, portfolioVars, governanceVars, workVars, storeVars, missionVars>>

-----------------------------------------------------------------------------
(* Three repositories that depend on each other, in three worlds: none of  *)
(* them on disk; one of them not registered; a mixed portfolio.            *)

Profile(registered, exists, structure, artifacts, remediation, queued) ==
    [registered |-> registered, enabled |-> TRUE, exists |-> exists, structure |-> structure,
     artifacts |-> artifacts, remediation |-> remediation, intel |-> 0, queued |-> queued,
     queueReady |-> 60, dossiers |-> 0, dossierReady |-> 0, highRisk |-> 0]

Full == Profile(TRUE, TRUE, {"readme", "docs", "src", "tests"}, 3, 0, 0)
Partial == Profile(TRUE, TRUE, {"readme", "src"}, 1, 1, 1)
Gone == Profile(TRUE, FALSE, {}, 0, 0, 0)
Out == Profile(FALSE, FALSE, {}, 0, 0, 0)

World(a, b, c) == "a" :> a @@ "b" :> b @@ "c" :> c

MCOrder == <<"a", "b", "c">>
MCWorlds == {World(Gone, Gone, Gone), World(Out, Gone, Gone), World(Full, Partial, Full)}
MCDepends == World({"b", "c"}, {"a", "c"}, {"a", "b"})

\* An index with weak drift handling, and one with weak progress.
AllScores(n) ==
    [c \in {"index", "readiness", "onboarding", "dependencies", "drift", "roadmap", "progress",
            "critical_path"} |-> n]

MCScores ==
    {[AllScores(80) EXCEPT !["drift"] = 60, !["index"] = 79],
     [AllScores(80) EXCEPT !["progress"] = 40, !["index"] = 96]}

\* Two source trees: one with gaps of every kind, so that packages are split
\* and wait for each other, and one with a single batch of work.
Tree(modules, tested, documented, clis, untested) ==
    [modules |-> modules, tested |-> tested, documented |-> documented, clis |-> clis,
     cliTested |-> {}, untested |-> untested,
     area |-> "api_contracts" :> "none" @@ "mission_engine" :> "none" @@ "release_compat" :> "release"
              @@ "routers" :> "none"]

MCModules == <<"api_contracts", "mission_engine", "release_compat", "routers">>
MCNaming ==
    [w \in Words |->
        CASE w = "contract" -> {"api_contracts"} [] w = "compat" -> {"release_compat"}
          [] OTHER -> ToSet(MCModules) \cap {w}]

MCRepositories ==
    {Tree(ToSet(MCModules), {}, {"mission_engine"}, {"mission_engine", "release_compat"}, {"compat"}),
     Tree({"mission_engine", "api_contracts"}, {"mission_engine"}, {"mission_engine", "api_contracts"},
          {}, {"config", "compat"})}

\* The reports between findings and queue are generated twice, so that a queue
\* may be older than the packages it is joined with.
MCRefreshes ==
    [intel |-> 1, plan |-> 2, handoff |-> 2, refined |-> 2, queue |-> 1, dossiers |-> 1]

-----------------------------------------------------------------------------
\* The component that runs starts anywhere, the others in one state.
ControlInit ==
    /\ PortfolioInit /\ GovernanceInit /\ WorkInit /\ JsonStoreInit /\ MissionInit
    /\ focus \in {"portfolio", "governance", "work", "store", "missions"}
    /\ focus # "portfolio" => world = World(Full, Partial, Full)
    /\ focus # "governance" => scores["drift"] = 60
    /\ focus # "store" => kind = "metrics"
    /\ focus # "missions" => \A m \in Missions : enqueue[m]

RunsPortfolio(A) ==
    focus = "portfolio" /\ A /\ UNCHANGED <<focus, governanceVars, workVars, storeVars, missionVars>>
RunsGovernance(A) ==
    focus = "governance" /\ A /\ UNCHANGED <<focus, portfolioVars, workVars, storeVars, missionVars>>
RunsWork(A) ==
    focus = "work" /\ A /\ UNCHANGED <<focus, portfolioVars, governanceVars, storeVars, missionVars>>
RunsStore(A) ==
    focus = "store" /\ A /\ UNCHANGED <<focus, portfolioVars, governanceVars, workVars, missionVars>>
RunsMissions(A) ==
    focus = "missions" /\ A /\ UNCHANGED <<focus, portfolioVars, governanceVars, workVars, storeVars>>

ControlNext ==
    \/ RunsPortfolio(PortfolioNext) \/ RunsGovernance(GovernanceNext) \/ RunsWork(WorkNext)
    \/ RunsStore(JsonStoreNext) \/ RunsMissions(MissionNext)

ControlSpec ==
    /\ ControlInit /\ [][ControlNext]_controlVars
    /\ WF_stage(focus = "portfolio" /\ Advances)

\* Types of the five components.
ControlTypeOK == PortfolioTypeOK /\ GovernanceTypeOK /\ WorkTypeOK /\ JsonStoreTypeOK /\ MissionTypeOK

\* Liveness of the reports, where they are refreshed.
PortfolioSettles == focus = "portfolio" => Settles
=============================================================================
