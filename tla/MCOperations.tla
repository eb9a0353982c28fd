----------------------------- MODULE MCOperations -----------------------------
(***************************************************************************)
(* The three programs that start other programs.  They have nothing in     *)
(* common, so a behaviour runs one of them and leaves the rest at rest.    *)
(***************************************************************************)
EXTENDS CrawlerService, DevStack, Bootstrap

VARIABLE part   \* the program that runs

operationVars == <<part, crawlerVars, stackVars, bootVars>>

MCRestartLimit == [d \in Daemons |-> IF d = "tail" THEN Forever ELSE 1]
MCPeriod == [j \in Jobs |-> IF j \in HasSchedule THEN 3 ELSE 2]
MCOrder == <<"indexer", "web", "agent">>

OperationsInit ==
  /\ part \in {"run_crawlers", "rundev", "bootstrap"}
  /\ CrawlerInit /\ (part # "run_crawlers" => now = 0)
  /\ DevStackInit /\ (part # "rundev" => ~windows /\ files = {} /\ password.file = "none")
  /\ BootstrapInit

RunCrawlers == part = "run_crawlers" /\ CrawlerNext /\ UNCHANGED <<part, stackVars, bootVars>>
RunDev == part = "rundev" /\ DevStackNext /\ UNCHANGED <<part, crawlerVars, bootVars>>
RunBootstrap == part = "bootstrap" /\ BootstrapNext /\ UNCHANGED <<part, crawlerVars, stackVars>>

\* The code that stops rundev never waits for anything but the clock: it is
\* always taken up again.
OperationsSpec ==
  /\ OperationsInit /\ [][RunCrawlers \/ RunDev \/ RunBootstrap]_operationVars
  /\ WF_operationVars(part = "rundev" /\ Stop /\ UNCHANGED <<part, crawlerVars, bootVars>>)
=============================================================================
