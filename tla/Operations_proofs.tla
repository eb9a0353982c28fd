--------------------------- MODULE Operations_proofs -------------------------
(***************************************************************************)
(* What the tools around the application promise, for every value of the   *)
(* constants: the packages that `bootstrap.py all` makes (Bootstrap), what *)
(* rundev leaves behind (DevStack) and the punctuality of run_crawlers     *)
(* (CrawlerService).                                                       *)
(***************************************************************************)
EXTENDS CrawlerService, DevStack, Bootstrap, FiniteSetTheorems, SequenceTheorems, TLAPS

(* Bootstrap *)

Tarball == [release : Nat, intact : BOOLEAN]
Assembly == [python : Tarball, sources : BOOLEAN, deps : BOOLEAN, static : BOOLEAN]
GoodPython(t) == VerifiedOrKept(t, verified, kept)

BootTypes ==
  /\ latest \in Nat /\ verified \in Nat /\ all \in 0..7
  /\ downloads \subseteq Tarball /\ kept \subseteq Tarball
  /\ assembled \in Assembly

\* How far `all` has come tells what there is: until its own download only what
\* its clean could not remove, that and a verified tarball afterwards, and each
\* part from the step on that makes it.
Progress ==
  /\ all \in {2, 3} => downloads = kept
  /\ all = 4 => \A t \in downloads : GoodPython(t)
  /\ all >= 3 => assembled.sources
  /\ all >= 5 => GoodPython(assembled.python)
  /\ all >= 6 => assembled.deps
  /\ all = 7 => assembled.static

LEMMA PartsTyped ==
  ASSUME NEW x \in Assembly, NEW t \in Tarball
  PROVE  /\ [x EXCEPT !.sources = TRUE] \in Assembly /\ [x EXCEPT !.python = t] \in Assembly
         /\ [x EXCEPT !.deps = TRUE] \in Assembly /\ [x EXCEPT !.static = TRUE] \in Assembly
BY DEF Assembly

LEMMA RemainsTyped ==
  ASSUME NEW x \in Assembly, NEW y \in Remains(x) PROVE y \in Assembly
<1>1. Nothing \in Tarball
  BY DEF Nothing, Tarball
<1> QED
  BY <1>1 DEF Remains, Assembly

LEMMA DownloadKeeps ==
  ASSUME BootTypes, Progress, Download PROVE BootTypes' /\ Progress'
<1> DEFINE good == [release |-> latest, intact |-> TRUE]
           bad == [release |-> latest, intact |-> FALSE]
           others == {t \in downloads : t.release # latest}
<1>1. UNCHANGED <<latest, assembled, built>>
  BY DEF Download
<1>2. \/ Done(3) /\ downloads' = others \cup {good} /\ verified' = latest
      \/ Fail(3) /\ downloads' \in {downloads, others \cup {bad}} /\ verified' = verified
  BY DEF Download
<1>3. good \in Tarball /\ bad \in Tarball
  BY DEF BootTypes, Tarball
<1>4. ASSUME all = 3, verified' = latest, kept' = kept, NEW t \in others \cup {good} PROVE GoodPython(t)'
  BY <1>4 DEF GoodPython, VerifiedOrKept, Progress, BootTypes
<1>5. others \subseteq downloads
  OBVIOUS
<1> HIDE DEF good, bad, others
<1>6. ASSUME Done(3), downloads' = others \cup {good}, verified' = latest PROVE BootTypes' /\ Progress'
  <2>1. kept' = kept \/ kept' = {}
    BY <1>6 DEF Done, Over
  <2>2. all' \in 0..7 /\ (all' # 0 => all' = 4 /\ all = 3 /\ kept' = kept)
    BY <1>6 DEF Done, Over
  <2>3. BootTypes'
    BY <1>1, <1>3, <1>5, <1>6, <2>1, <2>2 DEF BootTypes
  <2>4. Progress'
    BY <1>1, <1>4, <1>6, <2>2 DEF Progress, BootTypes
  <2> QED
    BY <2>3, <2>4
<1>7. ASSUME Fail(3), downloads' \in {downloads, others \cup {bad}}, verified' = verified
      PROVE  BootTypes' /\ Progress'
  <2>1. BootTypes'
    BY <1>1, <1>3, <1>5, <1>7 DEF BootTypes, Fail, Over
  <2>2. Progress'
    BY <1>7 DEF Progress, Fail, Over
  <2> QED
    BY <2>1, <2>2
<1> QED
  BY <1>2, <1>6, <1>7

\* A package that `all` made is complete, and its Python is the one whose
\* checksum that run had just verified (src/bootstrap.py), whatever failed
\* before it and whatever other releases appear meanwhile, or else a tarball of
\* another release that its clean could not remove.
THEOREM PackagesVerified == BootstrapSpec => []AllPackagesVerified
<1> DEFINE Inv == BootTypes /\ Progress /\ AllPackagesVerified
<1>1. BootstrapInit => Inv
  BY DEF BootstrapInit, BootTypes, Progress, AllPackagesVerified, Empty, Nothing, NoPackage, Assembly, Tarball
<1>2. ASSUME Inv, [BootstrapNext]_bootVars PROVE Inv'
  \* A step that fails ends `all`: nothing is asked of what is there.
  <2>0. ASSUME NEW i \in 1..7, Fail(i), downloads' \subseteq Tarball, assembled' \in Assembly,
               UNCHANGED <<latest, verified>>, built' \in {NoPackage, built}
        PROVE  Inv'
    BY <1>2, <2>0 DEF Fail, Over, BootTypes, Progress, AllPackagesVerified, NoPackage
  <2>1. CASE UNCHANGED bootVars
    BY <1>2, <2>1 DEF bootVars, BootTypes, Progress, AllPackagesVerified, GoodPython
  <2>2. CASE RunAll
    BY <1>2, <2>2 DEF RunAll, BootTypes, Progress, AllPackagesVerified, GoodPython
  <2>3. CASE Clean
    <3>1. downloads' \subseteq Tarball /\ assembled' \in Assembly /\ built' \in {NoPackage, built}
          /\ UNCHANGED <<latest, verified>>
      BY <1>2, <2>3, RemainsTyped DEF Clean, BootTypes
    <3>2. CASE Fail(1)
      BY <2>0, <3>1, <3>2
    <3>3. CASE all = 1 /\ all' = 2 /\ kept' = downloads'
      BY <1>2, <3>1, <3>3 DEF BootTypes, Progress, AllPackagesVerified, NoPackage
    <3> QED
      BY <2>3, <3>2, <3>3 DEF Clean
  <2>4. CASE Stage
    <3> DEFINE x == [assembled EXCEPT !.sources = TRUE]
    <3>1. x \in Assembly /\ x.sources
      BY <1>2 DEF BootTypes, Assembly
    <3>2. \/ Done(2) /\ assembled' = x /\ UNCHANGED <<latest, downloads, verified, built>>
          \/ Fail(2) /\ UNCHANGED <<latest, downloads, verified, assembled, built>>
      BY <2>4 DEF Stage
    <3> HIDE DEF x
    <3>3. CASE Fail(2) /\ UNCHANGED <<latest, downloads, verified, assembled, built>>
      BY <1>2, <2>0, <3>3 DEF BootTypes
    <3>4. CASE Done(2) /\ assembled' = x /\ UNCHANGED <<latest, downloads, verified, built>>
      BY <1>2, <3>1, <3>4 DEF Done, Over, BootTypes, Progress, AllPackagesVerified
    <3> QED
      BY <3>2, <3>3, <3>4
  <2>5. CASE Download
    <3>1. UNCHANGED built
      BY <2>5 DEF Download
    <3> QED
      BY <1>2, <2>5, <3>1, DownloadKeeps DEF AllPackagesVerified
  <2>6. CASE Extract
    <3>1. UNCHANGED <<latest, downloads, verified, built>>
      BY <2>6 DEF Extract
    <3>2. ASSUME NEW t \in downloads, Done(4), assembled' = [assembled EXCEPT !.python = t] PROVE Inv'
      <4> DEFINE x == [assembled EXCEPT !.python = t]
      <4>1. x \in Assembly /\ x.python = t /\ x.sources = assembled.sources
        BY <1>2 DEF BootTypes, Assembly
      <4> HIDE DEF x
      <4>2. assembled' = x
        BY <3>2 DEF x
      <4>3. all = 4 => GoodPython(t)
        BY <1>2 DEF Progress
      <4> QED
        BY <1>2, <3>1, <3>2, <4>1, <4>2, <4>3 DEF Done, Over, BootTypes, Progress, AllPackagesVerified, GoodPython
    <3>3. CASE Fail(4) /\ UNCHANGED assembled
      BY <1>2, <2>0, <3>1, <3>3 DEF BootTypes
    <3> QED
      BY <2>6, <3>2, <3>3 DEF Extract
  <2>7. CASE PipInstall
    <3> DEFINE x == [assembled EXCEPT !.deps = TRUE]
    <3>1. x \in Assembly /\ x.deps /\ x.python = assembled.python /\ x.sources = assembled.sources
      BY <1>2 DEF BootTypes, Assembly
    <3>2. /\ \/ Done(5) /\ assembled' = x
             \/ Fail(5) /\ UNCHANGED assembled
          /\ UNCHANGED <<latest, downloads, verified, built>>
      BY <2>7 DEF PipInstall
    <3> HIDE DEF x
    <3>3. CASE Fail(5) /\ UNCHANGED assembled
      BY <1>2, <2>0, <3>2, <3>3 DEF BootTypes
    <3>4. CASE Done(5) /\ assembled' = x
      BY <1>2, <3>1, <3>2, <3>4 DEF Done, Over, BootTypes, Progress, AllPackagesVerified, GoodPython
    <3> QED
      BY <3>2, <3>3, <3>4
  <2>8. CASE CollectStatic
    <3> DEFINE x == [assembled EXCEPT !.static = TRUE]
    <3>1. x \in Assembly /\ x.static /\ x.deps = assembled.deps
          /\ x.python = assembled.python /\ x.sources = assembled.sources
      BY <1>2 DEF BootTypes, Assembly
    <3>2. /\ \/ Done(6) /\ assembled' = x
             \/ Fail(6) /\ UNCHANGED assembled
          /\ UNCHANGED <<latest, downloads, verified, built>>
      BY <2>8 DEF CollectStatic
    <3> HIDE DEF x
    <3>3. CASE Fail(6) /\ UNCHANGED assembled
      BY <1>2, <2>0, <3>2, <3>3 DEF BootTypes
    <3>4. CASE Done(6) /\ assembled' = x
      BY <1>2, <3>1, <3>2, <3>4 DEF Done, Over, BootTypes, Progress, AllPackagesVerified, GoodPython
    <3> QED
      BY <3>2, <3>3, <3>4
  <2>9. CASE MakePackage
    <3>1. UNCHANGED <<latest, downloads, verified, assembled>>
      BY <2>9 DEF MakePackage
    <3>2. CASE Fail(7) /\ built' \in {NoPackage, built}
      BY <1>2, <2>0, <3>1, <3>2 DEF BootTypes
    <3>3. CASE Done(7) /\ all = 7
               /\ built' = [of |-> assembled, by |-> "all", verified |-> verified, kept |-> kept]
      <4>1. AllPackagesVerified'
        BY <1>2, <3>3 DEF BootTypes, Progress, AllPackagesVerified, GoodPython
      <4> QED
        BY <1>2, <3>1, <3>3, <4>1 DEF Done, Over, BootTypes, Progress
    <3>4. CASE Done(7) /\ all # 7 /\ built' = [NoPackage EXCEPT !.by = "package"]
      BY <1>2, <3>1, <3>4 DEF Done, Over, BootTypes, Progress, AllPackagesVerified, NoPackage
    <3> QED
      BY <2>9, <3>2, <3>3, <3>4 DEF MakePackage
  <2>10. CASE Release
    BY <1>2, <2>10 DEF Release, BootTypes, Progress, AllPackagesVerified, GoodPython
  <2> QED
    BY <1>2, <2>1, <2>2, <2>3, <2>4, <2>5, <2>6, <2>7, <2>8, <2>9, <2>10 DEF BootstrapNext
<1> QED
  BY <1>1, <1>2, PTL DEF BootstrapSpec

-----------------------------------------------------------------------------
(* CrawlerService *)

\* The first slot after t: the next multiple of the period.
LEMMA SlotAfter ==
  ASSUME NEW t \in Nat, NEW P \in Nat \ {0}
  PROVE  \E m \in Nat \ {0} : /\ (t \div P + 1) * P = m * P /\ t < m * P
                              /\ \A k \in Nat : k * P <= t \/ k >= m
<1> DEFINE q == t \div P
<1>1. q \in Nat /\ q * P <= t /\ t < q * P + P
  OBVIOUS
<1> HIDE DEF q
<1>2. (q + 1) * P = q * P + P
  BY <1>1
<1>3. ASSUME NEW k \in Nat, k < q + 1 PROVE k * P <= t
  <2>1. PICK d \in Nat : q = k + d
    <3>1. q - k \in Nat /\ q = k + (q - k)
      BY <1>1, <1>3
    <3> QED
      BY <3>1
  <2>2. (k + d) * P = k * P + d * P
    OBVIOUS
  <2>3. d * P \in Nat /\ k * P \in Nat
    OBVIOUS
  <2> QED
    BY <1>1, <2>1, <2>2, <2>3
<1>4. \E m \in Nat \ {0} : /\ (q + 1) * P = m * P /\ t < m * P
                          /\ \A k \in Nat : k * P <= t \/ k >= m
  <2>1. q + 1 \in Nat \ {0} /\ t < (q + 1) * P
    BY <1>1, <1>2
  <2>2. \A k \in Nat : k * P <= t \/ k >= q + 1
    BY <1>1, <1>3
  <2> QED
    BY <2>1, <2>2
<1> QED
  BY <1>4 DEF q

\* From a time before its end, the slot after t is the next one.
LEMMA SlotWithin ==
  ASSUME NEW t \in Nat, NEW P \in Nat \ {0}, NEW m \in Nat, m * P <= t, t < m * P + P
  PROVE  (t \div P + 1) * P = (m + 1) * P
<1>1. PICK n \in Nat \ {0} : /\ (t \div P + 1) * P = n * P /\ t < n * P
                             /\ \A k \in Nat : k * P <= t \/ k >= n
  BY SlotAfter
<1>2. (m + 1) * P = m * P + P
  OBVIOUS
<1>3. m + 1 >= n
  BY <1>1, <1>2
<1>4. ~ (n <= m)
  <2> SUFFICES ASSUME n <= m PROVE FALSE
    OBVIOUS
  <2>1. PICK d \in Nat : m = n + d
    <3>1. m - n \in Nat /\ m = n + (m - n)
      OBVIOUS
    <3> QED
      BY <3>1
  <2>2. (n + d) * P = n * P + d * P
    OBVIOUS
  <2>3. d * P \in Nat /\ n * P \in Nat /\ m * P \in Nat
    OBVIOUS
  <2> QED
    BY <1>1, <2>1, <2>2, <2>3
<1>5. n = m + 1
  BY <1>3, <1>4
<1> QED
  BY <1>1, <1>5

\* Multiples are ordered as their factors.
LEMMA MultiplesOrdered ==
  ASSUME NEW P \in Nat \ {0}, NEW k \in Nat, NEW m \in Nat, k < m
  PROVE  k * P + P <= m * P
<1>1. PICK d \in Nat : m = k + d + 1
  <2>1. m - k - 1 \in Nat /\ m = k + (m - k - 1) + 1
    OBVIOUS
  <2> QED
    BY <2>1
<1>2. (k + d + 1) * P = k * P + d * P + P
  OBVIOUS
<1>3. d * P \in Nat /\ k * P \in Nat
  OBVIOUS
<1> QED
  BY <1>1, <1>2, <1>3

CrawlerTypes ==
  /\ now \in Nat /\ since \in Nat
  /\ service = "loading" => (since = now /\ instances = {} /\ \A j \in Jobs : started[j] = {})
  /\ nextRun \in [Jobs -> Nat] /\ started \in [Jobs -> SUBSET Nat]

Once(j, slot) == \E t \in Nat : {u \in started[j] : slot <= u /\ u < slot + Period[j]} = {t}

\* A cron job is due at a slot less than a period away, asleep at one still to
\* come, and has met each slot before it once.
Punctual(j) ==
  /\ \E m \in Nat : nextRun[j] = m * Period[j]
  /\ \A t \in started[j] : t < nextRun[j]
  /\ now < nextRun[j] + Period[j]
  /\ service = "sleeping" => now < nextRun[j]
  /\ \A k \in Nat : (since < k * Period[j] /\ k * Period[j] < nextRun[j]) => Once(j, k * Period[j])

\* A job with an interval is due no sooner than an interval after each start.
Spaced(j) ==
  /\ \A t \in started[j] : t + Period[j] <= nextRun[j]
  /\ \A t, u \in started[j] : t < u => u - t >= Period[j]

CrawlerInv ==
  /\ CrawlerTypes
  /\ \A j \in Jobs \cap instances : IF j \in HasSchedule THEN Punctual(j) ELSE Spaced(j)

LEMMA CrawlerTypesKept == ASSUME CrawlerTypes, [CrawlerNext]_crawlerVars PROVE CrawlerTypes'
<1>1. CASE Load
  <2>1. /\ UNCHANGED <<now, started, since>> /\ service' = "daemons"
        /\ nextRun' = [j \in Jobs |-> IF j \in HasSchedule THEN NextSlot(j, now) ELSE now]
    BY <1>1 DEF Load
  <2>2. \A j \in Jobs : NextSlot(j, now) \in Nat
    <3> TAKE j \in Jobs
    <3>1. now \in Nat /\ Period[j] \in Nat \ {0}
      BY CrawlerAssumption DEF CrawlerTypes
    <3>2. \E m \in Nat \ {0} : (now \div Period[j] + 1) * Period[j] = m * Period[j]
      BY <3>1, SlotAfter
    <3> QED
      BY <3>1, <3>2 DEF NextSlot
  <2> QED
    BY <2>1, <2>2 DEF CrawlerTypes
<1>2. CASE RunJobs
  <2>1. /\ UNCHANGED <<now, since, instances>> /\ service' = "sleeping"
        /\ started' = [j \in Jobs |-> IF Due(j) THEN started[j] \cup {now} ELSE started[j]]
        /\ nextRun' = [j \in Jobs |-> IF Due(j) THEN NextAfter(j) ELSE nextRun[j]]
    BY <1>2 DEF RunJobs
  <2>2. \A j \in Jobs : NextAfter(j) \in Nat
    <3> TAKE j \in Jobs
    <3>1. now \in Nat /\ Period[j] \in Nat \ {0}
      BY CrawlerAssumption DEF CrawlerTypes
    <3>2. \E m \in Nat \ {0} : (now \div Period[j] + 1) * Period[j] = m * Period[j]
      BY <3>1, SlotAfter
    <3>3. NextSlot(j, now) \in Nat
      BY <3>1, <3>2 DEF NextSlot
    <3> QED
      BY <3>1, <3>3 DEF NextAfter
  <2> QED
    BY <2>1, <2>2 DEF CrawlerTypes
<1>3. CASE Sleep
  BY <1>3, CrawlerAssumption DEF Sleep, CrawlerTypes
<1>4. CASE MonitorDaemons \/ InterruptService \/ StartFails \/ (\E d \in Daemons : DaemonDies(d))
  BY <1>4 DEF MonitorDaemons, InterruptService, StartFails, DaemonDies, CrawlerTypes
<1>5. CASE UNCHANGED crawlerVars
  BY <1>5 DEF crawlerVars, CrawlerTypes
<1> QED
  BY <1>1, <1>2, <1>3, <1>4, <1>5 DEF CrawlerNext, CrawlerLoop

LEMMA LoadPunctual ==
  ASSUME CrawlerTypes, CrawlerTypes', Load, NEW j \in Jobs
  PROVE  IF j \in HasSchedule THEN Punctual(j)' ELSE Spaced(j)'
<1> DEFINE P == Period[j]
<1>1. /\ started' = started /\ now' = now /\ service' = "daemons" /\ started[j] = {}
      /\ nextRun'[j] = IF j \in HasSchedule THEN NextSlot(j, now) ELSE now
      /\ since' = now /\ now \in Nat /\ P \in Nat \ {0}
  BY CrawlerAssumption DEF Load, CrawlerTypes
<1>2. CASE j \notin HasSchedule
  BY <1>1, <1>2 DEF Spaced
<1>3. CASE j \in HasSchedule
  <2>1. PICK m \in Nat \ {0} : /\ (now \div P + 1) * P = m * P /\ now < m * P
                               /\ \A k \in Nat : k * P <= now \/ k >= m
    BY <1>1, SlotAfter
  <2>2. nextRun'[j] = m * P
    BY <1>1, <1>3, <2>1 DEF NextSlot
  <2>3. ASSUME NEW k \in Nat, now < k * P, k * P < m * P PROVE FALSE
    <3> HIDE DEF P
    <3>1. k * P \in Nat /\ m * P \in Nat /\ k >= m
      BY <1>1, <2>1, <2>3
    <3>2. k # m
      BY <2>3, <3>1
    <3>3. m * P + P <= k * P
      BY <1>1, <3>1, <3>2, MultiplesOrdered
    <3> QED
      BY <1>1, <2>3, <3>1, <3>3
  <2>4. now < m * P /\ m * P \in Nat
    BY <1>1, <2>1
  <2> QED
    BY <1>1, <1>3, <2>2, <2>3, <2>4 DEF Punctual
<1> QED
  BY <1>2, <1>3

LEMMA RunPunctual ==
  ASSUME CrawlerInv, CrawlerTypes', RunJobs, NEW j \in Jobs \cap instances, j \in HasSchedule
  PROVE  Punctual(j)'
<1> DEFINE P == Period[j]
           due == nextRun[j]
<1>1. /\ now' = now /\ since' = since /\ service' = "sleeping"
      /\ started'[j] = IF Due(j) THEN started[j] \cup {now} ELSE started[j]
      /\ nextRun'[j] = IF Due(j) THEN NextAfter(j) ELSE due
      /\ now \in Nat /\ since \in Nat /\ started[j] \subseteq Nat /\ due \in Nat
  BY DEF RunJobs, CrawlerInv, CrawlerTypes
<1>2. P \in Nat \ {0}
  BY CrawlerAssumption
<1>3. PICK m \in Nat : due = m * P
  BY DEF CrawlerInv, Punctual
<1>4. /\ \A t \in started[j] : t < due
      /\ now < due + P
      /\ \A k \in Nat : (since < k * P /\ k * P < due) => \E t \in Nat : {u \in started[j] : k * P <= u /\ u < k * P + P} = {t}
  BY DEF CrawlerInv, Punctual, Once
<1>5. CASE ~ Due(j)
  <2>1. now < due
    BY <1>1, <1>5 DEF Due
  <2>2. nextRun'[j] = nextRun[j] /\ started'[j] = started[j] /\ now' = now /\ since' = since
    BY <1>1, <1>5
  <2>3. Punctual(j)
    BY DEF CrawlerInv
  <2>4. ASSUME NEW k \in Nat, since < k * P, k * P < due PROVE Once(j, k * P)'
    <3>1. {u \in started'[j] : k * P <= u /\ u < k * P + P} = {u \in started[j] : k * P <= u /\ u < k * P + P}
      BY <2>2
    <3> QED
      BY <1>4, <2>4, <3>1 DEF Once
  <2> QED
    <3>1. \A k \in Nat : (since' < k * P /\ k * P < nextRun'[j]) => Once(j, k * P)'
      BY <2>2, <2>4
    <3>2. \A t \in started'[j] : t < nextRun'[j]
      BY <1>4, <2>2
    <3>3. now' < nextRun'[j] /\ now' < nextRun'[j] + P
      BY <1>1, <1>2, <2>1, <2>2
    <3>4. nextRun'[j] = m * P
      BY <1>3, <2>2
    <3> QED
      BY <3>1, <3>2, <3>3, <3>4 DEF Punctual
<1>6. CASE Due(j)
  <2>1. due <= now /\ started'[j] = started[j] \cup {now} /\ nextRun'[j] = NextSlot(j, now)
    BY <1>1, <1>6 DEF Due, NextAfter
  <2>2. NextSlot(j, now) = (m + 1) * P
    <3>1. m * P <= now /\ now < m * P + P
      BY <1>3, <1>4, <2>1
    <3>2. (now \div P + 1) * P = (m + 1) * P
      BY <1>1, <1>2, <3>1, SlotWithin
    <3> QED
      BY <3>2 DEF NextSlot
  <2>3. (m + 1) * P = due + P
    <3> HIDE DEF P, due
    <3> QED
      BY <1>2, <1>3
  <2>4. nextRun'[j] = due + P /\ nextRun'[j] = (m + 1) * P
    BY <2>1, <2>2, <2>3
  <2>5. ASSUME NEW k \in Nat, since < k * P, k * P < due + P
        PROVE  \E t \in Nat : {u \in started'[j] : k * P <= u /\ u < k * P + P} = {t}
    <3> HIDE DEF P, due
    <3>1. k * P \in Nat
      BY <1>2
    <3>2. ~ (m < k)
      BY <1>1, <1>2, <1>3, <2>5, <3>1, MultiplesOrdered
    <3>3. CASE k = m
      <4>1. {u \in started'[j] : k * P <= u /\ u < k * P + P} = {now}
        BY <1>1, <1>2, <1>3, <1>4, <2>1, <3>3
      <4> QED
        BY <1>1, <4>1
    <3>4. CASE k < m
      <4>1. k * P + P <= due
        BY <1>2, <1>3, <3>4, MultiplesOrdered
      <4>2. \E t \in Nat : {u \in started[j] : k * P <= u /\ u < k * P + P} = {t}
        BY <1>1, <1>2, <1>4, <2>5, <3>1, <4>1
      <4>3. {u \in started'[j] : k * P <= u /\ u < k * P + P} = {u \in started[j] : k * P <= u /\ u < k * P + P}
        BY <1>1, <1>2, <2>1, <3>1, <4>1
      <4> QED
        BY <4>2, <4>3
    <3>5. k = m \/ k < m
      BY <3>2
    <3> QED
      BY <3>3, <3>4, <3>5, Zenon
  <2>6. \A t \in started'[j] : t < due + P
    BY <1>1, <1>2, <1>4, <2>1
  <2>7. now < due + P /\ now < due + P + P
    BY <1>1, <1>2, <1>4
  <2>8. m + 1 \in Nat
    OBVIOUS
  <2> QED
    BY <1>1, <2>4, <2>5, <2>6, <2>7, <2>8 DEF Punctual, Once
<1> QED
  BY <1>5, <1>6

LEMMA RunSpaced ==
  ASSUME CrawlerInv, CrawlerTypes', RunJobs, NEW j \in Jobs \cap instances, j \notin HasSchedule
  PROVE  Spaced(j)'
<1>1. /\ now' = now /\ started[j] \subseteq Nat /\ now \in Nat /\ Period[j] \in Nat \ {0} /\ nextRun[j] \in Nat
      /\ started'[j] = IF Due(j) THEN started[j] \cup {now} ELSE started[j]
      /\ nextRun'[j] = IF Due(j) THEN now + Period[j] ELSE nextRun[j]
  BY CrawlerAssumption DEF RunJobs, NextAfter, CrawlerInv, CrawlerTypes
<1>2. Spaced(j)
  BY DEF CrawlerInv
<1>3. CASE Due(j)
  <2>1. nextRun[j] <= now /\ started'[j] = started[j] \cup {now} /\ nextRun'[j] = now + Period[j]
    BY <1>1, <1>3 DEF Due
  <2>2. \A t \in started[j] : t + Period[j] <= now
    BY <1>1, <1>2, <2>1 DEF Spaced
  <2> QED
    BY <1>1, <1>2, <2>1, <2>2 DEF Spaced
<1>4. CASE ~ Due(j)
  BY <1>1, <1>2, <1>4 DEF Spaced
<1> QED
  BY <1>3, <1>4

LEMMA SleepPunctual ==
  ASSUME CrawlerInv, CrawlerTypes', Sleep, NEW j \in Jobs \cap instances, j \in HasSchedule
  PROVE  Punctual(j)'
<1>1. /\ service = "sleeping" /\ service' = "daemons" /\ UNCHANGED <<nextRun, started, since>>
      /\ now' <= now + MaxLag /\ now' \in Nat
  BY CrawlerAssumption DEF Sleep, CrawlerInv, CrawlerTypes
<1>2. /\ now < nextRun[j] /\ MaxLag < Period[j] /\ now \in Nat /\ nextRun[j] \in Nat
      /\ MaxLag \in Nat /\ Period[j] \in Nat
  BY <1>1, CrawlerAssumption DEF CrawlerInv, CrawlerTypes, Punctual
<1>3. now' < nextRun[j] + Period[j]
  BY <1>1, <1>2
<1> QED
  BY <1>1, <1>3 DEF CrawlerInv, Punctual, Once

\* What makes the jobs punctual: how far off the time is that each is due at.
THEOREM CrawlerInvariant == CrawlerSpec => []CrawlerInv
<1>1. CrawlerInit => CrawlerInv
  BY DEF CrawlerInit, CrawlerInv, CrawlerTypes
<1>2. ASSUME CrawlerInv, [CrawlerNext]_crawlerVars PROVE CrawlerInv'
  <2>1. CrawlerTypes'
    BY <1>2, CrawlerTypesKept DEF CrawlerInv
  <2>2. CASE Load
    BY <1>2, <2>1, <2>2, LoadPunctual DEF CrawlerInv
  <2>3. CASE RunJobs
    <3>1. instances' = instances
      BY <2>3 DEF RunJobs
    <3> QED
      BY <1>2, <2>1, <2>3, <3>1, RunPunctual, RunSpaced DEF CrawlerInv
  <2>4. CASE Sleep
    <3>1. instances' = instances /\ UNCHANGED <<started, nextRun>>
      BY <2>4 DEF Sleep
    <3>2. ASSUME NEW j \in Jobs \cap instances, j \notin HasSchedule PROVE Spaced(j)'
      BY <1>2, <3>1, <3>2 DEF CrawlerInv, Spaced
    <3> QED
      BY <1>2, <2>1, <2>4, <3>1, <3>2, SleepPunctual DEF CrawlerInv
  <2>5. ASSUME UNCHANGED <<now, instances, nextRun, started, since>>, service' = service \/ service' # "sleeping"
        PROVE  CrawlerInv'
    BY <1>2, <2>1, <2>5 DEF CrawlerInv, Punctual, Spaced, Once
  <2>6. CASE MonitorDaemons \/ InterruptService \/ StartFails \/ (\E d \in Daemons : DaemonDies(d))
    BY <2>5, <2>6 DEF MonitorDaemons, InterruptService, StartFails, DaemonDies
  <2>7. CASE UNCHANGED crawlerVars
    BY <2>5, <2>7 DEF crawlerVars
  <2> QED
    BY <1>2, <2>2, <2>3, <2>4, <2>6, <2>7 DEF CrawlerNext, CrawlerLoop
<1> QED
  BY <1>1, <1>2, PTL DEF CrawlerSpec

\* While the service runs, a cron job is spawned once for every slot that has
\* passed, however late its passes come, and a job with an interval never before
\* the interval is over (the loop of run_crawlers.py).
THEOREM JobsPunctual == CrawlerSpec => []JobsOnTime
<1>1. ASSUME CrawlerInv PROVE JobsOnTime
  <2> SUFFICES ASSUME NEW j \in Jobs \cap instances
               PROVE  IF j \in HasSchedule
                      THEN service = "sleeping" =>
                             \A slot \in {k * Period[j] : k \in 1..now} :
                               (since < slot /\ slot <= now) => Spawns(j, slot) = 1
                      ELSE \A t, u \in started[j] : t < u => u - t >= Period[j]
    BY DEF JobsOnTime
  <2>1. CASE j \notin HasSchedule
    BY <1>1, <2>1 DEF CrawlerInv, Spaced
  <2>2. CASE j \in HasSchedule
    <3> SUFFICES ASSUME service = "sleeping", NEW k \in 1..now, since < k * Period[j], k * Period[j] <= now
                 PROVE  Spawns(j, k * Period[j]) = 1
      BY <2>2
    <3>1. Punctual(j) /\ now \in Nat /\ nextRun[j] \in Nat /\ Period[j] \in Nat /\ k \in Nat
      BY <1>1, <2>2, CrawlerAssumption DEF CrawlerInv, CrawlerTypes
    <3>2. k * Period[j] \in Nat
      BY <3>1
    <3>3. k * Period[j] < nextRun[j]
      BY <3>1, <3>2 DEF Punctual
    <3>4. Once(j, k * Period[j])
      BY <3>1, <3>3 DEF Punctual
    <3> DEFINE slot == k * Period[j]
    <3>5. PICK t \in Nat : {u \in started[j] : slot <= u /\ u < slot + Period[j]} = {t}
      BY <3>4 DEF Once
    <3>6. Cardinality({t}) = 1
      BY FS_Singleton
    <3> QED
      BY <3>5, <3>6 DEF Spawns
  <2> QED
    BY <2>1, <2>2
<1> QED
  BY <1>1, CrawlerInvariant, PTL

-----------------------------------------------------------------------------
(* DevStack *)

Preparing == phase \in {"certificate", "superuser", "credentials", "agent user"}
Starting == phase = "spawned"

StackTypes ==
  /\ listed \in Seq(Services) /\ next \in Nat \ {0}
  /\ child \in [Services -> {"none", "up", "down"}]
  /\ wards \in [Services -> SUBSET Nat] /\ spawned \in Nat
  /\ phase \in {"spawned", "await"} => next <= Len(Order)
  /\ phase = "kill" => listed # <<>>
  /\ targets \subseteq Nat /\ job \subseteq Services /\ missed \subseteq Services

\* Before anything is started there is nothing.
Unborn == Preparing => /\ listed = <<>> /\ job = {}
                       /\ \A s \in Services : child[s] = "none" /\ wards[s] = {}

\* The service s is accounted for: it is in `processes`, or it is being started
\* and will be, or Ctrl-C came between.
Known(s) == s \in Range(listed) \/ s \in missed \/ (Starting /\ s = Current)

\* Whatever runs is accounted for, and so is whatever a service leaves.
UpKnown == \A s \in Services : child[s] = "up" => Known(s)
WardsKnown == \A s \in Services : wards[s] = {} \/ Known(s) \/ s \in early \/ wards[s] \subseteq late

\* Of the service that is being stopped the wards are enumerated, or late.
Enumerated == phase = "kill" => wards[Last] \subseteq targets \cup late

\* In the end the job has taken what it holds, and nothing is left to stop.
Ended ==
  phase = "gone" => /\ Range(listed) \subseteq missed
                    /\ \A s \in job : child[s] # "up" /\ wards[s] = {}

StackInv == StackTypes /\ Unborn /\ UpKnown /\ WardsKnown /\ Enumerated /\ Ended

LEMMA LastAndRest ==
  ASSUME listed \in Seq(Services), listed # <<>>
  PROVE  /\ Last \in Services /\ Popped \in Seq(Services)
         /\ Range(listed) = Range(Popped) \cup {Last}
<1>1. Len(listed) \in Nat \ {0} /\ listed \in [1..Len(listed) -> Services]
  BY EmptySeq, LenProperties
<1> DEFINE n == Len(listed)
<1>2. /\ Popped \in Seq(Services) /\ Len(Popped) = n - 1
      /\ \A i \in 1..n - 1 : Popped[i] = listed[i]
  <2> DEFINE m == n - 1
  <2>1. m \in Nat /\ \A i \in 1..m : listed[i] \in Services
    BY <1>1
  <2> HIDE DEF m
  <2>2. /\ SubSeq(listed, 1, m) \in Seq(Services)
        /\ Len(SubSeq(listed, 1, m)) = IF 1 <= m THEN m - 1 + 1 ELSE 0
        /\ \A i \in 1..m - 1 + 1 : SubSeq(listed, 1, m)[i] = listed[1 + i - 1]
    BY <2>1, SubSeqProperties
  <2>3. Len(SubSeq(listed, 1, m)) = m /\ m - 1 + 1 = m
    BY <2>1, <2>2
  <2>4. \A i \in 1..m : 1 + i - 1 = i
    BY <2>1
  <2>5. \A i \in 1..m : SubSeq(listed, 1, m)[i] = listed[i]
    BY <2>2, <2>3, <2>4
  <2> QED
    BY <2>2, <2>3, <2>5 DEF Popped, m
<1>3. Last \in Services
  BY <1>1 DEF Last
<1>4. DOMAIN listed = 1..n /\ DOMAIN Popped = 1..n - 1
  <2>1. DOMAIN listed = 1..n
    BY <1>1
  <2>2. DOMAIN Popped = 1..Len(Popped)
    BY <1>2, LenProperties
  <2> QED
    BY <1>2, <2>1, <2>2
<1>5. n \in Nat \ {0}
  BY <1>1
<1> HIDE DEF n
<1>6. /\ \A i \in 1..n : i \in 1..n - 1 \/ i = n
      /\ 1..n - 1 \subseteq 1..n /\ n \in 1..n
  BY <1>5
<1>7. Last = listed[n]
  BY DEF Last, n
<1> QED
  BY <1>2, <1>3, <1>4, <1>6, <1>7 DEF Range

LEMMA Appended ==
  ASSUME listed \in Seq(Services), NEW s \in Services
  PROVE  Append(listed, s) \in Seq(Services) /\ Range(Append(listed, s)) = Range(listed) \cup {s}
<1>1. /\ Append(listed, s) \in Seq(Services) /\ Len(listed) \in Nat
      /\ DOMAIN Append(listed, s) = 1..Len(listed) + 1 /\ DOMAIN listed = 1..Len(listed)
      /\ \A i \in 1..Len(listed) : Append(listed, s)[i] = listed[i]
      /\ Append(listed, s)[Len(listed) + 1] = s
  BY AppendProperties, LenProperties
<1>2. \A i \in 1..Len(listed) + 1 : i \in 1..Len(listed) \/ i = Len(listed) + 1
  BY <1>1
<1>3. 1..Len(listed) \subseteq 1..Len(listed) + 1 /\ Len(listed) + 1 \in 1..Len(listed) + 1
  BY <1>1
<1> QED
  BY <1>1, <1>2, <1>3 DEF Range

LEMMA CurrentService == ASSUME StackTypes, next <= Len(Order) PROVE Current \in Services
BY DevStackAssumption DEF StackTypes, Current

LEMMA PrepareKeeps == ASSUME StackInv, Prepare PROVE StackInv'
<1>1. /\ Preparing /\ phase' \in {"superuser", "credentials", "agent user", "start", "gone"}
      /\ UNCHANGED <<listed, next, child, wards, spawned, targets, job, missed, early, late>>
  BY DEF Prepare, EnsureCertificate, ConfigureSuperuser, WriteCredentials, ConfigureAgentUser, Preparing,
         Unstarted, tree, ghosts
<1>2. StackTypes'
  BY <1>1 DEF StackInv, StackTypes
<1>3. listed = <<>> /\ job = {} /\ \A s \in Services : child[s] = "none" /\ wards[s] = {}
  BY <1>1 DEF StackInv, Unborn
<1>4. Range(listed) = {}
  BY <1>3 DEF Range
<1>5. Unborn' /\ UpKnown' /\ WardsKnown'
  BY <1>1, <1>3 DEF Unborn, UpKnown, WardsKnown
<1>6. Enumerated' /\ Ended'
  BY <1>1, <1>3, <1>4 DEF Enumerated, Ended, Range
<1> QED
  BY <1>2, <1>5, <1>6 DEF StackInv

LEMMA LaunchKeeps == ASSUME StackInv, Launch PROVE StackInv'
<1>1. CASE Spawn
  <2>1. /\ phase = "start" /\ phase' = "spawned" /\ next <= Len(Order)
        /\ child' = [child EXCEPT ![Current] = "up"]
        /\ UNCHANGED <<listed, next, wards, spawned, targets, job, missed, early, late>>
    BY <1>1 DEF Spawn, Unstarted, ghosts
  <2>2. Current \in Services /\ Current' = Current
    BY <2>1, CurrentService DEF StackInv, Current
  <2>3. StackTypes'
    BY <2>1, <2>2 DEF StackInv, StackTypes
  <2>4. \A s : Known(s) => Known(s)'
    BY <2>1 DEF Known, Starting
  <2>5. UpKnown'
    <3>1. ASSUME NEW s \in Services, child'[s] = "up" PROVE Known(s)'
      <4>1. CASE s = Current
        BY <2>1, <2>2, <4>1 DEF Known, Starting
      <4>2. CASE s # Current
        BY <2>1, <2>4, <3>1, <4>2 DEF StackInv, StackTypes, UpKnown
      <4> QED
        BY <4>1, <4>2
    <3> QED
      BY <3>1 DEF UpKnown
  <2>6. WardsKnown'
    BY <2>1, <2>4 DEF StackInv, WardsKnown
  <2>7. Unborn' /\ Enumerated' /\ Ended'
    BY <2>1 DEF Unborn, Preparing, Enumerated, Ended
  <2> QED
    BY <2>3, <2>5, <2>6, <2>7 DEF StackInv
<1>2. CASE Enlist
  <2>1. /\ phase = "spawned" /\ UNCHANGED <<targets, wards, spawned, late, early>>
        /\ \/ /\ job' \subseteq job \cup {Current} /\ listed' = Append(listed, Current)
              /\ phase' \in {"await", "start"}
              /\ next' = IF phase' = "await" THEN next ELSE next + 1
              /\ child' = child /\ missed' = missed
           \/ /\ child' = [child EXCEPT ![Current] = "down"]
              /\ phase' = "stop" /\ missed' = missed \cup {Current}
              /\ UNCHANGED <<job, listed, next>>
    BY <1>2 DEF Enlist
  <2>2. Current \in Services /\ next <= Len(Order)
    BY <2>1, CurrentService DEF StackInv, StackTypes
  <2>3. CASE /\ job' \subseteq job \cup {Current} /\ listed' = Append(listed, Current)
             /\ phase' \in {"await", "start"}
             /\ next' = IF phase' = "await" THEN next ELSE next + 1
             /\ child' = child /\ missed' = missed
    <3>1. listed' \in Seq(Services) /\ Range(listed') = Range(listed) \cup {Current}
      BY <2>2, <2>3, Appended DEF StackInv, StackTypes
    <3>2. next' \in Nat \ {0}
      BY <2>3 DEF StackInv, StackTypes
    <3>3. phase' = "await" => next' <= Len(Order)
      BY <2>2, <2>3
    <3>4. StackTypes'
      BY <2>1, <2>2, <2>3, <3>1, <3>2, <3>3 DEF StackInv, StackTypes
    <3>5. \A s : Known(s) => s \in Range(listed') \/ s \in missed'
      BY <2>3, <3>1 DEF Known
    <3>6. UpKnown' /\ WardsKnown'
      BY <2>1, <2>3, <3>5 DEF StackInv, UpKnown, WardsKnown, Known
    <3>7. Unborn' /\ Enumerated' /\ Ended'
      BY <2>1, <2>3 DEF Unborn, Preparing, Enumerated, Ended
    <3> QED
      BY <3>4, <3>6, <3>7 DEF StackInv
  <2>4. CASE /\ child' = [child EXCEPT ![Current] = "down"]
             /\ phase' = "stop" /\ missed' = missed \cup {Current}
             /\ UNCHANGED <<job, listed, next>>
    <3>1. StackTypes'
      BY <2>1, <2>2, <2>4 DEF StackInv, StackTypes
    <3>2. \A s : Known(s) => s \in Range(listed') \/ s \in missed'
      BY <2>4 DEF Known
    <3>3. \A s \in Services : child'[s] = "up" => child[s] = "up"
      BY <2>2, <2>4 DEF StackInv, StackTypes
    <3>4. UpKnown' /\ WardsKnown'
      BY <2>1, <2>4, <3>2, <3>3 DEF StackInv, UpKnown, WardsKnown, Known
    <3>5. Unborn' /\ Enumerated' /\ Ended'
      BY <2>4 DEF Unborn, Preparing, Enumerated, Ended
    <3> QED
      BY <3>1, <3>4, <3>5 DEF StackInv
  <2> QED
    BY <2>1, <2>3, <2>4
<1>3. CASE Await \/ Supervised
  <2>1. /\ phase \in {"start", "await"} /\ phase' \in {"start", "stop", "supervise"}
        /\ next' = next \/ next' = next + 1
        /\ UNCHANGED <<listed, child, wards, spawned, targets, job, missed, early, late>>
    BY <1>3 DEF Await, Supervised, Unstarted, tree, ghosts
  <2>2. next' \in Nat \ {0}
    BY <2>1 DEF StackInv, StackTypes
  <2>3. StackTypes'
    BY <2>1, <2>2 DEF StackInv, StackTypes
  <2>4. \A s : Known(s) => s \in Range(listed') \/ s \in missed'
    BY <2>1 DEF Known, Starting
  <2>5. UpKnown' /\ WardsKnown'
    BY <2>1, <2>4 DEF StackInv, UpKnown, WardsKnown, Known
  <2>6. Unborn' /\ Enumerated' /\ Ended'
    BY <2>1 DEF Unborn, Preparing, Enumerated, Ended
  <2> QED
    BY <2>3, <2>5, <2>6 DEF StackInv
<1> QED
  BY <1>1, <1>2, <1>3 DEF Launch

LEMMA StopKeeps == ASSUME StackInv, Stop PROVE StackInv'
<1>1. CASE Supervise
  <2>1. /\ phase = "supervise" /\ phase' = "stop"
        /\ UNCHANGED <<listed, next, child, wards, spawned, targets, job, missed, early, late>>
    BY <1>1 DEF Supervise, Unstarted, tree, ghosts
  <2>2. StackTypes'
    BY <2>1 DEF StackInv, StackTypes
  <2>3. \A s : Known(s) => s \in Range(listed') \/ s \in missed'
    BY <2>1 DEF Known, Starting
  <2>4. UpKnown' /\ WardsKnown'
    BY <2>1, <2>3 DEF StackInv, UpKnown, WardsKnown, Known
  <2>5. Unborn' /\ Enumerated' /\ Ended'
    BY <2>1 DEF Unborn, Preparing, Enumerated, Ended
  <2> QED
    BY <2>2, <2>4, <2>5 DEF StackInv
<1>2. CASE Enumerate
  <2>1. /\ phase = "stop" /\ listed # <<>> /\ UNCHANGED <<next, job, child, wards, spawned, late, missed>>
        /\ IF child[Last] = "down"
           THEN listed' = Popped /\ early' = early \cup {Last} /\ phase' = phase /\ targets' = targets
           ELSE targets' = wards[Last] /\ phase' = "kill" /\ listed' = listed /\ early' = early
    BY <1>2 DEF Enumerate, tree
  <2>2. Last \in Services /\ Popped \in Seq(Services) /\ Range(listed) = Range(Popped) \cup {Last}
    BY <2>1, LastAndRest DEF StackInv, StackTypes
  <2>3. \A s : Known(s) => s \in Range(listed) \/ s \in missed
    BY <2>1 DEF Known, Starting
  <2>4. CASE child[Last] = "down"
    <3>1. listed' = Popped /\ early' = early \cup {Last} /\ phase' = "stop" /\ targets' = targets
      BY <2>1, <2>4
    <3>2. StackTypes'
      BY <2>1, <2>2, <3>1 DEF StackInv, StackTypes
    <3>3. UpKnown'
      BY <2>1, <2>2, <2>3, <2>4, <3>1 DEF StackInv, UpKnown, Known
    <3>4. WardsKnown'
      BY <2>1, <2>2, <2>3, <3>1 DEF StackInv, WardsKnown, Known
    <3>5. Unborn' /\ Enumerated' /\ Ended'
      BY <3>1 DEF Unborn, Preparing, Enumerated, Ended
    <3> QED
      BY <3>2, <3>3, <3>4, <3>5 DEF StackInv
  <2>5. CASE child[Last] # "down"
    <3>1. targets' = wards[Last] /\ phase' = "kill" /\ listed' = listed /\ early' = early
      BY <2>1, <2>5
    <3>2. StackTypes'
      BY <2>1, <2>2, <3>1 DEF StackInv, StackTypes
    <3>3. UpKnown' /\ WardsKnown'
      BY <2>1, <2>3, <3>1 DEF StackInv, UpKnown, WardsKnown, Known
    <3>4. Enumerated'
      BY <2>1, <3>1 DEF Enumerated, Last
    <3>5. Unborn' /\ Ended'
      BY <3>1 DEF Unborn, Preparing, Ended
    <3> QED
      BY <3>2, <3>3, <3>4, <3>5 DEF StackInv
  <2> QED
    BY <2>4, <2>5
<1>3. CASE Terminate
  <2>1. /\ phase = "kill" /\ phase' = "stop" /\ listed' = Popped /\ targets' = {}
        /\ wards' = [wards EXCEPT ![Last] = wards[Last] \ targets]
        /\ child' = [child EXCEPT ![Last] = "down"]
        /\ UNCHANGED <<next, job, spawned, late, early, missed>>
    BY <1>3 DEF Terminate, ghosts
  <2>2. Last \in Services /\ Popped \in Seq(Services) /\ Range(listed) = Range(Popped) \cup {Last}
    BY <2>1, LastAndRest DEF StackInv, StackTypes
  <2>3. \A s : Known(s) => s \in Range(listed) \/ s \in missed
    BY <2>1 DEF Known, Starting
  <2>4. StackTypes'
    BY <2>1, <2>2 DEF StackInv, StackTypes
  <2>5. wards'[Last] \subseteq late
    BY <2>1, <2>2 DEF StackInv, StackTypes, Enumerated
  <2>6. \A s \in Services : s # Last => wards'[s] = wards[s] /\ child'[s] = child[s]
    BY <2>1 DEF StackInv, StackTypes
  <2>7. child'[Last] = "down"
    BY <2>1, <2>2 DEF StackInv, StackTypes
  <2>8. UpKnown'
    BY <2>1, <2>2, <2>3, <2>6, <2>7 DEF StackInv, UpKnown, Known
  <2>9. WardsKnown'
    BY <2>1, <2>2, <2>3, <2>5, <2>6 DEF StackInv, WardsKnown, Known
  <2>10. Unborn' /\ Enumerated' /\ Ended'
    BY <2>1 DEF Unborn, Preparing, Enumerated, Ended
  <2> QED
    BY <2>4, <2>8, <2>9, <2>10 DEF StackInv
<1>4. CASE Leave
  <2>1. /\ phase = "stop" /\ listed = <<>> /\ phase' = "gone"
        /\ child' = [s \in Services |-> IF s \in job THEN "down" ELSE child[s]]
        /\ wards' = [s \in Services |-> IF s \in job THEN {} ELSE wards[s]]
        /\ UNCHANGED <<listed, next, targets, job, spawned, late, early, missed>>
    BY <1>4 DEF Leave, Unstarted, ghosts
  <2>2. StackTypes'
    BY <2>1 DEF StackInv, StackTypes
  <2>3. \A s : Known(s) => Known(s)'
    BY <2>1 DEF Known, Starting
  <2>4. UpKnown' /\ WardsKnown'
    BY <2>1, <2>3 DEF StackInv, UpKnown, WardsKnown
  <2>5. Range(listed') = {}
    BY <2>1 DEF Range
  <2>6. Unborn' /\ Enumerated' /\ Ended'
    BY <2>1, <2>5 DEF Unborn, Preparing, Enumerated, Ended, StackInv, StackTypes
  <2> QED
    BY <2>2, <2>4, <2>6 DEF StackInv
<1> QED
  BY <1>1, <1>2, <1>3, <1>4 DEF Stop

LEMMA InterruptKeeps == ASSUME StackInv, Interrupt PROVE StackInv'
<1>1. /\ phase \in {"start", "spawned", "await", "supervise", "stop", "kill"}
      /\ UNCHANGED <<listed, next, targets, job, spawned, late, early>>
      /\ missed' = missed \cup (IF phase = "spawned" THEN {Current}
                                ELSE IF phase \in {"stop", "kill"} THEN Range(listed) ELSE {})
      /\ IF phase \in {"stop", "kill"}
         THEN /\ phase' = "gone"
              /\ wards' = [s \in Services |-> IF s \in job THEN {} ELSE wards[s]]
              /\ child' = [s \in Services |-> IF s \in job THEN "down" ELSE child[s]]
         ELSE phase' = "stop" /\ wards' = wards /\ child' = child
  BY DEF Interrupt, Unstarted
<1>2. Range(listed) \subseteq Services
  <2>1. listed \in [1..Len(listed) -> Services]
    BY LenProperties DEF StackInv, StackTypes
  <2> QED
    BY <2>1 DEF Range
<1>3. phase = "spawned" => Current \in Services
  BY CurrentService DEF StackInv, StackTypes
<1>4. missed' \subseteq Services
  BY <1>1, <1>2, <1>3 DEF StackInv, StackTypes
<1>5. \A s : Known(s) => s \in Range(listed') \/ s \in missed'
  BY <1>1 DEF Known, Starting
<1>6. CASE phase \in {"stop", "kill"}
  <2>1. /\ phase' = "gone" /\ missed' = missed \cup Range(listed)
        /\ wards' = [s \in Services |-> IF s \in job THEN {} ELSE wards[s]]
        /\ child' = [s \in Services |-> IF s \in job THEN "down" ELSE child[s]]
    BY <1>1, <1>6
  <2>2. StackTypes'
    BY <1>1, <1>4, <2>1 DEF StackInv, StackTypes
  <2>3. UpKnown' /\ WardsKnown'
    BY <1>1, <1>5, <2>1 DEF StackInv, UpKnown, WardsKnown, Known
  <2>4. Unborn' /\ Enumerated' /\ Ended'
    BY <1>1, <2>1 DEF Unborn, Preparing, Enumerated, Ended, StackInv, StackTypes
  <2> QED
    BY <2>2, <2>3, <2>4 DEF StackInv
<1>7. CASE phase \notin {"stop", "kill"}
  <2>1. phase' = "stop" /\ wards' = wards /\ child' = child
    BY <1>1, <1>7
  <2>2. StackTypes'
    BY <1>1, <1>4, <2>1 DEF StackInv, StackTypes
  <2>3. UpKnown' /\ WardsKnown'
    BY <1>1, <1>5, <2>1 DEF StackInv, UpKnown, WardsKnown, Known
  <2>4. Unborn' /\ Enumerated' /\ Ended'
    BY <2>1 DEF Unborn, Preparing, Enumerated, Ended
  <2> QED
    BY <2>2, <2>3, <2>4 DEF StackInv
<1> QED
  BY <1>6, <1>7

LEMMA ProcessKeeps ==
  ASSUME StackInv, NEW s \in Services, SpawnWard(s) \/ WardDies(s) \/ ServiceDies(s) PROVE StackInv'
<1>1. UNCHANGED <<phase, listed, next, targets, job, early, missed>>
  BY DEF SpawnWard, WardDies, ServiceDies, Unstarted, ghosts
<1>2. \A t : Known(t) => Known(t)'
  BY <1>1 DEF Known, Starting, Current
<1>3. CASE SpawnWard(s)
  <2>1. /\ child[s] = "up" /\ child' = child /\ spawned' = spawned + 1
        /\ wards' = [wards EXCEPT ![s] = wards[s] \cup {spawned'}]
        /\ late' = IF phase = "kill" /\ Last = s THEN late \cup {spawned'} ELSE late
    BY <1>3 DEF SpawnWard
  <2>2. spawned' \in Nat
    BY <2>1 DEF StackInv, StackTypes
  <2>3. StackTypes'
    BY <1>1, <2>1, <2>2 DEF StackInv, StackTypes
  <2>4. UpKnown'
    BY <1>1, <1>2, <2>1 DEF StackInv, UpKnown
  <2>5. Known(s)
    BY <2>1 DEF StackInv, UpKnown
  <2>6. \A t \in Services : t # s => wards'[t] = wards[t]
    BY <2>1 DEF StackInv, StackTypes
  <2>7. late \subseteq late'
    BY <2>1
  <2>8. WardsKnown'
    BY <1>1, <1>2, <2>5, <2>6, <2>7 DEF StackInv, WardsKnown
  <2>9. ~ Preparing
    BY <2>1 DEF StackInv, Unborn
  <2>10. Enumerated'
    <3>1. CASE phase = "kill"
      <4>1. Last \in Services /\ wards[Last] \subseteq targets \cup late
        BY <3>1, LastAndRest DEF StackInv, StackTypes, Enumerated
      <4>2. wards'[Last] \subseteq targets \cup late'
        BY <2>1, <2>6, <2>7, <3>1, <4>1 DEF StackInv, StackTypes
      <4> QED
        BY <1>1, <4>2 DEF Enumerated, Last
    <3> QED
      BY <1>1, <3>1 DEF Enumerated
  <2>11. Unborn' /\ Ended'
    BY <1>1, <2>1, <2>6, <2>9 DEF Unborn, Preparing, Ended, StackInv, StackTypes
  <2> QED
    BY <2>3, <2>4, <2>8, <2>10, <2>11 DEF StackInv
<1>4. CASE WardDies(s)
  <2>1. PICK w \in wards[s] : wards' = [wards EXCEPT ![s] = wards[s] \ {w}]
    BY <1>4 DEF WardDies
  <2>2. child' = child /\ spawned' = spawned /\ late' = late
    BY <1>4 DEF WardDies
  <2>3. \A t \in Services : wards'[t] \subseteq wards[t]
    BY <2>1 DEF StackInv, StackTypes
  <2>4. StackTypes'
    BY <1>1, <2>1, <2>2 DEF StackInv, StackTypes
  <2>5. UpKnown' /\ WardsKnown'
    BY <1>1, <1>2, <2>2, <2>3 DEF StackInv, UpKnown, WardsKnown
  <2>6. phase = "kill" => Last \in Services
    BY LastAndRest DEF StackInv, StackTypes
  <2>7. Enumerated'
    BY <1>1, <2>2, <2>3, <2>6 DEF StackInv, Enumerated, Last
  <2>8. Unborn' /\ Ended'
    BY <1>1, <2>2, <2>3 DEF Unborn, Preparing, Ended, StackInv, StackTypes
  <2> QED
    BY <2>4, <2>5, <2>7, <2>8 DEF StackInv
<1>5. CASE ServiceDies(s)
  <2>1. child[s] = "up" /\ child' = [child EXCEPT ![s] = "down"] /\ UNCHANGED <<wards, spawned, late>>
    BY <1>5 DEF ServiceDies
  <2>2. StackTypes'
    BY <1>1, <2>1 DEF StackInv, StackTypes
  <2>3. \A t \in Services : child'[t] = "up" => child[t] = "up"
    BY <2>1 DEF StackInv, StackTypes
  <2>4. UpKnown' /\ WardsKnown'
    BY <1>1, <1>2, <2>1, <2>3 DEF StackInv, UpKnown, WardsKnown
  <2>5. ~ Preparing
    BY <2>1 DEF StackInv, Unborn
  <2>6. Unborn' /\ Enumerated' /\ Ended'
    BY <1>1, <2>1, <2>3, <2>5 DEF Unborn, Preparing, Enumerated, Ended, StackInv, StackTypes, Last
  <2> QED
    BY <2>2, <2>4, <2>6 DEF StackInv
<1> QED
  BY <1>3, <1>4, <1>5

\* What rundev must know all the time to leave nothing behind: every service
\* that runs, and every one that has left a ward, is accounted for.
THEOREM StackInvariant == DevStackSpec => []StackInv
<1>1. DevStackInit => StackInv
  <2> SUFFICES ASSUME DevStackInit PROVE StackInv
    OBVIOUS
  <2>1. Range(<<>>) = {} /\ <<>> \in Seq(Services)
    BY EmptySeq DEF Range
  <2>2. StackTypes
    BY <2>1 DEF DevStackInit, StackTypes
  <2>3. Unborn /\ UpKnown /\ WardsKnown
    BY DEF DevStackInit, Unborn, UpKnown, WardsKnown
  <2>4. Enumerated /\ Ended
    BY DEF DevStackInit, Enumerated, Ended
  <2> QED
    BY <2>2, <2>3, <2>4 DEF StackInv
<1>2. ASSUME StackInv, [DevStackNext]_stackVars PROVE StackInv'
  <2>1. CASE UNCHANGED stackVars
    <3>1. UNCHANGED <<phase, listed, next, child, wards, spawned, targets, job, early, late, missed>>
      BY <2>1 DEF stackVars
    <3>2. StackTypes'
      BY <1>2, <3>1 DEF StackInv, StackTypes
    <3>3. Unborn' /\ UpKnown' /\ WardsKnown'
      BY <1>2, <3>1 DEF StackInv, Unborn, Preparing, UpKnown, WardsKnown, Known, Starting, Current
    <3>4. Enumerated' /\ Ended'
      BY <1>2, <3>1 DEF StackInv, Enumerated, Ended, Last
    <3> QED
      BY <3>2, <3>3, <3>4 DEF StackInv
  <2> QED
    BY <1>2, <2>1, PrepareKeeps, LaunchKeeps, StopKeeps, InterruptKeeps, ProcessKeeps DEF DevStackNext
<1> QED
  BY <1>1, <1>2, PTL DEF DevStackSpec

\* However rundev ends, no service that came into `processes` is left, unless
\* Ctrl-C interrupted the stopping itself, and wards only of a service that had
\* ended before, or that were started while it was being stopped
\* (_stop_process_tree in src/project/management/commands/rundev.py).
THEOREM RundevLeavesNothing == DevStackSpec => []NothingLeft
<1>1. ASSUME StackInv PROVE NothingLeft
  <2> SUFFICES ASSUME phase = "gone", NEW s \in Services
               PROVE  /\ child[s] = "up" => s \in missed \ job
                      /\ wards[s] # {} => s \notin job /\ (s \in early \cup missed \/ wards[s] \subseteq late)
    BY DEF NothingLeft
  <2>1. Known(s) => s \in missed
    BY <1>1 DEF Known, Starting, StackInv, Ended
  <2>2. s \in job => child[s] # "up" /\ wards[s] = {}
    BY <1>1 DEF StackInv, Ended
  <2>3. child[s] = "up" => Known(s)
    BY <1>1 DEF StackInv, UpKnown
  <2>4. wards[s] = {} \/ Known(s) \/ s \in early \/ wards[s] \subseteq late
    BY <1>1 DEF StackInv, WardsKnown
  <2> QED
    BY <2>1, <2>2, <2>3, <2>4
<1> QED
  BY <1>1, StackInvariant, PTL
=============================================================================
