----------------------- MODULE AgentSupervisor_proofs -----------------------
(***************************************************************************)
(* Restart limit and backoff of AgentSupervisor, for any number of         *)
(* managers, any limits and any length of failure.                         *)
(***************************************************************************)
EXTENDS AgentSupervisor, TLAPS

Typed ==
  /\ turn \in Managers
  /\ plugin \in [Managers -> {"alive", "exited", "none"}]
  /\ attempts \in [Managers -> Nat]
  /\ wait \in [Managers -> Int]
  /\ waited \in [Managers -> 0..BackoffMax]
  /\ starts \in [Managers -> Nat]

\* Only a plugin that has been removed waits for a restart.
OnlyRemovedWait == \A m \in Managers : plugin[m] # "none" => wait[m] = Idle

\* attempts counts every start but the first.
Counted == \A m \in Managers : starts[m] <= attempts[m] + 1

\* A restart is scheduled only while there is one left.
Within ==
  \A m \in Managers : RestartLimit[m] # Unlimited =>
    /\ attempts[m] <= RestartLimit[m]
    /\ wait[m] # Idle => attempts[m] < RestartLimit[m]

\* What has been waited and what is left make up the backoff.
WholeBackoff ==
  \A m \in Managers : wait[m] # Idle => waited[m] + wait[m] >= Delay(attempts[m])

Inv == Typed /\ OnlyRemovedWait /\ Counted /\ Within /\ WholeBackoff

-----------------------------------------------------------------------------
\* The exponents of check_and_restart stop at 32, and no prover knows more of
\* powers than the value of each.
LEMMA PowerPositive == ASSUME NEW k \in 0..32 PROVE 2 ^ k \in Nat
<1>1. \/ k = 0 \/ k = 1 \/ k = 2 \/ k = 3 \/ k = 4 \/ k = 5 \/ k = 6 \/ k = 7
      \/ k = 8 \/ k = 9 \/ k = 10 \/ k = 11 \/ k = 12 \/ k = 13 \/ k = 14 \/ k = 15
      \/ k = 16 \/ k = 17 \/ k = 18 \/ k = 19 \/ k = 20 \/ k = 21 \/ k = 22 \/ k = 23
      \/ k = 24 \/ k = 25 \/ k = 26 \/ k = 27 \/ k = 28 \/ k = 29 \/ k = 30 \/ k = 31
      \/ k = 32
  OBVIOUS
<1>2. {2 ^ 0, 2 ^ 1, 2 ^ 2, 2 ^ 3, 2 ^ 4, 2 ^ 5, 2 ^ 6, 2 ^ 7, 2 ^ 8,
         2 ^ 9, 2 ^ 10, 2 ^ 11, 2 ^ 12, 2 ^ 13, 2 ^ 14, 2 ^ 15, 2 ^ 16, 2 ^ 17,
         2 ^ 18, 2 ^ 19, 2 ^ 20, 2 ^ 21, 2 ^ 22, 2 ^ 23, 2 ^ 24, 2 ^ 25, 2 ^ 26,
         2 ^ 27, 2 ^ 28, 2 ^ 29, 2 ^ 30, 2 ^ 31, 2 ^ 32} \subseteq Nat
  OBVIOUS
<1> QED
  BY <1>1, <1>2, ZenonT(60)

\* The backoff is a number of periods, BackoffMax at most.
LEMMA DelayBounded ==
  ASSUME NEW n \in Nat PROVE Delay(n) \in Int /\ Delay(n) <= BackoffMax /\ Delay(n) >= 0
<1>1. MinOf(n, 32) \in 0..32
  BY DEF MinOf
<1>2. 2 ^ MinOf(n, 32) \in Nat
  BY <1>1, PowerPositive
<1> DEFINE y == 2 ^ MinOf(n, 32)
           x == Backoff * y
<1> HIDE DEF y
<1>3. x \in Nat
  BY <1>2, SupervisorAssumption DEF y
<1>4. Delay(n) = MinOf(x, BackoffMax)
  BY DEF Delay, y
<1> HIDE DEF x
<1> QED
  BY <1>3, <1>4, SupervisorAssumption DEF MinOf

LEMMA LimitTyped ==
  ASSUME NEW m \in Managers, RestartLimit[m] # Unlimited PROVE RestartLimit[m] \in Nat
BY SupervisorAssumption DEF Managers

LEMMA InitInv == Init => Inv
<1> SUFFICES ASSUME Init PROVE Inv
  OBVIOUS
<1> QED
  BY SupervisorAssumption
  DEF Init, Inv, Typed, OnlyRemovedWait, Counted, Within, WholeBackoff, Managers, Idle

\* A step that moves no counter and revives no removed plugin keeps Inv.
LEMMA CountersStay ==
  ASSUME Inv, UNCHANGED <<attempts, wait, waited, starts>>, turn' \in Managers,
         plugin' \in [Managers -> {"alive", "exited", "none"}],
         \A m \in Managers : plugin'[m] # "none" => plugin[m] # "none"
  PROVE  Inv'
BY DEF Inv, Typed, OnlyRemovedWait, Counted, Within, WholeBackoff, Delay, MinOf, Managers

\* What a look at the exit of m leaves in attempts.
LEMMA AttemptsTyped ==
  ASSUME Inv, NEW m \in Managers
  PROVE  /\ Attempts(m) \in Nat
         /\ StayedUp(m) => Attempts(m) = 0
         /\ ~StayedUp(m) => Attempts(m) = attempts[m]
BY DEF Inv, Typed, Attempts

LEMMA LeavesInv == ASSUME Inv, CheckLeaves PROVE Inv'
<1> USE DEF Inv, Typed
<1> DEFINE t == turn
<1>1. t \in Managers /\ Attempts(t) \in Nat
  BY AttemptsTyped
<1>2. Delay(Attempts(t)) \in Int
  BY <1>1, DelayBounded
<1>3. Due(t) \in Int
  BY <1>1, <1>2 DEF Due
<1>4. starts'[t] = (IF StayedUp(t) THEN 0 ELSE starts[t]) /\ starts' \in [Managers -> Nat]
      /\ \A m \in Managers \ {t} : starts'[m] = starts[m]
  BY <1>1 DEF CheckLeaves, Clear
<1>5. Typed'
  <2>1. turn' \in Managers /\ plugin' \in [Managers -> {"alive", "exited", "none"}]
    BY <1>1 DEF CheckLeaves
  <2>2. attempts' \in [Managers -> Nat]
    BY <1>1 DEF CheckLeaves
  <2>3. wait' \in [Managers -> Int]
    BY <1>3 DEF CheckLeaves
  <2>4. waited' \in [Managers -> 0..BackoffMax]
    BY <1>1, SupervisorAssumption DEF CheckLeaves
  <2> QED
    BY <1>4, <2>1, <2>2, <2>3, <2>4
<1>6. OnlyRemovedWait'
  <2> SUFFICES ASSUME NEW m \in Managers, plugin'[m] # "none" PROVE wait'[m] = Idle
    BY DEF OnlyRemovedWait
  <2>1. CASE m = t
    <3>1. ~Noticed(t) /\ plugin[t] # "none"
      BY <1>1, <2>1 DEF CheckLeaves
    <3> QED
      BY <1>1, <2>1, <3>1 DEF CheckLeaves, Due, OnlyRemovedWait
  <2>2. CASE m # t
    BY <2>2 DEF CheckLeaves, OnlyRemovedWait
  <2> QED
    BY <2>1, <2>2
<1>7. Counted'
  <2> SUFFICES ASSUME NEW m \in Managers PROVE starts'[m] <= attempts'[m] + 1
    BY DEF Counted
  <2>1. attempts'[t] = Attempts(t) /\ \A k \in Managers \ {t} : attempts'[k] = attempts[k]
    BY <1>1 DEF CheckLeaves
  <2> QED
    BY <1>1, <1>4, <2>1, AttemptsTyped DEF Counted
<1>8. Within'
  <2> SUFFICES ASSUME NEW m \in Managers, RestartLimit[m] # Unlimited
               PROVE  /\ attempts'[m] <= RestartLimit[m]
                      /\ wait'[m] # Idle => attempts'[m] < RestartLimit[m]
    BY DEF Within
  <2>1. attempts'[t] = Attempts(t) /\ wait'[t] = Due(t)
        /\ \A k \in Managers \ {t} : attempts'[k] = attempts[k] /\ wait'[k] = wait[k]
    BY <1>1 DEF CheckLeaves
  <2>l. RestartLimit[t] # Unlimited => RestartLimit[t] \in Nat
    BY <1>1, LimitTyped
  <2>2. RestartLimit[t] # Unlimited => Attempts(t) <= RestartLimit[t]
    BY <1>1, <2>l, AttemptsTyped DEF Within
  <2>3. RestartLimit[t] # Unlimited /\ Due(t) # Idle => Attempts(t) < RestartLimit[t]
    <3>1. CASE Noticed(t)
      <4>1. wait[t] = Idle
        BY <1>1, <3>1 DEF OnlyRemovedWait, Noticed
      <4> QED
        BY <1>1, <2>l, <3>1, <4>1 DEF Due, LimitReached
    <3>2. CASE ~Noticed(t)
      BY <1>1, <3>2, AttemptsTyped DEF Due, StayedUp, Within
    <3> QED
      BY <3>1, <3>2
  <2> QED
    BY <2>1, <2>2, <2>3 DEF Within
<1>9. WholeBackoff'
  <2> SUFFICES ASSUME NEW m \in Managers, wait'[m] # Idle
               PROVE  waited'[m] + wait'[m] >= Delay(attempts'[m])
    BY DEF WholeBackoff, Delay, MinOf
  <2>1. CASE m = t /\ Noticed(t)
    <3>1. wait[t] = Idle
      BY <1>1, <2>1 DEF OnlyRemovedWait, Noticed
    <3>2. wait'[m] = Due(t) /\ waited'[m] = 0 /\ attempts'[m] = Attempts(t)
      BY <1>1, <2>1 DEF CheckLeaves
    <3>3. Due(t) = Delay(Attempts(t))
      BY <2>1, <3>1, <3>2 DEF Due
    <3> QED
      BY <1>2, <3>2, <3>3
  <2>2. CASE m # t \/ ~Noticed(t)
    <3>1. wait'[m] = wait[m] /\ waited'[m] = waited[m] /\ attempts'[m] = attempts[m]
      BY <1>1, <2>2, AttemptsTyped DEF CheckLeaves, Due, StayedUp
    <3> QED
      BY <3>1 DEF WholeBackoff
  <2> QED
    BY <2>1, <2>2
<1> QED
  BY <1>5, <1>6, <1>7, <1>8, <1>9

\* What is due now has attempts left.
LEMMA DueLeft ==
  ASSUME Inv, Due(turn) = 0, RestartLimit[turn] # Unlimited
  PROVE  Attempts(turn) < RestartLimit[turn]
<1> USE DEF Inv, Typed
<1>1. turn \in Managers /\ Attempts(turn) \in Nat /\ RestartLimit[turn] \in Nat
  BY AttemptsTyped, LimitTyped
<1>2. CASE Noticed(turn)
  <2>1. wait[turn] = Idle
    BY <1>1, <1>2 DEF OnlyRemovedWait, Noticed
  <2> QED
    BY <1>1, <1>2, <2>1 DEF Due, LimitReached, Idle
<1>3. CASE ~Noticed(turn)
  BY <1>1, <1>3, AttemptsTyped DEF Due, StayedUp, Within, Idle
<1> QED
  BY <1>2, <1>3

LEMMA RestartsInv == ASSUME Inv, CheckRestarts PROVE Inv'
<1> USE DEF Inv, Typed
<1> DEFINE t == turn
<1>1. t \in Managers /\ Attempts(t) \in Nat
  BY AttemptsTyped
<1>2. /\ attempts' = [attempts EXCEPT ![t] = Attempts(t) + 1]
      /\ wait' = [wait EXCEPT ![t] = Idle]
      /\ plugin' = [plugin EXCEPT ![t] = "alive"]
      /\ UNCHANGED <<turn, waited>>
  BY DEF CheckRestarts
<1>3. starts'[t] = (IF StayedUp(t) THEN 1 ELSE starts[t] + 1) /\ starts' \in [Managers -> Nat]
      /\ \A m \in Managers \ {t} : starts'[m] = starts[m]
  BY <1>1 DEF CheckRestarts
<1>4. Typed'
  <2>1. turn' \in Managers /\ plugin' \in [Managers -> {"alive", "exited", "none"}]
    BY <1>2
  <2>2. attempts' \in [Managers -> Nat]
    BY <1>1, <1>2
  <2>3. wait' \in [Managers -> Int]
    BY <1>2 DEF Idle
  <2>4. waited' \in [Managers -> 0..BackoffMax]
    BY <1>2
  <2> QED
    BY <1>3, <2>1, <2>2, <2>3, <2>4
<1>5. OnlyRemovedWait'
  BY <1>1, <1>2 DEF OnlyRemovedWait
<1>6. Counted'
  BY <1>1, <1>2, <1>3, AttemptsTyped DEF Counted
<1>7. Within'
  <2> SUFFICES ASSUME NEW m \in Managers, RestartLimit[m] # Unlimited
               PROVE  /\ attempts'[m] <= RestartLimit[m]
                      /\ wait'[m] # Idle => attempts'[m] < RestartLimit[m]
    BY DEF Within
  <2>1. RestartLimit[t] # Unlimited => Attempts(t) < RestartLimit[t] /\ RestartLimit[t] \in Nat
    BY <1>1, DueLeft, LimitTyped DEF CheckRestarts
  <2> QED
    BY <1>1, <1>2, <2>1 DEF Within
<1>8. WholeBackoff'
  <2> SUFFICES ASSUME NEW m \in Managers, wait'[m] # Idle
               PROVE  waited'[m] + wait'[m] >= Delay(attempts'[m])
    BY DEF WholeBackoff, Delay, MinOf
  <2>1. wait'[m] = wait[m] /\ waited'[m] = waited[m] /\ attempts'[m] = attempts[m]
    BY <1>1, <1>2
  <2> QED
    BY <2>1 DEF WholeBackoff
<1> QED
  BY <1>4, <1>5, <1>6, <1>7, <1>8

LEMMA FailsInv == ASSUME Inv, CheckFails PROVE Inv'
<1> USE DEF Inv, Typed
<1> DEFINE t == turn
<1>1. t \in Managers /\ Attempts(t) \in Nat
  BY AttemptsTyped
<1>2. /\ attempts' = [attempts EXCEPT ![t] = Attempts(t)]
      /\ wait' = [wait EXCEPT ![t] = Idle]
      /\ plugin' = [plugin EXCEPT ![t] = "none"]
      /\ UNCHANGED <<turn, waited>>
  BY DEF CheckFails
<1>3. starts'[t] = (IF StayedUp(t) THEN 0 ELSE starts[t]) /\ starts' \in [Managers -> Nat]
      /\ \A m \in Managers \ {t} : starts'[m] = starts[m]
  BY <1>1 DEF CheckFails, Clear
<1>4. Typed'
  <2>1. turn' \in Managers /\ plugin' \in [Managers -> {"alive", "exited", "none"}]
    BY <1>2
  <2>2. attempts' \in [Managers -> Nat]
    BY <1>1, <1>2
  <2>3. wait' \in [Managers -> Int]
    BY <1>2 DEF Idle
  <2>4. waited' \in [Managers -> 0..BackoffMax]
    BY <1>2
  <2> QED
    BY <1>3, <2>1, <2>2, <2>3, <2>4
<1>5. OnlyRemovedWait'
  BY <1>1, <1>2 DEF OnlyRemovedWait
<1>6. Counted'
  BY <1>1, <1>2, <1>3, AttemptsTyped DEF Counted
<1>7. Within'
  <2>1. RestartLimit[t] # Unlimited => Attempts(t) <= RestartLimit[t] /\ RestartLimit[t] \in Nat
    BY <1>1, AttemptsTyped, LimitTyped DEF Within
  <2> QED
    BY <1>1, <1>2, <2>1 DEF Within
<1>8. WholeBackoff'
  <2> SUFFICES ASSUME NEW m \in Managers, wait'[m] # Idle
               PROVE  waited'[m] + wait'[m] >= Delay(attempts'[m])
    BY DEF WholeBackoff, Delay, MinOf
  <2>1. wait'[m] = wait[m] /\ waited'[m] = waited[m] /\ attempts'[m] = attempts[m]
    BY <1>1, <1>2
  <2> QED
    BY <2>1 DEF WholeBackoff
<1> QED
  BY <1>4, <1>5, <1>6, <1>7, <1>8

LEMMA TickInv == ASSUME Inv, Tick PROVE Inv'
<1> USE DEF Inv, Typed
<1>1. /\ wait' = [m \in Managers |-> IF wait[m] > 0 THEN wait[m] - 1 ELSE wait[m]]
      /\ waited' = [m \in Managers |-> MinOf(waited[m] + 1, BackoffMax)]
      /\ UNCHANGED <<plugin, attempts, starts>>
  BY DEF Tick
<1>t. turn' \in Managers
  <2>1. 1 \in Managers
    BY SupervisorAssumption DEF Managers
  <2>2. turn' = 1 \/ turn' = turn
    BY Zenon DEF Tick
  <2> QED
    BY <2>1, <2>2
<1>2. \A m \in Managers : /\ waited'[m] \in 0..BackoffMax
                          /\ waited'[m] = waited[m] + 1 \/ waited'[m] = BackoffMax
                          /\ waited'[m] >= waited[m]
  BY <1>1, SupervisorAssumption DEF MinOf
<1>3. \A m \in Managers : /\ wait'[m] \in Int
                          /\ wait'[m] = Idle <=> wait[m] = Idle
                          /\ wait'[m] >= 0 \/ wait'[m] = wait[m]
                          /\ wait'[m] = wait[m] \/ wait'[m] = wait[m] - 1
  BY <1>1 DEF Idle
<1>4. Typed'
  BY <1>1, <1>t, <1>2, <1>3
<1>5. OnlyRemovedWait' /\ Counted' /\ Within'
  BY <1>1, <1>3 DEF OnlyRemovedWait, Counted, Within
<1>6. WholeBackoff'
  <2> SUFFICES ASSUME NEW m \in Managers, wait'[m] # Idle
               PROVE  waited'[m] + wait'[m] >= Delay(attempts'[m])
    BY DEF WholeBackoff, Delay, MinOf
  <2>1. attempts'[m] = attempts[m] /\ Delay(attempts[m]) \in Int /\ Delay(attempts[m]) <= BackoffMax
    BY <1>1, DelayBounded
  <2>2. waited[m] + wait[m] >= Delay(attempts[m])
    BY <1>3 DEF WholeBackoff
  <2>3. waited[m] \in Int /\ wait[m] \in Int /\ BackoffMax \in Int
    BY SupervisorAssumption
  <2> HIDE DEF Inv, Typed
  <2>4. CASE wait'[m] = wait[m]
    BY <1>2, <2>1, <2>2, <2>3, <2>4
  <2>5. CASE wait'[m] = wait[m] - 1 /\ wait'[m] >= 0
    BY <1>2, <2>1, <2>2, <2>3, <2>5
  <2> QED
    BY <1>3, <2>4, <2>5
<1> QED
  BY <1>4, <1>5, <1>6

LEMMA NextInv == Inv /\ [Next]_vars => Inv'
<1> SUFFICES ASSUME Inv, [Next]_vars PROVE Inv'
  OBVIOUS
<1>t. turn \in Managers /\ plugin \in [Managers -> {"alive", "exited", "none"}]
  BY DEF Inv, Typed
<1>1. CASE CheckLeaves
  BY <1>1, LeavesInv
<1>2. CASE CheckRestarts
  BY <1>2, RestartsInv
<1>3. CASE CheckFails
  BY <1>3, FailsInv
<1>4. CASE Tick
  BY <1>4, TickInv
<1>5. CASE PutHeartbeat
  <2>1. turn' \in Managers
    BY <1>5, <1>t, SupervisorAssumption DEF PutHeartbeat, Managers
  <2> QED
    BY <1>5, <1>t, <2>1, CountersStay DEF PutHeartbeat, pluginVars
<1>6. CASE Interrupt
  <2>1. plugin' \in [Managers -> {"alive", "exited", "none"}]
        /\ \A m \in Managers : plugin'[m] # "none" => plugin[m] # "none"
    BY <1>6, <1>t DEF Interrupt
  <2> QED
    BY <1>6, <1>t, <2>1, CountersStay DEF Interrupt
<1>7. CASE IndexerGoes
  BY <1>7, <1>t, CountersStay DEF IndexerGoes, pluginVars
<1>8. ASSUME NEW m \in Managers, PluginExits(m) PROVE Inv'
  BY <1>8, <1>t, CountersStay DEF PluginExits
<1>9. ASSUME NEW m \in Managers, PluginPuts(m) \/ SenderTakes(m) \/ SenderGivesUp(m) PROVE Inv'
  BY <1>9, <1>t, CountersStay DEF PluginPuts, SenderTakes, SenderGivesUp, pluginVars
<1>10. CASE UNCHANGED vars
  BY <1>10, <1>t, CountersStay DEF vars
<1> QED
  BY <1>1, <1>2, <1>3, <1>4, <1>5, <1>6, <1>7, <1>8, <1>9, <1>10 DEF Next, AgentStep

LEMMA InvHolds == Spec => []Inv
BY InitInv, NextInv, PTL DEF Spec

-----------------------------------------------------------------------------
\* However the agent, its plugins and the indexer fail, a plugin is started
\* RestartLimit times at most between two processes that stayed up, and once
\* more if none did (check_and_restart).
THEOREM StartsWithinLimit == Spec => []StartsLimited
<1>1. Inv => StartsLimited
  <2> SUFFICES ASSUME Inv, NEW m \in Managers, RestartLimit[m] # Unlimited
               PROVE  starts[m] <= RestartLimit[m] + 1
    BY DEF StartsLimited
  <2>1. RestartLimit[m] \in Nat
    BY SupervisorAssumption DEF Managers
  <2> QED
    BY <2>1 DEF Inv, Typed, Counted, Within
<1> QED
  BY <1>1, InvHolds, PTL

\* A plugin comes back only after the whole backoff of its attempt, however
\* long or short the passes of the agent are (check_and_restart).
THEOREM NeverBeforeBackoff == Spec => BackoffRespected
<1>1. Inv /\ [Next]_vars =>
        [\A m \in Managers :
           plugin[m] # "alive" /\ plugin'[m] = "alive" =>
             (IF plugin[m] = "exited" THEN 0 ELSE waited[m]) >= Delay(attempts'[m] - 1)]_vars
  <2> SUFFICES ASSUME Inv, Next, NEW m \in Managers, plugin[m] # "alive", plugin'[m] = "alive"
               PROVE  (IF plugin[m] = "exited" THEN 0 ELSE waited[m]) >= Delay(attempts'[m] - 1)
    OBVIOUS
  <2> USE DEF Inv, Typed
  <2>1. CheckRestarts /\ m = turn
    <3>1. CASE CheckLeaves
      BY <3>1 DEF CheckLeaves
    <3>2. CASE CheckRestarts
      BY <3>2 DEF CheckRestarts
    <3>3. CASE CheckFails
      BY <3>3 DEF CheckFails
    <3>4. CASE PutHeartbeat \/ Tick \/ Interrupt \/ IndexerGoes
      BY <3>4 DEF PutHeartbeat, Tick, Interrupt, IndexerGoes, pluginVars
    <3>5. ASSUME NEW k \in Managers, PluginExits(k) \/ PluginPuts(k) \/ SenderTakes(k) \/ SenderGivesUp(k)
          PROVE  FALSE
      BY <3>5 DEF PluginExits, PluginPuts, SenderTakes, SenderGivesUp, pluginVars
    <3> QED
      BY <3>1, <3>2, <3>3, <3>4, <3>5 DEF Next, AgentStep
  <2>2. Attempts(m) \in Nat /\ attempts'[m] - 1 = Attempts(m) /\ Due(m) = 0
    BY <2>1, AttemptsTyped DEF CheckRestarts
  <2>3. Delay(Attempts(m)) \in Int
    BY <2>2, DelayBounded
  <2>4. CASE plugin[m] = "exited"
    <3>1. Noticed(m) /\ wait[m] = Idle
      BY <2>4 DEF Noticed, OnlyRemovedWait
    <3>2. Delay(Attempts(m)) = 0
      BY <2>2, <3>1 DEF Due, Idle
    <3> QED
      BY <2>2, <2>4, <3>2
  <2>5. CASE plugin[m] = "none"
    <3>1. wait[m] = 0 /\ Attempts(m) = attempts[m]
      BY <2>2, <2>5, AttemptsTyped DEF Due, Noticed, StayedUp
    <3>2. waited[m] >= Delay(attempts[m])
      BY <2>3, <3>1 DEF WholeBackoff, Idle
    <3> QED
      BY <2>2, <2>5, <3>1, <3>2
  <2> QED
    BY <2>4, <2>5
<1> QED
  BY <1>1, InvHolds, PTL DEF Spec, BackoffRespected

-----------------------------------------------------------------------------
(* The range of every counter *)

LEMMA InitTypes == Init => TypeOK
BY SupervisorAssumption DEF Init, TypeOK, Managers, Idle, Bounds

\* What Spend leaves of the bounds.
LEMMA SpendTyped ==
  ASSUME TypeOK, NEW b \in Bounds, NEW limit, Spend(b, limit)
  PROVE  spent' \in [Bounds -> Nat] /\ \A c \in Bounds : spent'[c] >= spent[c] /\ spent'[b] > 0
BY DEF TypeOK, Spend

\* What a look at the exit of the manager's plugin leaves.
LEMMA CheckTyped ==
  ASSUME TypeOK
  PROVE  /\ turn \in Managers /\ Attempts(turn) \in Nat
         /\ Due(turn) \in Idle..BackoffMax
         /\ Noticed(turn) /\ ~LimitReached(turn) => Due(turn) # Idle
<1>1. turn \in Managers /\ attempts \in [Managers -> Nat] /\ wait \in [Managers -> Idle..BackoffMax]
  BY DEF TypeOK
<1>2. Attempts(turn) \in Nat
  BY <1>1 DEF Attempts
<1>3. Delay(Attempts(turn)) \in 0..BackoffMax
  BY <1>2, DelayBounded, SupervisorAssumption
<1> QED
  BY <1>1, <1>2, <1>3 DEF Due, Idle

LEMMA SenderTyped ==
  ASSUME TypeOK, CheckSender(turn)
  PROVE  /\ sender' \in [Managers -> {"alive", "dead"}] /\ pc' \in {"put", "sleep"}
         /\ spent' \in [Bounds -> Nat] /\ \A c \in Bounds : spent'[c] >= spent[c]
BY SpendTyped DEF CheckSender, TypeOK, Bounds

LEMMA CheckTypes == ASSUME TypeOK, CheckLeaves \/ CheckRestarts \/ CheckFails PROVE TypeOK'
<1>1. CASE CheckLeaves
  <2>1. /\ sender' \in [Managers -> {"alive", "dead"}] /\ pc' \in {"put", "sleep"} /\ spent' \in [Bounds -> Nat]
    BY <1>1, SenderTyped DEF CheckLeaves
  <2>2. plugin' \in [Managers -> {"alive", "exited", "none"}] /\ attempts' \in [Managers -> Nat]
        /\ wait' \in [Managers -> Idle..BackoffMax]
    BY <1>1, CheckTyped DEF CheckLeaves, TypeOK
  <2>3. waited' \in [Managers -> 0..BackoffMax] /\ starts' \in [Managers -> Nat]
    BY <1>1, SupervisorAssumption DEF CheckLeaves, Clear, TypeOK
  <2> QED
    BY <1>1, <2>1, <2>2, <2>3 DEF CheckLeaves, TypeOK
<1>2. CASE CheckRestarts
  <2>1. /\ sender' \in [Managers -> {"alive", "dead"}] /\ pc' \in {"put", "sleep"} /\ spent' \in [Bounds -> Nat]
    BY <1>2, SenderTyped DEF CheckRestarts
  <2>2. plugin' \in [Managers -> {"alive", "exited", "none"}] /\ attempts' \in [Managers -> Nat]
        /\ starts' \in [Managers -> Nat]
    BY <1>2, CheckTyped DEF CheckRestarts, TypeOK
  <2>3. wait' \in [Managers -> Idle..BackoffMax] /\ age' \in [Managers -> 0..ResetAfter]
    BY <1>2, SupervisorAssumption DEF CheckRestarts, TypeOK, Idle
  <2> QED
    BY <1>2, <2>1, <2>2, <2>3 DEF CheckRestarts, TypeOK
<1>3. CASE CheckFails
  <2>1. spent' \in [Bounds -> Nat]
    BY <1>3, SpendTyped DEF CheckFails, Bounds
  <2>2. plugin' \in [Managers -> {"alive", "exited", "none"}] /\ attempts' \in [Managers -> Nat]
    BY <1>3, CheckTyped DEF CheckFails, TypeOK
  <2>3. wait' \in [Managers -> Idle..BackoffMax] /\ starts' \in [Managers -> Nat]
    BY <1>3, SupervisorAssumption DEF CheckFails, Clear, TypeOK, Idle
  <2> QED
    BY <1>3, <2>1, <2>2, <2>3 DEF CheckFails, TypeOK
<1> QED
  BY <1>1, <1>2, <1>3

LEMMA TickTypes == ASSUME TypeOK, Tick PROVE TypeOK'
<1>1. /\ age' = [m \in Managers |-> MinOf(age[m] + 1, ResetAfter)]
      /\ wait' = [m \in Managers |-> IF wait[m] > 0 THEN wait[m] - 1 ELSE wait[m]]
      /\ waited' = [m \in Managers |-> MinOf(waited[m] + 1, BackoffMax)]
      /\ UNCHANGED <<plugin, attempts, starts, sender, queue>>
  BY DEF Tick
<1>2. age' \in [Managers -> 0..ResetAfter] /\ waited' \in [Managers -> 0..BackoffMax]
  <2> SUFFICES ASSUME NEW m \in Managers
               PROVE  /\ MinOf(age[m] + 1, ResetAfter) \in 0..ResetAfter
                      /\ MinOf(waited[m] + 1, BackoffMax) \in 0..BackoffMax
    BY <1>1
  <2>1. age[m] \in 0..ResetAfter /\ waited[m] \in 0..BackoffMax
    BY DEF TypeOK
  <2> QED
    BY <2>1, SupervisorAssumption DEF MinOf
<1>3. wait' \in [Managers -> Idle..BackoffMax]
  <2> SUFFICES ASSUME NEW m \in Managers
               PROVE  (IF wait[m] > 0 THEN wait[m] - 1 ELSE wait[m]) \in Idle..BackoffMax
    BY <1>1
  <2>1. wait[m] \in Idle..BackoffMax
    BY DEF TypeOK
  <2> QED
    BY <2>1, SupervisorAssumption DEF Idle
<1>4. indexerUp' \in BOOLEAN /\ spent' \in [Bounds -> Nat]
  <2>1. \/ UNCHANGED <<indexerUp, spent>>
        \/ indexerUp' = TRUE /\ UNCHANGED spent
        \/ Spend("outage", MaxOutage) /\ UNCHANGED indexerUp
    BY Zenon DEF Tick
  <2>2. Spend("outage", MaxOutage) => spent' \in [Bounds -> Nat]
    BY SpendTyped DEF Bounds
  <2> QED
    BY <2>1, <2>2 DEF TypeOK
<1>5. pc' \in {"check", "put", "sleep", "exited"} /\ turn' \in Managers
  <2>1. (pc' = "check" /\ turn' = 1) \/ UNCHANGED <<pc, turn>>
    BY Zenon DEF Tick
  <2>2. 1 \in Managers
    BY SupervisorAssumption DEF Managers
  <2> QED
    BY <2>1, <2>2 DEF TypeOK
<1> QED
  BY <1>1, <1>2, <1>3, <1>4, <1>5 DEF TypeOK

LEMMA StepTypes == TypeOK /\ [Next]_vars => TypeOK'
<1> SUFFICES ASSUME TypeOK, [Next]_vars PROVE TypeOK'
  OBVIOUS
<1>1. CASE PutHeartbeat
  <2>1. queue' \in [Managers -> 0..QueueSize]
    <3>1. queue' = [queue EXCEPT ![turn] = @ + 1] /\ queue[turn] < QueueSize
      BY <1>1 DEF PutHeartbeat
    <3>2. turn \in Managers /\ queue \in [Managers -> 0..QueueSize]
      BY DEF TypeOK
    <3>3. queue[turn] + 1 \in 0..QueueSize
      BY <3>1, <3>2, SupervisorAssumption
    <3> QED
      BY <3>1, <3>2, <3>3
  <2>2. turn' \in Managers /\ pc' \in {"check", "sleep"}
    <3>1. \/ turn < NumManagers /\ pc' = "check" /\ turn' = turn + 1
          \/ pc' = "sleep" /\ turn' = turn
      BY <1>1 DEF PutHeartbeat
    <3>2. turn \in 1..NumManagers
      BY DEF TypeOK, Managers
    <3> QED
      BY <3>1, <3>2, SupervisorAssumption DEF Managers
  <2> QED
    BY <1>1, <2>1, <2>2 DEF PutHeartbeat, TypeOK, pluginVars
<1>2. CASE Interrupt
  <2>1. spent' \in [Bounds -> Nat] /\ plugin' \in [Managers -> {"alive", "exited", "none"}]
        /\ sender' \in [Managers -> {"alive", "dead"}]
    BY <1>2, SpendTyped DEF Interrupt, TypeOK, Bounds
  <2> QED
    BY <1>2, <2>1 DEF Interrupt, TypeOK
<1>3. CASE IndexerGoes
  BY <1>3, SpendTyped DEF IndexerGoes, TypeOK, pluginVars, Bounds
<1>4. ASSUME NEW m \in Managers, PluginExits(m) PROVE TypeOK'
  BY <1>4, SpendTyped DEF PluginExits, TypeOK, Bounds
<1>5. ASSUME NEW m \in Managers, PluginPuts(m) PROVE TypeOK'
  <2>1. queue' \in [Managers -> 0..QueueSize]
    <3>1. queue' = [queue EXCEPT ![m] = @ + 1] /\ queue[m] < QueueSize
      BY <1>5 DEF PluginPuts
    <3>2. queue \in [Managers -> 0..QueueSize] /\ queue[m] \in 0..QueueSize
      BY DEF TypeOK
    <3>3. queue[m] + 1 \in 0..QueueSize
      BY <3>1, <3>2, SupervisorAssumption
    <3> QED
      BY <3>1, <3>2, <3>3
  <2> QED
    BY <1>5, <2>1, SpendTyped DEF PluginPuts, TypeOK, pluginVars, Bounds
<1>6. ASSUME NEW m \in Managers, SenderTakes(m) PROVE TypeOK'
  <2>1. queue' \in [Managers -> 0..QueueSize]
    <3>1. PICK n \in 1..queue[m] : queue' = [queue EXCEPT ![m] = @ - n]
      BY <1>6 DEF SenderTakes
    <3>2. queue[m] \in 0..QueueSize
      BY DEF TypeOK
    <3>3. queue[m] - n \in 0..QueueSize
      BY <3>1, <3>2, SupervisorAssumption
    <3> QED
      BY <3>1, <3>3 DEF TypeOK
  <2> QED
    BY <1>6, <2>1 DEF SenderTakes, TypeOK, pluginVars
<1>7. ASSUME NEW m \in Managers, SenderGivesUp(m) PROVE TypeOK'
  BY <1>7 DEF SenderGivesUp, TypeOK, pluginVars
<1>8. CASE UNCHANGED vars
  BY <1>8 DEF vars, TypeOK
<1> QED
  BY <1>1, <1>2, <1>3, <1>4, <1>5, <1>6, <1>7, <1>8, CheckTypes, TickTypes DEF Next, AgentStep

\* Queues keep to their capacity and backoffs to their range, whatever the
\* limits and the failures (agent.py, check_and_restart).
THEOREM CountersInRange == Spec => []TypeOK
BY InitTypes, StepTypes, PTL DEF Spec

-----------------------------------------------------------------------------
(* Which plugins are given up *)

\* A step that does not touch m but for the time left to its restart.
LEMMA ForgottenStays ==
  ASSUME TypeOK, TypeOK', NeverForgotten, pc # "exited", NEW m \in Managers,
         spent'["startFailure"] >= spent["startFailure"], attempts'[m] = attempts[m],
         plugin'[m] = "none" => plugin[m] = "none", wait'[m] = Idle => wait[m] = Idle,
         plugin'[m] = "none", wait'[m] = Idle
  PROVE  StartRefused' \/ (RestartLimit[m] # Unlimited /\ attempts'[m] >= RestartLimit[m])
<1>1. spent["startFailure"] \in Nat /\ spent'["startFailure"] \in Nat
  BY DEF TypeOK, Bounds
<1> QED
  BY <1>1 DEF NeverForgotten, StartRefused

LEMMA ForgottenStep == TypeOK /\ TypeOK' /\ NeverForgotten /\ [Next]_vars => NeverForgotten'
<1> SUFFICES ASSUME TypeOK, TypeOK', NeverForgotten, [Next]_vars, NEW m \in Managers,
                    plugin'[m] = "none", wait'[m] = Idle, pc' # "exited"
             PROVE  StartRefused' \/ (RestartLimit[m] # Unlimited /\ attempts'[m] >= RestartLimit[m])
  BY DEF NeverForgotten
<1>t. /\ plugin \in [Managers -> {"alive", "exited", "none"}] /\ attempts \in [Managers -> Nat]
      /\ wait \in [Managers -> Idle..BackoffMax] /\ spent \in [Bounds -> Nat] /\ spent' \in [Bounds -> Nat]
      /\ turn \in Managers
  BY DEF TypeOK
<1>s. ASSUME NEW b \in Bounds, NEW limit, Spend(b, limit) PROVE spent'["startFailure"] >= spent["startFailure"]
  BY <1>s, SpendTyped DEF Bounds
<1>u. spent' = spent => spent'["startFailure"] >= spent["startFailure"]
  BY <1>t DEF Bounds
<1>1. CASE CheckLeaves
  <2>1. pc # "exited" /\ spent'["startFailure"] >= spent["startFailure"]
    BY <1>1, SenderTyped DEF CheckLeaves, Bounds
  <2>2. CASE m # turn
    <3>1. plugin'[m] = plugin[m] /\ wait'[m] = wait[m] /\ attempts'[m] = attempts[m]
      BY <1>1, <1>t, <2>2 DEF CheckLeaves
    <3> QED
      BY <2>1, <3>1, ForgottenStays
  <2>3. CASE m = turn /\ ~Noticed(m)
    <3>1. plugin'[m] = plugin[m] /\ wait'[m] = wait[m] /\ attempts'[m] = attempts[m]
      BY <1>1, <1>t, <2>3 DEF CheckLeaves, Due, Attempts, StayedUp
    <3> QED
      BY <2>1, <3>1, ForgottenStays
  <2>4. CASE m = turn /\ Noticed(m)
    <3>1. attempts'[m] = Attempts(m) /\ Due(m) = Idle
      BY <1>1, <1>t, <2>4 DEF CheckLeaves
    <3>2. LimitReached(m)
      BY <2>4, <3>1, CheckTyped
    <3> QED
      BY <3>1, <3>2 DEF LimitReached
  <2> QED
    BY <2>2, <2>3, <2>4
<1>2. CASE CheckRestarts
  <2>1. pc # "exited" /\ spent'["startFailure"] >= spent["startFailure"]
    BY <1>2, SenderTyped DEF CheckRestarts, Bounds
  <2>2. m # turn /\ plugin'[m] = plugin[m] /\ wait'[m] = wait[m] /\ attempts'[m] = attempts[m]
    BY <1>2, <1>t DEF CheckRestarts
  <2> QED
    BY <2>1, <2>2, ForgottenStays
<1>3. CASE CheckFails
  <2>1. spent'["startFailure"] > 0
    BY <1>3, SpendTyped DEF CheckFails, Bounds
  <2> QED
    BY <2>1 DEF StartRefused
<1>4. CASE Tick
  <2>1. /\ plugin'[m] = plugin[m] /\ attempts'[m] = attempts[m] /\ pc # "exited"
        /\ wait'[m] = IF wait[m] > 0 THEN wait[m] - 1 ELSE wait[m]
    BY <1>4 DEF Tick
  <2>2. wait[m] = Idle
    BY <1>t, <2>1 DEF Idle
  <2>3. spent'["startFailure"] >= spent["startFailure"]
    BY <1>4, <1>s, <1>u DEF Tick, Bounds
  <2> QED
    BY <2>1, <2>2, <2>3, ForgottenStays
<1>5. CASE PutHeartbeat \/ IndexerGoes
  <2>1. /\ plugin'[m] = plugin[m] /\ attempts'[m] = attempts[m] /\ wait'[m] = wait[m] /\ pc # "exited"
        /\ spent'["startFailure"] >= spent["startFailure"]
    BY <1>5, <1>s, <1>u DEF PutHeartbeat, IndexerGoes, pluginVars, Bounds
  <2> QED
    BY <2>1, ForgottenStays
<1>6. CASE Interrupt
  BY <1>6 DEF Interrupt
<1>7. ASSUME NEW k \in Managers, PluginExits(k) \/ PluginPuts(k) \/ SenderTakes(k) \/ SenderGivesUp(k)
      PROVE  StartRefused' \/ (RestartLimit[m] # Unlimited /\ attempts'[m] >= RestartLimit[m])
  <2>1. /\ plugin'[m] = "none" => plugin[m] = "none"
        /\ attempts'[m] = attempts[m] /\ wait'[m] = wait[m] /\ pc' = pc
        /\ spent'["startFailure"] >= spent["startFailure"]
    BY <1>t, <1>7, <1>s, <1>u DEF PluginExits, PluginPuts, SenderTakes, SenderGivesUp, pluginVars, Bounds
  <2> QED
    BY <2>1, ForgottenStays
<1>8. CASE UNCHANGED vars
  BY <1>8, <1>u, ForgottenStays DEF vars
<1> QED
  BY <1>1, <1>2, <1>3, <1>4, <1>5, <1>6, <1>7, <1>8 DEF Next, AgentStep

\* Unless a start is refused, the agent loses track of no plugin: one that is
\* down is noticed, waits for its restart or has used up its restarts
\* (check_and_restart).
THEOREM NoneForgotten == Spec => []NeverForgotten
<1>1. Init => NeverForgotten
  BY DEF Init, NeverForgotten
<1> QED
  BY <1>1, CountersInRange, ForgottenStep, PTL DEF Spec
=============================================================================
