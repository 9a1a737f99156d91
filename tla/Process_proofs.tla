---------------------------- MODULE Process_proofs ----------------------------
(***************************************************************************)
(* Types of the steps of one object, for any constants: what ProcessAPI    *)
(* and Daemon have in common.                                              *)
(***************************************************************************)
EXTENDS Process, TLAPS

LEMMA GensType == Gens \subseteq 0 .. MaxGen /\ Gens \subseteq Nat
  BY ProcessAssumption DEF Gens

\* The arithmetic of the two counters stays within their types.
LEMMA CountersType ==
    /\ \A d \in Seconds : NextBackoff(d) \in Seconds
    /\ \A n \in 0 .. RestartCap : CountUp(n) \in 0 .. RestartCap
    /\ InitialBackoff \in Seconds
  BY ProcessAssumption DEF Seconds, NextBackoff, CountUp

\* The types of 0, the nil of the numbered fields.
LEMMA ZeroType == 0 \in 0 .. MaxGen /\ 0 \in 0 .. RestartCap
  BY ProcessAssumption

\* Setting one cell of a variable that is indexed by object and generation.
LEMMA CellType ==
    ASSUME NEW S, NEW f \in [Procs -> [Gens -> S]],
           NEW p \in Procs, NEW g \in Gens, NEW v \in S
    PROVE  [f EXCEPT ![p][g] = v] \in [Procs -> [Gens -> S]]
  OBVIOUS

LEMMA NewProcessesType == NewProcesses => ProcessTypeOK
<1> SUFFICES ASSUME NewProcesses PROVE ProcessTypeOK
  OBVIOUS
<1> USE ZeroType, CountersType DEF NewProcesses
<1>1. \A S : \A v \in S : NoLoop(v) \in [Procs -> [Gens -> S]]
  BY DEF NoLoop
<1>2. state \in [Procs -> States]
  BY DEF NewState, States
<1> QED
  BY <1>1, <1>2 DEF ProcessTypeOK, Points

LEMMA FailureType ==
    ASSUME ProcessTypeOK, NEW p \in Procs, NEW g \in Gens, Failure(p, g)
    PROVE  /\ state' \in [Procs -> States]
           /\ restarts' \in [Procs -> 0 .. RestartCap]
           /\ wake' \in [Procs -> 0 .. MaxGen]
           /\ woken' \in [Procs -> [Gens -> BOOLEAN]]
           /\ retry' \in [Procs -> [Gens -> BOOLEAN]]
           /\ pc' \in [Procs -> [Gens -> Points]]
<1> USE DEF ProcessTypeOK
<1>1. restarts' \in [Procs -> 0 .. RestartCap]
  BY CountersType DEF Failure
<1>2. retry' \in [Procs -> [Gens -> BOOLEAN]]
  BY CellType DEF Failure
<1>3. CASE beginBackoffLocked(p, g)
  BY <1>1, <1>2, <1>3, CellType, GensType DEF beginBackoffLocked, Goto, States, Points
<1>4. CASE ~beginBackoffLocked(p, g)
  <2>1. /\ state' = [state EXCEPT ![p] = "failed"]
        /\ pc' = [pc EXCEPT ![p][g] = "return"]
        /\ UNCHANGED <<wake, woken>>
    BY <1>4 DEF Failure, Goto
  <2>2. pc' \in [Procs -> [Gens -> Points]]
    BY <2>1, CellType DEF Points
  <2> QED
    BY <1>1, <1>2, <2>1, <2>2 DEF States
<1> QED
  BY <1>3, <1>4

LEMMA StartType ==
    ASSUME ProcessTypeOK, NEW p \in Procs, Start(p)
    PROVE  ProcessTypeOK'
<1> USE GensType DEF ProcessTypeOK, Goto, States, Points
<1>1. gen[p] + 1 \in Gens
  BY ProcessAssumption DEF Start, startLocked, Gens
<1>2. pc' \in [Procs -> [Gens -> Points]]
  BY <1>1, CellType DEF Start, startLocked
<1> QED
  BY <1>1, <1>2, ZeroType DEF Start, startLocked

LEMMA ForceWaitType ==
    ASSUME ProcessTypeOK, NEW p \in Procs, ForceWait(p)
    PROVE  ProcessTypeOK'
<1> USE GensType DEF ProcessTypeOK
<1>1. wake[p] \in Gens
  BY ProcessAssumption DEF ForceWait, Gens
<1>2. woken' \in [Procs -> [Gens -> BOOLEAN]]
  BY <1>1, CellType DEF ForceWait
<1> QED
  BY <1>2, ZeroType DEF ForceWait

LEMMA CancelType ==
    ASSUME ProcessTypeOK, NEW p \in Procs, NEW h \in 0 .. MaxGen, Cancel(p, h)
    PROVE  ProcessTypeOK'
  BY DEF ProcessTypeOK, Cancel, fieldVars

LEMMA LoopType ==
    ASSUME ProcessTypeOK, NEW p \in Procs, NEW g \in Gens, runLoop(p, g)
    PROVE  ProcessTypeOK'
<1> USE GensType DEF ProcessTypeOK, Goto, States, Points, fieldVars
<1>1. CASE Begin(p, g)
  BY <1>1 DEF Begin
<1>2. CASE Launch(p, g)
  BY <1>2 DEF Launch
<1>3. CASE LaunchFails(p, g)
  BY <1>3, FailureType DEF LaunchFails
<1>4. CASE MarkRunning(p, g)
  BY <1>4 DEF MarkRunning
<1>5. CASE Reap(p, g)
  BY <1>5, ProcessAssumption DEF Reap
<1>6. CASE KillChild(p, g)
  <2>1. alive' \in [Procs -> [Gens -> BOOLEAN]]
    <3>1. alive' = [alive EXCEPT ![p][g] = FALSE] \/ alive' = alive
      BY <1>6 DEF KillChild
    <3>2. [alive EXCEPT ![p][g] = FALSE] \in [Procs -> [Gens -> BOOLEAN]]
      BY CellType
    <3> QED
      BY <3>1, <3>2
  <2> QED
    BY <1>6, <2>1 DEF KillChild
<1>7. CASE AwaitExit(p, g)
  BY <1>7 DEF AwaitExit
<1>8. CASE BeginInterval(p, g)
  <2>1. retry' \in [Procs -> [Gens -> BOOLEAN]] /\ woken' \in [Procs -> [Gens -> BOOLEAN]]
    BY <1>8, CellType DEF BeginInterval, beginBackoffLocked
  <2> QED
    BY <1>8, <2>1 DEF BeginInterval, beginBackoffLocked
<1>9. CASE ResetHealthy(p, g)
  BY <1>9, ProcessAssumption, CountersType DEF ResetHealthy
<1>10. CASE AccountExit(p, g)
  BY <1>10, FailureType DEF AccountExit
<1>11. CASE WaitReturns(p, g)
  BY <1>11 DEF WaitReturns
<1>12. CASE ClearWake(p, g)
  <2>1. \A d \in Seconds : NextBackoff(d) \in Seconds
    BY CountersType
  <2>2. /\ backoff' \in [Procs -> [Gens -> Seconds]]
        /\ pc' \in [Procs -> [Gens -> Points]]
    <3>1. CASE pc[p][g] = "unwind"
      <4>1. pc' = [pc EXCEPT ![p][g] = "return"] /\ backoff' = backoff
        BY <1>12, <3>1 DEF ClearWake
      <4> QED
        BY <4>1, CellType
    <3>2. CASE pc[p][g] = "resume"
      <4> DEFINE b == IF retry[p][g] THEN NextBackoff(backoff[p][g]) ELSE backoff[p][g]
      <4>1. b \in Seconds /\ backoff' = [backoff EXCEPT ![p][g] = b]
        BY <1>12, <3>2, <2>1 DEF ClearWake
      <4>2. pc' = [pc EXCEPT ![p][g] = "begin"]
        BY <1>12, <3>2 DEF ClearWake
      <4> HIDE DEF b
      <4> QED
        BY <4>1, <4>2, CellType
    <3> QED
      BY <1>12, <3>1, <3>2 DEF ClearWake
  <2>3. wake' \in [Procs -> 0 .. MaxGen]
    BY <1>12, ZeroType DEF ClearWake
  <2> QED
    BY <1>12, <2>2, <2>3 DEF ClearWake
<1>13. CASE Cleanup(p, g)
  <2>1. /\ state' \in [Procs -> States]
        /\ pid' \in [Procs -> 0 .. MaxGen]
        /\ handle' \in [Procs -> 0 .. MaxGen]
        /\ wake' \in [Procs -> 0 .. MaxGen]
    <3>1. CASE gen[p] = g
      <4>1. state' \in [Procs -> States]
        <5> DEFINE v == IF state[p] = "failed" THEN state[p] ELSE NewState(enabled[p])
        <5>1. v \in States
          BY DEF NewState
        <5>2. state' = [state EXCEPT ![p] = v]
          BY <1>13, <3>1 DEF Cleanup
        <5> QED
          BY <5>1, <5>2
      <4>2. /\ pid' = [pid EXCEPT ![p] = 0]
            /\ handle' = [handle EXCEPT ![p] = 0]
            /\ wake' = [wake EXCEPT ![p] = 0]
        BY <1>13, <3>1 DEF Cleanup
      <4> QED
        BY <4>1, <4>2, ZeroType
    <3>2. CASE gen[p] # g
      BY <1>13, <3>2 DEF Cleanup
    <3> QED
      BY <3>1, <3>2
  <2>2. /\ backoff' \in [Procs -> [Gens -> Seconds]]
        /\ retry' \in [Procs -> [Gens -> BOOLEAN]]
        /\ woken' \in [Procs -> [Gens -> BOOLEAN]]
        /\ pc' \in [Procs -> [Gens -> Points]]
    BY <1>13, CountersType, CellType DEF Cleanup
  <2> QED
    BY <1>13, <2>1, <2>2 DEF Cleanup
<1>14. CASE ChildExits(p, g)
  BY <1>14 DEF ChildExits
<1> QED
  BY <1>1, <1>2, <1>3, <1>4, <1>5, <1>6, <1>7, <1>8, <1>9, <1>10, <1>11,
     <1>12, <1>13, <1>14
  DEF runLoop, Scheduled, WaitSignalled

(***************************************************************************)
(* The fields and the goroutines of an object, kept in agreement by every  *)
(* step of it.                                                             *)
(***************************************************************************)

\* An object that none of its variables changed for keeps its invariant.
LEMMA Frame ==
    ASSUME NEW q \in Procs, LoopInv(q),
           state'[q] = state[q], pid'[q] = pid[q], gen'[q] = gen[q],
           handle'[q] = handle[q], wake'[q] = wake[q], pc'[q] = pc[q],
           woken'[q] = woken[q], alive'[q] = alive[q]
    PROVE  LoopInv(q)'
  BY DEF LoopInv, FieldsAgree, AtRest

\* A generation that is neither idle nor done is the latest one.
LEMMA Latest ==
    ASSUME ObjectsInv, NEW p \in Procs, NEW g \in Gens,
           pc[p][g] \notin {"idle", "return", "ended"}
    PROVE  gen[p] = g /\ FieldsAgree(p, g)
  BY GensType DEF ObjectsInv, ProcessTypeOK, LoopInv, Gens

\* A step of the latest generation g keeps the invariant of p when the fields
\* agree with its new place.
LEMMA LatestStep ==
    ASSUME ObjectsInv, NEW p \in Procs, NEW g \in Gens, gen[p] = g, gen'[p] = g,
           \A h \in Gens : h # g => pc'[p][h] = pc[p][h] /\ alive'[p][h] = alive[p][h],
           FieldsAgree(p, g)', alive'[p][g] => pc'[p][g] \in Live
    PROVE  LoopInv(p)'
<1>1. g # 0
  BY DEF Gens
<1>2. FieldsAgree(p, gen[p])'
  OBVIOUS
<1>3. \A h \in Gens : /\ h > g => pc'[p][h] = "idle"
                      /\ h < g => pc'[p][h] \in {"return", "ended"}
                      /\ alive'[p][h] => pc'[p][h] \in Live
  BY GensType DEF ObjectsInv, LoopInv
<1> QED
  BY <1>1, <1>2, <1>3 DEF LoopInv

LEMMA FailureInv ==
    ASSUME ObjectsInv, NEW p \in Procs, NEW g \in Gens,
           pc[p][g] \in {"launch", "exited", "account"},
           Failure(p, g), UNCHANGED <<pid, gen, handle, alive>>
    PROVE  \A q \in Procs : LoopInv(q)'
<1>1. gen[p] = g /\ FieldsAgree(p, g)
  BY Latest
<1> USE DEF ObjectsInv, ProcessTypeOK
<1>2. \/ /\ state' = [state EXCEPT ![p] = "failed"]
         /\ pc' = [pc EXCEPT ![p][g] = "return"]
         /\ UNCHANGED <<wake, woken>>
      \/ /\ state' = [state EXCEPT ![p] = "backoff"]
         /\ wake' = [wake EXCEPT ![p] = g]
         /\ woken' = [woken EXCEPT ![p][g] = FALSE]
         /\ pc' = [pc EXCEPT ![p][g] = "wait"]
  <2>1. CASE beginBackoffLocked(p, g)
    BY <2>1 DEF beginBackoffLocked, Goto
  <2>2. CASE ~beginBackoffLocked(p, g)
    BY <2>2 DEF Failure, Goto
  <2> QED
    BY <2>1, <2>2
<1>3. ASSUME NEW q \in Procs, q # p PROVE LoopInv(q)'
  <2>1. /\ state'[q] = state[q] /\ pc'[q] = pc[q]
        /\ wake'[q] = wake[q] /\ woken'[q] = woken[q]
    BY <1>2, <1>3
  <2> QED
    BY <2>1, <1>3, Frame
<1>4. LoopInv(p)'
  <2>1. pid[p] = 0 /\ wake[p] = 0 /\ ~alive[p][g] /\ handle[p] = g
    BY <1>1 DEF LoopInv, FieldsAgree, Live, Waiting
  <2>2. g \in 0 .. MaxGen
    BY GensType
  <2>3. FieldsAgree(p, g)'
    BY <1>2, <2>1, <2>2 DEF FieldsAgree, Waiting
  <2>4. \A h \in Gens : h # g => pc'[p][h] = pc[p][h] /\ alive'[p][h] = alive[p][h]
    BY <1>2
  <2> QED
    BY <1>1, <2>1, <2>3, <2>4, LatestStep
<1> QED
  BY <1>3, <1>4

LEMMA StartInv ==
    ASSUME ObjectsInv, NEW p \in Procs, Start(p)
    PROVE  \A q \in Procs : LoopInv(q)'
<1> USE DEF ObjectsInv, ProcessTypeOK
<1>0. PICK n : n = gen[p] + 1
  OBVIOUS
<1>1. n \in Gens /\ n # 0 /\ gen[p] \in Nat
  BY <1>0, ProcessAssumption DEF Start, startLocked, Gens
<1>2. /\ state' = [state EXCEPT ![p] = "starting"]
      /\ gen' = [gen EXCEPT ![p] = n]
      /\ handle' = [handle EXCEPT ![p] = n]
      /\ pc' = [pc EXCEPT ![p][n] = "begin"]
      /\ UNCHANGED <<pid, wake, woken, alive>>
  BY <1>0 DEF Start, startLocked, Goto
<1>3. ASSUME NEW q \in Procs, q # p PROVE LoopInv(q)'
  BY <1>2, <1>3, Frame
<1>4. LoopInv(p)'
  <2>1. state[p] \in {"stopped", "disabled", "failed"}
    BY DEF Start, Active, States
  <2>2. pid[p] = 0 /\ wake[p] = 0
    BY <1>1, <2>1, ProcessAssumption DEF LoopInv, FieldsAgree, AtRest, Waiting, Gens
  <2>3. gen[p] # 0 => pc[p][gen[p]] \in {"return", "ended"}
    <3> SUFFICES ASSUME gen[p] # 0 PROVE pc[p][gen[p]] \in {"return", "ended"}
      OBVIOUS
    <3>1. pc[p][gen[p]] \in Points
      BY <1>1, ProcessAssumption DEF Gens
    <3>2. FieldsAgree(p, gen[p])
      BY DEF LoopInv
    <3> QED
      BY <2>1, <3>1, <3>2 DEF FieldsAgree, Waiting, Points
  <2>4. /\ pc'[p][n] = "begin" /\ state'[p] = "starting" /\ gen'[p] = n
        /\ handle'[p] = n /\ pid'[p] = 0 /\ wake'[p] = 0 /\ alive' = alive
        /\ \A h \in Gens : h # n => pc'[p][h] = pc[p][h]
    BY <1>1, <1>2, <2>2, GensType
  <2>5. LoopInv(p)
    OBVIOUS
  <2> HIDE DEF ObjectsInv, ProcessTypeOK
  <2>6. \A h \in Gens : /\ h > n => pc[p][h] = "idle"
                        /\ h < n => pc[p][h] \in {"return", "ended"}
                        /\ ~alive[p][h]
    <3> SUFFICES ASSUME NEW h \in Gens
                 PROVE  /\ h > n => pc[p][h] = "idle"
                        /\ h < n => pc[p][h] \in {"return", "ended"}
                        /\ ~alive[p][h]
      OBVIOUS
    <3>1. h \in Nat /\ gen[p] \in Nat
      BY <1>1, GensType
    <3>2. CASE h > gen[p]
      BY <1>0, <2>5, <3>1, <3>2 DEF LoopInv, Live
    <3>3. CASE h < gen[p]
      BY <1>0, <2>5, <3>1, <3>3 DEF LoopInv, Live
    <3>4. CASE h = gen[p]
      <4>1. h # 0
        BY DEF Gens
      <4> QED
        BY <1>0, <2>3, <2>5, <3>1, <3>4, <4>1 DEF LoopInv, Live
    <3> QED
      BY <1>0, <3>1, <3>2, <3>3, <3>4
  <2>7. FieldsAgree(p, n)'
    BY <2>4 DEF FieldsAgree, Waiting
  <2>8. FieldsAgree(p, gen[p])'
    BY <2>4, <2>7
  <2>9. \A h \in Gens : /\ h > n => pc'[p][h] = "idle"
                        /\ h < n => pc'[p][h] \in {"return", "ended"}
                        /\ alive'[p][h] => pc'[p][h] \in Live
    <3>1. n \in Nat
      BY <1>1, GensType
    <3> QED
      BY <2>4, <2>6, <3>1, GensType
  <2> QED
    BY <1>1, <2>4, <2>8, <2>9 DEF LoopInv
<1> QED
  BY <1>3, <1>4

LEMMA ForceWaitInv ==
    ASSUME ObjectsInv, NEW p \in Procs, ForceWait(p)
    PROVE  \A q \in Procs : LoopInv(q)'
<1> USE DEF ObjectsInv, ProcessTypeOK
<1>1. /\ gen[p] \in Gens /\ wake[p] = gen[p]
      /\ FieldsAgree(p, gen[p]) /\ LoopInv(p)
  BY ProcessAssumption DEF ForceWait, LoopInv, FieldsAgree, AtRest, Gens
<1>2. /\ woken' = [woken EXCEPT ![p][gen[p]] = TRUE]
      /\ wake' = [wake EXCEPT ![p] = 0]
      /\ UNCHANGED <<state, pid, gen, handle, pc, alive>>
  BY <1>1 DEF ForceWait
<1>3. ASSUME NEW q \in Procs, q # p PROVE LoopInv(q)'
  BY <1>2, <1>3, Frame
<1>4. wake'[p] = 0
  BY <1>2
<1>5. LoopInv(p)'
  BY <1>1, <1>2, <1>4 DEF LoopInv, FieldsAgree, AtRest
<1> QED
  BY <1>3, <1>5

LEMMA CleanupInv ==
    ASSUME ObjectsInv, NEW p \in Procs, NEW g \in Gens, Cleanup(p, g)
    PROVE  \A q \in Procs : LoopInv(q)'
<1> USE DEF ObjectsInv, ProcessTypeOK
<1>1. /\ pc[p][g] = "return"
      /\ pc' = [pc EXCEPT ![p][g] = "ended"]
      /\ woken' = [woken EXCEPT ![p][g] = FALSE]
      /\ UNCHANGED <<gen, alive>>
  BY DEF Cleanup, Goto
<1>2. LoopInv(p) /\ gen[p] \in Nat /\ g \in Nat /\ g # 0
  BY GensType DEF Gens
<1>3. ASSUME NEW q \in Procs, q # p PROVE LoopInv(q)'
  <2>1. /\ state'[q] = state[q] /\ pid'[q] = pid[q]
        /\ handle'[q] = handle[q] /\ wake'[q] = wake[q]
    BY <1>3 DEF Cleanup
  <2> QED
    BY <1>1, <1>3, <2>1, Frame
<1>4. CASE gen[p] = g
  <2>1. FieldsAgree(p, g)
    BY <1>2, <1>4 DEF LoopInv
  <2>2. /\ state' = [state EXCEPT ![p] =
                        IF @ = "failed" THEN @ ELSE NewState(enabled[p])]
        /\ pid' = [pid EXCEPT ![p] = 0]
        /\ handle' = [handle EXCEPT ![p] = 0]
        /\ wake' = [wake EXCEPT ![p] = 0]
    BY <1>4 DEF Cleanup
  <2>3. AtRest(p)' /\ pc'[p][g] = "ended" /\ ~alive[p][g]
    BY <1>1, <1>2, <2>2 DEF AtRest, NewState, Active, LoopInv, Live
  <2>4. FieldsAgree(p, g)'
    BY <2>3 DEF FieldsAgree, AtRest, Waiting
  <2>5. \A h \in Gens : h # g => pc'[p][h] = pc[p][h] /\ alive'[p][h] = alive[p][h]
    BY <1>1
  <2>6. gen'[p] = g /\ alive' = alive
    BY <1>1, <1>4
  <2> HIDE DEF ObjectsInv, ProcessTypeOK
  <2>7. LoopInv(p)'
    BY <1>4, <2>3, <2>4, <2>5, <2>6, LatestStep
  <2> QED
    BY <1>3, <2>7
<1>5. CASE gen[p] # g
  <2>1. UNCHANGED <<state, pid, handle, wake>>
    BY <1>5 DEF Cleanup
  <2>2. PICK n \in Nat : n = gen[p]
    BY <1>2
  <2>3. \A h \in Gens : h # g => pc'[p][h] = pc[p][h] /\ woken'[p][h] = woken[p][h]
    BY <1>1
  <2>4. pc'[p][g] = "ended" /\ gen'[p] = n /\ alive' = alive
    BY <1>1, <2>2
  <2>5. n # 0 => n \in Gens
    BY <2>2, ProcessAssumption DEF Gens
  <2>6. g < n /\ ~alive[p][g]
    <3>1. g > n => pc[p][g] = "idle"
      BY <1>2, <2>2 DEF LoopInv
    <3>2. ~(g > n)
      BY <1>1, <3>1
    <3>3. alive[p][g] => pc[p][g] \in Live
      BY <1>2 DEF LoopInv
    <3>4. g < n
      <4>1. n # g /\ n \in Nat /\ g \in Nat
        BY <1>2, <1>5, <2>2
      <4> HIDE DEF ObjectsInv, ProcessTypeOK
      <4> QED
        BY <3>2, <4>1
    <3>5. ~alive[p][g]
      BY <1>1, <3>3 DEF Live
    <3> QED
      BY <3>4, <3>5
  <2> HIDE DEF ObjectsInv, ProcessTypeOK
  <2>7. n # 0 => FieldsAgree(p, n)'
    <3> SUFFICES ASSUME n # 0 PROVE FieldsAgree(p, n)'
      OBVIOUS
    <3>1. FieldsAgree(p, n)
      BY <1>2, <2>2 DEF LoopInv
    <3>2. pc'[p][n] = pc[p][n] /\ woken'[p][n] = woken[p][n]
      BY <1>5, <2>2, <2>3, <2>5
    <3> QED
      BY <2>1, <3>1, <3>2 DEF FieldsAgree, AtRest
  <2>8. \A h \in Gens : /\ h > n => pc'[p][h] = "idle"
                        /\ h < n => pc'[p][h] \in {"return", "ended"}
                        /\ alive'[p][h] => pc'[p][h] \in Live
    BY <1>2, <2>2, <2>3, <2>4, <2>6, GensType DEF LoopInv
  <2>9. n = 0 => AtRest(p)'
    BY <1>2, <2>1, <2>2 DEF LoopInv, AtRest
  <2>10. LoopInv(p)'
    BY <2>4, <2>7, <2>8, <2>9 DEF LoopInv
  <2> QED
    BY <1>3, <2>10
<1> QED
  BY <1>4, <1>5

LEMMA LoopStepInv ==
    ASSUME ObjectsInv, NEW p \in Procs, NEW g \in Gens, runLoop(p, g)
    PROVE  \A q \in Procs : LoopInv(q)'
<1>1. g \in 0 .. MaxGen /\ g # 0
  BY GensType DEF Gens
<1>2. pc[p][g] \notin {"idle", "return", "ended"} => gen[p] = g /\ FieldsAgree(p, g)
  BY Latest
<1>3. LoopInv(p)
  BY DEF ObjectsInv
<1> USE DEF Goto
<1>4. CASE LaunchFails(p, g)
  BY <1>4, FailureInv DEF LaunchFails
<1>5. CASE AccountExit(p, g)
  BY <1>5, FailureInv DEF AccountExit
<1>6. CASE Cleanup(p, g)
  BY <1>6, CleanupInv
\* What is left: one step of the latest generation that moves no other object.
<1> DEFINE Moves(l) ==
        /\ gen[p] = g /\ FieldsAgree(p, g)
        /\ FieldsAgree(p, g)'
        /\ pc' = [pc EXCEPT ![p][g] = l]
        /\ alive'[p][g] => l \in Live
        /\ \A h \in Gens : h # g => alive'[p][h] = alive[p][h]
        /\ gen' = gen
        /\ \A q \in Procs : q # p =>
              /\ state'[q] = state[q] /\ pid'[q] = pid[q]
              /\ handle'[q] = handle[q] /\ wake'[q] = wake[q]
              /\ woken'[q] = woken[q] /\ alive'[q] = alive[q]
<1>7. ASSUME NEW l, Moves(l) PROVE \A q \in Procs : LoopInv(q)'
  <2>1. pc'[p][g] = l /\ \A h \in Gens : h # g => pc'[p][h] = pc[p][h]
    BY <1>7 DEF ObjectsInv, ProcessTypeOK
  <2>2. \A q \in Procs : q # p => pc'[q] = pc[q]
    BY <1>7 DEF ObjectsInv, ProcessTypeOK
  <2>3. LoopInv(p)'
    BY <1>7, <2>1, LatestStep
  <2>4. ASSUME NEW q \in Procs, q # p PROVE LoopInv(q)'
    BY <1>7, <2>2, <2>4, Frame DEF ObjectsInv
  <2> QED
    BY <2>3, <2>4
<1> HIDE DEF Moves
<1> USE DEF ObjectsInv, ProcessTypeOK
<1>8. CASE Begin(p, g)
  <2>1. FieldsAgree(p, g)'
    BY <1>1, <1>2, <1>8 DEF Begin, FieldsAgree, Waiting
  <2>2. ~alive[p][g]
    BY <1>3, <1>8 DEF Begin, LoopInv, Live
  <2> QED
    BY <1>2, <1>7, <1>8, <2>1, <2>2 DEF Begin, Moves
<1>9. CASE Launch(p, g)
  <2>1. FieldsAgree(p, g)'
    BY <1>1, <1>2, <1>9 DEF Launch, fieldVars, FieldsAgree, Waiting
  <2>2. Moves("mark")
    BY <1>2, <1>9, <2>1 DEF Launch, fieldVars, Live, Moves
  <2> QED
    BY <1>7, <2>2
<1>10. CASE MarkRunning(p, g)
  <2>1. FieldsAgree(p, g)'
    BY <1>1, <1>2, <1>10 DEF MarkRunning, FieldsAgree, Waiting
  <2>2. Moves("supervise")
    BY <1>2, <1>10, <2>1 DEF MarkRunning, Live, Moves
  <2> QED
    BY <1>7, <2>2
<1>11. CASE Reap(p, g)
  <2>1. FieldsAgree(p, g)'
    BY <1>1, <1>2, <1>11 DEF Reap, FieldsAgree, Waiting
  <2>2. Moves("exited")
    BY <1>2, <1>11, <2>1 DEF Reap, Moves
  <2> QED
    BY <1>7, <2>2
<1>12. CASE KillChild(p, g)
  <2>1. FieldsAgree(p, g)'
    BY <1>1, <1>2, <1>12 DEF KillChild, fieldVars, FieldsAgree, Waiting
  <2>2. Moves("await")
    BY <1>2, <1>12, <2>1 DEF KillChild, fieldVars, Live, Moves
  <2> QED
    BY <1>7, <2>2
<1>13. CASE AwaitExit(p, g)
  <2>1. FieldsAgree(p, g)'
    BY <1>1, <1>2, <1>13 DEF AwaitExit, fieldVars, FieldsAgree, Waiting
  <2>2. Moves("return")
    BY <1>2, <1>13, <2>1 DEF AwaitExit, fieldVars, Moves
  <2> QED
    BY <1>7, <2>2
<1>14. CASE BeginInterval(p, g)
  <2>1. ~alive[p][g] /\ pid[p] = 0 /\ handle[p] = g
    BY <1>2, <1>3, <1>14 DEF BeginInterval, LoopInv, FieldsAgree, Live
  <2>2. FieldsAgree(p, g)'
    BY <1>1, <1>14, <2>1 DEF BeginInterval, beginBackoffLocked, FieldsAgree, Waiting
  <2>3. Moves("wait")
    BY <1>2, <1>14, <2>1, <2>2 DEF BeginInterval, beginBackoffLocked, Moves
  <2> QED
    BY <1>7, <2>3
<1>15. CASE ResetHealthy(p, g)
  <2>1. ~alive[p][g]
    BY <1>3, <1>15 DEF ResetHealthy, LoopInv, Live
  <2>2. FieldsAgree(p, g)'
    BY <1>1, <1>2, <1>15 DEF ResetHealthy, FieldsAgree, Waiting
  <2>3. Moves("account")
    BY <1>2, <1>15, <2>1, <2>2 DEF ResetHealthy, Moves
  <2> QED
    BY <1>7, <2>3
<1>16. CASE WaitReturns(p, g)
  <2>1. ~alive[p][g]
    BY <1>3, <1>16 DEF WaitReturns, LoopInv, Live
  <2> DEFINE l == IF Cancelled(p, g) THEN "unwind" ELSE "resume"
  <2>2. l \in {"unwind", "resume"} /\ pc' = [pc EXCEPT ![p][g] = l]
    BY <1>16 DEF WaitReturns
  <2>3. PICK k \in {"unwind", "resume"} : pc' = [pc EXCEPT ![p][g] = k]
    BY <2>2
  <2> HIDE DEF l
  <2>4. FieldsAgree(p, g)'
    BY <1>1, <1>2, <1>16, <2>3 DEF WaitReturns, fieldVars, FieldsAgree, Waiting
  <2>5. Moves(k)
    BY <1>2, <1>16, <2>1, <2>3, <2>4 DEF WaitReturns, fieldVars, Moves
  <2> QED
    BY <1>7, <2>5
<1>17. CASE ClearWake(p, g)
  <2>1. ~alive[p][g] /\ wake'[p] = 0
    BY <1>2, <1>3, <1>17 DEF ClearWake, LoopInv, FieldsAgree, Live
  <2>2. PICK k \in {"begin", "return"} : pc' = [pc EXCEPT ![p][g] = k]
    BY <1>17 DEF ClearWake
  <2>3. FieldsAgree(p, g)'
    BY <1>1, <1>2, <1>17, <2>1, <2>2 DEF ClearWake, FieldsAgree, Waiting
  <2>4. Moves(k)
    BY <1>2, <1>17, <2>1, <2>2, <2>3 DEF ClearWake, Moves
  <2> QED
    BY <1>7, <2>4
<1>18. CASE ChildExits(p, g)
  <2>1. ASSUME NEW q \in Procs, q # p PROVE LoopInv(q)'
    BY <1>18, <2>1, Frame DEF ChildExits, fieldVars
  <2>2. LoopInv(p)'
    <3>1. \A h \in Gens : alive'[p][h] => alive[p][h]
      BY <1>18 DEF ChildExits
    <3>2. UNCHANGED <<state, pid, gen, handle, wake, pc, woken>>
      BY <1>18 DEF ChildExits, fieldVars
    <3> HIDE DEF ObjectsInv, ProcessTypeOK
    <3> QED
      BY <1>3, <3>1, <3>2 DEF LoopInv, FieldsAgree, AtRest
  <2> QED
    BY <2>1, <2>2
<1> QED
  BY <1>4, <1>5, <1>6, <1>8, <1>9, <1>10, <1>11, <1>12, <1>13, <1>14, <1>15, <1>16,
     <1>17, <1>18
  DEF runLoop, Scheduled, WaitSignalled

\* A live child belongs to the latest generation, whose handle is still held.
LEMMA LiveIsLatest ==
    ASSUME ObjectsInv, NEW p \in Procs, NEW g \in LiveChildren(p)
    PROVE  /\ g \in Gens /\ g = gen[p] /\ handle[p] = g
           /\ state[p] \in {"starting", "running"} /\ pc[p][g] \in Live
<1>1. g \in Gens /\ pc[p][g] \in Live
  BY DEF LiveChildren, ObjectsInv, LoopInv
<1>2. g = gen[p] /\ FieldsAgree(p, g)
  BY <1>1, Latest DEF Live
<1> QED
  BY <1>1, <1>2 DEF FieldsAgree, Live

\* The handle an object holds is none or that of its latest generation.
LEMMA HandleIsLatest ==
    ASSUME ObjectsInv, NEW p \in Procs
    PROVE  handle[p] \in {0, gen[p]}
<1>1. gen[p] # 0 => gen[p] \in Gens
  BY ProcessAssumption DEF ObjectsInv, ProcessTypeOK, Gens
<1> QED
  BY <1>1 DEF ObjectsInv, LoopInv, FieldsAgree, AtRest

\* An object without a handle is at rest, its goroutines and children gone.
LEMMA NoHandleRests ==
    ASSUME ObjectsInv, NEW p \in Procs, handle[p] = 0
    PROVE  /\ AtRest(p) /\ LiveChildren(p) = {}
           /\ gen[p] # 0 => pc[p][gen[p]] = "ended"
<1>1. AtRest(p) /\ (gen[p] # 0 => pc[p][gen[p]] = "ended")
  BY DEF ObjectsInv, LoopInv, FieldsAgree
<1>2. ASSUME NEW g \in LiveChildren(p) PROVE FALSE
  <2>1. g # 0 /\ handle[p] = g
    BY LiveIsLatest DEF Gens
  <2> QED
    BY <2>1
<1> QED
  BY <1>1, <1>2

\* When done of the captured handle is closed and nothing was started since,
\* the object has no handle any more.
LEMMA DoneRests ==
    ASSUME ObjectsInv, NEW p \in Procs, NEW h \in {0, gen[p]},
           h = 0 => handle[p] = 0, DoneClosed(p, h)
    PROVE  handle[p] = 0
<1> SUFFICES ASSUME h # 0 PROVE handle[p] = 0
  OBVIOUS
<1>1. pc[p][gen[p]] = "ended" /\ gen[p] # 0
  BY DEF DoneClosed
<1> QED
  BY <1>1 DEF ObjectsInv, LoopInv, FieldsAgree, AtRest

\* Goroutines and children start nothing: no generation, no handle.
LEMMA LoopStartsNothing ==
    ASSUME ObjectsInv, NEW p \in Procs, NEW g \in Gens, runLoop(p, g)
    PROVE  /\ gen' = gen
           /\ \A q \in Procs : handle[q] = 0 => handle'[q] = 0
<1>1. CASE Cleanup(p, g)
  <2>1. handle' = handle \/ handle' = [handle EXCEPT ![p] = 0]
    BY <1>1 DEF Cleanup
  <2> QED
    BY <1>1, <2>1 DEF Cleanup, ObjectsInv, ProcessTypeOK
<1>2. CASE ~Cleanup(p, g)
  BY <1>2 DEF runLoop, Scheduled, fieldVars, Begin, Launch, LaunchFails, MarkRunning, Reap,
     KillChild, AwaitExit, BeginInterval, ResetHealthy, AccountExit, WaitSignalled,
     WaitReturns, ClearWake, ChildExits
<1> QED
  BY <1>1, <1>2
=============================================================================
