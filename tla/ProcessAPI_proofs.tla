-------------------------- MODULE ProcessAPI_proofs --------------------------
(***************************************************************************)
(* Proofs about ProcessAPI, for every set of objects and callers and every *)
(* value of the other constants: type correctness, an inductive invariant  *)
(* that says where the latest generation of an object may be in each       *)
(* state, and from it the safety properties the runs check.                *)
(***************************************************************************)
EXTENDS ProcessAPI, Process_proofs, WellFoundedInduction

(***************************************************************************)
(* The numbers Doubled: a recursive function is one that satisfies its     *)
(* equation only if there is such a function.                              *)
(***************************************************************************)

\* A set of numbers has a least element.
LEMMA Least ==
    ASSUME NEW T \in SUBSET Nat, T # {}
    PROVE  \E m \in T : \A k \in T : m <= k
<1> DEFINE R == {ss \in Nat \X Nat : ss[1] < ss[2]}
<1>0. IsWellFoundedOn(R, Nat)
  BY NatLessThanWellFounded DEF OpToRel
<1>1. PICK x \in T : \A y \in T : ~ (<<y, x>> \in R)
  <2> HIDE DEF R
  <2> QED BY <1>0, WFMin
<1>2. ASSUME NEW y \in T, ~(x <= y) PROVE FALSE
  <2>1. <<y, x>> \in Nat \X Nat /\ <<y, x>>[1] < <<y, x>>[2]
    BY <1>2
  <2> QED
    BY <1>1, <2>1
<1> QED
  BY <1>2

\* Induction, stated for a set.
LEMMA NatSetInduction ==
    ASSUME NEW S, 0 \in S, \A n \in Nat : n \in S => n + 1 \in S
    PROVE  \A n \in Nat : n \in S
<1> DEFINE T == {n \in Nat : n \notin S}
<1> SUFFICES ASSUME T # {} PROVE FALSE
  OBVIOUS
<1>1. PICK m \in T : \A k \in T : m <= k
  BY Least
<1>2. m # 0 /\ m - 1 \in Nat /\ m - 1 \notin T
  BY <1>1
<1>3. m - 1 + 1 = m
  BY <1>1
<1> QED
  BY <1>1, <1>2, <1>3

\* The values of f are those of h iterated from a.
Iterated(f, S, h, a) == f \in [Nat -> S] /\ f[0] = a /\ \A n \in Nat : f[n + 1] = h[f[n]]

\* Every function can be iterated.
LEMMA Iterates ==
    ASSUME NEW S, NEW h \in [S -> S], NEW a \in S
    PROVE  \E f : Iterated(f, S, h, a)
<1> DEFINE Part(n) == {f \in [0 .. n -> S] :
                          f[0] = a /\ \A i \in 0 .. n : i < n => f[i + 1] = h[f[i]]}
<1>1. \A n \in Nat : Part(n) # {}
  <2> DEFINE T == {n \in Nat : Part(n) # {}}
  <2>1. 0 \in T
    <3> DEFINE f == [i \in 0 .. 0 |-> a]
    <3>1. f \in Part(0)
      OBVIOUS
    <3> QED
      BY <3>1
  <2>2. ASSUME NEW n \in Nat, n \in T PROVE n + 1 \in T
    <3>1. PICK f : f \in Part(n)
      BY <2>2
    <3> DEFINE g == [i \in 0 .. n + 1 |-> IF i <= n THEN f[i] ELSE h[f[n]]]
    <3>2. g \in [0 .. n + 1 -> S]
      BY <3>1
    <3>3. g[0] = a
      BY <3>1
    <3>4. ASSUME NEW i \in 0 .. n + 1, i < n + 1 PROVE g[i + 1] = h[g[i]]
      BY <3>1, <3>4
    <3>5. g \in Part(n + 1)
      BY <3>2, <3>3, <3>4
    <3> QED
      BY <3>5
  <2> HIDE DEF T
  <2>3. \A n \in Nat : n \in T
    BY <2>1, <2>2, NatSetInduction
  <2> QED
    BY <2>3 DEF T
\* Two of them agree where both are defined.
<1>2. ASSUME NEW n \in Nat, NEW f \in Part(n), NEW g \in Part(n + 1)
      PROVE  g[n] = f[n]
  <2> DEFINE T == {i \in Nat : i <= n => g[i] = f[i]}
  <2>1. 0 \in T
    OBVIOUS
  <2>2. ASSUME NEW i \in Nat, i \in T PROVE i + 1 \in T
    BY <2>2
  <2> HIDE DEF T
  <2>3. \A i \in Nat : i \in T
    BY <2>1, <2>2, NatSetInduction
  <2> QED
    BY <2>3 DEF T
<1> DEFINE c(n) == CHOOSE f : f \in Part(n)
           F == [n \in Nat |-> c(n)[n]]
<1>3. \A n \in Nat : c(n) \in Part(n)
  <2> HIDE DEF Part
  <2> QED
    BY <1>1
<1> HIDE DEF c
<1>4. F \in [Nat -> S] /\ F[0] = a
  BY <1>3
<1>5. ASSUME NEW n \in Nat PROVE F[n + 1] = h[F[n]]
  <2>1. c(n + 1) \in Part(n + 1) /\ c(n) \in Part(n)
    BY <1>3
  <2>2. c(n + 1)[n] = c(n)[n]
    <3> HIDE DEF Part
    <3> QED BY <2>1, <1>2
  <2>3. c(n + 1)[n + 1] = h[c(n + 1)[n]]
    BY <2>1
  <2> QED
    BY <2>2, <2>3
<1>6. Iterated(F, S, h, a)
  BY <1>4, <1>5 DEF Iterated
<1> QED
  BY <1>6

\* Doubled is the function its definition describes, and its values are those
\* of a backoff.
LEMMA DoubledDef ==
    /\ Doubled[0] = InitialBackoff /\ Doubled[1] = InitialBackoff
    /\ \A n \in Nat \ {0} : Doubled[n + 1] = NextBackoff(Doubled[n])
    /\ Doubled \in [Nat -> Seconds]
<1> DEFINE h == [d \in Seconds |-> NextBackoff(d)]
<1>1. h \in [Seconds -> Seconds] /\ InitialBackoff \in Seconds
  BY CountersType
<1>2. PICK f \in [Nat -> Seconds] : f[0] = InitialBackoff /\ \A n \in Nat : f[n + 1] = h[f[n]]
  <2> HIDE DEF h
  <2>1. PICK f : Iterated(f, Seconds, h, InitialBackoff)
    BY <1>1, Iterates
  <2> QED
    BY <2>1 DEF Iterated
<1> DEFINE D == [n \in Nat |-> IF n <= 1 THEN InitialBackoff ELSE f[n - 1]]
<1>3. D \in [Nat -> Seconds]
  BY <1>1
<1>4. ASSUME NEW n \in Nat, n > 1 PROVE D[n] = NextBackoff(D[n - 1])
  <2>1. n - 2 \in Nat /\ n - 1 \in Nat /\ n - 2 + 1 = n - 1
    BY <1>4
  <2>2. D[n] = h[f[n - 2]]
    BY <1>2, <1>4, <2>1
  <2>3. D[n - 1] = f[n - 2]
    BY <1>2, <1>4, <2>1
  <2>4. f[n - 2] \in Seconds
    BY <1>2, <2>1
  <2> QED
    BY <2>2, <2>3, <2>4
<1> DEFINE Eqn(g) == g = [n \in Nat |-> IF n <= 1 THEN InitialBackoff ELSE NextBackoff(g[n - 1])]
<1>5. Eqn(D)
  <2> HIDE DEF NextBackoff
  <2> QED
  BY <1>3, <1>4
<1>6. Doubled = CHOOSE g : Eqn(g)
  BY DEF Doubled
<1> HIDE DEF D, Eqn
<1>7. Eqn(Doubled)
  BY <1>5, <1>6
<1>8. Doubled = [n \in Nat |-> IF n <= 1 THEN InitialBackoff ELSE NextBackoff(Doubled[n - 1])]
  BY <1>7 DEF Eqn
<1>9. \A n \in Nat : Doubled[n] = IF n <= 1 THEN InitialBackoff ELSE NextBackoff(Doubled[n - 1])
  BY <1>8
<1>10. \A n \in Nat \ {0} : Doubled[n + 1] = NextBackoff(Doubled[n])
  <2> SUFFICES ASSUME NEW n \in Nat, n # 0 PROVE Doubled[n + 1] = NextBackoff(Doubled[n])
    OBVIOUS
  <2>1. n + 1 \in Nat /\ ~(n + 1 <= 1) /\ n + 1 - 1 = n
    OBVIOUS
  <2> QED
    BY <1>9, <2>1
<1>11. Doubled[0] = InitialBackoff /\ Doubled[1] = InitialBackoff
  BY <1>9
<1>12. \A n \in Nat : Doubled[n] \in Seconds
  <2> DEFINE T == {n \in Nat : Doubled[n] \in Seconds}
  <2>1. 0 \in T
    BY <1>1, <1>11
  <2>2. ASSUME NEW n \in Nat, n \in T PROVE n + 1 \in T
    BY <1>1, <1>10, <1>11, <2>2, CountersType
  <2> HIDE DEF T
  <2>3. \A n \in Nat : n \in T
    BY <2>1, <2>2, NatSetInduction
  <2> QED
    BY <2>3 DEF T
<1> QED
  BY <1>8, <1>10, <1>11, <1>12

(***************************************************************************)
(* Types.                                                                  *)
(***************************************************************************)

LEMMA InitType == Init => TypeOK
<1> SUFFICES ASSUME Init PROVE TypeOK
  OBVIOUS
<1>1. ProcessTypeOK
  BY NewProcessesType DEF Init
<1>2. [proc : Procs, handle : {0}] \subseteq [proc : Procs, handle : 0 .. MaxGen]
  BY ZeroType
<1> QED
  BY <1>1, <1>2 DEF Init, TypeOK

LEMMA StepType == TypeOK /\ [Next]_vars => TypeOK'
<1> SUFFICES ASSUME TypeOK, [Next]_vars PROVE TypeOK'
  OBVIOUS
<1> USE DEF TypeOK
<1>1. ASSUME NEW p \in Procs, Start(p), UNCHANGED callerVars PROVE TypeOK'
  BY <1>1, StartType DEF callerVars
<1>2. ASSUME NEW p \in Procs, ForceWait(p), UNCHANGED callerVars PROVE TypeOK'
  BY <1>2, ForceWaitType DEF callerVars
<1>3. ASSUME NEW c \in Callers, NEW p \in Procs, Capture(c, p) PROVE TypeOK'
  BY <1>3 DEF Capture, ProcessTypeOK, processVars, fieldVars, loopVars
<1>4. ASSUME NEW c \in Callers, StopCancel(c) PROVE TypeOK'
  BY <1>4 DEF StopCancel, Cancel, ProcessTypeOK, fieldVars
<1>5. ASSUME NEW c \in Callers, StopReturn(c) PROVE TypeOK'
  BY <1>5, ZeroType DEF StopReturn, ProcessTypeOK, processVars, fieldVars, loopVars
<1>6. ASSUME NEW p \in Procs, NEW g \in Gens, Loop(p, g) PROVE TypeOK'
  BY <1>6, LoopType DEF Loop, callerVars
<1>7. ASSUME ParentCancel PROVE TypeOK'
  BY <1>7 DEF ParentCancel, ProcessTypeOK, fieldVars, loopVars, callerVars
<1>8. ASSUME UNCHANGED vars PROVE TypeOK'
  BY <1>8 DEF vars, ProcessTypeOK, processVars, fieldVars, loopVars, callerVars
<1> QED
  BY <1>1, <1>2, <1>3, <1>4, <1>5, <1>6, <1>7, <1>8
  DEF Next, Stop, StopRunning, CallStart, CallExec, Exec, callerVars

\* Every variable keeps its type, whatever the constants.
THEOREM TypeCorrect == Spec => []TypeOK
  BY InitType, StepType, PTL DEF Spec

(***************************************************************************)
(* The inductive invariant.                                                *)
(***************************************************************************)

LEMMA Objects == IInv => ObjectsInv
  BY DEF IInv, ObjectsInv, TypeOK

LEMMA InitInv == Init => IInv
<1> SUFFICES ASSUME Init PROVE IInv
  OBVIOUS
<1>1. TypeOK
  BY InitType
<1>2. ASSUME NEW p \in Procs PROVE LoopInv(p)
  BY ProcessAssumption DEF Init, NewProcesses, NoLoop, NewState, LoopInv, AtRest,
     Active, Gens
<1>3. ASSUME NEW p \in Procs PROVE CountInv(p)
  BY ProcessAssumption DEF Init, NewProcesses, NoLoop, CountInv, Gens
<1> QED
  BY <1>1, <1>2, <1>3 DEF IInv

\* After one more failure that is not the last, the wait is what comes after n
\* failures, and doubling it gives what comes after the next.
LEMMA CountUpDoubled ==
    ASSUME NEW p \in Procs, NEW n \in 0 .. RestartCap,
           ~(MaxRestarts[p] > 0 /\ CountUp(n) >= MaxRestarts[p])
    PROVE  /\ Doubled[CountUp(n)] = Doubled[n + 1]
           /\ NextBackoff(Doubled[n + 1]) = Doubled[CountUp(n) + 1]
<1>1. CASE n < RestartCap
  <2>1. CountUp(n) = n + 1 /\ n + 1 \in Nat \ {0}
    BY <1>1, ProcessAssumption DEF CountUp
  <2> QED
    BY <2>1, DoubledDef
<1>2. CASE ~(n < RestartCap)
  <2>1. n = RestartCap /\ CountUp(n) = n /\ n \in Nat
    BY <1>2, ProcessAssumption DEF CountUp
  <2>2. MaxRestarts[p] = 0
    BY <2>1, ProcessAssumption
  <2>3. Doubled[n] = MaxBackoff
    BY <2>1, <2>2, RestartCapAssumption
  <2>4. NextBackoff(MaxBackoff) = MaxBackoff
    BY ProcessAssumption DEF NextBackoff
  <2>5. Doubled[n + 1] = MaxBackoff
    BY <2>1, <2>3, <2>4, DoubledDef
  <2> QED
    BY <2>1, <2>3, <2>4, <2>5
<1> QED
  BY <1>1, <1>2

LEMMA CountFrame ==
    ASSUME NEW q \in Procs, CountInv(q), restarts'[q] = restarts[q], gen'[q] = gen[q],
           pc'[q] = pc[q], backoff'[q] = backoff[q], retry'[q] = retry[q]
    PROVE  CountInv(q)'
  BY DEF CountInv

LEMMA StartCount ==
    ASSUME IInv, NEW p \in Procs, Start(p)
    PROVE  \A q \in Procs : CountInv(q)'
<1> USE DEF IInv, TypeOK, ProcessTypeOK
<1>0. PICK n : n = gen[p] + 1
  OBVIOUS
<1>1. n \in Gens /\ n # 0 /\ n > gen[p] /\ gen[p] \in Nat
  BY <1>0, ProcessAssumption DEF Start, startLocked, Gens
<1>2. /\ restarts' = [restarts EXCEPT ![p] = 0]
      /\ gen' = [gen EXCEPT ![p] = n]
      /\ pc' = [pc EXCEPT ![p][n] = "begin"]
      /\ UNCHANGED <<backoff, retry>>
  BY <1>0 DEF Start, startLocked, Goto
<1>3. ASSUME NEW q \in Procs, q # p PROVE CountInv(q)'
  BY <1>2, <1>3, CountFrame
<1>4. backoff[p][n] = InitialBackoff
  BY <1>1 DEF CountInv
<1>5. \A h \in Gens : h > n => backoff[p][h] = InitialBackoff
  BY <1>1 DEF CountInv, Gens
<1>6. /\ gen'[p] = n /\ restarts'[p] = 0 /\ pc'[p][n] = "begin"
      /\ backoff'[p] = backoff[p]
  BY <1>1, <1>2
<1>7. CountInv(p)'
  BY <1>4, <1>5, <1>6, DoubledDef DEF CountInv, Waiting
<1> QED
  BY <1>3, <1>7

\* A step of the latest generation g that leaves the others alone.
LEMMA LatestCount ==
    ASSUME IInv, NEW p \in Procs, NEW g \in Gens, gen[p] = g, gen' = gen,
           \A h \in Gens : h # g => backoff'[p][h] = backoff[p][h],
           \A q \in Procs : q # p => /\ restarts'[q] = restarts[q] /\ pc'[q] = pc[q]
                                     /\ backoff'[q] = backoff[q] /\ retry'[q] = retry[q],
           LET doubles == pc'[p][g] \in Waiting /\ retry'[p][g] IN
           pc'[p][g] \notin {"return", "ended"} =>
               /\ (IF doubles THEN NextBackoff(backoff'[p][g]) ELSE backoff'[p][g])
                     = Doubled[restarts'[p] + 1]
               /\ doubles => backoff'[p][g] = Doubled[restarts'[p]]
    PROVE  \A q \in Procs : CountInv(q)'
<1>1. ASSUME NEW q \in Procs, q # p PROVE CountInv(q)'
  BY <1>1, CountFrame DEF IInv
<1>2. \A h \in Gens : h > g => h # g /\ backoff[p][h] = InitialBackoff
  BY DEF CountInv, Gens, IInv
<1>3. CountInv(p)'
  BY <1>2 DEF CountInv
<1> QED
  BY <1>1, <1>3

LEMMA FailureCount ==
    ASSUME IInv, NEW p \in Procs, NEW g \in Gens, Failure(p, g), UNCHANGED <<gen, backoff>>,
           pc[p][g] \in {"launch", "exited", "account"}
    PROVE  \A q \in Procs : CountInv(q)'
<1>1. gen[p] = g
  BY Objects, Latest
<1> USE DEF IInv, TypeOK, ProcessTypeOK
<1>2. backoff[p][g] = Doubled[restarts[p] + 1]
  <2>1. g # 0 /\ pc[p][g] \notin Waiting /\ pc[p][g] \notin {"return", "ended"}
    BY DEF Gens, Waiting
  <2> QED
    BY <1>1, <2>1 DEF CountInv
<1>3. /\ restarts' = [restarts EXCEPT ![p] = CountUp(restarts[p])]
      /\ retry' = [retry EXCEPT ![p][g] = TRUE]
  BY DEF Failure
<1>4. CASE beginBackoffLocked(p, g) /\ ~(MaxRestarts[p] > 0 /\ CountUp(restarts[p]) >= MaxRestarts[p])
  <2>1. pc' = [pc EXCEPT ![p][g] = "wait"]
    BY <1>4 DEF beginBackoffLocked, Goto
  <2>2. /\ Doubled[restarts'[p]] = backoff[p][g]
        /\ NextBackoff(backoff[p][g]) = Doubled[restarts'[p] + 1]
    BY <1>2, <1>3, <1>4, CountUpDoubled
  <2>3. pc'[p][g] = "wait" /\ retry'[p][g]
    BY <1>3, <2>1
  <2>4. \A q \in Procs : q # p => /\ restarts'[q] = restarts[q] /\ pc'[q] = pc[q]
                                  /\ backoff'[q] = backoff[q] /\ retry'[q] = retry[q]
    BY <1>3, <2>1
  <2> QED
    BY <1>1, <2>2, <2>3, <2>4, LatestCount DEF Waiting
<1>5. CASE MaxRestarts[p] > 0 /\ CountUp(restarts[p]) >= MaxRestarts[p]
  <2>1. pc' = [pc EXCEPT ![p][g] = "return"]
    BY <1>5 DEF Failure, Goto
  <2>2. pc'[p][g] = "return"
    BY <2>1
  <2>3. \A q \in Procs : q # p => /\ restarts'[q] = restarts[q] /\ pc'[q] = pc[q]
                                  /\ backoff'[q] = backoff[q] /\ retry'[q] = retry[q]
    BY <1>3, <2>1
  <2> QED
    BY <1>1, <2>2, <2>3, LatestCount
<1> QED
  BY <1>4, <1>5 DEF Failure

\* The step of generation g moves it to l; restarts stays.
LEMMA MoveCount ==
    ASSUME IInv, NEW p \in Procs, NEW g \in Gens, NEW l,
           pc[p][g] \notin {"idle", "return", "ended"},
           pc' = [pc EXCEPT ![p][g] = l], UNCHANGED <<gen, restarts, backoff, retry>>,
           l \in {"return", "ended"} \/ (l \in Waiting /\ pc[p][g] \in Waiting)
             \/ (l \notin Waiting /\ pc[p][g] \notin Waiting)
    PROVE  \A q \in Procs : CountInv(q)'
<1>1. gen[p] = g /\ g # 0
  BY Objects, Latest DEF Gens
<1> USE DEF IInv, TypeOK, ProcessTypeOK
<1>2. pc'[p][g] = l /\ \A q \in Procs : q # p => pc'[q] = pc[q]
  OBVIOUS
<1>3. CountInv(p)
  OBVIOUS
<1> QED
  BY <1>1, <1>2, <1>3, LatestCount DEF CountInv

LEMMA StepCount ==
    ASSUME IInv, [Next]_vars PROVE \A q \in Procs : CountInv(q)'
<1>1. ASSUME UNCHANGED <<restarts, gen, pc, backoff, retry>>
      PROVE  \A q \in Procs : CountInv(q)'
  BY <1>1, CountFrame DEF IInv
<1>2. ASSUME NEW p \in Procs, CallStart(p) \/ CallExec(p)
      PROVE  \A q \in Procs : CountInv(q)'
  BY <1>1, <1>2, StartCount DEF CallStart, CallExec, Exec, ForceWait
<1>3. ASSUME NEW c \in Callers, NEW p \in Procs, Capture(c, p)
      PROVE  \A q \in Procs : CountInv(q)'
  BY <1>1, <1>3 DEF Capture, processVars, fieldVars, loopVars
<1>4. ASSUME NEW c \in Callers, StopCancel(c) \/ StopReturn(c)
      PROVE  \A q \in Procs : CountInv(q)'
  BY <1>1, <1>4 DEF StopCancel, StopReturn, Cancel, processVars, fieldVars, loopVars
<1>5. CASE ParentCancel \/ UNCHANGED vars
  BY <1>1, <1>5 DEF ParentCancel, vars, processVars, fieldVars, loopVars
<1>6. ASSUME NEW p \in Procs, NEW g \in Gens, runLoop(p, g)
      PROVE  \A q \in Procs : CountInv(q)'
  <2> USE DEF Goto, fieldVars
  <2>1. CASE Begin(p, g)
    BY <2>1, MoveCount DEF Begin, Waiting
  <2>2. CASE Launch(p, g)
    BY <2>2, MoveCount DEF Launch, Waiting
  <2>3. CASE LaunchFails(p, g)
    BY <2>3, FailureCount DEF LaunchFails
  <2>4. CASE MarkRunning(p, g)
    BY <2>4, MoveCount DEF MarkRunning, Waiting
  <2>5. CASE Reap(p, g)
    BY <2>5, MoveCount DEF Reap, Waiting
  <2>6. CASE KillChild(p, g)
    BY <2>6, MoveCount DEF KillChild, Waiting
  <2>7. CASE AwaitExit(p, g)
    BY <2>7, MoveCount DEF AwaitExit
  <2>8. CASE BeginInterval(p, g)
    <3>1. gen[p] = g /\ pc[p][g] = "exited" /\ g # 0
      BY <2>8, Objects, Latest DEF BeginInterval, Gens
    <3>2. backoff[p][g] = Doubled[restarts[p] + 1]
      BY <3>1 DEF IInv, CountInv, Waiting
    <3>3. /\ pc' = [pc EXCEPT ![p][g] = "wait"]
          /\ retry' = [retry EXCEPT ![p][g] = FALSE]
          /\ UNCHANGED <<gen, restarts, backoff>>
      BY <2>8 DEF BeginInterval, beginBackoffLocked
    <3>4. /\ ~retry'[p][g] /\ pc'[p][g] = "wait"
          /\ \A q \in Procs : q # p => pc'[q] = pc[q] /\ retry'[q] = retry[q]
      BY <3>3 DEF IInv, TypeOK, ProcessTypeOK
    <3> QED
      BY <3>1, <3>2, <3>3, <3>4, LatestCount
  <2>9. CASE ResetHealthy(p, g)
    <3>1. gen[p] = g
      BY <2>9, Objects, Latest DEF ResetHealthy
    <3>2. /\ pc' = [pc EXCEPT ![p][g] = "account"]
          /\ restarts' = [restarts EXCEPT ![p] = 0]
          /\ backoff' = [backoff EXCEPT ![p][g] = InitialBackoff]
          /\ UNCHANGED <<gen, retry>>
      BY <2>9 DEF ResetHealthy
    <3>3. /\ pc'[p][g] = "account" /\ restarts'[p] = 0 /\ backoff'[p][g] = InitialBackoff
          /\ \A h \in Gens : h # g => backoff'[p][h] = backoff[p][h]
      BY <3>2 DEF IInv, TypeOK, ProcessTypeOK
    <3>4. \A q \in Procs : q # p => /\ pc'[q] = pc[q] /\ restarts'[q] = restarts[q]
                                    /\ backoff'[q] = backoff[q]
      BY <3>2 DEF IInv, TypeOK, ProcessTypeOK
    <3> QED
      BY <3>1, <3>2, <3>3, <3>4, LatestCount, DoubledDef DEF Waiting
  <2>10. CASE AccountExit(p, g)
    BY <2>10, FailureCount DEF AccountExit
  <2>11. CASE WaitReturns(p, g)
    BY <2>11, MoveCount DEF WaitReturns, Waiting
  <2>12. CASE ClearWake(p, g) /\ pc[p][g] = "unwind"
    BY <2>12, MoveCount DEF ClearWake
  <2>13. CASE ClearWake(p, g) /\ pc[p][g] = "resume"
    <3>1. gen[p] = g /\ g # 0
      BY <2>13, Objects, Latest DEF Gens
    <3>2. /\ pc' = [pc EXCEPT ![p][g] = "begin"]
          /\ backoff' = [backoff EXCEPT ![p][g] = IF retry[p][g] THEN NextBackoff(@) ELSE @]
          /\ UNCHANGED <<gen, restarts, retry>>
      BY <2>13 DEF ClearWake
    <3>3. (IF retry[p][g] THEN NextBackoff(backoff[p][g]) ELSE backoff[p][g])
            = Doubled[restarts[p] + 1]
      BY <2>13, <3>1 DEF IInv, CountInv, Waiting
    <3>4. /\ pc'[p][g] = "begin"
          /\ backoff'[p][g] = IF retry[p][g] THEN NextBackoff(backoff[p][g]) ELSE backoff[p][g]
          /\ \A h \in Gens : h # g => backoff'[p][h] = backoff[p][h]
      BY <3>2 DEF IInv, TypeOK, ProcessTypeOK
    <3>5. \A q \in Procs : q # p => pc'[q] = pc[q] /\ backoff'[q] = backoff[q]
      BY <3>2 DEF IInv, TypeOK, ProcessTypeOK
    <3> QED
      BY <3>1, <3>2, <3>3, <3>4, <3>5, LatestCount DEF Waiting
  <2>14. CASE Cleanup(p, g)
    <3>1. /\ pc[p][g] = "return"
          /\ pc' = [pc EXCEPT ![p][g] = "ended"]
          /\ backoff' = [backoff EXCEPT ![p][g] = InitialBackoff]
          /\ retry' = [retry EXCEPT ![p][g] = FALSE]
          /\ UNCHANGED <<gen, restarts>>
      BY <2>14 DEF Cleanup
    <3>2. \A q \in Procs : q # p => /\ pc'[q] = pc[q] /\ backoff'[q] = backoff[q]
                                    /\ retry'[q] = retry[q]
      BY <3>1 DEF IInv, TypeOK, ProcessTypeOK
    <3>3. pc'[p][g] = "ended" /\ \A h \in Gens : h # g => backoff'[p][h] = backoff[p][h]
      BY <3>1 DEF IInv, TypeOK, ProcessTypeOK
    <3>4. CASE gen[p] = g
      BY <3>1, <3>2, <3>3, <3>4, LatestCount
    <3>5. CASE gen[p] # g
      <4>1. gen[p] > g
        <5>1. gen[p] \in Nat /\ g \in Nat /\ LoopInv(p)
          BY GensType, ProcessAssumption DEF IInv, TypeOK, ProcessTypeOK
        <5>2. ~(g > gen[p])
          BY <3>1, <5>1 DEF LoopInv
        <5> QED
          BY <3>5, <5>1, <5>2
      <4>2. gen[p] \in Gens
        BY <4>1, ProcessAssumption DEF Gens, IInv, TypeOK, ProcessTypeOK
      <4>3. pc'[p][gen[p]] = pc[p][gen[p]] /\ retry'[p][gen[p]] = retry[p][gen[p]]
        BY <3>1, <3>5, <4>2
      <4>4. \A h \in Gens : h > gen[p] => h # g
        BY <4>1, GensType DEF Gens, IInv, TypeOK, ProcessTypeOK
      <4>5. CountInv(p)'
        BY <3>1, <3>3, <3>5, <4>2, <4>3, <4>4 DEF CountInv, IInv
      <4> QED
        BY <3>1, <3>2, <4>5, CountFrame DEF IInv
    <3> QED
      BY <3>4, <3>5
  <2>15. CASE ChildExits(p, g)
    BY <1>1, <2>15 DEF ChildExits
  <2> QED
    BY <1>6, <2>1, <2>2, <2>3, <2>4, <2>5, <2>6, <2>7, <2>8, <2>9, <2>10, <2>11, <2>12,
       <2>13, <2>14, <2>15
    DEF runLoop, Scheduled, WaitSignalled, ClearWake
<1> QED
  BY <1>2, <1>3, <1>4, <1>5, <1>6 DEF Next, Stop, StopRunning, Loop

LEMMA StepInv == IInv /\ [Next]_vars => IInv'
<1> SUFFICES ASSUME IInv, [Next]_vars PROVE \A q \in Procs : LoopInv(q)'
  BY StepType, StepCount DEF IInv
\* Steps that change nothing LoopInv reads.
<1>1. ASSUME UNCHANGED <<fieldVars, pc, woken, alive>>
      PROVE  \A q \in Procs : LoopInv(q)'
  BY <1>1, Frame DEF fieldVars, IInv
<1>2. ASSUME NEW p \in Procs, CallStart(p) PROVE \A q \in Procs : LoopInv(q)'
  BY Objects, <1>2, StartInv DEF CallStart
<1>3. ASSUME NEW p \in Procs, CallExec(p) PROVE \A q \in Procs : LoopInv(q)'
  BY Objects, <1>3, StartInv, ForceWaitInv DEF CallExec, Exec
<1>4. ASSUME NEW c \in Callers, NEW p \in Procs, Capture(c, p)
      PROVE  \A q \in Procs : LoopInv(q)'
  BY <1>1, <1>4 DEF Capture, processVars, loopVars
<1>5. ASSUME NEW c \in Callers, StopCancel(c) \/ StopReturn(c)
      PROVE  \A q \in Procs : LoopInv(q)'
  BY <1>1, <1>5 DEF StopCancel, StopReturn, Cancel, processVars, loopVars
<1>6. ASSUME NEW p \in Procs, NEW g \in Gens, Loop(p, g)
      PROVE  \A q \in Procs : LoopInv(q)'
  BY Objects, <1>6, LoopStepInv DEF Loop
<1>7. CASE ParentCancel \/ UNCHANGED vars
  BY <1>1, <1>7 DEF ParentCancel, vars, processVars, loopVars
<1> QED
  BY <1>2, <1>3, <1>4, <1>5, <1>6, <1>7 DEF Next, Stop, StopRunning

\* The relation between the lock-protected fields and the goroutines holds at
\* every moment: Start, Exec and Stop may decide on the fields alone.
THEOREM Invariance == Spec => []IInv
  BY InitInv, StepInv, PTL DEF Spec

(***************************************************************************)
(* What follows from it.                                                   *)
(***************************************************************************)

\* At most one child per object, for any number of callers and generations:
\* process.go 100-101.
THEOREM SingleCopyHolds == Spec => []SingleCopy
<1>1. IInv => SingleCopy
  BY Objects, LiveIsLatest DEF SingleCopy
<1> QED
  BY <1>1, Invariance, PTL

\* Every live child can be stopped through the handle the object holds.
THEOREM NoOrphanHolds == Spec => []NoOrphan
<1>1. IInv => NoOrphan
  BY Objects, LiveIsLatest DEF NoOrphan
<1> QED
  BY <1>1, Invariance, PTL

\* What Status shows agrees with the child: resting or waiting means none.
THEOREM StatusHonestHolds == Spec => []StatusHonest
<1>1. ASSUME IInv, NEW p \in Procs
      PROVE  /\ LiveChildren(p) # {} => state[p] \in {"starting", "running"}
             /\ pid[p] # 0 => state[p] = "running"
  <2>1. ASSUME NEW g \in LiveChildren(p) PROVE state[p] \in {"starting", "running"}
    BY Objects, <1>1, LiveIsLatest
  <2>2. pid[p] # 0 => state[p] = "running"
    BY <1>1 DEF IInv, LoopInv, FieldsAgree, AtRest
  <2> QED
    BY <2>1, <2>2
<1>2. IInv => StatusHonest
  BY <1>1 DEF StatusHonest
<1> QED
  BY <1>2, Invariance, PTL

\* Exec never closes a channel twice and never that of another wait.
THEOREM WakeIsFreshHolds == Spec => []WakeIsFresh
<1>1. ASSUME IInv, NEW p \in Procs, wake[p] # 0
      PROVE  /\ ~woken[p][wake[p]] /\ wake[p] = gen[p]
             /\ pc[p][wake[p]] \in {"wait", "resume", "unwind"}
  BY <1>1 DEF IInv, LoopInv, FieldsAgree, AtRest, Waiting
<1>2. IInv => WakeIsFresh
  BY <1>1 DEF WakeIsFresh
<1> QED
  BY <1>2, Invariance, PTL

\* The wait after the n-th failure in a row is InitialBackoff doubled n - 1
\* times, at most MaxBackoff, whatever came between the failures.
THEOREM BackoffTracksRestartsHolds == Spec => []BackoffTracksRestarts
<1>1. ASSUME IInv, NEW p \in Procs, NEW g \in Gens, pc[p][g] = "wait", retry[p][g]
      PROVE  backoff[p][g] = Doubled[restarts[p]]
  <2>1. gen[p] = g /\ g # 0
    BY Objects, <1>1, Latest DEF Gens
  <2> QED
    BY <1>1, <2>1 DEF IInv, CountInv, Waiting
<1>2. IInv => BackoffTracksRestarts
  BY <1>1 DEF BackoffTracksRestarts
<1> QED
  BY <1>2, Invariance, PTL

\* A Stop that comes back with no start since its capture leaves the angl at
\* rest and childless.
THEOREM StopIsCompleteHolds == Spec => StopIsComplete
<1> DEFINE A == \A c \in Callers :
        LET p == ctarget[c].proc IN
        cpc[c] = "await" /\ cpc'[c] = "idle" /\ ctarget[c].handle = gen[p]
           => state[p] \notin Active /\ LiveChildren(p) = {}
<1>1. ASSUME IInv, [Next]_vars PROVE [A]_vars
  <2> SUFFICES ASSUME NEW c \in Callers, cpc[c] = "await", cpc'[c] = "idle",
                      ctarget[c].handle = gen[ctarget[c].proc]
               PROVE  LET p == ctarget[c].proc IN
                      state[p] \notin Active /\ LiveChildren(p) = {}
    OBVIOUS
  <2> DEFINE p == ctarget[c].proc
  <2>1. p \in Procs /\ LoopInv(p)
    BY <1>1 DEF IInv, TypeOK
  <2>2. StopReturn(c)
    <3>1. cpc' # cpc
      OBVIOUS
    <3>2. cpc \in [Callers -> {"idle", "cancel", "await"}]
      BY <1>1 DEF IInv, TypeOK
    <3>3. ASSUME NEW d \in Callers, NEW q \in Procs, Capture(d, q) PROVE FALSE
      BY <3>2, <3>3 DEF Capture
    <3>4. ASSUME NEW d \in Callers, StopCancel(d) PROVE FALSE
      BY <3>2, <3>4 DEF StopCancel
    <3>5. ASSUME NEW d \in Callers, StopReturn(d) PROVE d = c
      BY <3>2, <3>5 DEF StopReturn
    <3> QED
      BY <1>1, <3>1, <3>3, <3>4, <3>5
      DEF Next, Stop, StopRunning, CallStart, CallExec, Loop, ParentCancel, vars,
          callerVars
  <2>3. gen[p] # 0 => pc[p][gen[p]] = "ended"
    BY <2>2 DEF StopReturn, DoneClosed
  <2>4. AtRest(p)
    BY <2>1, <2>3 DEF LoopInv, FieldsAgree
  <2>5. LiveChildren(p) = {}
    <3> SUFFICES ASSUME NEW g \in LiveChildren(p) PROVE FALSE
      OBVIOUS
    <3>1. g \in Gens /\ g = gen[p] /\ pc[p][g] \in Live
      BY Objects, <1>1, <2>1, LiveIsLatest
    <3> QED
      BY <2>3, <3>1 DEF Live, Gens
  <2> QED
    BY <2>4, <2>5 DEF AtRest
<1> QED
  BY <1>1, Invariance, PTL DEF Spec, StopIsComplete

(***************************************************************************)
(* Refinement.                                                             *)
(***************************************************************************)

Kids == [p \in Procs |-> LiveChildren(p)]

LEMMA KidsKept == ASSUME UNCHANGED alive PROVE UNCHANGED Kids
  BY DEF Kids, LiveChildren

\* A loop step of p that shows s and leaves the children alone.
LEMMA ShowStep ==
    ASSUME NEW p \in Procs, NEW s, state' = [state EXCEPT ![p] = s], UNCHANGED alive
    PROVE  Abstract!Show(p, s)
  BY KidsKept DEF Abstract!Show, Kids

LEMMA InitAbstract == Init => Abstract!Init
  BY DEF Init, NewProcesses, NoLoop, NewState, LiveChildren, Abstract!Init,
     Abstract!Resting

LEMMA StartAbstract ==
    ASSUME IInv, NEW p \in Procs, Start(p) PROVE Abstract!Request(p)
<1>1. state[p] \in {"stopped", "disabled", "failed"}
  BY DEF Start, Active, States, IInv, TypeOK, ProcessTypeOK
<1>2. LiveChildren(p) = {}
  BY Objects, <1>1, LiveIsLatest
<1>3. Abstract!Show(p, "starting")
  BY ShowStep DEF Start, startLocked
<1> QED
  BY <1>1, <1>2, <1>3 DEF Abstract!Request, Abstract!Resting, Abstract!Childless

LEMMA FailureAbstract ==
    ASSUME IInv, NEW p \in Procs, NEW g \in Gens, Failure(p, g), UNCHANGED alive,
           pc[p][g] \in {"launch", "exited", "account"}
    PROVE  Abstract!GiveWay(p)
<1>1. gen[p] = g /\ state[p] \in {"starting", "running"}
  BY Objects, Latest DEF FieldsAgree
<1>2. LiveChildren(p) = {}
  BY Objects, <1>1, LiveIsLatest DEF Live
<1>3. state' = [state EXCEPT ![p] = "backoff"] \/ state' = [state EXCEPT ![p] = "failed"]
  <2>1. CASE beginBackoffLocked(p, g)
    BY <2>1 DEF beginBackoffLocked
  <2>2. CASE ~beginBackoffLocked(p, g)
    BY <2>2 DEF Failure
  <2> QED
    BY <2>1, <2>2
<1>4. Abstract!Show(p, "backoff") \/ Abstract!Show(p, "failed")
  BY <1>3, ShowStep
<1> QED
  BY <1>1, <1>2, <1>4 DEF Abstract!GiveWay, Abstract!Childless

\* The child of generation g is gone: an abstract exit, or nothing if it was.
LEMMA ExitAbstract ==
    ASSUME IInv, NEW p \in Procs, NEW g \in Gens, UNCHANGED state,
           alive' = [alive EXCEPT ![p][g] = FALSE]
    PROVE  Abstract!Exit(p) \/ UNCHANGED <<state, Kids>>
<1> USE DEF IInv, TypeOK, ProcessTypeOK
<1>1. CASE alive[p][g]
  <2>1. g \in LiveChildren(p)
    BY <1>1 DEF LiveChildren
  <2>2. ASSUME NEW h \in LiveChildren(p) PROVE h = g
    BY Objects, <2>1, <2>2, LiveIsLatest
  <2>3. LiveChildren(p)' = {}
    BY <2>2 DEF LiveChildren
  <2>4. \A q \in Procs : q # p => LiveChildren(q)' = LiveChildren(q)
    BY DEF LiveChildren
  <2>5. Kids' = [Kids EXCEPT ![p] = {}]
    BY <2>3, <2>4 DEF Kids
  <2> QED
    BY <2>1, <2>5 DEF Abstract!Exit, Abstract!Childless, Kids
<1>2. CASE ~alive[p][g]
  <2>1. alive' = alive
    BY <1>2
  <2> QED
    BY <2>1, KidsKept
<1> QED
  BY <1>1, <1>2

LEMMA LaunchAbstract ==
    ASSUME IInv, NEW p \in Procs, NEW g \in Gens, Launch(p, g)
    PROVE  Abstract!Launch(p)
<1>1. gen[p] = g /\ state[p] = "starting" /\ pc[p][g] = "launch"
  BY Objects, Latest DEF Launch, FieldsAgree
<1>2. LiveChildren(p) = {}
  BY Objects, <1>1, LiveIsLatest DEF Live
<1>3. \A h \in Gens : ~alive[p][h]
  BY <1>2 DEF LiveChildren
<1> USE DEF IInv, TypeOK, ProcessTypeOK
<1>4. alive' = [alive EXCEPT ![p][g] = TRUE] /\ UNCHANGED state
  BY DEF Launch, fieldVars
<1>5. LiveChildren(p)' = {g}
  BY <1>3, <1>4 DEF LiveChildren
<1>6. \A q \in Procs : q # p => LiveChildren(q)' = LiveChildren(q)
  BY <1>4 DEF LiveChildren
<1>7. Kids' = [Kids EXCEPT ![p] = {g}]
  BY <1>5, <1>6 DEF Kids
<1> QED
  BY <1>1, <1>2, <1>4, <1>7 DEF Abstract!Launch, Abstract!Childless, Kids

LEMMA LoopAbstract ==
    ASSUME IInv, NEW p \in Procs, NEW g \in Gens, runLoop(p, g)
    PROVE  [Abstract!Next]_<<state, Kids>>
<1> DEFINE Step ==
        \/ Abstract!Request(p) \/ Abstract!Launch(p) \/ Abstract!Confirm(p)
        \/ Abstract!Exit(p) \/ Abstract!GiveWay(p) \/ Abstract!Retry(p)
        \/ Abstract!Settle(p) \/ UNCHANGED <<state, Kids>>
<1>1. Step => [Abstract!Next]_<<state, Kids>>
  BY DEF Abstract!Next
<1> USE <1>1, KidsKept, ShowStep
<1>2. CASE Begin(p, g)
  <2>1. gen[p] = g /\ state[p] \in {"starting", "backoff"}
    BY Objects, <1>2, Latest DEF Begin, FieldsAgree
  <2>2. Abstract!Show(p, "starting") /\ state' = [state EXCEPT ![p] = "starting"]
    BY <1>2 DEF Begin
  <2>3. CASE state[p] = "starting"
    BY <1>2, <2>2, <2>3 DEF Begin, IInv, TypeOK, ProcessTypeOK
  <2> QED
    BY <2>1, <2>2, <2>3 DEF Abstract!Retry
<1>3. CASE Launch(p, g)
  BY <1>3, LaunchAbstract
<1>4. CASE LaunchFails(p, g)
  BY <1>4, FailureAbstract DEF LaunchFails
<1>5. CASE MarkRunning(p, g)
  <2>1. state[p] = "starting"
    BY Objects, <1>5, Latest DEF MarkRunning, FieldsAgree
  <2>2. Abstract!Show(p, "running")
    BY <1>5 DEF MarkRunning
  <2> QED
    BY <2>1, <2>2 DEF Abstract!Confirm
<1>6. CASE Reap(p, g)
  BY <1>6 DEF Reap
<1>7. CASE KillChild(p, g)
  BY <1>7, ExitAbstract DEF KillChild, fieldVars
<1>8. CASE AwaitExit(p, g)
  BY <1>8 DEF AwaitExit, fieldVars
<1>9. CASE BeginInterval(p, g)
  <2>1. gen[p] = g /\ state[p] = "running" /\ pc[p][g] = "exited"
    BY Objects, <1>9, Latest DEF BeginInterval, FieldsAgree
  <2>2. LiveChildren(p) = {}
    BY Objects, <2>1, LiveIsLatest DEF Live
  <2>3. Abstract!Show(p, "backoff")
    BY <1>9 DEF BeginInterval, beginBackoffLocked
  <2> QED
    BY <2>1, <2>2, <2>3 DEF Abstract!GiveWay, Abstract!Childless
<1>10. CASE ResetHealthy(p, g)
  BY <1>10 DEF ResetHealthy
<1>11. CASE AccountExit(p, g)
  BY <1>11, FailureAbstract DEF AccountExit
<1>12. CASE WaitReturns(p, g)
  BY <1>12 DEF WaitReturns, fieldVars
<1>13. CASE ClearWake(p, g)
  BY <1>13 DEF ClearWake
<1>14. CASE Cleanup(p, g)
  <2>1. CASE gen[p] # g
    BY <1>14, <2>1 DEF Cleanup
  <2>2. CASE gen[p] = g /\ state[p] = "failed"
    BY <1>14, <2>2 DEF Cleanup, IInv, TypeOK, ProcessTypeOK
  <2>3. CASE gen[p] = g /\ state[p] # "failed"
    <3>1. FieldsAgree(p, g) /\ pc[p][g] = "return"
      BY <1>14, <2>3 DEF Cleanup, IInv, LoopInv, Gens
    <3>2. state[p] \in {"running", "backoff"}
      BY <2>3, <3>1 DEF FieldsAgree
    <3>3. LiveChildren(p) = {}
      BY Objects, <2>3, <3>1, LiveIsLatest DEF Live
    <3>4. state' = [state EXCEPT ![p] = "stopped"] \/ state' = [state EXCEPT ![p] = "disabled"]
      BY <1>14, <2>3 DEF Cleanup, NewState
    <3>5. Abstract!Show(p, "stopped") \/ Abstract!Show(p, "disabled")
      BY <1>14, <3>4 DEF Cleanup
    <3> QED
      BY <3>2, <3>3, <3>5 DEF Abstract!Settle, Abstract!Childless
  <2> QED
    BY <2>1, <2>2, <2>3
<1>15. CASE ChildExits(p, g)
  BY <1>15, ExitAbstract DEF ChildExits, fieldVars
<1> QED
  BY <1>1, <1>2, <1>3, <1>4, <1>5, <1>6, <1>7, <1>8, <1>9, <1>10, <1>11, <1>12, <1>13,
     <1>14, <1>15
  DEF runLoop, Scheduled, WaitSignalled

\* Every step of the locks, goroutines and channels is a step of the abstract
\* life of an angl, or none.
LEMMA StepAbstract == IInv /\ [Next]_vars => [Abstract!Next]_<<state, Kids>>
<1> SUFFICES ASSUME IInv, [Next]_vars PROVE [Abstract!Next]_<<state, Kids>>
  OBVIOUS
<1>1. ASSUME NEW p \in Procs, Start(p) PROVE [Abstract!Next]_<<state, Kids>>
  BY <1>1, StartAbstract DEF Abstract!Next
<1>2. ASSUME UNCHANGED <<state, alive>> PROVE [Abstract!Next]_<<state, Kids>>
  BY <1>2, KidsKept
<1>3. ASSUME NEW p \in Procs, ForceWait(p) PROVE [Abstract!Next]_<<state, Kids>>
  BY <1>2, <1>3 DEF ForceWait
<1>4. ASSUME NEW c \in Callers, NEW p \in Procs, Capture(c, p)
      PROVE  [Abstract!Next]_<<state, Kids>>
  BY <1>2, <1>4 DEF Capture, processVars, fieldVars, loopVars
<1>5. ASSUME NEW c \in Callers, StopCancel(c) \/ StopReturn(c)
      PROVE  [Abstract!Next]_<<state, Kids>>
  BY <1>2, <1>5 DEF StopCancel, StopReturn, Cancel, processVars, fieldVars, loopVars
<1>6. CASE ParentCancel \/ UNCHANGED vars
  BY <1>2, <1>6 DEF ParentCancel, vars, processVars, fieldVars, loopVars
<1> QED
  BY <1>1, <1>3, <1>4, <1>5, <1>6, LoopAbstract
  DEF Next, Stop, StopRunning, CallStart, CallExec, Exec, Loop

\* The process object, under any callers, implements Lifecycle.
THEOREM Refinement == Spec => ImplementsLifecycle
<1>1. <<state, Kids>> = Abstract!vars
  BY DEF Abstract!vars, Kids
<1> QED
  BY <1>1, InitAbstract, StepAbstract, Invariance, PTL
  DEF Spec, ImplementsLifecycle, Abstract!Spec, Abstract!vars, Kids
=============================================================================
