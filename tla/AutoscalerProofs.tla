--------------------------- MODULE AutoscalerProofs ---------------------------
(***************************************************************************)
(* Proofs about Autoscaler for every bound on the replicas, every cooldown *)
(* and number of windows, and all loads and intervals.                     *)
(***************************************************************************)
EXTENDS Autoscaler, TLAPS

(***************************************************************************)
(* What ties the counters of the code to the history: the time since the   *)
(* last scaling is the time since the replicas changed, every change so    *)
(* far came after a cooldown, and the low windows counted are the latest   *)
(* observations, each low for the replicas there are.                      *)
(***************************************************************************)
Counted == (Len(recent) - lowWindows) + 1 .. Len(recent)

ScalerInv ==
    /\ ScalerTypeOK
    /\ age = sinceScale
    /\ closest = Cooldown
    /\ lowWindows <= Len(recent)
    /\ \A i \in Counted : LowLoad(recent[i])

-----------------------------------------------------------------------------

\* The replicas a load asks for stay within the bounds (autoscaler.py:55-58).
LEMMA DesiredInBounds ==
    ASSUME NEW o \in Load
    PROVE  Desired(o) \in Minimum .. Maximum
<1>1. BacklogCorrection(o) \in Nat
  <2>1. o.backlog \in Nat
    BY ScalerAssumption DEF Load
  <2>2. (o.backlog + 3) \div 4 \in Int
    BY <2>1
  <2> QED
    BY <2>2 DEF BacklogCorrection, Greatest
<1>2. o.base \in Nat
  BY ScalerAssumption DEF Load
<1> QED
  BY <1>1, <1>2, ScalerAssumption, SMT DEF Desired, Least, Greatest

\* Elapsed time is a number up to the cooldown, and all of it outside one.
LEMMA ElapsedIsBounded ==
    ASSUME ScalerTypeOK, NEW dt \in Intervals
    PROVE  /\ Elapsed(dt) \in 0 .. Cooldown
           /\ ~InCooldown(dt) => sinceScale + dt >= Cooldown
BY ScalerAssumption, SMT DEF ScalerTypeOK, Elapsed, InCooldown, Least

\* The observations kept after one more: the latest, and what came before it.
LEMMA RecentAfter ==
    ASSUME ScalerTypeOK, NEW o \in Load,
           recent' = LET all == Append(recent, o)
                     IN  IF Len(all) > Windows THEN Tail(all) ELSE all
    PROVE  /\ recent' \in Seq(Load)
           /\ Len(recent') <= Windows
           /\ Len(recent') = IF Len(recent) + 1 > Windows THEN Len(recent) ELSE Len(recent) + 1
           /\ \A k \in 0 .. Len(recent') - 1 :
                 recent'[Len(recent') - k] = IF k = 0 THEN o ELSE recent[Len(recent) + 1 - k]
<1> DEFINE all == Append(recent, o)
<1>1. /\ recent \in Seq(Load) /\ Len(recent) \in Nat /\ Len(recent) <= Windows
      /\ Windows \in Nat
  BY ScalerAssumption DEF ScalerTypeOK
<1>2. /\ all \in Seq(Load) /\ Len(all) = Len(recent) + 1
      /\ \A i \in 1 .. Len(recent) : all[i] = recent[i]
      /\ all[Len(recent) + 1] = o
  BY <1>1
<1>3. CASE Len(all) > Windows
  <2>1. /\ recent' = Tail(all) /\ all # <<>>
    BY <1>2, <1>3
  <2>2. /\ recent' \in Seq(Load) /\ Len(recent') = Len(recent)
        /\ \A i \in 1 .. Len(recent) : recent'[i] = all[i + 1]
    BY <1>1, <1>2, <2>1
  <2> QED
    BY <1>1, <1>2, <1>3, <2>2
<1>4. CASE ~(Len(all) > Windows)
  BY <1>1, <1>2, <1>4
<1> QED
  BY <1>3, <1>4

\* If the counted windows are low and so is the new load, then the new load
\* and as many windows before it as were counted are low.
LEMMA LatestAreLow ==
    ASSUME ScalerInv, NEW o \in Load, LowLoad(o),
           recent' = LET all == Append(recent, o)
                     IN  IF Len(all) > Windows THEN Tail(all) ELSE all
    PROVE  /\ Least(Windows, lowWindows + 1) <= Len(recent')
           /\ \A i \in Len(recent') - lowWindows .. Len(recent') :
                 i >= 1 => LowLoad(recent'[i])
<1>1. /\ Len(recent) \in Nat /\ Len(recent') \in Nat /\ Windows \in Nat
      /\ lowWindows \in 0 .. Windows /\ lowWindows <= Len(recent)
      /\ Len(recent) <= Windows
  BY ScalerAssumption, RecentAfter DEF ScalerInv, ScalerTypeOK
<1>2. Len(recent') = IF Len(recent) + 1 > Windows THEN Len(recent) ELSE Len(recent) + 1
  BY RecentAfter DEF ScalerInv
<1>3. Least(Windows, lowWindows + 1) <= Len(recent')
  BY <1>1, <1>2 DEF Least
<1>4. ASSUME NEW i \in Len(recent') - lowWindows .. Len(recent'), i >= 1
      PROVE  LowLoad(recent'[i])
  <2> DEFINE k == Len(recent') - i
  <2>1. k \in 0 .. Len(recent') - 1 /\ Len(recent') - k = i /\ k <= lowWindows
    BY <1>1, <1>4
  <2>2. recent'[i] = IF k = 0 THEN o ELSE recent[Len(recent) + 1 - k]
    BY <2>1, RecentAfter DEF ScalerInv
  <2>3. CASE k = 0
    BY <2>2, <2>3
  <2>4. CASE k # 0
    <3>1. k \in 1 .. lowWindows
      BY <1>1, <2>1, <2>4
    <3> HIDE DEF k
    <3>2. Len(recent) + 1 - k \in Counted
      BY <1>1, <3>1 DEF Counted
    <3> QED
      BY <2>2, <2>4, <3>2 DEF ScalerInv
  <2> QED
    BY <2>3, <2>4
<1> QED
  BY <1>3, <1>4

\* The scaler starts with the fewest replicas and nothing counted.
LEMMA InitInv == ScalerInit => ScalerInv
<1> SUFFICES ASSUME ScalerInit PROVE ScalerInv
  OBVIOUS
<1>1. recent \in Seq(Load) /\ Len(recent) = 0
  BY DEF ScalerInit
<1>2. Counted = {}
  BY <1>1 DEF ScalerInit, Counted
<1> QED
  BY <1>1, <1>2, ScalerAssumption DEF ScalerInit, ScalerInv, ScalerTypeOK

\* A scaling: never within a cooldown, and the counters start again.
LEMMA ScaleInv ==
    ASSUME ScalerInv, NEW o \in Load, NEW dt \in Intervals, Observe(o, dt),
           Scale(o), ~InCooldown(dt), Desired(o) # replicas
    PROVE  ScalerInv'
<1>1. /\ replicas' \in Minimum .. Maximum /\ replicas' # replicas
      /\ sinceScale' = 0 /\ lowWindows' = 0
  BY DesiredInBounds DEF Scale
<1>2. /\ recent' \in Seq(Load) /\ Len(recent') <= Windows
  BY RecentAfter DEF Observe, ScalerInv
<1>3. age' = 0 /\ closest' = Cooldown
  <2>1. age' = 0 /\ closest' = Least(closest, age + dt)
    BY <1>1 DEF Observe
  <2>2. age + dt >= Cooldown /\ closest = Cooldown
    BY ElapsedIsBounded DEF ScalerInv
  <2>3. age + dt \in Int /\ Cooldown \in Int
    BY ScalerAssumption DEF ScalerInv, ScalerTypeOK
  <2> QED
    BY <2>1, <2>2, <2>3 DEF Least
<1>4. Counted' = {} /\ Len(recent') \in Nat
  BY <1>1, <1>2 DEF Counted
<1> QED
  BY <1>1, <1>2, <1>3, <1>4, ScalerAssumption DEF ScalerInv, ScalerTypeOK

\* What a step that holds the replicas does to the times.
LEMMA HoldTimes ==
    ASSUME ScalerInv, NEW o \in Load, NEW dt \in Intervals, Observe(o, dt), Hold(dt)
    PROVE  /\ replicas' = replicas /\ closest' = Cooldown
           /\ sinceScale' \in 0 .. Cooldown /\ age' = sinceScale'
<1>1. replicas' = replicas /\ sinceScale' = Elapsed(dt)
  BY DEF Hold
<1>2. age' = Least(Cooldown, age + dt) /\ closest' = closest
  BY <1>1 DEF Observe
<1>3. sinceScale' \in 0 .. Cooldown
  BY <1>1, ElapsedIsBounded DEF ScalerInv
<1> QED
  BY <1>1, <1>2, <1>3 DEF ScalerInv, Elapsed

\* An observation that holds the replicas and starts the count again.
LEMMA HoldInv ==
    ASSUME ScalerInv, NEW o \in Load, NEW dt \in Intervals, Observe(o, dt),
           Hold(dt), lowWindows' = 0
    PROVE  ScalerInv'
<1>1. /\ recent' \in Seq(Load) /\ Len(recent') <= Windows /\ Len(recent') \in Nat
  BY RecentAfter DEF Observe, ScalerInv
<1>2. Counted' = {}
  BY <1>1 DEF Counted
<1> QED
  BY <1>1, <1>2, HoldTimes, ScalerAssumption DEF ScalerInv, ScalerTypeOK

\* An observation that is counted as low.
LEMMA CountInv ==
    ASSUME ScalerInv, NEW o \in Load, NEW dt \in Intervals, Observe(o, dt),
           CountLow(o, dt)
    PROVE  ScalerInv'
<1>1. /\ recent' \in Seq(Load) /\ Len(recent') <= Windows /\ Len(recent') \in Nat
  BY RecentAfter DEF Observe, ScalerInv
<1>2. /\ LowLoad(o) /\ lowWindows' = Least(Windows, lowWindows + 1)
      /\ Hold(dt)
  BY DEF CountLow
<1>3. /\ replicas' = replicas /\ closest' = Cooldown
      /\ sinceScale' \in 0 .. Cooldown /\ age' = sinceScale'
  BY <1>2, HoldTimes
<1>4. Windows \in Nat /\ lowWindows \in 0 .. Windows
  BY ScalerAssumption DEF ScalerInv, ScalerTypeOK
<1>5. /\ lowWindows' \in 0 .. Windows /\ lowWindows' <= lowWindows + 1
  BY <1>2, <1>4 DEF Least
<1>6. lowWindows' <= Len(recent')
  BY <1>2, LatestAreLow DEF Observe
<1>7. ASSUME NEW i \in Counted' PROVE LowLoad(recent[i])'
  <2>1. i \in Len(recent') - lowWindows .. Len(recent') /\ i >= 1
    BY <1>1, <1>4, <1>5, <1>6 DEF Counted
  <2>2. LowLoad(recent'[i])
    BY <1>2, <2>1, LatestAreLow DEF Observe
  <2> QED
    BY <1>3, <2>2 DEF LowLoad
<1> QED
  BY <1>1, <1>3, <1>5, <1>6, <1>7, ScalerAssumption DEF ScalerInv, ScalerTypeOK

\* Every observation keeps the invariant.
LEMMA StepInv == ScalerInv /\ [ScalerNext]_scalerVars => ScalerInv'
<1> SUFFICES ASSUME ScalerInv, [ScalerNext]_scalerVars PROVE ScalerInv'
  OBVIOUS
<1>1. ASSUME NEW o \in Load, NEW dt \in Intervals, Observe(o, dt) PROVE ScalerInv'
  <2>0. Desired(o) \in Int /\ replicas \in Int
    BY DesiredInBounds, ScalerAssumption DEF ScalerInv, ScalerTypeOK
  <2>1. CASE ScaleUp(o, dt)
    BY <1>1, <2>0, <2>1, ScaleInv DEF ScaleUp
  <2>2. CASE WaitToGrow(o, dt)
    BY <1>1, <2>2, HoldInv DEF WaitToGrow
  <2>3. CASE Stay(o, dt)
    BY <1>1, <2>3, HoldInv DEF Stay, Reset
  <2>4. CASE ScaleDown(o, dt)
    BY <1>1, <2>0, <2>4, ScaleInv DEF ScaleDown, LowLoad
  <2>5. CASE CountLow(o, dt)
    BY <1>1, <2>5, CountInv
  <2> QED
    BY <1>1, <2>1, <2>2, <2>3, <2>4, <2>5 DEF Observe
<1>2. CASE UNCHANGED scalerVars
  BY <1>2 DEF scalerVars, ScalerInv, ScalerTypeOK, Counted, LowLoad
<1> QED
  BY <1>1, <1>2 DEF ScalerNext

\* What ChangesAreEarned says of a step follows from the invariant.
LEMMA StepIsEarned ==
    ASSUME ScalerInv, ScalerNext
    PROVE  replicas' < replicas =>
              /\ Len(recent') >= Windows
              /\ \A i \in DOMAIN recent' : LowLoad(recent'[i])
<1> SUFFICES ASSUME replicas' < replicas
             PROVE  /\ Len(recent') >= Windows
                    /\ \A i \in DOMAIN recent' : LowLoad(recent'[i])
  OBVIOUS
<1>1. PICK o \in Load, dt \in Intervals : Observe(o, dt)
  BY DEF ScalerNext
<1>2. Desired(o) \in Int /\ replicas \in Int
  BY DesiredInBounds, ScalerAssumption DEF ScalerInv, ScalerTypeOK
<1>3. ScaleDown(o, dt)
  BY <1>1, <1>2 DEF Observe, ScaleUp, Scale, WaitToGrow, Stay, CountLow, Hold
<1>4. LowLoad(o) /\ lowWindows + 1 >= Windows
  BY <1>3 DEF ScaleDown
<1>5. /\ recent' \in Seq(Load) /\ Len(recent') \in Nat /\ Len(recent') <= Windows
      /\ Windows \in Nat /\ lowWindows \in Nat
  BY <1>1, RecentAfter, ScalerAssumption DEF Observe, ScalerInv, ScalerTypeOK
<1>6. Least(Windows, lowWindows + 1) <= Len(recent')
  BY <1>1, <1>4, LatestAreLow DEF Observe
<1>7. Len(recent') >= Windows
  BY <1>4, <1>5, <1>6 DEF Least
<1>8. ASSUME NEW i \in DOMAIN recent' PROVE LowLoad(recent'[i])
  <2>1. i \in Len(recent') - lowWindows .. Len(recent') /\ i >= 1
    BY <1>4, <1>5
  <2> QED
    BY <1>1, <1>4, <2>1, LatestAreLow DEF Observe
<1> QED
  BY <1>7, <1>8

-----------------------------------------------------------------------------
(***************************************************************************)
(* Whatever it observes, the scaler keeps the replicas between the minimum *)
(* and the maximum and its counters within the cooldown and the windows    *)
(* (observe in autoscaler.py).                                             *)
(***************************************************************************)
THEOREM ScalerTypeCorrect == ScalerSpec => []ScalerTypeOK
<1>1. ScalerInv => ScalerTypeOK
  BY DEF ScalerInv
<1> QED
  BY InitInv, StepInv, <1>1, PTL DEF ScalerSpec

(***************************************************************************)
(* Two changes are a cooldown apart and workers are taken away only after  *)
(* scale_down_windows low observations in a row, for every cooldown, every *)
(* number of windows (zero included) and every load.                       *)
(***************************************************************************)
THEOREM ScalingIsEarned == ScalerSpec => ChangesAreEarned
<1> DEFINE Earned == /\ closest' >= Cooldown
                     /\ replicas' < replicas =>
                           /\ Len(recent') >= Windows
                           /\ \A i \in DOMAIN recent' : LowLoad(recent'[i])
<1>1. ScalerInv /\ ScalerInv' /\ [ScalerNext]_scalerVars => [Earned]_scalerVars
  <2> SUFFICES ASSUME ScalerInv, ScalerInv', ScalerNext PROVE Earned
    OBVIOUS
  <2>1. closest' >= Cooldown
    BY ScalerAssumption DEF ScalerInv
  <2> QED
    BY <2>1, StepIsEarned
<1> QED
  BY InitInv, StepInv, <1>1, PTL DEF ScalerSpec, ChangesAreEarned

=============================================================================
