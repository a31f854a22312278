----------------------------- MODULE Autoscaler ------------------------------
(***************************************************************************)
(* SpeakerAutoscaler (speaker/autoscaler.py): each observation of the load *)
(* decides on the number of workers.  Of the time the code compares only   *)
(* what has passed since it last scaled, and of the low windows whether    *)
(* they are enough; both are kept up to the value from which on more of    *)
(* them changes nothing.  Observations come in the order of their times;   *)
(* one with a real-time factor that is not positive raises and is no step. *)
(***************************************************************************)
EXTENDS Integers, Sequences

CONSTANTS
    Minimum, Maximum,  \* minimum_replicas, maximum_replicas
    Cooldown,          \* cooldown_seconds
    Windows,           \* scale_down_windows
    Bases,             \* the workers the arriving audio by itself asks for
    Backlogs,          \* backlogs, in quarters of backlog_target_seconds
    Intervals          \* seconds between two observations

ASSUME ScalerAssumption ==
    /\ Minimum \in Nat \ {0} /\ Maximum \in Nat /\ Minimum <= Maximum
    /\ Cooldown \in Nat /\ Windows \in Nat
    /\ Bases \subseteq Nat /\ Backlogs \subseteq Nat /\ Intervals \subseteq Nat

VARIABLES
    replicas,      \* current_replicas
    sinceScale,    \* now_seconds - _last_scale_at, up to the cooldown
    lowWindows,    \* _low_load_windows, up to scale_down_windows
    recent,        \* history: the latest observations, up to scale_down_windows
    age,           \* history: for how long replicas has not changed, up to the cooldown
    closest        \* history: the shortest such time that a change has ended

scalerVars == <<replicas, sinceScale, lowWindows, recent, age, closest>>

\* idle: worker_utilization is below 0.65 of target_utilization.
Load == [base: Bases, backlog: Backlogs, idle: BOOLEAN]

ScalerTypeOK ==
    /\ replicas \in Minimum .. Maximum
    /\ sinceScale \in 0 .. Cooldown
    /\ lowWindows \in 0 .. Windows
    /\ recent \in Seq(Load) /\ Len(recent) <= Windows
    /\ age \in 0 .. Cooldown /\ closest \in 0 .. Cooldown

ScalerInit ==
    /\ replicas = Minimum
    /\ sinceScale = Cooldown    \* _last_scale_at is minus infinity
    /\ lowWindows = 0
    /\ recent = <<>>
    /\ age = Cooldown /\ closest = Cooldown

Least(a, b)    == IF a < b THEN a ELSE b
Greatest(a, b) == IF a > b THEN a ELSE b

\* One worker more for every full target of backlog beyond the first
BacklogCorrection(o) == Greatest(0, (o.backlog + 3) \div 4 - 1)

\* Mutant of Desired: no lower bound.
DesiredUnbounded(o) == Least(Maximum, o.base + BacklogCorrection(o))

Desired(o) == Least(Maximum, Greatest(Minimum, o.base + BacklogCorrection(o)))

LowLoad(o) == Desired(o) < replicas /\ o.idle /\ o.backlog < 1

Elapsed(dt)    == Least(Cooldown, sinceScale + dt)
InCooldown(dt) == Elapsed(dt) < Cooldown

Scale(o) ==
    /\ replicas' = Desired(o)
    /\ sinceScale' = 0
    /\ lowWindows' = 0

\* Mutant of Hold: what is refused in a cooldown starts it again.
HoldAgain(dt) == UNCHANGED replicas /\ sinceScale' = 0

Hold(dt) == UNCHANGED replicas /\ sinceScale' = Elapsed(dt)

ScaleUp(o, dt) ==
    /\ Desired(o) > replicas /\ ~InCooldown(dt)
    /\ Scale(o)

WaitToGrow(o, dt) ==
    /\ Desired(o) > replicas /\ InCooldown(dt)
    /\ Hold(dt)
    /\ lowWindows' = 0

\* Mutant of Reset: windows that are not consecutive count.
ResetNever == UNCHANGED lowWindows

Reset == lowWindows' = 0

Stay(o, dt) ==
    /\ Desired(o) <= replicas /\ ~LowLoad(o)
    /\ Hold(dt)
    /\ Reset

ScaleDown(o, dt) ==
    /\ LowLoad(o) /\ lowWindows + 1 >= Windows /\ ~InCooldown(dt)
    /\ Scale(o)

CountLow(o, dt) ==
    /\ LowLoad(o) /\ (lowWindows + 1 < Windows \/ InCooldown(dt))
    /\ Hold(dt)
    /\ lowWindows' = Least(Windows, lowWindows + 1)

Observe(o, dt) ==
    /\ \/ ScaleUp(o, dt) \/ WaitToGrow(o, dt)
       \/ Stay(o, dt)
       \/ ScaleDown(o, dt) \/ CountLow(o, dt)
    /\ recent' = LET all == Append(recent, o)
                 IN  IF Len(all) > Windows THEN Tail(all) ELSE all
    /\ IF replicas' = replicas
       THEN age' = Least(Cooldown, age + dt) /\ UNCHANGED closest
       ELSE age' = 0 /\ closest' = Least(closest, age + dt)

ScalerNext == \E o \in Load, dt \in Intervals : Observe(o, dt)

\* Somebody keeps observing, and time passes between the observations.
ScalerSpec ==
    /\ ScalerInit /\ [][ScalerNext]_scalerVars
    /\ WF_scalerVars(\E o \in Load, dt \in Intervals \ {0} : Observe(o, dt))

-----------------------------------------------------------------------------
(***************************************************************************)
(* Properties                                                              *)
(***************************************************************************)

(***************************************************************************)
(* Hysteresis and cooldown, told by the history of what was observed: two  *)
(* changes of the replicas are a cooldown apart, and workers are taken     *)
(* away only after scale_down_windows observations in a row, the last one  *)
(* included, of which every one asked for fewer workers than there are,    *)
(* with idle workers and next to no backlog.                               *)
(***************************************************************************)
ChangesAreEarned ==
    [][ /\ closest' >= Cooldown
        /\ replicas' < replicas =>
              /\ Len(recent') >= Windows
              /\ \A i \in DOMAIN recent' : LowLoad(recent'[i])
      ]_scalerVars

(***************************************************************************)
(* The scaler follows a load that has settled: if from some point on at    *)
(* least d workers are asked for, there are at least d in the end; if no   *)
(* more than d are asked for, and the workers idle without a backlog, no   *)
(* more than d are kept.  Cooldowns and windows only delay it.             *)
(***************************************************************************)
Latest == recent[Len(recent)]

AsksFor(d)     == recent # <<>> /\ Desired(Latest) >= d
NeedsNoMore(d) == recent # <<>> /\ Desired(Latest) <= d /\ Latest.idle /\ Latest.backlog < 1

FollowsDemand ==
    \A d \in Minimum .. Maximum :
        /\ <>[]AsksFor(d) => <>[](replicas >= d)
        /\ <>[]NeedsNoMore(d) => <>[](replicas <= d)

=============================================================================
