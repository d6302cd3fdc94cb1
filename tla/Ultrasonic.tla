---------------------------- MODULE Ultrasonic ----------------------------
(***************************************************************************)
(* The ultrasonic board (0_control_mcu_2/main.c): a loop that measures one *)
(* sensor after the other and sets the alert pin of the robot, and the     *)
(* interrupt handler for the bytes of the LCD, during which the loop       *)
(* stands still while the sensors do not.                                  *)
(*                                                                         *)
(* Time passes in ticks of 100 us, the loop's own unit: one tick for each  *)
(* round of check_ultra's loops, any number in the interrupt handler.      *)
(*                                                                         *)
(* The sensor is outside the code: after a trigger it waits, holds its     *)
(* echo pin high for as long as the echo takes, and ignores triggers until *)
(* then.                                                                   *)
(***************************************************************************)
EXTENDS Integers

CONSTANTS Devs,        \* number of sensors
          Timeout,     \* ULTRA_TIMEOUT
          TooClose,    \* too_close_cm
          Latency,     \* ticks from a trigger to the echo pulse
          Echoes       \* lengths of echo pulses, in ticks; 0 when there is none

ASSUME UltraAssumption ==
    /\ Devs \in Nat \ {0} /\ Timeout \in 0..35 /\ TooClose \in Nat
    /\ Latency \in Nat \ {0} /\ Echoes \subseteq Nat

Sensors == 0..(Devs - 1)
Far == 100

VARIABLES pc, dev, count,     \* check_ultra: place, sensor, count
          dist,               \* dist_0, dist_1, dist_2
          alert,              \* the pin to the robot
          delay, high,        \* of each sensor: ticks to the echo, ticks of it left
          target,             \* the echo that each sensor would get now
          near, seen,         \* history: sensors near something all the round, sometime
          busy, disturbed     \* history: a trigger was ignored; the handler ran

loop == <<pc, dev, count, dist, alert>>
history == <<near, seen, busy, disturbed>>
vars == <<pc, dev, count, dist, alert, delay, high, target, near, seen, busy, disturbed>>

\* CYCLES_TO_100US * US_TO_CM * count, truncated.
Cm(n) == (34 * n) \div 10
IsNear(echo) == echo > 0 /\ Cm(echo) < TooClose
NearNow == {s \in Sensors : IsNear(target[s])}

\* A sensor answers before the first loop gives up; with the constants of main.c (10,
\* 30 and 100), an echo that outlasts the second loop is none of something near, and
\* the distance for no echo is not too close.
ASSUME TimingAssumption ==
    Latency <= 3 * Timeout /\ TooClose <= Cm(Timeout + 2) /\ TooClose <= Far

Init ==
    /\ pc = "trigger" /\ dev = 0 /\ count = 0
    /\ dist = [s \in Sensors |-> Far] /\ alert = FALSE
    /\ delay = [s \in Sensors |-> 0] /\ high = [s \in Sensors |-> 0]
    /\ target \in [Sensors -> Echoes]
    /\ near = NearNow /\ seen = NearNow
    /\ busy = FALSE /\ disturbed = FALSE

----------------------------------------------------------------------------
(* Outside the loop                                                          *)

\* One tick for all sensors.
Tick ==
    /\ delay' = [s \in Sensors |-> IF delay[s] > 0 THEN delay[s] - 1 ELSE 0]
    /\ high' = [s \in Sensors |-> IF delay[s] = 0 /\ high[s] > 0 THEN high[s] - 1 ELSE high[s]]

Echo(s) == delay[s] = 0 /\ high[s] > 0

\* Something comes closer to a sensor or goes away.
ObjectMoves ==
    /\ \E s \in Sensors, e \in Echoes : target' = [target EXCEPT ![s] = e]
    /\ near' = near \cap {s \in Sensors : IsNear(target'[s])}
    /\ seen' = seen \cup {s \in Sensors : IsNear(target'[s])}
    /\ UNCHANGED <<loop, delay, high, busy, disturbed>>

\* USCIB0_ISR with i2c_data_handler: the LCD's delays, tick by tick.
LcdByte ==
    /\ Tick
    /\ disturbed' = TRUE
    /\ UNCHANGED <<loop, target, near, seen, busy>>

----------------------------------------------------------------------------
(* check_ultra for the sensor dev                                            *)

\* trig_ultra.
Trigger ==
    /\ pc = "trigger"
    /\ IF delay[dev] = 0 /\ high[dev] = 0
       THEN /\ delay' = [delay EXCEPT ![dev] = Latency]
            /\ high' = [high EXCEPT ![dev] = target[dev]]
            /\ UNCHANGED busy
       ELSE busy' = TRUE /\ UNCHANGED <<delay, high>>
    /\ pc' = "low" /\ count' = 0
    /\ UNCHANGED <<dev, dist, alert, target, near, seen, disturbed>>

\* return cm; the next sensor, or the end of the round.
Return(cm) ==
    /\ dist' = [dist EXCEPT ![dev] = cm]
    /\ count' = 0
    /\ IF dev + 1 < Devs THEN dev' = dev + 1 /\ pc' = "trigger"
                         ELSE dev' = 0 /\ pc' = "decide"

\* Mutated form of AwaitEcho: no echo is taken for the distance 0.
AwaitEchoZero ==
    /\ pc = "low"
    /\ IF count > 3 * Timeout THEN Return(0)
       ELSE IF Echo(dev) THEN pc' = "high" /\ count' = 0 /\ UNCHANGED <<dev, dist>>
       ELSE count' = count + 1 /\ UNCHANGED <<pc, dev, dist>>
    /\ Tick
    /\ UNCHANGED <<alert, target, history>>

\* A round of the first loop: until the echo, at most 3 * ULTRA_TIMEOUT.
AwaitEcho ==
    /\ pc = "low"
    /\ IF count > 3 * Timeout THEN Return(Far)
       ELSE IF Echo(dev) THEN pc' = "high" /\ count' = 0 /\ UNCHANGED <<dev, dist>>
       ELSE count' = count + 1 /\ UNCHANGED <<pc, dev, dist>>
    /\ Tick
    /\ UNCHANGED <<alert, target, history>>

\* Mutated form of Measure: the end of the echo is awaited without a timeout.
MeasureOn ==
    /\ pc = "high"
    /\ IF ~Echo(dev) THEN Return(Cm(count + 1))
       ELSE count' = count + 1 /\ UNCHANGED <<pc, dev, dist>>
    /\ Tick
    /\ UNCHANGED <<alert, target, history>>

\* A round of the second loop: until the end of the echo, at most ULTRA_TIMEOUT.
Measure ==
    /\ pc = "high"
    /\ IF count > Timeout THEN Return(Far)
       ELSE IF ~Echo(dev) THEN Return(Cm(count + 1))
       ELSE count' = count + 1 /\ UNCHANGED <<pc, dev, dist>>
    /\ Tick
    /\ UNCHANGED <<alert, target, history>>

NewRound == near' = NearNow /\ seen' = NearNow /\ busy' = FALSE /\ disturbed' = FALSE

\* Mutated form of Decide: the last sensor alone decides.
DecideLast ==
    /\ pc = "decide"
    /\ alert' = (dist[Devs - 1] < TooClose)
    /\ pc' = "trigger"
    /\ NewRound
    /\ UNCHANGED <<dev, count, dist, delay, high, target>>

\* The end of a round of main's loop.
Decide ==
    /\ pc = "decide"
    /\ alert' = (\E s \in Sensors : dist[s] < TooClose)
    /\ pc' = "trigger"
    /\ NewRound
    /\ UNCHANGED <<dev, count, dist, delay, high, target>>

Main == Trigger \/ AwaitEcho \/ Measure \/ Decide

Next == Main \/ LcdByte \/ ObjectMoves

Spec == Init /\ [][Next]_vars

\* The loop runs.  That the LCD's bytes leave it time is an assumption of the
\* property that needs it.
FairSpec == Spec /\ WF_vars(Main)

----------------------------------------------------------------------------
(* Properties                                                                *)

\* Types and ranges: a distance fits the int8_t it is stored in (main.c:100-102) only
\* because check_ultra gives up in time; the counts stay below the timeouts.
TypeOK ==
    /\ pc \in {"trigger", "low", "high", "decide"} /\ dev \in Sensors
    /\ count \in 0..(3 * Timeout + 1)
    /\ pc = "high" => count <= Timeout + 1
    /\ dist \in [Sensors -> 0..127] /\ alert \in BOOLEAN
    /\ delay \in [Sensors -> 0..Latency] /\ target \in [Sensors -> Echoes]
    /\ high \in [Sensors -> Nat] /\ \A s \in Sensors : \E e \in Echoes : high[s] <= e
    /\ near \subseteq seen /\ seen \subseteq Sensors
    /\ busy \in BOOLEAN /\ disturbed \in BOOLEAN

\* The alert is taken back only after a round in which no sensor had something near
\* all the time; or a sensor was still busy with an earlier echo, or the LCD kept
\* the loop from counting (main.c:98-117, 219-250).
HoldsAlert == [][alert /\ ~alert' => near = {} \/ busy \/ disturbed]_vars

\* The alert is given only after a round in which something was near some sensor;
\* or for one of the same two reasons.
TrueAlarm == [][~alert /\ alert' => seen # {} \/ busy \/ disturbed]_vars

\* Something that stays near a sensor ends in a lasting alert, once the LCD is left
\* alone: no echo of earlier, longer distances hides it for ever.
NearIsAlerted ==
    \A s \in Sensors : <>[](s \in near /\ ~disturbed) => <>[]alert
===========================================================================
