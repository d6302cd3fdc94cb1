-------------------------- MODULE UltrasonicProofs --------------------------
(***************************************************************************)
(* Proofs about Ultrasonic for any number of sensors, any echoes and any   *)
(* timeout the code's type allows: every count and every distance stays in *)
(* its range, so the int8_t of a distance never overflows; and the alert   *)
(* of a round that nothing disturbed is right.                             *)
(***************************************************************************)
EXTENDS Ultrasonic, TLAPS

USE UltraAssumption DEF Sensors

\* The distance of a count that the second loop returns.
LEMMA CmRange ==
  ASSUME NEW n \in 0..(Timeout + 2) PROVE Cm(n) \in 0..127
<1>1. n \in 0..37
  OBVIOUS
<1>2. 34 * n \in 0..1258
  BY <1>1
<1> QED
  BY <1>2 DEF Cm

LEMMA NearSensors == NearNow \subseteq Sensors
  BY DEF NearNow

LEMMA InitTypeOK == Init => TypeOK
<1> SUFFICES ASSUME Init PROVE TypeOK
  OBVIOUS
<1>1. \A s \in Sensors : \E e \in Echoes : high[s] <= e
  <2>1. ASSUME NEW s \in Sensors PROVE \E e \in Echoes : high[s] <= e
    <3>1. target[s] \in Echoes /\ high[s] = 0 /\ target[s] \in Nat
      BY DEF Init
    <3> QED
      BY <3>1
  <2> QED
    BY <2>1
<1>2. near \subseteq seen /\ seen \subseteq Sensors
  BY NearSensors DEF Init
<1>3. /\ dist \in [Sensors -> 0..127] /\ delay \in [Sensors -> 0..Latency]
      /\ high \in [Sensors -> Nat]
  BY DEF Init, Far
<1>4. dev \in Sensors /\ count \in 0..(3 * Timeout + 1) /\ count <= Timeout + 1
  BY DEF Init
<1> QED
  BY <1>1, <1>2, <1>3, <1>4 DEF Init, TypeOK

\* A tick takes nothing below zero.
LEMMA TickTypes ==
  ASSUME TypeOK, Tick
  PROVE  /\ delay' \in [Sensors -> 0..Latency]
         /\ high' \in [Sensors -> Nat] /\ \A s \in Sensors : \E e \in Echoes : high'[s] <= e
<1>1. delay' \in [Sensors -> 0..Latency]
  BY DEF TypeOK, Tick
<1>2. ASSUME NEW s \in Sensors PROVE \E e \in Echoes : high'[s] <= e
  <2>1. PICK e \in Echoes : high[s] <= e
    BY DEF TypeOK
  <2>2. high'[s] <= e
    BY <2>1 DEF Tick, TypeOK
  <2> QED
    BY <2>2
<1>3. high' \in [Sensors -> Nat]
  BY DEF TypeOK, Tick
<1> QED
  BY <1>1, <1>2, <1>3

\* A return stores a distance and goes to the next sensor or to the decision.
LEMMA ReturnTypes ==
  ASSUME TypeOK, NEW cm \in 0..127, Return(cm)
  PROVE  /\ dist' \in [Sensors -> 0..127] /\ dev' \in Sensors
         /\ count' = 0 /\ pc' \in {"trigger", "decide"}
  BY DEF TypeOK, Return

\* What a step of the two counting loops leaves alone and what it must give.
LEMMA CountingTypes ==
  ASSUME TypeOK, Tick, UNCHANGED <<alert, target, history>>,
         dist' \in [Sensors -> 0..127], dev' \in Sensors,
         count' \in 0..(3 * Timeout + 1),
         pc' \in {"trigger", "low", "high", "decide"},
         pc' = "high" => count' <= Timeout + 1
  PROVE  TypeOK'
<1>1. /\ delay' \in [Sensors -> 0..Latency]
      /\ high' \in [Sensors -> Nat] /\ \A s \in Sensors : \E e \in Echoes : high'[s] <= e
  BY TickTypes
<1>2. target' \in [Sensors -> Echoes] /\ alert' \in BOOLEAN
  BY DEF TypeOK
<1>3. near' \subseteq seen' /\ seen' \subseteq Sensors /\ busy' \in BOOLEAN /\ disturbed' \in BOOLEAN
  BY DEF TypeOK, history
<1> QED
  BY <1>1, <1>2, <1>3 DEF TypeOK

LEMMA AwaitEchoTypes == ASSUME TypeOK, AwaitEcho PROVE TypeOK'
<1>0. /\ Tick /\ UNCHANGED <<alert, target, history>>
      /\ dev \in Sensors /\ dist \in [Sensors -> 0..127] /\ count \in 0..(3 * Timeout + 1)
  BY DEF AwaitEcho, TypeOK
<1>1. CASE count > 3 * Timeout
  <2>1. Return(Far) /\ Far \in 0..127
    BY <1>1 DEF AwaitEcho, Far
  <2>2. /\ dist' \in [Sensors -> 0..127] /\ dev' \in Sensors
        /\ count' = 0 /\ pc' \in {"trigger", "decide"}
    BY <2>1, ReturnTypes
  <2>3. count' \in 0..(3 * Timeout + 1)
    BY <2>2
  <2> QED
    BY <1>0, <2>2, <2>3, CountingTypes
<1>2. CASE ~(count > 3 * Timeout) /\ Echo(dev)
  <2>1. pc' = "high" /\ count' = 0 /\ dev' = dev /\ dist' = dist
    BY <1>2 DEF AwaitEcho
  <2> QED
    BY <1>0, <2>1, CountingTypes
<1>3. CASE ~(count > 3 * Timeout) /\ ~Echo(dev)
  <2>1. pc' = "low" /\ count' = count + 1 /\ dev' = dev /\ dist' = dist
    BY <1>3 DEF AwaitEcho
  <2> QED
    BY <1>0, <1>3, <2>1, CountingTypes
<1> QED
  BY <1>1, <1>2, <1>3

LEMMA MeasureTypes == ASSUME TypeOK, Measure PROVE TypeOK'
<1>0. /\ Tick /\ UNCHANGED <<alert, target, history>>
      /\ dev \in Sensors /\ dist \in [Sensors -> 0..127]
      /\ count \in 0..(3 * Timeout + 1) /\ count <= Timeout + 1
  BY DEF Measure, TypeOK
<1>1. CASE count > Timeout
  <2>1. Return(Far) /\ Far \in 0..127
    BY <1>1 DEF Measure, Far
  <2>2. /\ dist' \in [Sensors -> 0..127] /\ dev' \in Sensors
        /\ count' = 0 /\ pc' \in {"trigger", "decide"}
    BY <2>1, ReturnTypes
  <2>3. count' \in 0..(3 * Timeout + 1)
    BY <2>2
  <2> QED
    BY <1>0, <2>2, <2>3, CountingTypes
<1>2. CASE ~(count > Timeout) /\ ~Echo(dev)
  <2>1. Return(Cm(count + 1)) /\ count + 1 \in 0..(Timeout + 2)
    BY <1>2 DEF Measure, TypeOK
  <2>2. Cm(count + 1) \in 0..127
    BY <2>1, CmRange
  <2>3. /\ dist' \in [Sensors -> 0..127] /\ dev' \in Sensors
        /\ count' = 0 /\ pc' \in {"trigger", "decide"}
    BY <2>1, <2>2, ReturnTypes
  <2>4. count' \in 0..(3 * Timeout + 1)
    BY <2>3
  <2> QED
    BY <1>0, <2>3, <2>4, CountingTypes
<1>3. CASE ~(count > Timeout) /\ Echo(dev)
  <2>1. pc' = "high" /\ count' = count + 1 /\ dev' = dev /\ dist' = dist
    BY <1>3 DEF Measure
  <2> QED
    BY <1>0, <1>3, <2>1, CountingTypes
<1> QED
  BY <1>1, <1>2, <1>3

LEMMA TriggerTypes == ASSUME TypeOK, Trigger PROVE TypeOK'
<1>1. delay' \in [Sensors -> 0..Latency]
  <2>1. delay \in [Sensors -> 0..Latency] /\ Latency \in 0..Latency
    BY DEF TypeOK
  <2>2. delay' = delay \/ delay' = [delay EXCEPT ![dev] = Latency]
    BY DEF Trigger
  <2> QED
    BY <2>1, <2>2
<1>2. ASSUME NEW s \in Sensors PROVE \E e \in Echoes : high'[s] <= e
  <2>1. CASE high' = high
    BY <2>1 DEF TypeOK
  <2>2. CASE high' = [high EXCEPT ![dev] = target[dev]]
    <3>1. CASE s = dev
      <4>1. high'[s] = target[s] /\ target[s] \in Echoes /\ target[s] \in Nat
        BY <2>2, <3>1 DEF TypeOK
      <4> QED
        BY <4>1
    <3>2. CASE s # dev
      <4>1. high'[s] = high[s]
        BY <2>2, <3>2
      <4> QED
        BY <4>1 DEF TypeOK
    <3> QED
      BY <3>1, <3>2
  <2> QED
    BY <2>1, <2>2 DEF Trigger
<1>3. busy' \in BOOLEAN /\ high' \in [Sensors -> Nat]
  BY DEF TypeOK, Trigger
<1>4. count' \in 0..(3 * Timeout + 1) /\ pc' = "low"
  BY DEF Trigger
<1>5. /\ dev' \in Sensors /\ dist' \in [Sensors -> 0..127] /\ alert' \in BOOLEAN
      /\ target' \in [Sensors -> Echoes]
      /\ near' \subseteq seen' /\ seen' \subseteq Sensors /\ disturbed' \in BOOLEAN
  BY DEF TypeOK, Trigger
<1> QED
  BY <1>1, <1>2, <1>3, <1>4, <1>5 DEF TypeOK

LEMMA DecideTypes == ASSUME TypeOK, Decide PROVE TypeOK'
<1>1. near' \subseteq seen' /\ seen' \subseteq Sensors
  BY NearSensors DEF Decide, NewRound
<1>2. alert' \in BOOLEAN /\ busy' \in BOOLEAN /\ disturbed' \in BOOLEAN
  BY Zenon DEF Decide, NewRound
<1> QED
  BY <1>1, <1>2 DEF TypeOK, Decide

LEMMA OutsideTypes == ASSUME TypeOK, LcdByte \/ ObjectMoves PROVE TypeOK'
<1>1. CASE LcdByte
  <2>1. /\ delay' \in [Sensors -> 0..Latency]
        /\ high' \in [Sensors -> Nat] /\ \A s \in Sensors : \E e \in Echoes : high'[s] <= e
    BY <1>1, TickTypes DEF LcdByte
  <2> QED
    BY <1>1, <2>1 DEF TypeOK, LcdByte, loop
<1>2. CASE ObjectMoves
  <2>1. target' \in [Sensors -> Echoes]
    BY <1>2 DEF ObjectMoves, TypeOK
  <2>2. near' \subseteq seen' /\ seen' \subseteq Sensors
    BY <1>2 DEF ObjectMoves, TypeOK
  <2> QED
    BY <1>2, <2>1, <2>2 DEF ObjectMoves, TypeOK, loop
<1> QED
  BY <1>1, <1>2

LEMMA NextTypeOK == TypeOK /\ [Next]_vars => TypeOK'
<1> SUFFICES ASSUME TypeOK, [Next]_vars PROVE TypeOK'
  OBVIOUS
<1>1. CASE Main
  BY <1>1, TriggerTypes, AwaitEchoTypes, MeasureTypes, DecideTypes DEF Main
<1>2. CASE LcdByte \/ ObjectMoves
  BY <1>2, OutsideTypes
<1>3. CASE UNCHANGED vars
  BY <1>3 DEF vars, TypeOK
<1> QED
  BY <1>1, <1>2, <1>3 DEF Next

----------------------------------------------------------------------------
(* The alert is right, in a round that neither an earlier echo nor the LCD   *)
(* disturbed: of each sensor measured in it, the distance is that of an echo *)
(* the sensor took after the trigger, and of the sensor being measured, the  *)
(* echo and the count together make out that echo's length.                  *)

Measured(s) == pc = "decide" \/ s < dev
Pulse == IF pc = "low" THEN high[dev] ELSE count + 1 + high[dev]

\* The distance tells whether something was near.
DistOK == \A s \in Sensors :
    Measured(s) => /\ dist[s] < TooClose => s \in seen
                   /\ s \in near => dist[s] < TooClose
EchoOK ==
    /\ pc = "low" /\ high[dev] > 0 => count + delay[dev] = Latency
    /\ pc = "high" => delay[dev] = 0
    /\ pc \in {"low", "high"} => /\ IsNear(Pulse) => dev \in seen
                                 /\ dev \in near => IsNear(Pulse)
\* Something near all the round is near now; something near now was near sometime.
NearOK == near \subseteq NearNow /\ NearNow \subseteq seen

RoundInv ==
    /\ TypeOK /\ NearOK
    /\ pc = "decide" => dev = 0
    /\ ~busy /\ ~disturbed => DistOK /\ EchoOK

\* Longer echoes are of things farther away.
LEMMA Farther ==
  ASSUME NEW m \in Nat, NEW n \in Nat, m <= n PROVE Cm(m) <= Cm(n)
  BY DEF Cm

\* An echo that outlasts the second loop.
LEMMA TooLong ==
  ASSUME NEW n \in Nat, n >= Timeout + 2 PROVE ~IsNear(n)
<1>1. Cm(Timeout + 2) <= Cm(n)
  BY Farther
<1>2. Cm(n) \in Int /\ Cm(Timeout + 2) \in Int
  BY DEF Cm
<1> QED
  BY <1>1, <1>2, TimingAssumption DEF IsNear

LEMMA NotFar == ~(Far < TooClose) /\ ~IsNear(0)
  BY TimingAssumption DEF Far, IsNear

LEMMA InitRound == Init => RoundInv
<1> SUFFICES ASSUME Init PROVE RoundInv
  OBVIOUS
<1>1. TypeOK
  BY InitTypeOK
<1>2. NearOK
  BY DEF Init, NearOK
<1>3. DistOK /\ EchoOK /\ pc # "decide"
  BY DEF Init, DistOK, EchoOK, Measured
<1> QED
  BY <1>1, <1>2, <1>3 DEF RoundInv

\* Where near and seen stay and nothing moves, so does what they promise.
LEMMA SameNear ==
  ASSUME NearOK, UNCHANGED <<target, near, seen>> PROVE NearOK'
  BY DEF NearOK, NearNow

\* An object that moves takes its sensor out of near, or puts it into seen.
LEMMA MovesRound == ASSUME RoundInv, ObjectMoves PROVE RoundInv'
<1>1. TypeOK'
  BY OutsideTypes DEF RoundInv
<1>2. NearOK'
  BY DEF RoundInv, NearOK, NearNow, ObjectMoves
<1>3. UNCHANGED <<pc, dev, count, dist, delay, high, busy, disturbed>>
  BY DEF ObjectMoves, loop
<1>4. near' \subseteq near /\ seen \subseteq seen'
  BY DEF ObjectMoves
<1>5. ASSUME DistOK PROVE DistOK'
  BY <1>3, <1>4, <1>5 DEF DistOK, Measured
<1>6. ASSUME EchoOK PROVE EchoOK'
  BY <1>3, <1>4, <1>6 DEF EchoOK, Pulse
<1> QED
  BY <1>1, <1>2, <1>3, <1>5, <1>6 DEF RoundInv

\* The handler's ticks spoil the round.
LEMMA LcdRound == ASSUME RoundInv, LcdByte PROVE RoundInv'
<1>1. TypeOK'
  BY OutsideTypes DEF RoundInv
<1>2. NearOK'
  BY SameNear DEF RoundInv, LcdByte
<1>3. disturbed' /\ (pc' = "decide" => dev' = 0)
  BY DEF RoundInv, LcdByte, loop
<1> QED
  BY <1>1, <1>2, <1>3 DEF RoundInv

\* A trigger that is taken starts the echo that the sensor would get now.
LEMMA TriggerRound == ASSUME RoundInv, Trigger PROVE RoundInv'
<1>1. TypeOK'
  BY TriggerTypes DEF RoundInv
<1>2. NearOK'
  BY SameNear DEF RoundInv, Trigger
<1>3. /\ pc = "trigger" /\ pc' = "low" /\ count' = 0 /\ dev' = dev /\ dev \in Sensors
      /\ UNCHANGED <<dist, near, seen, disturbed, target>>
  BY DEF RoundInv, TypeOK, Trigger
<1>4. ASSUME ~busy', ~disturbed' PROVE DistOK' /\ EchoOK'
  <2>1. delay' = [delay EXCEPT ![dev] = Latency] /\ high' = [high EXCEPT ![dev] = target[dev]]
        /\ busy' = busy
    BY <1>4 DEF Trigger
  <2>2. DistOK
    BY <1>3, <1>4, <2>1 DEF RoundInv
  <2>3. DistOK'
    BY <1>3, <2>2 DEF DistOK, Measured
  <2>4. delay'[dev] = Latency /\ high'[dev] = target[dev]
    BY <1>3, <2>1 DEF RoundInv, TypeOK
  <2>5. (dev \in near => IsNear(target[dev])) /\ (IsNear(target[dev]) => dev \in seen)
    BY <1>3 DEF RoundInv, NearOK, NearNow
  <2>6. EchoOK'
    BY <1>3, <2>4, <2>5 DEF EchoOK, Pulse
  <2> QED
    BY <2>3, <2>6
<1> QED
  BY <1>1, <1>2, <1>3, <1>4 DEF RoundInv

\* A tick, of the sensor being measured.
LEMMA TickDev ==
  ASSUME TypeOK, Tick
  PROVE  /\ dev \in Sensors /\ delay[dev] \in Nat /\ high[dev] \in Nat /\ count \in Nat
         /\ delay'[dev] = IF delay[dev] > 0 THEN delay[dev] - 1 ELSE 0
         /\ high'[dev] = IF Echo(dev) THEN high[dev] - 1 ELSE high[dev]
<1>1. dev \in Sensors /\ count \in Nat
  BY DEF TypeOK
<1>2. delay[dev] \in 0..Latency /\ high[dev] \in Nat
  BY <1>1 DEF TypeOK
<1> QED
  BY <1>1, <1>2 DEF Tick, Echo

\* A distance that tells whether something was near, and the next sensor.
LEMMA ReturnRound ==
  ASSUME TypeOK, DistOK, pc \in {"low", "high"}, UNCHANGED <<near, seen>>,
         NEW cm \in 0..127, Return(cm),
         cm < TooClose => dev \in seen, dev \in near => cm < TooClose
  PROVE  DistOK' /\ EchoOK'
<1>1. pc' \in {"trigger", "decide"}
  BY DEF Return
<1>2. ASSUME NEW s \in Sensors, Measured(s)'
      PROVE  /\ dist'[s] < TooClose => s \in seen'
             /\ s \in near' => dist'[s] < TooClose
  <2>0. dev \in Int /\ s \in Int /\ Devs \in Int /\ s < Devs /\ dist \in [Sensors -> 0..127]
    BY DEF TypeOK
  <2>1. dist' = [dist EXCEPT ![dev] = cm]
    BY DEF Return
  <2>2. CASE s = dev
    BY <2>0, <2>1, <2>2
  <2>3. CASE s # dev
    <3>1. s < dev
      BY <1>2, <2>0, <2>3 DEF Return, Measured
    <3>2. dist'[s] = dist[s]
      BY <2>0, <2>1, <2>3
    <3> QED
      BY <3>1, <3>2 DEF DistOK, Measured
  <2> QED
    BY <2>2, <2>3
<1> QED
  BY <1>1, <1>2 DEF DistOK, EchoOK

\* What a step of the two loops leaves alone.
LEMMA LoopRound ==
  ASSUME RoundInv, TypeOK', UNCHANGED <<target, history>>,
         pc' = "decide" => dev' = 0,
         ~busy /\ ~disturbed => DistOK' /\ EchoOK'
  PROVE  RoundInv'
  BY SameNear DEF RoundInv, history

LEMMA ReturnEnds == ASSUME NEW cm, Return(cm) PROVE pc' = "decide" => dev' = 0
  BY DEF Return

LEMMA AwaitEchoRound == ASSUME RoundInv, AwaitEcho PROVE RoundInv'
<1>0. /\ TypeOK /\ TypeOK' /\ Tick /\ pc = "low" /\ UNCHANGED <<target, history>>
      /\ UNCHANGED <<near, seen, busy, disturbed>>
  BY AwaitEchoTypes DEF RoundInv, AwaitEcho, history
<1>1. pc' = "decide" => dev' = 0
  BY ReturnEnds DEF AwaitEcho
<1>2. ASSUME ~busy, ~disturbed PROVE DistOK' /\ EchoOK'
  <2>0. DistOK /\ EchoOK
    BY <1>2 DEF RoundInv
  <2>1. /\ high[dev] > 0 => count + delay[dev] = Latency
        /\ IsNear(high[dev]) => dev \in seen
        /\ dev \in near => IsNear(high[dev])
    BY <1>0, <2>0 DEF EchoOK, Pulse
  <2>2. /\ dev \in Sensors /\ delay[dev] \in Nat /\ high[dev] \in Nat /\ count \in Nat
        /\ delay'[dev] = IF delay[dev] > 0 THEN delay[dev] - 1 ELSE 0
        /\ high'[dev] = IF Echo(dev) THEN high[dev] - 1 ELSE high[dev]
    BY <1>0, TickDev
  <2>3. CASE count > 3 * Timeout
    <3>1. Return(Far) /\ Far \in 0..127
      BY <2>3 DEF AwaitEcho, Far
    <3>2. high[dev] = 0
      BY <2>1, <2>2, <2>3, TimingAssumption
    <3>3. dev \notin near
      BY <2>1, <3>2, NotFar
    <3> QED
      BY <1>0, <2>0, <3>1, <3>3, NotFar, ReturnRound
  <2>4. CASE ~(count > 3 * Timeout) /\ Echo(dev)
    <3>1. pc' = "high" /\ count' = 0 /\ dev' = dev /\ dist' = dist
      BY <2>4 DEF AwaitEcho
    <3>2. DistOK'
      BY <1>0, <2>0, <3>1 DEF DistOK, Measured
    <3>3. delay'[dev] = 0 /\ high'[dev] = high[dev] - 1 /\ 0 + 1 + high'[dev] = high[dev]
      BY <2>2, <2>4 DEF Echo
    <3>4. Pulse' = high[dev]
      BY <3>1, <3>3 DEF Pulse
    <3>5. EchoOK'
      BY <1>0, <2>1, <3>1, <3>3, <3>4 DEF EchoOK
    <3> QED
      BY <3>2, <3>5
  <2>5. CASE ~(count > 3 * Timeout) /\ ~Echo(dev)
    <3>1. pc' = "low" /\ count' = count + 1 /\ dev' = dev /\ dist' = dist
      BY <2>5 DEF AwaitEcho
    <3>2. DistOK'
      BY <1>0, <2>0, <3>1 DEF DistOK, Measured
    <3>3. high'[dev] = high[dev]
      BY <2>2, <2>5
    <3>4. high'[dev] > 0 => count + 1 + delay'[dev] = Latency
      BY <2>1, <2>2, <2>5, <3>3 DEF Echo
    <3>5. Pulse' = high[dev]
      BY <3>1, <3>3 DEF Pulse
    <3>6. EchoOK'
      BY <1>0, <2>1, <3>1, <3>4, <3>5 DEF EchoOK
    <3> QED
      BY <3>2, <3>6
  <2> QED
    BY <2>3, <2>4, <2>5
<1> QED
  BY <1>0, <1>1, <1>2, LoopRound

LEMMA MeasureRound == ASSUME RoundInv, Measure PROVE RoundInv'
<1>0. /\ TypeOK /\ TypeOK' /\ Tick /\ pc = "high" /\ UNCHANGED <<target, history>>
      /\ UNCHANGED <<near, seen, busy, disturbed>>
  BY MeasureTypes DEF RoundInv, Measure, history
<1>1. pc' = "decide" => dev' = 0
  BY ReturnEnds DEF Measure
<1>2. ASSUME ~busy, ~disturbed PROVE DistOK' /\ EchoOK'
  <2>0. DistOK /\ EchoOK
    BY <1>2 DEF RoundInv
  <2>1. /\ delay[dev] = 0
        /\ IsNear(count + 1 + high[dev]) => dev \in seen
        /\ dev \in near => IsNear(count + 1 + high[dev])
    BY <1>0, <2>0 DEF EchoOK, Pulse
  <2>2. /\ dev \in Sensors /\ delay[dev] \in Nat /\ high[dev] \in Nat /\ count \in Nat
        /\ delay'[dev] = IF delay[dev] > 0 THEN delay[dev] - 1 ELSE 0
        /\ high'[dev] = IF Echo(dev) THEN high[dev] - 1 ELSE high[dev]
    BY <1>0, TickDev
  <2>3. CASE count > Timeout
    <3>1. Return(Far) /\ Far \in 0..127
      BY <2>3 DEF Measure, Far
    <3>2. count + 1 + high[dev] \in Nat /\ count + 1 + high[dev] >= Timeout + 2
      BY <2>2, <2>3
    <3>3. dev \notin near
      BY <2>1, <3>2, TooLong
    <3> QED
      BY <1>0, <2>0, <3>1, <3>3, NotFar, ReturnRound
  <2>4. CASE ~(count > Timeout) /\ ~Echo(dev)
    <3>1. Return(Cm(count + 1)) /\ count + 1 \in 0..(Timeout + 2)
      BY <2>2, <2>4 DEF Measure
    <3>2. Cm(count + 1) \in 0..127
      BY <3>1, CmRange
    <3>3. count + 1 + high[dev] = count + 1 /\ count + 1 > 0
      BY <2>1, <2>2, <2>4 DEF Echo
    <3>4. /\ Cm(count + 1) < TooClose => dev \in seen
          /\ dev \in near => Cm(count + 1) < TooClose
      BY <2>1, <3>3 DEF IsNear
    <3> QED
      BY <1>0, <2>0, <3>1, <3>2, <3>4, ReturnRound
  <2>5. CASE ~(count > Timeout) /\ Echo(dev)
    <3>1. pc' = "high" /\ count' = count + 1 /\ dev' = dev /\ dist' = dist
      BY <2>5 DEF Measure
    <3>2. DistOK'
      BY <1>0, <2>0, <3>1 DEF DistOK, Measured
    <3>3. delay'[dev] = 0 /\ (count + 1) + 1 + high'[dev] = count + 1 + high[dev]
      BY <2>1, <2>2, <2>5
    <3>4. Pulse' = count + 1 + high[dev]
      BY <3>1, <3>3 DEF Pulse
    <3>5. EchoOK'
      BY <1>0, <2>1, <3>1, <3>3, <3>4 DEF EchoOK
    <3> QED
      BY <3>2, <3>5
  <2> QED
    BY <2>3, <2>4, <2>5
<1> QED
  BY <1>0, <1>1, <1>2, LoopRound

LEMMA DecideRound == ASSUME RoundInv, Decide PROVE RoundInv'
<1>1. TypeOK' /\ dev = 0 /\ dev' = dev /\ pc' = "trigger"
  BY DecideTypes DEF RoundInv, Decide
<1>2. NearOK'
  BY DEF NearOK, NearNow, Decide, NewRound
<1>3. ASSUME NEW s \in Sensors PROVE ~Measured(s)'
  BY <1>1 DEF Measured
<1>4. DistOK' /\ EchoOK'
  BY <1>1, <1>3 DEF DistOK, EchoOK
<1> QED
  BY <1>1, <1>2, <1>4 DEF RoundInv

LEMMA NextRound == RoundInv /\ [Next]_vars => RoundInv'
<1> SUFFICES ASSUME RoundInv, [Next]_vars PROVE RoundInv'
  OBVIOUS
<1>1. CASE Main
  BY <1>1, TriggerRound, AwaitEchoRound, MeasureRound, DecideRound DEF Main
<1>2. CASE LcdByte \/ ObjectMoves
  BY <1>2, LcdRound, MovesRound
<1>3. CASE UNCHANGED vars
  <2>1. TypeOK' /\ NearOK'
    BY <1>3, NextTypeOK, SameNear DEF RoundInv, vars
  <2>2. DistOK => DistOK'
    BY <1>3 DEF vars, DistOK, Measured
  <2>3. EchoOK => EchoOK'
    BY <1>3 DEF vars, EchoOK, Pulse
  <2> QED
    BY <1>3, <2>1, <2>2, <2>3 DEF RoundInv, vars
<1> QED
  BY <1>1, <1>2, <1>3 DEF Next

\* Only the end of a round touches the alert.
LEMMA AlertDecides ==
  ASSUME RoundInv, [Next]_vars, ~(alert' <=> alert)
  PROVE  Decide
  BY DEF vars, Next, Main, Trigger, AwaitEcho, Measure, LcdByte, ObjectMoves, loop

----------------------------------------------------------------------------
(* Theorems                                                                  *)

\* Whatever echoes come and however long the interrupt handler takes, a distance fits
\* the int8_t it is returned in and the counts end at the timeouts.
THEOREM TypeCorrect == Spec => []TypeOK
  BY InitTypeOK, NextTypeOK, PTL DEF Spec

\* In every state the distances of the round tell what the sensors met.
THEOREM RoundInvariance == Spec => []RoundInv
  BY InitRound, NextRound, PTL DEF Spec

\* An alert is not taken back while something has been near a sensor all the round, if
\* neither an earlier echo nor the LCD disturbed it.
THEOREM AlertHeld == Spec => HoldsAlert
<1>1. RoundInv /\ [Next]_vars => [alert /\ ~alert' => near = {} \/ busy \/ disturbed]_vars
  <2> SUFFICES ASSUME RoundInv, [Next]_vars, alert, ~alert', ~busy, ~disturbed PROVE near = {}
    OBVIOUS
  <2>1. Decide
    BY AlertDecides
  <2>2. DistOK /\ pc = "decide" /\ near \subseteq Sensors
    BY <2>1 DEF RoundInv, Decide, TypeOK
  <2>3. \A s \in Sensors : ~(dist[s] < TooClose)
    BY <2>1 DEF Decide
  <2> QED
    BY <2>2, <2>3 DEF DistOK, Measured
<1> QED
  BY <1>1, RoundInvariance, PTL DEF Spec, HoldsAlert

\* No alert is given for nothing, with the same two exceptions.
THEOREM AlarmTrue == Spec => TrueAlarm
<1>1. RoundInv /\ [Next]_vars => [~alert /\ alert' => seen # {} \/ busy \/ disturbed]_vars
  <2> SUFFICES ASSUME RoundInv, [Next]_vars, ~alert, alert', ~busy, ~disturbed
               PROVE  seen # {}
    OBVIOUS
  <2>1. Decide
    BY AlertDecides
  <2>2. DistOK /\ pc = "decide"
    BY <2>1 DEF RoundInv, Decide
  <2>3. PICK s \in Sensors : dist[s] < TooClose
    BY <2>1 DEF Decide
  <2> QED
    BY <2>2, <2>3 DEF DistOK, Measured
<1> QED
  BY <1>1, RoundInvariance, PTL DEF Spec, TrueAlarm
=============================================================================
