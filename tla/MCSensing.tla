----------------------------- MODULE MCSensing -----------------------------
(***************************************************************************)
(* The parts around a browser engine that share no state with one another, *)
(* in one run: the first state chooses the part that moves, and the others *)
(* stay in their initial states (as in MCServices).                        *)
(***************************************************************************)
EXTENDS NetworkSensor, EnginePool, ReliabilityStore, EventBus, GuardedSend,
    FanOut, TLC

VARIABLE part

Parts == {"sensor", "pool", "bus", "learned", "guard", "fans"}

SensorStill == UNCHANGED sensorVars
PoolStill == UNCHANGED poolVars
BusStill == UNCHANGED busVars
LearnedStill == UNCHANGED relVars
GuardStill == UNCHANGED guardVars
FansStill == UNCHANGED fanVars

Moving(p) ==
  /\ part = p /\ part' = p
  /\ IF p = "sensor" THEN TRUE ELSE SensorStill
  /\ IF p = "pool" THEN TRUE ELSE PoolStill
  /\ IF p = "bus" THEN TRUE ELSE BusStill
  /\ IF p = "learned" THEN TRUE ELSE LearnedStill
  /\ IF p = "guard" THEN TRUE ELSE GuardStill
  /\ IF p = "fans" THEN TRUE ELSE FansStill

SensingInit ==
  /\ part \in Parts
  /\ SensorInit /\ PoolInit /\ BusInit /\ RelInit /\ GuardInit
  /\ FanInit

SensingNext ==
  \/ Moving("sensor") /\ SensorNext
  \/ Moving("pool") /\ PoolNext
  \/ Moving("bus") /\ BusNext
  \/ Moving("learned") /\ RelNext
  \/ Moving("guard") /\ GuardNext
  \/ Moving("fans") /\ FanNext

sensingVars == 
  <<part, sensorVars, poolVars, busVars, relVars, guardVars, fanVars>>

(* Of the sensor alone: the engine ticks and time passes (NetworkSensor).  *)
SensingSpec ==
  /\ SensingInit /\ [][SensingNext]_sensingVars
  /\ WF_sensingVars(Moving("sensor") /\ Sense)
  /\ WF_sensingVars(Moving("sensor") /\ SensorClock)
=========================
