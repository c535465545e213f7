---------------------------- MODULE CarrierSensing ----------------------------
(***************************************************************************)
(* The carrier sensing block (src/lib/carrier_sensing_impl.cc) in its       *)
(* continuous mode: a command starts a detached thread that listens until   *)
(* it is stopped or hears the channel busy, and then looks at the channel   *)
(* once more to pass the command or to fail it.  Handlers and thread share  *)
(* _cca, _stop_sensing and _cmd without a lock.                             *)
(*                                                                          *)
(* Each action says what becomes of the block's own state; the messages it  *)
(* takes and publishes belong to the module that composes the blocks.       *)
(* Threads are interchangeable, since they share all members of the block:  *)
(* they are counted.                                                        *)
(***************************************************************************)
EXTENDS Naturals

VARIABLES
    cca,           \* _cca: the channel is free
    stopSensing,   \* _stop_sensing
    cmd,           \* _cmd, <<>> before the first command
    sensor         \* sensing threads in the loop, and after it

sensingVars == <<cca, stopSensing, cmd, sensor>>

SensingInit ==
    /\ cca = FALSE
    /\ stopSensing = FALSE
    /\ cmd = <<>>
    /\ sensor = [loop |-> 0, decide |-> 0]

\* sensing: a power value says whether the channel is free.
Power(free) ==
    /\ cca' = free
    /\ UNCHANGED <<stopSensing, cmd, sensor>>

\* stop_sensing
StopSensing ==
    /\ stopSensing' = TRUE
    /\ UNCHANGED <<cca, cmd, sensor>>

\* start_sensing
StartSensing(f) ==
    /\ cmd' = f
    /\ stopSensing' = FALSE
    /\ sensor' = [sensor EXCEPT !.loop = @ + 1]
    /\ UNCHANGED cca

\* continuous_sensing: the loop ends when the block was told to stop or hears
\* the channel busy.
SensorLoop ==
    /\ sensor.loop > 0
    /\ stopSensing \/ ~cca
    /\ sensor' = [loop |-> sensor.loop - 1, decide |-> sensor.decide + 1]
    /\ UNCHANGED <<cca, stopSensing, cmd>>

\* _cca is read again, and the command passed or failed.
SensorDecide(pass) ==
    /\ sensor.decide > 0
    /\ cca = pass
    /\ sensor' = [sensor EXCEPT !.decide = @ - 1]
    /\ UNCHANGED <<cca, stopSensing, cmd>>
=============================================================================
