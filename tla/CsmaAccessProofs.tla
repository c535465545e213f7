--------------------------- MODULE CsmaAccessProofs ---------------------------
(***************************************************************************)
(* What holds of the channel access of a station for every number of frames *)
(* and retransmissions, every duration of the timer and whichever           *)
(* acknowledgements cross with a timeout: the types, the rights to the      *)
(* channel, and what the timer promises to carrier sensing.                 *)
(***************************************************************************)
EXTENDS CsmaAccess, TLAPS

-----------------------------------------------------------------------------
(* The acknowledgement timer, one step at a time. *)

\* One countdown at most, and one for the flag.
OneThread(t) ==
    /\ t.counting + t.due + t.ending <= 1
    /\ t.set => Alive(t)

\* A start that finds no countdown.
LEMMA TimerStarted ==
    ASSUME NEW S, NEW t \in Timers(S), NEW i \in S
    PROVE  /\ Started(t, i) \in Timers(S)
           /\ ~Alive(t) /\ OneThread(t) =>
                 /\ OneThread(Started(t, i)) /\ Started(t, i).waiting = i
                 /\ Owed(t) = 0 /\ Owed(Started(t, i)) = 1
<1>1. Started(t, i) \in Timers(S)
  <2>1. CASE t.set
    BY <2>1 DEF Started
  <2>2. CASE ~t.set
    <3>1. Started(t, i) = [set |-> TRUE, waiting |-> i, counting |-> t.counting + 1,
                           due |-> t.due, ending |-> t.ending]
      BY <2>2 DEF Started, Timers
    <3> QED BY <3>1 DEF Timers
  <2> QED BY <2>1, <2>2
<1>2. ASSUME ~Alive(t), OneThread(t)
      PROVE  /\ OneThread(Started(t, i)) /\ Started(t, i).waiting = i
             /\ Owed(t) = 0 /\ Owed(Started(t, i)) = 1
  <2>1. ~t.set /\ t.counting = 0 /\ t.due = 0 /\ t.ending = 0
    BY <1>2 DEF OneThread, Alive, Timers
  <2>2. PICK u : u = Started(t, i)
    OBVIOUS
  <2>3. u.set /\ u.waiting = i /\ u.counting = 1 /\ u.due = 0 /\ u.ending = 0
    BY <2>1, <2>2 DEF Started, Timers
  <2> QED BY <2>1, <2>2, <2>3 DEF OneThread, Alive, Owed, Bit
<1> QED BY <1>1, <1>2

\* An acknowledgement stops the countdown, or crosses with it.
LEMMA TimerKilled ==
    ASSUME NEW S, NEW t \in Timers(S)
    PROVE  /\ Killed(t) \in Timers(S) /\ Killed(t).waiting = t.waiting
           /\ t.set /\ OneThread(t) =>
                 /\ OneThread(Killed(t))
                 /\ Past(t) => Owed(Killed(t)) = Owed(t)
                 /\ ~Past(t) => Owed(Killed(t)) = 0 /\ Owed(t) = 1
<1>1. Killed(t) \in Timers(S) /\ Killed(t).waiting = t.waiting
  BY DEF Killed, Timers
<1>2. /\ ~Killed(t).set /\ Killed(t).counting = t.counting /\ Killed(t).due = t.due
      /\ Killed(t).ending = t.ending
  BY DEF Killed, Timers
<1>3. t.counting \in Nat /\ t.due \in Nat /\ t.ending \in Nat /\ t.set \in BOOLEAN
  BY DEF Timers
<1> QED BY <1>1, <1>2, <1>3 DEF OneThread, Alive, Past, Owed, Bit

\* A countdown goes on.
LEMMA TimerRuns ==
    ASSUME NEW S, NEW t \in Timers(S)
    PROVE  /\ t.counting > 0 => Decided(t) \in Timers(S) /\ Decided(t).waiting = t.waiting
           /\ t.due > 0 => Told(t) \in Timers(S) /\ Told(t).waiting = t.waiting
           /\ t.ending > 0 => Ended(t) \in Timers(S) /\ Ended(t).waiting = t.waiting
           /\ OneThread(t) /\ t.counting > 0 =>
                 OneThread(Decided(t)) /\ Owed(Decided(t)) = Owed(t)
           /\ OneThread(t) /\ t.due > 0 =>
                 OneThread(Told(t)) /\ Owed(Told(t)) = 0 /\ Owed(t) = 1
           /\ OneThread(t) /\ t.ending > 0 =>
                 OneThread(Ended(t)) /\ Owed(Ended(t)) = 0 /\ Owed(t) = 0
<1>1. t.counting \in Nat /\ t.due \in Nat /\ t.ending \in Nat /\ t.set \in BOOLEAN
  BY DEF Timers
<1>2. ASSUME t.counting > 0
      PROVE  /\ Decided(t) \in Timers(S) /\ Decided(t).waiting = t.waiting
             /\ OneThread(t) => OneThread(Decided(t)) /\ Owed(Decided(t)) = Owed(t)
  <2>1. Decided(t) \in Timers(S) /\ Decided(t).waiting = t.waiting
    <3>1. Decided(t) = [set |-> t.set, waiting |-> t.waiting, counting |-> t.counting - 1,
                        due |-> IF t.set THEN t.due + 1 ELSE t.due,
                        ending |-> IF t.set THEN t.ending ELSE t.ending + 1]
      BY DEF Decided, Timers
    <3> QED BY <1>1, <1>2, <3>1 DEF Timers
  <2>2. CASE t.set
    <3>1. /\ Decided(t).set /\ Decided(t).counting = t.counting - 1
          /\ Decided(t).due = t.due + 1 /\ Decided(t).ending = t.ending
      BY <2>2 DEF Decided, Timers
    <3> QED BY <1>1, <1>2, <2>1, <2>2, <3>1 DEF OneThread, Alive, Owed, Bit
  <2>3. CASE ~t.set
    <3>1. /\ ~Decided(t).set /\ Decided(t).counting = t.counting - 1
          /\ Decided(t).due = t.due /\ Decided(t).ending = t.ending + 1
      BY <2>3 DEF Decided, Timers
    <3> QED BY <1>1, <1>2, <2>1, <2>3, <3>1 DEF OneThread, Alive, Owed, Bit
  <2> QED BY <2>2, <2>3
<1>3. ASSUME t.due > 0
      PROVE  /\ Told(t) \in Timers(S) /\ Told(t).waiting = t.waiting
             /\ OneThread(t) => OneThread(Told(t)) /\ Owed(Told(t)) = 0 /\ Owed(t) = 1
  <2>1. Told(t) \in Timers(S) /\ Told(t).waiting = t.waiting
    <3>1. t.due - 1 \in Nat /\ t.ending + 1 \in Nat
      BY <1>1, <1>3
    <3> QED BY <3>1 DEF Told, Timers
  <2>2. /\ Told(t).set = t.set /\ Told(t).counting = t.counting
        /\ Told(t).due = t.due - 1 /\ Told(t).ending = t.ending + 1
    BY DEF Told, Timers
  <2> QED BY <1>1, <1>3, <2>1, <2>2 DEF OneThread, Alive, Owed, Bit
<1>4. ASSUME t.ending > 0
      PROVE  /\ Ended(t) \in Timers(S) /\ Ended(t).waiting = t.waiting
             /\ OneThread(t) => OneThread(Ended(t)) /\ Owed(Ended(t)) = 0 /\ Owed(t) = 0
  <2>1. Ended(t) \in Timers(S) /\ Ended(t).waiting = t.waiting
    <3>1. t.ending - 1 \in Nat
      BY <1>1, <1>4
    <3> QED BY <3>1 DEF Ended, FlagAtEnd, Timers
  <2>2. /\ ~Ended(t).set /\ Ended(t).counting = t.counting
        /\ Ended(t).due = t.due /\ Ended(t).ending = t.ending - 1
    BY DEF Ended, FlagAtEnd, Timers
  <2> QED BY <1>1, <1>4, <2>1, <2>2 DEF OneThread, Alive, Owed, Bit
<1> QED BY <1>2, <1>3, <1>4

-----------------------------------------------------------------------------
USE TimerAssumption, BoundsAssumption, BackoffsAssumption

Queues == [Port -> Seq(Frame)]

-----------------------------------------------------------------------------
(* Lemmas on the queues. *)

\* A frame put at a port stays in the family of queues and counts as one.
LEMMA PutFrame ==
    ASSUME NEW q \in Queues, NEW p \in Port, NEW f \in Frame
    PROVE  /\ Put(q, p, f) \in Queues
           /\ \A r \in Port : r # p => Put(q, p, f)[r] = q[r]
           /\ Put(q, p, f)[p] # <<>>
           /\ Len(Put(q, p, f)[p]) = Len(q[p]) + 1
<1>1. Append(q[p], f) \in Seq(Frame) /\ Append(q[p], f) # <<>>
      /\ Len(Append(q[p], f)) = Len(q[p]) + 1
  BY DEF Queues
<1> QED
  BY <1>1 DEF Put, Queues

\* A frame taken from a port is a frame and counted as one.
LEMMA TakeFrame ==
    ASSUME NEW q \in Queues, NEW p \in Port, q[p] # <<>>
    PROVE  /\ Taken(q, p) \in Queues
           /\ \A r \in Port : r # p => Taken(q, p)[r] = q[r]
           /\ Len(Taken(q, p)[p]) = Len(q[p]) - 1
           /\ Len(q[p]) >= 1
           /\ Head(q[p]) \in Frame
<1>1. /\ Tail(q[p]) \in Seq(Frame) /\ Len(Tail(q[p])) = Len(q[p]) - 1
      /\ Head(q[p]) \in Frame /\ Len(q[p]) >= 1
  BY DEF Queues
<1> QED
  BY <1>1 DEF Taken, Queues

\* The lengths of the queues are numbers.
LEMMA Lengths ==
    ASSUME NEW q \in Queues
    PROVE  \A p \in Port : Len(q[p]) \in Nat
BY DEF Queues

\* Six natural numbers have a sum.
LEMMA SumNatural ==
    ASSUME NEW n \in [Port -> Nat]
    PROVE  n["cmd"] + n["send"] + n["info"]
              + n["retry"] + n["next"] + n["resend"] \in Nat
<1>1. /\ n["cmd"] \in Nat /\ n["send"] \in Nat /\ n["info"] \in Nat
      /\ n["retry"] \in Nat /\ n["next"] \in Nat /\ n["resend"] \in Nat
  BY DEF Port
<1> QED
  BY <1>1

\* The load is the sum of the lengths, and a sum counts a change of one term.
LEMMA LoadSum ==
    ASSUME NEW q \in Queues
    PROVE  /\ Load(q) \in Nat
           /\ \E n \in [Port -> Nat] :
              /\ \A r \in Port : n[r] = Len(q[r])
              /\ Load(q) = n["cmd"] + n["send"] + n["info"]
                              + n["retry"] + n["next"] + n["resend"]
<1> DEFINE n == [r \in Port |-> Len(q[r])]
<1>1. n \in [Port -> Nat]
  BY Lengths
<1>2. \A r \in Port : n[r] = Len(q[r])
  OBVIOUS
<1> HIDE DEF n
<1>3. /\ n["cmd"] = Len(q["cmd"]) /\ n["send"] = Len(q["send"])
      /\ n["info"] = Len(q["info"]) /\ n["retry"] = Len(q["retry"])
      /\ n["next"] = Len(q["next"]) /\ n["resend"] = Len(q["resend"])
  BY <1>2 DEF Port
<1>4. Load(q) = n["cmd"] + n["send"] + n["info"]
                   + n["retry"] + n["next"] + n["resend"]
  BY <1>3 DEF Load
<1>5. Load(q) \in Nat
  BY <1>1, <1>4, SumNatural
<1> QED
  BY <1>1, <1>2, <1>4, <1>5

\* The port of the timer does not count.
Counted(p) == IF p = "start" THEN 0 ELSE 1

LEMMA SumCounts ==
    ASSUME NEW n \in [Port -> Nat], NEW m \in [Port -> Nat],
           NEW p \in Port,
           \A r \in Port : r # p => m[r] = n[r],
           m[p] = n[p] + 1
    PROVE  m["cmd"] + m["send"] + m["info"]
              + m["retry"] + m["next"] + m["resend"]
           = n["cmd"] + n["send"] + n["info"]
              + n["retry"] + n["next"] + n["resend"] + Counted(p)
BY DEF Port, Counted

\* The load of the queues counts what is put and taken.
LEMMA LoadPut ==
    ASSUME NEW q \in Queues, NEW p \in Port, NEW f \in Frame
    PROVE  /\ Load(q) \in Nat
           /\ Load(Put(q, p, f)) = Load(q) + Counted(p)
<1> DEFINE z == Put(q, p, f)
<1>1. z \in Queues /\ (\A r \in Port : r # p => z[r] = q[r])
      /\ Len(z[p]) = Len(q[p]) + 1
  BY PutFrame
<1> HIDE DEF z
<1>2. PICK n \in [Port -> Nat] :
         /\ \A r \in Port : n[r] = Len(q[r])
         /\ Load(q) = n["cmd"] + n["send"] + n["info"]
                         + n["retry"] + n["next"] + n["resend"]
  BY LoadSum
<1>3. PICK m \in [Port -> Nat] :
         /\ \A r \in Port : m[r] = Len(z[r])
         /\ Load(z) = m["cmd"] + m["send"] + m["info"]
                         + m["retry"] + m["next"] + m["resend"]
  BY <1>1, LoadSum
<1>4. \A r \in Port : r # p => m[r] = n[r]
  BY <1>1, <1>2, <1>3
<1>5. m[p] = n[p] + 1
  BY <1>1, <1>2, <1>3
<1>6. Load(z) = Load(q) + Counted(p)
  BY <1>2, <1>3, <1>4, <1>5, SumCounts
<1>7. Load(q) \in Nat
  BY LoadSum
<1> QED
  BY <1>6, <1>7 DEF z

LEMMA LoadTaken ==
    ASSUME NEW q \in Queues, NEW p \in Port, q[p] # <<>>
    PROVE  /\ Load(q) = Load(Taken(q, p)) + Counted(p)
           /\ Load(Taken(q, p)) \in Nat
<1> DEFINE z == Taken(q, p)
<1>1. z \in Queues /\ (\A r \in Port : r # p => z[r] = q[r])
      /\ Len(z[p]) = Len(q[p]) - 1
  BY TakeFrame
<1> HIDE DEF z
<1>2. PICK n \in [Port -> Nat] :
         /\ \A r \in Port : n[r] = Len(q[r])
         /\ Load(q) = n["cmd"] + n["send"] + n["info"]
                         + n["retry"] + n["next"] + n["resend"]
  BY LoadSum
<1>3. PICK m \in [Port -> Nat] :
         /\ \A r \in Port : m[r] = Len(z[r])
         /\ Load(z) = m["cmd"] + m["send"] + m["info"]
                         + m["retry"] + m["next"] + m["resend"]
  BY <1>1, LoadSum
<1>4. \A r \in Port : r # p => n[r] = m[r]
  BY <1>1, <1>2, <1>3
<1>5. n[p] = m[p] + 1
  <2>1. n[p] = Len(q[p]) /\ m[p] = Len(z[p]) /\ n[p] \in Nat
    BY <1>2, <1>3
  <2> QED
    BY <1>1, <2>1
<1>6. Load(q) = Load(z) + Counted(p)
  BY <1>2, <1>3, <1>4, <1>5, SumCounts
<1>7. Load(z) \in Nat
  BY <1>1, LoadSum
<1> QED
  BY <1>6, <1>7 DEF z

-----------------------------------------------------------------------------
(* Types. *)

\* What the threads publish is a frame.
InfoInv ==
    /\ sensor.loop + sensor.decide > 0 => cmd \in Frame
    /\ \A b \in Backoffs : Backing(backoff[b]) > 0 => backoffInfo[b] \in Frame
    /\ ackTimer.set \/ Alive(ackTimer) => ackTimer.waiting \in Frame

TypeInv == TypeOK /\ InfoInv

\* The threads of a backoff block.
Threads == [new : Nat, wait : Nat, clear : Nat]

LEMMA TypeInit == Init => TypeInv
<1> SUFFICES ASSUME Init PROVE TypeInv
  OBVIOUS
<1>1. TypeOK
  <2>1. queue \in [Port -> Seq(Frame)]
    BY DEF Init
  <2>2. /\ ackTimer \in Timers(MaybeFrame) /\ resolved \subseteq 1 .. MaxFrames
        /\ refused \in Nat /\ crossed \in Nat
    BY DEF Init, NoTimer, Timers, MaybeFrame
  <2>3. /\ inBackoff \in [Backoffs -> BOOLEAN]
        /\ backoff \in [Backoffs -> Threads]
        /\ backoffInfo \in [Backoffs -> MaybeFrame]
    BY DEF Init, BackoffInit, MaybeFrame, Threads
  <2>4. age \in 0 .. Duration /\ since \in 0 .. Duration
    BY DEF Init, TimerInit
  <2>5. /\ cca \in BOOLEAN /\ stopSensing \in BOOLEAN /\ inActive \in BOOLEAN
        /\ raced \in BOOLEAN /\ hurried \in BOOLEAN /\ cut \in BOOLEAN
    BY DEF Init, SensingInit, TimerInit
  <2>6. /\ cmd \in MaybeFrame
        /\ sensor \in [loop : Nat, decide : Nat]
        /\ timer \in {"none", "new", "loop", "fire"}
        /\ requests \in Nat /\ stops \in Nat /\ frames \in 0 .. MaxFrames
    BY DEF Init, SensingInit, TimerInit, MaybeFrame
  <2> QED
    BY <2>1, <2>2, <2>3, <2>4, <2>5, <2>6 DEF TypeOK, Threads
<1>2. InfoInv
  BY DEF Init, SensingInit, BackoffInit, InfoInv, Backing, NoTimer, Alive
<1> QED
  BY <1>1, <1>2 DEF TypeInv

\* A frame that is handed over is put at two ports.
LEMMA HandOverQueues ==
    ASSUME NEW q \in Queues, NEW f \in Frame, TypeOK, HandOver(q, f)
    PROVE  /\ queue' \in Queues
           /\ since' \in 0 .. Duration
           /\ raced' \in BOOLEAN
           /\ Load(queue') = Load(q) + 1
<1>1. Put(q, "cmd", f) \in Queues /\ Put(Put(q, "cmd", f), "start", f) \in Queues
  BY PutFrame DEF Port
<1>2. Load(Put(q, "cmd", f)) = Load(q) + 1 /\ Load(q) \in Nat
  BY LoadPut DEF Port, Counted
<1>3. Load(Put(Put(q, "cmd", f), "start", f)) = Load(Put(q, "cmd", f))
  <2>1. Counted("start") = 0
    BY DEF Counted
  <2> QED
    BY <1>1, <1>2, <2>1, LoadPut DEF Port
<1> QED
  BY <1>1, <1>2, <1>3 DEF HandOver, TypeOK

\* The next frame of the application and the next transmission of a frame are
\* frames.
LEMMA FrameMade ==
    /\ \A i \in 0 .. MaxFrames :
          i < MaxFrames => [index |-> i + 1, n |-> 1] \in Frame
    /\ \A f \in Frame : ~AtLimit(f) => [f EXCEPT !.n = @ + 1] \in Frame
BY DEF Frame, AtLimit

LEMMA SensingTypes == TypeInv /\ (PowerIn \/ Sensing) => TypeInv'
<1> SUFFICES ASSUME TypeInv, PowerIn \/ Sensing PROVE TypeInv'
  OBVIOUS
<1> USE DEF TypeInv
<1>0. queue \in Queues /\ sensor.loop \in Nat /\ sensor.decide \in Nat
  BY DEF TypeOK, Queues
<1>1. CASE PowerIn
  BY <1>1 DEF PowerIn, Power, timerVars, backoffVars, races, marks, TypeOK, InfoInv
<1>2. CASE CommandIn
  <2>1. Head(queue["cmd"]) \in Frame /\ Taken(queue, "cmd") \in Queues
    BY <1>0, <1>2, TakeFrame DEF CommandIn, Waiting, Port
  <2>2. sensor' \in [loop : Nat, decide : Nat]
    <3>1. sensor' = [loop |-> sensor.loop + 1, decide |-> sensor.decide]
      BY <1>2 DEF CommandIn, StartSensing, TypeOK
    <3> QED
      BY <1>0, <3>1
  <2>3. TypeOK'
    BY <1>2, <2>1, <2>2 DEF CommandIn, StartSensing, timerVars, backoffVars,
       races, marks, TypeOK, MaybeFrame, Queues
  <2>4. InfoInv'
    BY <1>2, <2>1 DEF CommandIn, StartSensing, backoffVars, InfoInv
  <2> QED
    BY <2>3, <2>4
<1>3. CASE StopIn
  <2>1. stops' \in Nat
    BY <1>3 DEF StopIn, TypeOK
  <2> QED
    BY <1>3, <2>1 DEF StopIn, StopSensing, timerVars, backoffVars, races, marks,
       TypeOK, InfoInv
<1>4. CASE SensingLoopEnds
  <2>1. /\ sensor' \in [loop : Nat, decide : Nat]
        /\ sensor.loop + sensor.decide > 0
    BY <1>0, <1>4 DEF SensingLoopEnds, SensorLoop
  <2>2. cut' \in BOOLEAN
    BY <1>4, Zenon DEF SensingLoopEnds, TypeOK
  <2>3. InfoInv'
    BY <1>4, <2>1 DEF SensingLoopEnds, SensorLoop, backoffVars, InfoInv
  <2> QED
    BY <1>4, <2>1, <2>2, <2>3 DEF SensingLoopEnds, SensorLoop, timerVars,
       backoffVars, marks, TypeOK
<1>5. CASE SensingEnds
  <2>1. PICK pass \in BOOLEAN :
           SensorDecide(pass) /\ queue' = Put(queue, AfterSensing(pass), cmd)
    BY <1>5 DEF SensingEnds
  <2>2. queue' \in Queues
    <3>1. cmd \in Frame /\ AfterSensing(pass) \in Port
      BY <1>0, <2>1 DEF SensorDecide, InfoInv, AfterSensing, Port
    <3> QED
      BY <1>0, <2>1, <3>1, PutFrame
  <2>3. /\ sensor' \in [loop : Nat, decide : Nat]
        /\ sensor.loop + sensor.decide > 0
    <3>1. /\ sensor' = [loop |-> sensor.loop, decide |-> sensor.decide - 1]
          /\ sensor.decide > 0
      BY <2>1 DEF SensorDecide, TypeOK
    <3> QED
      BY <1>0, <3>1
  <2>4. UNCHANGED <<cca, stopSensing, cmd>>
    BY <2>1 DEF SensorDecide
  <2>5. InfoInv'
    BY <1>5, <2>3, <2>4 DEF SensingEnds, backoffVars, InfoInv
  <2> QED
    BY <1>5, <2>2, <2>3, <2>4, <2>5 DEF SensingEnds, timerVars, backoffVars,
       races, marks, TypeOK, Queues
<1> QED
  BY <1>1, <1>2, <1>3, <1>4, <1>5 DEF Sensing

LEMMA TimerTypes == TypeInv /\ (Timer \/ Tick) => TypeInv'
<1> SUFFICES ASSUME TypeInv, Timer \/ Tick PROVE TypeInv'
  OBVIOUS
<1> USE DEF TypeInv
<1>0. queue \in Queues
  BY DEF TypeOK, Queues
<1>1. CASE TimerTriggered
  <2>1. Taken(queue, "start") \in Queues
    BY <1>0, <1>1, TakeFrame DEF TimerTriggered, Waiting, Port
  <2>2. /\ timer' \in {"none", "new", "loop", "fire"}
        /\ age' \in 0 .. Duration
    BY <1>1 DEF TimerTriggered, StartTimer, PutOff, TypeOK
  <2>3. inActive' \in BOOLEAN
    BY <1>1, Zenon DEF TimerTriggered, StartTimer, TypeOK
  <2> QED
    BY <1>1, <2>1, <2>2, <2>3 DEF TimerTriggered, sensingVars,
       backoffVars, races, marks, TypeOK, InfoInv, Queues
<1>2. CASE TimerThread
  <2> SUFFICES /\ inActive' \in BOOLEAN
               /\ timer' \in {"none", "new", "loop", "fire"}
               /\ age' \in 0 .. Duration
               /\ stops' \in Nat
               /\ raced' \in BOOLEAN
    BY <1>2 DEF TimerThread, sensingVars, backoffVars, marks, TypeOK, InfoInv
  <2>1. CASE TimerBegins /\ UNCHANGED <<stops, raced>>
    BY <2>1 DEF TimerBegins, TypeOK
  <2>2. CASE TimerRunsOut
             /\ raced' = (raced \/ Waiting("cmd") \/ Waiting("start"))
             /\ UNCHANGED stops
    BY <2>2 DEF TimerRunsOut, TypeOK
  <2>3. CASE TimerExpires /\ stops' = stops + 1 /\ UNCHANGED raced
    <3>1. inActive' \in BOOLEAN /\ raced' \in BOOLEAN
      BY <2>3, Zenon DEF TimerExpires, Inactive, TypeOK
    <3>2. /\ timer' \in {"none", "new", "loop", "fire"}
          /\ age' \in 0 .. Duration /\ stops' \in Nat
      BY <2>3 DEF TimerExpires, TypeOK
    <3> QED
      BY <3>1, <3>2
  <2> QED
    BY <1>2, <2>1, <2>2, <2>3 DEF TimerThread
<1>3. CASE Tick
  <2>1. age' \in 0 .. Duration /\ since' \in 0 .. Duration
    BY <1>3 DEF Tick, TimerTick, Counting, Older, TypeOK
  <2> QED
    BY <1>3, <2>1 DEF Tick, TimerTick, sensingVars, backoffVars, races, marks,
       TypeOK, InfoInv
<1> QED
  BY <1>1, <1>2, <1>3 DEF Timer

\* The timeout block and the queue at its port.
LEMMA AckTypes == TypeInv /\ (Transmit \/ AckIn \/ AckTimer) => TypeInv'
<1> SUFFICES ASSUME TypeInv, Transmit \/ AckIn \/ AckTimer PROVE TypeInv'
  OBVIOUS
<1> USE DEF TypeInv
<1> DEFINE t == ackTimer
<1>0. queue \in Queues /\ t \in Timers(MaybeFrame) /\ crossed \in Nat
  BY DEF TypeOK, Queues
<1>1. CASE Transmit
  <2>1. Head(queue["send"]) \in Frame /\ Taken(queue, "send") \in Queues
    BY <1>0, <1>1, TakeFrame DEF Transmit, Waiting, Port
  <2>2. queue' \in Queues
    BY <1>1, <2>1, PutFrame DEF Transmit, Port
  <2> QED
    BY <1>1, <2>2 DEF Transmit, sensingVars, timerVars, backoffVars, races,
       marks, TypeOK, InfoInv, Queues
<1>2. CASE InfoIn
  <2>1. Head(queue["info"]) \in Frame /\ Taken(queue, "info") \in Queues
    BY <1>0, <1>2, TakeFrame DEF InfoIn, Waiting, Port
  <2>2. ackTimer' \in Timers(MaybeFrame) /\ ackTimer'.waiting \in Frame
    <3>1. CASE t.set
      BY <1>0, <1>2, <3>1 DEF InfoIn, Started, InfoInv
    <3>2. CASE ~t.set
      <4>1. Head(queue["info"]) \in MaybeFrame
        BY <2>1 DEF MaybeFrame
      <4>2. Started(t, Head(queue["info"])) \in Timers(MaybeFrame)
        BY <1>0, <4>1, TimerStarted
      <4>3. Started(t, Head(queue["info"])).waiting = Head(queue["info"])
        BY <1>0, <3>2 DEF Started, Timers
      <4> QED
        BY <1>2, <2>1, <4>2, <4>3 DEF InfoIn
    <3> QED
      BY <3>1, <3>2
  <2>3. hurried' \in BOOLEAN
    BY <1>2, Zenon DEF InfoIn, TypeOK
  <2> QED
    BY <1>2, <2>1, <2>2, <2>3 DEF InfoIn, sensingVars, timerVars, backoffVars,
       TypeOK, InfoInv, Queues
<1>3. CASE AckIn
  <2>1. t.set /\ t.waiting \in Frame
    BY <1>3 DEF AckIn, InfoInv
  <2>2. queue' \in Queues /\ resolved' \subseteq 1 .. MaxFrames
    BY <1>0, <1>3, <2>1, PutFrame DEF AckIn, Port, Frame, TypeOK
  <2>3. ackTimer' \in Timers(MaybeFrame) /\ ackTimer'.waiting \in Frame
    BY <1>0, <1>3, <2>1, TimerKilled DEF AckIn
  <2>4. crossed' \in Nat
    BY <1>0, <1>3 DEF AckIn, Bit
  <2> QED
    BY <1>3, <2>2, <2>3, <2>4 DEF AckIn, sensingVars, timerVars, backoffVars,
       TypeOK, InfoInv, Queues
<1>4. CASE AckTimerDecides
  <2>1. /\ ackTimer' \in Timers(MaybeFrame) /\ t.waiting \in Frame
        /\ ackTimer'.waiting = t.waiting
    <3>1. t.counting > 0 /\ ackTimer' = Decided(t)
      BY <1>4 DEF AckTimerDecides
    <3>2. Alive(t)
      BY <1>0, <3>1 DEF Alive, Timers
    <3> QED
      BY <1>0, <3>1, <3>2, TimerRuns DEF InfoInv
  <2> QED
    BY <1>4, <2>1 DEF AckTimerDecides, sensingVars, timerVars, backoffVars, races,
       marks, TypeOK, InfoInv
<1>5. CASE AckTimerPublishes
  <2>1. t.due > 0 /\ t.waiting \in Frame
    BY <1>0, <1>5 DEF AckTimerPublishes, Timers, InfoInv, Alive
  <2>2. queue' \in Queues
    BY <1>0, <1>5, <2>1, PutFrame DEF AckTimerPublishes, Port
  <2>3. ackTimer' \in Timers(MaybeFrame) /\ ackTimer'.waiting = t.waiting
    BY <1>0, <1>5, TimerRuns DEF AckTimerPublishes
  <2> QED
    BY <1>5, <2>1, <2>2, <2>3 DEF AckTimerPublishes, sensingVars, timerVars,
       backoffVars, races, marks, TypeOK, InfoInv, Queues
<1>6. CASE AckTimerEnds
  <2>1. t.ending > 0 /\ t.waiting \in Frame
    BY <1>0, <1>6 DEF AckTimerEnds, Timers, InfoInv, Alive
  <2>2. ackTimer' \in Timers(MaybeFrame) /\ ackTimer'.waiting = t.waiting
    BY <1>0, <1>6, TimerRuns DEF AckTimerEnds
  <2> QED
    BY <1>6, <2>1, <2>2 DEF AckTimerEnds, sensingVars, timerVars, backoffVars,
       races, marks, TypeOK, InfoInv
<1> QED
  BY <1>1, <1>2, <1>3, <1>4, <1>5, <1>6 DEF AckTimer

\* What becomes of the threads of a backoff block.
ThreadsAre(b, n, w, c) ==
    backoff' = [backoff EXCEPT ![b] = [new |-> n, wait |-> w, clear |-> c]]

\* A thread of a backoff block goes from one stage to the next.
LEMMA ThreadGoesOn ==
    ASSUME NEW t \in Threads
    PROVE  /\ t.new > 0 =>
                 [t EXCEPT !.new = @ - 1, !.wait = @ + 1]
                    = [new |-> t.new - 1, wait |-> t.wait + 1, clear |-> t.clear]
           /\ t.wait > 0 =>
                 [t EXCEPT !.wait = @ - 1, !.clear = @ + 1]
                    = [new |-> t.new, wait |-> t.wait - 1, clear |-> t.clear + 1]
<1>1. \A u \in Threads : u = [new |-> u.new, wait |-> u.wait, clear |-> u.clear]
  BY DEF Threads
<1>2. ASSUME t.new > 0
      PROVE  [t EXCEPT !.new = @ - 1, !.wait = @ + 1]
                = [new |-> t.new - 1, wait |-> t.wait + 1, clear |-> t.clear]
  <2>1. t.new - 1 \in Nat /\ t.wait + 1 \in Nat
    BY <1>2 DEF Threads
  <2>2. PICK u : u = [t EXCEPT !.new = @ - 1, !.wait = @ + 1]
    OBVIOUS
  <2>3. u \in Threads
    BY <2>1, <2>2 DEF Threads
  <2>4. u.new = t.new - 1 /\ u.wait = t.wait + 1 /\ u.clear = t.clear
    BY <2>2 DEF Threads
  <2> QED
    BY <1>1, <2>2, <2>3, <2>4, Zenon
<1>3. ASSUME t.wait > 0
      PROVE  [t EXCEPT !.wait = @ - 1, !.clear = @ + 1]
                = [new |-> t.new, wait |-> t.wait - 1, clear |-> t.clear + 1]
  <2>1. t.wait - 1 \in Nat /\ t.clear + 1 \in Nat
    BY <1>3 DEF Threads
  <2>2. PICK u : u = [t EXCEPT !.wait = @ - 1, !.clear = @ + 1]
    OBVIOUS
  <2>3. u \in Threads
    BY <2>1, <2>2 DEF Threads
  <2>4. u.new = t.new /\ u.wait = t.wait - 1 /\ u.clear = t.clear + 1
    BY <2>2 DEF Threads
  <2> QED
    BY <1>1, <2>2, <2>3, <2>4, Zenon
<1> QED
  BY <1>2, <1>3

LEMMA ThreadsMove ==
    ASSUME TypeOK, NEW b \in Backoffs
    PROVE  LET t == backoff[b] IN
           /\ t.new \in Nat /\ t.wait \in Nat /\ t.clear \in Nat
           /\ \A f : Trigger(b, f) => ThreadsAre(b, t.new + 1, t.wait, t.clear)
           /\ BackoffBegins(b) =>
                 t.new > 0 /\ ThreadsAre(b, t.new - 1, t.wait + 1, t.clear)
           /\ BackoffPublishes(b) =>
                 t.wait > 0 /\ ThreadsAre(b, t.new, t.wait - 1, t.clear + 1)
           /\ BackoffEnds(b) =>
                 t.clear > 0 /\ ThreadsAre(b, t.new, t.wait, t.clear - 1)
<1> DEFINE t == backoff[b]
<1>1. /\ t \in Threads /\ t.new \in Nat /\ t.wait \in Nat /\ t.clear \in Nat
      /\ t = [new |-> t.new, wait |-> t.wait, clear |-> t.clear]
      /\ backoff \in [Backoffs -> Threads]
  BY DEF TypeOK, Threads
<1>2. ASSUME NEW f, Trigger(b, f) PROVE ThreadsAre(b, t.new + 1, t.wait, t.clear)
  <2>1. backoff' = [backoff EXCEPT ![b] = [t EXCEPT !.new = @ + 1]]
    BY <1>2 DEF Trigger
  <2>2. [t EXCEPT !.new = @ + 1]
          = [new |-> t.new + 1, wait |-> t.wait, clear |-> t.clear]
    BY <1>1 DEF Threads
  <2> QED
    BY <1>2, <2>1, <2>2 DEF Trigger, ThreadsAre
<1>3. ASSUME BackoffBegins(b)
      PROVE  t.new > 0 /\ ThreadsAre(b, t.new - 1, t.wait + 1, t.clear)
  <2>1. backoff' = [backoff EXCEPT ![b] = [t EXCEPT !.new = @ - 1, !.wait = @ + 1]]
    BY <1>3 DEF BackoffBegins
  <2>2. [t EXCEPT !.new = @ - 1, !.wait = @ + 1]
          = [new |-> t.new - 1, wait |-> t.wait + 1, clear |-> t.clear]
    BY <1>1, <1>3, ThreadGoesOn DEF BackoffBegins
  <2> QED
    BY <1>3, <2>1, <2>2 DEF BackoffBegins, ThreadsAre
<1>4. ASSUME BackoffPublishes(b)
      PROVE  t.wait > 0 /\ ThreadsAre(b, t.new, t.wait - 1, t.clear + 1)
  <2>1. backoff' = [backoff EXCEPT ![b] = [t EXCEPT !.wait = @ - 1, !.clear = @ + 1]]
    BY <1>4 DEF BackoffPublishes, Published
  <2>2. [t EXCEPT !.wait = @ - 1, !.clear = @ + 1]
          = [new |-> t.new, wait |-> t.wait - 1, clear |-> t.clear + 1]
    BY <1>1, <1>4, ThreadGoesOn DEF BackoffPublishes
  <2> QED
    BY <1>4, <2>1, <2>2 DEF BackoffPublishes, ThreadsAre
<1>5. ASSUME BackoffEnds(b)
      PROVE  t.clear > 0 /\ ThreadsAre(b, t.new, t.wait, t.clear - 1)
  <2>1. backoff' = [backoff EXCEPT ![b] = [t EXCEPT !.clear = @ - 1]]
    BY <1>5 DEF BackoffEnds
  <2>2. [t EXCEPT !.clear = @ - 1]
          = [new |-> t.new, wait |-> t.wait, clear |-> t.clear - 1]
    BY <1>1 DEF Threads
  <2> QED
    BY <1>5, <2>1, <2>2 DEF BackoffEnds, ThreadsAre
<1> QED
  BY <1>1, <1>2, <1>3, <1>4, <1>5

LEMMA ThreadsThen ==
    ASSUME TypeOK, NEW b \in Backoffs, NEW n \in Nat, NEW w \in Nat, NEW c \in Nat,
           ThreadsAre(b, n, w, c)
    PROVE  /\ backoff' \in [Backoffs -> Threads]
           /\ backoff'[b].new = n /\ backoff'[b].wait = w /\ backoff'[b].clear = c
           /\ Backing(backoff'[b]) = n + w
           /\ \A d \in Backoffs : d # b => backoff'[d] = backoff[d]
<1>1. [new |-> n, wait |-> w, clear |-> c] \in Threads
  BY DEF Threads
<1>2. backoff \in [Backoffs -> Threads]
  BY DEF TypeOK, Threads
<1> QED
  BY <1>1, <1>2 DEF ThreadsAre, Backing

LEMMA BackoffTypes ==
    ASSUME TypeInv, NEW b \in Backoffs, BackoffIn(b) \/ BackoffThread(b)
    PROVE  TypeInv'
<1> USE DEF TypeInv
<1>0. queue \in Queues /\ b \in Port
  BY DEF TypeOK, Queues, Port
<1>1. CASE BackoffIn(b)
  <2>1. Head(queue[b]) \in Frame /\ Taken(queue, b) \in Queues
    BY <1>0, <1>1, TakeFrame DEF BackoffIn, Waiting
  <2>2. CASE Trigger(b, Head(queue[b])) /\ UNCHANGED refused
    <3>1. /\ backoffInfo' \in [Backoffs -> MaybeFrame]
          /\ inBackoff' = inBackoff /\ backoffInfo'[b] \in Frame
          /\ \A d \in Backoffs : d # b => backoffInfo'[d] = backoffInfo[d]
      BY <2>1, <2>2 DEF Trigger, TypeOK, MaybeFrame
    <3>2. /\ backoff' \in [Backoffs -> Threads]
          /\ \A d \in Backoffs : d # b => backoff'[d] = backoff[d]
      <4> DEFINE t == backoff[b]
      <4>1. /\ t.new + 1 \in Nat /\ t.wait \in Nat /\ t.clear \in Nat
            /\ ThreadsAre(b, t.new + 1, t.wait, t.clear)
        BY <2>2, ThreadsMove
      <4> QED
        BY <4>1, ThreadsThen
    <3>3. InfoInv'
      BY <1>1, <3>1, <3>2 DEF BackoffIn, sensingVars, InfoInv
    <3> QED
      BY <1>1, <2>1, <2>2, <3>1, <3>2, <3>3 DEF BackoffIn, sensingVars, timerVars,
         marks, TypeOK, Queues, Threads
  <2>3. CASE TriggerRefused(b) /\ refused' = refused + 1
    BY <1>1, <2>1, <2>3 DEF BackoffIn, TriggerRefused, sensingVars, timerVars,
       backoffVars, marks, TypeOK, InfoInv, Queues
  <2> QED
    BY <1>1, <2>2, <2>3 DEF BackoffIn
<1>2. CASE BackoffThread(b)
  <2> DEFINE t == backoff[b]
  <2>1. /\ backoff' \in [Backoffs -> Threads]
        /\ backoffInfo' = backoffInfo
        /\ \A d \in Backoffs : d # b => backoff'[d] = backoff[d]
        /\ Backing(backoff'[b]) = Backing(t)
    <3>1. CASE BackoffBegins(b)
      <4>1. /\ t.new - 1 \in Nat /\ t.wait + 1 \in Nat /\ t.clear \in Nat
            /\ (t.new - 1) + (t.wait + 1) = t.new + t.wait
            /\ ThreadsAre(b, t.new - 1, t.wait + 1, t.clear)
        BY <3>1, ThreadsMove
      <4> QED
        BY <3>1, <4>1, ThreadsThen DEF BackoffBegins, Backing
    <3>2. CASE BackoffEnds(b)
      <4>1. /\ t.new \in Nat /\ t.wait \in Nat /\ t.clear - 1 \in Nat
            /\ ThreadsAre(b, t.new, t.wait, t.clear - 1)
        BY <3>2, ThreadsMove
      <4> QED
        BY <3>2, <4>1, ThreadsThen DEF BackoffEnds, Backing
    <3> QED
      BY <1>2, <3>1, <3>2 DEF BackoffThread
  <2>2. inBackoff' \in [Backoffs -> BOOLEAN]
    BY <1>2 DEF BackoffThread, BackoffBegins, BackoffEnds, TypeOK
  <2>3. \A d \in Backoffs : Backing(backoff'[d]) = Backing(backoff[d])
    BY <2>1
  <2>4. InfoInv'
    BY <1>2, <2>1, <2>3 DEF BackoffThread, sensingVars, InfoInv
  <2> QED
    BY <1>2, <2>1, <2>2, <2>4 DEF BackoffThread, sensingVars, timerVars,
       races, marks, TypeOK, Threads
<1> QED
  BY <1>1, <1>2

LEMMA DueTypes == TypeInv /\ (RetryDue \/ NextDue) => TypeInv'
<1> SUFFICES ASSUME TypeInv, RetryDue \/ NextDue PROVE TypeInv'
  OBVIOUS
<1> USE DEF TypeInv
<1>0. queue \in Queues /\ "retry" \in Backoffs /\ "next" \in Backoffs
  BY DEF TypeOK, Queues
<1>1. ASSUME NEW b \in Backoffs, BackoffPublishes(b)
      PROVE  /\ backoff' \in [Backoffs -> Threads]
             /\ inBackoff' = inBackoff /\ backoffInfo' = backoffInfo
             /\ \A d \in Backoffs :
                   Backing(backoff'[d]) > 0 => Backing(backoff[d]) > 0
             /\ backoffInfo[b] \in Frame
  <2> DEFINE t == backoff[b]
  <2>1. /\ t.new \in Nat /\ t.wait \in Nat /\ t.wait > 0
        /\ t.wait - 1 \in Nat /\ t.clear + 1 \in Nat
        /\ ThreadsAre(b, t.new, t.wait - 1, t.clear + 1)
    BY <1>1, ThreadsMove
  <2>2. /\ backoff' \in [Backoffs -> Threads]
        /\ \A d \in Backoffs : d # b => backoff'[d] = backoff[d]
    BY <2>1, ThreadsThen
  <2>3. Backing(t) > 0
    BY <2>1 DEF Backing
  <2>4. \A d \in Backoffs : Backing(backoff'[d]) > 0 => Backing(backoff[d]) > 0
    BY <2>2, <2>3
  <2> QED
    BY <1>1, <2>2, <2>3, <2>4 DEF BackoffPublishes, InfoInv
<1>2. CASE RetryDue
  <2>1. backoffInfo["retry"] \in Frame
    BY <1>0, <1>1, <1>2 DEF RetryDue
  <2>2. queue' \in Queues
    BY <1>0, <1>2, <2>1, PutFrame DEF RetryDue, Port
  <2>3. BackoffPublishes("retry")
    BY <1>2 DEF RetryDue
  <2>4. InfoInv'
    BY <1>0, <1>1, <1>2, <2>3 DEF RetryDue, sensingVars, InfoInv
  <2> QED
    BY <1>0, <1>1, <1>2, <2>2, <2>3, <2>4 DEF RetryDue, sensingVars, timerVars,
       races, marks, TypeOK, Queues, Threads
<1>3. CASE NextDue
  <2>1. requests' \in Nat
    BY <1>3 DEF NextDue, TypeOK
  <2>2. BackoffPublishes("next")
    BY <1>3 DEF NextDue
  <2>3. InfoInv'
    BY <1>0, <1>1, <1>3, <2>2 DEF NextDue, sensingVars, InfoInv
  <2> QED
    BY <1>0, <1>1, <1>3, <2>1, <2>2, <2>3 DEF NextDue, sensingVars, timerVars,
       races, marks, TypeOK, Threads
<1> QED
  BY <1>2, <1>3

LEMMA HandOverTypes == TypeInv /\ (NextElement \/ Resend) => TypeInv'
<1> SUFFICES ASSUME TypeInv, NextElement \/ Resend PROVE TypeInv'
  OBVIOUS
<1> USE DEF TypeInv
<1>0. queue \in Queues
  BY DEF TypeOK, Queues
<1>1. CASE NextElement
  <2>1. [index |-> frames + 1, n |-> 1] \in Frame
    BY <1>1, FrameMade DEF NextElement, TypeOK
  <2>2. queue' \in Queues /\ since' \in 0 .. Duration /\ raced' \in BOOLEAN
    BY <1>0, <1>1, <2>1, HandOverQueues DEF NextElement
  <2>3. requests' \in Nat /\ frames' \in 0 .. MaxFrames
    BY <1>1 DEF NextElement, TypeOK
  <2> QED
    BY <1>1, <2>2, <2>3 DEF NextElement, sensingVars, timerVars, backoffVars,
       marks, TypeOK, InfoInv, Queues
<1>2. CASE Resend
  <2> DEFINE f == Head(queue["resend"])
  <2>1. f \in Frame /\ Taken(queue, "resend") \in Queues
    BY <1>0, <1>2, TakeFrame DEF Resend, Waiting, Port
  <2>2. ~AtLimit(f) /\ HandOver(Taken(queue, "resend"), [f EXCEPT !.n = @ + 1])
    BY <1>2 DEF Resend
  <2>3. [f EXCEPT !.n = @ + 1] \in Frame
    BY <2>1, <2>2, FrameMade
  <2>4. queue' \in Queues /\ since' \in 0 .. Duration /\ raced' \in BOOLEAN
    BY <2>1, <2>2, <2>3, HandOverQueues
  <2> QED
    BY <1>2, <2>4 DEF Resend, sensingVars, timerVars, backoffVars, marks,
       TypeOK, InfoInv, Queues
<1> QED
  BY <1>1, <1>2

LEMMA GiveUpTypes == TypeInv /\ GiveUp => TypeInv'
<1> SUFFICES ASSUME TypeInv, GiveUp PROVE TypeInv'
  OBVIOUS
<1> USE DEF TypeInv
<1> DEFINE f == Head(queue["resend"])
<1>0. queue \in Queues
  BY DEF TypeOK, Queues
<1>1. f \in Frame /\ Taken(queue, "resend") \in Queues
  BY <1>0, TakeFrame DEF GiveUp, Waiting, Port
<1>2. resolved' \subseteq 1 .. MaxFrames
  BY <1>1 DEF Frame, GiveUp, TypeOK
<1>3. requests' \in Nat
  BY DEF GiveUp, TypeOK
<1> QED
  BY <1>1, <1>2, <1>3 DEF GiveUp, sensingVars, timerVars, backoffVars, races,
     marks, TypeOK, InfoInv, Queues

LEMMA TypeNext == TypeInv /\ [Next]_vars => TypeInv'
<1> SUFFICES ASSUME TypeInv, [Next]_vars PROVE TypeInv'
  OBVIOUS
<1>1. CASE PowerIn \/ Sensing
  BY <1>1, SensingTypes
<1>2. CASE Timer \/ Tick
  BY <1>2, TimerTypes
<1>3. CASE Transmit \/ AckIn \/ AckTimer
  BY <1>3, AckTypes
<1>4. CASE \E b \in Backoffs : BackoffIn(b) \/ BackoffThread(b)
  BY <1>4, BackoffTypes
<1>5. CASE RetryDue \/ NextDue
  BY <1>5, DueTypes
<1>6. CASE NextElement \/ Resend
  BY <1>6, HandOverTypes
<1>7. CASE GiveUp
  BY <1>7, GiveUpTypes
<1>8. CASE UNCHANGED vars
  <2>1. TypeOK'
    BY <1>8 DEF vars, sensingVars, timerVars, backoffVars, races, marks, TypeInv, TypeOK
  <2>2. InfoInv'
    BY <1>8 DEF vars, sensingVars, backoffVars, TypeInv, InfoInv
  <2> QED
    BY <2>1, <2>2 DEF TypeInv
<1> QED
  BY <1>1, <1>2, <1>3, <1>4, <1>5, <1>6, <1>7, <1>8
     DEF Next, Acts, Works, BackingOff

LEMMA Typed == Spec => []TypeInv
BY TypeInit, TypeNext, PTL DEF Spec

\* Every state of a station has the types of TypeOK: what carrier sensing and
\* the backoff blocks publish is a frame that was handed to them.
THEOREM AccessTypeCorrect == Spec => []TypeOK
<1>1. TypeInv => TypeOK
  BY DEF TypeInv
<1> QED
  BY <1>1, Typed, PTL


-----------------------------------------------------------------------------
(* The rights to the channel. *)

\* While no start has come too early, the timeout block has one countdown.
ThreadInv == ~hurried => OneThread(ackTimer)

\* While the right is single, a backoff block has one thread at most, and one
\* that is past its first statement has the flag set.
FlagInv ==
    Single => \A b \in Backoffs :
        /\ backoff[b].wait + backoff[b].clear > 0 => inBackoff[b]
        /\ backoff[b].new + backoff[b].wait + backoff[b].clear <= 1

RightInv == OneRight /\ ThreadInv /\ FlagInv

\* The sum as numbers.
LEMMA RightsSum ==
    ASSUME TypeOK
    PROVE  /\ requests \in Nat /\ Load(queue) \in Nat /\ Owed(ackTimer) \in Nat
           /\ InHand \in Nat /\ refused \in Nat /\ crossed \in Nat
           /\ sensor.loop \in Nat /\ sensor.decide \in Nat
           /\ \A b \in Backoffs : Backing(backoff[b]) \in Nat
           /\ InHand = sensor.loop + sensor.decide
                          + Backing(backoff["retry"]) + Backing(backoff["next"])
<1>1. Load(queue) \in Nat
  BY LoadSum DEF TypeOK, Queues
<1>2. requests \in Nat /\ refused \in Nat /\ crossed \in Nat
  BY DEF TypeOK
<1>3. Owed(ackTimer) \in Nat
  <2>1. ackTimer.due \in Nat
    BY DEF TypeOK, Timers
  <2> QED
    BY <2>1 DEF Owed, Bit
<1>4. \A b \in Backoffs : Backing(backoff[b]) \in Nat
  BY DEF TypeOK, Backing
<1>5. sensor.loop \in Nat /\ sensor.decide \in Nat
  BY DEF TypeOK
<1>6. InHand \in Nat
  BY <1>4, <1>5 DEF InHand
<1> QED
  BY <1>1, <1>2, <1>3, <1>4, <1>5, <1>6 DEF InHand

\* What is counted before and after a step.
Counts ==
    /\ requests \in Nat /\ Load(queue) \in Nat /\ Owed(ackTimer) \in Nat
    /\ InHand \in Nat /\ refused \in Nat /\ crossed \in Nat

LEMMA RightsThen == TypeOK' => Counts'
<1>1. TypeOK => Counts
  BY RightsSum DEF Counts
<1> QED
  BY <1>1, PTL

LEMMA NoneInHand ==
    ASSUME TypeOK, InHand = 0
    PROVE  /\ sensor.loop = 0 /\ sensor.decide = 0
           /\ \A b \in Backoffs : Backing(backoff[b]) = 0
<1>1. \A k, l, m, n \in Nat :
         k + l + m + n = 0 => k = 0 /\ l = 0 /\ m = 0 /\ n = 0
  OBVIOUS
<1>2. /\ sensor.loop \in Nat /\ sensor.decide \in Nat
      /\ Backing(backoff["retry"]) \in Nat /\ Backing(backoff["next"]) \in Nat
  BY RightsSum
<1>3. sensor.loop + sensor.decide
         + Backing(backoff["retry"]) + Backing(backoff["next"]) = 0
  BY DEF InHand
<1>4. /\ sensor.loop = 0 /\ sensor.decide = 0
      /\ Backing(backoff["retry"]) = 0 /\ Backing(backoff["next"]) = 0
  BY <1>1, <1>2, <1>3, Zenon
<1> QED
  BY <1>4

\* A frame at a counted port is the only right: nothing senses or backs off.
LEMMA Alone ==
    ASSUME TypeOK, OneRight, Single, NEW p \in Port, p # "start", Waiting(p)
    PROVE  /\ sensor.loop = 0 /\ sensor.decide = 0
           /\ \A b \in Backoffs : Backing(backoff[b]) = 0
<1>1. queue \in Queues
  BY DEF TypeOK, Queues
<1>2. Load(queue) >= 1
  <2>1. Load(queue) = Load(Taken(queue, p)) + Counted(p)
        /\ Load(Taken(queue, p)) \in Nat
    BY <1>1, LoadTaken DEF Waiting
  <2> QED
    BY <2>1 DEF Counted
<1>3. requests + Load(queue) + Owed(ackTimer) + InHand + refused = 1
  BY RightsSum DEF OneRight, Rights, Single
<1>4. InHand = 0
  BY <1>2, <1>3, RightsSum
<1> QED
  BY <1>4, NoneInHand

\* A step that moves a right, refuses one or adds one that it counts.
LEMMA RightsMoved ==
    ASSUME TypeOK, TypeOK', OneRight, ~hurried,
           requests' + Load(queue') + Owed(ackTimer') + InHand' + refused' + crossed
              = requests + Load(queue) + Owed(ackTimer) + InHand + refused + crossed'
    PROVE  OneRight'
<1>1. /\ requests \in Nat /\ Load(queue) \in Nat /\ Owed(ackTimer) \in Nat
      /\ InHand \in Nat /\ refused \in Nat /\ crossed \in Nat
  BY RightsSum
<1>2. /\ requests' \in Nat /\ Load(queue') \in Nat /\ Owed(ackTimer') \in Nat
      /\ InHand' \in Nat /\ refused' \in Nat /\ crossed' \in Nat
  BY RightsThen DEF Counts
<1>3. Rights + refused = 1 + crossed
  BY DEF OneRight
<1>4. Rights' = requests' + Load(queue') + Owed(ackTimer') + InHand'
  BY DEF Rights
<1> QED
  BY <1>1, <1>2, <1>3, <1>4 DEF OneRight, Rights

LEMMA SensingRights ==
    ASSUME TypeInv, TypeInv', OneRight, ~hurried, PowerIn \/ Sensing
    PROVE  OneRight'
<1>0. queue \in Queues /\ TypeOK /\ TypeOK'
  BY DEF TypeInv, TypeOK, Queues
<1>1. CASE PowerIn
  BY <1>1 DEF PowerIn, Power, backoffVars, races, marks, OneRight, Rights, InHand
<1>2. CASE CommandIn
  <2>1. Load(queue) = Load(queue') + 1
    BY <1>0, <1>2, LoadTaken DEF CommandIn, Waiting, Port, Counted
  <2>2. /\ backoff' = backoff /\ requests' = requests /\ ackTimer' = ackTimer
        /\ refused' = refused /\ crossed' = crossed
    BY <1>2 DEF CommandIn, backoffVars, races, marks
  <2>3. sensor'.loop = sensor.loop + 1 /\ sensor'.decide = sensor.decide
    BY <1>0, <1>2 DEF CommandIn, StartSensing, TypeOK
  <2>4. InHand' = InHand + 1
    BY <1>0, <2>2, <2>3, RightsSum DEF InHand
  <2>5. Load(queue') \in Nat
    BY <1>0, RightsThen DEF Counts
  <2> QED
    BY <1>0, <2>1, <2>2, <2>4, <2>5, RightsMoved, RightsSum
<1>3. CASE StopIn
  BY <1>3 DEF StopIn, StopSensing, backoffVars, races, marks, OneRight, Rights, InHand
<1>4. CASE SensingLoopEnds
  <2>1. /\ backoff' = backoff /\ requests' = requests /\ queue' = queue
        /\ ackTimer' = ackTimer /\ refused' = refused /\ crossed' = crossed
    BY <1>4 DEF SensingLoopEnds, backoffVars, marks
  <2>2. sensor'.loop = sensor.loop - 1 /\ sensor'.decide = sensor.decide + 1
    BY <1>4 DEF SensingLoopEnds, SensorLoop
  <2>3. InHand' = InHand
    BY <1>0, <2>1, <2>2, RightsSum DEF InHand
  <2> QED
    BY <1>0, <2>1, <2>3, RightsMoved
<1>5. CASE SensingEnds
  <2>1. PICK pass \in BOOLEAN :
           SensorDecide(pass) /\ queue' = Put(queue, AfterSensing(pass), cmd)
    BY <1>5 DEF SensingEnds
  <2>2. cmd \in Frame /\ AfterSensing(pass) \in {"send", "retry"}
    BY <1>0, <2>1, RightsSum DEF SensorDecide, TypeInv, InfoInv, AfterSensing
  <2>3. Load(queue') = Load(queue) + 1
    BY <1>0, <2>1, <2>2, LoadPut DEF Port, Counted
  <2>4. /\ backoff' = backoff /\ requests' = requests /\ ackTimer' = ackTimer
        /\ refused' = refused /\ crossed' = crossed
    BY <1>5 DEF SensingEnds, backoffVars, races, marks
  <2>5. sensor'.loop = sensor.loop /\ sensor'.decide = sensor.decide - 1
    BY <1>0, <2>1 DEF SensorDecide, TypeOK
  <2>6. InHand = InHand' + 1
    BY <1>0, <2>4, <2>5, RightsSum DEF InHand
  <2>7. InHand' \in Nat
    BY <1>0, RightsThen DEF Counts
  <2> QED
    BY <1>0, <2>3, <2>4, <2>6, <2>7, RightsMoved, RightsSum
<1> QED
  BY <1>1, <1>2, <1>3, <1>4, <1>5 DEF Sensing

LEMMA TimerRights == TypeInv /\ OneRight /\ (Timer \/ Tick) => OneRight'
<1> SUFFICES ASSUME TypeInv, OneRight, Timer \/ Tick PROVE OneRight'
  OBVIOUS
<1>0. queue \in Queues /\ TypeOK
  BY DEF TypeInv, TypeOK, Queues
<1>1. CASE TimerTriggered
  <2>1. Load(queue') = Load(queue)
    <3>1. /\ Load(queue) = Load(queue') + Counted("start")
          /\ Load(queue') \in Nat
      BY <1>0, <1>1, LoadTaken DEF TimerTriggered, Waiting, Port
    <3> QED
      BY <3>1 DEF Counted
  <2> QED
    BY <1>1, <2>1 DEF TimerTriggered, sensingVars, backoffVars, races, marks,
       OneRight, Rights, InHand
<1>2. CASE TimerThread
  BY <1>2 DEF TimerThread, sensingVars, backoffVars, marks, OneRight, Rights, InHand
<1>3. CASE Tick
  BY <1>3 DEF Tick, sensingVars, backoffVars, races, marks, OneRight, Rights, InHand
<1> QED
  BY <1>1, <1>2, <1>3 DEF Timer

\* A frame moved from one port to another keeps the load.
LEMMA LoadMoved ==
    ASSUME NEW q \in Queues, NEW p \in Port \ {"start"},
           NEW r \in Port \ {"start"}, NEW f \in Frame, q[p] # <<>>
    PROVE  Load(Put(Taken(q, p), r, f)) = Load(q)
<1>1. Taken(q, p) \in Queues
  BY TakeFrame
<1>2. Load(q) = Load(Taken(q, p)) + 1
  BY LoadTaken DEF Counted
<1>3. Load(Put(Taken(q, p), r, f)) = Load(Taken(q, p)) + 1
  BY <1>1, LoadPut DEF Counted
<1> QED
  BY <1>2, <1>3

\* An acknowledgement takes the verdict that was to come, or crosses with it
\* and adds one.
LEMMA AckRights ==
    ASSUME TypeInv, TypeInv', OneRight, ThreadInv, ~hurried,
           Transmit \/ AckIn \/ AckTimer
    PROVE  OneRight' /\ ThreadInv'
<1> DEFINE t == ackTimer
<1>0. /\ queue \in Queues /\ TypeOK /\ TypeOK'
      /\ t \in Timers(MaybeFrame) /\ OneThread(t)
  BY DEF TypeInv, TypeOK, Queues, ThreadInv
<1>1. Load(queue) \in Nat /\ Owed(t) \in Nat /\ crossed \in Nat
  BY <1>0, RightsSum
<1>2. CASE Transmit
  <2>1. Load(queue') = Load(queue)
    <3>1. Head(queue["send"]) \in Frame
      BY <1>0, <1>2, TakeFrame DEF Transmit, Waiting, Port
    <3> QED
      BY <1>0, <1>2, <3>1, LoadMoved DEF Transmit, Waiting, Port
  <2> QED
    BY <1>2, <2>1 DEF Transmit, sensingVars, backoffVars, races, marks,
       OneRight, ThreadInv, Rights, InHand
<1>3. CASE InfoIn
  <2>1. CASE Alive(t)
    BY <1>3, <2>1 DEF InfoIn, OneRight, ThreadInv
  <2>2. CASE ~Alive(t)
    <3>1. Head(queue["info"]) \in MaybeFrame
      BY <1>0, <1>3, TakeFrame DEF InfoIn, Waiting, Port, MaybeFrame
    <3>2. OneThread(ackTimer') /\ Owed(t) = 0 /\ Owed(ackTimer') = 1
      BY <1>0, <1>3, <2>2, <3>1, TimerStarted DEF InfoIn
    <3>3. Load(queue) = Load(queue') + 1
      BY <1>0, <1>3, LoadTaken DEF InfoIn, Waiting, Port, Counted
    <3>4. /\ InHand' = InHand /\ requests' = requests
          /\ refused' = refused /\ crossed' = crossed
      BY <1>3 DEF InfoIn, sensingVars, backoffVars, InHand
    <3>5. Counts'
      BY <1>0, RightsThen
    <3> QED
      BY <1>0, <3>2, <3>3, <3>4, <3>5, RightsMoved, RightsSum DEF ThreadInv, Counts
  <2> QED
    BY <2>1, <2>2
<1>4. CASE AckIn
  <2>1. t.set /\ t.waiting \in Frame /\ ackTimer' = Killed(t)
    BY <1>4 DEF AckIn, TypeInv, InfoInv
  <2>2. Load(queue') = Load(queue) + 1
    BY <1>0, <1>4, <2>1, LoadPut DEF AckIn, Port, Counted
  <2>3. InHand' = InHand /\ requests' = requests /\ refused' = refused
    BY <1>4 DEF AckIn, sensingVars, backoffVars, InHand
  <2>4. OneThread(ackTimer')
    BY <1>0, <2>1, TimerKilled
  <2>5. Owed(ackTimer') + 1 = Owed(t) + Bit(Past(t))
    <3>1. CASE Past(t)
      BY <1>0, <1>1, <2>1, <3>1, TimerKilled DEF Bit
    <3>2. CASE ~Past(t)
      BY <1>0, <1>1, <2>1, <3>2, TimerKilled DEF Bit
    <3> QED
      BY <3>1, <3>2
  <2>6. crossed' = crossed + Bit(Past(t)) /\ Bit(Past(t)) \in Nat
    BY <1>4 DEF AckIn, Bit
  <2>7. Counts'
    BY <1>0, RightsThen
  <2> QED
    BY <1>0, <2>2, <2>3, <2>4, <2>5, <2>6, <2>7, RightsMoved, RightsSum
       DEF ThreadInv, Counts
<1>5. CASE AckTimerDecides
  <2>1. OneThread(ackTimer') /\ Owed(ackTimer') = Owed(t)
    BY <1>0, <1>5, TimerRuns DEF AckTimerDecides
  <2> QED
    BY <1>5, <2>1 DEF AckTimerDecides, sensingVars, backoffVars, races, marks,
       OneRight, ThreadInv, Rights, InHand
<1>6. CASE AckTimerPublishes
  <2>1. OneThread(ackTimer') /\ Owed(ackTimer') = 0 /\ Owed(t) = 1
    BY <1>0, <1>6, TimerRuns DEF AckTimerPublishes
  <2>2. t.waiting \in Frame
    BY <1>0, <1>6 DEF AckTimerPublishes, TypeInv, InfoInv, Alive, Timers
  <2>3. Load(queue') = Load(queue) + 1
    BY <1>0, <1>6, <2>2, LoadPut DEF AckTimerPublishes, Port, Counted
  <2>4. /\ InHand' = InHand /\ requests' = requests
        /\ refused' = refused /\ crossed' = crossed
    BY <1>6 DEF AckTimerPublishes, sensingVars, backoffVars, races, marks, InHand
  <2> QED
    BY <1>0, <2>1, <2>3, <2>4, RightsMoved, RightsSum DEF ThreadInv
<1>7. CASE AckTimerEnds
  <2>1. OneThread(ackTimer') /\ Owed(ackTimer') = 0 /\ Owed(t) = 0
    BY <1>0, <1>7, TimerRuns DEF AckTimerEnds
  <2> QED
    BY <1>7, <2>1 DEF AckTimerEnds, sensingVars, backoffVars, races, marks,
       OneRight, ThreadInv, Rights, InHand
<1> QED
  BY <1>2, <1>3, <1>4, <1>5, <1>6, <1>7 DEF AckTimer

\* A block whose threads change: the others keep theirs.
LEMMA InHandMoves ==
    ASSUME TypeOK, NEW b \in Backoffs, NEW n \in Nat, NEW w \in Nat, NEW c \in Nat,
           ThreadsAre(b, n, w, c), sensor' = sensor
    PROVE  InHand' + Backing(backoff[b]) = InHand + (n + w)
<1>1. \A d \in Backoffs : d # b => Backing(backoff'[d]) = Backing(backoff[d])
  BY ThreadsThen
<1>2. Backing(backoff'[b]) = n + w
  BY ThreadsThen
<1>3. b = "retry" \/ b = "next"
  OBVIOUS
<1> QED
  BY <1>1, <1>2, <1>3, RightsSum DEF InHand

LEMMA BackoffRights ==
    ASSUME TypeInv, TypeInv', OneRight, ~hurried, NEW b \in Backoffs,
           BackoffIn(b) \/ BackoffThread(b)
    PROVE  OneRight'
<1> DEFINE t == backoff[b]
<1>0. queue \in Queues /\ TypeOK /\ TypeOK' /\ b \in Port \ {"start"}
  BY DEF TypeInv, TypeOK, Queues, Port
<1>1. t.new \in Nat /\ t.wait \in Nat /\ t.clear \in Nat /\ Backing(t) = t.new + t.wait
  BY <1>0, ThreadsMove DEF Backing
<1>2. CASE BackoffIn(b)
  <2>1. Load(queue) = Load(queue') + 1 /\ Load(queue') \in Nat
    BY <1>0, <1>2, LoadTaken DEF BackoffIn, Waiting, Counted
  <2>2. /\ requests' = requests /\ sensor' = sensor
        /\ ackTimer' = ackTimer /\ crossed' = crossed
    BY <1>2 DEF BackoffIn, sensingVars, marks
  <2>3. CASE Trigger(b, Head(queue[b])) /\ UNCHANGED refused
    <3>1. t.new + 1 \in Nat /\ ThreadsAre(b, t.new + 1, t.wait, t.clear)
      BY <1>0, <1>1, <2>3, ThreadsMove
    <3>2. InHand' + Backing(t) = InHand + (t.new + 1 + t.wait)
      BY <1>0, <1>1, <2>2, <3>1, InHandMoves
    <3>3. Counts'
      BY <1>0, RightsThen
    <3> QED
      BY <1>0, <1>1, <2>1, <2>2, <2>3, <3>2, <3>3, RightsMoved, RightsSum DEF Counts
  <2>4. CASE TriggerRefused(b) /\ refused' = refused + 1
    <3>1. InHand' = InHand
      BY <2>2, <2>4 DEF TriggerRefused, backoffVars, InHand
    <3> QED
      BY <1>0, <2>1, <2>2, <2>4, <3>1, RightsMoved, RightsSum
  <2> QED
    BY <1>2, <2>3, <2>4 DEF BackoffIn
<1>3. CASE BackoffThread(b)
  <2>1. /\ requests' = requests /\ queue' = queue /\ sensor' = sensor
        /\ ackTimer' = ackTimer /\ refused' = refused /\ crossed' = crossed
    BY <1>3 DEF BackoffThread, sensingVars, races, marks
  <2>2. InHand' = InHand
    <3>1. CASE BackoffBegins(b)
      <4>1. t.new - 1 \in Nat /\ t.wait + 1 \in Nat
            /\ ThreadsAre(b, t.new - 1, t.wait + 1, t.clear)
        BY <1>0, <1>1, <3>1, ThreadsMove
      <4>2. InHand' + Backing(t) = InHand + ((t.new - 1) + (t.wait + 1))
        BY <1>0, <1>1, <2>1, <4>1, InHandMoves
      <4>3. Counts'
        BY <1>0, RightsThen
      <4> QED
        BY <1>0, <1>1, <4>2, <4>3, RightsSum DEF Counts
    <3>2. CASE BackoffEnds(b)
      <4>1. t.clear - 1 \in Nat /\ ThreadsAre(b, t.new, t.wait, t.clear - 1)
        BY <1>0, <1>1, <3>2, ThreadsMove
      <4>2. InHand' + Backing(t) = InHand + (t.new + t.wait)
        BY <1>0, <1>1, <2>1, <4>1, InHandMoves
      <4>3. Counts'
        BY <1>0, RightsThen
      <4> QED
        BY <1>0, <1>1, <4>2, <4>3, RightsSum DEF Counts
    <3> QED
      BY <1>3, <3>1, <3>2 DEF BackoffThread
  <2> QED
    BY <1>0, <2>1, <2>2, RightsMoved
<1> QED
  BY <1>2, <1>3

LEMMA DueRights ==
    ASSUME TypeInv, TypeInv', OneRight, ~hurried, RetryDue \/ NextDue
    PROVE  OneRight'
<1>0. queue \in Queues /\ TypeOK /\ TypeOK' /\ Counts'
  BY RightsThen DEF TypeInv, TypeOK, Queues
<1>1. ASSUME NEW b \in Backoffs, BackoffPublishes(b), sensor' = sensor
      PROVE  InHand = InHand' + 1 /\ Backing(backoff[b]) > 0
  <2> DEFINE t == backoff[b]
  <2>1. /\ t.new \in Nat /\ t.wait \in Nat /\ t.clear \in Nat /\ t.wait > 0
        /\ t.wait - 1 \in Nat /\ t.clear + 1 \in Nat
        /\ ThreadsAre(b, t.new, t.wait - 1, t.clear + 1)
    BY <1>0, <1>1, ThreadsMove
  <2>2. InHand' + Backing(t) = InHand + (t.new + (t.wait - 1))
    BY <1>0, <1>1, <2>1, InHandMoves
  <2>3. Backing(t) = t.new + t.wait
    BY DEF Backing
  <2>4. InHand \in Nat /\ InHand' \in Nat
    BY <1>0, RightsSum DEF Counts
  <2>5. Backing(t) > 0
    BY <2>1, <2>3
  <2>6. PICK x \in Nat, y \in Nat, n \in Nat, w \in Nat :
           x = InHand /\ y = InHand' /\ n = t.new /\ w = t.wait
    BY <2>1, <2>4
  <2>7. y + (n + w) = x + (n + (w - 1)) /\ w > 0
    BY <2>1, <2>2, <2>3, <2>6
  <2>8. x = y + 1
    BY <2>7
  <2> QED
    BY <2>5, <2>6, <2>8
<1>2. CASE RetryDue
  <2>1. InHand = InHand' + 1 /\ Backing(backoff["retry"]) > 0
    BY <1>1, <1>2 DEF RetryDue, sensingVars
  <2>2. backoffInfo["retry"] \in Frame
    BY <2>1 DEF TypeInv, InfoInv
  <2>3. Load(queue') = Load(queue) + 1
    BY <1>0, <1>2, <2>2, LoadPut DEF RetryDue, Port, Counted
  <2>4. /\ requests' = requests /\ ackTimer' = ackTimer
        /\ refused' = refused /\ crossed' = crossed
    BY <1>2 DEF RetryDue, races, marks
  <2> QED
    BY <1>0, <2>1, <2>3, <2>4, RightsMoved, RightsSum DEF Counts
<1>3. CASE NextDue
  <2>1. InHand = InHand' + 1
    BY <1>1, <1>3 DEF NextDue, sensingVars
  <2>2. /\ requests' = requests + 1 /\ queue' = queue /\ ackTimer' = ackTimer
        /\ refused' = refused /\ crossed' = crossed
    BY <1>3 DEF NextDue, races, marks
  <2> QED
    BY <1>0, <2>1, <2>2, RightsMoved, RightsSum DEF Counts
<1> QED
  BY <1>2, <1>3

LEMMA HandOverRights ==
    ASSUME TypeInv, TypeInv', OneRight, ~hurried, NextElement \/ Resend \/ GiveUp
    PROVE  OneRight'
<1>0. queue \in Queues /\ TypeOK /\ TypeOK' /\ Counts'
  BY RightsThen DEF TypeInv, TypeOK, Queues
<1>1. /\ InHand' = InHand /\ refused' = refused /\ crossed' = crossed
      /\ ackTimer' = ackTimer
  BY DEF NextElement, Resend, GiveUp, sensingVars, backoffVars, races, marks, InHand
<1>2. CASE NextElement
  <2>1. [index |-> frames + 1, n |-> 1] \in Frame
    BY <1>0, <1>2, FrameMade DEF NextElement, TypeOK
  <2>2. Load(queue') = Load(queue) + 1
    BY <1>0, <1>2, <2>1, HandOverQueues DEF NextElement
  <2>3. requests = requests' + 1
    BY <1>0, <1>2 DEF NextElement, TypeOK
  <2> QED
    BY <1>0, <1>1, <2>2, <2>3, RightsMoved, RightsSum DEF Counts
<1>3. CASE Resend
  <2> DEFINE f == Head(queue["resend"])
  <2> DEFINE q == Taken(queue, "resend")
  <2>1. f \in Frame /\ q \in Queues
    BY <1>0, <1>3, TakeFrame DEF Resend, Waiting, Port
  <2>2. [f EXCEPT !.n = @ + 1] \in Frame
    BY <1>3, <2>1, FrameMade DEF Resend
  <2>3. Load(queue') = Load(q) + 1
    BY <1>0, <1>3, <2>1, <2>2, HandOverQueues DEF Resend
  <2>4. Load(queue) = Load(q) + 1
    BY <1>0, <1>3, LoadTaken DEF Resend, Waiting, Port, Counted
  <2>5. requests' = requests
    BY <1>3 DEF Resend
  <2> QED
    BY <1>0, <1>1, <2>3, <2>4, <2>5, RightsMoved
<1>4. CASE GiveUp
  <2>1. Load(queue) = Load(queue') + 1
    BY <1>0, <1>4, LoadTaken DEF GiveUp, Waiting, Port, Counted
  <2>2. requests' = requests + 1
    BY <1>4 DEF GiveUp
  <2> QED
    BY <1>0, <1>1, <2>1, <2>2, RightsMoved, RightsSum DEF Counts
<1> QED
  BY <1>2, <1>3, <1>4

\* A right that is single now was single before.
LEMMA SingleBefore ==
    ASSUME TypeOK, [Next]_vars, Single'
    PROVE  Single
<1>1. crossed \in Nat /\ hurried \in BOOLEAN
  BY DEF TypeOK
<1>2. CASE UNCHANGED vars
  BY <1>2 DEF vars, races, marks, Single
<1>3. CASE AckIn
  BY <1>1, <1>3 DEF AckIn, Bit, Single
<1>4. CASE Next /\ ~AckIn
  <2>1. ~hurried
    BY <1>4 DEF Next
  <2>2. crossed' = crossed
    BY <1>4 DEF Next, Acts, Works, BackingOff, Sensing, Timer, AckTimer, PowerIn,
       NextElement, CommandIn, StopIn, SensingLoopEnds, SensingEnds, TimerTriggered,
       TimerThread, Tick, Transmit, InfoIn, AckTimerDecides, AckTimerPublishes,
       AckTimerEnds, BackoffIn, BackoffThread, RetryDue, NextDue, Resend, GiveUp,
       races, marks
  <2> QED
    BY <2>1, <2>2 DEF Single
<1> QED
  BY <1>2, <1>3, <1>4

LEMMA FlagNext == TypeInv /\ OneRight /\ FlagInv /\ [Next]_vars => FlagInv'
<1> SUFFICES ASSUME TypeInv, OneRight, FlagInv, [Next]_vars, Single' PROVE FlagInv'
  BY DEF FlagInv
<1> DEFINE Flagged(b) ==
       /\ backoff[b].wait + backoff[b].clear > 0 => inBackoff[b]
       /\ backoff[b].new + backoff[b].wait + backoff[b].clear <= 1
<1>0. TypeOK /\ Single /\ \A b \in Backoffs : Flagged(b)
  BY SingleBefore DEF TypeInv, FlagInv
<1>1. ASSUME UNCHANGED backoffVars PROVE FlagInv'
  BY <1>0, <1>1 DEF backoffVars, FlagInv
<1>2. CASE NextElement \/ Resend \/ GiveUp \/ PowerIn \/ Sensing
  BY <1>1, <1>2 DEF NextElement, Resend, GiveUp, PowerIn, Sensing, CommandIn,
     StopIn, SensingLoopEnds, SensingEnds
<1>3. CASE Timer \/ Tick \/ Transmit \/ AckIn \/ AckTimer
  BY <1>1, <1>3 DEF Timer, TimerTriggered, TimerThread, Tick, Transmit, AckIn,
     AckTimer, InfoIn, AckTimerDecides, AckTimerPublishes, AckTimerEnds
<1>4. ASSUME NEW b \in Backoffs, NEW n \in Nat, NEW w \in Nat, NEW c \in Nat,
             ThreadsAre(b, n, w, c), n + w + c <= 1,
             w + c > 0 => inBackoff'[b],
             \A d \in Backoffs : d # b => inBackoff'[d] = inBackoff[d]
      PROVE  FlagInv'
  <2>1. Flagged(b)'
    BY <1>0, <1>4, ThreadsThen
  <2>2. \A d \in Backoffs : d # b => Flagged(d)'
    BY <1>0, <1>4, ThreadsThen
  <2> QED
    BY <2>1, <2>2 DEF FlagInv
<1>5. ASSUME NEW b \in Backoffs, BackoffIn(b) \/ BackoffThread(b) \/ BackoffPublishes(b)
      PROVE  FlagInv'
  <2> DEFINE t == backoff[b]
  <2>1. /\ t.new \in Nat /\ t.wait \in Nat /\ t.clear \in Nat
        /\ t.new + t.wait + t.clear <= 1
        /\ t.wait + t.clear > 0 => inBackoff[b]
    BY <1>0, ThreadsMove
  <2>2. CASE BackoffIn(b) /\ Trigger(b, Head(queue[b]))
    <3>1. Backing(t) = 0
      BY <1>0, <2>2, Alone DEF BackoffIn, Port
    <3>2. t.new = 0 /\ t.wait = 0 /\ t.clear = 0
      BY <2>1, <2>2, <3>1 DEF Backing, Trigger
    <3>3. ThreadsAre(b, t.new + 1, t.wait, t.clear) /\ inBackoff' = inBackoff
      BY <1>0, <2>2, ThreadsMove DEF Trigger
    <3> QED
      BY <1>4, <3>2, <3>3
  <2>3. CASE TriggerRefused(b)
    BY <1>1, <2>3 DEF TriggerRefused
  <2>4. CASE BackoffBegins(b)
    <3>1. /\ t.new - 1 \in Nat /\ t.wait + 1 \in Nat
          /\ (t.new - 1) + (t.wait + 1) + t.clear <= 1
          /\ ThreadsAre(b, t.new - 1, t.wait + 1, t.clear)
      BY <1>0, <2>1, <2>4, ThreadsMove
    <3>2. inBackoff'[b] /\ \A d \in Backoffs : d # b => inBackoff'[d] = inBackoff[d]
      BY <1>0, <2>4 DEF BackoffBegins, TypeOK
    <3> QED
      BY <1>4, <2>1, <3>1, <3>2
  <2>5. CASE BackoffPublishes(b)
    <3>1. /\ t.wait - 1 \in Nat /\ t.clear + 1 \in Nat
          /\ t.new + (t.wait - 1) + (t.clear + 1) <= 1
          /\ ThreadsAre(b, t.new, t.wait - 1, t.clear + 1)
          /\ inBackoff[b]
      BY <1>0, <2>1, <2>5, ThreadsMove
    <3>2. inBackoff' = inBackoff
      BY <2>5 DEF BackoffPublishes
    <3> QED
      BY <1>4, <2>1, <3>1, <3>2
  <2>6. CASE BackoffEnds(b)
    <3>1. /\ t.clear - 1 \in Nat /\ t.new + t.wait + (t.clear - 1) <= 1
          /\ ThreadsAre(b, t.new, t.wait, t.clear - 1)
          /\ ~(t.wait + (t.clear - 1) > 0)
      BY <1>0, <2>1, <2>6, ThreadsMove
    <3>2. \A d \in Backoffs : d # b => inBackoff'[d] = inBackoff[d]
      BY <1>0, <2>6 DEF BackoffEnds, TypeOK
    <3> QED
      BY <1>4, <2>1, <3>1, <3>2
  <2> QED
    BY <1>5, <2>2, <2>3, <2>4, <2>5, <2>6 DEF BackoffIn, BackoffThread
<1>6. CASE RetryDue \/ NextDue
  BY <1>5, <1>6 DEF RetryDue, NextDue
<1>7. CASE UNCHANGED vars
  BY <1>1, <1>7 DEF vars
<1> QED
  BY <1>2, <1>3, <1>5, <1>6, <1>7 DEF Next, Acts, Works, BackingOff

LEMMA RightInit == Init => RightInv
<1> SUFFICES ASSUME Init PROVE RightInv
  OBVIOUS
<1>1. OneRight
  <2>1. /\ queue["cmd"] = <<>> /\ queue["send"] = <<>>
        /\ queue["info"] = <<>> /\ queue["retry"] = <<>>
        /\ queue["next"] = <<>> /\ queue["resend"] = <<>>
    BY DEF Init, Port
  <2>2. Load(queue) = 0
    BY <2>1 DEF Load
  <2>3. InHand = 0
    BY DEF Init, SensingInit, BackoffInit, InHand, Backing
  <2>4. Owed(ackTimer) = 0
    BY DEF Init, NoTimer, Owed, Bit
  <2> QED
    BY <2>2, <2>3, <2>4 DEF Init, OneRight, Rights
<1>2. ThreadInv
  BY DEF Init, NoTimer, ThreadInv, OneThread
<1>3. FlagInv
  BY DEF Init, BackoffInit, FlagInv
<1> QED
  BY <1>1, <1>2, <1>3 DEF RightInv

LEMMA RightNext == TypeInv /\ RightInv /\ [Next]_vars => RightInv'
<1> SUFFICES ASSUME TypeInv, RightInv, [Next]_vars PROVE OneRight' /\ ThreadInv'
  BY FlagNext DEF RightInv
<1>0. OneRight /\ ThreadInv /\ TypeInv'
  BY TypeNext DEF RightInv
<1>1. ASSUME UNCHANGED <<ackTimer, hurried>> PROVE ThreadInv'
  BY <1>0, <1>1 DEF ThreadInv
<1>2. CASE ~hurried /\ (PowerIn \/ Sensing)
  BY <1>0, <1>1, <1>2, SensingRights DEF PowerIn, Sensing, CommandIn, StopIn,
     SensingLoopEnds, SensingEnds, races, marks
<1>3. CASE ~hurried /\ (Timer \/ Tick)
  BY <1>0, <1>1, <1>3, TimerRights DEF Timer, TimerTriggered, TimerThread, Tick,
     races, marks
<1>4. CASE ~hurried /\ (Transmit \/ AckIn \/ AckTimer)
  BY <1>0, <1>4, AckRights
<1>5. ASSUME ~hurried, NEW b \in Backoffs, BackoffIn(b) \/ BackoffThread(b)
      PROVE  OneRight' /\ ThreadInv'
  BY <1>0, <1>1, <1>5, BackoffRights DEF BackoffIn, BackoffThread, races, marks
<1>6. CASE ~hurried /\ (RetryDue \/ NextDue)
  BY <1>0, <1>1, <1>6, DueRights DEF RetryDue, NextDue, races, marks
<1>7. CASE ~hurried /\ (NextElement \/ Resend \/ GiveUp)
  BY <1>0, <1>1, <1>7, HandOverRights DEF NextElement, Resend, GiveUp, races, marks
<1>8. CASE UNCHANGED vars
  BY <1>0, <1>1, <1>8 DEF vars, sensingVars, backoffVars, races, marks, OneRight,
     Rights, InHand
<1> QED
  BY <1>2, <1>3, <1>4, <1>5, <1>6, <1>7, <1>8 DEF Next, Acts, Works, BackingOff

LEMMA RightHolds == Spec => []RightInv
BY RightInit, RightNext, Typed, PTL DEF Spec

\* The rights to the channel are conserved while countdowns do not overlap: one
\* for the station, one more for each acknowledgement that crosses with the
\* timeout of its transmission, one less for each trigger that is refused.
THEOREM RightKept == Spec => []OneRight
<1>1. RightInv => OneRight
  BY DEF RightInv
<1> QED
  BY <1>1, RightHolds, PTL

\* While no acknowledgement has crossed, no handler starts a thread beside the
\* one of an earlier frame: what the thread is still to publish is not
\* overwritten.
THEOREM ThreadsAlone == Spec => []OneAtATime
<1>1. TypeInv /\ RightInv => OneAtATime
  <2> SUFFICES ASSUME TypeInv, RightInv, Single PROVE OneAtATime
    BY DEF OneAtATime
  <2>0. TypeOK /\ OneRight /\ FlagInv
    BY DEF TypeInv, RightInv
  <2>1. Waiting("cmd") => sensor.loop + sensor.decide = 0
    BY <2>0, Alone DEF Port
  <2>2. ASSUME NEW b \in Backoffs, Waiting(b), ~inBackoff[b]
        PROVE  Backing(backoff[b]) + backoff[b].clear = 0
    <3>1. Backing(backoff[b]) = 0
      BY <2>0, <2>2, Alone DEF Port
    <3>2. backoff[b].wait \in Nat /\ backoff[b].clear \in Nat
      BY <2>0, ThreadsMove
    <3>3. ~(backoff[b].wait + backoff[b].clear > 0)
      BY <2>0, <2>2 DEF FlagInv
    <3>4. backoff[b].clear = 0
      BY <3>2, <3>3
    <3> QED
      BY <3>1, <3>4
  <2> QED
    BY <2>1, <2>2 DEF OneAtATime
<1> QED
  BY <1>1, Typed, RightHolds, PTL

-----------------------------------------------------------------------------
(* Carrier sensing and its timer. *)

\* The flag of the timer says whether it has a thread.
TimerFlag == inActive <=> timer # "none"

\* While a frame is on its way to the two blocks, no timer is about to stop
\* the sensing, and the one that will stop it is running or about to start.
NoStopYet ==
    ~raced /\ (Waiting("cmd") \/ Waiting("start")) =>
        timer # "fire" /\ stops = 0

TimerComes ==
    ~raced /\ Waiting("cmd") => Waiting("start") \/ timer \in {"new", "loop"}

\* A timer that has no trigger ahead of it was not started before the frame
\* was handed over, so that it stops the sensing late enough.
NotBefore == timer = "loop" /\ ~Waiting("start") => age <= since

StopLate ==
    ~raced /\ (timer = "fire" \/ stops > 0) => since >= Duration

StoppedLate ==
    Single /\ ~raced /\ sensor.loop > 0 /\ stopSensing => since >= Duration

WatchInv ==
    /\ TimerFlag
    /\ NoStopYet
    /\ TimerComes
    /\ SensingWatched
    /\ NotBefore
    /\ StopLate
    /\ StoppedLate
    /\ SensedLongEnough

LEMMA WatchInit == Init => WatchInv
<1> SUFFICES ASSUME Init PROVE WatchInv
  OBVIOUS
<1>1. /\ timer = "none" /\ inActive = FALSE /\ stops = 0
      /\ sensor.loop = 0 /\ cut = FALSE
      /\ ~Waiting("cmd") /\ ~Waiting("start")
  BY DEF Init, SensingInit, TimerInit, Waiting, Port
<1>2. TimerFlag /\ SensedLongEnough
  BY <1>1, Zenon DEF TimerFlag, SensedLongEnough
<1> QED
  BY <1>1, <1>2 DEF WatchInv, NoStopYet, TimerComes, SensingWatched, NotBefore,
     StopLate, StoppedLate

\* A step that leaves the two blocks and their ports alone.
Apart ==
    /\ queue'["cmd"] = queue["cmd"] /\ queue'["start"] = queue["start"]
    /\ sensor'.loop = sensor.loop /\ stopSensing' = stopSensing
    /\ inActive' = inActive /\ timer' = timer /\ age' = age
    /\ stops' = stops /\ since' = since /\ raced' = raced /\ cut' = cut

LEMMA ApartWatched == WatchInv /\ Apart /\ (Single' => Single) => WatchInv'
<1> SUFFICES ASSUME WatchInv, Apart, Single' => Single PROVE WatchInv'
  OBVIOUS
<1>1. (Waiting("cmd")' <=> Waiting("cmd")) /\ (Waiting("start")' <=> Waiting("start"))
  BY DEF Apart, Waiting
<1> QED
  BY <1>1 DEF Apart, WatchInv, TimerFlag, NoStopYet, TimerComes, SensingWatched,
     NotBefore, StopLate, StoppedLate, SensedLongEnough

\* Putting at and taking from another port leaves these two alone.
LEMMA OtherPorts ==
    ASSUME NEW q \in Queues, NEW p \in Port \ {"cmd", "start"},
           NEW f \in Frame
    PROVE  /\ Put(q, p, f)["cmd"] = q["cmd"]
           /\ Put(q, p, f)["start"] = q["start"]
           /\ q[p] # <<>> => /\ Taken(q, p)["cmd"] = q["cmd"]
                             /\ Taken(q, p)["start"] = q["start"]
                             /\ Taken(q, p) \in Queues
                             /\ Head(q[p]) \in Frame
<1>1. "cmd" \in Port /\ "start" \in Port /\ p # "cmd" /\ p # "start"
  BY DEF Port
<1>2. Put(q, p, f)["cmd"] = q["cmd"] /\ Put(q, p, f)["start"] = q["start"]
  BY <1>1, PutFrame
<1>3. ASSUME q[p] # <<>>
      PROVE  /\ Taken(q, p)["cmd"] = q["cmd"]
             /\ Taken(q, p)["start"] = q["start"]
             /\ Taken(q, p) \in Queues
             /\ Head(q[p]) \in Frame
  BY <1>1, <1>3, TakeFrame
<1> QED
  BY <1>2, <1>3

LEMMA OthersApart ==
    ASSUME TypeInv,
           \/ PowerIn \/ SensingEnds
           \/ Transmit \/ AckIn \/ AckTimer \/ RetryDue \/ NextDue \/ GiveUp
           \/ \E b \in Backoffs : BackoffIn(b) \/ BackoffThread(b)
           \/ UNCHANGED vars
    PROVE  Apart
<1>0. queue \in Queues
  BY DEF TypeInv, TypeOK, Queues
<1>1. CASE PowerIn
  BY <1>1 DEF PowerIn, Power, timerVars, races, marks, Apart
<1>2. CASE SensingEnds
  <2>1. PICK pass \in BOOLEAN :
           SensorDecide(pass) /\ queue' = Put(queue, AfterSensing(pass), cmd)
    BY <1>2 DEF SensingEnds
  <2>2. cmd \in Frame /\ AfterSensing(pass) \in Port \ {"cmd", "start"}
    BY <2>1, RightsSum DEF SensorDecide, TypeInv, InfoInv, AfterSensing, Port
  <2>3. sensor'.loop = sensor.loop
    BY <2>1 DEF SensorDecide, TypeInv, TypeOK
  <2> QED
    BY <1>0, <1>2, <2>1, <2>2, <2>3, OtherPorts DEF SensingEnds, SensorDecide,
       timerVars, races, marks, Apart
<1>3. CASE Transmit
  <2>1. "send" \in Port \ {"cmd", "start"} /\ "info" \in Port \ {"cmd", "start"}
    BY DEF Port
  <2>2. Head(queue["send"]) \in Frame /\ Taken(queue, "send") \in Queues
    BY <1>0, <1>3, <2>1, TakeFrame DEF Transmit, Waiting
  <2> QED
    BY <1>0, <1>3, <2>1, <2>2, OtherPorts DEF Transmit, Waiting, sensingVars,
       timerVars, races, marks, Apart
<1>4. CASE AckIn \/ AckTimer
  <2>1. "info" \in Port \ {"cmd", "start"} /\ "next" \in Port \ {"cmd", "start"}
        /\ "retry" \in Port \ {"cmd", "start"}
    BY DEF Port
  <2>2. ackTimer \in Timers(MaybeFrame)
    BY DEF TypeInv, TypeOK
  <2>3. CASE InfoIn
    <3>1. Head(queue["info"]) \in Frame /\ Taken(queue, "info") \in Queues
      BY <1>0, <2>1, <2>3, TakeFrame DEF InfoIn, Waiting
    <3> QED
      BY <1>0, <2>1, <2>3, <3>1, OtherPorts DEF InfoIn, Waiting, sensingVars,
         timerVars, Apart
  <2>4. CASE AckIn
    <3>1. ackTimer.waiting \in Frame
      BY <2>4 DEF AckIn, TypeInv, InfoInv
    <3> QED
      BY <1>0, <2>1, <2>4, <3>1, OtherPorts DEF AckIn, sensingVars, timerVars, Apart
  <2>5. CASE AckTimerDecides \/ AckTimerEnds
    BY <2>5 DEF AckTimerDecides, AckTimerEnds, sensingVars, timerVars, races, marks, Apart
  <2>6. CASE AckTimerPublishes
    <3>1. ackTimer.waiting \in Frame
      BY <2>2, <2>6 DEF AckTimerPublishes, TypeInv, InfoInv, Alive, Timers
    <3> QED
      BY <1>0, <2>1, <2>6, <3>1, OtherPorts DEF AckTimerPublishes, sensingVars,
         timerVars, races, marks, Apart
  <2> QED
    BY <1>4, <2>3, <2>4, <2>5, <2>6 DEF AckTimer
<1>5. CASE RetryDue
  <2>1. backoffInfo["retry"] \in Frame
    <3>1. Backing(backoff["retry"]) > 0
      BY <1>5, ThreadsMove DEF RetryDue, BackoffPublishes, TypeInv, Backing
    <3> QED
      BY <3>1 DEF TypeInv, InfoInv
  <2> QED
    BY <1>0, <1>5, <2>1, OtherPorts DEF RetryDue, Port, sensingVars,
       timerVars, races, marks, Apart
<1>6. CASE NextDue
  BY <1>6 DEF NextDue, sensingVars, timerVars, races, marks, Apart
<1>7. CASE GiveUp
  <2>1. Taken(queue, "resend")["cmd"] = queue["cmd"]
        /\ Taken(queue, "resend")["start"] = queue["start"]
    BY <1>0, <1>7, TakeFrame DEF GiveUp, Waiting, Port
  <2> QED
    BY <1>7, <2>1 DEF GiveUp, sensingVars, timerVars, races, marks, Apart
<1>8. ASSUME NEW b \in Backoffs, BackoffIn(b) PROVE Apart
  <2>1. Taken(queue, b)["cmd"] = queue["cmd"]
        /\ Taken(queue, b)["start"] = queue["start"]
    BY <1>0, <1>8, TakeFrame DEF BackoffIn, Waiting, Port
  <2> QED
    BY <1>8, <2>1 DEF BackoffIn, sensingVars, timerVars, Apart
<1>9. ASSUME NEW b \in Backoffs, BackoffThread(b) PROVE Apart
  BY <1>9 DEF BackoffThread, sensingVars, timerVars, races, marks, Apart
<1>10. CASE UNCHANGED vars
  BY <1>10 DEF vars, sensingVars, timerVars, races, marks, Apart
<1> QED
  BY <1>1, <1>2, <1>3, <1>4, <1>5, <1>6, <1>7, <1>8, <1>9, <1>10

\* A frame that is handed over finds no sensing thread.
LEMMA HandOverWatched ==
    TypeInv /\ RightInv /\ WatchInv /\ (NextElement \/ Resend) => WatchInv'
<1> SUFFICES ASSUME TypeInv, RightInv, WatchInv, NextElement \/ Resend
             PROVE  WatchInv'
  OBVIOUS
<1>0. queue \in Queues /\ TypeOK /\ OneRight
  BY DEF TypeInv, TypeOK, Queues, RightInv
<1>1. Single => sensor.loop = 0
  <2>1. CASE Resend
    BY <1>0, <2>1, Alone DEF Resend, Port
  <2>2. CASE NextElement
    <3>1. Single => requests + Load(queue) + Owed(ackTimer) + InHand + refused = 1
      BY <1>0 DEF OneRight, Rights, Single
    <3>2. requests >= 1
      BY <1>0, <2>2, RightsSum DEF NextElement
    <3>3. Single => InHand = 0
      BY <1>0, <3>1, <3>2, RightsSum
    <3> QED
      BY <1>0, <3>3, NoneInHand
  <2> QED
    BY <2>1, <2>2
<1>2. PICK q \in Queues, f \in Frame : HandOver(q, f)
  <2>1. CASE Resend
    BY <1>0, <2>1, TakeFrame, FrameMade DEF Resend, Waiting, Port
  <2>2. CASE NextElement
    BY <1>0, <2>2, FrameMade DEF NextElement, TypeOK
  <2> QED
    BY <2>1, <2>2
<1>3. Waiting("cmd")' /\ Waiting("start")'
  <2>1. Put(q, "cmd", f) \in Queues /\ Put(q, "cmd", f)["cmd"] # <<>>
    BY PutFrame DEF Port
  <2>2. /\ Put(Put(q, "cmd", f), "start", f)["cmd"] # <<>>
        /\ Put(Put(q, "cmd", f), "start", f)["start"] # <<>>
    BY <2>1, PutFrame DEF Port
  <2> QED
    BY <1>2, <2>2 DEF HandOver, Waiting
<1>4. /\ sensor' = sensor /\ inActive' = inActive /\ timer' = timer
      /\ stops' = stops /\ cut' = cut /\ hurried' = hurried /\ crossed' = crossed
  BY DEF NextElement, Resend, sensingVars, timerVars, marks
<1>5. ~raced' => ~raced /\ timer # "fire" /\ ~(stops > 0)
  BY <1>2, Zenon DEF HandOver
<1>6. Single' => ~(sensor'.loop > 0)
  BY <1>1, <1>4 DEF Single
<1>7. stops \in Nat
  BY <1>0 DEF TypeOK
<1> QED
  BY <1>3, <1>4, <1>5, <1>6, <1>7 DEF WatchInv, TimerFlag, NoStopYet, TimerComes,
     SensingWatched, NotBefore, StopLate, StoppedLate, SensedLongEnough

LEMMA CommandWatched == TypeInv /\ WatchInv /\ CommandIn => WatchInv'
<1> SUFFICES ASSUME TypeInv, WatchInv, CommandIn PROVE WatchInv'
  OBVIOUS
<1>0. queue \in Queues
  BY DEF TypeInv, TypeOK, Queues
<1>1. Waiting("cmd") /\ (Waiting("start")' <=> Waiting("start"))
  BY <1>0, TakeFrame DEF CommandIn, Waiting, Port
<1>2. /\ stopSensing' = FALSE /\ timer' = timer /\ inActive' = inActive
      /\ age' = age /\ stops' = stops /\ since' = since /\ raced' = raced
      /\ cut' = cut
  BY DEF CommandIn, StartSensing, timerVars, races
<1>3. ~stopSensing'
  BY <1>2
<1> QED
  BY <1>1, <1>2, <1>3 DEF WatchInv, TimerFlag, NoStopYet, TimerComes,
     SensingWatched, NotBefore, StopLate, StoppedLate, SensedLongEnough

LEMMA StopWatched == TypeInv /\ WatchInv /\ StopIn => WatchInv'
<1> SUFFICES ASSUME TypeInv, WatchInv, StopIn PROVE WatchInv'
  OBVIOUS
<1>0. stops \in Nat
  BY DEF TypeInv, TypeOK
<1>1. /\ Waiting("cmd")' <=> Waiting("cmd")
      /\ Waiting("start")' <=> Waiting("start")
  BY DEF StopIn, Waiting
<1>2. /\ stopSensing' /\ timer' = timer /\ inActive' = inActive
      /\ age' = age /\ stops > 0 /\ stops' = stops - 1 /\ since' = since
      /\ raced' = raced /\ cut' = cut /\ sensor' = sensor /\ (Single' => Single)
  BY DEF StopIn, StopSensing, timerVars, races, marks, Single
<1> QED
  BY <1>0, <1>1, <1>2 DEF WatchInv, TimerFlag, NoStopYet, TimerComes,
     SensingWatched, NotBefore, StopLate, StoppedLate, SensedLongEnough

\* The loop that ends on a free channel was stopped, and late enough.
LEMMA LoopWatched == TypeInv /\ WatchInv /\ SensingLoopEnds => WatchInv'
<1> SUFFICES ASSUME TypeInv, WatchInv, SensingLoopEnds PROVE WatchInv'
  OBVIOUS
<1>0. since \in Nat /\ Duration \in Nat
  BY DEF TypeInv, TypeOK
<1>1. /\ Waiting("cmd")' <=> Waiting("cmd")
      /\ Waiting("start")' <=> Waiting("start")
  BY DEF SensingLoopEnds, Waiting
<1>2. ~(~raced /\ Single /\ cca /\ since < Duration)
  BY <1>0 DEF SensingLoopEnds, SensorLoop, WatchInv, StoppedLate
<1>3. ~cut'
  BY <1>2 DEF SensingLoopEnds, WatchInv, SensedLongEnough
<1>4. /\ timer' = timer /\ inActive' = inActive /\ stopSensing' = stopSensing
      /\ age' = age /\ stops' = stops /\ since' = since /\ raced' = raced
      /\ Single' => Single
  BY DEF SensingLoopEnds, SensorLoop, timerVars, marks, Single
<1>5. sensor'.loop > 0 => sensor.loop > 0
  BY DEF SensingLoopEnds, SensorLoop
<1> QED
  BY <1>1, <1>3, <1>4, <1>5 DEF WatchInv, TimerFlag, NoStopYet, TimerComes,
     SensingWatched, NotBefore, StopLate, StoppedLate, SensedLongEnough

LEMMA TriggerWatched == TypeInv /\ WatchInv /\ TimerTriggered => WatchInv'
<1> SUFFICES ASSUME TypeInv, WatchInv, TimerTriggered PROVE WatchInv'
  OBVIOUS
<1>0. queue \in Queues /\ since \in Nat
  BY DEF TypeInv, TypeOK, Queues
<1>1. /\ Waiting("start")
      /\ Waiting("cmd")' <=> Waiting("cmd")
  BY <1>0, TakeFrame DEF TimerTriggered, Waiting, Port
<1>2. /\ sensor' = sensor /\ stopSensing' = stopSensing /\ stops' = stops
      /\ since' = since /\ raced' = raced /\ cut' = cut /\ (Single' => Single)
  BY DEF TimerTriggered, sensingVars, races, marks, Single
<1>3. CASE inActive
  <2>1. timer # "none" /\ timer' = timer /\ age' = 0 /\ inActive' = inActive
    BY <1>3 DEF TimerTriggered, StartTimer, PutOff, WatchInv, TimerFlag
  <2>2. ~raced => timer # "fire" /\ stops = 0
    BY <1>1 DEF WatchInv, NoStopYet
  <2>3. timer \in {"new", "loop", "fire"}
    BY <2>1 DEF TypeInv, TypeOK
  <2> QED
    BY <1>0, <1>1, <1>2, <2>1, <2>2, <2>3 DEF WatchInv, TimerFlag, NoStopYet,
       TimerComes, SensingWatched, NotBefore, StopLate, StoppedLate,
       SensedLongEnough
<1>4. CASE ~inActive
  <2>1. timer' = "new" /\ inActive'
    BY <1>4 DEF TimerTriggered, StartTimer
  <2>2. ~raced => stops = 0
    BY <1>1 DEF WatchInv, NoStopYet
  <2> QED
    BY <1>1, <1>2, <2>1, <2>2 DEF WatchInv, TimerFlag, NoStopYet,
       TimerComes, SensingWatched, NotBefore, StopLate, StoppedLate,
       SensedLongEnough
<1> QED
  BY <1>3, <1>4

LEMMA ThreadWatched == TypeInv /\ WatchInv /\ TimerThread => WatchInv'
<1> SUFFICES ASSUME TypeInv, WatchInv, TimerThread PROVE WatchInv'
  OBVIOUS
<1>0. /\ since \in Nat /\ age \in Nat /\ Duration \in Nat /\ stops \in Nat
      /\ since <= Duration
  BY DEF TypeInv, TypeOK
<1>1. /\ Waiting("cmd")' <=> Waiting("cmd")
      /\ Waiting("start")' <=> Waiting("start")
  BY DEF TimerThread, Waiting
<1>2. /\ sensor' = sensor /\ stopSensing' = stopSensing
      /\ since' = since /\ cut' = cut /\ (Single' => Single)
  BY DEF TimerThread, sensingVars, marks, Single
<1>3. CASE TimerBegins /\ UNCHANGED <<stops, raced>>
  <2>1. /\ timer = "new" /\ timer' = "loop" /\ age' = 0
        /\ inActive' = inActive /\ stops' = stops /\ raced' = raced
    BY <1>3 DEF TimerBegins
  <2> QED
    BY <1>0, <1>1, <1>2, <2>1 DEF WatchInv, TimerFlag, NoStopYet, TimerComes,
       SensingWatched, NotBefore, StopLate, StoppedLate, SensedLongEnough
<1>4. CASE /\ TimerRunsOut
           /\ raced' = (raced \/ Waiting("cmd") \/ Waiting("start"))
           /\ UNCHANGED stops
  <2>1. /\ timer = "loop" /\ timer' = "fire" /\ age >= Duration
        /\ inActive' = inActive /\ stops' = stops
        /\ ~raced' => ~raced /\ ~Waiting("cmd") /\ ~Waiting("start")
    BY <1>4 DEF TimerRunsOut
  <2>2. ~raced' => since >= Duration
    BY <1>0, <2>1 DEF WatchInv, NotBefore
  <2> QED
    BY <1>1, <1>2, <2>1, <2>2 DEF WatchInv, TimerFlag, NoStopYet, TimerComes,
       SensingWatched, NotBefore, StopLate, StoppedLate, SensedLongEnough
<1>5. CASE TimerExpires /\ stops' = stops + 1 /\ UNCHANGED raced
  <2>1. /\ timer = "fire" /\ timer' = "none" /\ stops' = stops + 1
        /\ raced' = raced
    BY <1>5 DEF TimerExpires
  <2>2. ~inActive'
    BY <1>5 DEF TimerExpires, Inactive
  <2>3. stops' > 0
    BY <1>0, <2>1
  <2>4. ~raced => ~Waiting("cmd") /\ ~Waiting("start") /\ since >= Duration
    BY <2>1 DEF WatchInv, NoStopYet, StopLate
  <2> QED
    BY <1>1, <1>2, <2>1, <2>2, <2>3, <2>4 DEF WatchInv, TimerFlag, NoStopYet,
       TimerComes, SensingWatched, NotBefore, StopLate, StoppedLate,
       SensedLongEnough
<1> QED
  BY <1>3, <1>4, <1>5 DEF TimerThread

LEMMA TickWatched == TypeInv /\ WatchInv /\ Tick => WatchInv'
<1> SUFFICES ASSUME TypeInv, WatchInv, Tick PROVE WatchInv'
  OBVIOUS
<1>0. /\ since \in Nat /\ age \in Nat /\ Duration \in Nat
      /\ since <= Duration /\ age <= Duration
  BY DEF TypeInv, TypeOK
<1>1. /\ Waiting("cmd")' <=> Waiting("cmd")
      /\ Waiting("start")' <=> Waiting("start")
  BY DEF Tick, Waiting
<1>2. /\ sensor' = sensor /\ stopSensing' = stopSensing /\ stops' = stops
      /\ inActive' = inActive /\ timer' = timer /\ raced' = raced
      /\ cut' = cut /\ (Single' => Single)
  BY DEF Tick, TimerTick, sensingVars, races, marks, Single
<1>3. since >= Duration => since' >= Duration
  BY <1>0 DEF Tick, Older
<1>4. timer = "loop" /\ age <= since => age' <= since'
  BY <1>0 DEF Tick, TimerTick, Counting, Older
<1> QED
  BY <1>1, <1>2, <1>3, <1>4 DEF WatchInv, TimerFlag, NoStopYet, TimerComes,
     SensingWatched, NotBefore, StopLate, StoppedLate, SensedLongEnough

LEMMA WatchNext == TypeInv /\ RightInv /\ WatchInv /\ [Next]_vars => WatchInv'
<1> SUFFICES ASSUME TypeInv, RightInv, WatchInv, [Next]_vars PROVE WatchInv'
  OBVIOUS
<1>1. CASE NextElement \/ Resend
  BY <1>1, HandOverWatched
<1>2. CASE CommandIn \/ StopIn \/ SensingLoopEnds
  BY <1>2, CommandWatched, StopWatched, LoopWatched
<1>3. CASE Timer \/ Tick
  BY <1>3, TriggerWatched, ThreadWatched, TickWatched DEF Timer
<1>4. CASE \/ PowerIn \/ SensingEnds
           \/ Transmit \/ AckIn \/ AckTimer \/ RetryDue \/ NextDue \/ GiveUp
           \/ \E b \in Backoffs : BackoffIn(b) \/ BackoffThread(b)
           \/ UNCHANGED vars
  BY <1>4, OthersApart, ApartWatched, SingleBefore DEF TypeInv
<1> QED
  BY <1>1, <1>2, <1>3, <1>4 DEF Next, Acts, Works, BackingOff, Sensing

LEMMA WatchHolds == Spec => []WatchInv
BY WatchInit, WatchNext, Typed, RightHolds, PTL DEF Spec

\* Unless a timer has run out beside a frame it was not started for, sensing
\* that goes on has a timer that will stop it.
THEOREM TimerWatches == Spec => []SensingWatched
<1>1. WatchInv => SensingWatched
  BY DEF WatchInv
<1> QED
  BY <1>1, WatchHolds, PTL

\* Under the same condition, and while no acknowledgement has crossed, sensing
\* on a free channel is not stopped before the time of the timer has passed
\* since the frame was handed over.
THEOREM SensesLongEnough == Spec => []SensedLongEnough
<1>1. WatchInv => SensedLongEnough
  BY DEF WatchInv
<1> QED
  BY <1>1, WatchHolds, PTL
=============================================================================
