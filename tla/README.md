# gr-inets in TLA+

gr-inets is a GNU Radio module: blocks for link layers and medium access
(`lib/*_impl.cc`, `python/*.py`) that are wired into MAC protocols by flow graphs
(`examples/`).  A block has message ports.  Each input port has its own queue, and
GNU Radio runs the message handlers of one block one at a time, in the block's own
thread.  What makes these blocks hard is outside that rule: almost every timer is a
detached `boost::thread` started by a handler, which sleeps, reads and writes the
members of its block without a lock, and publishes.  On top of that the radio loses
frames, acknowledgements come late or twice, and retransmissions repeat what was
done.

This directory holds TLA+ models of those blocks, the TLC runs that check them on
small instances and proofs, checked by TLAPS, of the properties that matter most.
Paths below are relative to `src/` of the repository.

## The system

| part | state | operations | hard behaviour | what makes it correct |
|---|---|---|---|---|
| stop-and-wait ARQ, `python/stop_and_wait_arq.py` | state, queue of fragments, last frame, its number, number of the last frame received, reassembly buffer | message from the application, frame from the radio | sequence numbers wrap; acknowledgements lost or repeated; both directions share `last_seq_num`; a retransmission only when the application sends | each message delivered once, complete, in order; only duplicates dropped; nothing stranded in the queue |
| acknowledgement timer, `lib/timeout_impl.cc`, `lib/timeout_cpp_impl.cc` | `_in_timeout`, `_waiting_frame_info`, `_start_time`, detached countdown threads | start, kill, countdown | handler and several countdowns interleave; late acknowledgement against expiry; stale countdowns | a verdict for each transmission, in time, for the right frame; two only when an acknowledgement crosses with the timeout; the timer never stays set |
| frame buffer, `lib/frame_buffer_impl.cc` | queue, size, first-element flag, waiting request | enqueue, dequeue (one or several), flush, new size, indication | requests before elements, the limit, modes that publish on their own | first in first out, nothing lost silently, no request left beside an element, the service loop goes on |
| ALOHA MAC, `examples/mac_protocols/aloha.py`: `lib/idle_impl.cc`, `timeout_cpp`, `lib/exponential_backoff_cpp_impl.cc`, `lib/frame_info_selector_impl.cc` | idle flag, queue, frame being sent, timer, backoff threads | payload, data, acknowledgement, timeout, backoff | idle trusts the timeout block; acknowledgements of earlier frames; the index is an int here and a byte there | success means received; nothing counted twice; one transmission outstanding, unless verdicts crossed; limit of transmissions; the turn never lost; every frame resolved |
| CSMA backoff, `lib/backoff_impl.cc` | `_in_backoff`, `_frame_info`, `_nav_us`, `_ch_busy`, threads | trigger, power, reservation | `_in_backoff` is set by the thread and tested by the handler, and cleared after the frame is published; `_nav_us` is cleared by the thread | one backoff at a time; no trigger lost |
| carrier sensing, `lib/carrier_sensing_impl.cc` | `_cca`, `_cmd`, `_stop_sensing`, threads | power, start (four modes), stop, new duration | `_cca` read twice around a decision; `_cmd` overwritten under running threads; a stop meant for another command | one verdict per command, for the right command, after long enough a time and not too long |
| general timers, `lib/general_timer_impl.cc`, `lib/general_timeout_impl.cc`, `lib/standard_timer_impl.cc` | flags, deadline, threads | start, reset, suspend, disable, expire | a trigger during a countdown moves its deadline, in a race with the thread | an expiry for each trigger, in time; disabled means no expiry |
| CSMA/CA channel access, `examples/Tests/csma_80211_I.py`: buffer, carrier sensing, its timer, two backoffs, `lib/resend_check_impl.cc`, `timeout` | frame on its way round the loop | sense, send, back off, retry, give up, next | the frame is handed to carrier sensing and to the timer, which race | the right to the channel conserved; one frame at a time; each frame acknowledged or given up within the limit |
| CSMA with `idle`, `examples/mac_protocols/csma.py` | - | - | - | not modelled: it needs a block, `carrier_sensing_cpp_cc`, that `lib/` no longer has |
| persistent CSMA, `examples/Tests/theoretical_csma.py` | the same with unlimited sensing and a random choice | sense, choose, wait | as above | as above |
| RTS/CTS MAC, `examples/Tests/csma_rtscts_80211.py`: `rts_framing`, `cts_framing`, `virtual_cs`, two timers | pending data frame, reservation | handshake steps | two timers and a reservation race | no data without a CTS for it; every frame resolved |
| go-back-n, `examples/Single_Block_Testing/Test_slide_window.py`: `lib/slide_window_impl.cc`, mode 1 of `lib/timeout_impl.cc`, `lib/frame_index_check_impl.cc` | two windows of the same frames, the walk over them, countdowns, last frame received | frame, walk, acknowledgement, timeout | two blocks keep one window each and compute from the indices how much to pop; a countdown empties one while a handler reads it; each acknowledgement asks for a frame | a frame leaves after it was sent and received; no more popped than there is; a set flag has a countdown |
| spectrum manager, `python/rrrm.py` | state, current and next channel, pending acceptance, thread that waits for it, last ping, antenna | radar, command, acceptance, giving up, silence | handler and waiting thread both end a switch; a thread unsets a member that the handler tests and then uses; three acceptances for one command; switches of both nodes cross | both nodes end on one channel; the antenna points along it; no node stays in the switch state |
| CogMAC, `lib/cogmac_*` | channel pool, repetition count | choose, repeat | bounds of the counters | every channel reached |
| gates and joins, `lib/frame_and_impl.cc`, `lib/cmd_and_impl.cc`, `lib/frame_aggregation_impl.cc` and others | the halves seen so far | join, aggregate, dispatch | order of the halves | pairs match |
| receiver gate, `lib/rx_switch_cc_impl.cc`, `lib/pending_tx_finish_impl.cc` | open or closed, pending count | switch, finish | command against samples | no own transmission received |
| framing, `lib/framing_impl.cc`, `lib/frame_analysis_impl.cc` | frame index | build, parse | widths and wrap | parse inverts build |
| signal processing, direction finding, user interface, loggers | - | - | numeric, hardware, files | not modelled |

The parts meet through messages only: a payload goes from the application to `idle`
(or through `framing` into a `frame_buffer`), a frame from there through carrier
sensing or the handshake to the radio; the info of each transmitted frame starts the
timer; a received acknowledgement kills it; its verdict goes to `idle` or, through
backoff and `resend_check`, to another transmission; and the end of a transmission
asks the buffer for the next frame.  The spectrum manager stands beside all that: it
tells the radio where to go when radar is heard, and the peer's manager, over the same
radio, to follow.

## The modules

`StopAndWaitArq` is the ARQ block on two nodes, with acknowledgements or without
(`useAck`).  Handlers are actions: `AppMessage`
is `handle_app_message` with the `handle_queue` calls of its loop (three disjuncts:
idle, waiting, without acknowledgements), `PhyData` and `PhyAck` are
`handle_phy_message`.  A payload is the number of its fragment.  A retransmission can
happen at any message of the application, since the clock may or may not have passed
`ack_timeout`.  `AppBeyondBound` stands for the messages of an application that goes
on after the bounded ones.  The radio keeps order and loses frames; `LinkCap` bounds
what is on the air.  `lost`, `arrived`, `accepted`, `delivered` and `submitted` are
history.  `ReliableTransfer` is the abstract specification: messages are submitted,
and delivered whole, in order, once.

`AckTimeout` is the timer in the thread-by-thread grain: each access to a shared
member that another thread can tell apart is a step.  A handler is `Start`,
`StartFlag`, `StartWaiting`, `StartSpawn` or `Kill`, `KillClear`; a countdown is
`ThreadStart`, `ThreadLoop`, `ThreadTest`, `ThreadPublish`, `ThreadClear`.
`SharedStart` chooses between the two implementations (`_start_time` a member or a
local variable).  The sender transmits as soon as it has a verdict; `hurried`
remembers whether it has ever done so while a countdown was still alive, and
`PatientSender` holds for a sender that has not.  Time is counted in
ticks of `age` (per countdown) and `since`.  Publishing under an acknowledgement and
clearing the flag are one step (`KillClear`), as nothing but the countdown reads the
flag, and the sender reacts through a queue of its own.

`FrameBuffer` is `frame_buffer_impl.cc` with every message in any order; elements are
numbered as they arrive, and `FullModes` says which values of `auto_dequeue_full` the
constructor may be given.  `BufferService` puts it into the loop of the flow graphs:
what is published is transmitted, and the end of each transmission sends one request;
`Stranger` lets blocks outside the loop send all other messages, and notes it.

`AckTimer` is the same timer as its users see it, without time: a value with the flag,
the waiting frame and the countdowns, and what each handler and each step of a countdown
makes of it.  A countdown looks at the flag for the last time (`Decided`), publishes if
it was set (`Told`), and clears it whatever has become of it (`Ended`), in three steps.
A handler is one step, which is exact as long as no start finds an earlier countdown
alive: nothing that one countdown does between two statements of `kill_timeout` differs
from doing it before or after.  With two countdowns it would not be exact, so the
modules that use `AckTimer` note such a start (`hurried`) and do not follow the station
any further; what then becomes of the timer is the subject of `AckTimeout`.

`AlohaMac` composes `idle`, `timeout_cpp` (an `AckTimer`) and the backoff block of each
station as wired in `aloha.py`, over a lossy radio, with the queues between them.  Its
histories mark what the code allows and no property of a stop-and-wait sender survives
unchanged:

* `hurried`: a start came beside an old countdown.  A killed countdown notices between
  two sleeps, and one that published has the flag still to clear; a transmission that is
  quicker than that is refused its timer, or shares it.
* `crossed`: how many acknowledgements were handled after the last test of their
  countdown.  Such a transmission has two verdicts, and the station two turns.
* `stolen`: data came while the station was idle, and nobody makes it idle again.
* `missed`: an acknowledgement of the waiting frame was not recognised.

`Turns` counts where the right to transmit is: with `idle`, with a frame being
transmitted, with the timer (`Owed`), in the backoff, or in a verdict on its way back.

`CarrierSensing`, `OneshotTimer` and `Backoff` are three blocks as `CsmaAccess` uses
them: their own state, and what each handler and each step of a thread does to it.
`CsmaAccess` extends them and adds the wiring of `csma_80211_I.py`: the queue of each
port, who publishes where, `resend_check`, and the loop that asks the buffer for the
next frame.  (That flow graph still uses the older port names `info_in`,
`frame_info_pass_out` and `frame_info_fail_out` for what the block now calls `cmd_in`,
`cmd_pass_out` and `cmd_fail_out`; the model takes them for the same ports.)

* A frame is its index and its number of transmissions, which is what `resend_check`
  and the exponential backoff look at.
* The threads of carrier sensing and of a backoff block are counted, since those of one
  block share all its members.  The blocks do not prevent a second one; `OneAtATime`
  says that the wiring does, as long as no acknowledgement has crossed with its timeout.
* The acknowledgement timer is an `AckTimer`, step by step: `InfoIn` is its start,
  `AckIn` its end by an acknowledgement (one that is not waited for changes nothing and is
  left out), `AckTimerDecides`, `AckTimerPublishes` and `AckTimerEnds` the countdown.
* The timer of carrier sensing (`OneshotTimer`) clears its flag and publishes in one step.
  Its message may wait in the queue, so that a later publication is included.  The
  backoff publishes and clears in two steps, because its message can come back in between.
* The frame buffer gives one frame per request (`FrameBuffer`, `BufferService`).
* There is no reservation here (`virtual_cs_frame_in` is not connected), and the
  acknowledgements this station sends for others are left out.
* `since`, `resolved`, `raced`, `refused`, `cut`, `hurried` and `crossed` are history.
  `raced` remembers that a timer ran out beside a frame it was not started for, `refused`
  counts the triggers that backoff blocks have refused; `hurried` and `crossed` are those
  of `AlohaMac`.  The backoff between a verdict and the next transmission lasts
  milliseconds, the sleep of a countdown 10 us: `hurried` needs a countdown that is kept
  from running for that long.
* `Rights` counts where the right to the channel is: a request, a frame at a port, with
  the timer (`Owed`) or in the hands of a thread.

`GoBackN` composes three blocks as wired in `Test_slide_window.py`: the window of the
sender (`FrameIn`, `WalkOn`, `VerdictAck`, `VerdictTimeout`), its timer (`Start`, `Kill`,
`KillPop` and the countdown threads) and, across a radio that loses frames, the index
check of the receiver (`Receive`).

* A handler is one action unless it sleeps between two frames or shares a queue with a
  countdown.  `transmit_window` sends one frame a step: the frames it has still to look
  at are `walk`, and `from` is the `_txed_index` that it compares them with, which it
  reads once, when it is called.
* `asked` counts the requests sent to the frame buffer that have not come back as a
  frame.  The buffer always has a frame when asked.  (The flow graph passes five
  arguments to `frame_buffer`, from before `auto_dequeue_full` was added.)
* Time is left out: a countdown may expire whenever it looks at the clock, so that
  `reset_timeout` changes nothing.
* The code takes `front()` of empty queues and pops more than they hold.  What follows is
  undefined in C++; the model records where (`undefined`) and stops both blocks there.
* `flush_window` reads the size (`FlushSize`) and then pops as many (`FlushWindow`), which
  handlers and another countdown may have pushed or popped meanwhile.

`Rrrm` is the spectrum manager on two nodes.  `job` is the line at which the thread of
the block stands, `ack` the threads of `do_wait_for_switch_ack`, one for each radar
message, `monitor` the thread of `do_check_ping`.  A line that touches a member which
another thread uses is a step of its own, but the assignments at the beginning of a
switch (`Radar`, `RadarAck`, `SwitchAsked`) come together, and no thread stops between
what a line loads and what it does with it: a waiting thread that has loaded
`next_channel_id` at line 200 does not sleep through a whole later switch before it
stores it.  `Radar` to `RadarStart` are `handle_radar_message`, `AckTest` to `AckEnd` the
waiting thread, `SwitchKnown`, `SwitchAsked`, `AcceptAgain`, `SwitchSet` and
`AcceptIgnored`, `Accepted` to `AcceptedSet`, `Steer`, `SwitchEnd` `handle_rrrm_message`,
and `MonitorTest` to `MonitorEnd` the monitor.

* `thread_lock` is taken by handlers only, which never run together: it excludes nothing.
* The tail that follows a command and an acceptance is written twice in the code and is
  `Steer`, `SwitchEnd` for both.
* An antenna is the channel it points along.  `Turntable` says what the constructor found:
  one that turns, one that may also fail to, none, or no module to control it, when the
  member does not exist and the line that uses it raises.  What is raised in a handler
  without a `try` ends the thread of the block (`dead`).
* Commands and acceptances carry the number of their switch (`id`) for the properties
  only; nothing in the code does.
* Pings and payloads tell nothing but that the peer is alive (`Ping`); `Silence` is the
  time without one.

`MC*` modules give the model values; the proofs are in `StopAndWaitArqProofs`,
`StopAndWaitArqOneWay`, `AckTimeoutProofs`, `FrameBufferProofs`, `AlohaMacProofs`,
`CsmaAccessProofs`, `GoBackNProofs` and `RrrmProofs`.
Definitions marked "Mutant" are plausible bugs that the checked properties exclude;
nothing uses them.

## The runs

| run | question | bounds |
|---|---|---|
| `MC_ArqOneWay` | one node talks: exactly-once, ordered, complete, eventual delivery; implements `ReliableTransfer` | 2 sequence numbers, so that they wrap twice; 5 fragments in messages of 1 or 2; 3 frames on the air |
| `MC_ArqTwoWay` | both talk: an acknowledgement means arrival; without acknowledgements, intact while nothing is lost | 2 numbers, 3 fragments each in messages of 1 or 2, 2 on the air |
| `MC_ArqFalseDuplicate` | violation: a new frame dropped as duplicate | 4 numbers, 2 fragments each, 2 on the air |
| `MC_Timeout` | no orphan timer, no second acknowledgement; for an unhurried sender a verdict, timeouts in time and for the right frame, none after an acknowledgement that the countdown could still see | 3 transmissions, 2 ticks, shared start time |
| `MC_BufferService` | any messages in any order; the loop neither stalls nor doubles; every element served | 5 arrivals, sizes 1 to 3, with and without publishing when full |
| `MC_Aloha` | turn kept; one transmission outstanding and one more per crossed acknowledgement; without those, success means received, counted once and within the limit; every frame resolved | one station sends 2 frames, the other 1, 2 transmissions each; 1 acknowledgement crosses; index of 3 values; buffer of 1; 1 frame on the air towards each |
| `MC_AlohaIndexWrap` | violation: no acknowledgement recognised after the wrap | one station sends 3 frames with an index of 3 values |
| `MC_CsmaAccess` | right to the channel conserved, threads not overtaken, sensing watched and long enough, every frame resolved | 2 frames, 2 transmissions each, a timer of 1 tick; the acknowledgement of the second frame may cross |
| `MC_GoBackN` | while no frame was refused: none leaves unsent, or unreceived if none was lost, and pops fit the window; a set flag has a countdown | window of 2, 6 frames, 1 timeout, 2 countdowns at a time, 2 frames on the air each way |
| `MC_GoBackNRefused` | violation: a frame comes while the window is full | 5 frames, no timeout |
| `MC_Rrrm` | one channel in the end, antenna along it, no node stays in the switch state | 3 channels, both nodes see radar; 2 radars or silences, 2 commands before giving up, 1 frame on the air towards each |
| `MC_RrrmDuplicate` | violation: an acceptance of one switch ends the next | one node sees radar; 2 radars, 3 frames on the air |

Two sequence numbers are the hardest case of the ARQ block: fragments two apart have
equal numbers.  Three transmissions of the timer let a countdown of the first meet the
third.  In `MC_Aloha` one frame on the air and one in the radio's past are enough for an
acknowledgement of an earlier transmission to arrive while a later one is outstanding.
One crossed acknowledgement is enough for two frames of a station, or two transmissions
of one frame, to be on their way at once.
Two frames of two transmissions take the station of `MC_CsmaAccess` round every edge of
its loop: a frame that fails in carrier sensing, one that times out, one given up, one
acknowledged, and the next one behind each of them, with a timer left over from the
frame before; one tick separates a timer that began before a frame was handed over from
one that began after.  When the acknowledgement of the last frame crosses, a request and
a retransmission go round together; with a frame still to come, two frames would, which
is beyond what TLC can explore in time (more than 17 million states, where
`MC_CsmaAccess` has 1.4 million) and is left to the proof of `RightKept`, which is for
every `Crossing`.  A window of two with six frames is filled, acknowledged as a
whole, frame by frame and from the middle, refilled and overfilled; two countdowns are
the one that ends and the one that has been started meanwhile.  Two events of `MC_Rrrm`
are two switches of one node, where threads and acceptances of the first meet the second
(three channels keep the second from coming back to where it began), two that cross, or
one of each kind.  `CHECK_DEADLOCK FALSE` stands in every run: the bounded
application and the bounded sender stop.

### What the violations show

* `last_seq_num` of the ARQ block remembers acknowledgements too.  With traffic in both
  directions, a new data frame is acknowledged and dropped when the acknowledgement
  just received had its number.  With one direction the proof below shows it cannot
  happen.
* `idle` counts the frame index in an `int` while the header carries a byte: after 255
  frames no acknowledgement is recognised and each frame is sent up to the limit.
* The manager takes any acceptance that comes while it waits for one: the third
  acceptance of a switch, late, ends the next switch before its command has arrived.
* The window asks for a frame at each acknowledgement and again for each frame that
  leaves room, so that two acknowledgements bring one frame too many.  It is dropped.

### What the histories show

Some races are in the models without a statement in the repository to compare them
with.  They appear as the conditions of properties.

* A countdown of `timeout` or `timeout_cpp` that was killed notices only between its
  sleeps: a transmission that starts first is adopted by it and ends early, or loses its
  flag to it.  The countdown publishes before it clears the flag, so that a quick
  retransmission is refused its timer.  Both need a sender that does not let countdowns
  end (`hurried`).  A station of `AlohaMac` or `CsmaAccess` that is refused its timer may
  wait for ever, and nothing is claimed of it.
* The countdown tests the flag and then publishes: an acknowledgement in between leads to
  both verdicts (`AckStopsCountdown` covers the time before the test).  The station then
  has two turns (`crossed`): it sends the next frame while the old one backs off, retries
  the next frame in the old one's name, may give it up before its time, send it once more
  than the limit allows, and count its acknowledgement for the frame behind it.  This is
  why `SuccessMeansReceived`, `CountedOnce`, `OneAtATime` and `EveryFrameResolved` are
  about stations without such a verdict, and `OneOutstanding` and `OneRight` count them.
* In `CsmaAccess` the timer of carrier sensing may run out just when the next frame is
  handed over (`raced`).  Its stop then ends the sensing of that frame at once, or comes
  before the command resets `_stop_sensing` and is lost, and the frame is then sensed
  for as long as the channel is free.
* The backoff publishes before it clears its flag.  A frame that comes round the loop in
  between is refused (`refused`) and the station stops for good.
* `_cca` is read once to end the loop and once for the verdict: a frame may pass after
  the loop has heard the channel busy.
* The go-back-n blocks reach undefined behaviour: a countdown flushes the window that an
  acknowledgement is about to pop from or to look at, or has just been emptied and
  publishes its front; a verdict from before an acknowledgement emptied the other window
  looks at the front of nothing.  After a frame was lost, the receiver acknowledges what
  comes behind it, and the window gives the lost one up.  Once frames were refused,
  the gap they leave puts a frame of the window beyond the reach of the walk that counts
  it as transmitted: it may be removed without ever having been sent.  (With a window of
  two there is no room for that; an attempt to prove `NothingSkipped` without its
  condition showed it, and a simulation with a window of three found it.)
* The thread of the manager dies when a waiting thread unsets `switch_ack_thread` between
  the handler's test and its use, or between the handler's assignment and its `start`.
  `SwitchEnds` holds nevertheless: the waiting thread ends the switch.  Without the module
  that controls the antenna (`Turntable = "missing"`) it does not: the line that turns it
  raises before the state is set back.

## Fairness

`StopAndWaitArq!FairSpec`: a talking application goes on sending (weak), which the
block needs, as only a message makes it look at its timeout; the radio does not lose
every frame it is given again and again (strong, on reception).
`AckTimeout!FairSpec`: threads and begun handlers are scheduled and time passes (weak);
acknowledgements and further transmissions may never come.
`BufferService!FairServiceSpec`: a transmission ends and a queued request is handled.
`AlohaMac!FairSpec`: a station that has a message to handle or a thread to run goes on
(weak); the radio may lose everything, since a frame is given up in the end.
`CsmaAccess!FairSpec`: the same of handlers and threads, time passes, and the buffer has
another frame (weak).  Nothing is assumed of the channel: it may be busy or free for ever,
nor of acknowledgements: none need come.
Both take one weak fairness for all of a station's work (`Works`).  It is less than
fairness of each thread, which the operating system gives: a step of the station is
always taken in the end, and since each handles a message, ends a wait or lets time pass
up to a bound, no choice among them goes on for ever.
`Rrrm!FairSpec`: handlers that have begun and threads are scheduled (weak).  No radar, no
message and no ping need come.
`GoBackN` has safety only: an acknowledgement that never comes is answered by timeouts
without end, and what is undefined ends the run.

## What is proved

All theorems hold for every value of the constants that the named ASSUMEs admit.
`TalkersAssumption`, `SizesAssumption` and so on say what a value is.  `SizeFits`, in
`FrameBuffer`, keeps out a buffer of one place that empties itself when full, where the
code pops from an empty queue.

* `StopAndWaitArqProofs!TypeCorrect`: types, in particular that numbers stay below
  `SeqMod`.
* `StopAndWaitArqProofs!AcknowledgedArrived`: with both nodes talking, an acknowledged
  fragment has arrived.  `TwoWayInv` says of each direction, on links that it shares with
  the other one, that the sender has one fragment `x` outstanding at most and its queue is
  the chain behind it (`SenderInv`), that its data on the air are of `x` and `x - 1` and so
  are the acknowledgements that come back, with nothing of `x - 1` behind something of `x`,
  and that an acknowledgement with the number of `x` is there only after `x` has arrived
  (`Flight`).  An arrival is all that can be shown: that it was also processed is what
  `MC_ArqFalseDuplicate` refutes.
* `StopAndWaitArqProofs!PlainDelivery`: without acknowledgements, a node whose frames
  all came through has had them delivered intact.  `NoAckInv` says of each direction
  without a loss that the link holds the fragments not yet processed, numbered one after
  the other from the successor of the number the receiver saw last (`Stream`), so that
  none is taken for a duplicate, and that what was delivered and what is being put
  together are the beginning of what was submitted (`Reassembled`).
* `StopAndWaitArqOneWay!OneWayReliable`: while only `s` talks, fragments are processed in
  order, once, only duplicates are dropped, acknowledged means accepted.  `FragmentsInOrder`
  is not inductive; `OneWayInv` adds what is on the air: `s` has at most one fragment
  `cur` outstanding, both links hold only frames of `cur - 1` and `cur` with nothing of
  `cur - 1` behind something of `cur`, the queue is the chain of fragments after `cur`
  with consecutive numbers, and `r` has accepted up to `cur - 1` or `cur`.  Two
  neighbouring numbers differ, which is all the size of the number space is needed for.
* `StopAndWaitArqOneWay!AcknowledgedAccepted`, from the same invariant, and
  `OneWayTransfer`: with one talker and acknowledgements, `Spec` implements
  `ReliableTransfer`.  `TransferInv` adds that the submitted messages cut the fragments
  offered so far into pieces (`Messages`), that every frame of the sender carries the bit
  for the end of a message just where one ends (`Marked`), and that the reassembly buffer
  is the piece under way (`Reassembled`).  Each action is then a submission, a delivery
  or a stutter.
* `AckTimeoutProofs!TimerTypeCorrect`, `TimerNeverOrphaned`, `PacedTimer`,
  `AcknowledgedOnce`, `AckIsFinal`.  The second
  rests on "the flag is set only on the way to a spawn, and a countdown that ends clears
  it"; the third on `PacedInv`, which is that invariant and, while the sender has not
  hurried: the only living countdown is that of the attempt being served, it is no
  younger than `since`, and what it will publish is what it was set for.  The fourth
  holds for any sender: the attempt that a timer runs for, and every later one, has no
  acknowledgement yet (`AckInv`).  `AckIsFinal` proves the temporal property
  `AckStopsCountdown`: an attempt acknowledged before its countdown made the last test
  stays without a timeout (`Settled`), as long as `PacedInv` keeps other attempts away.
* `FrameBufferProofs!BufferTypeCorrect`, `RequestNeverStuck`, `FirstInFirstOut`,
  `NothingLost`, `LoopUsesBuffer`, `TokenKept`.  The order is inductive with "everything
  published or buffered arrived before"; `NothingLost` is inductive with the types, the
  work being in what each kind of publication takes out of the queue.  `LoopUsesBuffer`
  says that the service loop, strangers included, takes only steps of the buffer's own
  specification, which carries all the others into the loop; the token needs the types and
  `RequestWaitsOnlyWhenEmpty`.
* `AlohaMacProofs!AlohaTypeCorrect`, `StopAndWait`, `TurnNeverLost`, `FrameCountedOnce`,
  `SuccessIsReceived`, from `AlohaInv`.  While the station has not hurried, the timer has
  one countdown at most, which is there while the flag is set, and the turns are between
  one (if none was stolen) and one more than the crossed acknowledgements (`CountInv`):
  each step of the countdown passes the turn on, and the test of the flag decides whether
  an acknowledgement can still take it.  As long as none crossed, the one turn is with
  `idle`, or with the frame sent last, and whoever holds it holds the info of that very
  frame, which has no verdict yet (`TurnInv`).  So a verdict is about that frame although
  `idle` never looks.  The buffer holds the frames behind it, none of them sent
  (`BufferInv`), frames are sent as often as their info says (`SentInv`), and frames with
  a verdict have been sent (`VerdictInv`).  An acknowledgement on the air has the index of
  its own frame, which was received and was sent no later than the one waited for
  (`AirInv`); an index not reduced, as `idle` keeps it, equals that of such a frame for
  the very same frame only.
* `CsmaAccessProofs!AccessTypeCorrect`, `RightKept`, `ThreadsAlone`, for any set of
  frames that cross.  The sum of `OneRight` is inductive with the types, one countdown of
  the acknowledgement timer (`ThreadInv`) and, until a verdict crosses, `FlagInv` (a
  backoff thread past its first statement has the flag set).  While a frame waits at a
  port the sum then leaves nothing for the threads, which is `OneAtATime`.
* `CsmaAccessProofs!TimerWatches`, `SensesLongEnough`, from `WatchInv`: the timer's flag
  says whether it has a thread; while a frame is on its way to the two blocks no stop is
  pending (`NoStopYet`) and a timer is running or about to start (`TimerComes`); a timer
  with no trigger ahead of it is not older than the frame (`NotBefore`), so that a stop
  comes late enough (`StopLate`, `StoppedLate`).  `RightInv` is needed because a frame
  handed over during sensing would make that sensing look short.
* `GoBackNProofs!WindowTypeCorrect`, `FlagWatched`, `PopsHeld`, `TransmittedBeforeRemoved`,
  `ReceivedBeforeRemoved`.  `WindowInv` has three parts.  `MessageInv`: every frame on the
  air was sent and every acknowledgement is of a frame received.  `RunInv`, while nothing
  was refused: the window is the run of frames that came last, the walk is the end of that
  run, and what has been sent is `1 .. m` for an `m` that the walk reaches before the
  window is idle again, wherever a timeout has sent it back to; so the index that an
  acknowledgement carries lies in the window or before it, and the difference that is
  popped counts frames that are there and were sent.  `OrderInv`, while also nothing was
  lost: frames arrive for the first time in order, so that an acknowledged frame has all
  earlier ones received.
* `RrrmProofs!RrrmTypeCorrect`, with any number of channels and events.  The types are
  inductive with `CountBelow` (a thread that sends or sleeps has a command left) and the
  count of switches and silences, which bounds the index of every thread.
* `RrrmProofs!OneChannel`, for `Turntable # "missing"`, and `AntennaAlongChannel`.
  `ChannelInv` says of the node that sees radar that it has its next channel or somebody
  is left who will take it (`Owed`): the block's thread, a thread that has given up, or
  one that waits while no acceptance has come; and of its peer that the commands on the
  air are in order, those of the latest switch for its channel (`Commands`), and that
  once one of them has come the peer has that channel or is about to take it (`Orders`).
  `Fresh` keeps a new thread from taking the place of one that still owes something, and
  is why the death of the block's thread does no harm: the thread that unset the member
  is itself about to end the switch.  `AimInv` says the same of the antenna, except that
  a thread which has turned it and not yet taken the channel no longer counts.

With these every invariant and every action property of the passing runs has a theorem,
and so has the refinement (`OnlyDuplicatesDropped`, which a run refutes with two talkers,
is proved for one).

Only model-checked: liveness (`EventuallyDelivered`, `VerdictComes`, `ElementServed`,
`Resolved`, `EveryFrameResolved`, `SwitchEnds`).  It rests on fairness, hence on ENABLED,
and on induction over the attempts or commands still to come, and both are outside what
the prover does.  The four violations are counterexamples, which only a run can show.

## Not modelled

Statistics, logs and printing; the sample-processing blocks (numeric); direction
finding and antenna control (hardware); the loggers (files).
A dictionary that lacks a key and other wrongly typed messages (wiring errors that print
or throw) are left out, and so is a double as request of several elements, which ends
`frame_buffer` in `pmt::to_long`.  Within the modelled parts: mode 2 of
`timeout_impl.cc`, which is an empty branch; the wrap of the go-back-n index at 256 and `slide_window`'s
correction for it; a Boolean at `idle`'s `data_in`, which the flow graph does not connect;
the reservation of `backoff_impl.cc` and the freezing of its countdown, which only makes
it longer; the other modes of carrier sensing and of the general timer; the first power
values, from which carrier sensing takes its threshold while `_cca` stays false; the
payload path of `rrrm.py`, which forwards or drops and keeps nothing.

The protocol logic of the module is in `lib/*_impl.cc` and in two Python blocks,
`stop_and_wait_arq.py` and `rrrm.py`, both modelled.  The rest of the Python code
cannot be modelled in any useful sense: a third of it is the generated XML reader under
`docs/doxygen/`, and most of what remains are flow graphs that the GNU Radio companion
has generated, with a graphical interface and hundreds of lines of widgets each.  Of these
graphs only the wiring matters, and the models of the MACs take it from them.  The
definitions stand for some 2600 lines of the repository, three quarters of them C++.

## Plan

At most a dozen runs keep the whole project quick to check, and all are in use: a new
module takes the place of a run that says less.

1. Done: `StopAndWaitArq` with `ReliableTransfer`; `AckTimeout`; `FrameBuffer` with
   `BufferService`; `AlohaMac`; `CarrierSensing`, `OneshotTimer`, `Backoff` composed by
   `CsmaAccess`; `GoBackN`; `Rrrm`; the proofs named above.
2. Proofs: an abstract specification of the timer (one verdict per transmission, and two
   where an acknowledgement crosses with the timeout) that `AckTimeout` with an unhurried
   sender implements; `ReliableTransfer` implemented by the
   block without acknowledgements on a radio that loses nothing, for which `NoAckInv`
   already says what is needed.  Every module below comes with the proof of its type
   invariant.
3. `RtsCts`: the handshake of `rts_framing`, `cts_framing`, `frame_type_check` and
   `virtual_cs` over two timers, with `Backoff` extended by the reservation; abstract
   specification: data only after the CTS for it, and nobody sends into a reservation
   heard.
4. `PersistentCsma`: unlimited sensing, `random_filter`, a buffer of one frame, the timer
   that brings the frame back.
5. `GeneralTimer`: the periodic and continual types, suspend, resume and disable against
   the countdown.
6. `Framing` with `frame_analysis` as its inverse; `FrameJoins`; `CogMac`; `RxGate`.
