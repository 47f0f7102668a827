# A TLA+ model of the DASH streaming system of Dashing Factory

Dashing Factory simulates adaptive video streaming in a 5G factory: ns-3
applications stream MPEG frames over TCP, and everything else in the repository
(5G radio, channel models, data sets, notebooks) provides the network below them
or analyses what they measured.  This directory models the streaming system of
`src/dashing_factory_v02/contrib/dash` (what happens between the request of a
segment and the moment its frames are shown, and how the rate of the next one is
chosen), the TCP socket it relies on, and, of the radio below, the HARQ half of
the MAC scheduler.  Paths below are relative to `src/dashing_factory_v02`.

- [The system](#the-system)
- [Modules](#modules)
- [Runs](#runs)
- [What the runs found](#what-the-runs-found)
- [What else the models show](#what-else-the-models-show)
- [Proofs](#proofs)
- [Assumptions and limits](#assumptions-and-limits)
- [Plan](#plan)

## The system

### Parts, state and operations

| Part | State | Operations | Correct when |
|---|---|---|---|
| **MPEG player** `contrib/dash/model/mpeg-player.*` | `m_state`, frame queue and its size in bytes, start time, interruption time, last pause, counters, rate statistics, its scheduled `PlayFrame` events | `ReceiveFrame`, `PlayFrame`, `GetRealPlayTime`, schedules `CheckBuffer` of the client | there is one chain of `PlayFrame` events; the media clock accounts for every frame and pause; a frame is shown on its instant; a paused player has nothing to show |
| **DASH client** `dash-client.*` | socket, `m_connected`, `m_RequestPending`, segment number, bit rate, bytes of the segment, keep-alive timer, scheduled requests | `StartApplication`, `StopApplication`, `RequestSegment`, connection callbacks, `HandleRead`, `CheckBuffer`, `KeepAliveTimeout`, `MessageReceived` | segments are asked for one at a time and in order, each throughput is computed from one segment's bytes, the video gets to its end |
| **HTTP parser** `http-parser.*` | `m_pending_packet`, `m_pending_message_size` | `ReadSocket`, `TryToPushToPlayer` | the byte stream is cut at message boundaries whatever TCP delivers; a message the player refuses is kept and tried again; the socket is not read meanwhile |
| **DASH server** `dash-server.*` | accepted sockets, a queue of frames per socket, one `m_pending_packet` | `HandleAccept`, `HandleRead`, `SendSegment`, `DataSend`, `StopApplication` | a client gets the segments it asked for, whole and in order; queued frames always have a callback to come |
| **Rate adaptation** `model/algorithms/*`, `LogBufferLevel`, `AddBitRate`, `GetBufferEstimate` in `dash-client.cc` | window of buffer levels and bit rates, counters of the algorithms | `CalcNextSegment` of AAASH, FDASH, OSMP, RAAHS, SFTM, SVAA | a rate of the list, a delay the buffer survives, no step up to a rate the network has not carried (FDASH takes one when it is ahead of its target) |
| **TCP socket** `src/internet/model/tcp-socket-base.*` (ns-3's, changed) | send and receive buffer, windows, timers, connection state | `Send`, `Recv`, `Close`, acknowledgement, window update, persist and delayed-ACK timers, retransmission | data arrive once and in order, never more than there is room for; a sender with data learns of free space; what is unacknowledged has a timer; both sides get to their end of a close |
| **Headers** `http-header.*`, `mpeg-header.*` | 28 bytes of `HTTPHeader`, `MPEGHeader` | serialise, deserialise | reading gives what was written |
| **Control traffic** `scratch/dashing-factory/tsn-flow.*` | socket, `m_running`, send event | periodic `SendPacket`, stop | one send per period until stopped |
| **Scenario** `scratch/dashing-factory/dash-fact.*` | nodes, helpers, traces | builds the factory, runs it | - |
| **NR MAC scheduler** `contrib/nr/model/nr-mac-scheduler-*`, `nr-mac-harq-*`, `nr-gnb-mac.*` | per UE and direction a vector of HARQ processes, kept NACKs, received feedback | `DoSchedDlTriggerReq`, `DoSchedUlTriggerReq` once per slot, feedback of UE and PHY | blocks of a slot never overlap; retransmissions go first; a process is followed up once and comes back |
| **Rest of the NR stack, InF channel** `contrib/nr`, `src/propagation`, `src/spectrum` | | PHY, RRC, error model, channel models | - |
| helpers, examples, test suite, scripts, data sets, notebooks, testbed, version 01 | | | - |

### How they interact

All of it runs in one discrete-event simulator: handlers run to completion, one
at a time, and the interleavings are those of the event list.  What makes the
code hard is that a handler calls through several objects before it returns:

- Data arrive: TCP calls `DashClient::HandleRead`, which pushes the keep-alive
  back and calls `HttpParser::ReadSocket`; for each complete message the parser
  calls `DashClient::MessageReceived`, which calls `MpegPlayer::ReceiveFrame`;
  that one may call `PlayFrame` at once (to end a pause), and on the last frame of a
  segment the client measures, adapts and sends the next request, all of it in the
  event of TCP.
- The player schedules itself every 20 ms, and after each frame schedules
  `CheckBuffer` of the client for the same instant, which calls the parser again:
  this is how a message that was refused gets another chance.
- Parser and player exert back pressure: a refused message stops the reading, the
  receive buffer fills, the TCP window closes and the server's frames stay in
  `m_queues`.  The way back is fragile: TCP does not announce that the
  application has read, so the client sends *blank* messages whose only purpose is
  to carry a new window.
- The server answers in the event of TCP that delivers the request, sends what
  fits into the send buffer, and goes on whenever TCP reports free space.

- The last frame of a segment closes the loop of the adaptation: its throughput and the
  buffer level go into sliding windows, `CalcNextSegment` names the next rate and a delay,
  and the request goes out after that delay while the player plays on.
- The NR scheduler runs once per slot: it ages its processes, applies the feedback that came in
  since, sends again what was lost and fills the rest of the slot with new data; the
  feedback of what it sends comes back some slots later.

Nothing is persisted.  Failures are connections that TCP gives up (both
applications keep parts of their state over it), applications that are stopped, packets the network
loses, radio blocks that cannot be decoded and feedback that comes twice, late or never.

### Hard behaviour

`PROJECT.json` lists each hazard with its line.  In short: the two ways `PlayFrame`
is started; the accounting of the play-out clock over pauses; refused
messages and who retries them; segments of TCP that cut messages anywhere;
`m_RequestPending` over a reconnection; requests scheduled by the adaptation that
meet a new connection; `Close` calling back into the client; one pending packet of
the server for all its clients; `Send` returning -1; the loop of acknowledgements,
windows, blank messages and probes between a full client and a sender that avoids
silly windows; delays computed from averages; closing a connection while data, FINs and
acknowledgements are lost or sent again; processes reused while feedback for their former
block is still on its way.

## Modules

```
SegmentStream        what a client promises                 (abstract)
     ^ implemented by
DashClient           client + parser + player, TCP abstract  -- INSTANCE --> MpegPlayer
     ^ implemented by
FlowControl          the same handlers with TCP windows      -- INSTANCE --> DashClient
DashServer           server, several clients, TCP abstract

RateAdaptation       the loop of measuring, deciding and requesting
TcpConnection        the two sockets of a connection, from SYN to TIME_WAIT

NrHarq               process tables  <-- EXTENDS -- NrHarqDl, NrHarqUl  (scheduling of slots)

MpegPlayerProofs                       theorems about MpegPlayer
DashClientProofs                       theorems about DashClient
DashServerProofs                       theorems about DashServer
FlowControlProofs                      theorems about FlowControl -- INSTANCE --> DashClientProofs
RateAdaptationProofs                   theorems about RateAdaptation
TcpConnectionProofs                    theorems about TcpConnection
NrHarqProofs                           the process tables, theorems about NrHarqDl and NrHarqUl
ModelLemmas                            loops and sequences, for all of these
```

**MpegPlayer** is the player with explicit time (`now`, milliseconds scaled
down).  A player is a record, one field per member, plus the part of the event
list that belongs to it: `wakeups`, the due times of `PlayFrame` events, and
`checks`, the `CheckBuffer` events of the current instant.  Each method is an
operator from player to player (`ReceiveFrame`, `PlayFrame`, with `ShowFrame`, `Pause`,
`Resume`, ... for their branches), so that the client can call several of them in one step.
The actions are `Receive` (a frame at any instant: the network is arbitrary here),
`FirePlayFrame`, `FireCheckBuffer`, `Stop` and `Tick`; `Tick` never passes a due event.
The statistics `GetStats` reports are fields; the method `Start`, which
nothing calls, is left out.

**DashClient** is the client with its parser and player.  `client` is a record of the
members that control anything; the handlers are operators that call each other
exactly as the methods do (`HandleRead` > `ReadSocket` > `TryToPushToPlayer` >
`ParseMessage` > `MessageReceived` > `P!ReceiveFrame`, `LastFrame` >
`RequestSegment`), and every event of the simulator is one action.  Bytes are *units*:
a message is `HeaderSize` units of headers and then payload, and
`Deliver` hands over any number of units that fits the receive buffer, so a
message can be cut anywhere.  The rest of the world is in the same module: a server
that answers each request with frames of arbitrary sizes (`Serve`, detailed in
DashServer), acknowledgements, connections that are given up (`GivesUp`, `Reconnects`),
`Stop`.  Time is abstracted to the order of events, with the one order that
matters kept: a `CheckBuffer` runs before the next `PlayFrame`.  What the adaptation
decides is arbitrary (`Choices`: any rate, at once or delayed).

**SegmentStream** is the abstract specification of a client, three counters: it
asks for the next segment only when the last frame of the current one is in, accepts
only frames it has asked for, and shows each accepted frame once, one per step.
`DashClient!KeepsPromise` is the refinement; it also holds with lost connections.

**DashServer** is the server with any set of connections.  `sock[c]` holds the state
of an accepted socket, `m_queues[socket]`, the occupancy of the send buffer and, as a
history, every fragment `Send` has taken; `pending` is the one `m_pending_packet`.  `DataSend`
is the loop that fragments the front frame to the space there is.  Clients ask and
send blank messages as DashClient does; TCP cuts
messages anywhere.  Two halves of different messages are read as *something* (`misread`): any
header the bytes may happen to form.  With `Interleaves` the parts of different clients' messages may
alternate; without it TCP delivers the rest of a message before another client's.

**FlowControl** takes the handlers of DashClient (`C == INSTANCE DashClient WITH ...`) and puts TCP
between them and a server whose send buffer never fills: sequence numbers, the
advertised window, `SendPendingData` with its avoidance of silly windows, `UpdateWindowSize`,
delayed acknowledgements, the persist timer, and the 300 ms keep-alive related to the
frames shown meanwhile (`plays`, `KeepAliveFrames`).  The network neither loses nor
reorders.  `RefinesDashClient` states that hiding TCP gives a behaviour of DashClient, so
that what is checked there, where TCP may deliver any number of units at any moment,
applies.

**RateAdaptation** is the client seen from the adaptation: `RequestSegment` after the delay,
`SegmentReceived` (which measures, slides the windows and calls `CalcNextSegment`), and a network
that changes its throughput.  The six algorithms are operators from what the client knows to the set of
decisions the algorithm may take; ratios are compared by cross multiplication, and only where the
code computes with `exp` (SVAA) or with a mean of fuzzy weights (FDASH) has the set more than one element, the
decisions within the bracket of the exact value.  Time is counted in frames of 20 ms and the player
is what `GetRealPlayTime` makes of it.  DashClient leaves the decision open, RateAdaptation leaves the transport out.

**TcpConnection** has a record per socket with the members of `TcpSocketBase` and one operator per method,
again from socket to socket; `out` collects what a handler sends, `calls` the callbacks it makes, `broken` a
failed assertion.  Sequence numbers count segments.  The states are those of the code from `CLOSED` and `LISTEN` to `TIME_WAIT`;
packets may be lost (`Lose`), any timer may fire early (`RetxTimer`), each application writes, reads and closes
at any moment (`Connect`, `Send`, `Read`, `Close`).  The buffers (`NextSeg`, `DiscardUpTo`, ...) stand for the ns-3 classes
that are not part of the repository.

**NrHarq** is the process table (`Insert`, `Erase`, `ResetExpiredHARQ`, `ProcessHARQFeedbacks`, `ComputeActiveHarq`) that
**NrHarqDl** and **NrHarqUl** each schedule from.  An action is a slot, `DoSchedDlTriggerReq` or `DoSchedUlTriggerReq` with every
call they make; the others are the arrival of feedback.  A block is its symbols, its resource block groups and its
redundancy version.  Downlink: beams, one rectangle after another, duplicates and late feedback filtered;
uplink: the band is always whole, NACKs in order, no filter of duplicates (so the PHY reports each block at most once).
`failed` stands for every assertion and fatal error on the way.

## Runs

| Run | Instance | Question |
|---|---|---|
| `player` | 3 kinds of frames, capacity 3, interval 2, start delay 3, 11 instants | the player alone against any arrival process |
| `client` | frames of 2 or 3 units (headers 2), capacity 4, receive buffer 3, 2 segments of 2 frames, one lost connection, a stop at any moment | request, parse, refuse, retry, play; what is left of an old connection never mixes with the new one |
| `server` | 2 clients with a segment of 2 frames each, frames of 3 units, send buffer 2, messages cut anywhere, a blank message, one connection lost, a stop | each client gets its own segments |
| `flow` | messages of 1 or 2 units, receive buffer 2, TCP segments of 2 | the window closes to 0 and is probed; the client with TCP is the client of DashClient |
| `rates` | six algorithms, 8 rates, 3 throughputs, 2 changes (FDASH: 1), 14 to 22 segments | decisions in the closed loop |
| `tcp` | a server that writes 2 segments, one loss, one early timeout, both may close | a connection from SYN to its last timer |
| `nr_dl`, `nr_dl_faults` | 2 UEs (1), 2 processes, 2 groups, slots of 0 or 3 symbols (1), feedback within 2 slots, once (twice and late) | downlink HARQ |
| `nr_ul` | 2 UEs, 2 processes, slots of 1 or 2 symbols, reports within a slot | uplink HARQ |
| `client_retry`, `server_mix`, `flow_silly` | | expected violations, see below |

What the properties say is stated above each of them; the main ones:

- *Player.* `SingleEventChain`, `PlayClock`, `PausedMeansStarved`,
  `BytesAccounted` are invariants over the event list and the clock; `PlayedOnTime` is an action property;
  `ReachesStop` says that no event with delay 0 repeats for ever.
- *Client.* `OneSegmentAtATime` relates the request flag to what is
  anywhere on the way; `PlaysInOrder` and `ParserAligned` say that the stream is neither lost, doubled
  nor misread; `StalledOnlyWhenFull` and `Backpressure` bound the waiting from
  both sides; `NeverAborts` is every fatal error of the client; `MeasuredExactly` compares what the adaptation is told with what the server has sent;
  `KeepsPromise` is the refinement, `PlaysToTheEnd` the liveness property.
- *Server.* `AnswersItsClient` compares all a connection ever carries with what its client
  asked for; `QueueWaitsForSpace` says that queued frames always have an event to come;
  `NoFrameLostRunning`, `EveryRequestAnswered`.
- *Flow control.* `NeverOverruns`, `FlowsToTheEnd`, `RefinesDashClient`.
- *Adaptation.* `SleepsOnBufferedMedia`: who puts a request off still has media when it goes out, although
  the delay comes from the average of a window; `NeverRaisesBlindly`: nobody steps up to a rate that no
  sample of the window reached, except OSMP (see below) and FDASH when it has more than its target buffered: its
  controller then multiplies the estimate by up to four.  `TypeOK` holds every index into the list of rates.
- *TCP.* `AckedMeansReceived`, `UnackedIsTimed`, `Arrives` (liveness: what was written is delivered unless a
  socket is gone).
- *HARQ.* `TypeOK` and `UlTypeOK` hold the assertions of the scheduler; `PlacedApart`, `HarqGoesFirst`, `EachBlockIsFollowed`
  (feedback on its way, received or kept: exactly one for each active process), `FollowedAtMostOnce` (in the uplink one at most), `Drains` (all processes come
  back when traffic pauses).

**Bounds, and why they are enough.**  *Player:* with capacity 3 and frames of 1 and 2 a
push can fit or fail for either; 11 instants are enough for the initial buffering,
a pause, and a second pause.  *Client:* the message sizes 2 and 3 against a receive buffer of 3 put a
boundary at every position of a delivery; capacity 4 is room for one large or two small
messages, so refusal, retry and refusal again occur; two segments are a first and a
last one with a request between them.  One lost connection is enough for the old and the new one to
meet; a second one meets the same leftovers.  *Server:* a frame of 3 with a send buffer of 2
is always fragmented; a client asks for its next segment only when it has the last one, so a second segment meets an empty queue; two connections are enough for anything that passes through the shared
packet.  *Flow control:* the receive buffer and the TCP segment decide which of the two ways
of waiting occurs, a window of 0 (2 with 2) or one below a segment (3 with 2, `MCFlowControlOne.cfg`).
*Adaptation:* the first 8 rates of the list in `dash-client.h`; throughputs below, amid and
above them; two changes are a drop and a recovery or two drops; `MaxSegments` is enough for the 10 s window to
fill and empty, and for FDASH to get ahead of its target (fewer segments for FDASH and SVAA and one change for FDASH, whose
decisions branch).  *TCP:* 2 segments are one
that is acknowledged late and one more, which is as many as delayed acknowledgements (`DelAckMax` 2) tell apart; one
loss with retransmission limits of 2 and 1 reaches both giving up and recovery; a side
that writes at most 3 segments never sees three duplicate acknowledgements, which is why
fast recovery is out (`ConnectionAssumption`).  *HARQ:* two UEs and two processes of each are what a shared
slot and a reused process need; 0 and 3 symbols make a retransmission fit, fit after a reshaping, or wait;
`MaxBlocks` 2 blocks at one time.  With `NumHarqProcess` 2 instead of 20 the timer
is short as well: feedback comes within 2 slots, while in the simulator it takes about 8 of 20, so
that in `nr_dl` and `nr_ul` it is never late, as there; `nr_dl_faults` lets it be.
`MaxSegments`, `MaxLosses`, `MaxBlanks`, `MaxErrors`, `MayStop`, `MaxChanges`, `MaxData`, `MaxEarly`, `MaxDelay`, `MaxDuplicates`, `MaxBlocks`
are the names of the bounds; the code has none of them.

`CHECK_DEADLOCK FALSE` is set where a simulation ends: after the last frame, the last
instant or the last timer nothing is left to do.  `PlaysToTheEnd`, `FlowsToTheEnd`, `EveryRequestAnswered`, `ReachesStop` and `Arrives` are
what excludes an early end.  The HARQ runs check for deadlock: slots never end.

**Fairness.**  The simulator runs every scheduled event, hence weak fairness of each action that is an
event in its list.  TCP delivers, transmits and acknowledges on a connection it
has not given up, hence weak fairness of these.  Nothing makes a connection fail, a packet get lost or a client stop:
no fairness there.  In FlowControl the network is reliable by assumption.  In TcpConnection packets arrive and timers that run
fire; no application has to close.  In NrHarqUl the gNB starts one slot after the other (`ulSlot.turn`
changes again and again) in a pattern that has full slots (`ulSlot.avail = FullSlot` again and again): both
are properties of the states, which say the same as fairness of the action and are cheaper to check.

## What the runs found

Each is a run that TLC must find violated; the quotation it contradicts is in
`PROJECT.json`, "findings".

1. `client_retry`: *"Connection closed due to error, retrying..."*.  After a connection is lost
   with a request pending, `m_RequestPending` stays set, `RequestSegment` returns at once on
   the new connection, and nothing is requested again.
2. `server_mix`: `HandleRead` collects the data of all clients in one packet: a message cut by
   TCP is completed with the bytes of another client.
3. `flow_silly`: the deadlock the blank messages are there to prevent.  A blank message is sent only
   while a complete message is refused, and the keep-alive only once.  When `CheckBuffer` hands the
   refused message over and empties the socket into an incomplete one, the server still
   believes in a window smaller than a segment and waits for good.  It takes messages of
   about the size of the receive buffer; `flow` and `MCFlowControlOne.cfg` show that
   a window of exactly 0, or smaller messages, do not have the problem.

## What else the models show

Configurations kept beside the runs, to be checked with `tlc -config X.cfg M`.  Two are larger or other
instances in which everything holds:

| Configuration | Module | |
|---|---|---|
| `MCFlowControlOne.cfg` | `MCFlowControl` | messages of one unit, a window that closes to 1, below a TCP segment: `FlowsToTheEnd` holds |
| `MCTcpConnectionLarge.cfg` | `MCTcpConnection` | both sides write, more retransmissions: the invariants hold |

In the others TLC finds a statement of the code's comments violated:

| Configuration | Module | Property | What happens |
|---|---|---|---|
| `MCDashClientStop.cfg` | `MCDashClient` | `NoRequestAfterStop` | *"The time when the clients will stop requesting segments"* (`dash-example.cc:68`).  `StopApplication` closes a socket that is still connecting; that resets it and reports an error close (`tcp-socket-base.cc:1123-1128`, `2886-2892`), `ConnectionErrorClosed` starts the application again, and the stopped client requests a segment. |
| `MCDashServerStop.cfg` | `MCDashServer` | `NoFrameLost` | *"Couldn't send packet, though space should be available"* (`dash-server.cc:328`).  `Send` returns -1 on a closed socket; stored in a `uint32_t` (line 325) it passes for a large number, and a segment is dropped without the fatal error. |
| `MCRateAdaptationAaash.cfg` | `MCRateAdaptation` | `AaashAsksInTime` | *"if (m_bufferDelay > Time ("0s") && b_t < m_bufferDelay && m_dashClient)"*: a commented-out test of the player (`mpeg-player.cc:348`) sends a delayed request as soon as the level falls below the delay.  Without it AAASH, which waits at least 35 s from a level of 20 s on (`aaash-client.cc:134`), lets the player run dry. |
| `MCRateAdaptationOsmp.cfg` | `MCRateAdaptation` | `DeliveryTimeIsMeasured` | *"The delivery time of the last fragment"* (`osmp-client.cc:52`) is the difference of the last two log entries, and 0 when the 10 s window holds one, as after a segment that took longer. |
| `MCRateAdaptationRaahs.cfg` | `MCRateAdaptation` | `SwitchesDown` | *"Switch down"* (`raahs-client.cc:79`): the loop of line 82 runs while `i < rateInd - 1`, not at all from the second lowest rate, which is kept. |
| `MCTcpConnectionLastAck.cfg` | `MCTcpConnection` | `LastAckIsOfTheFin` | *"This ACK corresponds to the FIN sent. This socket closed peacefully."* (`tcp-socket-base.cc:2618`): `ProcessLastAck` never looks at the acknowledgement number; an ACK of earlier data closes the socket, and neither the FIN nor lost data are sent again. |
| `MCTcpConnectionDeferred.cfg` | `MCTcpConnection` | `DeferredCloseHappens` | *"App close with pending data must wait until all data transmitted"* (line 801): after a timeout moved `m_nextTxSequence` back (3400-3403) data count as pending; one ACK of all of it makes `SendPendingData` return (3307), and no FIN is ever sent. |
| `MCNrHarqUlNack.cfg` | `MCNrHarqUl` | `NackIsKept` | *"the feedback is buffered for the next slot"* (`nr-mac-scheduler-harq-rr.cc:225`): the loop of `ScheduleUlHarq` ends when no symbol is left, and the NACKs behind that point are dropped; their processes wait for the timer. |
| `MCNrHarqDlBeams.cfg` | `MCNrHarqDl` | `HarqGoesFirst` | *"before transmitting new data"* (`nr-mac-scheduler-ns3.h:209`): each beam gets an even share of the symbols; two blocks that need more than half both wait, and new data take the slot; taking a block up sets its timer back, so it never expires. |

## Proofs

Everything below is checked by TLAPS from nothing, for every value of the constants that satisfies the
assumptions named; every theorem holds without the fairness conjuncts.  TLC checks the same properties, and checked
each inductive invariant before it was proved, on the small instances above.

### What is proved

| Module | Theorem | States |
|---|---|---|
| `MpegPlayerProofs` | `PlayerTypeOK` | `Spec => []TypeOK` |
| | `PlayerSingleEventChain` | `Spec => []SingleEventChain` |
| | `PlayerClock` | `Spec => []PlayClock` |
| | `PlayerPausedMeansStarved` | `Spec => []PausedMeansStarved` |
| | `PlayerInterruptionsCounted` | `Spec => []InterruptionsCounted` |
| | `PlayerBytesAccounted` | `Spec => []BytesAccounted` |
| | `PlayerPlayedOnTime` | `Spec => PlayedOnTime`, an action property |
| `DashClientProofs` | `TypeCorrect` | `Spec => []TypeOK` |
| | `OneSegment` | `Spec => []OneSegmentAtATime` |
| | `InOrder` | `Spec => []PlaysInOrder` |
| | `KeepsAligned` | `Spec => []ParserAligned` |
| | `NothingForgotten` | `Spec => []StalledOnlyWhenFull` |
| | `ReadsNoFurther` | `Spec => []Backpressure` |
| | `MeasuresOneSegment` | `Spec => []MeasuredExactly` |
| | `RequestAccepted` | `Spec => []NeverAborts` |
| | `Promise` | `Spec => KeepsPromise`: DashClient implements SegmentStream |
| `DashServerProofs` | `TypeCorrect` | `Spec => []TypeOK` |
| | `WaitsForSpace` | `Spec => []QueueWaitsForSpace` |
| | `FramesKept` | `Spec => []NoFrameLostRunning` |
| | `ClientsAnswered` | `Spec => []AnswersItsClient`, if not `Interleaves` |
| `FlowControlProofs` | `FlowTypeCorrect` | `FlowSpec => []FlowTypeOK` |
| | `NothingOverruns` | `FlowSpec => []NeverOverruns` |
| | `FlowRefines` | `FlowSpec => RefinesDashClient`: FlowControl implements DashClient |
| | `FlowKeepsPromises` | `FlowSpec => []`(what `DashClientProofs` proves of `C`) |
| `RateAdaptationProofs` | `RatesTypeCorrect` | `Spec => []TypeOK` |
| | `StepsUpBacked` | `Spec => NeverRaisesBlindly`, an action property |
| | `WaitsOnBufferedMedia` | `Spec => []SleepsOnBufferedMedia`, if `WindowIsShort` |
| `TcpConnectionProofs` | `AckedIsReceived` | `Spec => []AckedMeansReceived` |
| `NrHarqProofs` | `DlTypeCorrect` | `Spec => []TypeOK` |
| | `DlPlacedApart` | `Spec => []PlacedApart` |
| | `DlEachBlockIsFollowed` | `Spec => []EachBlockIsFollowed`, if `OnceInTime` |
| | `DlHarqGoesFirst` | `Spec => []HarqGoesFirst`, if `SameBeam` |
| | `UlTypeCorrect` | `UlSpec => []UlTypeOK`, if `MaxDelay <= NumHarqProcess` |
| | `UlFollowedAtMostOnce` | `UlSpec => []FollowedAtMostOnce`, if `MaxDelay <= NumHarqProcess` |

So every invariant and action property the passing runs check is a theorem but two of TcpConnection (below), and `InterruptionsCounted`, which no run has to check again, is one; the
refinements compose, and the client above TCP's flow control keeps what SegmentStream promises.

Five theorems have a hypothesis because the statement is false without it:

- `ClientsAnswered`: `server_mix` shows what happens when the parts of two clients' messages alternate.
- `DlEachBlockIsFollowed`: `OnceInTime` says that feedback comes once (`MaxDuplicates = 0`) and before the timer of its process
  runs out (`MaxDelay <= NumHarqProcess`), as it does in the simulator with 20 processes.  Feedback that comes later
  refers to a process that has expired or holds another block, and a duplicate to one already followed up.
  `DlTypeCorrect` and `DlPlacedApart` do not assume it: they hold with feedback as late and as often as one likes.
- `UlTypeCorrect` and `UlFollowedAtMostOnce`: the PHY reports on a block before the timer of its process runs out, in the simulator a few slots
  against 20.  The uplink does not filter feedback as the downlink does: with `MaxDelay = 3` and two processes TLC finds two NACKs for one process in
  a slot, that of an expired block and that of its successor; the process is sent again twice, and the second time the assertion on its status fails.
- `DlHarqGoesFirst`: `SameBeam` says that all UEs are in one beam.  `MCNrHarqDlBeams.cfg` shows what several beams do.

One more has one that is enough for it, and is not claimed to be needed:

- `WaitsOnBufferedMedia`: `WindowIsShort` says that `m_window` is no longer than what an algorithm holds back when it
  reckons its delay: 9 s and a segment for RAAHS, the time a segment of the highest rate takes at the lowest for SFTM, `m_target_dt`
  for FDASH.  The code's defaults satisfy it: the window is 10 s, the target 10 s (35 s before the attribute is set), and the highest rate is more
  than five times the lowest.

### Assumptions on the constants

`PlayerAssumption`: natural numbers, the frame interval and the start delay positive.  `ClientAssumption`: a message
has headers, fits the frame buffer (1 MB by default; a frame of the highest rate has some 200 kB), and the receive buffer holds its headers; there is a
rate and a size.  `ServerAssumption`: frames are not empty, and one is the largest
(`TxCapacity` needs no relation to it: a frame is cut).  `FlowAssumption`: those of the client, and a TCP segment holds the headers and fits the
receive buffer.  `ConstantsOK` of RateAdaptation: two rates or more, positive and ascending, and
positive throughputs, as many of each as one likes.  `HarqConstants`, `DlConstants`: finitely many UEs and processes, at least one process, at least one RBG; the lengths of a slot are a
finite set of numbers, and every UE has a beam.  There may be any number of UEs, processes, groups and beams.  `ConnectionAssumption`: any initial window, any number of retries and of delayed
acknowledgements, losses and early timeouts as many as one likes; a side writes at most 3 segments, since with more, 3 duplicate
acknowledgements would start the fast recovery the model leaves out.  Other segments, losses, connections, blank messages and the length of a simulation have no bound: `MaxSegments` and the like are any numbers.

### How

*MpegPlayer.*  No property is inductive alone: that a playing player's only event is due on the media clock needs that
there is one event, that it is never due in the past (otherwise a resumed player
could be late), that a pause began no later than now, and that the start time is the
instant of the initial buffering event.  `Sound(p, t)` collects this, as a predicate
of *a player and an instant*, so that its lemmas speak of the operators and not of
the actions: `ShowSound`, `PauseSound`, `BeginPlaybackDue`, `ResumeSound`, `BeginSound` for the
branches, `PlayFrameSound` and `ReceiveFrameSound` for the methods, `NextSound` for the step.  A
player for which `PlayFrame` is just running is `Due`: its event is off the list.
`PlayedOnTime` follows from the same invariant (`ShowOnTime`, `PlayFrameOnTime`, `ReceiveFrameOnTime`, `NextOnTime`).
`BytesAccounted` is kept beside it: `SizeOfAppend` and `SizeOfTail` say what a push and a pop do to the sum over the queue.

*DashClient.*  The handlers call through parser, player and client before they return, so the invariant is again
one of *a client and its network*: `Sound(c, tc, ts, sv, lost)`.  Its core is `StreamSound`: the bytes in the parser, the socket
and the network are one stream (`Joined`), and while a request is pending that stream is a part of one
segment, aligned at the frame the player needs next, or empty with the request under way; while none is, it is empty.
Every property of the list is a consequence, and none is inductive without it: that a
throughput is that of one segment needs that what was counted and what is left add up to what was served;
that nothing of an old segment is taken for the new one needs `EventsSound`, that every `RequestSegment` event beyond the
one that may wait was left by a lost connection.  The lemmas take the operators from the inside out, the loop of
`ReadSocket` with an invariant of its rounds; `ParserSettled` adds what the loop leaves when it ends.  For the refinement, `Moves` says what one event may do to the segments
asked for and the frames accepted and shown, and `StepMaps` that this is a step of SegmentStream or a stutter.

*DashServer.*  `ServerSound`: no socket has both a queue and room for it, which is that the loop of `DataSend` ran to its end;
with the callback that waits whenever the send buffer is in use this is `QueueWaitsForSpace`.  `RunningSound`: before
`StopApplication` no socket is being closed, so `Send` never refuses.  `ClientsSound`: what the server has not read of a client,
the pending packet included, is whole messages with at most one request, and the socket has answered the others.

*FlowControl.*  `FlowInv` is the invariant of DashClient and `Net`.  The window a server acts on may be old; what
makes it safe is `PacketsIn`: no packet under way, however old, promises more than the client has room for *now* (its edge
never moves back), so `Positions` holds: what was sent ends before the edge.  `SegmentsIn` bounds what is on its way, the probe included;
`FirstData` says that the first data hold the headers of a message, which DashClient wants of a delivery; `Quiet` that nothing is under way before the first request.
Each step is then an event of DashClient or leaves alone what DashClient sees.  `DashClientProofs` is instantiated as `D` with the refinement
mapping, so its lemmas are cited, not repeated; the lemmas `Same...` bridge to the instance `C` of the model.

*RateAdaptation.*  Every algorithm has a lemma of its own (`OsmpDecides`, `RaahsDecides`, ...), from what the client knows (`Known`) to
three facts about any decision it may take: `Proper` (a rate of the list, a delay that is not negative), `Waits` (the delay and the window
together are no longer than the average level), `Backed` (a rate stepped up to was reached by the last segment or
by the estimate, or FDASH is ahead of its target).  `RecentKeeps` says what the sliding window leaves: entries of the log that are
young enough, the newest one among them, so no average is one of nothing; `SomeReachAverage`, that some sample is as
high as the average, which makes a backed rate a measured one.  For the delay, `Histories` relates the levels logged to the clock: level plus instant
is never more than the end of the media received now, since the player's origin only moves forward.  So the highest level of the window, at most a window
old, has lost at most a window since, and that is what `WindowIsShort` keeps in reserve.

*TcpConnection.*  That an acknowledgement says what was received is a statement about all packets on their way, however
old: `PacketsOf(who, n)` are those a side can have sent that has received all up to `n`, and they stay so as `n` grows.  It would not grow if a
late SYN reached a server that is further on: `ProcessSynRcvd` sets the next number expected back to 1, and so does a fork.  `SynOrder` says why none does: a
client sends its SYN until it is answered and nothing else, the network keeps the order, so behind another packet there is no SYN.
`Good(s, c)` is the invariant of a socket in the middle of a handler, where `c` says whose it is, what the peer has
received and what the handler may still do; a lemma for each method of the socket says that it keeps it, one for each state what a packet does there, and
`ReceiveStep` and its like that a step does.  The closing states are what it takes to get `FIN_WAIT_2` right: `ProcessWait` enters it on an ACK one
above `m_highTxMark`, and only a peer that has seen the FIN sends one.

*NrHarqDl.*  A slot is one action made of four loops over lists: the feedback is put together, applied, what was lost is sent again, and
new data fill the rest.  Each loop has an invariant of its rounds, a lemma for one round and one for the whole
loop.  `MergedTo`: of the first elements, the list has the first one for each active process.  `FedTo`: those processes are erased or marked,
the others as before, and a NACK in the result is for a marked process.  `RetxTo`: what is taken up is in a block or kept,
an earlier beam ends where the current one begins, within it a block lies left of the next, and a beam never takes more than
its share, so that all beams together fit the slot.  `DataTo`: new data lie end to end behind that, each in a process that was free.  `SlotSteps`
says that a slot is these four, and nothing after it opens a loop again.
The invariant behind `TypeOK` is `DlTyped`, with `Good` of the table: `m_usedSize` has to count the active processes for the next assertion
on it to hold, and an active process has symbols and groups, without which a retransmission could be placed in an empty
rectangle.  Each operation of the table keeps `Good` (`EraseGood`, `InsertGood`, `MarkGood`, `ResetGood`).
`PlacedApart` follows from what the slot's loops conclude.  `HarqGoesFirst` does from `KeptTo`: a block kept while none is sent is larger than
its beam's share, which with one beam is the whole slot, and once one is sent nothing is left for new data.
`EachBlockIsFollowed` counts; `FollowedOnce`, its invariant, says the same with quantifiers, and in addition that
feedback on its way is as old as the timer of its process.  Without that, feedback under way could
outlive its process.

*NrHarqUl.*  The same loops without a filter: `UlMergedTo`, `FedTo`, `UlRetxTo`, `UlDataTo`, put together by `UlSlotSteps`.  Here the types are not
inductive alone.  `ScheduleUlHarq` asserts that a process it sends again is marked by a NACK, which it is only if no NACK of
the list was for the same process; so the lists must name each process once (`Apart`), that is `UlFollowed`, which in turn needs that the
processes are what `Good` says.  `UlAlways` proves both together.  A report on its way is as old as the timer of its process
(`UlOldFollowed`: the timer of such a process cannot have been set back, since only feedback does that, and there is none), so with `MaxDelay <=
NumHarqProcess` the report comes first; a NACK that is dropped, because no symbol is left, leaves a process nobody follows, hence *at most* once.

*Loops and sums.*  The models write a loop as a function of its round.  That there is one, and that an invariant of the rounds holds
at the end, is proved in `ModelLemmas` from induction over *sets* of numbers (`SetInduction`, with it `Recursion`, `Iterates`, `Stays`,
`Loop`): the library's induction theorems take an operator as a parameter, which the provers cannot instantiate.
The sums and the sliding window of RateAdaptation are such loops too (`TotalStays`, `RecentKeeps`).
`Turns` is the same for a loop over a list whose invariant names the elements done so far (`Reaches`); `WalkLists` and `ListLists` say that the
order in which a set is gone through has every member once.

### Only model-checked

- *Liveness* under fairness (`ReachesStop`, `PlaysToTheEnd`, `EveryRequestAnswered`, `FlowsToTheEnd`, `Arrives`, `Drains`) is out
  of the prover's reach.
- `TypeOK` and `UnackedIsTimed` of TcpConnection.  Both need, beyond `Good`, which packet can still be overtaken by which: where in the stream a FIN
  lies that an earlier timeout put on its way, and which selective acknowledgements are older than what they speak of.  They
  also hold on larger instances than the runs' (two segments a side with a loss and an early timeout; three of the server's with two of each).

## Assumptions and limits

- *Discrete events.*  Handlers are atomic, as in ns-3.
- *TCP.*  DashClient and DashServer assume that TCP delivers a connection's bytes
  once and in order or gives the connection up; FlowControl models the window and not loss,
  congestion, pacing or the shift of window scaling (which rounds a window down by at most 3 bytes with
  the default buffers); TcpConnection models loss and retransmission and not windows.  Neither has fast
  recovery, ECN, pacing, time stamps or simultaneous open: none is configured by the scenario, and with few
  segments in flight recovery does not start.
- *The adaptation* gets segments of nominal size whose frames arrive evenly; the means
  are rounded down to a frame time or 1 kbit/s.
- *The radio* is what the scheduler sees of it: any number of symbols, any grants to UEs with a free
  process, any feedback.  MCS, CQI, bearers, buffer status and the OFDMA variants decide how much a
  grant carries, not how a process is followed up.
- *The first delivery* of a connection holds at least the two headers (`Deliver`, `SegmentSize >=
  HeaderSize`): a TCP segment is far larger.  A parser that got less would block, because
  `m_pending_message_size` is still 0 (hazard in `PROJECT.json`).
- *The peer's orderly close* (`ConnectionNormalClosed`) is not an event of DashClient: the server closes only after the
  clients have stopped in every scenario of the repository.  TcpConnection has it.
- *Widths.*  The counters are 32 and 64 bits and stay far below (a segment of 2 s at 85 Mbps has
  21 MB); they are natural numbers.
- *Not modelled*, with the reason:
  - CSV output, logging and printed statistics: pure output.
  - Headers: nine integers written and read in the same order.
  - `tsn-flow.*`: a UDP source with one timer, cancelled on stop; nothing can interleave with it.
  - Helpers, examples, scenario: they construct objects and start the simulator.
  - The rest of the NR stack: RRC and bearers are set up before the applications start; PHY, error model (`nr-eesm-*`, 35,000 lines of
    tables) and channel models are real-valued formulas and data, out of TLC's reach.
  - Version 01: an earlier copy, with the same control flow in `contrib/dash`; a model of it would repeat this one.
  - Generated documentation, scripts, notebooks, data sets, testbed: no state of the program.

  These are by far most of the repository's lines: the modelled ones are those that decide
  what happens, and they are few.

## Plan

Done: the models in the order MpegPlayer, DashClient with SegmentStream, DashServer, FlowControl,
RateAdaptation, TcpConnection, NrHarq with NrHarqDl and NrHarqUl; the proofs in the order MpegPlayerProofs, DashServerProofs,
DashClientProofs, FlowControlProofs, NrHarqProofs (downlink), RateAdaptationProofs, NrHarqProofs (uplink), TcpConnectionProofs.  Next:

1. **TcpConnection** as an abstract and a detailed specification, the abstract one being what DashClient's `GivesUp`,
   `Reconnects` and `CloseSocket` assume.
