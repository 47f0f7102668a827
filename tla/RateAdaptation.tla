--------------------------- MODULE RateAdaptation ---------------------------
(***************************************************************************)
(* The closed loop of a DASH client: a segment arrives, its throughput and *)
(* the buffer level enter a sliding window, the rate adaptation algorithm  *)
(* (CalcNextSegment of one of the six subclasses of DashClient) names the  *)
(* next rate and how long to wait, the request goes out after that delay,  *)
(* and meanwhile the player plays on.                                      *)
(*                                                                         *)
(* Time is counted in frames (20 ms), rates in kbit/s.  Averages, which    *)
(* the code keeps as doubles, are rounded down to one frame or 1 kbit/s.   *)
(* A segment has its nominal size and its frames arrive evenly over its    *)
(* fetch time; the frame buffer is never full (DashClient models that).    *)
(***************************************************************************)
EXTENDS Integers, Sequences, FiniteSetsExt, SequencesExt

CONSTANTS
    Algorithms,    \* the subclasses of DashClient to consider
    Rates,         \* the rates a client may ask for, ascending
    Throughputs,   \* what the network may carry
    MaxChanges,    \* how often the network changes on each algorithm
    MaxSegments,   \* how many segments each algorithm fetches
    StartAt,       \* when the first segment is requested
    Window,        \* m_window
    TargetDt       \* m_target_dt

MSD == 100          \* MPEG_FRAMES_PER_SEGMENT, in frames of MPEG_TIME_BETWEEN_FRAMES
Second == 50

ASSUME ConstantsOK ==
    /\ Algorithms \subseteq {"OSMP", "RAAHS", "SFTM", "FDASH", "SVAA", "AAASH"}
    /\ Rates \in Seq(Nat \ {0}) /\ Len(Rates) > 1
    /\ \A i \in 2 .. Len(Rates) : Rates[i - 1] < Rates[i]
    /\ Throughputs \subseteq Nat \ {0}
    /\ MaxSegments \in [Algorithms -> Nat] /\ MaxChanges \in [Algorithms -> Nat]
    /\ {StartAt, Window, TargetDt} \subseteq Nat

VARIABLES
    algo,       \* the algorithm this client runs
    net,        \* what the network carries now
    changes,    \* how often it changed
    now,        \* Simulator::Now
    phase,      \* "waiting" for the delay to pass, or "fetching" a segment
    dueAt,      \* when the scheduled RequestSegment runs
    segId,      \* m_segmentId: segments requested so far
    bitRate,    \* m_bitRate
    delay,      \* bufferDelay of the last decision
    fetch,      \* m_segmentFetchTime
    bitrates,   \* m_bitrates, the throughput samples of the window
    levels,     \* m_bufferState, the buffer levels of the window
    playFrom,   \* when the player leaves MPEG_INITIAL_BUFFERING
    origin,     \* m_start_time + m_interruption_time, once it has
    mem         \* what the algorithms remember between decisions

vars == <<algo, net, changes, now, phase, dueAt, segId, bitRate, delay, fetch,
          bitrates, levels, playFrom, origin, mem>>

Top == Len(Rates)
Index(rate) == CHOOSE i \in 1 .. Top : Rates[i] = rate
Positive(x) == IF x > 0 THEN x ELSE 0

\* Faulty variant: the loop stops one rung above the rate that fits.
HighestWithin_OneAbove(rate) ==
    Rates[Min({Top} \union {i \in 1 .. Top : Rates[i] > rate})]

\* Faulty variant: the rate itself is returned, not a rung of the ladder.
HighestWithin_Raw(rate) == rate

\* The highest rate the given one carries, and the lowest rate when there is none.
HighestWithin(rate) == Rates[Max({1} \union {i \in 1 .. Top : Rates[i] <= rate})]

-----------------------------------------------------------------------------
(* The player.                                                             *)

\* GetRealPlayTime of the end of the received media: m_start_time is still 0
\* while the player is in MPEG_INITIAL_BUFFERING.
GetRealPlayTime(media, at, from, orig) ==
    (IF at < from THEN 0 ELSE orig) + media - 1 - at

FramesPlayed(media, at, from, orig) ==
    IF at < from THEN 0 ELSE Min({media, at - orig + 1})

\* A frame that arrives after its time shifts all that follow.  Of the frames of
\* a segment, which arrive evenly, the first or the last is the latest.
OriginAfter(seg, orig, asked, done) ==
    Max({orig, asked + 1 - seg * MSD, done - (seg * MSD + MSD - 1)})

-----------------------------------------------------------------------------
(* What a decision is made from: the windows, newest entry last.           *)

Recent(log, at) ==
    LET kept[i \in 0 .. Len(log)] ==
            IF i = 0 THEN <<>>
            ELSE IF log[i].at >= at - Window THEN Append(kept[i - 1], log[i])
            ELSE kept[i - 1]
    IN kept[Len(log)]

Total(log) ==
    LET sum[i \in 0 .. Len(log)] == IF i = 0 THEN 0 ELSE sum[i - 1] + log[i].val
    IN sum[Len(log)]

Average(log) == Total(log) \div Len(log)
GetBufferDifferential(log) ==
    IF Len(log) < 2 THEN 0 ELSE Last(log).val - log[Len(log) - 1].val

\* The time between the last two entries of the log, which OSMP takes for the
\* delivery time of the last segment.
LastFragment(log) ==
    IF Len(log) < 2 THEN 0 ELSE Last(log).at - log[Len(log) - 1].at

Decision(rate, wait, m) == [rate |-> rate, delay |-> wait, mem |-> m]

(***************************************************************************)
(* The six algorithms.  Each gives the set of decisions it may make: more  *)
(* than one only where the code computes with exp and sqrt.  The argument  *)
(* in is what the client knows when the last frame of a segment is in:     *)
(*   cur    the rate of that segment      fetch  its fetch time            *)
(*   est    m_bitrateEstimate             log    m_bufferState             *)
(*   seg    m_segmentId                   played m_framesPlayed            *)
(*   mem    the algorithm's own state                                      *)
(***************************************************************************)

\* r_download is the pair num/den; 100 when no delivery time is known.
Osmp(in) ==
    LET t == LastFragment(in.log)
        num == 100
        den == IF t > 0 THEN t ELSE 1
        i == Index(in.cur)
        Down == IF i = 1 \/ num * Rates[i] < den * Rates[i - 1] THEN 1 ELSE i - 1
        Up == IF i < Top /\ (i = 1 \/ num * Rates[i] > den * Rates[i - 1])
              THEN Min({j \in 2 .. Top : j = Top \/ num * Rates[i] < den * Rates[j + 1]})
              ELSE 1
    IN {Decision(Rates[IF num < den THEN Down ELSE Up], 0, in.mem)}

\* Faulty variant: nothing is kept in reserve.
RaahsReserve_None(cur) == (cur * MSD) \div Rates[1]

\* What RAAHS keeps buffered while it sleeps: t_min, and a segment of this rate
\* at the speed of the lowest.
RaahsReserve(cur) == 9 * Second + (cur * MSD) \div Rates[1]

\* The media fetch ratio mi is MSD / fetch; 1 + epsilon is the widest step of the
\* ladder.  Switching down, the loop looks at the lowest rate only.
Raahs(in) ==
    LET i == Index(in.cur)
        FastEnough == \A k \in 1 .. Top - 1 : MSD * Rates[k] > in.fetch * Rates[k + 1]
        TooSlow == 100 * MSD < 67 * in.fetch
        next == IF MSD > in.fetch /\ FastEnough
                THEN IF i < Top THEN Rates[i + 1] ELSE in.cur
                ELSE IF TooSlow /\ i > 2 /\ Rates[1] * in.fetch < MSD * in.cur
                     THEN Rates[1] ELSE in.cur
        ts == Average(in.log) - RaahsReserve(in.cur)
    IN {Decision(next, Positive(ts), in.mem)}

\* sftm is x / fetch, where x is the segment duration or the remaining time rsft.
Sftm(in) ==
    LET left == in.seg * MSD - in.played - TargetDt
        floor == (3 * MSD) \div 4
        held == left < floor /\ ~in.mem.rsft
        rsft == IF held THEN floor ELSE left
        x == Min({MSD, rsft})
        f == in.fetch
        i == Index(in.cur)
        Step(k) == Rates[k + 1] - Rates[k]
        SwitchUp == /\ i < Top
                    /\ \/ \A k \in 1 .. Top - 1 : (x - f) * Rates[k] > f * Step(k)
                       \/ (x - f) * Rates[i] > 2 * f * Step(i)
        SwitchDown == /\ i > 1
                      /\ \E k \in 2 .. Top : (f - x) * Rates[k] > 2 * f * Step(k - 1)
                      /\ (f - x) * Rates[i] > f * Step(i - 1)
        carried == {j \in 1 .. i - 1 : Rates[j] * f < x * Rates[i]}
        next == IF SwitchUp THEN Rates[i + 1]
                ELSE IF SwitchDown /\ carried # {} THEN Rates[Max(carried)] ELSE in.cur
        idle == Average(in.log) - (MSD * Rates[Top]) \div Rates[1]
    IN {Decision(next, Positive(idle), [in.mem EXCEPT !.rsft = @ \/ ~held])}

\* The fuzzy controller: the buffer is slow, ok or fast (-1, 0, 1), the trend is
\* falling, steady or rising, and a rule weighs 2^(sum).  The output is a mean of
\* the weights of the rules that fire, so it lies between them (in quarters).
\* result never exceeds the highest rate, and only rates below result are taken.
FuzzyWeights(avg, diff, t) ==
    LET level == (IF avg < t THEN {-1} ELSE {})
                 \union (IF 3 * avg > 2 * t /\ avg < 4 * t THEN {0} ELSE {})
                 \union (IF avg > t \/ avg >= 4 * t THEN {1} ELSE {})
        trend == (IF diff < 0 THEN {-1} ELSE {})
                 \union (IF 3 * diff > -2 * t /\ diff < 4 * t THEN {0} ELSE {})
                 \union (IF diff > 0 \/ diff >= 4 * t THEN {1} ELSE {})
    IN {2 ^ (a + b + 2) : a \in level, b \in trend}

Fdash(in) ==
    LET t == TargetDt
        avg == Average(in.log)
        w == FuzzyWeights(avg, GetBufferDifferential(in.log), t)
        Result(weight) == Min({Rates[Top], (weight * in.est) \div 4})
        Pick(result) == Rates[Max({1} \union {k \in 1 .. Top : Rates[k] < result})]
        In60s(rate) == avg + (60 * Second * in.est) \div rate - 60 * Second
        Checked(rate) ==
            IF \/ rate > in.cur /\ In60s(rate) < t
               \/ rate < in.cur /\ In60s(rate) > t /\ In60s(in.cur) > t
            THEN in.cur ELSE rate
        Sleep(rate) == IF rate = Rates[Top]
                       THEN Positive(avg - t - (rate * MSD) \div in.est) ELSE 0
    IN {Decision(Checked(r), Sleep(Checked(r)), in.mem) :
            r \in {r \in ToSet(Rates) : /\ Pick(Result(Min(w))) <= r
                                        /\ r <= Pick(Result(Max(w)))}}

\* f_q = 2 e^x / (1 + e^x) in percent, bracketed at whole seconds x.
Sigmoid(x) ==
    LET up == <<100, 146, 176, 190, 196, 198>>
        At(n) == IF n > 5 THEN 200 ELSE up[n + 1]
    IN IF x >= 0 THEN At(x) ELSE 200 - At(-x)

\* u_k = f_q * f_t * est, f_t = MSD / (MSD - diff): the comparisons with the
\* current rate that the bracket of f_q leaves open.
Svaa(in) ==
    LET diff == GetBufferDifferential(in.log)
        avg == Average(in.log)
        off == avg - TargetDt
        low == Sigmoid(off \div Second)
        high == Sigmoid(-((-off) \div Second))
        den == MSD - diff
        U(f) == f * MSD * in.est
        Here == 100 * den * in.cur
        MayExceed == den = 0 \/ (den > 0 /\ U(high) >= Here)
        MayFallShort == den < 0 \/ (den > 0 /\ U(low) <= Here)
        m_k == IF 5 * diff >= 2 * MSD THEN 1
               ELSE IF 5 * diff >= MSD THEN 5
               ELSE IF diff >= 0 THEN 15 ELSE 20
        m == (m_k + in.mem.k1 + in.mem.k2) \div 3
        M(c) == [in.mem EXCEPT !.k1 = m_k, !.k2 = in.mem.k1, !.count = c]
        c == in.mem.count
    IN IF 2 * avg < TargetDt
       THEN {Decision(HighestWithin(in.est), 0, M(c))}
       ELSE {d \in {IF c + 1 > m THEN Decision(HighestWithin(in.est), 0, M(0))
                    ELSE Decision(in.cur, 0, M(c + 1))} : MayExceed}
            \union {d \in {Decision(in.cur, 0, M(0))} : MayFallShort}

BufferInc(log) ==
    \A i \in DOMAIN log : log[i].val >= (IF i = 1 THEN 0 ELSE log[i - 1].val)

Aaash(in) ==
    LET b_min == 10 * Second
        b_low == 20 * Second
        b_high == 50 * Second
        b_opt == 35 * Second
        b_t == Last(in.log).val
        i == Index(in.cur)
        up == IF i < Top THEN Rates[i + 1] ELSE in.cur
        down == IF i > 1 THEN Rates[i - 1] ELSE in.cur
        fast == /\ in.mem.fast /\ i < Top /\ BufferInc(in.log)
                /\ 100 * in.cur <= 75 * in.est
        share == IF b_t < b_min THEN 33 ELSE IF b_t < b_low THEN 50 ELSE 75
        AtRate == in.cur = Rates[Top] \/ 100 * up >= 90 * in.est
        D(rate, wait) == {Decision(rate, wait, [in.mem EXCEPT !.fast = fast])}
    IN IF fast
       THEN D(IF 100 * up <= share * in.est THEN up ELSE in.cur,
              IF b_t > b_high THEN b_high - MSD ELSE 0)
       ELSE IF b_t < b_min THEN D(Rates[1], 0)
       ELSE IF b_t < b_low THEN D(IF in.cur >= in.est THEN down ELSE in.cur, 0)
       ELSE IF AtRate THEN D(in.cur, Max({b_t - MSD, b_opt}))
       ELSE D(IF b_t < b_high THEN in.cur ELSE up, 0)

CalcNextSegment(in) ==
    CASE algo = "OSMP" -> Osmp(in)
      [] algo = "RAAHS" -> Raahs(in)
      [] algo = "SFTM" -> Sftm(in)
      [] algo = "FDASH" -> Fdash(in)
      [] algo = "SVAA" -> Svaa(in)
      [] algo = "AAASH" -> Aaash(in)

-----------------------------------------------------------------------------
Init ==
    /\ algo \in Algorithms
    /\ net \in Throughputs
    /\ changes = 0 /\ now = StartAt /\ phase = "waiting" /\ dueAt = StartAt
    /\ segId = 0 /\ bitRate = Rates[1] /\ delay = 0 /\ fetch = 0
    /\ bitrates = <<>> /\ levels = <<>>
    /\ playFrom = 0 /\ origin = 0
    /\ mem = [fast |-> TRUE, rsft |-> FALSE, count |-> 0, k1 |-> 0, k2 |-> 0]

\* The network changes its mind between two segments.
NetworkChanges ==
    /\ phase = "waiting" /\ changes < MaxChanges[algo] /\ segId < MaxSegments[algo]
    /\ changes' = changes + 1
    /\ net' \in Throughputs \ {net}
    /\ UNCHANGED <<algo, now, phase, dueAt, segId, bitRate, delay, fetch, bitrates,
                   levels, playFrom, origin, mem>>

\* The scheduled request goes out.
RequestSegment ==
    /\ phase = "waiting" /\ segId < MaxSegments[algo]
    /\ phase' = "fetching"
    /\ now' = dueAt
    /\ segId' = segId + 1
    /\ UNCHANGED <<algo, net, changes, dueAt, bitRate, delay, fetch, bitrates, levels,
                   playFrom, origin, mem>>

\* The last frame of the segment is in: AddBitRate, LogBufferLevel,
\* CalcNextSegment, and the next request at once or after the delay.
SegmentReceived ==
    LET took == (bitRate * MSD + net - 1) \div net
        done == now + took
        media == segId * MSD
        from == IF segId = 1 THEN now + 1 + Second ELSE playFrom
        orig == OriginAfter(segId - 1, IF segId = 1 THEN from ELSE origin, now, done)
        rates == Recent(Append(bitrates, [at |-> done, val |-> (bitRate * MSD) \div took]), done)
        log == Recent(Append(levels, [at |-> done,
                                      val |-> GetRealPlayTime(media, done, from, orig)]), done)
        in == [cur |-> bitRate, fetch |-> took, est |-> Average(rates), log |-> log,
               seg |-> segId, played |-> FramesPlayed(media, done, from, orig), mem |-> mem]
    IN /\ phase = "fetching"
       /\ phase' = "waiting"
       /\ now' = done /\ fetch' = took
       /\ playFrom' = from /\ origin' = orig
       /\ bitrates' = rates /\ levels' = log
       /\ \E d \in CalcNextSegment(in) :
             /\ bitRate' = d.rate
             /\ delay' = d.delay
             /\ dueAt' = done + d.delay
             /\ mem' = d.mem
       /\ UNCHANGED <<algo, net, changes, segId>>

Next == NetworkChanges \/ RequestSegment \/ SegmentReceived

Spec == Init /\ [][Next]_vars

-----------------------------------------------------------------------------
Sample == [at : Nat, val : Int]

\* Every rate asked for is one the server knows, and no average is taken of an
\* empty window (RaahsClient and the others divide by its size).
TypeOK ==
    /\ algo \in Algorithms /\ net \in Throughputs /\ changes \in 0 .. MaxChanges[algo]
    /\ phase \in {"waiting", "fetching"} /\ now \in Nat /\ dueAt \in Nat
    /\ segId \in 0 .. MaxSegments[algo]
    /\ bitRate \in ToSet(Rates)
    /\ delay \in Nat /\ fetch \in Nat /\ playFrom \in Nat /\ origin \in Int
    /\ bitrates \in Seq(Sample) /\ levels \in Seq(Sample)
    /\ segId > (IF phase = "fetching" THEN 1 ELSE 0) => bitrates # <<>> /\ levels # <<>>
    /\ mem \in [fast : BOOLEAN, rsft : BOOLEAN, count : Nat, k1 : Nat, k2 : Nat]

\* The player has not run out of media when a request that was put off goes out.
OutlastsTheDelay ==
    phase = "waiting" /\ delay > 0 /\ dueAt >= playFrom =>
        GetRealPlayTime(segId * MSD, dueAt, playFrom, origin) >= 0

\* A client that puts its next request off (dash-client.cc:785) still has media to
\* play when the request goes out, although the algorithms reckon the delay from
\* the average level of the window, which may be far above the level now.
SleepsOnBufferedMedia == algo # "AAASH" => OutlastsTheDelay

\* The same of AAASH.  A comment of the player (mpeg-player.cc:348-353) has the
\* delayed request sent as soon as the buffer falls below the delay.
AaashAsksInTime == algo = "AAASH" => OutlastsTheDelay

\* No algorithm but OSMP steps up to a rate the network has not carried within the
\* window, whatever the thresholds and factors between the steps of the ladder; only
\* FDASH does, and only after it had more media buffered than it aims at.
NeverRaisesBlindly ==
    [][algo # "OSMP" /\ bitRate' > bitRate =>
          \/ \E i \in DOMAIN bitrates' : bitrates'[i].val >= bitRate'
          \/ algo = "FDASH" /\ \E i \in DOMAIN levels' : levels'[i].val > TargetDt]_vars

\* OSMP speaks of "the delivery time of the last fragment" (osmp-client.cc:52): from
\* the second segment on, what it takes for it is the fetch time of the segment.
DeliveryTimeIsMeasured ==
    algo = "OSMP" /\ phase = "waiting" /\ segId > 1 => LastFragment(levels) = fetch

\* RAAHS below its switch down factor (raahs-client.cc:77, 82) asks for a lower
\* rate, unless it is at the lowest already.
SwitchesDown ==
    [][algo = "RAAHS" /\ phase = "fetching" /\ 100 * MSD < 67 * fetch' /\ bitRate # Rates[1]
       /\ phase' = "waiting" => bitRate' < bitRate]_vars
=============================================================================
