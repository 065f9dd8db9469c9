------------------------------ MODULE Governor -------------------------------
(***************************************************************************)
(* Adaptive concurrency (swiftload-core/src/task/governor.rs): a state     *)
(* machine that is fed one sample per tick of drive() and answers with a   *)
(* decision.  Time and bytes are abstracted to what observe() tells apart: *)
(* a measurement window warms up, is open, or closes with a rate; the      *)
(* pause between two probes has passed or not.  Work is counted in minimum *)
(* segments.  Each action is one path through observe().                   *)
(***************************************************************************)
EXTENDS Integers

CONSTANTS
  MaxConns,          \* GovernorConfig::max_conns
  StartConns,        \* the k0 of initial_conns
  Rate,              \* the rates a window can close with
  GainPercent,       \* gain_threshold
  SaturationPercent, \* saturation_ratio
  SustainedStalls    \* samples with backpressure in a row that cap the ceiling

ASSUME GovernorAssumption ==
  /\ MaxConns \in Nat \ {0} /\ StartConns \in 1 .. MaxConns
  /\ Rate \subseteq Nat
  /\ GainPercent \in Nat /\ SaturationPercent \in Nat
  /\ SustainedStalls \in Nat \ {0}

VARIABLES
  phase,
  k, ceiling,
  best,          \* the best level measured so far, with its rate
  baseline,      \* the level the current one is compared with
  window,        \* is a measurement window open?
  mid_candidate,
  stalls,        \* consecutive_backpressure
  stop_reason, saturation_detected,
  decision       \* the answer to the last sample

INSTANCE Concurrency WITH target <- k, limit <- ceiling

learned == <<best, baseline, mid_candidate, saturation_detected>>
vars == <<phase, k, ceiling, learned, window, stalls, stop_reason, decision>>

Phase == {"Baseline", "Ramp", "Hold", "BackOff"}
StopReason == {"StillRamping", "Saturated", "ServerPenalised", "RateLimited",
               "DiskBound", "NotEnoughWork", "ReachedCeiling"}
Measurement == [at : Level, bps : Rate]
Unmeasured == [at |-> 0, bps |-> 0]
NoMid == 0

Lesser(a, b) == IF a < b THEN a ELSE b
Greater(a, b) == IF a > b THEN a ELSE b

Init ==
  /\ phase = "Baseline" /\ k = StartConns /\ ceiling = MaxConns
  /\ best = Unmeasured /\ baseline = Unmeasured
  /\ window = FALSE /\ mid_candidate = NoMid /\ stalls = 0
  /\ stop_reason = "StillRamping" /\ saturation_detected = FALSE
  /\ decision = Hold

-----------------------------------------------------------------------------
(***************************************************************************)
(* A sample: is the writer's channel full, how many errors came since the  *)
(* last one (two are a burst), is the probe token ours, how many segments  *)
(* are left.                                                               *)
(***************************************************************************)
Sample == [stalled : BOOLEAN, errors : 0 .. 2, token : BOOLEAN, work : 0 .. Greater(MaxConns, 4)]

Capping(s) == s.stalled /\ stalls + 1 >= SustainedStalls
Bursting(s) == s.errors >= 2 /\ k > 1
Calm(s) == ~Capping(s) /\ ~Bursting(s)

CountStall(s) ==
  stalls' = IF s.stalled THEN Lesser(stalls + 1, SustainedStalls) ELSE 0

ChangeTo(n) == k' = n /\ window' = FALSE

\* Mutant: the limit is obeyed once and not remembered.
MRateLimited ==
  LET half == Greater(k \div 2, 1) IN
  /\ ChangeTo(half) /\ ceiling' = ceiling
  /\ saturation_detected' = TRUE /\ stop_reason' = "RateLimited"
  /\ phase' = "BackOff" /\ decision' = BackOff(half)
  /\ UNCHANGED <<best, baseline, mid_candidate, stalls>>

RateLimited ==
  LET half == Greater(k \div 2, 1) IN
  /\ ChangeTo(half) /\ ceiling' = half
  /\ saturation_detected' = TRUE /\ stop_reason' = "RateLimited"
  /\ phase' = "BackOff" /\ decision' = BackOff(half)
  /\ UNCHANGED <<best, baseline, mid_candidate, stalls>>

\* Mutant: growth stops, but only until the next probe.
MDiskBound(s) ==
  /\ Capping(s) /\ CountStall(s)
  /\ ceiling' = ceiling /\ stop_reason' = "DiskBound"
  /\ phase' = "Hold" /\ decision' = Hold
  /\ UNCHANGED <<k, learned, window>>

DiskBound(s) ==
  /\ Capping(s) /\ CountStall(s)
  /\ ceiling' = k /\ stop_reason' = "DiskBound"
  /\ phase' = "Hold" /\ decision' = Hold
  /\ UNCHANGED <<k, learned, window>>

ErrorBurst(s) ==
  /\ ~Capping(s) /\ Bursting(s) /\ CountStall(s)
  /\ ChangeTo(k - 1) /\ ceiling' = Lesser(ceiling, k)
  /\ phase' = "Hold" /\ decision' = RetireTo(k - 1)
  /\ UNCHANGED <<learned, stop_reason>>

LeaveBackOff(s) ==
  /\ phase = "BackOff" /\ Calm(s) /\ CountStall(s)
  /\ phase' = "Hold" /\ decision' = Hold
  /\ UNCHANGED <<k, ceiling, learned, window, stop_reason>>

-----------------------------------------------------------------------------
(* measure, in the phases Baseline and Ramp.                               *)

Measuring(s) == phase \in {"Baseline", "Ramp"} /\ Calm(s) /\ CountStall(s)

\* The sample falls into the warm-up, opens the window, or is not enough yet.
Wait(s) ==
  /\ Measuring(s) /\ decision' = Hold
  /\ window' \in {window, TRUE}
  /\ UNCHANGED <<phase, k, ceiling, learned, stop_reason>>

\* Mutant: the ceiling learned so far is forgotten.
MNextLevel(by, s) == Lesser(k + by, Lesser(MaxConns, Greater(s.work, 1)))

NextLevel(by, s) == Lesser(k + by, Lesser(Lesser(ceiling, MaxConns), Greater(s.work, 1)))

\* try_grow: to the next level unless the token, the disk, the ceiling or the
\* remaining work forbid it.
TryGrow(s) ==
  LET next == NextLevel(k, s) IN
  /\ ceiling' = ceiling
  /\ IF s.token /\ ~s.stalled /\ next > k
     THEN /\ ChangeTo(next) /\ phase' = "Ramp" /\ decision' = SpawnTo(next)
          /\ UNCHANGED stop_reason
     ELSE /\ phase' = "Hold" /\ UNCHANGED k
          /\ decision' = IF s.token THEN ReleaseToken(k) ELSE Hold
          /\ stop_reason' = IF ~s.token THEN stop_reason
                            ELSE IF s.stalled THEN "DiskBound"
                            ELSE IF Greater(s.work, 1) <= k THEN "NotEnoughWork"
                            ELSE "ReachedCeiling"

Measured(bps) == [at |-> k, bps |-> bps]

KeepBest(bps) ==
  best' = IF best = Unmeasured \/ bps > best.bps THEN Measured(bps) ELSE best

\* The window closes: every path through here clears it.
Close(s, bps) == Measuring(s) /\ window /\ window' = FALSE /\ KeepBest(bps)

\* The baseline itself, or a ramp that has nothing to compare with.
FirstLevel(s, bps) ==
  /\ Close(s, bps)
  /\ phase = "Baseline" \/ baseline = Unmeasured
  /\ baseline' = Measured(bps)
  /\ TryGrow(s)
  /\ UNCHANGED <<mid_candidate, saturation_detected>>

\* judge, once there is a baseline.
Judging(s, bps) == Close(s, bps) /\ phase = "Ramp" /\ baseline # Unmeasured

Paid(bps) == baseline.bps = 0 \/ 100 * bps >= (100 + GainPercent) * baseline.bps
Resharing(bps) == 100 * bps * baseline.at <= SaturationPercent * baseline.bps * k
Penalised(bps) == 100 * bps < 95 * baseline.bps

Adopt(s, bps) ==
  /\ Judging(s, bps) /\ Paid(bps)
  /\ baseline' = Measured(bps) /\ mid_candidate' = NoMid
  /\ TryGrow(s)
  /\ UNCHANGED saturation_detected

Disappointed(s, bps) ==
  /\ Judging(s, bps) /\ ~Paid(bps)
  /\ saturation_detected' = (saturation_detected \/ Resharing(bps))
  /\ stop_reason' = IF Resharing(bps) /\ Penalised(bps) THEN "ServerPenalised" ELSE "Saturated"
  /\ UNCHANGED baseline

Midpoint == (baseline.at + k) \div 2
HasMidpoint == baseline.at < Midpoint /\ Midpoint < k

TryMidpoint(s, bps) ==
  /\ Disappointed(s, bps)
  /\ mid_candidate = NoMid /\ HasMidpoint
  /\ mid_candidate' = Midpoint
  /\ ChangeTo(Midpoint) /\ decision' = RetireTo(Midpoint)
  /\ UNCHANGED <<phase, ceiling>>

Winner(bps) ==
  IF mid_candidate # NoMid /\ bps > baseline.bps THEN mid_candidate ELSE baseline.at

\* Mutant: the ceiling stays where the level that did not pay was reached.
MSettle(s, bps) ==
  LET settle == Greater(Lesser(Winner(bps), ceiling), 1) IN
  /\ Disappointed(s, bps)
  /\ mid_candidate # NoMid \/ ~HasMidpoint
  /\ mid_candidate' = NoMid
  /\ ChangeTo(settle) /\ ceiling' = ceiling
  /\ phase' = "Hold" /\ decision' = ReleaseToken(settle)

\* The midpoint was the last attempt, or there is none: keep the better level.
Settle(s, bps) ==
  LET settle == Greater(Lesser(Winner(bps), ceiling), 1) IN
  /\ Disappointed(s, bps)
  /\ mid_candidate # NoMid \/ ~HasMidpoint
  /\ mid_candidate' = NoMid
  /\ ChangeTo(settle) /\ ceiling' = Lesser(ceiling, Greater(k - 1, settle))
  /\ phase' = "Hold" /\ decision' = ReleaseToken(settle)

-----------------------------------------------------------------------------
(* maybe_reprobe, in the phase Hold.                                       *)

Steady(s) == phase = "Hold" /\ Calm(s) /\ CountStall(s)

MayProbe(s) ==
  /\ ~saturation_detected /\ stop_reason # "RateLimited"
  /\ s.token /\ s.errors = 0
  /\ s.work >= 4
  /\ NextLevel(2, s) > k

\* The pause since the last probe is over.
Reprobe(s) ==
  /\ Steady(s) /\ MayProbe(s)
  /\ baseline' = best
  /\ ChangeTo(NextLevel(2, s)) /\ phase' = "Ramp" /\ decision' = SpawnTo(k')
  /\ UNCHANGED <<ceiling, best, mid_candidate, saturation_detected, stop_reason>>

StandPat(s) ==
  /\ Steady(s) /\ decision' = Hold
  /\ UNCHANGED <<phase, k, ceiling, learned, window, stop_reason>>

-----------------------------------------------------------------------------
Closes(s, bps) ==
  FirstLevel(s, bps) \/ Adopt(s, bps) \/ TryMidpoint(s, bps) \/ Settle(s, bps)

observe(s) ==
  \/ DiskBound(s) \/ ErrorBurst(s) \/ LeaveBackOff(s)
  \/ Wait(s) \/ Reprobe(s) \/ StandPat(s)
  \/ \E bps \in Rate : Closes(s, bps)

Next == RateLimited \/ \E s \in Sample : observe(s)

Spec == Init /\ [][Next]_vars

-----------------------------------------------------------------------------
(* What makes the governor correct.                                        *)

TypeOK ==
  /\ phase \in Phase
  /\ k \in Level /\ ceiling \in k .. MaxConns
  /\ best \in Measurement \cup {Unmeasured}
  /\ baseline \in Measurement \cup {Unmeasured}
  /\ window \in BOOLEAN
  /\ mid_candidate \in Level \cup {NoMid}
  /\ stalls \in 0 .. SustainedStalls
  /\ stop_reason \in StopReason /\ saturation_detected \in BOOLEAN
  /\ decision \in Decision

(***************************************************************************)
(* The governor keeps its promise to drive(): the target stays between one *)
(* connection and the ceiling, the ceiling never rises again after a rate  *)
(* limit, a full disk, an error burst or a level that did not pay, and     *)
(* every change of the target is the one announced (governor.rs: "the      *)
(* ceiling must come down and stay down").                                 *)
(***************************************************************************)
KeepsPromise == Start /\ [][Decide(decision')]_vars

(***************************************************************************)
(* The target settles: whatever the rates, it stops changing, unless error *)
(* bursts keep coming (governor.rs: "settles_rather_than_oscillating").    *)
(***************************************************************************)
Settles ==
  \/ []<><<\E s \in Sample : ErrorBurst(s)>>_vars
  \/ <>[][k' = k]_vars

\* n is the level that a rate limit left, that a stall lasted at, or that errors
\* burst at; a retreat to a midpoint stays in the phase Ramp.
LimitedTo(n) ==
  \/ phase = "BackOff" /\ k = n
  \/ stalls = SustainedStalls /\ k = n
  \/ phase = "Hold" /\ decision = RetireTo(n - 1)

(***************************************************************************)
(* What has limited the target once limits it for ever: whatever probes,   *)
(* ramps, midpoints and further limits come later, it never rises above the*)
(* level of a rate limit, of a stall that lasted or of a burst of errors   *)
(* (governor.rs: "it must never climb back on its own", "disk-bound must   *)
(* cap the ceiling").  A first stall is not enough: the probe of a settled *)
(* download does not look at it, and what that adds is kept until the stall*)
(* has lasted.                                                             *)
(***************************************************************************)
LimitsAreFinal == \A n \in Level : [](LimitedTo(n) => [](k <= n))
=============================================================================
