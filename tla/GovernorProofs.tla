--------------------------- MODULE GovernorProofs ----------------------------
(***************************************************************************)
(* The governor stays in its types and keeps its promise to drive(), for   *)
(* every number of connections, every set of rates and all thresholds.     *)
(* TypeOK is inductive: it holds the one fact the promise rests on, that   *)
(* the target is between one and the ceiling.                              *)
(***************************************************************************)
EXTENDS Governor, TLAPS

USE DEF Level

(***************************************************************************)
(* The helpers on numbers.                                                 *)
(***************************************************************************)
LEMMA LesserGreater ==
  ASSUME NEW a \in Int, NEW b \in Int
  PROVE  /\ Lesser(a, b) \in {a, b} /\ Lesser(a, b) <= a /\ Lesser(a, b) <= b
         /\ Greater(a, b) \in {a, b} /\ Greater(a, b) >= a /\ Greater(a, b) >= b
BY DEF Lesser, Greater

(***************************************************************************)
(* A decision about a level is a decision.                                 *)
(***************************************************************************)
LEMMA Decisions ==
  /\ Hold \in Decision
  /\ \A n \in Level : /\ SpawnTo(n) \in Decision /\ RetireTo(n) \in Decision
                      /\ BackOff(n) \in Decision /\ ReleaseToken(n) \in Decision
BY DEF Decision, Hold, SpawnTo, RetireTo, BackOff, ReleaseToken

(***************************************************************************)
(* The next level of a ramp or a probe is never above the ceiling.         *)
(***************************************************************************)
LEMMA NextLevelBound ==
  ASSUME TypeOK, NEW by \in Nat, NEW s \in Sample
  PROVE  NextLevel(by, s) \in Int /\ NextLevel(by, s) <= ceiling
BY GovernorAssumption, LesserGreater DEF TypeOK, NextLevel, Sample, Lesser, Greater

(***************************************************************************)
(* What every action has to show of the target, the ceiling and the answer.*)
(***************************************************************************)
Sound == /\ k' \in Level /\ ceiling' \in k' .. MaxConns
         /\ decision' \in Decision
         /\ Decide(decision')

(***************************************************************************)
(* try_grow leaves the ceiling alone and grows at most up to it.           *)
(***************************************************************************)
LEMMA TryGrowSound ==
  ASSUME TypeOK, NEW s \in Sample, TryGrow(s)
  PROVE  Sound /\ phase' \in Phase
<1> DEFINE next == NextLevel(k, s)
<1>1. k \in Level /\ ceiling \in k .. MaxConns
  BY DEF TypeOK
<1>2. next \in Int /\ next <= ceiling
  BY <1>1, NextLevelBound
<1>3. CASE s.token /\ ~s.stalled /\ next > k
  <2>1. ceiling' = ceiling /\ k' = next /\ decision' = SpawnTo(k') /\ phase' = "Ramp"
    BY <1>3 DEF TryGrow, ChangeTo
  <2>2. k' \in Level /\ ceiling' \in k' .. MaxConns
    BY <1>1, <1>2, <1>3, <2>1, GovernorAssumption
  <2> QED BY <1>1, <1>3, <2>1, <2>2, Decisions, GovernorAssumption DEF Sound, Decide, Phase
<1>4. CASE ~(s.token /\ ~s.stalled /\ next > k)
  <2>1. ceiling' = ceiling /\ k' = k /\ phase' = "Hold"
        /\ (decision' = ReleaseToken(k) \/ decision' = Hold)
    BY <1>4 DEF TryGrow
  <2> QED BY <1>1, <2>1, Decisions, GovernorAssumption DEF Sound, Decide, Phase
<1> QED BY <1>3, <1>4

(***************************************************************************)
(* The level the governor settles on.                                      *)
(***************************************************************************)
LEMMA SettleSound ==
  ASSUME TypeOK, NEW s \in Sample, NEW bps \in Rate, Settle(s, bps)
  PROVE  Sound /\ phase' \in Phase
<1> DEFINE settle == Greater(Lesser(Winner(bps), ceiling), 1)
<1>1. k \in Level /\ ceiling \in k .. MaxConns
  BY DEF TypeOK
<1>2. Winner(bps) \in Int
  BY GovernorAssumption DEF TypeOK, Winner, Measurement, Unmeasured, NoMid
<1>3. settle \in Level /\ settle <= ceiling
  BY <1>1, <1>2, LesserGreater, GovernorAssumption DEF Lesser, Greater
<1>4. /\ k' = settle /\ ceiling' = Lesser(ceiling, Greater(k - 1, settle))
      /\ decision' = ReleaseToken(k') /\ phase' = "Hold"
  BY DEF Settle, ChangeTo
<1>5. ceiling' \in settle .. ceiling
  BY <1>1, <1>3, <1>4 DEF Lesser, Greater
<1> QED BY <1>1, <1>3, <1>4, <1>5, Decisions, GovernorAssumption DEF Sound, Decide, Phase

(***************************************************************************)
(* What every action has to show of the measurements and the counters.     *)
(***************************************************************************)
Learned == /\ best' \in Measurement \cup {Unmeasured}
           /\ baseline' \in Measurement \cup {Unmeasured}
           /\ mid_candidate' \in Level \cup {NoMid}
           /\ saturation_detected' \in BOOLEAN
           /\ window' \in BOOLEAN
           /\ stalls' \in 0 .. SustainedStalls
           /\ stop_reason' \in StopReason

\* The parts of the type invariant, and of the promise, make the whole.
LEMMA SoundAndLearned ==
  ASSUME Sound, Learned, phase' \in Phase
  PROVE  TypeOK' /\ Decide(decision')
BY DEF Sound, Learned, TypeOK, Phase, StopReason, Measurement, Unmeasured, Decision

(***************************************************************************)
(* A closing window measures the current level, and counts the sample.     *)
(***************************************************************************)
LEMMA CloseLearns ==
  ASSUME TypeOK, NEW s \in Sample, NEW bps \in Rate, Close(s, bps)
  PROVE  /\ best' \in Measurement \cup {Unmeasured}
         /\ window' \in BOOLEAN
         /\ stalls' \in 0 .. SustainedStalls
         /\ Measured(bps) \in Measurement
<1>1. Measured(bps) \in Measurement
  BY DEF TypeOK, Measured, Measurement
<1>2. stalls' \in 0 .. SustainedStalls
  BY GovernorAssumption DEF Close, Measuring, CountStall, TypeOK, Lesser
<1> QED BY <1>1, <1>2 DEF Close, KeepBest, TypeOK

\* A refusal to grow gives one of the reasons there are.
LEMMA TryGrowReason ==
  ASSUME TypeOK, NEW s \in Sample, TryGrow(s)
  PROVE  stop_reason' \in StopReason
BY DEF TryGrow, TypeOK, StopReason

(***************************************************************************)
(* One step, action by action.                                             *)
(***************************************************************************)
LEMMA Step ==
  ASSUME TypeOK, Next
  PROVE  TypeOK' /\ Decide(decision')
<1>0. k \in Level /\ ceiling \in k .. MaxConns
  BY DEF TypeOK
<1>1. CASE RateLimited
  <2>1. k \div 2 <= k /\ k \div 2 \in Nat
    BY <1>0
  <2>2. Greater(k \div 2, 1) \in 1 .. k
    BY <1>0, <2>1 DEF Greater
  <2>3. Sound
    BY <1>0, <1>1, <2>2, Decisions, GovernorAssumption DEF Sound, RateLimited, ChangeTo, Decide
  <2>4. Learned /\ phase' \in Phase
    BY <1>1 DEF Learned, RateLimited, ChangeTo, TypeOK, Phase, StopReason
  <2> QED BY <2>3, <2>4, SoundAndLearned
<1>2. ASSUME NEW s \in Sample, observe(s)
      PROVE  TypeOK' /\ Decide(decision')
  <2>0. CountStall(s) => stalls' \in 0 .. SustainedStalls
    BY GovernorAssumption DEF CountStall, TypeOK, Lesser
  <2>1. CASE DiskBound(s)
    <3>1. Sound
      BY <1>0, <2>1, Decisions, GovernorAssumption DEF Sound, DiskBound, Decide
    <3>2. Learned /\ phase' \in Phase
      BY <2>0, <2>1 DEF Learned, DiskBound, learned, TypeOK, Phase, StopReason
    <3> QED BY <3>1, <3>2, SoundAndLearned
  <2>2. CASE ErrorBurst(s)
    <3>1. k > 1
      BY <2>2 DEF ErrorBurst, Bursting
    <3>2. k' = k - 1 /\ ceiling' = Lesser(ceiling, k) /\ decision' = RetireTo(k')
      BY <2>2 DEF ErrorBurst, ChangeTo
    <3>3. k - 1 \in Level /\ ceiling' \in k .. ceiling
      BY <1>0, <3>1, <3>2, GovernorAssumption DEF Lesser
    <3>4. Sound
      BY <1>0, <3>1, <3>2, <3>3, Decisions, GovernorAssumption DEF Sound, Decide
    <3>5. Learned /\ phase' \in Phase
      BY <2>0, <2>2 DEF Learned, ErrorBurst, ChangeTo, learned, TypeOK, Phase, StopReason
    <3> QED BY <3>4, <3>5, SoundAndLearned
  <2>3. CASE LeaveBackOff(s) \/ Wait(s) \/ StandPat(s)
    <3>1. k' = k /\ ceiling' = ceiling /\ decision' = Hold
      BY <2>3 DEF LeaveBackOff, Wait, StandPat
    <3>2. Sound
      BY <1>0, <3>1, Decisions, GovernorAssumption DEF Sound, Decide
    <3>3. Learned /\ phase' \in Phase
      BY <2>0, <2>3
         DEF Learned, LeaveBackOff, Wait, StandPat, Measuring, Steady, learned, TypeOK, Phase
    <3> QED BY <3>2, <3>3, SoundAndLearned
  <2>4. CASE Reprobe(s)
    <3>1. NextLevel(2, s) \in Int /\ NextLevel(2, s) <= ceiling
      BY NextLevelBound
    <3>2. k' = NextLevel(2, s) /\ k' > k /\ ceiling' = ceiling /\ decision' = SpawnTo(k')
      BY <2>4 DEF Reprobe, MayProbe, ChangeTo
    <3>3. k' \in Level /\ ceiling' \in k' .. MaxConns
      BY <1>0, <3>1, <3>2, GovernorAssumption
    <3>4. Sound
      BY <1>0, <3>2, <3>3, Decisions, GovernorAssumption DEF Sound, Decide
    <3>5. Learned /\ phase' \in Phase
      BY <2>0, <2>4 DEF Learned, Reprobe, Steady, ChangeTo, TypeOK, Phase
    <3> QED BY <3>4, <3>5, SoundAndLearned
  <2>5. ASSUME NEW bps \in Rate, Closes(s, bps)
        PROVE  TypeOK' /\ Decide(decision')
    <3>0. Close(s, bps)
      BY <2>5 DEF Closes, FirstLevel, Adopt, TryMidpoint, Settle, Disappointed, Judging
    <3>1. CASE FirstLevel(s, bps) \/ Adopt(s, bps)
      <4>1. TryGrow(s) /\ baseline' = Measured(bps)
        BY <3>1 DEF FirstLevel, Adopt
      <4>2. mid_candidate' \in Level \cup {NoMid} /\ saturation_detected' \in BOOLEAN
        BY <3>1 DEF FirstLevel, Adopt, TypeOK
      <4>3. Learned
        BY <3>0, <4>1, <4>2, CloseLearns, TryGrowReason DEF Learned
      <4> QED BY <4>1, <4>3, TryGrowSound, SoundAndLearned
    <3>2. CASE TryMidpoint(s, bps)
      <4>1. /\ baseline.at < Midpoint /\ Midpoint < k /\ k' = Midpoint
            /\ ceiling' = ceiling /\ decision' = RetireTo(k') /\ phase' = phase
            /\ mid_candidate' = Midpoint
        BY <3>2 DEF TryMidpoint, HasMidpoint, ChangeTo
      <4>2. baseline.at \in Nat
        BY GovernorAssumption DEF TypeOK, Measurement, Unmeasured
      <4>3. Midpoint \in Int
        BY <1>0, <4>2 DEF Midpoint
      <4>4. k' \in Level /\ ceiling' \in k' .. MaxConns
        BY <1>0, <4>1, <4>2, <4>3, GovernorAssumption
      <4>5. Sound
        BY <1>0, <4>1, <4>4, Decisions, GovernorAssumption DEF Sound, Decide
      <4>6. baseline' = baseline /\ saturation_detected' \in BOOLEAN
        BY <3>2, SMT DEF TryMidpoint, Disappointed, TypeOK
      <4>7. stop_reason' \in StopReason
        BY <3>2 DEF TryMidpoint, Disappointed, StopReason
      <4>8. Learned /\ phase' \in Phase
        BY <3>0, <4>1, <4>4, <4>6, <4>7, CloseLearns DEF Learned, TypeOK
      <4> QED BY <4>5, <4>8, SoundAndLearned
    <3>3. CASE Settle(s, bps)
      <4>1. baseline' = baseline /\ mid_candidate' = NoMid /\ saturation_detected' \in BOOLEAN
        BY <3>3 DEF Settle, Disappointed, TypeOK
      <4>2. stop_reason' \in StopReason
        BY <3>3 DEF Settle, Disappointed, StopReason
      <4>3. Learned
        BY <3>0, <4>1, <4>2, CloseLearns DEF Learned, TypeOK
      <4> QED BY <3>3, <4>3, SettleSound, SoundAndLearned
    <3> QED BY <2>5, <3>1, <3>2, <3>3 DEF Closes
  <2> QED BY <1>2, <2>1, <2>2, <2>3, <2>4, <2>5 DEF observe
<1> QED BY <1>1, <1>2 DEF Next

-----------------------------------------------------------------------------
(***************************************************************************)
(* The target is between one connection and the ceiling, in every state.   *)
(***************************************************************************)
THEOREM GovernorTypeCorrect == Spec => []TypeOK
<1>1. Init => TypeOK
  <2> SUFFICES ASSUME Init PROVE TypeOK
    OBVIOUS
  <2>1. k \in Level /\ ceiling \in k .. MaxConns /\ stalls \in 0 .. SustainedStalls
    BY GovernorAssumption DEF Init
  <2>2. decision \in Decision
    BY Decisions DEF Init
  <2> QED BY <2>1, <2>2 DEF Init, TypeOK, Phase, StopReason
<1>2. TypeOK /\ [Next]_vars => TypeOK'
  <2>1. TypeOK /\ Next => TypeOK'
    BY Step
  <2>2. TypeOK /\ UNCHANGED vars => TypeOK'
    BY DEF TypeOK, vars, learned, Phase, StopReason, Measurement, Unmeasured, Decision
  <2> QED BY <2>1, <2>2
<1> QED BY <1>1, <1>2, PTL DEF Spec

(***************************************************************************)
(* The ceiling never rises again and every change of the target is the one *)
(* announced: drive() may be composed with Concurrency.                    *)
(***************************************************************************)
THEOREM PromiseIsKept == Spec => KeepsPromise
<1>1. Init => Start
  BY GovernorAssumption DEF Init, Start
<1>2. TypeOK /\ [Next]_vars => [Decide(decision')]_vars
  BY Step
<1> QED BY <1>1, <1>2, GovernorTypeCorrect, PTL DEF Spec, KeepsPromise

(***************************************************************************)
(* A limit brings the ceiling down to its level: a step that limits the    *)
(* target does, and a sample that is counted but does not cap is no limit. *)
(***************************************************************************)
LEMMA LimitLowersCeiling ==
  ASSUME TypeOK, Next, NEW n \in Level, LimitedTo(n)'
  PROVE  ceiling' <= n
<1>0. k \in Level /\ ceiling \in k .. MaxConns /\ stalls \in 0 .. SustainedStalls
  BY DEF TypeOK
<1>1. CASE RateLimited
  <2>1. ceiling' = k' /\ decision' = BackOff(k')
    BY <1>1 DEF RateLimited, ChangeTo
  <2>2. k' = n
    BY <2>1 DEF LimitedTo, BackOff, RetireTo
  <2> QED BY <2>1, <2>2
<1>2. ASSUME NEW s \in Sample, observe(s) PROVE ceiling' <= n
  <2>0. ASSUME ~Capping(s), CountStall(s) PROVE stalls' # SustainedStalls
    BY <1>0, <2>0, GovernorAssumption DEF Capping, CountStall, Lesser
  <2>1. CASE DiskBound(s)
    <3>1. ceiling' = k /\ k' = k /\ decision' = Hold /\ phase' = "Hold"
      BY <2>1 DEF DiskBound
    <3> QED BY <1>0, <3>1 DEF LimitedTo, Hold, RetireTo
  <2>2. CASE ErrorBurst(s)
    <3>1. /\ stalls' # SustainedStalls /\ phase' = "Hold"
          /\ decision' = RetireTo(k - 1) /\ ceiling' = Lesser(ceiling, k)
      BY <2>0, <2>2 DEF ErrorBurst
    <3>2. n - 1 = k - 1
      BY <3>1 DEF LimitedTo, RetireTo
    <3> QED BY <1>0, <3>1, <3>2 DEF Lesser
  <2>3. CASE LeaveBackOff(s) \/ Wait(s) \/ StandPat(s) \/ Reprobe(s)
    <3>1. stalls' # SustainedStalls
      BY <2>0, <2>3 DEF LeaveBackOff, Wait, StandPat, Reprobe, Measuring, Steady, Calm
    <3>2. phase' # "BackOff" /\ (decision' = Hold \/ decision' = SpawnTo(k'))
      BY <2>3 DEF LeaveBackOff, Wait, StandPat, Reprobe, Measuring, Steady
    <3> QED BY <3>1, <3>2 DEF LimitedTo, Hold, SpawnTo, RetireTo
  <2>4. ASSUME NEW bps \in Rate, Closes(s, bps) PROVE ceiling' <= n
    <3>1. Measuring(s)
      BY <2>4 DEF Closes, FirstLevel, Adopt, TryMidpoint, Settle, Disappointed, Judging, Close
    <3>2. stalls' # SustainedStalls /\ phase \in {"Baseline", "Ramp"}
      BY <2>0, <3>1 DEF Measuring, Calm
    <3>3. CASE FirstLevel(s, bps) \/ Adopt(s, bps)
      <4>1. TryGrow(s)
        BY <3>3 DEF FirstLevel, Adopt
      <4>2. /\ phase' \in {"Ramp", "Hold"}
            /\ \E m : decision' \in {SpawnTo(m), ReleaseToken(m), Hold}
        BY <4>1 DEF TryGrow
      <4> QED BY <3>2, <4>2 DEF LimitedTo, Hold, SpawnTo, ReleaseToken, RetireTo
    <3>4. CASE TryMidpoint(s, bps)
      <4>1. phase' = phase
        BY <3>4 DEF TryMidpoint
      <4> QED BY <3>2, <4>1 DEF LimitedTo
    <3>5. CASE Settle(s, bps)
      <4>1. phase' = "Hold" /\ \E m : decision' = ReleaseToken(m)
        BY <3>5 DEF Settle
      <4> QED BY <3>2, <4>1 DEF LimitedTo, ReleaseToken, RetireTo
    <3> QED BY <2>4, <3>3, <3>4, <3>5 DEF Closes
  <2> QED BY <1>2, <2>1, <2>2, <2>3, <2>4 DEF observe
<1> QED BY <1>1, <1>2 DEF Next

(***************************************************************************)
(* The level of a rate limit, of a stall that lasted or of a burst of      *)
(* errors is never exceeded again, for every cap and every set of rates.   *)
(***************************************************************************)
THEOREM NothingClimbsBack == Spec => LimitsAreFinal
<1> SUFFICES ASSUME NEW n \in Level
             PROVE  Spec => [](LimitedTo(n) => [](k <= n))
  BY DEF LimitsAreFinal
<1> DEFINE Capped == LimitedTo(n) => ceiling <= n
           Low == ceiling <= n
<1>1. Init => Capped
  BY GovernorAssumption DEF Init, LimitedTo, Hold, RetireTo
<1>2. TypeOK /\ Capped /\ [Next]_vars => Capped'
  <2>1. TypeOK /\ Next => Capped'
    BY LimitLowersCeiling
  <2>2. Capped /\ UNCHANGED vars => Capped'
    BY DEF vars, learned, LimitedTo
  <2> QED BY <2>1, <2>2
<1>3. TypeOK /\ Low /\ [Next]_vars => Low'
  <2>1. ASSUME TypeOK, Low, Next PROVE Low'
    <3>1. ceiling' \in 1 .. ceiling /\ ceiling \in Int
      BY <2>1, Step DEF Decide, TypeOK
    <3> QED BY <2>1, <3>1
  <2>2. Low /\ UNCHANGED vars => Low'
    BY DEF vars
  <2> QED BY <2>1, <2>2
<1>4. TypeOK /\ Low => k <= n
  BY DEF TypeOK
<1>5. LimitedTo(n) /\ Capped => Low
  OBVIOUS
<1> HIDE DEF Capped, Low
<1> QED BY <1>1, <1>2, <1>3, <1>4, <1>5, GovernorTypeCorrect, PTL DEF Spec
==============================================================================
