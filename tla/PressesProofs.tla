---------------------------- MODULE PressesProofs ----------------------------
(***************************************************************************)
(* What the interaction tracker makes of a headset's presses, for every     *)
(* set of ways of using it and every number of presses: its credits never   *)
(* outnumber the presses, and with one button in use every press is         *)
(* counted once.                                                            *)
(***************************************************************************)
EXTENDS Presses, SequenceTheorems, TLAPS

(* A tracker that has seen a report, its level in range. *)
Trackers == [established : {TRUE}, volume : 0..15, up : BOOLEAN, down : BOOLEAN,
             upCredits : Nat, downCredits : Nat, age : 0..CreditSamples]

(* The other direction; the steps of direction d, its credits, and its bit  *)
(* in the last report.                                                      *)
Other(d) == IF d = 1 THEN -1 ELSE 1
Along(d, x) == IF d = 1 THEN x ELSE 0 - x
Credits(t, d) == IF d = 1 THEN t.upCredits ELSE t.downCredits
Seen(t, d) == IF d = 1 THEN t.up ELSE t.down
-----------------------------------------------------------------------------
(* Sample, part by part. *)

LEMMA NoCreditsIs ==
  ASSUME NEW t \in Trackers
  PROVE  /\ NoCredits(t) \in Trackers
         /\ NoCredits(t).upCredits = 0 /\ NoCredits(t).downCredits = 0
         /\ NoCredits(t).age = 0
<1>1. NoCredits(t) = [[[t EXCEPT !.upCredits = 0] EXCEPT !.downCredits = 0] EXCEPT !.age = 0]
  BY DEF NoCredits
<1>2. ASSUME NEW n \in Trackers
      PROVE  /\ [n EXCEPT !.upCredits = 0] \in Trackers
             /\ [n EXCEPT !.downCredits = 0] \in Trackers
             /\ [n EXCEPT !.age = 0] \in Trackers
  <2>1. 0 \in Nat /\ 0 \in 0..CreditSamples
    BY DEF CreditSamples
  <2>2. [n EXCEPT !.upCredits = 0] \in Trackers
    BY <2>1 DEF Trackers
  <2>3. [n EXCEPT !.downCredits = 0] \in Trackers
    BY <2>1 DEF Trackers
  <2>4. [n EXCEPT !.age = 0] \in Trackers
    BY <2>1 DEF Trackers
  <2> QED BY <2>2, <2>3, <2>4
<1>3. [[[t EXCEPT !.upCredits = 0] EXCEPT !.downCredits = 0] EXCEPT !.age = 0] \in Trackers
  BY <1>2
<1> QED BY <1>1, <1>3 DEF Trackers

(* What is left of tracker t with the report that is being sampled.         *)
Kept(t, v) == IF Restored(t.volume, v) \/ Crossed(t.volume, v) THEN NoCredits(t) ELSE Aged(t)

LEMMA AgedIs ==
  ASSUME NEW t \in Trackers
  PROVE  /\ Aged(t) \in Trackers
         /\ \/ /\ Aged(t).upCredits = t.upCredits /\ Aged(t).downCredits = t.downCredits
               /\ Aged(t).age = IF HasCredits(t) THEN t.age + 1 ELSE t.age
            \/ /\ HasCredits(t) /\ t.age = CreditSamples
               /\ Aged(t).upCredits = 0 /\ Aged(t).downCredits = 0 /\ Aged(t).age = 0
<1>1. CASE ~HasCredits(t)
  BY <1>1 DEF Aged
<1>2. CASE HasCredits(t) /\ t.age + 1 > CreditSamples
  <2>1. Aged(t) = NoCredits(t)
    BY <1>2 DEF Aged
  <2>2. t.age = CreditSamples
    BY <1>2 DEF Trackers, CreditSamples
  <2> QED BY <1>2, <2>1, <2>2, NoCreditsIs
<1>3. CASE HasCredits(t) /\ ~(t.age + 1 > CreditSamples)
  <2>1. Aged(t) = [t EXCEPT !.age = t.age + 1]
    BY <1>3 DEF Aged
  <2>2. t.age + 1 \in 0..CreditSamples
    BY <1>3 DEF Trackers, CreditSamples
  <2>3. [t EXCEPT !.age = t.age + 1] \in Trackers
    BY <2>2 DEF Trackers
  <2>4. /\ [t EXCEPT !.age = t.age + 1].upCredits = t.upCredits
        /\ [t EXCEPT !.age = t.age + 1].downCredits = t.downCredits
        /\ [t EXCEPT !.age = t.age + 1].age = t.age + 1
    BY DEF Trackers
  <2> QED BY <1>3, <2>1, <2>3, <2>4
<1> QED BY <1>1, <1>2, <1>3

LEMMA KeptIs ==
  ASSUME NEW t \in Trackers, NEW v \in 0..15
  PROVE  /\ Kept(t, v) \in Trackers
         /\ Kept(t, v).upCredits <= t.upCredits
         /\ Kept(t, v).downCredits <= t.downCredits
<1>1. t.upCredits \in Nat /\ t.downCredits \in Nat
  BY DEF Trackers
<1>2. CASE Restored(t.volume, v) \/ Crossed(t.volume, v)
  BY <1>1, <1>2, NoCreditsIs DEF Kept
<1>3. CASE ~(Restored(t.volume, v) \/ Crossed(t.volume, v))
  BY <1>1, <1>3, AgedIs DEF Kept
<1> QED BY <1>2, <1>3

LEMMA MovedIs ==
  ASSUME NEW u \in 0..15, NEW v \in 0..15
  PROVE  Moved(u, v) \in Int
BY PressesAssumption DEF Moved

(* One sample of a tracker that has seen a report: the level has moved by   *)
(* raw, of t there is still a, and the report's bits are up and down.       *)
SampledBits(t, a, raw, v, ru, rd) ==
  LET usedUp == IF raw > 0 THEN Lesser(raw, a.upCredits) ELSE 0
      usedDown == IF raw < 0 THEN Lesser(-raw, a.downCredits) ELSE 0
      rest == raw - usedUp + usedDown
      pressUp == ru /\ ~t.up
      pressDown == rd /\ ~t.down
      rest1 == IF pressUp /\ rest > 0 THEN rest - 1 ELSE rest
      creditUp == pressUp /\ rest <= 0
      rest2 == IF pressDown /\ rest1 < 0 THEN rest1 + 1 ELSE rest1
      creditDown == pressDown /\ rest1 >= 0
      up == a.upCredits - usedUp
      down == a.downCredits - usedDown
  IN [tracker |-> [established |-> TRUE, volume |-> v, up |-> ru, down |-> rd,
                   upCredits |-> up + IF creditUp THEN 1 ELSE 0,
                   downCredits |-> down + IF creditDown THEN 1 ELSE 0,
                   age |-> IF creditUp \/ creditDown \/ (up = 0 /\ down = 0)
                           THEN 0 ELSE a.age],
      steps |-> (IF pressUp THEN 1 ELSE 0) - (IF pressDown THEN 1 ELSE 0) + rest2]

Sampled(t, a, raw, v, b) == SampledBits(t, a, raw, v, 1 \in b, -1 \in b)

LEMMA SampleIs ==
  ASSUME NEW t \in Trackers, NEW v \in 0..15, NEW b
  PROVE  Sample(t, Report(v, b)) = Sampled(t, Kept(t, v), Moved(t.volume, v), v, b)
<1> DEFINE r == [volume |-> v, up |-> 1 \in b, down |-> -1 \in b]
           known == t.volume # None /\ r.volume # None
           raw == IF known THEN Moved(t.volume, r.volume) ELSE 0
           a == IF known /\ (Restored(t.volume, r.volume) \/ Crossed(t.volume, r.volume))
                THEN NoCredits(t) ELSE Aged(t)
<1>1. t.established = TRUE /\ t.volume \in 0..15
  BY DEF Trackers
<1>2. r.volume = v /\ r.up = (1 \in b) /\ r.down = (-1 \in b)
  OBVIOUS
<1>3. known
  BY <1>1, <1>2, PressesAssumption
<1>4. Sample(t, r) = SampledBits(t, a, raw, r.volume, r.up, r.down)
  <2>1. Sample(t, r) = IF t.established THEN SampledBits(t, a, raw, r.volume, r.up, r.down)
                       ELSE [tracker |-> [t EXCEPT !.established = TRUE,
                                                   !.volume = r.volume,
                                                   !.up = r.up, !.down = r.down],
                             steps |-> 0]
    BY Zenon DEF Sample, SampledBits
  <2> QED BY <1>1, <2>1, Zenon
<1>5. raw = Moved(t.volume, v) /\ a = Kept(t, v)
  BY <1>2, <1>3, Zenon DEF Kept
<1>6. Report(v, b) = r
  BY Zenon DEF Report
<1> HIDE DEF r, raw, a
<1> QED BY <1>2, <1>4, <1>5, <1>6, Zenon DEF Sampled

(* The new tracker is well typed, and has a credit more for each rising bit *)
(* at most.                                                                 *)
LEMMA SampledTyped ==
  ASSUME NEW t \in Trackers, NEW a \in Trackers, NEW raw \in Int, NEW v \in 0..15,
         NEW b, NEW s, s = Sampled(t, a, raw, v, b)
  PROVE  /\ s.tracker \in Trackers /\ s.steps \in Int
         /\ s.tracker.volume = v
         /\ s.tracker.upCredits <= a.upCredits + IF (1 \in b) /\ ~t.up THEN 1 ELSE 0
         /\ s.tracker.downCredits <= a.downCredits + IF (-1 \in b) /\ ~t.down THEN 1 ELSE 0
<1> DEFINE usedUp == IF raw > 0 THEN Lesser(raw, a.upCredits) ELSE 0
           usedDown == IF raw < 0 THEN Lesser(-raw, a.downCredits) ELSE 0
           rest == raw - usedUp + usedDown
           pressUp == 1 \in b /\ ~t.up
           pressDown == -1 \in b /\ ~t.down
           rest1 == IF pressUp /\ rest > 0 THEN rest - 1 ELSE rest
           creditUp == pressUp /\ rest <= 0
           rest2 == IF pressDown /\ rest1 < 0 THEN rest1 + 1 ELSE rest1
           creditDown == pressDown /\ rest1 >= 0
           up == a.upCredits - usedUp
           down == a.downCredits - usedDown
           newUp == up + IF creditUp THEN 1 ELSE 0
           newDown == down + IF creditDown THEN 1 ELSE 0
           age == IF creditUp \/ creditDown \/ (up = 0 /\ down = 0) THEN 0 ELSE a.age
           n == [established |-> TRUE, volume |-> v, up |-> 1 \in b, down |-> -1 \in b,
                 upCredits |-> newUp, downCredits |-> newDown, age |-> age]
           steps == (IF pressUp THEN 1 ELSE 0) - (IF pressDown THEN 1 ELSE 0) + rest2
<1>1. Sampled(t, a, raw, v, b) = [tracker |-> n, steps |-> steps]
  BY Zenon DEF Sampled, SampledBits
<1>2. a.upCredits \in Nat /\ a.downCredits \in Nat /\ a.age \in 0..CreditSamples
  BY DEF Trackers
<1>3. usedUp \in 0..a.upCredits /\ usedDown \in 0..a.downCredits
  BY <1>2 DEF Lesser
<1>4. up \in 0..a.upCredits /\ down \in 0..a.downCredits /\ rest \in Int
  <2> HIDE DEF usedUp, usedDown
  <2> QED BY <1>2, <1>3
<1> HIDE DEF rest, up, down
<1>5. newUp \in Nat /\ newUp <= a.upCredits + IF pressUp THEN 1 ELSE 0
  BY <1>2, <1>4
<1>6. newDown \in Nat /\ newDown <= a.downCredits + IF pressDown THEN 1 ELSE 0
  BY <1>2, <1>4
<1>7. age \in 0..CreditSamples
  BY <1>2 DEF CreditSamples
<1>8. steps \in Int
  BY <1>4
<1> HIDE DEF newUp, newDown, age, steps
<1>9. n \in Trackers
  BY <1>5, <1>6, <1>7 DEF Trackers
<1>10. s.tracker = n /\ s.steps = steps
  BY <1>1
<1>11. /\ n.volume = v /\ n.upCredits = newUp /\ n.downCredits = newDown
  OBVIOUS
<1> HIDE DEF n
<1> QED BY <1>5, <1>6, <1>8, <1>9, <1>10, <1>11

(* In steps of direction d, where the other button is not in use: the       *)
(* credits that the level's move uses up, the rest of the move, and the     *)
(* credit of a rising bit that the move does not show.                      *)
Used(a, raw, d) == IF Along(d, raw) > 0 THEN Lesser(Along(d, raw), Credits(a, d)) ELSE 0
Rest(a, raw, d) == Along(d, raw) - Used(a, raw, d)
Earned(t, a, raw, b, d) == IF d \in b /\ ~Seen(t, d) /\ Rest(a, raw, d) <= 0 THEN 1 ELSE 0

(* A sample while the other button and its credits are out of play.         *)
OneSampled(t, a, raw, v, b, d, s) ==
  /\ t \in Trackers /\ a \in Trackers /\ raw \in Int /\ v \in 0..15
  /\ d \in {1, -1} /\ Other(d) \notin b /\ Credits(a, Other(d)) = 0
  /\ s = Sampled(t, a, raw, v, b)

(* With one button in use, the other's part of the tracker stays untouched, *)
(* and the steps are the level's moves beyond the credits and the press     *)
(* that earns a credit.                                                     *)
LEMMA SampledOne ==
  ASSUME NEW t, NEW a, NEW raw, NEW v, NEW b, NEW d, NEW s, OneSampled(t, a, raw, v, b, d, s)
  PROVE  /\ Credits(s.tracker, Other(d)) = 0
         /\ Along(d, s.steps) = Rest(a, raw, d) + Earned(t, a, raw, b, d)
         /\ Credits(s.tracker, d) =
              Credits(a, d) - Used(a, raw, d) + Earned(t, a, raw, b, d)
         /\ s.tracker.age =
              IF Earned(t, a, raw, b, d) = 1 \/ Credits(a, d) = Used(a, raw, d)
              THEN 0 ELSE a.age
<1>0. /\ t \in Trackers /\ a \in Trackers /\ raw \in Int /\ v \in 0..15
      /\ d \in {1, -1} /\ Other(d) \notin b /\ Credits(a, Other(d)) = 0
      /\ s = Sampled(t, a, raw, v, b)
  BY DEF OneSampled
<1> DEFINE usedUp == IF raw > 0 THEN Lesser(raw, a.upCredits) ELSE 0
           usedDown == IF raw < 0 THEN Lesser(-raw, a.downCredits) ELSE 0
           rest == raw - usedUp + usedDown
           pressUp == 1 \in b /\ ~t.up
           pressDown == -1 \in b /\ ~t.down
           rest1 == IF pressUp /\ rest > 0 THEN rest - 1 ELSE rest
           creditUp == pressUp /\ rest <= 0
           rest2 == IF pressDown /\ rest1 < 0 THEN rest1 + 1 ELSE rest1
           creditDown == pressDown /\ rest1 >= 0
           up == a.upCredits - usedUp
           down == a.downCredits - usedDown
           newUp == up + IF creditUp THEN 1 ELSE 0
           newDown == down + IF creditDown THEN 1 ELSE 0
           age == IF creditUp \/ creditDown \/ (up = 0 /\ down = 0) THEN 0 ELSE a.age
           steps == (IF pressUp THEN 1 ELSE 0) - (IF pressDown THEN 1 ELSE 0) + rest2
<1>1. /\ s.tracker.upCredits = newUp /\ s.tracker.downCredits = newDown
      /\ s.tracker.age = age /\ s.steps = steps
  BY <1>0 DEF Sampled, SampledBits
<1>2. a.upCredits \in Nat /\ a.downCredits \in Nat
  BY <1>0 DEF Trackers
<1>3. CASE d = 1
  <2>1. a.downCredits = 0 /\ ~pressDown /\ usedDown = 0
    BY <1>0, <1>3 DEF Credits, Other, Lesser
  <2>2. usedUp = IF Along(d, raw) > 0 THEN Lesser(Along(d, raw), Credits(a, d)) ELSE 0
    BY <1>0, <1>3 DEF Along, Credits
  <2>3. usedUp \in 0..a.upCredits
    BY <1>0, <1>2 DEF Lesser
  <2> HIDE DEF usedUp, usedDown
  <2>4. rest = Along(d, raw) - usedUp /\ rest \in Int
    BY <1>0, <1>2, <1>3, <2>1, <2>3 DEF Along
  <2> HIDE DEF rest
  <2>5. pressUp <=> d \in b /\ ~Seen(t, d)
    BY <1>0, <1>3 DEF Seen
  <2>6. rest2 = rest1
    BY <1>0, <2>1
  <2>7. steps = rest + IF creditUp THEN 1 ELSE 0
    <3>1. CASE pressUp
      BY <1>0, <2>1, <2>4, <2>6, <3>1
    <3>2. CASE ~pressUp
      BY <1>0, <2>1, <2>4, <2>6, <3>2
    <3> QED BY <3>1, <3>2
  <2>8. ~creditDown
    BY <1>0, <2>1
  <2> HIDE DEF steps, creditUp, creditDown
  <2>9. /\ Along(d, s.steps) = rest + IF creditUp THEN 1 ELSE 0
        /\ Credits(s.tracker, Other(d)) = 0
        /\ Credits(s.tracker, d) = Credits(a, d) - usedUp + IF creditUp THEN 1 ELSE 0
        /\ s.tracker.age = IF creditUp \/ Credits(a, d) = usedUp THEN 0 ELSE a.age
    <3>1. Along(d, s.steps) = rest + IF creditUp THEN 1 ELSE 0
      BY <1>1, <1>3, <2>7 DEF Along
    <3>2. Credits(s.tracker, Other(d)) = 0
      BY <1>1, <1>2, <1>3, <2>1, <2>8 DEF Credits, Other
    <3>3. Credits(s.tracker, d) = Credits(a, d) - usedUp + IF creditUp THEN 1 ELSE 0
      BY <1>1, <1>3 DEF Credits
    <3>4. s.tracker.age = IF creditUp \/ Credits(a, d) = usedUp THEN 0 ELSE a.age
      BY <1>1, <1>2, <1>3, <2>1, <2>3, <2>8 DEF Credits
    <3> QED BY <3>1, <3>2, <3>3, <3>4
  <2>10. creditUp <=> pressUp /\ rest <= 0
    BY <1>0 DEF creditUp
  <2> HIDE DEF pressUp
  <2> QED BY <1>0, <2>10, <2>2, <2>4, <2>5, <2>9 DEF Used, Rest, Earned
<1>4. CASE d # 1
  <2>1. a.upCredits = 0 /\ ~pressUp /\ usedUp = 0
    BY <1>0, <1>4 DEF Credits, Other, Lesser
  <2>2. usedDown = IF Along(d, raw) > 0 THEN Lesser(Along(d, raw), Credits(a, d)) ELSE 0
    BY <1>0, <1>4 DEF Along, Credits
  <2>3. usedDown \in 0..a.downCredits
    BY <1>0, <1>2 DEF Lesser
  <2> HIDE DEF usedUp, usedDown
  <2>4. -rest = Along(d, raw) - usedDown /\ rest \in Int
    BY <1>0, <1>2, <1>4, <2>1, <2>3 DEF Along
  <2> HIDE DEF rest
  <2>5. pressDown <=> d \in b /\ ~Seen(t, d)
    BY <1>0, <1>4 DEF Seen
  <2>6. rest1 = rest
    BY <1>0, <2>1
  <2>7. 0 - steps = -rest + IF creditDown THEN 1 ELSE 0
    <3>1. CASE pressDown
      BY <1>0, <2>1, <2>4, <2>6, <3>1
    <3>2. CASE ~pressDown
      BY <1>0, <2>1, <2>4, <2>6, <3>2
    <3> QED BY <3>1, <3>2
  <2>8. ~creditUp
    BY <1>0, <2>1
  <2> HIDE DEF steps, creditDown, creditUp
  <2>9. /\ Along(d, s.steps) = -rest + IF creditDown THEN 1 ELSE 0
        /\ Credits(s.tracker, Other(d)) = 0
        /\ Credits(s.tracker, d) = Credits(a, d) - usedDown + IF creditDown THEN 1 ELSE 0
        /\ s.tracker.age = IF creditDown \/ Credits(a, d) = usedDown THEN 0 ELSE a.age
    <3>1. Along(d, s.steps) = -rest + IF creditDown THEN 1 ELSE 0
      BY <1>1, <1>4, <2>7 DEF Along
    <3>2. Credits(s.tracker, Other(d)) = 0
      BY <1>1, <1>2, <1>4, <2>1, <2>8 DEF Credits, Other
    <3>3. Credits(s.tracker, d) = Credits(a, d) - usedDown + IF creditDown THEN 1 ELSE 0
      BY <1>1, <1>4 DEF Credits
    <3>4. s.tracker.age = IF creditDown \/ Credits(a, d) = usedDown THEN 0 ELSE a.age
      BY <1>1, <1>2, <1>4, <2>1, <2>3, <2>8 DEF Credits
    <3> QED BY <3>1, <3>2, <3>3, <3>4
  <2>10. creditDown <=> pressDown /\ -rest <= 0
    BY <1>0, <2>4, <2>6 DEF creditDown
  <2> HIDE DEF pressDown
  <2> QED BY <1>0, <2>2, <2>4, <2>5, <2>9, <2>10 DEF Used, Rest, Earned
<1> QED BY <1>0, <1>3, <1>4
-----------------------------------------------------------------------------
(* Types: a credit is of a press, so there are no more of them than presses *)
(* whose rising bit some report has shown.                                  *)
Unseen(d) == IF d \in bits /\ ~Seen(tracker, d) THEN 1 ELSE 0

Typed ==
  /\ use \in Uses /\ level \in 0..15
  /\ bits \subseteq use.directions
  /\ coming \in Seq([by : use.directions, lag : 0..use.lag])
  /\ written \in BOOLEAN /\ news \in BOOLEAN
  /\ tracker \in Trackers
  /\ pressed \in -presses..presses /\ presses \in 0..MaxPresses /\ counted \in Int
  /\ tracker.upCredits + tracker.downCredits + Unseen(1) + Unseen(-1) <= presses

LEMMA UseType ==
  ASSUME use \in Uses
  PROVE  /\ use.directions \subseteq {1, -1} /\ use.lag \in Nat
         /\ use.missable \in BOOLEAN /\ use.restored \in BOOLEAN
BY PressesAssumption

LEMMA PollSamples ==
  ASSUME Typed, Poll
  PROVE  /\ LET s == Sampled(tracker, Kept(tracker, level), Moved(tracker.volume, level),
                             level, bits)
            IN tracker' = s.tracker /\ counted' = counted + s.steps
         /\ tracker \in Trackers /\ level \in 0..15 /\ Kept(tracker, level) \in Trackers
         /\ tracker.volume \in 0..15 /\ Moved(tracker.volume, level) \in Int
<1>1. tracker \in Trackers /\ level \in 0..15 /\ tracker.volume \in 0..15
  BY DEF Typed, Trackers
<1>2. Sample(tracker, Report(level, bits)) =
        Sampled(tracker, Kept(tracker, level), Moved(tracker.volume, level), level, bits)
  BY <1>1, SampleIs
<1> QED BY <1>1, <1>2, KeptIs, MovedIs DEF Poll

LEMMA InitTracker ==
  Init => tracker = [established |-> TRUE, volume |-> Target, up |-> FALSE, down |-> FALSE,
                     upCredits |-> 0, downCredits |-> 0, age |-> 0]
<1> SUFFICES ASSUME Init PROVE tracker = [established |-> TRUE, volume |-> Target,
                                          up |-> FALSE, down |-> FALSE, upCredits |-> 0,
                                          downCredits |-> 0, age |-> 0]
  OBVIOUS
<1>1. Report(Target, {}) = [volume |-> Target, up |-> FALSE, down |-> FALSE]
  <2>1. (1 \in {}) = FALSE /\ (-1 \in {}) = FALSE
    OBVIOUS
  <2> QED BY <2>1, Zenon DEF Report
<1>2. Sample(Reset, Report(Target, {})).tracker =
        [Reset EXCEPT !.established = TRUE, !.volume = Report(Target, {}).volume,
                      !.up = Report(Target, {}).up, !.down = Report(Target, {}).down]
  <2>1. Reset.established = FALSE
    BY DEF Reset
  <2> QED BY <2>1, Zenon DEF Sample
<1>3. tracker = [Reset EXCEPT !.established = TRUE, !.volume = Target,
                              !.up = FALSE, !.down = FALSE]
  <2>1. /\ Report(Target, {}).volume = Target
        /\ Report(Target, {}).up = FALSE /\ Report(Target, {}).down = FALSE
    BY <1>1
  <2> QED BY <1>2, <2>1, Zenon DEF Init
<1> QED BY <1>3 DEF Reset

LEMMA TypedInit == Init => Typed
<1> SUFFICES ASSUME Init PROVE Typed
  OBVIOUS
<1>1. tracker = [established |-> TRUE, volume |-> Target, up |-> FALSE, down |-> FALSE,
                 upCredits |-> 0, downCredits |-> 0, age |-> 0]
  BY InitTracker
<1>2. tracker \in Trackers
  BY <1>1, PressesAssumption DEF Trackers, CreditSamples
<1>3. Unseen(1) = 0 /\ Unseen(-1) = 0
  BY DEF Init, Unseen
<1>4. coming \in Seq([by : use.directions, lag : 0..use.lag])
  BY DEF Init
<1>5. pressed \in -presses..presses /\ presses \in 0..MaxPresses /\ counted \in Int
  BY PressesAssumption DEF Init
<1>6. tracker.upCredits + tracker.downCredits + Unseen(1) + Unseen(-1) <= presses
  BY <1>1, <1>3 DEF Init
<1>7. /\ use \in Uses /\ level \in 0..15 /\ bits \subseteq use.directions
      /\ written \in BOOLEAN /\ news \in BOOLEAN
  BY PressesAssumption DEF Init
<1> QED BY <1>2, <1>4, <1>5, <1>6, <1>7 DEF Typed

Coming == [by : use.directions, lag : 0..use.lag]

(* A report finds the level changes it does not show yet one report older.  *)
LEMMA PollAges ==
  ASSUME Typed, Poll
  PROVE  /\ coming' \in Seq(Coming) /\ Len(coming') = Len(coming)
         /\ \A i \in 1..Len(coming) : /\ coming[i] \in Coming /\ coming[i].lag < use.lag
                                      /\ coming'[i].by = coming[i].by
                                      /\ coming'[i].lag = coming[i].lag + 1
<1>1. /\ coming \in Seq(Coming) /\ Len(coming) \in Nat
      /\ DOMAIN coming = 1..Len(coming)
      /\ \A i \in 1..Len(coming) : coming[i] \in Coming
  <2>1. coming \in Seq(Coming)
    BY DEF Typed, Coming
  <2> HIDE DEF Coming
  <2> QED BY <2>1, LenProperties, ElementOfSeq
<1>2. coming' = [i \in 1..Len(coming) |-> [coming[i] EXCEPT !.lag = @ + 1]]
  BY <1>1 DEF Poll
<1>3. ASSUME NEW i \in 1..Len(coming)
      PROVE  /\ coming[i].lag < use.lag
             /\ [coming[i] EXCEPT !.lag = @ + 1] \in Coming
             /\ [coming[i] EXCEPT !.lag = @ + 1].by = coming[i].by
             /\ [coming[i] EXCEPT !.lag = @ + 1].lag = coming[i].lag + 1
  <2>1. coming[i].lag < use.lag
    BY <1>1 DEF Poll
  <2>2. coming[i] \in Coming /\ use.lag \in Nat
    BY <1>1, UseType DEF Typed
  <2>3. coming[i].lag + 1 \in 0..use.lag
    BY <2>1, <2>2 DEF Coming
  <2> QED BY <2>1, <2>2, <2>3 DEF Coming
<1>4. \A i \in 1..Len(coming) : coming'[i] = [coming[i] EXCEPT !.lag = @ + 1]
  BY <1>2
<1>5. coming' \in Seq(Coming) /\ Len(coming') = Len(coming)
  <2> DEFINE f == [i \in 1..Len(coming) |-> [coming[i] EXCEPT !.lag = @ + 1]]
  <2>1. f \in [1..Len(coming) -> Coming]
    BY <1>3
  <2> HIDE DEF f
  <2>2. f \in Seq(Coming) /\ DOMAIN f = 1..Len(coming)
    BY <1>1, <2>1, SeqDef
  <2>3. Len(f) = Len(coming)
    BY <1>1, <2>2, LenProperties
  <2> QED BY <1>2, <2>2, <2>3 DEF f
<1> QED BY <1>1, <1>3, <1>4, <1>5

(* The buttons that Press and Release move are those in use.                *)
LEMMA TypedNext == Typed /\ [Next]_vars => Typed'
<1> SUFFICES ASSUME Typed, [Next]_vars PROVE Typed'
  OBVIOUS
<1> USE DEF Typed
<1>0. /\ use.directions \subseteq {1, -1} /\ use.lag \in Nat /\ MaxPresses \in Nat
      /\ tracker.upCredits \in Nat /\ tracker.downCredits \in Nat
      /\ Unseen(1) \in {0, 1} /\ Unseen(-1) \in {0, 1}
  BY UseType, PressesAssumption DEF Trackers, Unseen
<1>1. CASE \E d \in use.directions : Press(d)
  <2> PICK d \in use.directions : Press(d)
    BY <1>1
  <2>1. d \in {1, -1} /\ use' = use
    BY <1>0 DEF Press
  <2>2. coming' \in Seq([by : use'.directions, lag : 0..use'.lag])
    <3>1. [by |-> d, lag |-> 0] \in [by : use.directions, lag : 0..use.lag]
      BY <1>0
    <3> QED BY <2>1, <3>1, AppendProperties DEF Press
  <2>3. pressed' \in -presses'..presses' /\ presses' \in 0..MaxPresses
    BY <1>0, <2>1 DEF Press
  <2>4. Unseen(1)' + Unseen(-1)' <= Unseen(1) + Unseen(-1) + 1
    BY <1>0, <2>1 DEF Press, Unseen
  <2>5. /\ use' \in Uses /\ level' \in 0..15 /\ bits' \subseteq use'.directions
        /\ written' \in BOOLEAN /\ news' \in BOOLEAN /\ counted' \in Int
        /\ tracker' = tracker
    BY DEF Press
  <2>6. Unseen(1)' \in {0, 1} /\ Unseen(-1)' \in {0, 1}
    BY DEF Unseen
  <2>7. tracker'.upCredits + tracker'.downCredits + Unseen(1)' + Unseen(-1)' <= presses'
    BY <1>0, <2>4, <2>5, <2>6 DEF Press
  <2> QED BY <2>2, <2>3, <2>5, <2>7
<1>2. CASE \E d \in use.directions : Release(d)
  <2> PICK d \in use.directions : Release(d)
    BY <1>2
  <2>1. Unseen(1)' <= Unseen(1) /\ Unseen(-1)' <= Unseen(-1)
    BY DEF Release, Unseen
  <2>2. Unseen(1)' \in {0, 1} /\ Unseen(-1)' \in {0, 1}
    BY DEF Unseen
  <2>3. tracker'.upCredits + tracker'.downCredits + Unseen(1)' + Unseen(-1)' <= presses'
    BY <1>0, <2>1, <2>2 DEF Release
  <2> QED BY <2>3 DEF Release
<1>3. CASE LevelMoves
  <2>1. coming' \in Seq([by : use.directions, lag : 0..use.lag])
    BY <1>3, HeadTailProperties DEF LevelMoves
  <2>2. Unseen(1)' = Unseen(1) /\ Unseen(-1)' = Unseen(-1)
    BY <1>3 DEF LevelMoves, Unseen
  <2> QED BY <1>3, <2>1, <2>2 DEF LevelMoves
<1>4. CASE Poll
  <2> DEFINE a == Kept(tracker, level)
             s == Sampled(tracker, a, Moved(tracker.volume, level),
                          level, bits)
  <2>1. /\ tracker' = s.tracker /\ counted' = counted + s.steps
        /\ a \in Trackers /\ Moved(tracker.volume, level) \in Int
        /\ tracker \in Trackers /\ level \in 0..15
    BY <1>4, PollSamples
  <2>2. /\ a.upCredits <= tracker.upCredits /\ a.downCredits <= tracker.downCredits
        /\ a.upCredits \in Nat /\ a.downCredits \in Nat
    BY <2>1, KeptIs DEF Trackers
  <2> HIDE DEF a
  <2>3. /\ s.tracker \in Trackers /\ s.steps \in Int
        /\ s.tracker.up <=> 1 \in bits
        /\ s.tracker.down <=> -1 \in bits
        /\ s.tracker.upCredits <= a.upCredits + IF (1 \in bits) /\ ~tracker.up THEN 1 ELSE 0
        /\ s.tracker.downCredits <=
             a.downCredits + IF (-1 \in bits) /\ ~tracker.down THEN 1 ELSE 0
    <3> HIDE DEF Typed
    <3>1. s.tracker \in Trackers
      BY <2>1, SampledTyped
    <3>2. s.steps \in Int
      BY <2>1, SampledTyped
    <3>3. s.tracker.up = (1 \in bits)
      BY Zenon DEF Sampled, SampledBits
    <3>4. s.tracker.down = (-1 \in bits)
      BY Zenon DEF Sampled, SampledBits
    <3>5. s.tracker.upCredits <= a.upCredits + IF (1 \in bits) /\ ~tracker.up THEN 1 ELSE 0
      BY <2>1, SampledTyped
    <3>6. s.tracker.downCredits <=
            a.downCredits + IF (-1 \in bits) /\ ~tracker.down THEN 1 ELSE 0
      BY <2>1, SampledTyped
    <3> QED BY <3>1, <3>2, <3>3, <3>4, <3>5, <3>6
  <2> HIDE DEF s
  <2>4. /\ s.tracker.upCredits <= a.upCredits + Unseen(1)
        /\ s.tracker.downCredits <= a.downCredits + Unseen(-1)
    BY <2>3 DEF Unseen, Seen
  <2>5. bits' = bits /\ presses' = presses
    BY <1>4 DEF Poll
  <2>6. Unseen(1)' = 0 /\ Unseen(-1)' = 0
    BY <2>1, <2>3, <2>5 DEF Unseen, Seen
  <2>7. tracker'.upCredits + tracker'.downCredits + Unseen(1)' + Unseen(-1)' <= presses'
    <3>1. s.tracker.upCredits \in Nat /\ s.tracker.downCredits \in Nat
      BY <2>3 DEF Trackers
    <3>2. s.tracker.upCredits + s.tracker.downCredits <= presses
      <4>1. s.tracker.upCredits <= tracker.upCredits + Unseen(1)
        BY <1>0, <2>2, <2>4, <3>1
      <4>2. s.tracker.downCredits <= tracker.downCredits + Unseen(-1)
        BY <1>0, <2>2, <2>4, <3>1
      <4>3. tracker.upCredits + tracker.downCredits + Unseen(1) + Unseen(-1) <= presses
        OBVIOUS
      <4>4. presses \in Nat
        BY <1>0
      <4> HIDE DEF Typed
      <4> QED BY <1>0, <3>1, <4>1, <4>2, <4>3, <4>4
    <3> QED BY <2>1, <2>5, <2>6, <3>1, <3>2
  <2>8. coming' \in Seq([by : use.directions, lag : 0..use.lag])
    BY <1>4, PollAges DEF Coming
  <2>9. /\ use' = use /\ level' \in 0..15 /\ bits' \subseteq use'.directions
         /\ written' \in BOOLEAN /\ news' \in BOOLEAN /\ counted' \in Int
         /\ pressed' = pressed
    <3>1. counted' \in Int
      BY <2>1, <2>3
    <3>2. written' \in BOOLEAN
      BY <1>4, Zenon DEF Poll
    <3> QED BY <1>4, <3>1, <3>2 DEF Poll
  <2> QED BY <2>1, <2>3, <2>5, <2>7, <2>8, <2>9
<1>5. CASE Restore
  <2>1. Unseen(1)' = Unseen(1) /\ Unseen(-1)' = Unseen(-1)
    BY <1>5 DEF Restore, Unseen
  <2> QED BY <1>5, <2>1, PressesAssumption DEF Restore
<1>6. CASE UNCHANGED vars
  <2>1. Unseen(1)' = Unseen(1) /\ Unseen(-1)' = Unseen(-1)
    BY <1>6 DEF vars, Unseen
  <2> QED BY <1>6, <2>1 DEF vars
<1> QED BY <1>1, <1>2, <1>3, <1>4, <1>5, <1>6 DEF Next

(* TypeOK holds of every use: no tracker has more credits than there were   *)
(* presses, and each goes with the fifth report it has not been used up in. *)
THEOREM PressesTypeCorrect == Spec => []TypeOK
<1>1. Typed => TypeOK
  <2> SUFFICES ASSUME Typed PROVE TypeOK
    OBVIOUS
  <2>1. /\ tracker.upCredits \in 0..MaxPresses /\ tracker.downCredits \in 0..MaxPresses
        /\ pressed \in -MaxPresses..MaxPresses
    BY PressesAssumption DEF Typed, Trackers, Unseen
  <2>2. tracker \in [established : BOOLEAN, volume : 0..15 \cup {None},
                     up : BOOLEAN, down : BOOLEAN,
                     upCredits : 0..MaxPresses, downCredits : 0..MaxPresses,
                     age : 0..CreditSamples]
    BY <2>1 DEF Typed, Trackers
  <2> QED BY <2>1, <2>2 DEF Typed, TypeOK
<1> QED BY <1>1, TypedInit, TypedNext, PTL DEF Spec
-----------------------------------------------------------------------------
(* One button in use, that of direction d.  All counts are in steps of that *)
(* direction: the presses that have moved the level away from the target,   *)
(* those of them in the last report, the presses, the steps counted, and    *)
(* the credits.                                                             *)
Landed(d) == Along(d, level - Target)
Reported(d) == Along(d, tracker.volume - Target)
Pressed(d) == Along(d, pressed)
Counted(d) == Along(d, counted)
Owed(d) == Credits(tracker, d)
Fresh(d) == d \in bits /\ ~Seen(tracker, d)

LEMMA CountsType ==
  ASSUME Typed, NEW d \in {1, -1}
  PROVE  /\ Landed(d) \in Int /\ Reported(d) \in Int /\ Pressed(d) \in Int
         /\ Counted(d) \in Int /\ Owed(d) \in Nat /\ tracker.age \in 0..CreditSamples
         /\ tracker.volume \in 0..15 /\ level \in 0..15 /\ Target \in 0..15
<1>1. /\ level \in 0..15 /\ tracker.volume \in 0..15 /\ Target \in 0..15
      /\ pressed \in Int /\ counted \in Int
      /\ tracker.upCredits \in Nat /\ tracker.downCredits \in Nat
      /\ tracker.age \in 0..CreditSamples
  BY PressesAssumption DEF Typed, Trackers
<1> QED BY <1>1 DEF Landed, Reported, Pressed, Counted, Owed, Along, Credits

(* The presses still to come, oldest first. *)
LEMMA ComingType ==
  ASSUME Typed, NEW d \in {1, -1}, Only(d)
  PROVE  /\ coming \in Seq(Coming) /\ Len(coming) \in Nat
         /\ \A i \in 1..Len(coming) : coming[i].by = d /\ coming[i].lag \in 0..use.lag
         /\ bits \subseteq {d}
<1>1. coming \in Seq(Coming)
  BY DEF Typed, Coming
<1>2. /\ Len(coming) \in Nat
      /\ \A i \in 1..Len(coming) : coming[i] \in Coming
  <2> HIDE DEF Coming
  <2> QED BY <1>1, LenProperties, ElementOfSeq
<1> QED BY <1>1, <1>2 DEF Coming, Only, Typed

(* What a report does to the counts: the level's move, less the credits it  *)
(* uses up, and a step for a rising bit that the move does not show.        *)
LEMMA PollOne ==
  ASSUME Typed, NEW d \in {1, -1}, Only(d), Poll, Owed(Other(d)) = 0
  PROVE  LET a == Kept(tracker, level)
             raw == Moved(tracker.volume, level)
             earned == Earned(tracker, a, raw, bits, d)
         IN /\ Owed(Other(d))' = 0
            /\ Counted(d)' = Counted(d) + Rest(a, raw, d) + earned
            /\ Owed(d)' = Credits(a, d) - Used(a, raw, d) + earned
            /\ tracker'.age = IF earned = 1 \/ Credits(a, d) = Used(a, raw, d) THEN 0 ELSE a.age
            /\ ~Fresh(d)' /\ tracker'.volume = level
            /\ Pressed(d)' = Pressed(d) /\ Landed(d)' = Landed(d) /\ Reported(d)' = Landed(d)
<1> DEFINE a == Kept(tracker, level)
           raw == Moved(tracker.volume, level)
           s == Sampled(tracker, a, raw, level, bits)
<1>1. /\ tracker' = s.tracker /\ counted' = counted + s.steps
      /\ tracker \in Trackers /\ level \in 0..15 /\ a \in Trackers /\ raw \in Int
  BY PollSamples
<1>2. s.tracker.volume = level /\ s.steps \in Int
  <2> HIDE DEF a, raw
  <2> QED BY <1>1, SampledTyped
<1>3. /\ s.tracker.up = (1 \in bits)
      /\ s.tracker.down = (-1 \in bits)
  BY Zenon DEF Sampled, SampledBits
<1>4. a.upCredits <= tracker.upCredits /\ a.downCredits <= tracker.downCredits
  BY <1>1, KeptIs
<1>5. Other(d) \notin bits /\ Credits(a, Other(d)) = 0
  BY <1>1, <1>4, ComingType DEF Other, Owed, Credits, Trackers
<1> HIDE DEF a, raw, s
<1>6. /\ Credits(s.tracker, Other(d)) = 0
      /\ Along(d, s.steps) = Rest(a, raw, d) + Earned(tracker, a, raw, bits, d)
      /\ Credits(s.tracker, d) =
           Credits(a, d) - Used(a, raw, d) + Earned(tracker, a, raw, bits, d)
      /\ s.tracker.age =
           IF Earned(tracker, a, raw, bits, d) = 1 \/ Credits(a, d) = Used(a, raw, d)
           THEN 0 ELSE a.age
  <2>1. OneSampled(tracker, a, raw, level, bits, d, s)
    BY <1>1, <1>5 DEF OneSampled, s
  <2> QED BY <2>1, SampledOne
<1>7. Counted(d)' = Counted(d) + Along(d, s.steps)
  BY <1>1, <1>2 DEF Counted, Along, Typed
<1>8. /\ bits' = bits /\ level' = level /\ pressed' = pressed
  BY DEF Poll
<1>9. ~Fresh(d)'
  BY <1>1, <1>3, <1>8 DEF Fresh, Seen
<1>10. /\ Pressed(d)' = Pressed(d) /\ Landed(d)' = Landed(d) /\ Reported(d)' = Landed(d)
       /\ Owed(Other(d))' = Credits(s.tracker, Other(d))
       /\ Owed(d)' = Credits(s.tracker, d)
  BY <1>1, <1>2, <1>8 DEF Pressed, Landed, Reported, Owed
<1>11. Counted(d) \in Int /\ Rest(a, raw, d) \in Int /\ Earned(tracker, a, raw, bits, d) \in Int
  BY <1>1, CountsType DEF Rest, Used, Earned, Along, Credits, Lesser, Trackers
<1> QED BY <1>1, <1>2, <1>6, <1>7, <1>9, <1>10, <1>11 DEF a, raw
-----------------------------------------------------------------------------
(* Without restorations: the steps counted are those whose level was        *)
(* reported and those that are owed, and a credit is given up only after    *)
(* its press's level change has come (CreditSamples reports at the latest). *)
FirstOwed(d) == Counted(d) - Landed(d)

OneWay(d) ==
  /\ ~written
  /\ Owed(Other(d)) = 0
  /\ 0 <= Reported(d) /\ Reported(d) <= Landed(d)
  /\ Pressed(d) = Landed(d) + Len(coming)
  /\ Counted(d) = Reported(d) + Owed(d)
  /\ Counted(d) <= Pressed(d)
  /\ Fresh(d) => Counted(d) < Pressed(d)
  /\ Owed(d) > 0 => /\ tracker.age < CreditSamples
                    /\ FirstOwed(d) \in 1..Len(coming) =>
                         coming[FirstOwed(d)].lag > tracker.age

(* The ways of using the headset for which that is so. *)
Counts(u) == ~u.restored /\ u.lag <= CreditSamples /\ \E d \in {1, -1} : u.directions = {d}

LEMMA AlongIs ==
  ASSUME NEW d, NEW x \in Int, NEW y \in Int
  PROVE  /\ Along(d, x) \in Int
         /\ Along(d, x + y) = Along(d, x) + Along(d, y)
         /\ Along(d, x - y) = Along(d, x) - Along(d, y)
         /\ x = y <=> Along(d, x) = Along(d, y)
BY DEF Along

LEMMA AlongZero ==
  ASSUME NEW d PROVE Along(d, 0) = 0
BY DEF Along

LEMMA AlongStep ==
  ASSUME NEW d \in {1, -1}
  PROVE  d \in Int /\ Along(d, d) = 1
<1>1. CASE d = 1
  BY <1>1 DEF Along
<1>2. CASE d # 1
  <2>1. d + 1 = 0 /\ d \in Int
    BY <1>2
  <2>2. -d = 1
    BY <2>1
  <2> QED BY <1>2, <2>1, <2>2 DEF Along
<1> QED BY <1>1, <1>2

(* Up the one way, a report always sees the level move by what has landed   *)
(* since the last one.                                                      *)
LEMMA OneWayMoves ==
  ASSUME Typed, NEW d \in {1, -1}, 0 <= Reported(d), Reported(d) <= Landed(d)
  PROVE  /\ Kept(tracker, level) = Aged(tracker)
         /\ Along(d, Moved(tracker.volume, level)) = Landed(d) - Reported(d)
         /\ Moved(tracker.volume, level) \in Int
<1>1. /\ tracker.volume \in Int /\ level \in Int /\ Target \in Int
  BY CountsType
<1>2. ~Restored(tracker.volume, level) /\ ~Crossed(tracker.volume, level)
  BY <1>1 DEF Restored, Crossed, Reported, Landed, Along
<1>3. Moved(tracker.volume, level) = level - tracker.volume
  BY <1>2 DEF Moved
<1> QED BY <1>1, <1>2, <1>3 DEF Kept, Reported, Landed, Along

LEMMA OneWayPoll ==
  ASSUME Typed, NEW d \in {1, -1}, Only(d), Counts(use), OneWay(d), Poll
  PROVE  OneWay(d)'
<1> DEFINE a == Aged(tracker)
           raw == Moved(tracker.volume, level)
           used == Used(a, raw, d)
           rest == Rest(a, raw, d)
           earned == Earned(tracker, a, raw, bits, d)
<1>1. /\ Landed(d) \in Int /\ Reported(d) \in Int /\ Pressed(d) \in Int
      /\ Counted(d) \in Int /\ Owed(d) \in Nat /\ tracker.age \in 0..CreditSamples
  BY CountsType
<1>2. /\ ~written
      /\ Owed(Other(d)) = 0
      /\ 0 <= Reported(d) /\ Reported(d) <= Landed(d)
      /\ Pressed(d) = Landed(d) + Len(coming)
      /\ Counted(d) = Reported(d) + Owed(d)
      /\ Counted(d) <= Pressed(d)
      /\ Fresh(d) => Counted(d) < Pressed(d)
      /\ Owed(d) > 0 => /\ tracker.age < CreditSamples
                        /\ FirstOwed(d) \in 1..Len(coming) =>
                             coming[FirstOwed(d)].lag > tracker.age
  BY DEF OneWay
<1>3. /\ Kept(tracker, level) = a
      /\ Along(d, raw) = Landed(d) - Reported(d)
      /\ raw \in Int
  BY <1>2, OneWayMoves
<1>4. /\ Credits(a, d) = Owed(d)
      /\ Owed(d) > 0 => a.age = tracker.age + 1
  <2>1. tracker \in Trackers /\ d \in {1, -1}
    BY DEF Typed
  <2>2. HasCredits(tracker) <=> Owed(d) > 0
    BY <1>1, <1>2, <2>1 DEF HasCredits, Owed, Credits, Other, Trackers
  <2>3. ~(HasCredits(tracker) /\ tracker.age = CreditSamples)
    BY <1>1, <1>2, <2>2 DEF CreditSamples
  <2>4. /\ a.upCredits = tracker.upCredits /\ a.downCredits = tracker.downCredits
        /\ a.age = IF HasCredits(tracker) THEN tracker.age + 1 ELSE tracker.age
    BY <2>1, <2>3, AgedIs
  <2> QED BY <2>2, <2>4 DEF Owed, Credits
<1>5. /\ Owed(Other(d))' = 0
      /\ Counted(d)' = Counted(d) + rest + earned
      /\ Owed(d)' = Owed(d) - used + earned
      /\ tracker'.age = IF earned = 1 \/ Owed(d) = used THEN 0 ELSE a.age
      /\ ~Fresh(d)' /\ tracker'.volume = level
      /\ Pressed(d)' = Pressed(d) /\ Landed(d)' = Landed(d) /\ Reported(d)' = Landed(d)
  BY <1>2, <1>3, <1>4, PollOne
<1>6. /\ used = IF Landed(d) - Reported(d) <= Owed(d) THEN Landed(d) - Reported(d) ELSE Owed(d)
      /\ rest = Landed(d) - Reported(d) - used
      /\ earned = IF Fresh(d) /\ rest <= 0 THEN 1 ELSE 0
  BY <1>1, <1>2, <1>3, <1>4 DEF Used, Rest, Earned, Lesser, Fresh
<1> HIDE DEF used, rest, earned, a, raw
<1>7. used \in 0..Owed(d) /\ rest \in Nat /\ earned \in {0, 1}
  BY <1>1, <1>2, <1>6
<1>8. /\ Len(coming') = Len(coming) /\ Len(coming) \in Nat
      /\ \A i \in 1..Len(coming) : /\ coming[i].lag \in 0..CreditSamples /\ coming[i].lag < CreditSamples
                                   /\ coming'[i].lag = coming[i].lag + 1
  <2>1. /\ use.lag \in Nat /\ use.lag <= CreditSamples
    BY UseType DEF Typed, Counts
  <2>2. \A i \in 1..Len(coming) : coming[i].lag \in 0..use.lag /\ coming[i].lag < use.lag
    BY PollAges, ComingType
  <2>3. /\ Len(coming') = Len(coming) /\ Len(coming) \in Nat
        /\ \A i \in 1..Len(coming) : coming'[i].lag = coming[i].lag + 1
    BY PollAges, ComingType
  <2>4. ASSUME NEW i \in 1..Len(coming)
        PROVE  coming[i].lag \in 0..CreditSamples /\ coming[i].lag < CreditSamples
    BY <2>1, <2>2 DEF CreditSamples
  <2> QED BY <2>3, <2>4
<1>9. Counted(d)' = Reported(d)' + Owed(d)' /\ Owed(d)' \in Nat
  <2>1. /\ Owed(d) - used \in Nat /\ Owed(d)' \in Nat
        /\ rest = Landed(d) - Reported(d) - used
    BY <1>1, <1>5, <1>6, <1>7
  <2>2. Counted(d) + rest = Landed(d) + (Owed(d) - used)
    BY <1>1, <1>2, <1>7, <2>1
  <2> QED BY <1>1, <1>5, <1>7, <2>1, <2>2
<1>10. Counted(d)' <= Pressed(d)'
  BY <1>1, <1>2, <1>5, <1>6, <1>8
<1>11. ASSUME Owed(d)' > 0
       PROVE  /\ tracker'.age < CreditSamples
              /\ FirstOwed(d)' \in 1..Len(coming') => coming'[FirstOwed(d)'].lag > tracker'.age
  <2>1. FirstOwed(d)' = Counted(d)' - Landed(d)
    BY <1>5 DEF FirstOwed
  <2>2. CASE earned = 1
    BY <1>5, <1>8, <2>1, <2>2 DEF CreditSamples
  <2>3. CASE earned # 1
    <3>1. /\ used < Owed(d) /\ rest = 0 /\ Owed(d) > 0
      <4>1. earned = 0 /\ Owed(d) - used > 0
        BY <1>1, <1>5, <1>7, <1>11, <2>3
      <4>2. used = Landed(d) - Reported(d)
        BY <1>1, <1>6, <4>1
      <4> QED BY <1>1, <1>6, <1>7, <4>1, <4>2
    <3>2. FirstOwed(d)' = FirstOwed(d) /\ tracker'.age = tracker.age + 1
      BY <1>1, <1>4, <1>5, <1>6, <2>1, <2>3, <3>1 DEF FirstOwed
    <3>3. FirstOwed(d) \in 1..Len(coming)
      BY <1>1, <1>2, <1>6, <1>8, <3>1 DEF FirstOwed
    <3>4. /\ coming[FirstOwed(d)].lag > tracker.age
          /\ coming[FirstOwed(d)].lag \in 0..CreditSamples
          /\ coming[FirstOwed(d)].lag < CreditSamples
          /\ coming'[FirstOwed(d)].lag = coming[FirstOwed(d)].lag + 1
      BY <1>2, <1>8, <3>1, <3>3
    <3>5. tracker.age + 1 < CreditSamples /\ coming'[FirstOwed(d)].lag > tracker.age + 1
      BY <1>1, <3>4 DEF CreditSamples
    <3> QED BY <3>2, <3>5
  <2> QED BY <2>2, <2>3
<1>12. ~written'
  BY <1>2 DEF Poll, Counts
<1> QED BY <1>1, <1>2, <1>5, <1>8, <1>9, <1>10, <1>11, <1>12 DEF OneWay

(* What the headset's own steps do to the counts. *)
LEMMA PressOne ==
  ASSUME Typed, NEW d \in {1, -1}, Only(d), Press(d)
  PROVE  /\ Landed(d)' = Landed(d) /\ Reported(d)' = Reported(d)
         /\ Pressed(d)' = Pressed(d) + 1 /\ Counted(d)' = Counted(d)
         /\ Owed(d)' = Owed(d) /\ Owed(Other(d))' = Owed(Other(d))
         /\ Len(coming') = Len(coming) + 1
         /\ \A i \in 1..Len(coming) : coming'[i] = coming[i]
         /\ coming'[Len(coming) + 1].lag = 0
<1>1. [by |-> d, lag |-> 0] \in Coming
  BY UseType DEF Coming, Typed, Only
<1>2. /\ Len(coming') = Len(coming) + 1
      /\ \A i \in 1..Len(coming) : coming'[i] = coming[i]
      /\ coming'[Len(coming) + 1].lag = 0
  <2>1. coming' = Append(coming, [by |-> d, lag |-> 0])
    BY DEF Press
  <2>2. coming'[Len(coming) + 1] = [by |-> d, lag |-> 0]
    BY <1>1, <2>1, ComingType, AppendProperties
  <2> QED BY <1>1, <2>1, <2>2, ComingType, AppendProperties
<1>3. Pressed(d)' = Pressed(d) + 1
  <2>1. pressed \in Int /\ d \in Int /\ Along(d, d) = 1
    BY AlongStep DEF Typed
  <2>2. Along(d, pressed + d) = Along(d, pressed) + 1
    BY <2>1, AlongIs
  <2> QED BY <2>2 DEF Pressed, Press
<1> QED BY <1>2, <1>3 DEF Press, Landed, Reported, Counted, Owed

LEMMA MoveOne ==
  ASSUME Typed, NEW d \in {1, -1}, Only(d), LevelMoves
  PROVE  /\ Landed(d)' = Landed(d) + 1 /\ Reported(d)' = Reported(d)
         /\ Pressed(d)' = Pressed(d) /\ Counted(d)' = Counted(d)
         /\ Owed(d)' = Owed(d) /\ Owed(Other(d))' = Owed(Other(d))
         /\ Len(coming') = Len(coming) - 1
         /\ \A i \in 1..Len(coming') : coming'[i] = coming[i + 1]
<1>1. /\ Len(coming') = Len(coming) - 1
      /\ \A i \in 1..Len(coming') : coming'[i] = coming[i + 1]
      /\ Head(coming).by = d
  <2>1. coming # <<>> /\ coming' = Tail(coming) /\ coming \in Seq(Coming)
    BY ComingType DEF LevelMoves
  <2>2. Head(coming) \in Coming
    <3> HIDE DEF Coming
    <3> QED BY <2>1, HeadTailProperties
  <2>3. Head(coming).by = d
    BY <2>2 DEF Coming, Only
  <2> HIDE DEF Coming
  <2> QED BY <2>1, <2>3, HeadTailProperties
<1>2. Landed(d)' = Landed(d) + 1
  <2>1. level \in Int /\ Target \in Int /\ d \in Int /\ Along(d, d) = 1
    BY AlongStep, CountsType
  <2>2. level' = level + d
    BY <1>1 DEF LevelMoves
  <2>3. level' - Target = (level - Target) + d
    BY <2>1, <2>2
  <2>4. Along(d, (level - Target) + d) = Along(d, level - Target) + 1
    BY <2>1, AlongIs
  <2> QED BY <2>3, <2>4 DEF Landed
<1> QED BY <1>1, <1>2 DEF LevelMoves, Pressed, Reported, Counted, Owed

LEMMA ReleaseOne ==
  ASSUME NEW d, NEW e, Release(e)
  PROVE  /\ Landed(d)' = Landed(d) /\ Reported(d)' = Reported(d)
         /\ Pressed(d)' = Pressed(d) /\ Counted(d)' = Counted(d)
         /\ Owed(d)' = Owed(d) /\ Owed(Other(d))' = Owed(Other(d))
         /\ coming' = coming /\ (Fresh(d)' => Fresh(d))
BY DEF Release, Landed, Reported, Pressed, Counted, Owed, Fresh

Counting == Counts(use) => \A d \in {1, -1} : Only(d) => OneWay(d)

LEMMA CountingNext == Typed /\ Counting /\ [Next]_vars => Counting'
<1> SUFFICES ASSUME Typed, Counting, [Next]_vars, Counts(use)', NEW d \in {1, -1}, Only(d)'
             PROVE  OneWay(d)'
  BY DEF Counting
<1>1. use' = use
  BY DEF Next, Press, Release, LevelMoves, Poll, Restore, vars
<1>2. Counts(use) /\ Only(d)
  BY <1>1 DEF Counts, Only
<1>3. OneWay(d)
  BY <1>2 DEF Counting
<1>4. /\ Landed(d) \in Int /\ Reported(d) \in Int /\ Pressed(d) \in Int
      /\ Counted(d) \in Int /\ Owed(d) \in Nat /\ Len(coming) \in Nat
  BY <1>2, CountsType, ComingType
<1>5. CASE \E e \in use.directions : Press(e)
  <2>1. Press(d)
    BY <1>2, <1>5 DEF Only
  <2>2. /\ Landed(d)' = Landed(d) /\ Reported(d)' = Reported(d)
        /\ Pressed(d)' = Pressed(d) + 1 /\ Counted(d)' = Counted(d)
        /\ Owed(d)' = Owed(d) /\ Owed(Other(d))' = Owed(Other(d))
        /\ Len(coming') = Len(coming) + 1
        /\ \A i \in 1..Len(coming) : coming'[i] = coming[i]
    BY <1>2, <2>1, PressOne
  <2>3. FirstOwed(d)' = FirstOwed(d) /\ FirstOwed(d) \in Int /\ FirstOwed(d) <= Len(coming)
    BY <1>3, <1>4, <2>2 DEF FirstOwed, OneWay
  <2>4. written' = written /\ tracker' = tracker
    BY <2>1 DEF Press
  <2>5. ASSUME Owed(d)' > 0, FirstOwed(d)' \in 1..Len(coming')
        PROVE  coming'[FirstOwed(d)'].lag > tracker'.age
    <3>1. FirstOwed(d) \in 1..Len(coming)
      BY <1>4, <2>2, <2>3, <2>5
    <3> QED BY <1>3, <2>2, <2>3, <2>4, <2>5, <3>1 DEF OneWay
  <2> QED BY <1>3, <1>4, <2>2, <2>4, <2>5 DEF OneWay
<1>6. CASE \E e \in use.directions : Release(e)
  <2> PICK e \in use.directions : Release(e)
    BY <1>6
  <2>1. written' = written /\ tracker' = tracker
    BY DEF Release
  <2>2. FirstOwed(d)' = FirstOwed(d)
    BY ReleaseOne DEF FirstOwed
  <2> QED BY <1>3, <2>1, <2>2, ReleaseOne DEF OneWay
<1>7. CASE LevelMoves
  <2>1. /\ Landed(d)' = Landed(d) + 1 /\ Reported(d)' = Reported(d)
        /\ Pressed(d)' = Pressed(d) /\ Counted(d)' = Counted(d)
        /\ Owed(d)' = Owed(d) /\ Owed(Other(d))' = Owed(Other(d))
        /\ Len(coming') = Len(coming) - 1
        /\ \A i \in 1..Len(coming') : coming'[i] = coming[i + 1]
    BY <1>2, <1>7, MoveOne
  <2>2. FirstOwed(d)' = FirstOwed(d) - 1 /\ FirstOwed(d) \in Int
    BY <1>4, <2>1 DEF FirstOwed
  <2>3. written' = written /\ tracker' = tracker /\ (Fresh(d)' <=> Fresh(d))
    BY <1>7 DEF LevelMoves, Fresh
  <2>4. ASSUME Owed(d)' > 0, FirstOwed(d)' \in 1..Len(coming')
        PROVE  coming'[FirstOwed(d)'].lag > tracker'.age
    <3>1. FirstOwed(d) \in 1..Len(coming) /\ coming'[FirstOwed(d)'] = coming[FirstOwed(d)]
      <4>1. FirstOwed(d)' + 1 = FirstOwed(d)
        BY <2>2
      <4>2. coming'[FirstOwed(d)'] = coming[FirstOwed(d)' + 1]
        BY <2>1, <2>4
      <4> QED BY <1>4, <2>1, <2>2, <2>4, <4>1, <4>2
    <3> QED BY <1>3, <2>1, <2>3, <2>4, <3>1 DEF OneWay
  <2> QED BY <1>3, <1>4, <2>1, <2>3, <2>4 DEF OneWay
<1>8. CASE Poll
  BY <1>2, <1>3, <1>8, OneWayPoll
<1>9. CASE Restore
  BY <1>3, <1>9 DEF Restore, OneWay
<1>10. CASE UNCHANGED vars
  BY <1>3, <1>10 DEF vars, OneWay, Landed, Reported, Pressed, Counted, Owed, Fresh, FirstOwed
<1> QED BY <1>5, <1>6, <1>7, <1>8, <1>9, <1>10 DEF Next

LEMMA InitCounts ==
  ASSUME Init, NEW d \in {1, -1}
  PROVE  /\ Landed(d) = 0 /\ Reported(d) = 0 /\ Pressed(d) = 0 /\ Counted(d) = 0
         /\ Owed(d) = 0 /\ Owed(Other(d)) = 0 /\ ~Fresh(d)
         /\ coming = <<>> /\ Len(coming) = 0 /\ ~written
<1>1. tracker.volume = Target /\ tracker.upCredits = 0 /\ tracker.downCredits = 0
  BY InitTracker
<1>2. level = Target /\ Target \in Int /\ pressed = 0 /\ counted = 0
  BY PressesAssumption DEF Init
<1>3. level - Target = 0 /\ tracker.volume - Target = 0 /\ Along(d, 0) = 0
  BY <1>1, <1>2, AlongZero
<1>4. Owed(d) = 0 /\ Owed(Other(d)) = 0
  BY <1>1 DEF Owed, Credits
<1> QED BY <1>2, <1>3, <1>4 DEF Init, Landed, Reported, Pressed, Counted, Fresh

(* With one button in use and no restorations, whatever the polls miss and  *)
(* however late (up to CreditSamples reports) the levels follow the bits:   *)
(* once all is shown, the steps are the presses.                            *)
THEOREM PressesAreCounted == Spec => [](Counts(use) => PressesCounted)
<1>1. Init => Counting
  <2> SUFFICES ASSUME Init, NEW d \in {1, -1} PROVE OneWay(d)
    BY DEF Counting
  <2> QED BY InitCounts DEF OneWay
<1>2. Typed /\ Counting => (Counts(use) => PressesCounted)
  <2> SUFFICES ASSUME Typed, Counting, Counts(use), Settled PROVE counted = pressed
    BY DEF PressesCounted
  <2>1. PICK d \in {1, -1} : Only(d)
    BY DEF Counts, Only
  <2>2. OneWay(d)
    BY <2>1 DEF Counting
  <2>3. Len(coming) = 0 /\ Reported(d) = Landed(d)
    BY DEF Settled, Reported, Landed
  <2>4. Counted(d) = Pressed(d)
    BY <2>2, <2>3, CountsType DEF OneWay
  <2> QED BY <2>4 DEF Counted, Pressed, Along, Typed
<1> QED BY <1>1, <1>2, TypedInit, TypedNext, CountingNext, PTL DEF Spec
-----------------------------------------------------------------------------
(* With restorations: what the tracker has counted, with what it will still *)
(* find in the level and with the level changes to come, is within the      *)
(* presses, but for the one that has just earned its credit.  That is so    *)
(* where no two reports fall between a press and its level change.          *)
Gain(d) == IF Landed(d) > Reported(d) THEN Landed(d) - Reported(d) ELSE 0

Within(d) ==
  /\ Owed(Other(d)) = 0
  /\ 0 <= Landed(d) /\ 0 <= Reported(d)
  /\ Counted(d) + Len(coming) + Gain(d) <=
       Pressed(d) + IF Owed(d) > 0 /\ tracker.age = 0 THEN 1 ELSE 0
  /\ Counted(d) <= Pressed(d)
  /\ \A i \in 1..Len(coming) :
       coming[i].lag = 0 => Counted(d) + (Len(coming) - i + 1) <= Pressed(d)
  /\ Fresh(d) => Counted(d) < Pressed(d)

LEMMA WithinMoves ==
  ASSUME Typed, NEW d \in {1, -1}, 0 <= Reported(d), 0 <= Landed(d)
  PROVE  /\ Moved(tracker.volume, level) \in Int
         /\ \/ /\ Kept(tracker, level) = NoCredits(tracker)
               /\ Along(d, Moved(tracker.volume, level)) = 0 /\ Landed(d) = 0
            \/ /\ Kept(tracker, level) = Aged(tracker)
               /\ Along(d, Moved(tracker.volume, level)) = Landed(d) - Reported(d)
<1>1. /\ tracker.volume \in Int /\ level \in Int /\ Target \in Int
  BY CountsType
<1>2. ~Crossed(tracker.volume, level)
  BY <1>1 DEF Crossed, Reported, Landed, Along
<1>3. CASE Restored(tracker.volume, level)
  <2>1. Moved(tracker.volume, level) = 0 /\ level = Target
    BY <1>3 DEF Moved, Restored
  <2>2. Kept(tracker, level) = NoCredits(tracker)
    BY <1>3 DEF Kept
  <2>3. level - Target = 0 /\ Along(d, 0) = 0
    BY <1>1, <2>1, AlongZero
  <2> QED BY <2>1, <2>2, <2>3 DEF Landed
<1>4. CASE ~Restored(tracker.volume, level)
  <2>1. Moved(tracker.volume, level) = level - tracker.volume
    BY <1>2, <1>4 DEF Moved
  <2>2. Kept(tracker, level) = Aged(tracker)
    BY <1>2, <1>4 DEF Kept
  <2> QED BY <1>1, <2>1, <2>2 DEF Along, Landed, Reported
<1> QED BY <1>3, <1>4

LEMMA WithinPoll ==
  ASSUME Typed, NEW d \in {1, -1}, Only(d), use.lag <= 1, Within(d), Poll
  PROVE  Within(d)'
<1> DEFINE a == Kept(tracker, level)
           raw == Moved(tracker.volume, level)
           moved == Along(d, raw)
           used == Used(a, raw, d)
           rest == Rest(a, raw, d)
           earned == Earned(tracker, a, raw, bits, d)
           cr == Credits(a, d)
<1>1. /\ Landed(d) \in Int /\ Reported(d) \in Int /\ Pressed(d) \in Int
      /\ Counted(d) \in Int /\ Owed(d) \in Nat /\ tracker.age \in 0..CreditSamples
  BY CountsType
<1>2. /\ Owed(Other(d)) = 0
      /\ 0 <= Landed(d) /\ 0 <= Reported(d)
      /\ Counted(d) + Len(coming) + Gain(d) <=
           Pressed(d) + IF Owed(d) > 0 /\ tracker.age = 0 THEN 1 ELSE 0
      /\ Counted(d) <= Pressed(d)
      /\ \A i \in 1..Len(coming) :
           coming[i].lag = 0 => Counted(d) + (Len(coming) - i + 1) <= Pressed(d)
      /\ Fresh(d) => Counted(d) < Pressed(d)
  BY DEF Within
<1>3. /\ moved \in Int /\ moved <= Gain(d) /\ Gain(d) \in Nat
      /\ cr \in 0..Owed(d)
      /\ moved > 0 /\ Owed(d) > 0 /\ tracker.age = 0 => cr = Owed(d)
  <2>1. tracker \in Trackers
    BY DEF Typed
  <2>2. raw \in Int
    BY <1>2, WithinMoves
  <2>3. moved \in Int /\ Gain(d) \in Nat
    BY <1>1, <2>2 DEF Along, Gain
  <2>4. CASE a = NoCredits(tracker) /\ moved = 0 /\ Landed(d) = 0
    <3>1. cr = 0
      BY <2>1, <2>4, NoCreditsIs DEF Credits
    <3> QED BY <1>1, <2>3, <2>4, <3>1
  <2>5. CASE a = Aged(tracker) /\ moved = Landed(d) - Reported(d)
    <3>1. cr \in 0..Owed(d) /\ (tracker.age = 0 => cr = Owed(d))
      BY <1>1, <2>1, <2>5, AgedIs DEF Credits, Owed, CreditSamples
    <3> QED BY <1>1, <2>3, <2>5, <3>1 DEF Gain
  <2> QED BY <1>2, <2>4, <2>5, WithinMoves
<1>4. /\ Owed(Other(d))' = 0
      /\ Counted(d)' = Counted(d) + rest + earned
      /\ Owed(d)' = cr - used + earned
      /\ tracker'.age = IF earned = 1 \/ cr = used THEN 0 ELSE a.age
      /\ ~Fresh(d)'
      /\ Pressed(d)' = Pressed(d) /\ Landed(d)' = Landed(d) /\ Reported(d)' = Landed(d)
  BY <1>2, PollOne
<1>5. /\ used = IF moved > 0 THEN (IF moved < cr THEN moved ELSE cr) ELSE 0
      /\ rest = moved - used
      /\ earned = IF Fresh(d) /\ rest <= 0 THEN 1 ELSE 0
  BY DEF Used, Rest, Earned, Lesser, Fresh
<1> HIDE DEF a, raw, moved, used, rest, earned, cr
<1>6. /\ Len(coming') = Len(coming) /\ Len(coming) \in Nat
      /\ \A i \in 1..Len(coming) : coming[i].lag = 0 /\ coming'[i].lag = 1
  <2>1. \A i \in 1..Len(coming) : /\ coming[i].lag \in Nat /\ coming[i].lag < use.lag
                                 /\ coming'[i].lag = coming[i].lag + 1
    BY PollAges, ComingType, UseType DEF Typed
  <2>2. use.lag \in Nat
    BY UseType DEF Typed
  <2> QED BY <2>1, <2>2, PollAges, ComingType
<1>7. Counted(d) + Len(coming) <= Pressed(d)
  <2>1. CASE Len(coming) = 0
    BY <1>1, <1>2, <2>1
  <2>2. CASE Len(coming) > 0
    <3>1. 1 \in 1..Len(coming) /\ coming[1].lag = 0
      BY <1>6, <2>2
    <3>2. Counted(d) + (Len(coming) - 1 + 1) <= Pressed(d)
      BY <1>2, <3>1
    <3> QED BY <1>1, <1>6, <3>2
  <2> QED BY <1>6, <2>1, <2>2
<1>8. /\ Counted(d)' + Len(coming) <=
           Pressed(d) + IF Owed(d)' > 0 /\ tracker'.age = 0 THEN 1 ELSE 0
      /\ Counted(d)' <= Pressed(d)
  <2>1. used \in 0..cr /\ rest \in Int /\ earned \in {0, 1}
    BY <1>1, <1>3, <1>5
  <2>2. CASE rest > 0
    <3>1. moved > 0 /\ used = cr /\ earned = 0
      BY <1>1, <1>3, <1>5, <2>2
    <3>2. Counted(d)' = Counted(d) + moved - cr
      BY <1>1, <1>3, <1>4, <1>5, <3>1
    <3>3. Counted(d)' + Len(coming) <= Pressed(d)
      <4>1. CASE Owed(d) > 0 /\ tracker.age = 0
        BY <1>1, <1>2, <1>3, <1>6, <3>1, <3>2, <4>1
      <4>2. CASE ~(Owed(d) > 0 /\ tracker.age = 0)
        BY <1>1, <1>2, <1>3, <1>6, <3>1, <3>2, <4>2
      <4> QED BY <4>1, <4>2
    <3> QED BY <1>1, <1>3, <1>6, <3>2, <3>3
  <2>3. CASE rest <= 0
    <3>1. CASE Fresh(d)
      <4>1. earned = 1 /\ Owed(d)' > 0 /\ tracker'.age = 0
        BY <1>1, <1>3, <1>4, <1>5, <2>1, <2>3, <3>1
      <4> QED BY <1>1, <1>2, <1>4, <1>6, <1>7, <2>1, <2>3, <3>1, <4>1
    <3>2. CASE ~Fresh(d)
      <4>1. earned = 0
        BY <1>5, <3>2
      <4>2. Counted(d)' \in Int /\ Counted(d)' <= Counted(d)
        BY <1>1, <1>4, <2>1, <2>3, <4>1
      <4> QED BY <1>1, <1>2, <1>6, <1>7, <4>2
    <3> QED BY <3>1, <3>2
  <2> QED BY <2>1, <2>2, <2>3
<1>9. Gain(d)' = 0
  BY <1>1, <1>4 DEF Gain
<1>10. Counted(d)' \in Int
  BY <1>1, <1>3, <1>4, <1>5
<1>11. /\ 0 <= Landed(d)' /\ 0 <= Reported(d)'
  BY <1>2, <1>4
<1>12. Counted(d)' + Len(coming') + Gain(d)' <=
         Pressed(d)' + IF Owed(d)' > 0 /\ tracker'.age = 0 THEN 1 ELSE 0
  BY <1>1, <1>4, <1>6, <1>8, <1>9, <1>10
<1> QED BY <1>4, <1>6, <1>8, <1>11, <1>12 DEF Within

Bounded == use.lag <= 1 => \A d \in {1, -1} : Only(d) => Within(d)

LEMMA BoundedNext == Typed /\ Bounded /\ [Next]_vars => Bounded'
<1> SUFFICES ASSUME Typed, Bounded, [Next]_vars, use'.lag <= 1, NEW d \in {1, -1}, Only(d)'
             PROVE  Within(d)'
  BY DEF Bounded
<1>1. use' = use
  BY DEF Next, Press, Release, LevelMoves, Poll, Restore, vars
<1>2. use.lag <= 1 /\ Only(d)
  BY <1>1 DEF Only
<1>3. Within(d)
  BY <1>2 DEF Bounded
<1>4. /\ Landed(d) \in Int /\ Reported(d) \in Int /\ Pressed(d) \in Int
      /\ Counted(d) \in Int /\ Owed(d) \in Nat /\ Len(coming) \in Nat /\ Gain(d) \in Nat
  BY <1>2, CountsType, ComingType DEF Gain
<1>5. CASE \E e \in use.directions : Press(e)
  <2>1. Press(d)
    BY <1>2, <1>5 DEF Only
  <2>2. /\ Landed(d)' = Landed(d) /\ Reported(d)' = Reported(d)
        /\ Pressed(d)' = Pressed(d) + 1 /\ Counted(d)' = Counted(d)
        /\ Owed(d)' = Owed(d) /\ Owed(Other(d))' = Owed(Other(d))
        /\ Len(coming') = Len(coming) + 1
        /\ \A i \in 1..Len(coming) : coming'[i] = coming[i]
    BY <1>2, <2>1, PressOne
  <2>3. tracker' = tracker /\ Gain(d)' = Gain(d)
    BY <2>1, <2>2 DEF Press, Gain
  <2>4. ASSUME NEW i \in 1..Len(coming'), coming'[i].lag = 0
        PROVE  Counted(d)' + (Len(coming') - i + 1) <= Pressed(d)'
    <3>1. CASE i = Len(coming) + 1
      BY <1>3, <1>4, <2>2, <3>1 DEF Within
    <3>2. CASE i # Len(coming) + 1
      <4>1. i \in 1..Len(coming) /\ coming[i].lag = 0
        BY <1>4, <2>2, <2>4, <3>2
      <4>2. Counted(d) + (Len(coming) - i + 1) <= Pressed(d)
        BY <1>3, <4>1 DEF Within
      <4> QED BY <1>4, <2>2, <4>1, <4>2
    <3> QED BY <3>1, <3>2
  <2>5. Counted(d)' < Pressed(d)'
    BY <1>3, <1>4, <2>2 DEF Within
  <2>6. Counted(d)' + Len(coming') + Gain(d)' <=
          Pressed(d)' + IF Owed(d)' > 0 /\ tracker'.age = 0 THEN 1 ELSE 0
    <3>1. Counted(d) + Len(coming) + Gain(d) <=
            Pressed(d) + IF Owed(d) > 0 /\ tracker.age = 0 THEN 1 ELSE 0
      BY <1>3 DEF Within
    <3> QED BY <1>4, <2>2, <2>3, <3>1
  <2>7. Counted(d)' <= Pressed(d)'
    BY <1>4, <2>2, <2>5
  <2> QED BY <1>3, <2>2, <2>4, <2>5, <2>6, <2>7 DEF Within
<1>6. CASE \E e \in use.directions : Release(e)
  <2> PICK e \in use.directions : Release(e)
    BY <1>6
  <2>1. tracker' = tracker
    BY DEF Release
  <2>2. Gain(d)' = Gain(d)
    BY ReleaseOne DEF Gain
  <2> QED BY <1>3, <2>1, <2>2, ReleaseOne DEF Within
<1>7. CASE LevelMoves
  <2>1. /\ Landed(d)' = Landed(d) + 1 /\ Reported(d)' = Reported(d)
        /\ Pressed(d)' = Pressed(d) /\ Counted(d)' = Counted(d)
        /\ Owed(d)' = Owed(d) /\ Owed(Other(d))' = Owed(Other(d))
        /\ Len(coming') = Len(coming) - 1
        /\ \A i \in 1..Len(coming') : coming'[i] = coming[i + 1]
    BY <1>2, <1>7, MoveOne
  <2>2. tracker' = tracker /\ (Fresh(d)' <=> Fresh(d))
    BY <1>7 DEF LevelMoves, Fresh
  <2>3. Gain(d)' \in Nat /\ Gain(d)' <= Gain(d) + 1
    BY <1>4, <2>1 DEF Gain
  <2>4. ASSUME NEW i \in 1..Len(coming'), coming'[i].lag = 0
        PROVE  Counted(d)' + (Len(coming') - i + 1) <= Pressed(d)'
    <3>1. i + 1 \in 1..Len(coming) /\ coming[i + 1].lag = 0
      <4>1. coming'[i] = coming[i + 1]
        BY <2>1
      <4>2. i + 1 \in 1..Len(coming)
        BY <1>4, <2>1
      <4> QED BY <2>4, <4>1, <4>2
    <3>2. Counted(d) + (Len(coming) - (i + 1) + 1) <= Pressed(d)
      BY <1>3, <3>1 DEF Within
    <3> QED BY <1>4, <2>1, <3>1, <3>2
  <2>5. Counted(d)' + Len(coming') + Gain(d)' <=
          Pressed(d)' + IF Owed(d)' > 0 /\ tracker'.age = 0 THEN 1 ELSE 0
    <3>1. Counted(d) + Len(coming) + Gain(d) <=
            Pressed(d) + IF Owed(d) > 0 /\ tracker.age = 0 THEN 1 ELSE 0
      BY <1>3 DEF Within
    <3> QED BY <1>4, <2>1, <2>2, <2>3, <3>1
  <2>6. 0 <= Landed(d)' /\ 0 <= Reported(d)'
    BY <1>3, <1>4, <2>1 DEF Within
  <2> QED BY <1>3, <2>1, <2>2, <2>4, <2>5, <2>6 DEF Within
<1>8. CASE Poll
  BY <1>2, <1>3, <1>8, WithinPoll
<1>9. CASE Restore
  <2>1. /\ coming' = coming /\ tracker' = tracker /\ bits' = bits
        /\ level' = Target /\ pressed' = pressed /\ counted' = counted
    BY <1>9 DEF Restore
  <2>2. /\ Reported(d)' = Reported(d) /\ Pressed(d)' = Pressed(d) /\ Counted(d)' = Counted(d)
        /\ Owed(d)' = Owed(d) /\ Owed(Other(d))' = Owed(Other(d))
        /\ Fresh(d)' <=> Fresh(d)
    BY <2>1 DEF Reported, Pressed, Counted, Owed, Fresh
  <2>3. Landed(d)' = 0
    <3>1. Target - Target = 0
      BY PressesAssumption
    <3> QED BY <2>1, <3>1, AlongZero DEF Landed
  <2>4. Gain(d)' = 0
    BY <1>3, <1>4, <2>2, <2>3 DEF Gain, Within
  <2>5. Counted(d)' + Len(coming') + Gain(d)' <=
          Pressed(d)' + IF Owed(d)' > 0 /\ tracker'.age = 0 THEN 1 ELSE 0
    <3>1. Counted(d) + Len(coming) + Gain(d) <=
            Pressed(d) + IF Owed(d) > 0 /\ tracker.age = 0 THEN 1 ELSE 0
      BY <1>3 DEF Within
    <3> QED BY <1>4, <2>1, <2>2, <2>4, <3>1
  <2> QED BY <1>3, <2>1, <2>2, <2>3, <2>5 DEF Within
<1>10. CASE UNCHANGED vars
  BY <1>3, <1>10 DEF vars, Within, Landed, Reported, Pressed, Counted, Owed, Fresh, Gain
<1> QED BY <1>5, <1>6, <1>7, <1>8, <1>9, <1>10 DEF Next

(* Where levels come in time no press counts twice: not where each level    *)
(* change comes before the second report after its press, whatever is       *)
(* restored meanwhile, and not where nothing is restored and it comes       *)
(* within CreditSamples reports.                                            *)
THEOREM NoPressCountsTwice == Spec => []NoDoubleCount
<1>1. Init => Counting /\ Bounded
  <2> SUFFICES ASSUME Init, NEW d \in {1, -1} PROVE OneWay(d) /\ Within(d)
    BY DEF Counting, Bounded
  <2>1. OneWay(d)
    BY InitCounts DEF OneWay
  <2>2. Gain(d) = 0
    BY InitCounts DEF Gain
  <2>3. Within(d)
    BY <2>2, InitCounts DEF Within
  <2> QED BY <2>1, <2>3
<1>2. Typed /\ Counting /\ Bounded => NoDoubleCount
  <2> SUFFICES ASSUME Typed, Counting, Bounded, NEW d \in {1, -1}, Only(d), Timely
               PROVE  counted * d <= pressed * d
    BY DEF NoDoubleCount
  <2>0. Counts(use) \/ use.lag <= 1
    BY UseType DEF Typed, Timely, Counts, Only
  <2>1. Counted(d) <= Pressed(d)
    BY <2>0 DEF Counting, Bounded, OneWay, Within
  <2>2. counted \in Int /\ pressed \in Int
    BY DEF Typed
  <2>3. CASE d = 1
    BY <2>1, <2>2, <2>3 DEF Counted, Pressed, Along
  <2>4. CASE d # 1
    <3>1. counted * (0 - 1) = 0 - counted /\ pressed * (0 - 1) = 0 - pressed /\ d = 0 - 1
      BY <2>2, <2>4
    <3> QED BY <2>1, <2>2, <2>4, <3>1 DEF Counted, Pressed, Along
  <2> QED BY <2>3, <2>4
<1> QED BY <1>1, <1>2, TypedInit, TypedNext, CountingNext, BoundedNext, PTL DEF Spec
=============================================================================
