-------------------------- MODULE OfflineEvaluation --------------------------
(***************************************************************************)
(* The offline decision that makes a package FEASIBLE: a threshold is      *)
(* calibrated on one split, the golden cases of the package are chosen     *)
(* from it, the anomalous decisions of the holdout are merged into         *)
(* episodes, and the episodes are matched with the documented failures.    *)
(*                                                                         *)
(* Times are strides' fractions counted from 1; a score is a small number. *)
(* The merge loop of build_episodes is a step per anomalous decision.      *)
(***************************************************************************)
EXTENDS Integers, Sequences, FiniteSets, FiniteSetsExt, SequencesExt

CONSTANTS
  MaxTime,         \* last time a decision may have
  MaxScore,        \* scores are 0..MaxScore
  MaxCalibration,  \* bound: calibration decisions
  QuantilePercent, \* threshold_quantile, in percent
  AnomalyInclusive,\* anomaly_inclusive of the contract
  Stride,          \* stride_seconds
  Horizon,         \* event_horizon_seconds
  MaxEvents,       \* bound: events
  MinDetected,     \* min_detected_events
  MaxFalse,        \* max_false_episodes_per_day, the day being Day
  Day,
  MaxAlertPercent  \* max_time_in_alert, in percent

Times == 1..MaxTime
Scores == 0..MaxScore

VARIABLES
  stage,        \* "calibrate", "choose", "merge", "evaluate", "done", "rejected"
  calibration,  \* scores of the calibration split, in window order
  threshold,
  golden,       \* positions of the three golden cases
  holdout,      \* time -> score, of the holdout decisions
  events,       \* the documented failures: sequence of [from, to)
  left,         \* anomalous decisions not merged yet
  open,         \* the episode being merged: {} or one
  episodes,     \* the episodes merged
  result        \* {} or the result of evaluate

vars == <<stage, calibration, threshold, golden, holdout, events, left, open,
          episodes, result>>

Calibrations == UNION {[1..n -> Scores] : n \in 1..MaxCalibration}
Intervals == {i \in [from : Times, to : 2..(MaxTime + 1)] : i.from < i.to}
EventLists == UNION {[1..n -> Intervals] : n \in 1..MaxEvents}
Holdouts == UNION {[S -> Scores] : S \in SUBSET Times \ {{}}}

Init ==
  /\ stage = "calibrate"
  /\ calibration \in Calibrations
  /\ threshold = 0 /\ golden = << >> /\ holdout = << >> /\ events = << >>
  /\ left = {} /\ open = {} /\ episodes = << >> /\ result = {}

(* Mutant: the quantile's lower neighbour is taken. *)
calibrate_threshold_Lower(values) ==
  LET sorted == SortSeq(values, <)
  IN  sorted[1 + (QuantilePercent * (Len(values) - 1)) \div 100]

(* np.quantile(values, q, method="higher"): the smallest score at or above  *)
(* position q * (n - 1) of the sorted scores.                               *)
calibrate_threshold(values) ==
  LET sorted == SortSeq(values, <)
  IN  sorted[1 + (QuantilePercent * (Len(values) - 1) + 99) \div 100]

First(S) == Min(S)

(* The earliest window, a highest normal one (or the middle one) and the    *)
(* earliest anomalous one (or a highest one).                               *)
select_golden_cases(values, limit) ==
  LET rows == DOMAIN values
      normal == {i \in rows : values[i] < limit}
      anomalous == {i \in rows : values[i] >= limit}
      Top(S) == {i \in S : \A j \in S : values[j] <= values[i]}
  IN  << First(rows),
         IF normal # {} THEN First(Top(normal)) ELSE 1 + Len(values) \div 2,
         IF anomalous # {} THEN First(anomalous) ELSE First(Top(rows)) >>

Calibrate ==
  /\ stage = "calibrate" /\ stage' = "choose"
  /\ threshold' = calibrate_threshold(calibration)
  /\ golden' = select_golden_cases(calibration, threshold')
  /\ UNCHANGED <<calibration, holdout, events, left, open, episodes, result>>

-----------------------------------------------------------------------------
Ends == DOMAIN holdout

(* _anomalies: the contract says whether a score at the threshold is one. *)
_anomalies(scores) ==
  {t \in DOMAIN scores : IF AnomalyInclusive THEN scores[t] >= threshold
                                            ELSE scores[t] > threshold}

Anomalies == _anomalies(holdout)

(* The locked threshold meets some holdout; the calibration is over. *)
Holdout ==
  /\ stage = "choose" /\ stage' = "merge"
  /\ holdout' \in Holdouts /\ events' \in EventLists
  /\ left' = _anomalies(holdout')
  /\ calibration' = << >> /\ golden' = << >>
  /\ UNCHANGED <<threshold, open, episodes, result>>

Episode(first, last, count) == [first |-> first, last |-> last, count |-> count]

(* The loop of build_episodes. *)
Merge ==
  /\ stage = "merge" /\ left # {}
  /\ LET current == Min(left)
     IN  /\ left' = left \ {current}
         /\ IF \E e \in open : current - e.last <= Stride
            THEN /\ open' = {Episode(e.first, current, e.count + 1) : e \in open}
                 /\ episodes' = episodes
            ELSE /\ open' = {Episode(current, current, 1)}
                 /\ episodes' = episodes \o SetToSeq(open)
  /\ UNCHANGED <<stage, calibration, threshold, golden, holdout, events, result>>

Merged ==
  /\ stage = "merge" /\ left = {} /\ stage' = "evaluate"
  /\ episodes' = episodes \o SetToSeq(open) /\ open' = {}
  /\ UNCHANGED <<calibration, threshold, golden, holdout, events, left, result>>

-----------------------------------------------------------------------------
InHorizon(t, event) == event.from - Horizon <= t /\ t < event.to

(* Mutant: only an episode that begins in the horizon matches. *)
_episode_matches_event_Start(episode, event) == InHorizon(episode.first, event)

(* The episode begins in the horizon or overlaps the failure. *)
_episode_matches_event(episode, event) ==
  \/ InHorizon(episode.first, event)
  \/ episode.first < event.to /\ episode.last + Stride > event.from

Matching(event) ==
  {i \in DOMAIN episodes : _episode_matches_event(episodes[i], event)}

(* evaluate refuses an event without a decision in its horizon, and a       *)
(* holdout without normal exposure.                                         *)
Evaluable ==
  LET positive == {t \in Ends : \E i \in DOMAIN events : InHorizon(t, events[i])}
  IN  /\ \A i \in DOMAIN events : \E t \in Ends : InHorizon(t, events[i])
      /\ positive # Ends

Normal ==
  {t \in Ends : \A i \in DOMAIN events : ~InHorizon(t, events[i])}
FalseEpisodes ==
  {i \in DOMAIN episodes : \A j \in DOMAIN events :
     ~_episode_matches_event(episodes[i], events[j])}
Detected == {j \in DOMAIN events : Matching(events[j]) # {}}
FirstDetection(j) == Min({episodes[i].first : i \in Matching(events[j])})

evaluate ==
  /\ stage = "evaluate"
  /\ IF ~Evaluable
     THEN stage' = "rejected" /\ result' = result
     ELSE /\ stage' = "done"
          /\ result' = {[detected |-> Detected,
               lead |-> [j \in Detected |-> events[j].from - FirstDetection(j)],
               false |-> FalseEpisodes,
               feasible |->
                 /\ Cardinality(Detected) >= MinDetected
                 /\ Cardinality(FalseEpisodes) * Day
                      <= MaxFalse * Cardinality(Normal) * Stride
                 /\ Cardinality(Anomalies) * 100
                      <= MaxAlertPercent * Cardinality(Ends)]}
  /\ UNCHANGED <<calibration, threshold, golden, holdout, events, left, open,
                 episodes>>

Next == Calibrate \/ Holdout \/ Merge \/ Merged \/ evaluate

Spec == Init /\ [][Next]_vars

-----------------------------------------------------------------------------
Above == {i \in DOMAIN calibration : calibration[i] > threshold}

(* The threshold is a score of the calibration split, at most the share of  *)
(* scores the quantile leaves lies above it, and the next lower score would *)
(* leave more (calibrate_threshold).                                        *)
ThresholdIsQuantile ==
  stage = "choose" =>
    LET n == Len(calibration)
        AtLeast == {i \in DOMAIN calibration : calibration[i] >= threshold}
    IN  /\ \E i \in DOMAIN calibration : calibration[i] = threshold
        /\ Cardinality(Above) * 100 <= (100 - QuantilePercent) * (n - 1)
        /\ (Cardinality(AtLeast) - 1) * 100 >= (100 - QuantilePercent) * (n - 1)
             - 99

(* The golden cases of a package lie on both sides of its own threshold:    *)
(* one is always anomalous, and one is normal unless no calibration score   *)
(* is (calibrate_threshold, select_golden_cases).                           *)
GoldenSpansThreshold ==
  stage = "choose" =>
    /\ \A i \in 1..3 : golden[i] \in DOMAIN calibration
    /\ calibration[golden[3]] >= threshold
    /\ (\E i \in DOMAIN calibration : calibration[i] < threshold)
         => calibration[golden[2]] < threshold

(* The episodes are the maximal groups of anomalous decisions no two        *)
(* neighbours of which are more than a stride apart, in order, and their    *)
(* counts are the groups' sizes (build_episodes).                           *)
EpisodesAreGroups ==
  stage \in {"evaluate", "done", "rejected"} =>
    LET Of(e) == {t \in Anomalies : e.first <= t /\ t <= e.last}
    IN  /\ UNION {Of(episodes[i]) : i \in DOMAIN episodes} = Anomalies
        /\ \A i \in DOMAIN episodes :
             /\ {episodes[i].first, episodes[i].last} \subseteq Anomalies
             /\ Cardinality(Of(episodes[i])) = episodes[i].count
             /\ \A t \in Of(episodes[i]) \ {episodes[i].last} :
                  \E u \in Of(episodes[i]) : t < u /\ u - t <= Stride
             /\ i < Len(episodes) =>
                  episodes[i + 1].first - episodes[i].last > Stride

(* An anomalous decision during a documented failure always counts for it:  *)
(* the event is detected, no later than that decision, and the decision is  *)
(* of no false episode (evaluate, _episode_matches_event).                  *)
FailuresAreDetected ==
  \A r \in result : \A j \in DOMAIN events : \A t \in Anomalies :
    events[j].from <= t /\ t < events[j].to =>
      /\ j \in r.detected
      /\ r.lead[j] >= events[j].from - t
      /\ \A i \in r.false : t \notin episodes[i].first..episodes[i].last

(* An event goes undetected with an anomalous decision in its horizon only  *)
(* if that decision continues an episode begun before the horizon           *)
(* (_episode_matches_event looks at where an episode began).                *)
MissedOnlyByContinuation ==
  \A r \in result : \A j \in DOMAIN events \ r.detected : \A t \in Anomalies :
    InHorizon(t, events[j]) =>
      \E i \in DOMAIN episodes :
        /\ episodes[i].first < events[j].from - Horizon
        /\ t \in episodes[i].first..episodes[i].last

(* A lead time beyond the horizon is earned: the episode lasted without a   *)
(* gap until the failure began (evaluate's first_detection).                *)
LongLeadIsContinuous ==
  \A r \in result : \A j \in r.detected :
    r.lead[j] > Horizon =>
      \E i \in DOMAIN episodes :
        /\ episodes[i].first = events[j].from - r.lead[j]
        /\ episodes[i].last + Stride > events[j].from

(* A package's threshold and golden cases describe its calibration split,  *)
(* ties and short splits included (calibrate_threshold,                    *)
(* select_golden_cases).                                                   *)
ThresholdDescribesSplit == ThresholdIsQuantile /\ GoldenSpansThreshold

(* The verdict counts what happened: episodes are the groups of anomalies, *)
(* and a failure is detected, or missed, for the reason the code gives     *)
(* (build_episodes, evaluate).                                             *)
EvaluationIsExact ==
  EpisodesAreGroups /\ FailuresAreDetected /\ MissedOnlyByContinuation /\ LongLeadIsContinuous
=============================================================================
