--------------------------- MODULE FeatureBuilder ---------------------------
(***************************************************************************)
(* The online feature builder of a replay session (online_features.py) and *)
(* the offline windows it must reproduce (phase1b_features.py).  Times are *)
(* positive integers; a bin is right-closed and named by its end.  A       *)
(* telemetry event is a record [seq, ts, v]: its message id is derived     *)
(* from the session and the sequence, and its payload hash from all three. *)
(* The feature values and the coverage are functions of the samples of a   *)
(* window, bin by bin, so a window is the bins it is computed from.        *)
(***************************************************************************)
EXTENDS Integers, Sequences, FiniteSets

CONSTANTS Stride,     \* stride_seconds, the width of a bin
          Lookback,   \* lookback_bins, the bins of a window
          MinObs      \* min_bin_observations

ASSUME BuilderAssumption ==
  Stride \in Nat \ {0} /\ Lookback \in Nat \ {0} /\ MinObs \in Nat \ {0}

NoBin == 0

_compute_bin_end(ts) ==
  IF ts % Stride = 0 THEN ts ELSE ts + Stride - (ts % Stride)

_extract_sample(e) == [ts |-> e.ts, v |-> e.v]

(* last is empty until an event is accepted. *)
new_builder ==
  [last |-> <<>>, bin |-> NoBin, samples |-> <<>>, buffer |-> <<>>,
   complete |-> FALSE]

_reset_segment(b) == [b EXCEPT !.bin = NoBin, !.samples = <<>>, !.buffer = <<>>]

_emit_window(buffer) ==
  [end  |-> buffer[Len(buffer)].end,
   bins |-> [i \in DOMAIN buffer |-> buffer[i].samples]]

_trimmed(buffer) == IF Len(buffer) > Lookback THEN Tail(buffer) ELSE buffer

(* The buffer once the current bin, which is full, has joined it. *)
_extended(b) ==
  LET follows == b.buffer = <<>> \/ b.bin - b.buffer[Len(b.buffer)].end = Stride
      kept    == IF follows THEN b.buffer ELSE <<>>
  IN  _trimmed(Append(kept, [end |-> b.bin, samples |-> b.samples]))

_bin_is_full(b) == Len(b.samples) >= MinObs

(* Closes the current bin and emits the window that ends with it, if the   *)
(* bins before it are full too.                                            *)
_finalize_current_bin(b) ==
  LET full == _bin_is_full(b)
      next == IF full THEN _extended(b) ELSE <<>>
  IN  IF b.bin = NoBin THEN [b |-> b, out |-> <<>>]
      ELSE [b   |-> [b EXCEPT !.buffer = next, !.samples = <<>>],
            out |-> IF full /\ Len(next) = Lookback THEN <<_emit_window(next)>> ELSE <<>>]

_is_duplicate(b, e) == b.last /= <<>> /\ e.seq = b.last[1].seq

(* Mutant: a sequence gap goes unnoticed. *)
_ordering_ignores_gap(b, e) ==
  LET last == b.last[1]
  IN  IF b.last = <<>> \/ e = last THEN "none"
      ELSE IF e.seq = last.seq THEN "conflicting_duplicate"
      ELSE IF e.ts < last.ts THEN "timestamp_regression"
      ELSE "none"

(* Why the segment closes before the bin of e is looked at. *)
_check_sequence_and_ordering(b, e) ==
  LET last == b.last[1]
  IN  IF b.last = <<>> \/ e = last THEN "none"
      ELSE IF e.seq = last.seq THEN "conflicting_duplicate"
      ELSE IF e.seq /= last.seq + 1 THEN "sequence_gap"
      ELSE IF e.ts < last.ts THEN "timestamp_regression"
      ELSE "none"

(* Where the bin of e puts the builder: a bin more than one stride later   *)
(* finalizes the current one, and drops the window that emits.             *)
_enter_bin(b, e) ==
  LET bin  == _compute_bin_end(e.ts)
      done == _finalize_current_bin(b)
  IN  IF b.bin \in {NoBin, bin}
      THEN [b |-> [b EXCEPT !.bin = bin], out |-> <<>>, closed |-> "none"]
      ELSE IF bin < b.bin
      THEN [b |-> [_reset_segment(b) EXCEPT !.bin = bin], out |-> <<>>,
            closed |-> "timestamp_regression"]
      ELSE IF bin - b.bin > Stride
      THEN [b |-> [done.b EXCEPT !.buffer = <<>>, !.bin = bin], out |-> <<>>,
            closed |-> "invalid_bin"]
      ELSE [b |-> [done.b EXCEPT !.bin = bin], out |-> done.out, closed |-> "none"]

(* What push returns, with the builder it leaves. *)
push(b, e) ==
  LET closed  == _check_sequence_and_ordering(b, e)
      base    == IF closed = "none" THEN b ELSE _reset_segment(b)
      entered == _enter_bin(base, e)
  IN  IF _is_duplicate(b, e)
      THEN [b |-> base, out |-> <<>>, closed |-> closed]
      ELSE [b      |-> [entered.b EXCEPT !.samples = Append(@, _extract_sample(e)),
                                         !.last = <<e>>],
            out    |-> entered.out,
            closed |-> IF entered.closed = "none" THEN closed ELSE entered.closed]

(* complete raises ValueError. *)
complete_raises(b, ts) == b.last /= <<>> /\ ts < b.last[1].ts

complete(b) ==
  LET done == _finalize_current_bin(b)
  IN  [b |-> [done.b EXCEPT !.complete = TRUE], out |-> done.out]

-----------------------------------------------------------------------------
(* Offline, the samples are grouped by bin, whatever their number, and     *)
(* every run of Lookback consecutive full bins gives a window.             *)
_group_samples_into_bins(samples, end) ==
  LET of == {i \in DOMAIN samples : _compute_bin_end(samples[i].ts) = end}
      nth(j) == CHOOSE i \in of : Cardinality({k \in of : k < i}) = j - 1
  IN  [j \in 1..Cardinality(of) |-> samples[nth(j)]]

(* The bins of the window that ends at end; before time there are none. *)
_window_bins(samples, end) ==
  [i \in 1..Lookback |-> _group_samples_into_bins(samples, end - (Lookback - i) * Stride)]

_iter_phase1b_windows(samples) ==
  LET ends == {_compute_bin_end(samples[i].ts) : i \in DOMAIN samples}
      valid(end) == \A i \in 1..Lookback : Len(_window_bins(samples, end)[i]) >= MinObs
  IN  {[end |-> end, bins |-> _window_bins(samples, end)] : end \in {x \in ends : valid(x)}}

=============================================================================
