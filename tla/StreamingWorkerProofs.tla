----------------------- MODULE StreamingWorkerProofs -----------------------
(***************************************************************************)
(* Proofs about the streaming worker, for any number of sessions, of rows, *)
(* of bins in a window and of observations a bin needs, and any number of  *)
(* deaths, redeliveries and failed attempts: what is committed has been    *)
(* scored (CommittedIsScored), a window scored again is scored alike       *)
(* (RetriesAgree), and seen from the scores topic the worker is            *)
(* ScoreProducer.                                                          *)
(*                                                                         *)
(* The offsets the broker keeps say nothing of what the worker had in its  *)
(* hands when it died, so the invariant describes a session twice.  Either *)
(* this process has read it from its first row (Attached): the builder     *)
(* then is the one that its rows give (BuilderAt), and the windows of the  *)
(* bins closed so far have been scored, but for the one under way.  Or the *)
(* end of the session was committed by an earlier process (Detached), and  *)
(* all that can still arrive of it is its last row, again, from which no   *)
(* full window can come.  A restart puts every session back in one of the  *)
(* two, because the committed offset of the telemetry is always the last   *)
(* row of a session whose end is committed too (CommitInv).                *)
(***************************************************************************)
EXTENDS StreamingWorker, FiniteSetTheorems, TLAPS

(* The remainder of a time by the stride, and the quotient that goes with  *)
(* it.                                                                     *)
LEMMA ModFacts ==
  ASSUME NEW n \in Nat
  PROVE  /\ n % Stride \in 0..(Stride - 1)
         /\ \E q \in Nat : n = Stride * q + (n % Stride)
<1>1. n % Stride \in 0..(Stride - 1)
  BY BuilderAssumption
<1>2. n \div Stride \in Nat
  BY BuilderAssumption
<1>3. n = Stride * (n \div Stride) + (n % Stride)
  BY BuilderAssumption
<1> QED
  BY <1>1, <1>2, <1>3

(* Whatever is written as a multiple of the stride and a smaller rest has  *)
(* that rest.                                                              *)
LEMMA ModUnique ==
  ASSUME NEW n \in Nat, NEW q \in Nat, NEW r \in 0..(Stride - 1), n = Stride * q + r
  PROVE  n % Stride = r
<1>0. Stride \in Nat \ {0}
  BY BuilderAssumption
<1>1. PICK p \in Nat : n = Stride * p + (n % Stride)
  BY ModFacts
<1>2. n % Stride \in 0..(Stride - 1)
  BY ModFacts
<1>3. CASE p = q
  BY <1>0, <1>1, <1>2, <1>3
<1>4. CASE p > q
  <2>1. PICK d \in Nat : p = q + 1 + d
    BY <1>4
  <2>2. Stride * p = Stride * q + Stride + Stride * d /\ Stride * d >= 0
    BY <1>0, <2>1
  <2> QED
    BY <1>0, <1>1, <1>2, <2>2
<1>5. CASE q > p
  <2>1. PICK d \in Nat : q = p + 1 + d
    BY <1>5
  <2>2. Stride * q = Stride * p + Stride + Stride * d /\ Stride * d >= 0
    BY <1>0, <2>1
  <2> QED
    BY <1>0, <1>1, <1>2, <2>2
<1> QED
  BY <1>3, <1>4, <1>5

(* The remainder of the next second. *)
LEMMA ModNext ==
  ASSUME NEW n \in Nat
  PROVE  (n + 1) % Stride = IF n % Stride = Stride - 1 THEN 0 ELSE (n % Stride) + 1
<1>0. Stride \in Nat \ {0}
  BY BuilderAssumption
<1>1. PICK q \in Nat : n = Stride * q + (n % Stride)
  BY ModFacts
<1>2. n % Stride \in 0..(Stride - 1)
  BY ModFacts
<1>3. CASE n % Stride = Stride - 1
  <2>1. n + 1 = Stride * (q + 1) + 0
    BY <1>0, <1>1, <1>3
  <2>2. n + 1 \in Nat /\ q + 1 \in Nat /\ 0 \in 0..(Stride - 1)
    BY <1>0
  <2>3. (n + 1) % Stride = 0
    BY ONLY <2>1, <2>2, ModUnique
  <2> QED
    BY <1>3, <2>3
<1>4. CASE n % Stride # Stride - 1
  <2>1. n + 1 = Stride * q + ((n % Stride) + 1)
    BY <1>0, <1>1, <1>2
  <2>2. n + 1 \in Nat /\ (n % Stride) + 1 \in 0..(Stride - 1)
    BY <1>0, <1>2, <1>4
  <2>3. (n + 1) % Stride = (n % Stride) + 1
    BY ONLY <1>1, <2>1, <2>2, ModUnique
  <2> QED
    BY <1>4, <2>3
<1> QED
  BY <1>3, <1>4

(* A bin ends on the grid, at or less than a stride after its samples. *)
LEMMA BinEnd ==
  ASSUME NEW n \in Nat
  PROVE  /\ _compute_bin_end(n) \in Nat
         /\ n <= _compute_bin_end(n) /\ _compute_bin_end(n) < n + Stride
         /\ _compute_bin_end(n) % Stride = 0
         /\ n % Stride = 0 <=> _compute_bin_end(n) = n
<1>0. Stride \in Nat \ {0} /\ n % Stride \in 0..(Stride - 1)
  BY BuilderAssumption, ModFacts
<1>1. CASE n % Stride = 0
  BY <1>0, <1>1 DEF _compute_bin_end
<1>2. CASE n % Stride # 0
  <2>1. PICK q \in Nat : n = Stride * q + (n % Stride)
    BY ModFacts
  <2> DEFINE e == n + Stride - (n % Stride)
  <2>2. e = Stride * (q + 1) + 0
    BY <1>0, <2>1
  <2>3. e \in Nat /\ q + 1 \in Nat /\ 0 \in 0..(Stride - 1)
    BY <1>0
  <2>4. _compute_bin_end(n) = e
    BY <1>2 DEF _compute_bin_end
  <2> HIDE DEF e
  <2>5. e % Stride = 0
    BY <2>2, <2>3, ModUnique
  <2>6. n < e /\ e < n + Stride
    BY <1>0, <1>2 DEF e
  <2> QED
    BY <1>2, <2>3, <2>4, <2>5, <2>6
<1> QED
  BY <1>1, <1>2

(* The next second is in the same bin, unless this one ends it. *)
LEMMA BinEndNext ==
  ASSUME NEW n \in Nat
  PROVE  _compute_bin_end(n + 1) =
           IF _compute_bin_end(n) = n THEN n + Stride ELSE _compute_bin_end(n)
<1>0. Stride \in Nat \ {0} /\ n % Stride \in 0..(Stride - 1)
  BY BuilderAssumption, ModFacts
<1>1. (n + 1) % Stride = IF n % Stride = Stride - 1 THEN 0 ELSE (n % Stride) + 1
  BY ModNext
<1>2. _compute_bin_end(n) = IF n % Stride = 0 THEN n ELSE n + Stride - (n % Stride)
  BY DEF _compute_bin_end
<1>3. _compute_bin_end(n + 1) = IF (n + 1) % Stride = 0 THEN n + 1
                                ELSE n + 1 + Stride - ((n + 1) % Stride)
  BY DEF _compute_bin_end
<1>4. n % Stride = 0 <=> _compute_bin_end(n) = n
  BY BinEnd
<1>5. CASE n % Stride = Stride - 1
  BY <1>0, <1>1, <1>2, <1>3, <1>4, <1>5
<1>6. CASE n % Stride # Stride - 1
  BY <1>0, <1>1, <1>2, <1>3, <1>4, <1>6
<1> QED
  BY <1>5, <1>6

(* Two points of the grid less than a stride apart are one. *)
LEMMA GridUnique ==
  ASSUME NEW a \in Nat, NEW b \in Nat, a % Stride = 0, b % Stride = 0,
         a <= b, b < a + Stride
  PROVE  a = b
<1>0. Stride \in Nat \ {0}
  BY BuilderAssumption
<1>1. PICK p \in Nat : a = Stride * p + (a % Stride)
  BY ModFacts
<1>2. b = Stride * p + (b - a)
  BY <1>0, <1>1
<1>3. b - a \in 0..(Stride - 1)
  BY <1>0
<1>4. b % Stride = b - a
  BY <1>2, <1>3, ModUnique
<1> QED
  BY <1>4

(* A number of strides, and what of it a solver needs to know. *)
Off(n) == n * Stride

(* Strides add up and keep their order. *)
LEMMA OffFacts ==
  /\ Off(0) = 0 /\ Off(1) = Stride
  /\ \A n \in Nat : Off(n) \in Nat /\ Off(n + 1) = Off(n) + Stride
  /\ \A m, n \in Nat : m <= n => Off(m) <= Off(n)
  /\ \A m, n \in Nat : m < n => Off(m) + Stride <= Off(n)
<1>0. Stride \in Nat \ {0}
  BY BuilderAssumption
<1>1. Off(0) = 0 /\ Off(1) = Stride
  BY <1>0 DEF Off
<1>2. \A n \in Nat : Off(n) \in Nat /\ Off(n + 1) = Off(n) + Stride
  BY <1>0 DEF Off
<1>3. ASSUME NEW m \in Nat, NEW n \in Nat, m <= n
      PROVE  Off(m) <= Off(n)
  <2>1. PICK d \in Nat : n = m + d
    BY <1>3
  <2>2. Off(n) = Off(m) + d * Stride /\ d * Stride >= 0
    BY <1>0, <2>1 DEF Off
  <2>3. Off(m) \in Nat /\ d * Stride \in Nat
    BY <1>0 DEF Off
  <2> QED
    BY <2>2, <2>3
<1>4. ASSUME NEW m \in Nat, NEW n \in Nat, m < n
      PROVE  Off(m) + Stride <= Off(n)
  <2>1. m + 1 \in Nat /\ m + 1 <= n
    BY <1>4
  <2>2. Off(m + 1) <= Off(n)
    BY <1>3, <2>1
  <2> QED
    BY <1>2, <2>2
<1> QED
  BY <1>1, <1>2, <1>3, <1>4

(* The grid a number of strides earlier. *)
LEMMA OffGrid ==
  ASSUME NEW e \in Nat, e % Stride = 0, NEW n \in Nat, Off(n) <= e
  PROVE  e - Off(n) \in Nat /\ (e - Off(n)) % Stride = 0
<1>0. Stride \in Nat \ {0}
  BY BuilderAssumption
<1>1. PICK q \in Nat : e = Stride * q + (e % Stride)
  BY ModFacts
<1>2. e = Stride * q
  BY <1>0, <1>1
<1>3. q >= n
  <2> SUFFICES ASSUME q < n PROVE FALSE
    OBVIOUS
  <2>1. PICK d \in Nat : n = q + 1 + d
    OBVIOUS
  <2>2. Off(n) = Stride * q + Stride + Stride * d /\ Stride * d >= 0
    BY <1>0, <2>1 DEF Off
  <2> QED
    BY <1>0, <1>2, <2>2
<1>4. e - Off(n) = Stride * (q - n) + 0 /\ q - n \in Nat
  BY <1>0, <1>2, <1>3 DEF Off
<1>5. e - Off(n) \in Nat /\ 0 \in 0..(Stride - 1)
  <2>1. Off(n) \in Nat
    BY <1>0 DEF Off
  <2> QED
    BY <1>0, <2>1
<1>6. (e - Off(n)) % Stride = 0
  BY <1>4, <1>5, ModUnique
<1> QED
  BY <1>5, <1>6

-----------------------------------------------------------------------------
(* The builder after rows 1..k, accepted in order.                         *)

Sample(n) == [ts |-> n, v |-> n]

(* The samples of rows a+1..b. *)
Span(a, b) == [j \in 1..(b - a) |-> Sample(a + j)]

Full == Stride >= MinObs

(* The full bins before the one that ends at e. *)
BufferAt(buffer, e) ==
  /\ ~Full => buffer = <<>>
  /\ buffer \in Seq([end : Nat, samples : Seq([ts : Nat, v : Nat])])
  /\ Len(buffer) <= Lookback
  /\ Off(Len(buffer)) + Stride <= e
  /\ Full /\ Len(buffer) < Lookback => Off(Len(buffer)) + Stride = e
  /\ \A j \in 1..Len(buffer) :
       LET end == e - Off(Len(buffer) - j + 1)
       IN  buffer[j] = [end |-> end, samples |-> Span(end - Stride, end)]

Fields == {"last", "bin", "samples", "buffer", "complete"}

BuilderAt(b, k) ==
  /\ DOMAIN b = Fields
  /\ b.last = <<Row(k)>> /\ b.complete = FALSE
  /\ b.bin = _compute_bin_end(k)
  /\ b.samples = Span(_compute_bin_end(k) - Stride, k)
  /\ BufferAt(b.buffer, _compute_bin_end(k))

(* A function on 1..m is a sequence of length m. *)
LEMMA FunctionIsSeq ==
  ASSUME NEW X, NEW m \in Nat, NEW f \in [1..m -> X]
  PROVE  f \in Seq(X) /\ Len(f) = m
OBVIOUS

(* Rows are recorded one by one. *)
LEMMA SpanFacts ==
  ASSUME NEW a \in Int, NEW b \in Int, 0 <= a, a <= b
  PROVE  /\ Span(a, b) \in Seq([ts : Nat, v : Nat])
         /\ Len(Span(a, b)) = b - a
         /\ \A j \in 1..(b - a) : Span(a, b)[j] = Sample(a + j)
         /\ Append(Span(a, b), Sample(b + 1)) = Span(a, b + 1)
<1>1. \A j \in 1..(b - a) : Sample(a + j) \in [ts : Nat, v : Nat]
  BY DEF Sample
<1>2. Span(a, b) \in [1..(b - a) -> [ts : Nat, v : Nat]] /\ b - a \in Nat
  BY <1>1 DEF Span
<1>3. Span(a, b) \in Seq([ts : Nat, v : Nat]) /\ Len(Span(a, b)) = b - a
  BY <1>2, FunctionIsSeq
<1>4. \A j \in 1..(b - a) : Span(a, b)[j] = Sample(a + j)
  BY DEF Span
<1> DEFINE app == Append(Span(a, b), Sample(b + 1))
<1> DEFINE new == Span(a, b + 1)
<1>5. new \in [1..(b + 1 - a) -> [ts : Nat, v : Nat]]
  BY DEF Span, Sample
<1>6. new \in Seq([ts : Nat, v : Nat]) /\ Len(new) = b + 1 - a
  <2> HIDE DEF new
  <2>1. b + 1 - a \in Nat
    OBVIOUS
  <2> QED
    BY <1>5, <2>1, FunctionIsSeq, ZenonT(30)
<1>7. \A j \in 1..(b + 1 - a) : new[j] = Sample(a + j)
  BY DEF Span
<1>8. Sample(b + 1) \in [ts : Nat, v : Nat]
  BY DEF Sample
<1>9. app \in Seq([ts : Nat, v : Nat]) /\ Len(app) = b - a + 1
  BY <1>3, <1>8
<1>10. \A j \in 1..(b - a) : app[j] = Sample(a + j)
  BY <1>3, <1>4, <1>8
<1>11. app[b - a + 1] = Sample(b + 1)
  BY <1>3, <1>8
<1>12. a + (b - a + 1) = b + 1
  OBVIOUS
<1> HIDE DEF app, new
<1>13. app = new
  <2>1. Len(app) = Len(new) /\ Len(app) \in Nat
    BY <1>2, <1>6, <1>9
  <2>2. ASSUME NEW j \in 1..Len(app) PROVE app[j] = new[j]
    <3>1. CASE j = b - a + 1
      BY <1>6, <1>7, <1>9, <1>11, <1>12, <3>1
    <3>2. CASE j # b - a + 1
      BY <1>6, <1>7, <1>9, <1>10, <3>2
    <3> QED
      BY <3>1, <3>2
  <2> QED
    BY <1>6, <1>9, <2>1, <2>2
<1> QED
  BY <1>3, <1>4, <1>13 DEF app, new

(* The buffer once a bin has joined it. *)
Extended(buffer, e, samples) ==
  /\ buffer \in Seq([end : Nat, samples : Seq([ts : Nat, v : Nat])])
  /\ Len(buffer) \in 1..Lookback
  /\ Len(buffer) = Lookback <=> e >= Off(Lookback)
  /\ Off(Len(buffer)) <= e
  /\ Len(buffer) < Lookback => Off(Len(buffer)) = e
  /\ buffer[Len(buffer)] = [end |-> e, samples |-> samples]
  /\ \A j \in 1..(Len(buffer) - 1) :
       LET end == e - Off(Len(buffer) - j)
       IN  buffer[j] = [end |-> end, samples |-> Span(end - Stride, end)]

(* The buffer once a bin has been appended and the oldest dropped: a bin   *)
(* that directly follows the last one is never a gap.                      *)
LEMMA ExtendBuffer ==
  ASSUME NEW buffer, NEW e \in Nat, BufferAt(buffer, e), Full,
         NEW samples \in Seq([ts : Nat, v : Nat])
  PROVE  /\ buffer = <<>> \/ e - buffer[Len(buffer)].end = Stride
         /\ Extended(_trimmed(Append(buffer, [end |-> e, samples |-> samples])), e, samples)
<1> DEFINE Bin == [end : Nat, samples : Seq([ts : Nat, v : Nat])]
<1> DEFINE row == [end |-> e, samples |-> samples]
<1> DEFINE n == Len(buffer)
<1> DEFINE bins == Append(buffer, row)
<1>0. Stride \in Nat \ {0} /\ Lookback \in Nat \ {0}
  BY BuilderAssumption
<1>1. buffer \in Seq(Bin) /\ row \in Bin /\ n \in Nat
  BY DEF BufferAt
<1>2. n <= Lookback /\ Off(n) + Stride <= e /\ (n < Lookback => Off(n) + Stride = e)
  BY DEF BufferAt
<1>3. \A j \in 1..n : LET end == e - Off(n - j + 1)
                      IN  buffer[j] = [end |-> end, samples |-> Span(end - Stride, end)]
  BY DEF BufferAt
<1>4. Off(n) \in Nat /\ Off(n + 1) = Off(n) + Stride /\ Off(1) = Stride
  BY <1>1, OffFacts
<1>9. ASSUME NEW j \in 1..n PROVE buffer[j].end = e - Off(n - j + 1)
  <2>1. buffer[j] = [end |-> e - Off(n - j + 1),
                     samples |-> Span(e - Off(n - j + 1) - Stride, e - Off(n - j + 1))]
    BY <1>3
  <2> QED
    BY <2>1
<1> HIDE DEF Bin, row
<1>5. /\ bins \in Seq(Bin) /\ Len(bins) = n + 1 /\ bins[n + 1] = row
      /\ \A j \in 1..n : bins[j] = buffer[j]
  BY <1>1
<1>6. buffer = <<>> \/ e - buffer[n].end = Stride
  <2>1. CASE n = 0
    BY <1>1, <2>1
  <2>2. CASE n # 0
    <3>1. n \in 1..n /\ n - n + 1 = 1
      BY <1>1, <2>2
    <3>2. buffer[n].end = e - Off(1)
      BY <1>9, <3>1
    <3> QED
      BY <1>0, <1>4, <3>2
  <2> QED
    BY <2>1, <2>2
<1> DEFINE next == _trimmed(bins)
<1>7. CASE n < Lookback
  <2> HIDE DEF bins, n
  <2>1. next = bins
    BY <1>0, <1>1, <1>5, <1>7 DEF _trimmed
  <2> HIDE DEF next
  <2>2. Len(next) = n + 1 /\ Off(Len(next)) = e
    BY <1>2, <1>4, <1>5, <1>7, <2>1
  <2>3. n + 1 = Lookback <=> e >= Off(Lookback)
    <3>1. n + 1 \in Nat /\ (n + 1 < Lookback => Off(n + 1) + Stride <= Off(Lookback))
      BY <1>0, <1>1, OffFacts
    <3>2. Off(Lookback) \in Nat
      BY <1>0, OffFacts
    <3> QED
      BY <1>0, <1>1, <1>2, <1>4, <1>7, <3>1, <3>2
  <2>4. ASSUME NEW j \in 1..(Len(next) - 1)
        PROVE  LET end == e - Off(Len(next) - j)
               IN  next[j] = [end |-> end, samples |-> Span(end - Stride, end)]
    <3>1. j \in 1..n /\ n - j + 1 = Len(next) - j
      BY <1>1, <2>2
    <3> QED
      BY <1>3, <1>5, <2>1, <3>1
  <2>6. Len(next) \in 1..Lookback /\ Len(next) = n + 1 /\ next \in Seq(Bin)
    BY <1>0, <1>1, <1>5, <1>7, <2>1, <2>2
  <2>7. next[Len(next)] = row
    BY <1>5, <2>1, <2>2
  <2>8. /\ Len(next) = Lookback <=> e >= Off(Lookback)
        /\ Off(Len(next)) <= e /\ Off(Len(next)) = e
    BY <2>2, <2>3
  <2>5. Extended(next, e, samples)
    BY <2>4, <2>6, <2>7, <2>8 DEF Extended, row, Bin
  <2> QED
    BY <1>6, <2>5 DEF next, bins, n, row
<1>8. CASE n = Lookback
  <2>1. next = Tail(bins)
    BY <1>1, <1>5, <1>8 DEF _trimmed
  <2> HIDE DEF bins, next, n
  <2>2. /\ next \in Seq(Bin) /\ Len(next) = n
        /\ \A j \in 1..n : next[j] = bins[j + 1]
    BY <1>0, <1>1, <1>5, <1>8, <2>1
  <2>3. e >= Off(Lookback) /\ Off(Len(next)) <= e
    BY <1>0, <1>2, <1>4, <1>8, <2>2
  <2>4. ASSUME NEW j \in 1..(Len(next) - 1)
        PROVE  LET end == e - Off(Len(next) - j)
               IN  next[j] = [end |-> end, samples |-> Span(end - Stride, end)]
    <3>1. j + 1 \in 1..n /\ j \in 1..n /\ n - (j + 1) + 1 = Len(next) - j
      BY <1>1, <2>2
    <3>2. next[j] = buffer[j + 1]
      BY <1>5, <2>2, <3>1
    <3> QED
      BY <1>3, <3>1, <3>2
  <2>5. next[Len(next)] = row
    BY <1>0, <1>1, <1>5, <1>8, <2>2
  <2>6. Extended(next, e, samples)
    BY <1>0, <1>1, <1>8, <2>2, <2>3, <2>4, <2>5 DEF Extended, row, Bin
  <2> QED
    BY <1>6, <2>6 DEF next, bins, n, row
<1> QED
  BY <1>0, <1>1, <1>2, <1>7, <1>8

-----------------------------------------------------------------------------
(* The windows of a session.                                               *)

(* The last row of the session in a bin that ends at e. *)
Upto(e) == IF e <= Rows THEN e ELSE Rows

(* A window ends at e: Lookback bins, the last of them full, lie before.   *)
Due(e) ==
  /\ e \in Nat /\ e % Stride = 0
  /\ Off(Lookback) <= e /\ e <= _compute_bin_end(Rows)
  /\ Upto(e) - (e - Stride) >= MinObs

Window(e) ==
  [end  |-> e,
   bins |-> [i \in 1..Lookback |->
               Span(e - Off(Lookback - i) - Stride, Upto(e - Off(Lookback - i)))]]

Score(s, e) == [s |-> s, end |-> e, bins |-> Window(e).bins]

(* A builder that has seen the last row only. *)
Lone == [last |-> <<Row(Rows)>>, bin |-> _compute_bin_end(Rows),
         samples |-> <<Sample(Rows)>>, buffer |-> <<>>, complete |-> FALSE]


(* A row is in a bin no later than the last row's, and a bin of a row      *)
(* starts at or after time 0.                                              *)
LEMMA BinEndRange ==
  ASSUME NEW k \in 1..Rows
  PROVE  /\ _compute_bin_end(k) \in Nat /\ k <= _compute_bin_end(k)
         /\ Stride <= _compute_bin_end(k) /\ _compute_bin_end(k) - Stride < k
         /\ _compute_bin_end(k) % Stride = 0
         /\ _compute_bin_end(k) <= _compute_bin_end(Rows)
<1>0. Stride \in Nat \ {0} /\ Rows \in Nat \ {0} /\ k \in Nat
  BY BuilderAssumption, WorkerAssumption
<1> DEFINE e == _compute_bin_end(k)
<1> DEFINE f == _compute_bin_end(Rows)
<1>1. e \in Nat /\ k <= e /\ e < k + Stride /\ e % Stride = 0
  BY <1>0, BinEnd
<1>2. f \in Nat /\ Rows <= f /\ f < Rows + Stride /\ f % Stride = 0
  BY <1>0, BinEnd
<1> HIDE DEF e, f
<1>3. 0 % Stride = 0
  <2>1. 0 = Stride * 0 + 0 /\ 0 \in 0..(Stride - 1)
    BY <1>0
  <2> QED
    BY <2>1, ModUnique
<1>4. Stride <= e
  BY <1>0, <1>1, <1>3, GridUnique
<1>5. e <= f
  <2> SUFFICES ASSUME f < e PROVE FALSE
    BY <1>1, <1>2
  <2>1. e < f + Stride
    BY <1>0, <1>1, <1>2
  <2> QED
    BY <1>1, <1>2, <2>1, GridUnique
<1> QED
  BY <1>0, <1>1, <1>4, <1>5 DEF e, f

(* What _finalize_current_bin leaves and emits when all the rows of the    *)
(* current bin have come.                                                  *)
LEMMA Finalize ==
  ASSUME NEW b, NEW k \in 1..Rows, BuilderAt(b, k), k = Upto(_compute_bin_end(k))
  PROVE  LET e == _compute_bin_end(k)
             d == _finalize_current_bin(b)
         IN  /\ d.b = [b EXCEPT !.buffer = d.b.buffer, !.samples = <<>>]
             /\ d.out = IF Due(e) THEN <<Window(e)>> ELSE <<>>
             /\ k = e => BufferAt(d.b.buffer, e + Stride)
<1> DEFINE e == _compute_bin_end(k)
<1> DEFINE full == Len(b.samples) >= MinObs
<1> DEFINE next == IF full THEN _extended(b) ELSE <<>>
<1>0. /\ Stride \in Nat \ {0} /\ Lookback \in Nat \ {0} /\ MinObs \in Nat \ {0}
      /\ Rows \in Nat /\ k \in Nat
  BY BuilderAssumption, WorkerAssumption
<1>1. /\ e \in Nat /\ k <= e /\ Stride <= e /\ e - Stride < k /\ e % Stride = 0
      /\ e <= _compute_bin_end(Rows)
  BY BinEndRange
<1>2. /\ b.bin = e /\ b.samples = Span(e - Stride, k) /\ BufferAt(b.buffer, e)
  BY DEF BuilderAt
<1>3. /\ b.samples \in Seq([ts : Nat, v : Nat]) /\ Len(b.samples) = k - (e - Stride)
  <2> HIDE DEF e
  <2>1. e - Stride \in Int /\ 0 <= e - Stride /\ e - Stride <= k /\ k \in Int
    BY <1>0, <1>1
  <2> QED
    BY <1>2, <2>1, SpanFacts
<1>4. /\ _finalize_current_bin(b).b = [b EXCEPT !.buffer = next, !.samples = <<>>]
      /\ _finalize_current_bin(b).out =
           IF full /\ Len(next) = Lookback THEN <<_emit_window(next)>> ELSE <<>>
  <2>1. b.bin # NoBin
    BY <1>0, <1>1, <1>2 DEF NoBin
  <2> QED
    BY <2>1 DEF _finalize_current_bin, _bin_is_full
<1>5. _finalize_current_bin(b).b.buffer = next
  <2>1. "buffer" \in DOMAIN b
    BY DEF BuilderAt, Fields
  <2> HIDE DEF next
  <2> QED
    BY <1>4, <2>1
<1>6. full <=> Upto(e) - (e - Stride) >= MinObs
  BY <1>3
<1>7. full => Full
  BY <1>0, <1>1, <1>3 DEF Full
<1>8. ASSUME full PROVE Extended(next, e, b.samples)
  <2>1. /\ b.buffer = <<>> \/ e - b.buffer[Len(b.buffer)].end = Stride
        /\ Extended(_trimmed(Append(b.buffer, [end |-> e, samples |-> b.samples])), e, b.samples)
    <3> HIDE DEF e
    <3> QED
      BY <1>1, <1>2, <1>3, <1>7, <1>8, ExtendBuffer
  <2>2. next = _trimmed(Append(b.buffer, [end |-> e, samples |-> b.samples]))
    BY <1>2, <1>8, <2>1 DEF _extended
  <2> QED
    BY <2>1, <2>2
<1> HIDE DEF e, next
<1>9. full /\ Len(next) = Lookback <=> Due(e)
  <2>1. CASE full
    BY <1>0, <1>1, <1>6, <1>8, <2>1 DEF Extended, Due
  <2>2. CASE ~full
    BY <1>6, <2>2 DEF Due
  <2> QED
    BY <2>1, <2>2
<1>10. ASSUME full, Len(next) = Lookback
       PROVE  _emit_window(next) = Window(e)
  <2>1. Extended(next, e, b.samples)
    BY <1>8, <1>10
  <2>2. /\ next \in Seq([end : Nat, samples : Seq([ts : Nat, v : Nat])])
        /\ next[Lookback] = [end |-> e, samples |-> b.samples]
    BY <1>10, <2>1 DEF Extended
  <2>3. \A j \in 1..(Lookback - 1) :
          next[j] = [end |-> e - Off(Lookback - j),
                     samples |-> Span(e - Off(Lookback - j) - Stride, e - Off(Lookback - j))]
    BY <1>10, <2>1 DEF Extended
  <2>4. DOMAIN next = 1..Lookback
    BY <1>10, <2>2
  <2>5. ASSUME NEW j \in 1..Lookback
        PROVE  next[j].samples =
                 Span(e - Off(Lookback - j) - Stride, Upto(e - Off(Lookback - j)))
    <3>1. CASE j = Lookback
      <4>1. Lookback - j = 0 /\ e - Off(Lookback - j) = e
        BY <1>0, <1>1, <3>1, OffFacts
      <4> QED
        BY <1>2, <2>2, <3>1, <4>1 DEF e
    <3>2. CASE j < Lookback
      <4>1. Lookback - j \in Nat /\ 1 <= Lookback - j
        BY <1>0, <3>2
      <4>2. Stride <= Off(Lookback - j) /\ Off(Lookback - j) \in Nat
        BY <1>0, <4>1, OffFacts
      <4>3. e - Off(Lookback - j) <= Rows
        BY <1>0, <1>1, <4>2
      <4>4. Upto(e - Off(Lookback - j)) = e - Off(Lookback - j)
        BY <4>3 DEF Upto
      <4>5. next[j].samples = Span(e - Off(Lookback - j) - Stride, e - Off(Lookback - j))
        <5>1. j \in 1..(Lookback - 1)
          BY <1>0, <3>2
        <5>2. next[j] = [end |-> e - Off(Lookback - j),
                 samples |-> Span(e - Off(Lookback - j) - Stride, e - Off(Lookback - j))]
          BY <2>3, <5>1
        <5> QED
          BY <5>2
      <4> QED
        BY <4>4, <4>5
    <3> QED
      BY <1>0, <3>1, <3>2
  <2>6. [i \in DOMAIN next |-> next[i].samples] = Window(e).bins
    BY <2>4, <2>5 DEF Window
  <2>7. next[Len(next)].end = e
    BY <1>10, <2>2
  <2> QED
    BY <2>6, <2>7 DEF _emit_window, Window
<1>11. ASSUME k = e PROVE BufferAt(next, e + Stride)
  <2>1. full <=> Full
    BY <1>0, <1>1, <1>3, <1>11 DEF Full
  <2>2. CASE ~Full
    <3>1. next = <<>>
      BY <2>1, <2>2 DEF next
    <3>2. Len(next) = 0 /\ next \in Seq([end : Nat, samples : Seq([ts : Nat, v : Nat])])
      BY <3>1
    <3>3. Off(0) = 0
      BY OffFacts
    <3> QED
      BY <1>0, <1>1, <2>2, <3>1, <3>2, <3>3 DEF BufferAt
  <2>3. CASE Full
    <3>1. Extended(next, e, b.samples)
      BY <1>8, <2>1, <2>3
    <3> DEFINE n == Len(next)
    <3>2. n \in 1..Lookback /\ Off(n) <= e /\ (n < Lookback => Off(n) = e) /\ Off(n) \in Nat
      BY <1>0, <3>1, OffFacts DEF Extended
    <3>6. next[n] = [end |-> e, samples |-> Span(e - Stride, e)]
      BY <1>2, <1>11, <3>1 DEF Extended, e
    <3>7. \A j \in 1..(n - 1) :
            next[j] = [end |-> e - Off(n - j),
                       samples |-> Span(e - Off(n - j) - Stride, e - Off(n - j))]
      BY <3>1 DEF Extended
    <3> HIDE DEF n
    <3> DEFINE f == e + Stride
    <3>9. f = e + Stride
      OBVIOUS
    <3> HIDE DEF f
    <3>3. ASSUME NEW j \in 1..n
          PROVE  LET x == f - Off(n - j + 1)
                 IN  next[j] = [end |-> x, samples |-> Span(x - Stride, x)]
      <4> DEFINE x == f - Off(n - j + 1)
      <4>0. n - j \in Nat
        BY <3>2
      <4>1. Off(n - j) \in Nat /\ Off(n - j + 1) = Off(n - j) + Stride
        BY <4>0, OffFacts
      <4>2. x = e - Off(n - j)
        BY <1>0, <1>1, <3>9, <4>1
      <4> HIDE DEF x
      <4>3. CASE j = n
        <5>1. e - Off(n - j) = e
          BY <1>1, <3>2, <4>3, OffFacts
        <5>2. next[j] = [end |-> x, samples |-> Span(x - Stride, x)]
          BY <3>6, <4>2, <4>3, <5>1
        <5> QED
          BY <5>2 DEF x
      <4>4. CASE j # n
        <5>1. j \in 1..(n - 1)
          BY <3>2, <4>4
        <5>2. next[j] = [end |-> x, samples |-> Span(x - Stride, x)]
          BY <3>7, <4>2, <5>1
        <5> QED
          BY <5>2 DEF x
      <4> QED
        BY <4>3, <4>4
    <3>4. next \in Seq([end : Nat, samples : Seq([ts : Nat, v : Nat])])
      BY <3>1 DEF Extended
    <3>5. /\ n <= Lookback /\ Off(n) + Stride <= f
          /\ n < Lookback => Off(n) + Stride = f
      BY <1>0, <1>1, <3>2, <3>9
    <3>10. BufferAt(next, f)
      BY <2>3, <3>3, <3>4, <3>5 DEF BufferAt, n
    <3> QED
      BY <3>10 DEF f
  <2> QED
    BY <2>2, <2>3
<1> QED
  BY <1>4, <1>5, <1>9, <1>10, <1>11 DEF e

(* The first sample of a bin. *)
LEMMA SpanOne ==
  ASSUME NEW k \in Nat
  PROVE  Append(<<>>, Sample(k + 1)) = Span(k, k + 1)
<1>1. k + 1 - k = 1
  OBVIOUS
<1>2. Span(k, k + 1) = [j \in 1..1 |-> Sample(k + j)]
  BY <1>1 DEF Span
<1> DEFINE f == [j \in 1..1 |-> Sample(k + j)]
<1>3. f \in [1..1 -> [ts : Nat, v : Nat]] /\ f[1] = Sample(k + 1)
  BY DEF Sample
<1> HIDE DEF f
<1>4. f \in Seq([ts : Nat, v : Nat]) /\ Len(f) = 1
  BY <1>3, FunctionIsSeq
<1>5. f = <<Sample(k + 1)>>
  BY <1>3, <1>4
<1> QED
  BY <1>2, <1>5 DEF f

(* The first row opens the first bin. *)
LEMMA PushFirst ==
  /\ BuilderAt(push(new_builder, Row(1)).b, 1)
  /\ push(new_builder, Row(1)).out = <<>>
<1>0. Stride \in Nat \ {0} /\ Rows \in Nat \ {0} /\ Lookback \in Nat \ {0}
  BY BuilderAssumption, WorkerAssumption
<1> DEFINE e == _compute_bin_end(1)
<1>1. e = Stride
  <2>1. 0 % Stride = 0
    <3>1. 0 = Stride * 0 + 0 /\ 0 \in 0..(Stride - 1)
      BY <1>0
    <3> QED
      BY <3>1, ModUnique
  <2>2. _compute_bin_end(0) = 0
    BY <1>0, <2>1, BinEnd
  <2>3. _compute_bin_end(0 + 1) = 0 + Stride
    BY <2>2, BinEndNext
  <2> QED
    BY <1>0, <2>3
<1>2. push(new_builder, Row(1)) =
        [b |-> [last |-> <<Row(1)>>, bin |-> e, samples |-> Append(<<>>, Sample(1)),
                buffer |-> <<>>, complete |-> FALSE],
         out |-> <<>>, closed |-> "none"]
  BY DEF push, new_builder, _check_sequence_and_ordering, _enter_bin, _is_duplicate,
         _extract_sample, Sample, Row, NoBin
<1>3. Append(<<>>, Sample(1)) = Span(0, 1)
  <2>1. Append(<<>>, Sample(0 + 1)) = Span(0, 0 + 1)
    BY SpanOne
  <2> QED
    BY <2>1
<1>4. BufferAt(<<>>, Stride)
  BY <1>0, OffFacts DEF BufferAt
<1>5. e - Stride = 0
  BY <1>0, <1>1
<1> HIDE DEF e
<1> QED
  BY <1>1, <1>2, <1>3, <1>4, <1>5 DEF BuilderAt, Fields, e

(* The next row joins the current bin, or closes it and opens the next;    *)
(* the window of the bin that closes is emitted.                           *)
LEMMA PushNext ==
  ASSUME NEW b, NEW k \in 1..Rows, k < Rows, BuilderAt(b, k)
  PROVE  /\ BuilderAt(push(b, Row(k + 1)).b, k + 1)
         /\ push(b, Row(k + 1)).out =
              IF _compute_bin_end(k) = k /\ Due(k) THEN <<Window(k)>> ELSE <<>>
<1> DEFINE e == _compute_bin_end(k)
<1> DEFINE f == _compute_bin_end(k + 1)
<1> DEFINE d == _finalize_current_bin(b)
<1>0. Stride \in Nat \ {0} /\ Rows \in Nat \ {0} /\ k \in Nat
  BY BuilderAssumption, WorkerAssumption
<1>1. e \in Nat /\ k <= e /\ Stride <= e /\ e - Stride < k
  BY BinEndRange
<1>2. f = IF e = k THEN k + Stride ELSE e
  BY <1>0, BinEndNext
<1>3. /\ DOMAIN b = Fields /\ b.last = <<Row(k)>> /\ b.complete = FALSE /\ b.bin = e
      /\ b.samples = Span(e - Stride, k) /\ BufferAt(b.buffer, e)
  BY DEF BuilderAt
<1>4. ~_is_duplicate(b, Row(k + 1)) /\ _check_sequence_and_ordering(b, Row(k + 1)) = "none"
  <2>1. b.last = <<Row(k)>> /\ b.last # <<>> /\ b.last[1] = Row(k)
    BY <1>3
  <2>2. Row(k).seq = k /\ Row(k + 1).seq = k + 1 /\ Row(k).ts = k /\ Row(k + 1).ts = k + 1
    BY DEF Row
  <2>3. k + 1 # k /\ ~(k + 1 < k) /\ Row(k + 1) # Row(k)
    BY <1>0, <2>2
  <2> QED
    BY <2>1, <2>2, <2>3 DEF _is_duplicate, _check_sequence_and_ordering
<1> DEFINE in == _enter_bin(b, Row(k + 1))
<1> DEFINE out == push(b, Row(k + 1))
<1>5. /\ out.b = [in.b EXCEPT !.samples = Append(@, Sample(k + 1)), !.last = <<Row(k + 1)>>]
      /\ out.out = in.out
  <2>1. _extract_sample(Row(k + 1)) = Sample(k + 1)
    BY DEF _extract_sample, Row, Sample
  <2> HIDE DEF in
  <2> QED
    BY <1>4, <2>1 DEF push, in
<1>6. Row(k + 1).ts = k + 1
  BY DEF Row
<1>9. ASSUME DOMAIN in.b = Fields
      PROVE  /\ DOMAIN out.b = Fields
             /\ out.b.samples = Append(in.b.samples, Sample(k + 1)) /\ out.b.last = <<Row(k + 1)>>
             /\ out.b.bin = in.b.bin /\ out.b.buffer = in.b.buffer
             /\ out.b.complete = in.b.complete
  <2> HIDE DEF in, out
  <2> QED
    BY <1>5, <1>9 DEF Fields
<1>7. CASE e # k
  <2>1. in = [b |-> [b EXCEPT !.bin = f], out |-> <<>>, closed |-> "none"]
    BY <1>2, <1>3, <1>6, <1>7 DEF _enter_bin
  <2> HIDE DEF in, out, e, f
  <2>2. /\ DOMAIN in.b = Fields /\ in.b.bin = f /\ in.b.samples = b.samples
        /\ in.b.buffer = b.buffer /\ in.b.complete = FALSE
    BY <1>3, <2>1 DEF Fields
  <2>3. f = e
    BY <1>2, <1>7
  <2>4. Append(b.samples, Sample(k + 1)) = Span(f - Stride, k + 1)
    <3>1. e - Stride \in Int /\ 0 <= e - Stride /\ e - Stride <= k /\ k \in Int
      BY <1>0, <1>1
    <3> QED
      BY <1>3, <2>3, <3>1, SpanFacts
  <2>5. BufferAt(b.buffer, f)
    BY <1>3, <2>3
  <2>6. out.out = <<>>
    BY <1>5, <2>1
  <2>7. BuilderAt(out.b, k + 1)
    BY <1>9, <2>2, <2>4, <2>5 DEF BuilderAt, f
  <2> QED
    BY <1>7, <2>6, <2>7 DEF out, e
<1>8. CASE e = k
  <2>1. k = Upto(e)
    BY <1>0, <1>8 DEF Upto
  <2>2. /\ d.b = [b EXCEPT !.buffer = d.b.buffer, !.samples = <<>>]
        /\ d.out = IF Due(e) THEN <<Window(e)>> ELSE <<>>
        /\ BufferAt(d.b.buffer, e + Stride)
    BY <1>8, <2>1, Finalize
  <2>3. in = [b |-> [d.b EXCEPT !.bin = f], out |-> d.out, closed |-> "none"]
    <3>1. b.bin = k /\ f = k + Stride /\ b.bin \notin {NoBin, f} /\ ~(f < b.bin)
          /\ ~(f - b.bin > Stride)
      BY <1>0, <1>2, <1>3, <1>8 DEF NoBin
    <3> HIDE DEF d
    <3> QED
      BY <1>6, <3>1 DEF _enter_bin, d
  <2> HIDE DEF in, d, e, f, out
  <2>4. DOMAIN d.b = Fields /\ d.b.samples = <<>> /\ d.b.complete = FALSE
    BY <1>3, <2>2 DEF Fields
  <2>5. /\ DOMAIN in.b = Fields /\ in.b.bin = f /\ in.b.samples = <<>>
        /\ in.b.buffer = d.b.buffer /\ in.b.complete = FALSE
    BY <2>3, <2>4 DEF Fields
  <2>7. f - Stride = k /\ f = e + Stride
    BY <1>0, <1>2, <1>8
  <2>8. Append(<<>>, Sample(k + 1)) = Span(k, k + 1)
    BY <1>0, SpanOne
  <2>9. out.out = d.out
    BY <1>5, <2>3
  <2>10. BuilderAt(out.b, k + 1)
    BY <1>9, <2>2, <2>5, <2>7, <2>8 DEF BuilderAt, f
  <2> QED
    BY <1>8, <2>2, <2>9, <2>10 DEF e, out
<1> QED
  BY <1>7, <1>8

(* A row that comes again changes nothing. *)
LEMMA PushAgain ==
  ASSUME NEW b, NEW k, b.last = <<Row(k)>>
  PROVE  push(b, Row(k)).b = b /\ push(b, Row(k)).out = <<>>
BY DEF push, _is_duplicate, _check_sequence_and_ordering

(* A builder that sees the last row only emits nothing. *)
LEMMA PushLone ==
  push(new_builder, Row(Rows)).b = Lone /\ push(new_builder, Row(Rows)).out = <<>>
<1>1. push(new_builder, Row(Rows)) =
        [b |-> [last |-> <<Row(Rows)>>, bin |-> _compute_bin_end(Rows),
                samples |-> Append(<<>>, Sample(Rows)), buffer |-> <<>>, complete |-> FALSE],
         out |-> <<>>, closed |-> "none"]
  BY DEF push, new_builder, _check_sequence_and_ordering, _enter_bin, _is_duplicate,
         _extract_sample, Sample, Row, NoBin
<1>2. Append(<<>>, Sample(Rows)) = <<Sample(Rows)>>
  OBVIOUS
<1> QED
  BY <1>1, <1>2 DEF Lone

(* Completing the builder emits the last window. *)
LEMMA CompleteLast ==
  ASSUME NEW b, BuilderAt(b, Rows)
  PROVE  /\ complete(b).b.complete = TRUE /\ complete(b).b.last = <<Row(Rows)>>
         /\ complete(b).out = IF Due(_compute_bin_end(Rows))
                              THEN <<Window(_compute_bin_end(Rows))>> ELSE <<>>
<1> DEFINE d == _finalize_current_bin(b)
<1>0. Rows \in 1..Rows /\ Rows \in Nat
  BY WorkerAssumption
<1>1. Rows = Upto(_compute_bin_end(Rows))
  BY <1>0, BinEnd DEF Upto
<1>2. /\ d.b = [b EXCEPT !.buffer = d.b.buffer, !.samples = <<>>]
      /\ d.out = IF Due(_compute_bin_end(Rows))
                 THEN <<Window(_compute_bin_end(Rows))>> ELSE <<>>
  BY <1>0, <1>1, Finalize
<1>3. complete(b).b = [d.b EXCEPT !.complete = TRUE] /\ complete(b).out = d.out
  BY DEF complete
<1>4. DOMAIN b = Fields /\ b.last = <<Row(Rows)>>
  BY DEF BuilderAt
<1> HIDE DEF d
<1>5. DOMAIN d.b = Fields /\ d.b.last = <<Row(Rows)>>
  BY <1>2, <1>4 DEF Fields
<1> QED
  BY <1>2, <1>3, <1>5 DEF Fields

-----------------------------------------------------------------------------
(* The windows the offline code computes are the due ones.                 *)

Samples == [k \in 1..Rows |-> _extract_sample(Row(k))]

(* The rows of a bin, by their number. *)
LEMMA RowsOfBin ==
  ASSUME NEW x \in Nat, x % Stride = 0, NEW k \in 1..Rows
  PROVE  _compute_bin_end(k) = x <=> k \in (x - Stride + 1)..Upto(x)
<1>0. Stride \in Nat \ {0} /\ Rows \in Nat /\ k \in Nat
  BY BuilderAssumption, WorkerAssumption
<1> DEFINE e == _compute_bin_end(k)
<1>1. e \in Nat /\ k <= e /\ e < k + Stride /\ e % Stride = 0
  BY <1>0, BinEnd
<1> HIDE DEF e
<1>2. k \in (x - Stride + 1)..Upto(x) <=> x - Stride < k /\ k <= x
  BY <1>0 DEF Upto
<1>3. ASSUME x - Stride < k, k <= x PROVE e = x
  <2>3. x < e + Stride /\ e < x + Stride
    BY <1>0, <1>1, <1>3
  <2>1. CASE e <= x
    BY <1>1, <2>1, <2>3, GridUnique
  <2>2. CASE x <= e
    BY <1>1, <2>2, <2>3, GridUnique
  <2> QED
    BY <1>1, <2>1, <2>2
<1>4. ASSUME e = x PROVE x - Stride < k /\ k <= x
  BY <1>0, <1>1, <1>4
<1> QED
  BY <1>2, <1>3, <1>4 DEF e

(* _group_samples_into_bins gives the rows of a bin in their order. *)
LEMMA GroupIsSpan ==
  ASSUME NEW x \in Nat, x % Stride = 0, Stride <= x, x - Stride <= Rows
  PROVE  _group_samples_into_bins(Samples, x) = Span(x - Stride, Upto(x))
<1>0. Stride \in Nat \ {0} /\ Rows \in Nat
  BY BuilderAssumption, WorkerAssumption
<1> DEFINE of == {i \in DOMAIN Samples : _compute_bin_end(Samples[i].ts) = x}
<1> DEFINE nth(j) == CHOOSE i \in of : Cardinality({k \in of : k < i}) = j - 1
<1> DEFINE a == x - Stride
<1> DEFINE u == Upto(x)
<1>1. a \in Nat /\ u \in Nat /\ a <= u /\ u <= Rows
  BY <1>0 DEF Upto
<1>2. DOMAIN Samples = 1..Rows /\ \A i \in 1..Rows : Samples[i] = Sample(i) /\ Samples[i].ts = i
  BY DEF Samples, Sample, _extract_sample, Row
<1>3. of = (a + 1)..u
  <2>1. \A i \in 1..Rows : _compute_bin_end(i) = x <=> i \in (a + 1)..u
    BY RowsOfBin
  <2>2. of = {i \in 1..Rows : i \in (a + 1)..u}
    BY <1>2, <2>1
  <2> HIDE DEF of, a, u
  <2>3. \A i \in (a + 1)..u : i \in 1..Rows
    BY <1>0, <1>1
  <2> QED
    BY <2>2, <2>3
<1> HIDE DEF of, a, u
<1>4. Cardinality(of) = u - a
  <2>1. a + 1 \in Int /\ u \in Int
    BY <1>1
  <2>2. Cardinality((a + 1)..u) = IF a + 1 > u THEN 0 ELSE u - (a + 1) + 1
    BY <2>1, FS_Interval
  <2> QED
    BY <1>1, <1>3, <2>2
<1>5. ASSUME NEW i \in of PROVE Cardinality({k \in of : k < i}) = i - 1 - a
  <2>1. i \in Int /\ i >= a + 1 /\ i <= u
    BY <1>1, <1>3
  <2>2. {k \in of : k < i} = (a + 1)..(i - 1)
    BY <1>1, <1>3, <2>1
  <2>3. Cardinality((a + 1)..(i - 1)) = i - 1 - a
    BY <1>1, <2>1, FS_Interval
  <2> QED
    BY <2>2, <2>3
<1>6. ASSUME NEW j \in 1..(u - a) PROVE nth(j) = a + j
  <2>1. a + j \in of /\ j \in Int
    BY <1>1, <1>3
  <2>2. Cardinality({k \in of : k < a + j}) = j - 1
    BY <1>1, <1>5, <2>1
  <2>3. \A i \in of : Cardinality({k \in of : k < i}) = j - 1 => i = a + j
    BY <1>1, <1>3, <1>5, <2>1
  <2> QED
    BY <2>1, <2>2, <2>3
<1>7. ASSUME NEW j \in 1..(u - a) PROVE Samples[nth(j)] = Sample(a + j)
  <2>1. a + j \in 1..Rows
    BY <1>0, <1>1
  <2> HIDE DEF nth
  <2> QED
    BY <1>2, <1>6, <2>1
<1>8. _group_samples_into_bins(Samples, x) = [j \in 1..Cardinality(of) |-> Samples[nth(j)]]
  BY DEF _group_samples_into_bins, of
<1> HIDE DEF nth
<1> QED
  BY <1>4, <1>7, <1>8 DEF Span, a, u

(* There are no rows before time 1. *)
LEMMA GroupIsEmpty ==
  ASSUME NEW x \in Int, x <= 0
  PROVE  Len(_group_samples_into_bins(Samples, x)) = 0
<1> DEFINE of == {i \in DOMAIN Samples : _compute_bin_end(Samples[i].ts) = x}
<1> DEFINE nth(j) == CHOOSE i \in of : Cardinality({k \in of : k < i}) = j - 1
<1>1. DOMAIN Samples = 1..Rows /\ \A i \in 1..Rows : Samples[i].ts = i
  BY DEF Samples, _extract_sample, Row
<1>2. \A i \in 1..Rows : _compute_bin_end(i) # x
  <2> SUFFICES ASSUME NEW i \in 1..Rows PROVE _compute_bin_end(i) # x
    OBVIOUS
  <2>1. _compute_bin_end(i) \in Nat /\ i <= _compute_bin_end(i)
    BY BinEndRange
  <2> QED
    BY <2>1
<1>3. of = {}
  BY <1>1, <1>2
<1>4. Cardinality(of) = 0
  BY <1>3, FS_EmptySet
<1>5. _group_samples_into_bins(Samples, x) = [j \in 1..Cardinality(of) |-> Samples[nth(j)]]
  BY DEF _group_samples_into_bins, of
<1> HIDE DEF of, nth
<1>6. [j \in 1..Cardinality(of) |-> Samples[nth(j)]] = <<>>
  BY <1>4
<1>7. _group_samples_into_bins(Samples, x) = <<>>
  BY <1>5, <1>6
<1> QED
  BY <1>7

(* The end of bin i of a window, and where it lies on the grid. *)
LEMMA BinOfWindow ==
  ASSUME NEW e \in Nat, e % Stride = 0, e <= _compute_bin_end(Rows), NEW i \in 1..Lookback,
         Off(Lookback - i) < e
  PROVE  LET x == e - Off(Lookback - i)
         IN  /\ x \in Nat /\ x % Stride = 0 /\ Stride <= x /\ x - Stride <= Rows /\ x <= e
             /\ i < Lookback => x <= Rows /\ x <= e - Stride
             /\ i = Lookback => x = e
<1>0. Stride \in Nat \ {0} /\ Lookback \in Nat \ {0} /\ Rows \in Nat \ {0}
  BY BuilderAssumption, WorkerAssumption
<1> DEFINE n == Lookback - i
<1> DEFINE x == e - Off(n)
<1>1. n \in Nat /\ (i < Lookback => 1 <= n) /\ (i = Lookback => n = 0)
  BY <1>0
<1>2. Off(n) \in Nat /\ Off(0) = 0 /\ Off(1) = Stride /\ (1 <= n => Off(1) <= Off(n))
  <2> HIDE DEF n
  <2> QED
    BY <1>1, OffFacts
<1> HIDE DEF n
<1>3. x \in Nat /\ x % Stride = 0 /\ x > 0
  <2>1. Off(n) <= e /\ x > 0
    BY <1>2 DEF n
  <2> QED
    BY <1>1, <2>1, OffGrid
<1>4. _compute_bin_end(Rows) \in Nat /\ _compute_bin_end(Rows) < Rows + Stride
  BY <1>0, BinEnd
<1>5. x <= e /\ (i < Lookback => x <= e - Stride) /\ (i = Lookback => x = e)
  BY <1>0, <1>1, <1>2
<1> HIDE DEF x
<1>6. Stride <= x
  <2>1. 0 % Stride = 0
    <3>1. 0 = Stride * 0 + 0 /\ 0 \in 0..(Stride - 1)
      BY <1>0
    <3> QED
      BY <3>1, ModUnique
  <2> SUFFICES ASSUME x < Stride PROVE FALSE
    BY <1>0, <1>3
  <2>2. x < 0 + Stride /\ 0 <= x
    BY <1>0, <1>3
  <2> QED
    BY <1>3, <2>1, <2>2, GridUnique
<1>7. x - Stride <= Rows /\ (i < Lookback => x <= Rows)
  BY <1>0, <1>3, <1>4, <1>5
<1> QED
  BY <1>3, <1>5, <1>6, <1>7 DEF x, n

(* The offline code has a window at e exactly when one is due. *)
LEMMA ValidIsDue ==
  ASSUME NEW e \in Nat, e % Stride = 0, Stride <= e, e <= _compute_bin_end(Rows)
  PROVE  /\ (\A i \in 1..Lookback : Len(_window_bins(Samples, e)[i]) >= MinObs) <=> Due(e)
         /\ Due(e) => _window_bins(Samples, e) = Window(e).bins
<1>0. Stride \in Nat \ {0} /\ Lookback \in Nat \ {0} /\ MinObs \in Nat \ {0} /\ Rows \in Nat \ {0}
  BY BuilderAssumption, WorkerAssumption
<1> DEFINE x(i) == e - Off(Lookback - i)
<1> DEFINE bins == _window_bins(Samples, e)
<1>1. \A i \in 1..Lookback : bins[i] = _group_samples_into_bins(Samples, x(i))
  BY DEF _window_bins, Off
<1>2. ASSUME NEW i \in 1..Lookback, Off(Lookback - i) < e
      PROVE  /\ bins[i] = Span(x(i) - Stride, Upto(x(i)))
             /\ Len(bins[i]) = Upto(x(i)) - (x(i) - Stride)
  <2>1. x(i) \in Nat /\ x(i) % Stride = 0 /\ Stride <= x(i) /\ x(i) - Stride <= Rows
    BY <1>2, BinOfWindow
  <2> HIDE DEF bins, x
  <2>2. bins[i] = Span(x(i) - Stride, Upto(x(i)))
    BY <1>1, <2>1, GroupIsSpan
  <2>3. /\ x(i) - Stride \in Int /\ 0 <= x(i) - Stride /\ Upto(x(i)) \in Int
        /\ x(i) - Stride <= Upto(x(i))
    BY <1>0, <2>1 DEF Upto
  <2> QED
    BY <2>2, <2>3, SpanFacts
<1>3. Lookback \in 1..Lookback /\ Lookback - Lookback = 0 /\ Off(0) = 0 /\ x(Lookback) = e
  BY <1>0, OffFacts
<1>4. Len(bins[Lookback]) = Upto(e) - (e - Stride)
  <2>1. Off(Lookback - Lookback) < e
    BY <1>0, <1>3
  <2> HIDE DEF bins, x
  <2> QED
    BY <1>2, <1>3, <2>1
<1>5. \A i \in 1..Lookback : Lookback - i \in Nat /\ Lookback - i < Lookback
  BY <1>0
<1>6. ASSUME Due(e), NEW i \in 1..Lookback
      PROVE  /\ Len(bins[i]) >= MinObs
             /\ bins[i] = Span(x(i) - Stride, Upto(x(i)))
  <2>1. Off(Lookback) <= e /\ Upto(e) - (e - Stride) >= MinObs
    BY <1>6 DEF Due
  <2>2. Off(Lookback - i) + Stride <= Off(Lookback) /\ Off(Lookback - i) \in Nat /\ Off(Lookback) \in Nat
    BY <1>0, <1>5, OffFacts
  <2>3. Off(Lookback - i) < e
    BY <1>0, <2>1, <2>2
  <2>4. CASE i = Lookback
    <3> HIDE DEF bins, x
    <3> QED
      BY <1>2, <1>4, <2>1, <2>3, <2>4
  <2>5. CASE i < Lookback
    <3>1. x(i) <= Rows /\ x(i) \in Nat
      BY <2>3, <2>5, BinOfWindow
    <3> HIDE DEF bins, x
    <3>2. Len(bins[i]) = Stride
      BY <1>0, <1>2, <2>3, <3>1 DEF Upto
    <3>3. Upto(e) <= e /\ Upto(e) \in Nat
      BY <1>0 DEF Upto
    <3>4. Stride >= MinObs
      BY <1>0, <2>1, <3>3
    <3> QED
      BY <1>2, <2>3, <3>2, <3>4
  <2> QED
    BY <1>0, <2>4, <2>5
<1>7. ASSUME \A i \in 1..Lookback : Len(bins[i]) >= MinObs
      PROVE  Due(e)
  <2>1. 1 \in 1..Lookback /\ Lookback - 1 \in Nat /\ Lookback - 1 + 1 = Lookback
    BY <1>0
  <2>2. Off(Lookback - 1) \in Nat /\ Off(Lookback) = Off(Lookback - 1) + Stride
    BY <2>1, OffFacts
  <2>3. x(1) \in Int
    BY <2>2
  <2>4. x(1) > 0
    <3> SUFFICES ASSUME x(1) <= 0 PROVE FALSE
      BY <2>3
    <3> HIDE DEF bins, x
    <3>1. Len(bins[1]) = 0
      BY <1>1, <2>1, <2>3, GroupIsEmpty
    <3> QED
      BY <1>0, <1>7, <2>1, <3>1
  <2>5. Stride <= x(1)
    <3>1. Off(Lookback - 1) < e
      BY <2>2, <2>4
    <3> QED
      BY <2>1, <3>1, BinOfWindow
  <2>6. Off(Lookback) <= e
    BY <1>0, <2>2, <2>5
  <2>7. Upto(e) - (e - Stride) >= MinObs
    <3> HIDE DEF bins
    <3> QED
      BY <1>3, <1>4, <1>7
  <2> QED
    BY <2>6, <2>7 DEF Due
<1>8. ASSUME Due(e) PROVE bins = Window(e).bins
  <2>1. DOMAIN bins = 1..Lookback /\ bins = [i \in 1..Lookback |-> bins[i]]
    BY DEF _window_bins
  <2> HIDE DEF bins
  <2>2. bins = [i \in 1..Lookback |-> Span(x(i) - Stride, Upto(x(i)))]
    BY <1>6, <1>8, <2>1
  <2> QED
    BY <2>2 DEF Window
<1> QED
  BY <1>6, <1>7, <1>8

(* A window that is due ends with the bin of a row. *)
LEMMA DueIsEnd ==
  ASSUME NEW e \in Nat, Due(e)
  PROVE  Stride <= e /\ \E k \in 1..Rows : _compute_bin_end(k) = e
<1>0. Stride \in Nat \ {0} /\ Lookback \in Nat \ {0} /\ Rows \in Nat \ {0}
  BY BuilderAssumption, WorkerAssumption
<1>1. e % Stride = 0 /\ Off(Lookback) <= e /\ e <= _compute_bin_end(Rows)
  BY DEF Due
<1>2. Stride <= Off(Lookback) /\ Off(Lookback) \in Nat
  <2>1. Off(1) <= Off(Lookback) /\ Off(1) = Stride
    BY <1>0, OffFacts
  <2> QED
    BY <1>0, <2>1, OffFacts
<1>3. Stride <= e
  BY <1>0, <1>1, <1>2
<1>4. CASE e <= Rows
  <2>1. _compute_bin_end(e) = e /\ e \in 1..Rows
    BY <1>0, <1>1, <1>3, <1>4, BinEnd
  <2> QED
    BY <1>3, <2>1
<1>5. CASE e > Rows
  <2>1. _compute_bin_end(Rows) \in Nat /\ _compute_bin_end(Rows) < e + Stride
        /\ _compute_bin_end(Rows) % Stride = 0
    BY <1>0, <1>5, BinEnd
  <2>2. _compute_bin_end(Rows) = e
    BY <1>1, <2>1, GridUnique
  <2> QED
    BY <1>0, <1>3, <2>2
<1> QED
  BY <1>0, <1>4, <1>5

(* The windows of a session are the due ones: what AllWindows says of the  *)
(* offline code.                                                           *)
LEMMA WindowsAreDue ==
  ASSUME NEW s
  PROVE  AllWindows(s) = {Score(s, e) : e \in {n \in Nat : Due(n)}}
<1> DEFINE ends == {_compute_bin_end(Samples[i].ts) : i \in DOMAIN Samples}
<1> DEFINE valid(end) == \A i \in 1..Lookback : Len(_window_bins(Samples, end)[i]) >= MinObs
<1>1. SessionWindows = {[end |-> end, bins |-> _window_bins(Samples, end)] :
                          end \in {x \in ends : valid(x)}}
  BY DEF SessionWindows, _iter_phase1b_windows, Samples
<1>2. ends = {_compute_bin_end(k) : k \in 1..Rows}
  BY DEF Samples, _extract_sample, Row
<1> HIDE DEF ends
<1>3. ASSUME NEW e \in ends
      PROVE  /\ e \in Nat /\ (valid(e) <=> Due(e))
             /\ Due(e) => _window_bins(Samples, e) = Window(e).bins
  <2>1. e \in Nat /\ e % Stride = 0 /\ Stride <= e /\ e <= _compute_bin_end(Rows)
    BY <1>2, BinEndRange
  <2> QED
    BY <2>1, ValidIsDue
<1>4. ASSUME NEW e \in Nat, Due(e) PROVE e \in ends
  BY <1>2, <1>4, DueIsEnd
<1> HIDE DEF valid
<1>5. {x \in ends : valid(x)} = {n \in Nat : Due(n)}
  BY <1>3, <1>4
<1>6. SessionWindows = {[end |-> e, bins |-> Window(e).bins] : e \in {n \in Nat : Due(n)}}
  <2>1. \A e \in {n \in Nat : Due(n)} : _window_bins(Samples, e) = Window(e).bins
    BY <1>3, <1>4
  <2> QED
    BY <1>1, <1>5, <2>1
<1> DEFINE win(e) == [end |-> e, bins |-> Window(e).bins]
<1> DEFINE due == {n \in Nat : Due(n)}
<1>7. SessionWindows = {win(e) : e \in due}
  BY <1>6
<1>8. \A e : Score(s, e) = [s |-> s, end |-> win(e).end, bins |-> win(e).bins]
  BY DEF Score
<1> HIDE DEF win, due
<1>9. AllWindows(s) = {Score(s, e) : e \in due}
  BY <1>7, <1>8 DEF AllWindows
<1> QED
  BY <1>9 DEF due

-----------------------------------------------------------------------------
(* The inductive invariant.                                                *)

Tel == log["telemetry"]
Sta == log["status"]
Terminal == {"COMPLETED", "STOPPED"}
TelRecord == [s : Session, kind : {"ok", "bad", "foreign"}, k : 0..Rows]
StaRecord == [s : Session, kind : Terminal \cup {"FAILED", "bad"}, last : 0..Rows, ts : 0..Rows]

TelOk(i, s, k) == Tel[i].kind = "ok" /\ Tel[i].s = s /\ Tel[i].k = k
Ends(i, s) == Sta[i].kind \in Terminal /\ Sta[i].s = s

LogType ==
  /\ log = [t \in Topics |-> log[t]]
  /\ Tel \in Seq(TelRecord) /\ Sta \in Seq(StaRecord)
  /\ replay \in [i : Nat \ {0}, k : 0..Rows] /\ replay.i <= Sessions + 1

(* Rows are published session after session, in order, none left out. *)
TelInv ==
  /\ \A i \in 1..Len(Tel) : Tel[i].s <= replay.i /\ (Tel[i].kind = "ok" => Tel[i].k >= 1)
  /\ \A i, j \in 1..Len(Tel) : i <= j => Tel[i].s <= Tel[j].s
  /\ \A i, j \in 1..Len(Tel) :
       i <= j /\ Tel[i].s = Tel[j].s /\ Tel[i].kind = "ok" /\ Tel[j].kind = "ok"
         => Tel[i].k <= Tel[j].k
  /\ \A j \in 1..Len(Tel) :
       Tel[j].kind = "ok" /\ Tel[j].k > 1
         => \E i \in 1..(j - 1) : TelOk(i, Tel[j].s, Tel[j].k - 1)
  /\ \A i \in 1..Len(Tel) :
       Tel[i].kind = "ok" /\ Tel[i].s = replay.i => Tel[i].k <= replay.k
  /\ replay.k > 0 => \E i \in 1..Len(Tel) : TelOk(i, replay.i, replay.k)

(* Every session that is over has one terminal status, in order. *)
StaInv ==
  /\ \A i \in 1..Len(Sta) : Sta[i].kind \in Terminal => Sta[i].s < replay.i
  /\ \A i, j \in 1..Len(Sta) :
       i < j /\ Sta[i].kind \in Terminal /\ Sta[j].kind \in Terminal => Sta[i].s < Sta[j].s
  /\ \A s \in Session : s < replay.i => \E i \in 1..Len(Sta) : Ends(i, s)
  /\ \A i \in 1..Len(Sta) :
       /\ Sta[i].kind = "COMPLETED" =>
            /\ Sta[i].last = Rows /\ Sta[i].ts = Rows
            /\ \E j \in 1..Len(Tel) : TelOk(j, Sta[i].s, Rows)
       /\ Sta[i].kind = "STOPPED" => Sta[i].last = 0 /\ Sta[i].ts = 0

MemFields == {"pos", "builders", "last", "term", "offs", "failed", "blocked", "own"}

MemType ==
  /\ DOMAIN w = MemFields
  /\ w.pos \in [Topics -> Nat] /\ w.pos["telemetry"] <= Len(Tel) /\ w.pos["status"] <= Len(Sta)
  /\ w.builders = [s \in Session |-> w.builders[s]]
  /\ w.last \in [Session -> 0..Rows]
  /\ w.term = [s \in Session |-> w.term[s]]
  /\ w.offs \in [Session -> [Topics -> Nat]]
  /\ w.failed \subseteq Session /\ w.blocked \subseteq Topics /\ w.own \subseteq Nat

NoBad(i) == \A j \in 1..i : Tel[j].kind /= "bad"

(* A failed session has its FAILED status on the topic; a blocked          *)
(* partition has a record that does not decode.                            *)
FailInv ==
  /\ \A i \in w.own : i \in 1..Len(Sta) /\ Sta[i].kind = "FAILED"
  /\ \A s \in w.failed : FailedSession(s)
  /\ "telemetry" \in w.blocked <=> ~NoBad(w.pos["telemetry"])

(* What the worker remembers of a session's terminal status and where it   *)
(* read the last row it accepted.                                          *)
TermInv ==
  \A s \in Session \ w.failed :
    w.term[s].kind /= "none" =>
      /\ w.offs[s]["status"] \in 1..w.pos["status"]
      /\ Sta[w.offs[s]["status"]] = w.term[s]
      /\ w.term[s].kind \in Terminal /\ w.term[s].s = s

OffsInv ==
  \A s \in Session :
    LET j == w.offs[s]["telemetry"]
    IN  /\ j = 0 <=> w.last[s] = 0
        /\ j > 0 => j <= w.pos["telemetry"] /\ NoBad(j) /\ TelOk(j, s, w.last[s])

(* The bins of session s that are closed end here, at the latest. *)
Closed(s) == IF w.builders[s].complete THEN _compute_bin_end(Rows)
             ELSE _compute_bin_end(w.last[s]) - Stride

BuilderInv(s) ==
  \/ w.last[s] = 0 /\ w.builders[s] = new_builder
  \/ w.last[s] > 0 /\ BuilderAt(w.builders[s], w.last[s])
  \/ /\ w.last[s] = Rows /\ w.builders[s].complete /\ w.builders[s].last = <<Row(Rows)>>
     /\ w.term[s].kind = "COMPLETED"

Pending(s, e) == job.s = s /\ job.todo = <<Window(e)>>

(* A session this process reads from its first row: the windows of the     *)
(* closed bins are scored, but for the one under way.                      *)
Attached(s) ==
  /\ \A i \in 1..w.pos["telemetry"] :
       NoBad(i) /\ Tel[i].kind = "ok" /\ Tel[i].s = s => Tel[i].k <= w.last[s]
  /\ BuilderInv(s)
  /\ emitted[s] = 0 \/ emitted[s] <= Closed(s)
  /\ \A e \in Nat : Due(e) /\ e <= emitted[s] => Score(s, e) \in scores
  /\ \A e \in Nat : Due(e) /\ e <= Closed(s) => e <= emitted[s] \/ Pending(s, e)

(* A session whose end was committed before: what is left of it is its     *)
(* last row, again.                                                        *)
Detached(s) ==
  /\ w.term[s].kind = "none"
  /\ s < replay.i
  /\ \E i \in 1..w.pos["status"] : Ends(i, s)
  /\ \A i \in 1..Len(Tel) :
       i > w.pos["telemetry"] /\ Tel[i].kind = "ok" /\ Tel[i].s = s => Tel[i].k = Rows
  /\ \/ w.last[s] = 0 /\ w.builders[s] = new_builder
     \/ w.last[s] = Rows /\ w.builders[s] = Lone

SessionInv == \A s \in Session \ w.failed : Attached(s) \/ Detached(s)

JobType ==
  /\ job = [s |-> job.s, todo |-> job.todo, attempt |-> job.attempt, then |-> job.then]
  /\ job.attempt \in Nat
  /\ job.then \in {"idle", "barrier", "commit"}
  /\ job.todo = <<>> \/ \E e \in Nat : Due(e) /\ job.todo = <<Window(e)>>

JobInv ==
  exit = "none" =>
    LET s == job.s
    IN  /\ \A e \in Nat : job.todo = <<Window(e)>> =>
             s \in Session \ w.failed /\ Attached(s) /\ emitted[s] < e /\ e <= Closed(s)
        /\ job.then /= "idle" => s \in Session \ w.failed
        /\ job.then = "idle" => job.todo = <<>>
        /\ job.then = "commit" =>
             \/ w.term[s].kind = "COMPLETED" /\ w.last[s] = Rows /\ w.builders[s].complete
             \/ /\ w.term[s].kind = "STOPPED" /\ w.offs[s]["telemetry"] = 0
                /\ w.offs[s]["status"] = w.pos["status"] /\ job.todo = <<>>

Settled(s) ==
  \/ \E t \in s..Sessions : StoppedSession(t)
  \/ FailedSession(s)
  \/ AllWindows(s) \subseteq scores

Busy(s) == job.s = s /\ job.then \in {"barrier", "commit"}

(* A COMPLETED that has been read is still remembered, or done with. *)
DoneInv ==
  /\ \A i \in 1..w.pos["status"] :
       Sta[i].kind = "COMPLETED" /\ w.term[Sta[i].s].kind /= "COMPLETED" => Settled(Sta[i].s)
  /\ \A s \in Session \ w.failed :
       w.term[s].kind = "COMPLETED" /\ w.last[s] = Rows => Settled(s) \/ Busy(s)

CommitInv ==
  /\ offsets \in [Topics -> Nat]
  /\ offsets["telemetry"] <= w.pos["telemetry"] /\ offsets["status"] <= w.pos["status"]
  /\ offsets["telemetry"] > 0 =>
       LET r == Tel[offsets["telemetry"]]
       IN  /\ r.kind = "ok" /\ r.k = Rows
           /\ NoBad(offsets["telemetry"])
           /\ \E i \in 1..offsets["status"] : Ends(i, r.s)
  /\ \A i \in 1..offsets["status"] : Sta[i].kind = "COMPLETED" => Settled(Sta[i].s)

ScoreInv ==
  /\ emitted \in [Session -> Nat]
  /\ \A f \in scores \cup features : f.s \in Session /\ \E e \in Nat : Due(e) /\ f = Score(f.s, e)
  /\ \A f \in scores : \A e \in Nat : Due(e) /\ e < f.end => Score(f.s, e) \in scores

IInv == /\ LogType /\ TelInv /\ StaInv /\ MemType /\ FailInv /\ TermInv /\ OffsInv
        /\ SessionInv /\ JobType /\ JobInv /\ DoneInv /\ CommitInv /\ ScoreInv

-----------------------------------------------------------------------------
(* Logs only grow, and what a reader has seen of them stays.               *)

(* A record appended to a topic. *)
LEMMA AppendFacts ==
  ASSUME NEW X, NEW q \in Seq(X), NEW x \in X
  PROVE  /\ Append(q, x) \in Seq(X) /\ Len(Append(q, x)) = Len(q) + 1 /\ Len(q) \in Nat
         /\ \A i \in 1..Len(q) : Append(q, x)[i] = q[i]
         /\ Append(q, x)[Len(q) + 1] = x
OBVIOUS

Grown ==
  /\ Len(Tel) \in Nat /\ Len(Sta) \in Nat /\ Len(Tel)' \in Nat /\ Len(Sta)' \in Nat
  /\ Len(Tel) <= Len(Tel)' /\ Len(Sta) <= Len(Sta)'
  /\ \A i \in 1..Len(Tel) : Tel'[i] = Tel[i]
  /\ \A i \in 1..Len(Sta) : Sta'[i] = Sta[i]

(* A session that is done with stays so. *)
LEMMA SettledKept ==
  ASSUME NEW s, Settled(s), Grown, scores \subseteq scores',
         DOMAIN Sta = 1..Len(Sta), (DOMAIN Sta)' = 1..(Len(Sta)')
  PROVE  Settled(s)'
<1>1. \A i \in DOMAIN Sta : i \in (DOMAIN Sta)' /\ Sta'[i] = Sta[i]
  BY DEF Grown
<1>2. ASSUME NEW t, StoppedSession(t) PROVE StoppedSession(t)'
  BY <1>1, <1>2 DEF StoppedSession, Sta
<1>3. ASSUME FailedSession(s) PROVE FailedSession(s)'
  BY <1>1, <1>3 DEF FailedSession, Sta
<1>4. AllWindows(s)' = AllWindows(s)
  BY WindowsAreDue DEF AllWindows, SessionWindows
<1> QED
  BY <1>2, <1>3, <1>4 DEF Settled

(* What keeps a session attached when its builder and what it has scored   *)
(* do not change.                                                          *)
LEMMA AttachedKept ==
  ASSUME NEW s, Attached(s), Grown,
         w.pos["telemetry"] \in Nat, w.pos["telemetry"] <= Len(Tel),
         w'.pos["telemetry"] \in Nat,
         w'.last[s] = w.last[s], w'.builders[s] = w.builders[s],
         w.builders[s].complete => w'.term[s].kind = "COMPLETED",
         emitted'[s] = emitted[s], scores \subseteq scores',
         \A i \in 1..w'.pos["telemetry"] :
           i > w.pos["telemetry"] /\ NoBad(i)' => ~(Tel'[i].kind = "ok" /\ Tel'[i].s = s),
         \A e \in Nat : Due(e) /\ e <= Closed(s) /\ Pending(s, e) => Pending(s, e)'
  PROVE  Attached(s)'
<1>1. \A i \in 1..w.pos["telemetry"] : Tel'[i] = Tel[i] /\ (NoBad(i)' => NoBad(i))
  <2>1. /\ Len(Tel) \in Nat /\ w.pos["telemetry"] \in Nat /\ w.pos["telemetry"] <= Len(Tel)
        /\ \A i \in 1..Len(Tel) : Tel'[i] = Tel[i]
    BY DEF Grown
  <2>2. \A i \in 1..w.pos["telemetry"] : i \in 1..Len(Tel) /\ \A j \in 1..i : j \in 1..Len(Tel)
    BY ONLY <2>1
  <2> QED
    BY ONLY <2>1, <2>2 DEF NoBad
<1>2. ASSUME NEW i \in 1..w'.pos["telemetry"], NoBad(i)', Tel'[i].kind = "ok", Tel'[i].s = s
      PROVE  Tel'[i].k <= w'.last[s]
  <2>1. i \in 1..w.pos["telemetry"]
    BY <1>2
  <2> QED
    BY <1>1, <1>2, <2>1 DEF Attached
<1>3. Closed(s)' = Closed(s)
  BY DEF Closed
<1>4. BuilderInv(s)'
  <2>1. \A k : BuilderAt(w.builders[s], k)' = BuilderAt(w.builders[s], k)
    OBVIOUS
  <2> QED
    BY DEF Attached, BuilderInv
<1> QED
  BY <1>2, <1>3, <1>4 DEF Attached

(* A session that is only being read again stays so until a row of it      *)
(* arrives.                                                                *)
LEMMA DetachedKept ==
  ASSUME NEW s, Detached(s), Grown,
         w.pos["telemetry"] \in Nat, w.pos["status"] \in Nat, w.pos["status"] <= Len(Sta),
         w'.pos["telemetry"] \in Nat, w'.pos["status"] \in Nat,
         w.pos["telemetry"] <= w'.pos["telemetry"], w.pos["status"] <= w'.pos["status"],
         w'.last[s] = w.last[s], w'.builders[s] = w.builders[s], w'.term[s].kind = "none",
         replay.i \in Nat, replay'.i \in Nat, replay.i <= replay'.i, s \in Nat,
         \A i \in 1..Len(Tel)' : i > Len(Tel) => Tel'[i].s # s
  PROVE  Detached(s)'
<1>1. s < replay'.i
  BY DEF Detached
<1>2. \E i \in 1..w'.pos["status"] : Ends(i, s)'
  <2>1. PICK i \in 1..w.pos["status"] : Ends(i, s)
    BY DEF Detached
  <2>2. i \in 1..w'.pos["status"] /\ Sta'[i] = Sta[i]
    <3>1. /\ Len(Sta) \in Nat /\ w.pos["status"] \in Nat /\ w.pos["status"] <= Len(Sta)
          /\ w'.pos["status"] \in Nat /\ w.pos["status"] <= w'.pos["status"]
          /\ \A j \in 1..Len(Sta) : Sta'[j] = Sta[j]
      BY DEF Grown
    <3>2. i \in 1..w'.pos["status"] /\ i \in 1..Len(Sta)
      BY ONLY <3>1, i \in 1..w.pos["status"]
    <3> QED
      BY ONLY <3>1, <3>2
  <2> QED
    BY <2>1, <2>2 DEF Ends
<1>3. ASSUME NEW i \in 1..Len(Tel)', i > w'.pos["telemetry"], Tel'[i].kind = "ok", Tel'[i].s = s
      PROVE  Tel'[i].k = Rows
  <2>3. ~(i > Len(Tel)) /\ i \in Nat /\ i >= 1
    BY <1>3 DEF Grown
  <2>4. i > w.pos["telemetry"]
    BY <1>3, <2>3
  <2>1. i \in 1..Len(Tel) /\ i > w.pos["telemetry"]
    BY <2>3, <2>4 DEF Grown
  <2>2. Tel'[i] = Tel[i]
    BY <2>1 DEF Grown
  <2> QED
    BY <1>3, <2>1, <2>2 DEF Detached
<1> QED
  BY <1>1, <1>2, <1>3 DEF Detached

TelGrows(r) == Tel' = Append(Tel, r) /\ Sta' = Sta /\ log' = [t \in Topics |-> log'[t]]
StaGrows(r) == Sta' = Append(Sta, r) /\ Tel' = Tel /\ log' = [t \in Topics |-> log'[t]]

(* What an append to one topic does to the logs. *)
LEMMA LogAppend ==
  ASSUME LogType, NEW r
  PROVE  /\ log' = [log EXCEPT !["telemetry"] = Append(@, r)] => TelGrows(r)
         /\ log' = [log EXCEPT !["status"] = Append(@, r)] => StaGrows(r)
<1>1. log = [t \in Topics |-> log[t]] /\ Topics = {"telemetry", "status"}
  BY DEF LogType, Topics
<1>2. ASSUME log' = [log EXCEPT !["telemetry"] = Append(@, r)] PROVE TelGrows(r)
  BY <1>1, <1>2 DEF TelGrows, Tel, Sta
<1>3. ASSUME log' = [log EXCEPT !["status"] = Append(@, r)] PROVE StaGrows(r)
  BY <1>1, <1>3 DEF StaGrows, Tel, Sta
<1> QED
  BY <1>2, <1>3

(* What a telemetry record published leaves of the topics. *)
LEMMA TelGrown ==
  ASSUME LogType, NEW r \in TelRecord, TelGrows(r)
  PROVE  /\ Grown /\ Tel' \in Seq(TelRecord) /\ Sta' \in Seq(StaRecord)
         /\ Len(Tel)' = Len(Tel) + 1 /\ Tel'[Len(Tel) + 1] = r
<1>1. Tel \in Seq(TelRecord) /\ Sta \in Seq(StaRecord)
  BY DEF LogType
<1>2. Tel' = Append(Tel, r) /\ Sta' = Sta
  BY DEF TelGrows
<1>3. /\ Tel' \in Seq(TelRecord) /\ Len(Tel') = Len(Tel) + 1 /\ Len(Tel) \in Nat
      /\ \A i \in 1..Len(Tel) : Tel'[i] = Tel[i]
      /\ Tel'[Len(Tel) + 1] = r
  BY <1>1, <1>2, AppendFacts
<1>4. Len(Sta) \in Nat /\ Len(Sta') = Len(Sta) /\ Sta' \in Seq(StaRecord)
  BY <1>1, <1>2
<1> QED
  BY <1>2, <1>3, <1>4 DEF Grown

(* What a status published leaves of the topics. *)
LEMMA StaGrown ==
  ASSUME LogType, NEW r \in StaRecord, StaGrows(r)
  PROVE  /\ Grown /\ Tel' \in Seq(TelRecord) /\ Sta' \in Seq(StaRecord)
         /\ Len(Sta)' = Len(Sta) + 1 /\ Sta'[Len(Sta) + 1] = r
<1>1. Tel \in Seq(TelRecord) /\ Sta \in Seq(StaRecord)
  BY DEF LogType
<1>2. Sta' = Append(Sta, r) /\ Tel' = Tel
  BY DEF StaGrows
<1>3. /\ Sta' \in Seq(StaRecord) /\ Len(Sta') = Len(Sta) + 1 /\ Len(Sta) \in Nat
      /\ \A i \in 1..Len(Sta) : Sta'[i] = Sta[i]
      /\ Sta'[Len(Sta) + 1] = r
  BY <1>1, <1>2, AppendFacts
<1>4. Len(Tel) \in Nat /\ Len(Tel') = Len(Tel) /\ Tel' \in Seq(TelRecord)
  BY <1>1, <1>2
<1> QED
  BY <1>2, <1>3, <1>4 DEF Grown

(* The replay service publishes a row: the next, the last one again, or a  *)
(* record that is none.                                                    *)
LEMMA TelLog ==
  ASSUME LogType, TelInv, StaInv, NEW r \in TelRecord, TelGrows(r), r.s = replay.i,
         replay'.i = replay.i, replay' \in [i : Nat \ {0}, k : 0..Rows],
         \/ r.kind # "ok" /\ replay'.k = replay.k
         \/ r.kind = "ok" /\ r.k = replay.k + 1 /\ replay'.k = r.k
         \/ r.kind = "ok" /\ r.k = replay.k /\ r.k > 0 /\ replay'.k = r.k
  PROVE  LogType' /\ TelInv' /\ StaInv'
<1> DEFINE n == Len(Tel)
<1>1. /\ Grown /\ Tel' \in Seq(TelRecord) /\ Sta' \in Seq(StaRecord)
      /\ Len(Tel)' = n + 1 /\ Tel'[n + 1] = r
  BY TelGrown
<1>2. n \in Nat /\ \A i \in 1..n : Tel'[i] = Tel[i]
  BY <1>1 DEF Grown
<1>3. \A i \in 1..(n + 1) : i \in 1..n \/ i = n + 1
  BY <1>2
<1>4. /\ replay.i \in Nat /\ replay.k \in 0..Rows /\ r.k \in 0..Rows /\ r.s \in Session
      /\ replay'.k \in 0..Rows /\ Rows \in Nat /\ replay.i <= Sessions + 1
  BY WorkerAssumption DEF LogType, TelRecord
<1>5. LogType'
  BY <1>1, <1>4 DEF LogType, TelGrows
<1>6. \A i \in 1..n : Tel[i] \in TelRecord
  BY <1>2 DEF LogType
<1>7. \A i \in 1..n : Tel[i].s \in Nat /\ Tel[i].k \in Nat
  BY <1>6, WorkerAssumption DEF TelRecord, Session
<1> HIDE DEF n
<1>8. TelInv'
  <2>1. ASSUME NEW i \in 1..(n + 1)
        PROVE  /\ Tel'[i].s <= replay'.i /\ (Tel'[i].kind = "ok" => Tel'[i].k >= 1)
               /\ Tel'[i].kind = "ok" /\ Tel'[i].s = replay'.i => Tel'[i].k <= replay'.k
    <3>1. CASE i = n + 1
      BY <1>1, <1>4, <3>1
    <3>2. CASE i \in 1..n
      <4>1. /\ Tel[i].s <= replay.i /\ (Tel[i].kind = "ok" => Tel[i].k >= 1)
            /\ Tel[i].kind = "ok" /\ Tel[i].s = replay.i => Tel[i].k <= replay.k
        BY <3>2 DEF TelInv, n
      <4> QED
        BY <1>2, <1>4, <1>7, <3>2, <4>1
    <3> QED
      BY <1>3, <3>1, <3>2
  <2>2. ASSUME NEW i \in 1..(n + 1), NEW j \in 1..(n + 1), i <= j
        PROVE  /\ Tel'[i].s <= Tel'[j].s
               /\ Tel'[i].s = Tel'[j].s /\ Tel'[i].kind = "ok" /\ Tel'[j].kind = "ok"
                    => Tel'[i].k <= Tel'[j].k
    <3>1. CASE j \in 1..n
      <4>1. i \in 1..n
        BY <1>2, <2>2, <3>1
      <4> QED
        BY <1>2, <2>2, <3>1, <4>1 DEF TelInv, n
    <3>2. CASE j = n + 1 /\ i = n + 1
      BY <1>1, <1>4, <3>2 DEF Session
    <3>3. CASE j = n + 1 /\ i \in 1..n
      <4>1. /\ Tel[i].s <= replay.i
            /\ Tel[i].kind = "ok" /\ Tel[i].s = replay.i => Tel[i].k <= replay.k
        BY <3>3 DEF TelInv, n
      <4>2. r.kind = "ok" => replay.k <= r.k
        BY <1>4
      <4>3. Tel'[i] = Tel[i] /\ Tel'[j] = r /\ Tel[i].k \in Nat
        BY <1>1, <1>2, <1>7, <3>3
      <4> QED
        BY <1>4, <4>1, <4>2, <4>3
    <3> QED
      BY <1>3, <3>1, <3>2, <3>3
  <2>3. ASSUME NEW j \in 1..(n + 1), Tel'[j].kind = "ok", Tel'[j].k > 1
        PROVE  \E i \in 1..(j - 1) : TelOk(i, Tel[j].s, Tel[j].k - 1)'
    <3>1. CASE j \in 1..n
      <4>1. PICK i \in 1..(j - 1) : TelOk(i, Tel[j].s, Tel[j].k - 1)
        BY <1>2, <2>3, <3>1 DEF TelInv, n
      <4>2. i \in 1..n
        BY <1>2, <3>1
      <4>3. TelOk(i, Tel[j].s, Tel[j].k - 1)'
        BY <1>2, <3>1, <4>1, <4>2 DEF TelOk
      <4> QED
        BY <4>3
    <3>2. CASE j = n + 1
      <4>1. r.kind = "ok" /\ r.k > 1
        BY <1>1, <2>3, <3>2
      <4>2. \E i \in 1..n : TelOk(i, r.s, r.k - 1)
        <5>1. replay.k > 0
          BY <1>4, <4>1
        <5>2. PICK i \in 1..n : TelOk(i, replay.i, replay.k)
          BY <5>1 DEF TelInv, n
        <5>3. CASE r.k = replay.k + 1
          BY <1>4, <5>2, <5>3
        <5>4. CASE r.k = replay.k
          <6>1. Tel[i].kind = "ok" /\ Tel[i].k = r.k /\ Tel[i].s = r.s
            BY <5>2, <5>4 DEF TelOk
          <6>2. PICK m \in 1..(i - 1) : TelOk(m, Tel[i].s, Tel[i].k - 1)
            BY <4>1, <6>1 DEF TelInv, n
          <6>3. m \in 1..n
            BY <1>2
          <6> QED
            BY <6>1, <6>2, <6>3
        <5> QED
          BY <4>1, <5>3, <5>4
      <4>3. PICK i \in 1..n : TelOk(i, r.s, r.k - 1)
        BY <4>2
      <4>4. i \in 1..(j - 1) /\ TelOk(i, Tel[j].s, Tel[j].k - 1)'
        BY <1>1, <1>2, <3>2, <4>3 DEF TelOk
      <4> QED
        BY <4>4
    <3> QED
      BY <1>3, <3>1, <3>2
  <2>4. ASSUME replay'.k > 0 PROVE \E i \in 1..(n + 1) : TelOk(i, replay.i, replay.k)'
    <3>1. CASE r.kind = "ok"
      <4>1. PICK m \in 1..(n + 1) : m = n + 1
        BY <1>2
      <4>2. TelOk(m, replay.i, replay.k)'
        BY <1>1, <3>1, <4>1 DEF TelOk
      <4> QED
        BY <4>2
    <3>2. CASE r.kind # "ok"
      <4>1. PICK i \in 1..n : TelOk(i, replay.i, replay.k)
        BY <2>4, <3>2 DEF TelInv, n
      <4>2. i \in 1..(n + 1) /\ TelOk(i, replay.i, replay.k)'
        BY <1>2, <3>2, <4>1 DEF TelOk
      <4> QED
        BY <4>2
    <3> QED
      BY <3>1, <3>2
  <2> QED
    BY <1>1, <2>1, <2>2, <2>3, <2>4 DEF TelInv
<1>9. StaInv'
  <2>1. Sta' = Sta /\ Len(Sta)' = Len(Sta)
    BY DEF TelGrows
  <2>2. ASSUME NEW s, NEW k, \E j \in 1..n : TelOk(j, s, k)
        PROVE  \E j \in 1..(n + 1) : TelOk(j, s, k)'
    <3>1. PICK j \in 1..n : TelOk(j, s, k)
      BY <2>2
    <3>2. j \in 1..(n + 1) /\ TelOk(j, s, k)'
      BY <1>2, <3>1 DEF TelOk
    <3> QED
      BY <3>2
  <2>3. ASSUME NEW i \in 1..Len(Sta)
        PROVE  /\ Sta'[i].kind = "COMPLETED" =>
                    /\ Sta'[i].last = Rows /\ Sta'[i].ts = Rows
                    /\ \E j \in 1..(n + 1) : TelOk(j, Sta[i].s, Rows)'
               /\ Sta'[i].kind = "STOPPED" => Sta'[i].last = 0 /\ Sta'[i].ts = 0
    <3>1. /\ Sta[i].kind = "COMPLETED" =>
               /\ Sta[i].last = Rows /\ Sta[i].ts = Rows
               /\ \E j \in 1..n : TelOk(j, Sta[i].s, Rows)
          /\ Sta[i].kind = "STOPPED" => Sta[i].last = 0 /\ Sta[i].ts = 0
      BY DEF StaInv, n
    <3>2. (\E j \in 1..n : TelOk(j, Sta[i].s, Rows)) => \E j \in 1..(n + 1) : TelOk(j, Sta[i].s, Rows)'
      <4>1. PICK s : s = Sta[i].s
        OBVIOUS
      <4>2. Sta'[i].s = s
        BY <2>1, <4>1
      <4> QED
        BY <2>2, <4>1, <4>2
    <3> QED
      BY <2>1, <3>1, <3>2
  <2>4. \A s \in Session : s < replay'.i => \E i \in 1..Len(Sta) : Ends(i, s)'
    BY <2>1 DEF StaInv, Ends
  <2>5. /\ \A i \in 1..Len(Sta) : Sta'[i].kind \in Terminal => Sta'[i].s < replay'.i
        /\ \A i, j \in 1..Len(Sta) :
             i < j /\ Sta'[i].kind \in Terminal /\ Sta'[j].kind \in Terminal => Sta'[i].s < Sta'[j].s
    BY <2>1 DEF StaInv
  <2> QED
    BY <1>1, <2>1, <2>3, <2>4, <2>5 DEF StaInv
<1> QED
  BY <1>5, <1>8, <1>9

(* A status is published: the terminal one of the current session, or one  *)
(* that is not terminal.                                                   *)
LEMMA StaLog ==
  ASSUME LogType, TelInv, StaInv, NEW r \in StaRecord, StaGrows(r),
         \/ r.kind \notin Terminal /\ replay' = replay
         \/ /\ r.kind \in Terminal /\ r.s = replay.i /\ replay' = [i |-> replay.i + 1, k |-> 0]
            /\ r.kind = "COMPLETED" => replay.k = Rows /\ r.last = Rows /\ r.ts = Rows
            /\ r.kind = "STOPPED" => r.last = 0 /\ r.ts = 0
  PROVE  LogType' /\ TelInv' /\ StaInv'
<1> DEFINE n == Len(Sta)
<1>1. /\ Grown /\ Tel' \in Seq(TelRecord) /\ Sta' \in Seq(StaRecord)
      /\ Len(Sta)' = n + 1 /\ Sta'[n + 1] = r /\ Tel' = Tel /\ Len(Tel)' = Len(Tel)
  BY StaGrown DEF StaGrows
<1>2. n \in Nat /\ \A i \in 1..n : Sta'[i] = Sta[i]
  BY <1>1 DEF Grown
<1>3. \A i \in 1..(n + 1) : i \in 1..n \/ i = n + 1
  BY <1>2
<1>4. /\ replay.i \in Nat /\ replay.i >= 1 /\ replay.k \in 0..Rows /\ r.s \in Session
      /\ Rows \in Nat \ {0} /\ Sessions \in Nat /\ r.s \in Nat /\ r.s <= Sessions
      /\ replay.i <= Sessions + 1
  BY ONLY WorkerAssumption, LogType, r \in StaRecord DEF LogType, StaRecord, Session
<1>5. replay' \in [i : Nat \ {0}, k : 0..Rows] /\ replay'.i <= Sessions + 1 /\ replay.i <= replay'.i
  <2>1. CASE replay' = replay
    BY <1>4, <2>1 DEF LogType
  <2>2. CASE r.s = replay.i /\ replay' = [i |-> replay.i + 1, k |-> 0]
    BY <1>4, <2>2
  <2> QED
    BY <2>1, <2>2
<1>6. LogType'
  BY <1>1, <1>5 DEF LogType, StaGrows
<1>7. \A i \in 1..Len(Tel) : Tel[i] \in TelRecord
  BY DEF LogType
<1>8. \A i \in 1..Len(Tel) : Tel[i].s \in Nat /\ Tel[i].k \in Nat
  BY <1>7, WorkerAssumption DEF TelRecord, Session
<1>9. TelInv'
  <2>1. CASE replay' = replay
    BY <1>1, <2>1 DEF TelInv, TelOk
  <2>2. CASE replay' = [i |-> replay.i + 1, k |-> 0]
    <3>1. \A i \in 1..Len(Tel) :
            /\ Tel'[i].s <= replay'.i /\ (Tel'[i].kind = "ok" => Tel'[i].k >= 1)
            /\ Tel'[i].s # replay'.i
      <4> SUFFICES ASSUME NEW i \in 1..Len(Tel)
                   PROVE  /\ Tel'[i].s <= replay'.i /\ (Tel'[i].kind = "ok" => Tel'[i].k >= 1)
                          /\ Tel'[i].s # replay'.i
        OBVIOUS
      <4>1. Tel[i].s <= replay.i /\ (Tel[i].kind = "ok" => Tel[i].k >= 1)
        BY DEF TelInv
      <4> QED
        BY ONLY <1>1, <1>4, <1>8, <2>2, <4>1, i \in 1..Len(Tel)
    <3>2. ~(replay'.k > 0)
      BY <2>2
    <3> QED
      BY <1>1, <3>1, <3>2 DEF TelInv, TelOk
  <2> QED
    BY <2>1, <2>2
<1>10. \A i \in 1..n : Sta[i] \in StaRecord
  BY <1>2 DEF LogType
<1>11. \A i \in 1..n : Sta[i].s \in Nat
  BY ONLY <1>10, WorkerAssumption DEF StaRecord, Session
<1> HIDE DEF n
<1>12. StaInv'
  <2>1. ASSUME NEW i \in 1..(n + 1), Sta'[i].kind \in Terminal
        PROVE  Sta'[i].s < replay'.i
    <3>1. CASE i = n + 1
      BY <1>1, <1>4, <2>1, <3>1
    <3>2. CASE i \in 1..n
      <4>1. Sta[i].s < replay.i
        BY <1>2, <2>1, <3>2 DEF StaInv, n
      <4> QED
        BY <1>2, <1>4, <1>5, <1>11, <3>2, <4>1
    <3> QED
      BY <1>3, <3>1, <3>2
  <2>2. ASSUME NEW i \in 1..(n + 1), NEW j \in 1..(n + 1), i < j,
               Sta'[i].kind \in Terminal, Sta'[j].kind \in Terminal
        PROVE  Sta'[i].s < Sta'[j].s
    <3>0. i \in 1..n
      BY <1>2, <2>2
    <3>1. CASE j = n + 1
      <4>1. Sta[i].s < replay.i
        BY <1>2, <2>2, <3>0 DEF StaInv, n
      <4>2. r.s = replay.i /\ Sta'[j] = r
        BY <1>1, <2>2, <3>1
      <4> QED
        BY <1>2, <3>0, <4>1, <4>2
    <3>2. CASE j \in 1..n
      BY <1>2, <2>2, <3>0, <3>2 DEF StaInv, n
    <3> QED
      BY <1>3, <3>1, <3>2
  <2>3. ASSUME NEW s \in Session, s < replay'.i
        PROVE  \E i \in 1..(n + 1) : Ends(i, s)'
    <3>1. CASE s < replay.i
      <4>1. PICK i \in 1..n : Ends(i, s)
        BY <3>1 DEF StaInv, n
      <4>2. i \in 1..(n + 1) /\ Ends(i, s)'
        BY <1>2, <4>1 DEF Ends
      <4> QED
        BY <4>2
    <3>2. CASE ~(s < replay.i)
      <4>1. r.kind \in Terminal /\ r.s = s
        BY <1>4, <2>3, <3>2 DEF Session
      <4>2. PICK m \in 1..(n + 1) : m = n + 1
        BY <1>2
      <4>3. Ends(m, s)'
        BY <1>1, <4>1, <4>2 DEF Ends
      <4> QED
        BY <4>3
    <3> QED
      BY <3>1, <3>2
  <2>4. ASSUME NEW i \in 1..(n + 1)
        PROVE  /\ Sta'[i].kind = "COMPLETED" =>
                    /\ Sta'[i].last = Rows /\ Sta'[i].ts = Rows
                    /\ \E j \in 1..Len(Tel) : TelOk(j, Sta[i].s, Rows)'
               /\ Sta'[i].kind = "STOPPED" => Sta'[i].last = 0 /\ Sta'[i].ts = 0
    <3>1. CASE i = n + 1
      <4>1. Sta'[i] = r
        BY <1>1, <3>1
      <4>2. ASSUME r.kind = "COMPLETED"
            PROVE  r.last = Rows /\ r.ts = Rows /\ \E j \in 1..Len(Tel) : TelOk(j, Sta[i].s, Rows)'
        <5>1. r.s = replay.i /\ replay.k = Rows /\ r.last = Rows /\ r.ts = Rows
          BY <4>2 DEF Terminal
        <5>2. PICK j \in 1..Len(Tel) : TelOk(j, replay.i, replay.k)
          BY <1>4, <5>1 DEF TelInv
        <5>3. TelOk(j, Sta[i].s, Rows)'
          BY <1>1, <4>1, <5>1, <5>2 DEF TelOk
        <5> QED
          BY <5>1, <5>3
      <4>3. r.kind = "STOPPED" => r.last = 0 /\ r.ts = 0
        BY DEF Terminal
      <4> QED
        BY <4>1, <4>2, <4>3
    <3>2. CASE i \in 1..n
      BY <1>1, <1>2, <3>2 DEF StaInv, n, TelOk
    <3> QED
      BY <1>3, <3>1, <3>2
  <2> QED
    BY <1>1, <2>1, <2>2, <2>3, <2>4 DEF StaInv
<1> QED
  BY <1>6, <1>9, <1>12

(* Whether a record decodes does not change once it has been published. *)
LEMMA NoBadKept ==
  ASSUME Grown, NEW i \in Nat, i <= Len(Tel)
  PROVE  NoBad(i)' <=> NoBad(i)
<1>1. \A j \in 1..i : Tel'[j] = Tel[j]
  BY DEF Grown
<1> QED
  BY <1>1 DEF NoBad

(* The offsets of the two topics. *)
LEMMA LogDomain ==
  ASSUME LogType
  PROVE  /\ Len(Tel) \in Nat /\ DOMAIN Tel = 1..Len(Tel) /\ \A i \in 1..Len(Tel) : Tel[i] \in TelRecord
         /\ Len(Sta) \in Nat /\ DOMAIN Sta = 1..Len(Sta) /\ \A i \in 1..Len(Sta) : Sta[i] \in StaRecord
BY DEF LogType

(* The steps of the replay service leave the worker alone, and what it has *)
(* read.                                                                   *)
LEMMA EnvironmentKeeps ==
  ASSUME IInv, Environment, Grown, LogType', replay.i <= replay'.i,
         \A i \in 1..Len(Tel)' : i > Len(Tel) => Tel'[i].s = replay.i
  PROVE  /\ MemType' /\ FailInv' /\ TermInv' /\ OffsInv' /\ SessionInv' /\ JobType' /\ JobInv'
         /\ DoneInv' /\ CommitInv' /\ ScoreInv'
<1> USE DEF Environment
<1>1. /\ LogType /\ MemType /\ FailInv /\ TermInv /\ OffsInv /\ SessionInv /\ JobType /\ JobInv
      /\ DoneInv /\ CommitInv /\ ScoreInv
  BY DEF IInv
<1>2. /\ w' = w /\ job' = job /\ exit' = exit /\ offsets' = offsets
      /\ scores' = scores /\ emitted' = emitted /\ features' = features
  OBVIOUS
<1>3. /\ w.pos["telemetry"] \in Nat /\ w.pos["status"] \in Nat
      /\ w.pos["telemetry"] <= Len(Tel) /\ w.pos["status"] <= Len(Sta)
      /\ Len(Tel) \in Nat /\ Len(Sta) \in Nat
  BY <1>1, LogDomain DEF MemType, Topics
<1>4. /\ \A i \in 1..w.pos["telemetry"] : Tel'[i] = Tel[i]
      /\ \A i \in 1..w.pos["status"] : Sta'[i] = Sta[i]
  BY <1>3 DEF Grown
<1>5. /\ DOMAIN Sta = 1..Len(Sta) /\ (DOMAIN Sta)' = 1..(Len(Sta)')
      /\ \A i \in DOMAIN Sta : i \in (DOMAIN Sta)' /\ Sta'[i] = Sta[i]
  <2>1. DOMAIN Sta = 1..Len(Sta) /\ (DOMAIN Sta)' = 1..(Len(Sta)')
    BY <1>1, LogDomain DEF LogType
  <2> QED
    BY <2>1 DEF Grown
<1>6. \A i \in Nat : i <= w.pos["telemetry"] => (NoBad(i)' <=> NoBad(i))
  BY <1>3, NoBadKept
<1>7. MemType'
  <2>1. w.pos["telemetry"] <= Len(Tel)' /\ w.pos["status"] <= Len(Sta)'
    BY <1>3 DEF Grown
  <2> QED
    BY <1>1, <1>2, <2>1 DEF MemType
<1>8. FailInv'
  <2>1. \A i \in w.own : i \in 1..(Len(Sta)') /\ Sta'[i].kind = "FAILED"
    BY <1>1, <1>5 DEF FailInv
  <2>2. \A s \in w.failed : FailedSession(s)'
    BY <1>1, <1>5 DEF FailInv, FailedSession, Sta
  <2> QED
    BY <1>1, <1>2, <1>3, <1>6, <2>1, <2>2 DEF FailInv
<1>9. TermInv'
  BY <1>1, <1>2, <1>4 DEF TermInv
<1>10. OffsInv'
  <2> SUFFICES ASSUME NEW s \in Session
               PROVE  LET j == w.offs[s]["telemetry"]
                      IN  /\ j = 0 <=> w.last[s] = 0
                          /\ j > 0 => /\ j <= w.pos["telemetry"] /\ NoBad(j)'
                                      /\ TelOk(j, s, w.last[s])'
    BY <1>2 DEF OffsInv
  <2> DEFINE j == w.offs[s]["telemetry"]
  <2>1. /\ j = 0 <=> w.last[s] = 0
        /\ j > 0 => j <= w.pos["telemetry"] /\ NoBad(j) /\ TelOk(j, s, w.last[s])
    BY <1>1 DEF OffsInv
  <2>2. j \in Nat
    BY <1>1 DEF MemType, Topics
  <2>3. ASSUME j > 0 PROVE j <= w.pos["telemetry"] /\ NoBad(j)' /\ TelOk(j, s, w.last[s])'
    <3>1. j \in 1..w.pos["telemetry"]
      BY <1>3, <2>1, <2>2, <2>3
    <3>2. Tel'[j] = Tel[j]
      BY <1>4, <3>1
    <3> QED
      BY <1>2, <1>6, <2>1, <2>2, <2>3, <3>2 DEF TelOk
  <2> QED
    BY <2>1, <2>3
<1>11. \A s : Closed(s)' = Closed(s)
  BY <1>2 DEF Closed
<1>12. ASSUME NEW s \in Session, Attached(s) PROVE Attached(s)'
  <2>1. \A e \in Nat : Pending(s, e) => Pending(s, e)'
    BY <1>2 DEF Pending
  <2>2. w.builders[s].complete => w.term[s].kind = "COMPLETED"
    BY <1>12 DEF Attached, BuilderInv, BuilderAt, new_builder
  <2>3. \A i \in 1..w'.pos["telemetry"] : ~(i > w.pos["telemetry"])
    BY <1>2, <1>3
  <2> QED
    BY <1>2, <1>3, <1>12, <2>1, <2>2, <2>3, AttachedKept
<1>13. SessionInv'
  <2> SUFFICES ASSUME NEW s \in Session \ w.failed PROVE Attached(s)' \/ Detached(s)'
    BY <1>2 DEF SessionInv
  <2>1. CASE Attached(s)
    BY <1>12, <2>1
  <2>2. CASE Detached(s)
    <3>1. w.term[s].kind = "none" /\ s < replay.i /\ s \in Nat
      BY <2>2 DEF Detached, Session
    <3>2. replay.i \in Nat /\ replay'.i \in Nat
      BY <1>1 DEF LogType
    <3>3. \A i \in 1..Len(Tel)' : i > Len(Tel) => Tel'[i].s # s
      BY <3>1, <3>2
    <3> QED
      BY <1>2, <1>3, <2>2, <3>1, <3>2, <3>3, DetachedKept
  <2> QED
    BY <1>1, <2>1, <2>2 DEF SessionInv
<1>14. JobType' /\ JobInv'
  <2>1. JobType'
    BY <1>1, <1>2 DEF JobType
  <2>2. JobInv'
    BY <1>1, <1>2, <1>11, <1>12 DEF JobInv
  <2> QED
    BY <2>1, <2>2
<1>15. \A s : Settled(s) => Settled(s)'
  BY <1>2, <1>5, SettledKept
<1>16. DoneInv'
  <2>1. \A s : Busy(s)' <=> Busy(s)
    BY <1>2 DEF Busy
  <2>2. \A i \in 1..w.pos["status"] :
          Sta'[i].kind = "COMPLETED" /\ w.term[Sta'[i].s].kind /= "COMPLETED" => Settled(Sta[i].s)'
    <3> SUFFICES ASSUME NEW i \in 1..w.pos["status"], Sta'[i].kind = "COMPLETED",
                        w.term[Sta'[i].s].kind /= "COMPLETED"
                 PROVE  Settled(Sta[i].s)'
      OBVIOUS
    <3>1. PICK s : s = Sta[i].s /\ s = Sta'[i].s
      BY <1>4
    <3>2. Settled(s)
      BY <1>1, <1>4, <3>1 DEF DoneInv
    <3>3. Settled(s)'
      BY <1>15, <3>2
    <3> QED
      BY <3>1, <3>3
  <2> QED
    BY <1>1, <1>2, <1>15, <2>1, <2>2 DEF DoneInv
<1>17. CommitInv'
  <2>1. /\ offsets \in [Topics -> Nat] /\ offsets["telemetry"] \in Nat /\ offsets["status"] \in Nat
        /\ offsets["telemetry"] <= w.pos["telemetry"] /\ offsets["status"] <= w.pos["status"]
    BY <1>1 DEF CommitInv, Topics
  <2>2. \A i \in 1..offsets["status"] : Sta'[i] = Sta[i]
    BY <1>3, <1>4, <2>1
  <2>3. \A i \in 1..offsets["status"] : Sta'[i].kind = "COMPLETED" => Settled(Sta[i].s)'
    <3> SUFFICES ASSUME NEW i \in 1..offsets["status"], Sta'[i].kind = "COMPLETED"
                 PROVE  Settled(Sta[i].s)'
      OBVIOUS
    <3>1. PICK s : s = Sta[i].s /\ s = Sta'[i].s
      BY <2>2
    <3>2. Settled(s)
      BY <1>1, <2>2, <3>1 DEF CommitInv
    <3>3. Settled(s)'
      BY <1>15, <3>2
    <3> QED
      BY <3>1, <3>3
  <2>4. ASSUME offsets["telemetry"] > 0
        PROVE  /\ Tel'[offsets["telemetry"]] = Tel[offsets["telemetry"]]
               /\ NoBad(offsets["telemetry"])' <=> NoBad(offsets["telemetry"])
    BY <1>2, <1>4, <1>6, <2>1, <2>4
  <2>5. ASSUME NEW s, \E i \in 1..offsets["status"] : Ends(i, s)
        PROVE  \E i \in 1..offsets["status"] : Ends(i, s)'
    BY <2>2, <2>5 DEF Ends
  <2>6. ASSUME offsets["telemetry"] > 0
        PROVE  LET r == Tel'[offsets["telemetry"]]
               IN  /\ r.kind = "ok" /\ r.k = Rows /\ NoBad(offsets["telemetry"])'
                   /\ \E i \in 1..offsets["status"] : Ends(i, Tel[offsets["telemetry"]].s)'
    <3>1. PICK r : r = Tel[offsets["telemetry"]] /\ r = Tel'[offsets["telemetry"]]
      BY <2>4, <2>6
    <3>2. /\ r.kind = "ok" /\ r.k = Rows /\ NoBad(offsets["telemetry"])
          /\ \E i \in 1..offsets["status"] : Ends(i, r.s)
      BY <1>1, <2>6, <3>1 DEF CommitInv
    <3>3. \E i \in 1..offsets["status"] : Ends(i, r.s)'
      BY <2>5, <3>2
    <3> QED
      BY <1>2, <2>4, <2>6, <3>1, <3>2, <3>3
  <2> QED
    BY <1>2, <2>1, <2>3, <2>6 DEF CommitInv
<1>18. ScoreInv'
  BY <1>1, <1>2 DEF ScoreInv
<1> QED
  BY <1>7, <1>8, <1>9, <1>10, <1>13, <1>14, <1>16, <1>17, <1>18

(* The replay service publishes a row, the same row again, or one that     *)
(* does not decode.                                                        *)
LEMMA PublishSteps ==
  ASSUME IInv, PublishRow \/ RepublishRow \/ PublishFault
  PROVE  IInv'
<1>1. LogType /\ TelInv /\ StaInv
  BY DEF IInv
<1>2. /\ replay \in [i : Nat \ {0}, k : 0..Rows] /\ replay.i \in Nat \ {0} /\ replay.k \in 0..Rows
      /\ Rows \in Nat \ {0} /\ Sessions \in Nat
  BY <1>1, WorkerAssumption DEF LogType
<1>3. ASSUME NEW r \in TelRecord, TelGrows(r), r.s = replay.i, Environment,
             LogType', TelInv', StaInv', replay'.i = replay.i
      PROVE  IInv'
  <2>1. /\ Grown /\ Len(Tel)' = Len(Tel) + 1 /\ Tel'[Len(Tel) + 1] = r
    BY <1>1, <1>3, TelGrown
  <2>2. \A i \in 1..Len(Tel)' : i > Len(Tel) => Tel'[i].s = replay.i
    BY <1>3, <2>1 DEF Grown
  <2>3. replay.i <= replay'.i
    BY <1>2, <1>3
  <2> QED
    BY <1>3, <2>1, <2>2, <2>3, EnvironmentKeeps DEF IInv
<1>4. ASSUME Running PROVE replay.i \in Session
  BY <1>2, <1>4 DEF Running, Session
<1>5. CASE PublishRow
  <2> DEFINE r == [s |-> replay.i, kind |-> "ok", k |-> replay.k + 1]
  <2>1. r \in TelRecord
    BY <1>2, <1>4, <1>5 DEF PublishRow, TelRecord
  <2>2. TelGrows(r)
    BY <1>1, <1>5, LogAppend DEF PublishRow, Current
  <2>3. replay' = [replay EXCEPT !.k = @ + 1] /\ replay.k < Rows
    BY <1>5 DEF PublishRow
  <2>4. replay'.i = replay.i /\ replay'.k = replay.k + 1 /\ replay' \in [i : Nat \ {0}, k : 0..Rows]
    BY <1>2, <2>3
  <2>5. LogType' /\ TelInv' /\ StaInv'
    BY <1>1, <2>1, <2>2, <2>4, TelLog
  <2> QED
    BY <1>3, <1>5, <2>1, <2>2, <2>4, <2>5 DEF PublishRow
<1>6. CASE RepublishRow
  <2> DEFINE r == [s |-> replay.i, kind |-> "ok", k |-> replay.k]
  <2>1. r \in TelRecord
    BY <1>2, <1>4, <1>6 DEF RepublishRow, TelRecord
  <2>2. TelGrows(r)
    BY <1>1, <1>6, LogAppend DEF RepublishRow, Current
  <2>3. replay' = replay /\ replay.k > 0
    BY <1>6 DEF RepublishRow
  <2>5. LogType' /\ TelInv' /\ StaInv'
    BY <1>1, <1>2, <2>1, <2>2, <2>3, TelLog
  <2> QED
    BY <1>3, <1>6, <2>1, <2>2, <2>3, <2>5 DEF RepublishRow
<1>7. CASE PublishFault
  <2>1. PICK kind \in Faults, t \in Topics :
          /\ kind = "foreign" => t = "telemetry"
          /\ log' = [log EXCEPT ![t] =
               Append(@, IF t = "telemetry" THEN [s |-> replay.i, kind |-> kind, k |-> replay.k]
                         ELSE [s |-> replay.i, kind |-> kind, last |-> 0, ts |-> 0])]
    BY <1>7 DEF PublishFault, Current
  <2>2. replay' = replay /\ Environment /\ replay.i \in Session
    BY <1>4, <1>7 DEF PublishFault
  <2>3. kind \in {"bad", "foreign"} /\ t \in {"telemetry", "status"}
    BY WorkerAssumption DEF Topics
  <2>4. CASE t = "telemetry"
    <3> DEFINE r == [s |-> replay.i, kind |-> kind, k |-> replay.k]
    <3>1. r \in TelRecord
      BY <1>2, <2>2, <2>3 DEF TelRecord
    <3>2. TelGrows(r)
      BY <1>1, <2>1, <2>4, LogAppend
    <3>3. r.kind # "ok"
      BY <2>3
    <3>5. LogType' /\ TelInv' /\ StaInv'
      BY <1>1, <1>2, <2>2, <3>1, <3>2, <3>3, TelLog
    <3> QED
      BY <1>3, <2>2, <3>1, <3>2, <3>5
  <2>5. CASE t = "status"
    <3> DEFINE r == [s |-> replay.i, kind |-> kind, last |-> 0, ts |-> 0]
    <3>1. r \in StaRecord /\ r.kind \notin Terminal
      BY <1>2, <2>1, <2>2, <2>3, <2>5 DEF StaRecord, Terminal
    <3>2. StaGrows(r)
      BY <1>1, <2>1, <2>5, LogAppend
    <3>3. LogType' /\ TelInv' /\ StaInv'
      BY <1>1, <2>2, <3>1, <3>2, StaLog
    <3>4. Grown /\ Len(Tel)' = Len(Tel) /\ Len(Tel) \in Nat
      BY <1>1, <3>1, <3>2, StaGrown, LogDomain DEF StaGrows
    <3>5. \A i \in 1..Len(Tel)' : i > Len(Tel) => Tel'[i].s = replay.i
      BY <3>4
    <3>6. replay.i <= replay'.i
      BY <1>2, <2>2
    <3> QED
      BY <2>2, <3>3, <3>4, <3>5, <3>6, EnvironmentKeeps DEF IInv
  <2> QED
    BY <2>3, <2>4, <2>5
<1> QED
  BY <1>5, <1>6, <1>7

(* The replay service ends a session. *)
LEMMA EndSessionStep ==
  ASSUME IInv, EndSession
  PROVE  IInv'
<1>1. LogType /\ TelInv /\ StaInv
  BY DEF IInv
<1>2. /\ replay.i \in Nat \ {0} /\ replay.k \in 0..Rows /\ Rows \in Nat \ {0} /\ Sessions \in Nat
  BY <1>1, WorkerAssumption DEF LogType
<1>3. replay.i \in Session /\ Environment /\ replay' = [i |-> replay.i + 1, k |-> 0]
  BY <1>2 DEF EndSession, Running, Session
<1>4. PICK state \in Endings :
        /\ state = "COMPLETED" => replay.k = Rows
        /\ log' = [log EXCEPT !["status"] =
             Append(@, [s |-> replay.i, kind |-> state,
                        last |-> IF state = "STOPPED" THEN 0 ELSE replay.k,
                        ts |-> IF state = "STOPPED" THEN 0 ELSE replay.k])]
  BY DEF EndSession, Current, StopTime
<1>5. state \in Terminal
  BY WorkerAssumption DEF Terminal
<1> DEFINE r == [s |-> replay.i, kind |-> state,
                 last |-> IF state = "STOPPED" THEN 0 ELSE replay.k,
                 ts |-> IF state = "STOPPED" THEN 0 ELSE replay.k]
<1>6. r \in StaRecord
  BY <1>2, <1>3, <1>5 DEF StaRecord
<1>7. StaGrows(r)
  BY <1>1, <1>4, LogAppend
<1>8. /\ r.kind \in Terminal /\ r.s = replay.i
      /\ r.kind = "COMPLETED" => replay.k = Rows /\ r.last = Rows /\ r.ts = Rows
      /\ r.kind = "STOPPED" => r.last = 0 /\ r.ts = 0
  BY <1>4, <1>5
<1> HIDE DEF r
<1>9. LogType' /\ TelInv' /\ StaInv'
  BY <1>1, <1>3, <1>6, <1>7, <1>8, StaLog
<1>10. Grown /\ Len(Tel)' = Len(Tel) /\ Len(Tel) \in Nat
  BY <1>1, <1>6, <1>7, StaGrown, LogDomain DEF StaGrows
<1>11. \A i \in 1..Len(Tel)' : i > Len(Tel) => Tel'[i].s = replay.i
  BY <1>10
<1>12. replay.i <= replay'.i
  BY <1>2, <1>3
<1> QED
  BY <1>3, <1>9, <1>10, <1>11, <1>12, EnvironmentKeeps DEF IInv

-----------------------------------------------------------------------------
(* The worker's steps.                                                     *)

LEMMA SameLog ==
  ASSUME IInv, UNCHANGED <<log, replay>>
  PROVE  /\ Grown /\ LogType' /\ TelInv' /\ StaInv' /\ Tel' = Tel /\ Sta' = Sta
         /\ DOMAIN Sta = 1..Len(Sta) /\ (DOMAIN Sta)' = 1..(Len(Sta)')
<1>1. LogType /\ TelInv /\ StaInv /\ log' = log /\ replay' = replay
  BY DEF IInv
<1>2. Tel' = Tel /\ Sta' = Sta
  BY <1>1 DEF Tel, Sta
<1>3. LogType'
  BY <1>1, <1>2 DEF LogType
<1>4. TelInv' /\ StaInv'
  BY <1>1, <1>2 DEF TelInv, StaInv, TelOk, Ends
<1>5. Grown
  BY <1>1, <1>2, LogDomain DEF Grown
<1> QED
  BY <1>1, <1>2, <1>3, <1>4, <1>5, LogDomain

(* Publishing a window, a scoring attempt that fails, a death: none of     *)
(* them changes what the worker knows.                                     *)
LEMMA QuietSteps ==
  ASSUME IInv, _process_feature \/ score \/ Death
  PROVE  IInv'
<1>1. /\ LogType /\ MemType /\ FailInv /\ TermInv /\ OffsInv /\ SessionInv /\ JobType /\ JobInv
      /\ DoneInv /\ CommitInv /\ ScoreInv
  BY DEF IInv
<1>2. /\ w' = w /\ offsets' = offsets /\ scores' = scores /\ emitted' = emitted
      /\ log' = log /\ replay' = replay
  BY DEF _process_feature, score, Death, Upstream
<1>3. /\ Grown /\ LogType' /\ TelInv' /\ StaInv' /\ Tel' = Tel /\ Sta' = Sta
      /\ DOMAIN Sta = 1..Len(Sta) /\ (DOMAIN Sta)' = 1..(Len(Sta)')
  BY <1>2, SameLog
<1>4. job = [s |-> job.s, todo |-> job.todo, attempt |-> job.attempt, then |-> job.then]
  BY <1>1 DEF JobType
<1>5. /\ job'.s = job.s /\ job'.todo = job.todo /\ job'.then = job.then /\ job'.attempt \in Nat
      /\ job' = [s |-> job'.s, todo |-> job'.todo, attempt |-> job'.attempt, then |-> job'.then]
      /\ exit' = "none" => exit = "none"
  BY <1>1, <1>4 DEF _process_feature, score, Death, JobType
<1>6. MemType' /\ FailInv' /\ TermInv' /\ OffsInv'
  <2>1. MemType'
    BY <1>1, <1>2, <1>3 DEF MemType
  <2>2. FailInv'
    BY <1>1, <1>2, <1>3 DEF FailInv, FailedSession, NoBad
  <2>3. TermInv' /\ OffsInv'
    BY <1>1, <1>2, <1>3 DEF TermInv, OffsInv, NoBad, TelOk
  <2> QED
    BY <2>1, <2>2, <2>3
<1>7. \A s : Attached(s)' <=> Attached(s)
  <2>1. \A s, e : Pending(s, e)' <=> Pending(s, e)
    BY <1>5 DEF Pending
  <2>2. \A s : (Closed(s)' = Closed(s)) /\ (BuilderInv(s)' <=> BuilderInv(s))
    BY <1>2 DEF Closed, BuilderInv
  <2>3. \A i : NoBad(i)' <=> NoBad(i)
    BY <1>3 DEF NoBad
  <2> QED
    BY <1>2, <1>3, <2>1, <2>2, <2>3 DEF Attached
<1>8. \A s : Detached(s)' <=> Detached(s)
  BY <1>2, <1>3 DEF Detached, Ends
<1>9. SessionInv'
  BY <1>1, <1>2, <1>7, <1>8 DEF SessionInv
<1>10. JobType'
  BY <1>1, <1>5 DEF JobType
<1>11. JobInv'
  <2>1. \A s : Closed(s)' = Closed(s)
    BY <1>2 DEF Closed
  <2> QED
    BY <1>1, <1>2, <1>5, <1>7, <2>1 DEF JobInv
<1>12. \A s : (Settled(s) => Settled(s)') /\ (Busy(s)' <=> Busy(s))
  <2>1. \A s : Settled(s) => Settled(s)'
    BY <1>2, <1>3, SettledKept
  <2> QED
    BY <1>5, <2>1 DEF Busy
<1>13. DoneInv'
  BY <1>1, <1>2, <1>3, <1>12 DEF DoneInv
<1>14. CommitInv'
  BY <1>1, <1>2, <1>3, <1>12 DEF CommitInv, NoBad, Ends
<1>15. ScoreInv'
  <2>1. ASSUME NEW f \in features', f \notin features
        PROVE  f.s \in Session /\ \E e \in Nat : Due(e) /\ f = Score(f.s, e)
    <3>1. f = Feature /\ Scoring /\ exit = "none"
      BY <2>1 DEF _process_feature, score, Death, Scoring
    <3>2. PICK e \in Nat : Due(e) /\ job.todo = <<Window(e)>>
      BY <1>1, <3>1 DEF JobType, Scoring
    <3>3. job.s \in Session
      BY <1>1, <3>1, <3>2 DEF JobInv
    <3>6. Head(job.todo) = Window(e) /\ Window(e).end = e
      BY <3>2 DEF Window
    <3>4. f = Score(job.s, e)
      BY <3>1, <3>6 DEF Feature, Score
    <3>5. f.s = job.s
      BY <3>4 DEF Score
    <3> QED
      BY <3>2, <3>3, <3>4, <3>5
  <2> QED
    BY <1>1, <1>2, <2>1 DEF ScoreInv
<1> QED
  BY <1>3, <1>6, <1>9, <1>10, <1>11, <1>13, <1>14, <1>15 DEF IInv

(* The end of the last closed bin is a number. *)
LEMMA ClosedType ==
  ASSUME MemType, NEW s \in Session
  PROVE  Closed(s) \in Int
<1>1. Stride \in Nat /\ Rows \in Nat /\ w.last[s] \in Nat
  BY BuilderAssumption, WorkerAssumption DEF MemType
<1>2. _compute_bin_end(Rows) \in Nat /\ _compute_bin_end(w.last[s]) \in Nat
  BY <1>1, BinEnd
<1>3. _compute_bin_end(w.last[s]) - Stride \in Int
  BY <1>1, <1>2
<1> QED
  BY <1>2, <1>3 DEF Closed

(* Two windows with the same end are one. *)
LEMMA WindowEnd ==
  ASSUME NEW d, NEW e, <<Window(d)>> = <<Window(e)>>
  PROVE  d = e
<1>1. Window(d) = Window(e) /\ Window(d).end = d /\ Window(e).end = e
  BY DEF Window
<1> QED
  BY <1>1

(* The decision of the window under way is published. *)
LEMMA ScoreStep ==
  ASSUME IInv, _validated_decision
  PROVE  IInv'
<1>1. /\ LogType /\ MemType /\ FailInv /\ TermInv /\ OffsInv /\ SessionInv /\ JobType /\ JobInv
      /\ DoneInv /\ CommitInv /\ ScoreInv
  BY DEF IInv
<1>2. /\ w' = w /\ offsets' = offsets /\ exit' = exit /\ features' = features
      /\ log' = log /\ replay' = replay /\ exit = "none" /\ job.todo # <<>>
  BY DEF _validated_decision, Upstream, Scoring
<1>3. /\ Grown /\ LogType' /\ TelInv' /\ StaInv' /\ Tel' = Tel /\ Sta' = Sta
      /\ DOMAIN Sta = 1..Len(Sta) /\ (DOMAIN Sta)' = 1..(Len(Sta)')
  BY <1>2, SameLog
<1>4. PICK d \in Nat : Due(d) /\ job.todo = <<Window(d)>>
  BY <1>1, <1>2 DEF JobType
<1>5. PICK s \in Session \ w.failed :
        job.s = s /\ Attached(s) /\ emitted[s] < d /\ d <= Closed(s)
  BY <1>1, <1>2, <1>4 DEF JobInv
<1>6. Feature = Score(s, d) /\ Feature.end = d
  <2>1. Head(job.todo) = Window(d) /\ Window(d).end = d
    BY <1>4 DEF Window
  <2> QED
    BY <1>5, <2>1 DEF Feature, Score
<1>7. /\ scores' = scores \cup {Score(s, d)} /\ emitted' = [emitted EXCEPT ![s] = d]
      /\ job' = [job EXCEPT !.todo = <<>>, !.attempt = 0]
  <2>1. Tail(job.todo) = <<>>
    BY <1>4
  <2> QED
    BY <1>5, <1>6, <2>1 DEF _validated_decision
<1>8. /\ job'.s = s /\ job'.todo = <<>> /\ job'.then = job.then /\ job'.attempt = 0
      /\ job' = [s |-> job'.s, todo |-> job'.todo, attempt |-> job'.attempt, then |-> job'.then]
  <2>1. job = [s |-> job.s, todo |-> job.todo, attempt |-> job.attempt, then |-> job.then]
    BY <1>1 DEF JobType
  <2> QED
    BY <1>5, <1>7, <2>1
<1>9. emitted \in [Session -> Nat] /\ emitted' \in [Session -> Nat] /\ emitted'[s] = d
      /\ \A t \in Session : t # s => emitted'[t] = emitted[t]
  BY <1>1, <1>7 DEF ScoreInv
<1>10. MemType' /\ FailInv' /\ TermInv' /\ OffsInv'
  <2>1. MemType'
    BY <1>1, <1>2, <1>3 DEF MemType
  <2>2. FailInv'
    BY <1>1, <1>2, <1>3 DEF FailInv, FailedSession, NoBad
  <2>3. TermInv' /\ OffsInv'
    BY <1>1, <1>2, <1>3 DEF TermInv, OffsInv, NoBad, TelOk
  <2> QED
    BY <2>1, <2>2, <2>3
<1>11. \A e \in Nat : Due(e) /\ e < d => e <= emitted[s] /\ Score(s, e) \in scores
  <2> SUFFICES ASSUME NEW e \in Nat, Due(e), e < d
               PROVE  e <= emitted[s] /\ Score(s, e) \in scores
    OBVIOUS
  <2>0. Closed(s) \in Int
    BY <1>1, ClosedType
  <2>1. e <= Closed(s)
    BY <1>5, <2>0
  <2>2. e <= emitted[s]
    <3> SUFFICES ASSUME Pending(s, e) PROVE FALSE
      BY <1>5, <2>1 DEF Attached
    <3> QED
      BY <1>4, WindowEnd DEF Pending
  <2> QED
    BY <1>5, <2>2 DEF Attached
<1>12. \A t : Closed(t)' = Closed(t)
  BY <1>2 DEF Closed
<1>13. ASSUME NEW t \in Session, Attached(t) PROVE Attached(t)'
  <2>1. CASE t = s
    <3>1. \A i : NoBad(i)' <=> NoBad(i)
      BY <1>3 DEF NoBad
    <3>2. BuilderInv(s)'
      BY <1>2, <1>5 DEF Attached, BuilderInv
    <3>3. \A e \in Nat : Due(e) /\ e <= d => Score(s, e) \in scores'
      BY <1>7, <1>11
    <3>4. ASSUME NEW e \in Nat, Due(e), e <= Closed(s) PROVE e <= d
      <4>1. emitted[s] \in Nat
        BY <1>9
      <4>2. CASE e <= emitted[s]
        BY <1>5, <4>1, <4>2
      <4>3. CASE Pending(s, e)
        BY <1>4, <4>3, WindowEnd DEF Pending
      <4> QED
        BY <1>5, <3>4, <4>2, <4>3 DEF Attached
    <3>5. \A i \in 1..w.pos["telemetry"] :
            NoBad(i)' /\ Tel'[i].kind = "ok" /\ Tel'[i].s = s => Tel'[i].k <= w'.last[s]
      BY <1>2, <1>3, <1>5, <3>1 DEF Attached
    <3> QED
      BY <1>2, <1>5, <1>9, <1>12, <2>1, <3>2, <3>3, <3>4, <3>5 DEF Attached
  <2>2. CASE t # s
    <3>1. \A e \in Nat : ~Pending(t, e)
      BY <1>5, <2>2 DEF Pending
    <3>2. w.builders[t].complete => w.term[t].kind = "COMPLETED"
      BY <1>13 DEF Attached, BuilderInv, BuilderAt, new_builder
    <3>3. w.pos["telemetry"] \in Nat /\ w.pos["telemetry"] <= Len(Tel)
      BY <1>1 DEF MemType, Topics
    <3>4. \A i \in 1..w'.pos["telemetry"] : ~(i > w.pos["telemetry"])
      BY <1>2, <3>3
    <3>5. scores \subseteq scores'
      BY <1>7
    <3> QED
      BY <1>2, <1>3, <1>9, <1>13, <2>2, <3>1, <3>2, <3>3, <3>4, <3>5, AttachedKept
  <2> QED
    BY <2>1, <2>2
<1>14. \A t : Detached(t)' <=> Detached(t)
  BY <1>2, <1>3 DEF Detached, Ends
<1>15. SessionInv'
  BY <1>1, <1>2, <1>13, <1>14 DEF SessionInv
<1>16. JobType'
  BY <1>1, <1>8 DEF JobType
<1>17. JobInv'
  <2>1. \A e : <<Window(e)>> # <<>>
    OBVIOUS
  <2> QED
    BY <1>1, <1>2, <1>5, <1>8, <2>1 DEF JobInv
<1>18. \A t : (Settled(t) => Settled(t)') /\ (Busy(t)' <=> Busy(t))
  <2>1. \A t : Settled(t) => Settled(t)'
    BY <1>3, <1>7, SettledKept
  <2> QED
    BY <1>5, <1>8, <2>1 DEF Busy
<1>19. DoneInv'
  BY <1>1, <1>2, <1>3, <1>18 DEF DoneInv
<1>20. CommitInv'
  BY <1>1, <1>2, <1>3, <1>18 DEF CommitInv, NoBad, Ends
<1>21. ScoreInv'
  <2>1. Score(s, d).s = s /\ Score(s, d).end = d
    BY DEF Score
  <2>2. ASSUME NEW f \in scores' \cup features'
        PROVE  f.s \in Session /\ \E e \in Nat : Due(e) /\ f = Score(f.s, e)
    <3>1. CASE f \in scores \cup features
      BY <1>1, <3>1 DEF ScoreInv
    <3>2. CASE f = Score(s, d)
      BY <1>4, <2>1, <3>2
    <3> QED
      BY <1>2, <1>7, <2>2, <3>1, <3>2
  <2>3. ASSUME NEW f \in scores', NEW e \in Nat, Due(e), e < f.end
        PROVE  Score(f.s, e) \in scores'
    <3>1. CASE f \in scores
      BY <1>1, <1>7, <2>3, <3>1 DEF ScoreInv
    <3>2. CASE f = Score(s, d)
      BY <1>7, <1>11, <2>1, <2>3, <3>2
    <3> QED
      BY <1>7, <2>3, <3>1, <3>2
  <2> QED
    BY <1>9, <2>2, <2>3 DEF ScoreInv
<1> QED
  BY <1>3, <1>10, <1>15, <1>16, <1>17, <1>19, <1>20, <1>21 DEF IInv

(* Steps that pass records without a row for a session that has not        *)
(* failed: whatever they do to the failed sessions, the others go on.      *)
Skips ==
  /\ Grown /\ LogType' /\ TelInv' /\ StaInv' /\ MemType' /\ FailInv'
  /\ Tel' = Tel /\ replay' = replay
  /\ w'.last = w.last /\ w'.builders = w.builders /\ w'.term = w.term
  /\ w.pos["telemetry"] <= w'.pos["telemetry"] /\ w.pos["status"] <= w'.pos["status"]
  /\ w.failed \subseteq w'.failed
  /\ \A s \in Session : w'.offs[s]["telemetry"] = w.offs[s]["telemetry"]
  /\ \A s \in Session \ w'.failed : w'.offs[s]["status"] = w.offs[s]["status"]
  /\ job' = job /\ (exit' = "none" => job = Idle)
  /\ offsets' = offsets /\ scores' = scores /\ emitted' = emitted /\ features' = features
  /\ \A i \in 1..w'.pos["telemetry"] :
       i > w.pos["telemetry"] /\ NoBad(i) /\ Tel[i].kind = "ok" => Tel[i].s \in w'.failed
  /\ \A i \in 1..w'.pos["status"] : i > w.pos["status"] => Sta'[i].kind # "COMPLETED"

(* Reading past records that are not used preserves the invariant. *)
LEMMA SkipKeeps ==
  ASSUME IInv, Skips
  PROVE  IInv'
<1>1. /\ LogType /\ MemType /\ FailInv /\ TermInv /\ OffsInv /\ SessionInv /\ JobType /\ JobInv
      /\ DoneInv /\ CommitInv /\ ScoreInv
  BY DEF IInv
<1>2. /\ offsets' = offsets /\ scores' = scores /\ emitted' = emitted /\ features' = features
      /\ w'.last = w.last /\ w'.builders = w.builders /\ w'.term = w.term
      /\ job' = job /\ Tel' = Tel /\ replay' = replay /\ w.failed \subseteq w'.failed
  BY DEF Skips
<1>3. /\ Grown /\ LogType' /\ TelInv' /\ StaInv' /\ MemType' /\ FailInv'
  BY DEF Skips
<1>4. /\ w.pos["telemetry"] \in Nat /\ w.pos["status"] \in Nat
      /\ w'.pos["telemetry"] \in Nat /\ w'.pos["status"] \in Nat
      /\ w.pos["telemetry"] <= w'.pos["telemetry"] /\ w.pos["status"] <= w'.pos["status"]
      /\ w.pos["telemetry"] <= Len(Tel) /\ w.pos["status"] <= Len(Sta)
      /\ Len(Tel) \in Nat /\ Len(Sta) \in Nat
  BY <1>1, <1>3, LogDomain DEF Skips, MemType, Topics
<1>5. \A i \in 1..w.pos["status"] : Sta'[i] = Sta[i] /\ i \in 1..w'.pos["status"]
  BY <1>3, <1>4 DEF Grown
<1>6. /\ DOMAIN Sta = 1..Len(Sta) /\ (DOMAIN Sta)' = 1..(Len(Sta)')
  BY <1>1, <1>3, LogDomain DEF LogType
<1>7. \A i : NoBad(i)' <=> NoBad(i)
  BY <1>2 DEF NoBad
<1>8. TermInv'
  <2> SUFFICES ASSUME NEW s \in Session \ w'.failed, w'.term[s].kind # "none"
               PROVE  /\ w'.offs[s]["status"] \in 1..w'.pos["status"]
                      /\ Sta'[w'.offs[s]["status"]] = w'.term[s]
                      /\ w'.term[s].kind \in Terminal /\ w'.term[s].s = s
    BY DEF TermInv
  <2>1. s \in Session \ w.failed /\ w'.offs[s]["status"] = w.offs[s]["status"]
    BY <1>2 DEF Skips
  <2>2. /\ w.offs[s]["status"] \in 1..w.pos["status"]
        /\ Sta[w.offs[s]["status"]] = w.term[s]
        /\ w.term[s].kind \in Terminal /\ w.term[s].s = s
    BY <1>1, <1>2, <2>1 DEF TermInv
  <2> QED
    BY <1>2, <1>5, <2>1, <2>2
<1>9. OffsInv'
  <2> SUFFICES ASSUME NEW s \in Session
               PROVE  LET j == w.offs[s]["telemetry"]
                      IN  /\ j = 0 <=> w.last[s] = 0
                          /\ j > 0 => /\ j <= w'.pos["telemetry"] /\ NoBad(j)
                                      /\ TelOk(j, s, w.last[s])
    <3>1. \A s \in Session : w'.offs[s]["telemetry"] = w.offs[s]["telemetry"]
      BY DEF Skips
    <3> QED
      BY <1>2, <3>1 DEF OffsInv, TelOk, NoBad
  <2>1. w.offs[s]["telemetry"] \in Nat
    BY <1>1 DEF MemType, Topics
  <2> QED
    BY <1>1, <1>4, <2>1 DEF OffsInv
<1>10. SessionInv'
  <2> SUFFICES ASSUME NEW s \in Session \ w'.failed PROVE Attached(s)' \/ Detached(s)'
    BY DEF SessionInv
  <2>0. s \in Session \ w.failed /\ s \in Nat
    BY <1>2 DEF Session
  <2>1. CASE Attached(s)
    <3>1. \A e \in Nat : Pending(s, e) => Pending(s, e)'
      BY <1>2 DEF Pending
    <3>2. w.builders[s].complete => w.term[s].kind = "COMPLETED"
      BY <2>1 DEF Attached, BuilderInv, BuilderAt, new_builder
    <3>3. \A i \in 1..w'.pos["telemetry"] :
            i > w.pos["telemetry"] /\ NoBad(i)' => ~(Tel'[i].kind = "ok" /\ Tel'[i].s = s)
      BY <1>2, <1>7 DEF Skips
    <3> QED
      BY <1>2, <1>3, <1>4, <2>1, <3>1, <3>2, <3>3, AttachedKept
  <2>2. CASE Detached(s)
    <3>1. w.term[s].kind = "none" /\ replay.i \in Nat
      BY <1>1, <2>2 DEF Detached, LogType
    <3>2. \A i \in 1..Len(Tel)' : ~(i > Len(Tel))
      BY <1>2, <1>4
    <3> QED
      BY <1>2, <1>3, <1>4, <2>0, <2>2, <3>1, <3>2, DetachedKept
  <2> QED
    BY <1>1, <2>0, <2>1, <2>2 DEF SessionInv
<1>11. JobType'
  BY <1>1, <1>2 DEF JobType
<1>12. JobInv'
  <2> SUFFICES ASSUME exit' = "none"
               PROVE  job'.then = "idle" /\ job'.todo = <<>> /\ \A e : <<Window(e)>> # <<>>
    BY DEF JobInv
  <2> QED
    BY <1>2 DEF Skips, Idle
<1>13. \A s : (Settled(s) => Settled(s)') /\ (Busy(s)' <=> Busy(s))
  <2>1. \A s : Settled(s) => Settled(s)'
    BY <1>2, <1>3, <1>6, SettledKept
  <2> QED
    BY <1>2, <2>1 DEF Busy
<1>14. DoneInv'
  <2>1. ASSUME NEW i \in 1..w'.pos["status"], Sta'[i].kind = "COMPLETED",
               w'.term[Sta'[i].s].kind # "COMPLETED"
        PROVE  Settled(Sta[i].s)'
    <3>1. i \in 1..w.pos["status"]
      BY <1>4, <2>1 DEF Skips
    <3>2. PICK s : s = Sta[i].s /\ s = Sta'[i].s
      BY <1>5, <3>1
    <3>3. Settled(s)
      BY <1>1, <1>2, <1>5, <2>1, <3>1, <3>2 DEF DoneInv
    <3>4. Settled(s)'
      BY <1>13, <3>3
    <3> QED
      BY <3>2, <3>4
  <2>2. ASSUME NEW s \in Session \ w'.failed, w'.term[s].kind = "COMPLETED", w'.last[s] = Rows
        PROVE  Settled(s)' \/ Busy(s)'
    BY <1>1, <1>2, <1>13, <2>2 DEF DoneInv
  <2> QED
    BY <2>1, <2>2 DEF DoneInv
<1>15. CommitInv'
  <2>1. /\ offsets \in [Topics -> Nat] /\ offsets["telemetry"] \in Nat /\ offsets["status"] \in Nat
        /\ offsets["telemetry"] <= w.pos["telemetry"] /\ offsets["status"] <= w.pos["status"]
    BY <1>1 DEF CommitInv, Topics
  <2>2. \A i \in 1..offsets["status"] : Sta'[i] = Sta[i]
    BY <1>4, <1>5, <2>1
  <2>3. \A i \in 1..offsets["status"] : Sta'[i].kind = "COMPLETED" => Settled(Sta[i].s)'
    <3> SUFFICES ASSUME NEW i \in 1..offsets["status"], Sta'[i].kind = "COMPLETED"
                 PROVE  Settled(Sta[i].s)'
      OBVIOUS
    <3>1. PICK s : s = Sta[i].s /\ s = Sta'[i].s
      BY <2>2
    <3>2. Settled(s)
      BY <1>1, <2>2, <3>1 DEF CommitInv
    <3>3. Settled(s)'
      BY <1>13, <3>2
    <3> QED
      BY <3>1, <3>3
  <2>4. ASSUME NEW s, \E i \in 1..offsets["status"] : Ends(i, s)
        PROVE  \E i \in 1..offsets["status"] : Ends(i, s)'
    BY <2>2, <2>4 DEF Ends
  <2>5. ASSUME offsets["telemetry"] > 0
        PROVE  LET r == Tel'[offsets["telemetry"]]
               IN  /\ r.kind = "ok" /\ r.k = Rows /\ NoBad(offsets["telemetry"])'
                   /\ \E i \in 1..offsets["status"] : Ends(i, Tel[offsets["telemetry"]].s)'
    <3>1. PICK r : r = Tel[offsets["telemetry"]] /\ r = Tel'[offsets'["telemetry"]]
      BY <1>2
    <3>2. /\ r.kind = "ok" /\ r.k = Rows /\ NoBad(offsets["telemetry"])
          /\ \E i \in 1..offsets["status"] : Ends(i, r.s)
      BY <1>1, <2>5, <3>1 DEF CommitInv
    <3>3. \E i \in 1..offsets["status"] : Ends(i, r.s)'
      BY <2>4, <3>2
    <3> QED
      BY <1>2, <1>7, <3>1, <3>2, <3>3
  <2>6. offsets["telemetry"] <= w'.pos["telemetry"] /\ offsets["status"] <= w'.pos["status"]
    BY <1>4, <2>1
  <2> QED
    BY <1>2, <2>1, <2>3, <2>5, <2>6 DEF CommitInv
<1>16. ScoreInv'
  BY <1>1, <1>2 DEF ScoreInv
<1> QED
  BY <1>3, <1>8, <1>9, <1>10, <1>11, <1>12, <1>14, <1>15, <1>16 DEF IInv

(* The fields of the worker's memory that the handlers' helpers change. *)
LEMMA AdvanceFields ==
  ASSUME NEW m, DOMAIN m = MemFields, NEW t \in Topics, m.pos \in [Topics -> Nat]
  PROVE  LET n == Advance(m, t)
         IN  /\ DOMAIN n = MemFields
             /\ n.pos = [m.pos EXCEPT ![t] = @ + 1]
             /\ n.builders = m.builders /\ n.last = m.last /\ n.term = m.term /\ n.offs = m.offs
             /\ n.failed = m.failed /\ n.blocked = m.blocked /\ n.own = m.own
BY DEF Advance, MemFields

(* The memory after _fail_session. *)
LEMMA FailFields ==
  ASSUME NEW m, DOMAIN m = MemFields, NEW s
  PROVE  LET n == Fail(m, s)
         IN  /\ DOMAIN n = MemFields
             /\ n.failed = m.failed \cup {s} /\ n.own = m.own \cup {Len(Sta) + 1}
             /\ n.builders = m.builders /\ n.last = m.last /\ n.term = m.term /\ n.pos = m.pos
             /\ n.blocked = m.blocked /\ n.offs = m.offs
BY DEF Fail, MemFields, Sta

(* _fail_session publishes a FAILED status. *)
LEMMA FailedAppend ==
  ASSUME IInv, NEW s \in Session, replay' = replay,
         log' = [log EXCEPT !["status"] = Append(@, FailedStatus(s))]
  PROVE  /\ Grown /\ LogType' /\ TelInv' /\ StaInv' /\ Tel' = Tel
         /\ Len(Sta)' = Len(Sta) + 1 /\ Len(Sta) \in Nat
         /\ Sta'[Len(Sta) + 1].kind = "FAILED" /\ Sta'[Len(Sta) + 1].s = s
<1>1. LogType /\ TelInv /\ StaInv /\ MemType
  BY DEF IInv
<1>2. FailedStatus(s) \in StaRecord /\ FailedStatus(s).kind = "FAILED" /\ FailedStatus(s).s = s
  BY <1>1 DEF FailedStatus, StaRecord, MemType
<1>3. StaGrows(FailedStatus(s))
  BY <1>1, LogAppend
<1>4. FailedStatus(s).kind \notin Terminal
  BY <1>2 DEF Terminal
<1>5. PICK r \in StaRecord : r = FailedStatus(s)
  BY <1>2
<1>6. LogType' /\ TelInv' /\ StaInv'
  BY <1>1, <1>3, <1>4, <1>5, StaLog
<1>7. Grown /\ Len(Sta)' = Len(Sta) + 1 /\ Sta'[Len(Sta) + 1] = r
  BY <1>1, <1>3, <1>5, StaGrown
<1> QED
  BY <1>1, <1>2, <1>3, <1>5, <1>6, <1>7, LogDomain DEF StaGrows

(* What a failure of session s leaves: its FAILED status is on the topic,  *)
(* and known as the worker's own.                                          *)
LEMMA FailKeeps ==
  ASSUME IInv, NEW s \in Session, replay' = replay, DOMAIN w' = MemFields,
         log' = [log EXCEPT !["status"] = Append(@, FailedStatus(s))],
         w'.failed = w.failed \cup {s}, w'.own = w.own \cup {Len(Sta) + 1},
         w'.builders = w.builders, w'.last = w.last, w'.term = w.term, w'.offs = w.offs,
         w'.blocked = w.blocked, w'.pos["status"] = w.pos["status"], w'.pos \in [Topics -> Nat],
         w.pos["telemetry"] <= w'.pos["telemetry"], w'.pos["telemetry"] <= Len(Tel),
         NoBad(w.pos["telemetry"]) <=> NoBad(w'.pos["telemetry"])
  PROVE  MemType' /\ FailInv'
<1>1. MemType /\ FailInv /\ LogType
  BY DEF IInv
<1>2. /\ Grown /\ LogType' /\ Tel' = Tel /\ Len(Sta)' = Len(Sta) + 1 /\ Len(Sta) \in Nat
      /\ Sta'[Len(Sta) + 1].kind = "FAILED" /\ Sta'[Len(Sta) + 1].s = s
  BY FailedAppend
<1>3. MemType'
  <2>1. w'.pos["telemetry"] <= Len(Tel)' /\ w'.pos["status"] <= Len(Sta)'
    <3>1. w.pos["status"] \in Nat /\ w.pos["status"] <= Len(Sta)
      BY <1>1 DEF MemType, Topics
    <3> QED
      BY <1>2, <3>1
  <2>2. w'.failed \subseteq Session /\ w'.own \subseteq Nat
    BY <1>1, <1>2 DEF MemType
  <2> QED
    BY <1>1, <2>1, <2>2 DEF MemType
<1>4. \A i \in 1..Len(Sta) : Sta'[i] = Sta[i] /\ i \in 1..Len(Sta)'
  BY <1>2 DEF Grown
<1>5. (DOMAIN Sta)' = 1..(Len(Sta)') /\ DOMAIN Sta = 1..Len(Sta)
  BY <1>1, <1>2, LogDomain DEF LogType
<1>6. \A i \in w'.own : i \in 1..(Len(Sta)') /\ Sta'[i].kind = "FAILED"
  BY <1>1, <1>2, <1>4 DEF FailInv
<1>7. \A t \in w'.failed : FailedSession(t)'
  <2>1. ASSUME NEW t \in w.failed PROVE FailedSession(t)'
    <3>1. PICK i \in DOMAIN Sta : Sta[i].s = t /\ Sta[i].kind = "FAILED"
      BY <1>1, <2>1 DEF FailInv, FailedSession, Sta
    <3>2. i \in (DOMAIN Sta)' /\ Sta'[i] = Sta[i]
      BY <1>4, <1>5
    <3> QED
      BY <3>1, <3>2 DEF FailedSession, Sta
  <2>2. FailedSession(s)'
    <3>1. Len(Sta) + 1 \in (DOMAIN Sta)'
      BY <1>2, <1>5
    <3> QED
      BY <1>2, <3>1 DEF FailedSession, Sta
  <2> QED
    BY <2>1, <2>2
<1>8. NoBad(w.pos["telemetry"])' <=> NoBad(w'.pos["telemetry"])
  BY <1>2 DEF NoBad
<1>9. FailInv'
  BY <1>1, <1>6, <1>7, <1>8 DEF FailInv
<1> QED
  BY <1>3, <1>9

(* The attempts at a window are used up: the session fails and the worker  *)
(* leaves.                                                                 *)
LEMMA SessionFailedStep ==
  ASSUME IInv, SessionFailedError
  PROVE  IInv'
<1>1. /\ LogType /\ MemType /\ FailInv /\ JobType /\ JobInv
  BY DEF IInv
<1>2. /\ w' = Fail(w, job.s) /\ log' = [log EXCEPT !["status"] = Append(@, FailedStatus(job.s))]
      /\ exit' = "scoring" /\ exit = "none" /\ job.todo # <<>> /\ replay' = replay
      /\ offsets' = offsets /\ job' = job /\ features' = features /\ scores' = scores
      /\ emitted' = emitted
  BY DEF SessionFailedError, _fail_session, Scoring, Upstream
<1>3. job.s \in Session
  BY <1>1, <1>2 DEF JobType, JobInv
<1>4. /\ DOMAIN w' = MemFields
      /\ w'.failed = w.failed \cup {job.s} /\ w'.own = w.own \cup {Len(Sta) + 1}
      /\ w'.builders = w.builders /\ w'.last = w.last /\ w'.term = w.term /\ w'.pos = w.pos
      /\ w'.blocked = w.blocked /\ w'.offs = w.offs
  BY <1>1, <1>2, FailFields DEF MemType
<1>5. /\ w.pos \in [Topics -> Nat] /\ w.pos["telemetry"] \in Nat /\ w.pos["status"] \in Nat
      /\ w.pos["telemetry"] <= Len(Tel) /\ w.pos["status"] <= Len(Sta)
  BY <1>1 DEF MemType, Topics
<1>6. MemType' /\ FailInv'
  <2>1. /\ w'.pos["status"] = w.pos["status"] /\ w'.pos \in [Topics -> Nat]
        /\ w.pos["telemetry"] <= w'.pos["telemetry"] /\ w'.pos["telemetry"] <= Len(Tel)
        /\ NoBad(w.pos["telemetry"]) <=> NoBad(w'.pos["telemetry"])
    BY <1>4, <1>5
  <2>2. PICK s \in Session : s = job.s
    BY <1>3
  <2>3. /\ log' = [log EXCEPT !["status"] = Append(@, FailedStatus(s))]
        /\ w'.failed = w.failed \cup {s} /\ replay' = replay
    BY <1>2, <1>4, <2>2
  <2> QED
    BY <1>4, <2>1, <2>3, FailKeeps
<1>7. /\ Grown /\ LogType' /\ TelInv' /\ StaInv' /\ Tel' = Tel
  BY <1>2, <1>3, FailedAppend
<1>8. /\ \A i \in 1..w'.pos["telemetry"] : ~(i > w.pos["telemetry"])
      /\ \A i \in 1..w'.pos["status"] : ~(i > w.pos["status"])
  BY <1>4, <1>5
<1>9. Skips
  BY <1>2, <1>4, <1>5, <1>6, <1>7, <1>8 DEF Skips
<1> QED
  BY <1>9, SkipKeeps

(* What every handler leaves alone. *)
Handled ==
  /\ exit = "none" /\ job = Idle
  /\ UNCHANGED <<offsets, features, scores, emitted, replay>>

(* The handler of a telemetry record that is not a row of a session that   *)
(* goes on.                                                                *)
LEMMA TelemetrySkipped ==
  ASSUME IInv, Handled, w.pos["telemetry"] < Len(Tel), job' = job, exit' = exit,
         NEW r, r = Tel[w.pos["telemetry"] + 1],
         \/ /\ _is_blocked("telemetry")
            /\ w' = Advance(w, "telemetry") /\ log' = log
         \/ /\ ~_is_blocked("telemetry") /\ r.kind = "bad"
            /\ w' = [Advance(w, "telemetry") EXCEPT !.blocked = @ \cup {"telemetry"}] /\ log' = log
         \/ /\ ~_is_blocked("telemetry") /\ r.kind /= "bad" /\ r.s \in w.failed
            /\ w' = Advance(w, "telemetry") /\ log' = log
         \/ /\ ~_is_blocked("telemetry") /\ r.kind = "foreign" /\ r.s \notin w.failed
            /\ _fail_session(Advance(w, "telemetry"), r.s)
  PROVE  IInv'
<1> DEFINE p == w.pos["telemetry"]
<1> DEFINE m == Advance(w, "telemetry")
<1>1. LogType /\ MemType /\ FailInv
  BY DEF IInv
<1>2. /\ p \in Nat /\ w.pos["status"] \in Nat /\ w.pos \in [Topics -> Nat] /\ Len(Tel) \in Nat
      /\ w.pos["status"] <= Len(Sta) /\ p + 1 \in 1..Len(Tel) /\ DOMAIN w = MemFields
      /\ "telemetry" \in Topics /\ "status" \in Topics
  BY <1>1, LogDomain DEF MemType, Topics
<1>3. /\ DOMAIN m = MemFields
      /\ m.pos = [w.pos EXCEPT !["telemetry"] = @ + 1]
      /\ m.builders = w.builders /\ m.last = w.last /\ m.term = w.term /\ m.offs = w.offs
      /\ m.failed = w.failed /\ m.blocked = w.blocked /\ m.own = w.own
  BY <1>2, AdvanceFields
<1> HIDE DEF m
<1>4. /\ m.pos \in [Topics -> Nat] /\ m.pos["telemetry"] = p + 1
      /\ m.pos["status"] = w.pos["status"]
  BY <1>2, <1>3
<1>5. NoBad(p + 1) <=> NoBad(p) /\ r.kind # "bad"
  BY <1>2 DEF NoBad
<1>6. _is_blocked("telemetry") <=> ~NoBad(p)
  BY <1>1 DEF FailInv, _is_blocked
<1>7. /\ offsets' = offsets /\ scores' = scores /\ emitted' = emitted /\ features' = features
      /\ replay' = replay /\ exit = "none" /\ job = Idle
  BY DEF Handled
<1>8. r \in TelRecord
  BY <1>1, <1>2, LogDomain
<1>9. ASSUME log' = log, w'.failed = w.failed, w'.own = w.own, w'.pos = m.pos,
             w'.builders = w.builders, w'.last = w.last, w'.term = w.term, w'.offs = w.offs,
             DOMAIN w' = MemFields, w'.blocked \in SUBSET Topics,
             "telemetry" \in w'.blocked <=> ~NoBad(p + 1),
             NoBad(p + 1) /\ r.kind = "ok" => r.s \in w.failed
      PROVE  IInv'
  <2>1. /\ Grown /\ LogType' /\ TelInv' /\ StaInv' /\ Tel' = Tel /\ Sta' = Sta
    BY <1>7, <1>9, SameLog
  <2>2. MemType'
    BY <1>1, <1>2, <1>4, <1>9, <2>1 DEF MemType
  <2>3. FailInv'
    BY <1>1, <1>4, <1>9, <2>1 DEF FailInv, FailedSession, NoBad, Sta
  <2>4. /\ \A i \in 1..w'.pos["telemetry"] :
             i > p /\ NoBad(i) /\ Tel[i].kind = "ok" => Tel[i].s \in w'.failed
        /\ \A i \in 1..w'.pos["status"] : ~(i > w.pos["status"])
    <3>1. \A i \in 1..w'.pos["telemetry"] : i > p => i = p + 1
      BY <1>2, <1>4, <1>9
    <3> QED
      BY <1>2, <1>4, <1>9, <3>1
  <2>5. p <= w'.pos["telemetry"] /\ w.pos["status"] <= w'.pos["status"]
    BY <1>2, <1>4, <1>9
  <2>6. Skips
    BY <1>7, <1>9, <2>1, <2>2, <2>3, <2>4, <2>5 DEF Skips
  <2> QED
    BY <2>6, SkipKeeps
<1>10. CASE _is_blocked("telemetry") /\ w' = m /\ log' = log
  BY <1>1, <1>3, <1>5, <1>6, <1>9, <1>10 DEF MemType, _is_blocked
<1>11. CASE /\ ~_is_blocked("telemetry") /\ r.kind = "bad" /\ log' = log
            /\ w' = [m EXCEPT !.blocked = @ \cup {"telemetry"}]
  <2>1. /\ DOMAIN w' = MemFields /\ w'.blocked = m.blocked \cup {"telemetry"}
        /\ w'.pos = m.pos /\ w'.builders = m.builders /\ w'.last = m.last /\ w'.term = m.term
        /\ w'.offs = m.offs /\ w'.failed = m.failed /\ w'.own = m.own
    BY <1>3, <1>11 DEF MemFields
  <2> QED
    BY <1>1, <1>2, <1>3, <1>5, <1>9, <1>11, <2>1 DEF MemType
<1>12. CASE ~_is_blocked("telemetry") /\ r.kind /= "bad" /\ r.s \in w.failed /\ w' = m /\ log' = log
  BY <1>1, <1>3, <1>5, <1>6, <1>9, <1>12 DEF MemType, _is_blocked
<1>13. CASE /\ ~_is_blocked("telemetry") /\ r.kind = "foreign" /\ r.s \notin w.failed
            /\ _fail_session(m, r.s)
  <2>1. PICK s \in Session : s = r.s
    BY <1>8 DEF TelRecord
  <2>2. w' = Fail(m, s) /\ log' = [log EXCEPT !["status"] = Append(@, FailedStatus(s))]
    BY <1>13, <2>1 DEF _fail_session
  <2>3. /\ DOMAIN w' = MemFields
        /\ w'.failed = w.failed \cup {s} /\ w'.own = w.own \cup {Len(Sta) + 1}
        /\ w'.builders = w.builders /\ w'.last = w.last /\ w'.term = w.term /\ w'.pos = m.pos
        /\ w'.blocked = w.blocked /\ w'.offs = w.offs
    BY <1>3, <2>2, FailFields
  <2>4. /\ Grown /\ LogType' /\ TelInv' /\ StaInv' /\ Tel' = Tel
    BY <1>7, <2>2, FailedAppend
  <2>5. /\ w'.pos["status"] = w.pos["status"] /\ w'.pos \in [Topics -> Nat]
        /\ w.pos["telemetry"] <= w'.pos["telemetry"] /\ w'.pos["telemetry"] <= Len(Tel)
        /\ NoBad(w.pos["telemetry"]) <=> NoBad(w'.pos["telemetry"])
    BY <1>2, <1>4, <1>5, <1>13, <2>3
  <2>6. MemType' /\ FailInv'
    BY <1>7, <2>2, <2>3, <2>5, FailKeeps
  <2>7. /\ \A i \in 1..w'.pos["telemetry"] :
             i > p /\ NoBad(i) /\ Tel[i].kind = "ok" => Tel[i].s \in w'.failed
        /\ \A i \in 1..w'.pos["status"] : ~(i > w.pos["status"])
    <3>1. \A i \in 1..w'.pos["telemetry"] : i > p => i = p + 1
      BY <1>2, <1>4, <2>3
    <3>2. Tel[p + 1].kind # "ok"
      BY <1>13
    <3> QED
      BY <1>2, <1>4, <2>3, <3>1, <3>2
  <2>9. w.pos["status"] <= w'.pos["status"]
    BY <1>2, <2>5
  <2>8. Skips
    BY <1>7, <2>3, <2>4, <2>5, <2>6, <2>7, <2>9 DEF Skips
  <2> QED
    BY <2>8, SkipKeeps
<1> QED
  BY <1>10, <1>11, <1>12, <1>13 DEF m

(* The handler of a status record that ends no session. *)
LEMMA StatusSkipped ==
  ASSUME IInv, Handled, w.pos["status"] < Len(Sta), job' = job, exit' = exit, log' = log,
         NEW r, r = Sta[w.pos["status"] + 1],
         \/ /\ r.kind = "bad"
            /\ w' = [Advance(w, "status") EXCEPT !.blocked = @ \cup {"status"}]
         \/ /\ r.kind \notin Terminal
            /\ w' = Advance(w, "status")
         \/ /\ r.kind = "FAILED"
            /\ w' = [Advance(Track(w, r.s, "status"), "status") EXCEPT !.failed = @ \cup {r.s}]
  PROVE  IInv'
<1> DEFINE p == w.pos["status"]
<1>1. LogType /\ MemType /\ FailInv
  BY DEF IInv
<1>2. /\ p \in Nat /\ w.pos["telemetry"] \in Nat /\ w.pos \in [Topics -> Nat] /\ Len(Sta) \in Nat
      /\ w.pos["telemetry"] <= Len(Tel) /\ p + 1 \in 1..Len(Sta) /\ DOMAIN w = MemFields
      /\ "telemetry" \in Topics /\ "status" \in Topics /\ w.offs \in [Session -> [Topics -> Nat]]
  BY ONLY <1>1, LogDomain, w.pos["status"] < Len(Sta) DEF MemType, Topics
<1>3. r \in StaRecord /\ r.s \in Session
  BY <1>1, <1>2, LogDomain DEF StaRecord
<1>4. /\ offsets' = offsets /\ scores' = scores /\ emitted' = emitted /\ features' = features
      /\ replay' = replay /\ exit = "none" /\ job = Idle
  BY DEF Handled
<1>5. /\ Grown /\ LogType' /\ TelInv' /\ StaInv' /\ Tel' = Tel /\ Sta' = Sta
  BY <1>4, SameLog
<1>6. ASSUME w'.own = w.own, w'.pos = [w.pos EXCEPT !["status"] = @ + 1],
             w'.builders = w.builders, w'.last = w.last, w'.term = w.term,
             DOMAIN w' = MemFields, w'.blocked \in SUBSET Topics,
             "telemetry" \in w'.blocked <=> "telemetry" \in w.blocked,
             w'.failed = w.failed \/ (r.kind = "FAILED" /\ w'.failed = w.failed \cup {r.s}),
             w'.offs \in [Session -> [Topics -> Nat]],
             \A s \in Session : w'.offs[s]["telemetry"] = w.offs[s]["telemetry"],
             \A s \in Session \ w'.failed : w'.offs[s]["status"] = w.offs[s]["status"],
             r.kind # "COMPLETED"
      PROVE  IInv'
  <2>0. w'.pos["telemetry"] = w.pos["telemetry"] /\ w'.pos["status"] = p + 1
        /\ w'.pos \in [Topics -> Nat]
    BY ONLY <1>2, <1>6
  <2>1. w'.failed \subseteq Session /\ w.failed \subseteq w'.failed
    BY <1>1, <1>3, <1>6 DEF MemType
  <2>2. MemType'
    BY ONLY <1>1, <1>2, <1>5, <1>6, <2>0, <2>1 DEF MemType
  <2>3. FailInv'
    <3>1. \A s \in w'.failed : FailedSession(s)
      <4>1. ASSUME r.kind = "FAILED" PROVE FailedSession(r.s)
        <5>1. p + 1 \in DOMAIN Sta
          BY <1>1, <1>2, LogDomain
        <5> QED
          BY <4>1, <5>1 DEF FailedSession, Sta
      <4> QED
        BY <1>1, <1>6, <4>1 DEF FailInv
    <3>2. \A s : FailedSession(s)' <=> FailedSession(s)
      BY DEF FailedSession
    <3> QED
      BY <1>1, <1>5, <1>6, <2>0, <3>1, <3>2 DEF FailInv, NoBad
  <2>4. /\ \A i \in 1..w'.pos["telemetry"] : ~(i > w.pos["telemetry"])
        /\ \A i \in 1..w'.pos["status"] : i > p => Sta'[i].kind # "COMPLETED"
    <3>1. \A i \in 1..w'.pos["status"] : i > p => i = p + 1
      BY <1>2, <2>0
    <3> QED
      BY ONLY <1>2, <1>5, <1>6, <2>0, <3>1, r = Sta[w.pos["status"] + 1]
  <2>5. w.pos["telemetry"] <= w'.pos["telemetry"] /\ p <= w'.pos["status"]
    BY <1>2, <2>0
  <2>6. Skips
    BY <1>4, <1>5, <1>6, <2>1, <2>2, <2>3, <2>4, <2>5 DEF Skips
  <2> QED
    BY <2>6, SkipKeeps
<1>7. ASSUME r.kind = "bad", w' = [Advance(w, "status") EXCEPT !.blocked = @ \cup {"status"}]
      PROVE  IInv'
  <2>1. PICK m : m = Advance(w, "status")
    OBVIOUS
  <2>2. /\ DOMAIN m = MemFields
        /\ m.pos = [w.pos EXCEPT !["status"] = @ + 1]
        /\ m.builders = w.builders /\ m.last = w.last /\ m.term = w.term /\ m.offs = w.offs
        /\ m.failed = w.failed /\ m.blocked = w.blocked /\ m.own = w.own
    BY <1>2, <2>1, AdvanceFields
  <2>3. /\ DOMAIN w' = MemFields /\ w'.blocked = m.blocked \cup {"status"}
        /\ w'.pos = m.pos /\ w'.builders = m.builders /\ w'.last = m.last /\ w'.term = m.term
        /\ w'.offs = m.offs /\ w'.failed = m.failed /\ w'.own = m.own
    BY <1>7, <2>1, <2>2 DEF MemFields
  <2> QED
    BY <1>1, <1>2, <1>6, <1>7, <2>2, <2>3 DEF MemType
<1>8. ASSUME r.kind \notin Terminal, w' = Advance(w, "status")
      PROVE  IInv'
  <2>2. /\ DOMAIN w' = MemFields
        /\ w'.pos = [w.pos EXCEPT !["status"] = @ + 1]
        /\ w'.builders = w.builders /\ w'.last = w.last /\ w'.term = w.term /\ w'.offs = w.offs
        /\ w'.failed = w.failed /\ w'.blocked = w.blocked /\ w'.own = w.own
    BY <1>2, <1>8, AdvanceFields
  <2> QED
    BY <1>1, <1>2, <1>6, <1>8, <2>2 DEF MemType, Terminal
<1>9. ASSUME r.kind = "FAILED",
             w' = [Advance(Track(w, r.s, "status"), "status") EXCEPT !.failed = @ \cup {r.s}]
      PROVE  IInv'
  <2>8. PICK u \in Session : u = r.s
    BY <1>3
  <2>1. PICK n : n = Track(w, u, "status")
    OBVIOUS
  <2>2. /\ DOMAIN n = MemFields
        /\ n.offs = [w.offs EXCEPT ![u] = [w.offs[u] EXCEPT !["status"] = w.pos["status"] + 1]]
        /\ n.builders = w.builders /\ n.last = w.last /\ n.term = w.term /\ n.pos = w.pos
        /\ n.failed = w.failed /\ n.blocked = w.blocked /\ n.own = w.own
    <3>1. /\ DOMAIN Track(w, u, "status") = MemFields
          /\ Track(w, u, "status").offs
               = [w.offs EXCEPT ![u] = [w.offs[u] EXCEPT !["status"] = w.pos["status"] + 1]]
      BY <1>2 DEF Track, MemFields
    <3>2. LET n0 == Track(w, u, "status")
          IN  /\ n0.builders = w.builders /\ n0.last = w.last /\ n0.term = w.term /\ n0.pos = w.pos
              /\ n0.failed = w.failed /\ n0.blocked = w.blocked /\ n0.own = w.own
      BY <1>2 DEF Track, MemFields
    <3> QED
      BY <2>1, <3>1, <3>2
  <2>3. PICK m : m = Advance(n, "status")
    OBVIOUS
  <2>4. /\ DOMAIN m = MemFields
        /\ m.pos = [n.pos EXCEPT !["status"] = @ + 1]
        /\ m.builders = n.builders /\ m.last = n.last /\ m.term = n.term /\ m.offs = n.offs
        /\ m.failed = n.failed /\ m.blocked = n.blocked /\ m.own = n.own
    <3>1. "status" \in Topics /\ n.pos \in [Topics -> Nat]
      BY ONLY <1>2, <2>2
    <3> QED
      BY ONLY <2>2, <2>3, <3>1, AdvanceFields
  <2>5. w' = [m EXCEPT !.failed = @ \cup {u}]
    BY <1>9, <2>1, <2>3, <2>8
  <2>6. /\ DOMAIN w' = MemFields /\ w'.failed = m.failed \cup {u}
        /\ w'.pos = m.pos /\ w'.builders = m.builders /\ w'.last = m.last /\ w'.term = m.term
        /\ w'.offs = m.offs /\ w'.blocked = m.blocked /\ w'.own = m.own
    BY <2>4, <2>5 DEF MemFields
  <2>7. /\ w'.offs \in [Session -> [Topics -> Nat]]
        /\ \A s \in Session : w'.offs[s]["telemetry"] = w.offs[s]["telemetry"]
        /\ \A s \in Session \ {u} : w'.offs[s]["status"] = w.offs[s]["status"]
    <3>1. /\ [w.offs[u] EXCEPT !["status"] = w.pos["status"] + 1] \in [Topics -> Nat]
          /\ [w.offs[u] EXCEPT !["status"] = w.pos["status"] + 1]["telemetry"]
               = w.offs[u]["telemetry"]
      BY <1>2 DEF Topics
    <3> QED
      BY ONLY <1>2, <2>2, <2>4, <2>6, <3>1
  <2> QED
    <3>1. /\ w'.own = w.own /\ w'.pos = [w.pos EXCEPT !["status"] = @ + 1]
          /\ w'.builders = w.builders /\ w'.last = w.last /\ w'.term = w.term
          /\ w'.blocked = w.blocked /\ w'.failed = w.failed \cup {u}
      BY <2>2, <2>4, <2>6
    <3>2. w.blocked \in SUBSET Topics /\ r.kind # "COMPLETED"
      BY <1>1, <1>9 DEF MemType
    <3> QED
      BY <1>6, <1>9, <2>6, <2>7, <2>8, <3>1, <3>2
<1> QED
  BY <1>7, <1>8, <1>9

-----------------------------------------------------------------------------
(* The handler of a row.                                                   *)

(* A window that is due at or before d, a multiple of the stride, ends a   *)
(* stride before it or earlier, unless it ends there.                      *)
LEMMA DueBefore ==
  ASSUME NEW d \in Nat, d % Stride = 0, NEW e \in Nat, Due(e), e <= d
  PROVE  e = d \/ e <= d - Stride
<1>1. Stride \in Nat \ {0} /\ e % Stride = 0
  BY BuilderAssumption DEF Due
<1>2. CASE d < e + Stride
  BY <1>1, <1>2, GridUnique
<1>3. CASE ~(d < e + Stride)
  BY <1>1, <1>3
<1> QED
  BY <1>2, <1>3

(* The offsets the worker has read are offsets of the topics.              *)
LEMMA Positions ==
  ASSUME LogType, MemType
  PROVE  /\ w.pos \in [Topics -> Nat]
         /\ w.pos["telemetry"] \in Nat /\ w.pos["telemetry"] <= Len(Tel)
         /\ w.pos["status"] \in Nat /\ w.pos["status"] <= Len(Sta)
         /\ Len(Tel) \in Nat /\ Len(Sta) \in Nat
         /\ w.pos["telemetry"] < Len(Tel) => w.pos["telemetry"] + 1 \in 1..Len(Tel)
         /\ w.pos["status"] < Len(Sta) => w.pos["status"] + 1 \in 1..Len(Sta)
<1>1. w.pos \in [Topics -> Nat] /\ w.pos["telemetry"] <= Len(Tel) /\ w.pos["status"] <= Len(Sta)
  BY DEF MemType
<1>2. w.pos["telemetry"] \in Nat /\ w.pos["status"] \in Nat
  BY <1>1 DEF Topics
<1>3. Len(Tel) \in Nat /\ Len(Sta) \in Nat
  BY LogDomain
<1> QED
  BY <1>1, <1>2, <1>3

(* The row that comes next, of those of an attached session: the last one  *)
(* again, or the one after it.                                             *)
LEMMA NextRow ==
  ASSUME IInv, NEW s \in Session, Attached(s),
         w.pos["telemetry"] < Len(Tel), NoBad(w.pos["telemetry"]),
         NEW k, TelOk(w.pos["telemetry"] + 1, s, k)
  PROVE  k \in 1..Rows /\ (k = w.last[s] \/ k = w.last[s] + 1)
<1> DEFINE p == w.pos["telemetry"]
<1>1. LogType /\ TelInv /\ MemType /\ OffsInv
  BY DEF IInv
<1>2. /\ p \in Nat /\ p + 1 \in 1..Len(Tel) /\ Len(Tel) \in Nat
      /\ w.last[s] \in 0..Rows /\ Rows \in Nat
      /\ w.offs[s]["telemetry"] \in Nat
  <2>1. w.last \in [Session -> 0..Rows] /\ w.offs \in [Session -> [Topics -> Nat]]
    BY ONLY <1>1 DEF MemType
  <2>2. /\ p \in Nat /\ Len(Tel) \in Nat
        /\ w.pos["telemetry"] < Len(Tel) => p + 1 \in 1..Len(Tel)
    BY ONLY <1>1, Positions
  <2> QED
    BY ONLY <2>1, <2>2, s \in Session, w.pos["telemetry"] < Len(Tel), WorkerAssumption DEF Topics
<1>3. Tel[p + 1] \in TelRecord /\ Tel[p + 1].kind = "ok" /\ Tel[p + 1].s = s /\ Tel[p + 1].k = k
  BY <1>1, <1>2, LogDomain DEF TelOk
<1>4. k \in 1..Rows
  <2>1. k >= 1
    BY <1>1, <1>2, <1>3 DEF TelInv
  <2> QED
    BY <1>2, <1>3, <2>1 DEF TelRecord
<1>5. k - 1 <= w.last[s]
  <2>1. CASE k = 1
    BY <1>2, <2>1
  <2>2. CASE k > 1
    <3>1. PICK i \in 1..(p + 1 - 1) : TelOk(i, s, k - 1)
      BY <1>1, <1>2, <1>3, <2>2 DEF TelInv
    <3>2. i \in 1..p
      BY <1>2, <3>1
    <3>3. NoBad(i)
      BY <1>2, <3>2 DEF NoBad
    <3> QED
      BY <3>1, <3>2, <3>3 DEF Attached, TelOk
  <2> QED
    BY <1>4, <2>1, <2>2
<1>6. w.last[s] <= k
  <2>1. CASE w.last[s] = 0
    BY <1>4, <2>1
  <2>2. CASE w.last[s] # 0
    <3> DEFINE j == w.offs[s]["telemetry"]
    <3>1. j > 0 /\ j <= p /\ TelOk(j, s, w.last[s])
      BY <1>1, <1>2, <2>2 DEF OffsInv
    <3>2. j \in 1..Len(Tel) /\ j <= p + 1
      BY <1>2, <3>1
    <3>3. /\ Tel[j].s = Tel[p + 1].s /\ Tel[j].kind = "ok" /\ Tel[j].k = w.last[s]
      BY <1>3, <3>1 DEF TelOk
    <3> HIDE DEF j, p
    <3> QED
      BY <1>1, <1>2, <1>3, <3>2, <3>3 DEF TelInv
  <2> QED
    BY <2>1, <2>2
<1> QED
  BY <1>2, <1>4, <1>5, <1>6

(* The builder takes the row, and emits the window of the bin it closes.   *)
LEMMA RowAttached ==
  ASSUME IInv, NEW s \in Session, Attached(s), job.todo = <<>>,
         w.pos["telemetry"] < Len(Tel), NoBad(w.pos["telemetry"]),
         NEW k, TelOk(w.pos["telemetry"] + 1, s, k),
         w'.last[s] = k, w'.builders[s] = push(w.builders[s], Row(k)).b,
         w'.term[s] = w.term[s], w'.pos["telemetry"] = w.pos["telemetry"] + 1,
         job'.s = s, job'.todo = push(w.builders[s], Row(k)).out,
         scores' = scores, emitted' = emitted, Tel' = Tel
  PROVE  /\ Attached(s)'
         /\ \/ job'.todo = <<>>
            \/ \E e \in Nat : /\ Due(e) /\ job'.todo = <<Window(e)>>
                              /\ emitted[s] < e /\ e <= Closed(s)'
<1> DEFINE p == w.pos["telemetry"]
<1> DEFINE b == w.builders[s]
<1> DEFINE n == w.last[s]
<1>1. LogType /\ TelInv /\ MemType /\ OffsInv /\ ScoreInv
  BY DEF IInv
<1>2. k \in 1..Rows /\ (k = n \/ k = n + 1)
  BY NextRow
<1>3. /\ p \in Nat /\ n \in 0..Rows /\ Rows \in Nat \ {0} /\ emitted[s] \in Nat
      /\ Stride \in Nat \ {0} /\ Closed(s) \in Int
  BY <1>1, WorkerAssumption, BuilderAssumption, ClosedType DEF MemType, Topics, ScoreInv
<1>4. \A i \in 1..w'.pos["telemetry"] :
        NoBad(i)' /\ Tel'[i].kind = "ok" /\ Tel'[i].s = s => Tel'[i].k <= w'.last[s]
  <2> SUFFICES ASSUME NEW i \in 1..(p + 1), NoBad(i), Tel[i].kind = "ok", Tel[i].s = s
               PROVE  Tel[i].k <= k
    BY DEF NoBad
  <2>1. CASE i = p + 1
    BY <1>2, <2>1 DEF TelOk
  <2>2. CASE i \in 1..p
    <3>1. Tel[i].k <= n
      BY <2>2 DEF Attached
    <3>2. Tel[i] \in TelRecord
      BY <1>1, <1>3, <2>2, LogDomain
    <3>3. Tel[i].k \in 0..Rows
      BY <3>2 DEF TelRecord
    <3> QED
      BY <1>2, <1>3, <3>1, <3>3
  <2> QED
    BY <1>3, <2>1, <2>2
<1>5. \A e \in Nat : ~Pending(s, e)
  BY DEF Pending
<1>6. /\ emitted[s] = 0 \/ emitted[s] <= Closed(s)
      /\ \A e \in Nat : Due(e) /\ e <= emitted[s] => Score(s, e) \in scores
      /\ \A e \in Nat : Due(e) /\ e <= Closed(s) => e <= emitted[s]
      /\ BuilderInv(s)
  BY <1>5 DEF Attached
<1>7. ASSUME BuilderInv(s)', emitted[s] = 0 \/ emitted[s] <= Closed(s)',
             \A e \in Nat : Due(e) /\ e <= Closed(s)' => e <= emitted[s] \/ Pending(s, e)'
      PROVE  Attached(s)'
  BY <1>4, <1>6, <1>7 DEF Attached
<1>8. CASE k = n
  <2>1. n > 0 /\ b.last = <<Row(k)>>
    BY <1>2, <1>6, <1>8 DEF BuilderInv, BuilderAt
  <2>2. push(b, Row(k)).b = b /\ push(b, Row(k)).out = <<>>
    BY <2>1, PushAgain
  <2>3. w'.builders[s] = b /\ w'.last[s] = n
    BY <1>8, <2>2
  <2>4. Closed(s)' = Closed(s)
    BY <2>3 DEF Closed
  <2>5. BuilderInv(s)'
    BY <1>6, <2>3 DEF BuilderInv
  <2> QED
    BY <1>6, <1>7, <2>2, <2>4, <2>5
<1>9. CASE k = n + 1 /\ n = 0
  <2>1. b = new_builder /\ k = 1
    BY <1>3, <1>6, <1>9 DEF BuilderInv
  <2>2. BuilderAt(w'.builders[s], 1) /\ job'.todo = <<>>
    BY <2>1, PushFirst
  <2>3. BuilderInv(s)' /\ Closed(s)' = _compute_bin_end(1) - Stride
    BY <2>1, <2>2 DEF BuilderInv, Closed, BuilderAt
  <2>4. _compute_bin_end(1) - Stride <= 0 /\ _compute_bin_end(1) \in Nat
    <3>1. 1 \in 1..Rows
      BY <1>3
    <3>2. _compute_bin_end(1) - Stride < 1 /\ _compute_bin_end(1) \in Nat
      BY <3>1, BinEndRange
    <3> QED
      BY <1>3, <3>2
  <2>5. emitted[s] = 0
    <3>1. Closed(s) = _compute_bin_end(0) - Stride
      BY <1>9, <2>1 DEF Closed, new_builder
    <3>2. _compute_bin_end(0) < 0 + Stride /\ _compute_bin_end(0) \in Nat
      BY BinEnd
    <3> QED
      BY <1>3, <1>6, <3>1, <3>2
  <2>6. \A e \in Nat : Due(e) => ~(e <= Closed(s)')
    BY <1>3, <2>3, <2>4, DueIsEnd
  <2> QED
    BY <1>7, <2>2, <2>3, <2>5, <2>6
<1>10. CASE k = n + 1 /\ n > 0
  <2> DEFINE c == push(b, Row(n + 1))
  <2>1. n \in 1..Rows /\ n < Rows /\ n \in Nat
    BY <1>2, <1>3, <1>10
  <2>2. BuilderAt(b, n)
    BY <1>6, <2>1 DEF BuilderInv
  <2>3. /\ BuilderAt(c.b, n + 1)
        /\ c.out = IF _compute_bin_end(n) = n /\ Due(n) THEN <<Window(n)>> ELSE <<>>
    BY <2>1, <2>2, PushNext
  <2>4. w'.builders[s] = c.b /\ job'.todo = c.out /\ w'.last[s] = n + 1
    BY <1>10
  <2>5. BuilderInv(s)'
    BY <2>1, <2>3, <2>4 DEF BuilderInv
  <2>6. Closed(s)' = _compute_bin_end(n + 1) - Stride /\ Closed(s) = _compute_bin_end(n) - Stride
    BY <2>2, <2>3, <2>4 DEF Closed, BuilderAt
  <2>7. _compute_bin_end(n + 1) = IF _compute_bin_end(n) = n THEN n + Stride ELSE _compute_bin_end(n)
    BY <2>1, BinEndNext
  <2>8. _compute_bin_end(n) \in Nat /\ (n % Stride = 0 <=> _compute_bin_end(n) = n)
    BY <2>1, BinEnd
  <2> HIDE DEF c, n, b
  <2>9. CASE _compute_bin_end(n) = n
    <3>1. Closed(s)' = n /\ Closed(s) = n - Stride /\ n % Stride = 0
      BY <1>3, <2>1, <2>6, <2>7, <2>8, <2>9
    <3>2. emitted[s] = 0 \/ emitted[s] <= n - Stride
      BY <1>6, <3>1
    <3>3. emitted[s] < n /\ (emitted[s] = 0 \/ emitted[s] <= Closed(s)')
      BY <1>3, <2>1, <3>1, <3>2
    <3>4. ASSUME NEW e \in Nat, Due(e), e <= n PROVE e <= emitted[s] \/ Pending(s, e)'
      <4>1. CASE e = n
        BY <2>3, <2>4, <2>9, <3>4, <4>1 DEF Pending
      <4>2. CASE e <= n - Stride
        BY <1>6, <3>1, <3>4, <4>2
      <4> QED
        BY <2>1, <3>1, <3>4, <4>1, <4>2, DueBefore
    <3>5. Attached(s)'
      BY <1>7, <2>5, <3>1, <3>3, <3>4
    <3>6. job'.todo = <<>> \/ (Due(n) /\ job'.todo = <<Window(n)>>)
      BY <2>3, <2>4, <2>9
    <3> QED
      BY <2>1, <3>1, <3>3, <3>5, <3>6
  <2>10. CASE _compute_bin_end(n) # n
    <3>1. Closed(s)' = Closed(s) /\ job'.todo = <<>>
      BY <2>3, <2>4, <2>6, <2>7, <2>10
    <3> QED
      BY <1>6, <1>7, <2>5, <3>1
  <2> QED
    BY <2>9, <2>10
<1> QED
  BY <1>2, <1>3, <1>8, <1>9, <1>10


(* A builder that has only seen the last row: whatever it sees, it emits   *)
(* nothing.                                                                *)
LEMMA RowDetached ==
  ASSUME IInv, NEW s \in Session, Detached(s),
         w.pos["telemetry"] < Len(Tel),
         NEW k, TelOk(w.pos["telemetry"] + 1, s, k),
         w'.last[s] = k, w'.builders[s] = push(w.builders[s], Row(k)).b,
         w'.term[s] = w.term[s], w'.pos["telemetry"] = w.pos["telemetry"] + 1,
         w'.pos["status"] = w.pos["status"],
         replay' = replay, Tel' = Tel, Sta' = Sta
  PROVE  /\ Detached(s)' /\ k = Rows
         /\ push(w.builders[s], Row(k)).out = <<>>
<1>1. LogType /\ MemType
  BY DEF IInv
<1>2. w.pos["telemetry"] \in Nat /\ w.pos["telemetry"] + 1 \in 1..Len(Tel) /\ Len(Tel) \in Nat
  BY <1>1, LogDomain DEF MemType, Topics
<1>3. k = Rows
  BY <1>2 DEF Detached, TelOk
<1>4. push(w.builders[s], Row(k)).b = Lone /\ push(w.builders[s], Row(k)).out = <<>>
  <2>1. CASE w.builders[s] = new_builder
    BY <1>3, <2>1, PushLone
  <2>2. CASE w.builders[s] = Lone
    <3>1. Lone.last = <<Row(k)>>
      BY <1>3 DEF Lone
    <3> QED
      BY <2>2, <3>1, PushAgain
  <2> QED
    BY <2>1, <2>2 DEF Detached
<1>5. w'.last[s] = Rows /\ w'.builders[s] = Lone
  BY <1>3, <1>4
<1>6. \A i \in 1..Len(Tel)' :
        i > w'.pos["telemetry"] /\ Tel'[i].kind = "ok" /\ Tel'[i].s = s => Tel'[i].k = Rows
  BY <1>2 DEF Detached
<1>7. Detached(s)'
  BY <1>5, <1>6 DEF Detached, Ends
<1> QED
  BY <1>3, <1>4, <1>7

-----------------------------------------------------------------------------
(* A step of a handler that changes what the worker remembers of one       *)
(* session, s.                                                             *)
Moves(s) ==
  /\ UNCHANGED <<log, replay, features, scores, emitted>>
  /\ MemType'
  /\ w'.failed = w.failed /\ w'.blocked = w.blocked /\ w'.own = w.own
  /\ \A u \in Session \ {s} :
       /\ w'.last[u] = w.last[u] /\ w'.builders[u] = w.builders[u]
       /\ w'.term[u] = w.term[u] /\ w'.offs[u] = w.offs[u]
  /\ w.pos["telemetry"] <= w'.pos["telemetry"] /\ w.pos["status"] <= w'.pos["status"]
  /\ NoBad(w.pos["telemetry"]) <=> NoBad(w'.pos["telemetry"])
  /\ \A i \in 1..w'.pos["telemetry"] :
       i > w.pos["telemetry"] /\ NoBad(i) /\ Tel[i].kind = "ok" => Tel[i].s = s
  /\ \A i \in 1..w'.pos["status"] : i > w.pos["status"] => Sta[i].s = s
  /\ job.todo = <<>> /\ (job.s = s \/ job.then = "idle")

(* What the step has to show of s itself. *)
Moved(s) ==
  /\ s \notin w.failed => Attached(s) \/ Detached(s)
  /\ s \notin w.failed /\ w.term[s].kind /= "none" =>
       /\ w.offs[s]["status"] \in 1..w.pos["status"]
       /\ Sta[w.offs[s]["status"]] = w.term[s]
       /\ w.term[s].kind \in Terminal /\ w.term[s].s = s
  /\ LET j == w.offs[s]["telemetry"]
     IN  /\ j = 0 <=> w.last[s] = 0
         /\ j > 0 => j <= w.pos["telemetry"] /\ NoBad(j) /\ TelOk(j, s, w.last[s])
  /\ \A i \in 1..w.pos["status"] :
       Sta[i].kind = "COMPLETED" /\ Sta[i].s = s /\ w.term[s].kind /= "COMPLETED" => Settled(s)
  /\ s \notin w.failed /\ w.term[s].kind = "COMPLETED" /\ w.last[s] = Rows
       => Settled(s) \/ Busy(s)

(* The other sessions are as they were. *)
LEMMA MoveKeeps ==
  ASSUME IInv, NEW s \in Session, Moves(s), Moved(s)', JobType', JobInv'
  PROVE  /\ LogType' /\ TelInv' /\ StaInv' /\ MemType' /\ FailInv' /\ TermInv' /\ OffsInv'
         /\ SessionInv' /\ JobType' /\ JobInv' /\ DoneInv' /\ ScoreInv'
         /\ \A u : Settled(u)' <=> Settled(u)
<1>1. /\ LogType /\ MemType /\ FailInv /\ TermInv /\ OffsInv /\ SessionInv /\ JobInv
      /\ DoneInv /\ ScoreInv
  BY DEF IInv
<1>2. /\ log' = log /\ replay' = replay /\ features' = features /\ scores' = scores
      /\ emitted' = emitted /\ MemType'
      /\ w'.failed = w.failed /\ w'.blocked = w.blocked /\ w'.own = w.own
  BY DEF Moves
<1>3. ASSUME NEW u \in Session, u # s
      PROVE  /\ w'.last[u] = w.last[u] /\ w'.builders[u] = w.builders[u]
             /\ w'.term[u] = w.term[u] /\ w'.offs[u] = w.offs[u]
  BY <1>3 DEF Moves
<1>4. /\ Grown /\ LogType' /\ TelInv' /\ StaInv' /\ Tel' = Tel /\ Sta' = Sta
      /\ DOMAIN Sta = 1..Len(Sta) /\ (DOMAIN Sta)' = 1..(Len(Sta)')
  BY <1>2, SameLog
<1>5. /\ w.pos["telemetry"] \in Nat /\ w.pos["status"] \in Nat
      /\ w'.pos["telemetry"] \in Nat /\ w'.pos["status"] \in Nat
      /\ w.pos["telemetry"] <= w'.pos["telemetry"] /\ w.pos["status"] <= w'.pos["status"]
      /\ w.pos["telemetry"] <= Len(Tel) /\ w.pos["status"] <= Len(Sta)
      /\ Len(Tel) \in Nat /\ Len(Sta) \in Nat
  BY <1>1, <1>2, LogDomain DEF Moves, MemType, Topics
<1>6. \A i : NoBad(i)' <=> NoBad(i)
  BY <1>4 DEF NoBad
<1>7. FailInv'
  BY <1>1, <1>2, <1>4, <1>6 DEF FailInv, FailedSession, Moves
<1>8. TermInv'
  <2> SUFFICES ASSUME NEW u \in Session \ w.failed, w'.term[u].kind # "none"
               PROVE  /\ w'.offs[u]["status"] \in 1..w'.pos["status"]
                      /\ Sta[w'.offs[u]["status"]] = w'.term[u]
                      /\ w'.term[u].kind \in Terminal /\ w'.term[u].s = u
    BY <1>2, <1>4 DEF TermInv
  <2>1. CASE u = s
    BY <1>2, <1>4, <2>1 DEF Moved
  <2>2. CASE u # s
    <3>1. w'.term[u] = w.term[u] /\ w'.offs[u] = w.offs[u]
      BY <1>3, <2>2
    <3>2. /\ w.offs[u]["status"] \in 1..w.pos["status"]
          /\ Sta[w.offs[u]["status"]] = w.term[u]
          /\ w.term[u].kind \in Terminal /\ w.term[u].s = u
      BY <1>1, <3>1 DEF TermInv
    <3> QED
      BY <1>5, <3>1, <3>2
  <2> QED
    BY <2>1, <2>2
<1>9. OffsInv'
  <2> SUFFICES ASSUME NEW u \in Session
               PROVE  LET j == w'.offs[u]["telemetry"]
                      IN  /\ j = 0 <=> w'.last[u] = 0
                          /\ j > 0 => /\ j <= w'.pos["telemetry"] /\ NoBad(j)
                                      /\ TelOk(j, u, w'.last[u])
    BY <1>4, <1>6 DEF OffsInv, TelOk
  <2>1. CASE u = s
    BY <1>4, <1>6, <2>1 DEF Moved, TelOk
  <2>2. CASE u # s
    <3>1. w'.last[u] = w.last[u] /\ w'.offs[u] = w.offs[u] /\ w.offs[u]["telemetry"] \in Nat
      BY <1>1, <1>3, <2>2 DEF MemType, Topics
    <3> QED
      BY <1>1, <1>5, <3>1 DEF OffsInv
  <2> QED
    BY <2>1, <2>2
<1>10. SessionInv'
  <2> SUFFICES ASSUME NEW u \in Session \ w.failed PROVE Attached(u)' \/ Detached(u)'
    BY <1>2 DEF SessionInv
  <2>1. CASE u = s
    BY <1>2, <2>1 DEF Moved
  <2>2. CASE u # s /\ Attached(u)
    <3>1. \A e \in Nat : ~Pending(u, e)
      BY DEF Moves, Pending
    <3>2. w.builders[u].complete => w.term[u].kind = "COMPLETED"
      BY <2>2 DEF Attached, BuilderInv, BuilderAt, new_builder
    <3>3. \A i \in 1..w'.pos["telemetry"] :
            i > w.pos["telemetry"] /\ NoBad(i)' => ~(Tel'[i].kind = "ok" /\ Tel'[i].s = u)
      BY <1>4, <1>6, <2>2 DEF Moves
    <3>4. u \in Session /\ u # s
      BY <2>2
    <3> QED
      BY <1>2, <1>3, <1>4, <1>5, <2>2, <3>1, <3>2, <3>3, <3>4, AttachedKept
  <2>3. CASE u # s /\ Detached(u)
    <3>1. w.term[u].kind = "none" /\ replay.i \in Nat /\ u \in Nat
      BY <1>1, <2>3 DEF Detached, LogType, Session
    <3>2. \A i \in 1..Len(Tel)' : ~(i > Len(Tel))
      BY <1>4, <1>5
    <3>4. u \in Session /\ u # s
      BY <2>3
    <3> QED
      BY <1>2, <1>3, <1>4, <1>5, <2>3, <3>1, <3>2, <3>4, DetachedKept
  <2> QED
    BY <1>1, <2>1, <2>2, <2>3 DEF SessionInv
<1>11. \A u : Settled(u)' <=> Settled(u)
  BY <1>2 DEF Settled, StoppedSession, FailedSession
<1>12. DoneInv'
  <2>1. ASSUME NEW i \in 1..w'.pos["status"], Sta[i].kind = "COMPLETED",
               w'.term[Sta[i].s].kind # "COMPLETED"
        PROVE  Settled(Sta[i].s)
    <3>0. PICK u : u = Sta[i].s
      OBVIOUS
    <3>1. CASE u = s
      <4>1. Settled(s)'
        BY <1>4, <2>1, <3>0, <3>1 DEF Moved
      <4> QED
        BY <1>11, <3>0, <3>1, <4>1
    <3>2. CASE u # s
      <4>1. i \in 1..w.pos["status"]
        BY <1>5, <3>0, <3>2 DEF Moves
      <4>2. i \in 1..Len(Sta)
        BY <1>5, <4>1
      <4>3. Sta[i] \in StaRecord
        BY <1>1, <4>2, LogDomain
      <4>4. u \in Session
        BY <3>0, <4>3 DEF StaRecord
      <4>5. w.term[u].kind # "COMPLETED"
        BY <1>3, <2>1, <3>0, <3>2, <4>4
      <4> QED
        BY <1>1, <2>1, <3>0, <4>1, <4>5 DEF DoneInv
    <3> QED
      BY <3>1, <3>2
  <2>2. ASSUME NEW u \in Session \ w.failed, w'.term[u].kind = "COMPLETED", w'.last[u] = Rows
        PROVE  Settled(u) \/ Busy(u)'
    <3>1. CASE u = s
      BY <1>2, <1>11, <2>2, <3>1 DEF Moved
    <3>2. CASE u # s
      <4>1. w.term[u].kind = "COMPLETED" /\ w.last[u] = Rows
        BY <1>3, <2>2, <3>2
      <4>2. ~Busy(u)
        BY <3>2 DEF Busy, Moves
      <4> QED
        BY <1>1, <4>1, <4>2 DEF DoneInv
    <3> QED
      BY <3>1, <3>2
  <2>3. \A i \in 1..w'.pos["status"] :
          Sta'[i].kind = "COMPLETED" /\ w'.term[Sta'[i].s].kind # "COMPLETED" => Settled(Sta[i].s)'
    <3> SUFFICES ASSUME NEW i \in 1..w'.pos["status"], Sta'[i].kind = "COMPLETED",
                        w'.term[Sta'[i].s].kind # "COMPLETED"
                 PROVE  Settled(Sta[i].s)'
      OBVIOUS
    <3>1. PICK u : u = Sta[i].s /\ u = Sta'[i].s
      BY <1>4
    <3>2. Settled(u)'
      BY <1>4, <1>11, <2>1, <3>1
    <3> QED
      BY <3>1, <3>2
  <2>4. \A u \in Session \ w'.failed :
          w'.term[u].kind = "COMPLETED" /\ w'.last[u] = Rows => Settled(u)' \/ Busy(u)'
    BY <1>2, <1>11, <2>2
  <2> QED
    BY <2>3, <2>4 DEF DoneInv
<1>13. ScoreInv'
  BY <1>1, <1>2 DEF ScoreInv
<1> QED
  BY <1>2, <1>4, <1>7, <1>8, <1>9, <1>10, <1>11, <1>12, <1>13

(* Offsets that are not committed anew. *)
LEMMA CommitKept ==
  ASSUME CommitInv, offsets' = offsets, log' = log, \A u : Settled(u)' <=> Settled(u),
         w.pos["telemetry"] <= w'.pos["telemetry"], w.pos["status"] <= w'.pos["status"],
         MemType, MemType'
  PROVE  CommitInv'
<1>1. /\ offsets \in [Topics -> Nat] /\ offsets["telemetry"] \in Nat /\ offsets["status"] \in Nat
      /\ offsets["telemetry"] <= w.pos["telemetry"] /\ offsets["status"] <= w.pos["status"]
      /\ w.pos["telemetry"] \in Nat /\ w.pos["status"] \in Nat
      /\ w'.pos["telemetry"] \in Nat /\ w'.pos["status"] \in Nat
  BY DEF CommitInv, Topics, MemType
<1>2. offsets["telemetry"] <= w'.pos["telemetry"] /\ offsets["status"] <= w'.pos["status"]
  BY <1>1
<1>3. Tel' = Tel /\ Sta' = Sta
  BY DEF Tel, Sta
<1>4. \A i \in 1..offsets["status"] : Sta'[i].kind = "COMPLETED" => Settled(Sta[i].s)'
  <2> SUFFICES ASSUME NEW i \in 1..offsets["status"], Sta'[i].kind = "COMPLETED"
               PROVE  Settled(Sta[i].s)'
    OBVIOUS
  <2>1. PICK u : u = Sta[i].s /\ u = Sta'[i].s
    BY <1>3
  <2>2. Settled(u)
    BY <1>3, <2>1 DEF CommitInv
  <2>3. Settled(u)'
    BY <2>2
  <2> QED
    BY <2>1, <2>3
<1>5. offsets["telemetry"] > 0 =>
        LET r == Tel'[offsets["telemetry"]]
        IN  /\ r.kind = "ok" /\ r.k = Rows /\ NoBad(offsets["telemetry"])'
            /\ \E i \in 1..offsets["status"] : Ends(i, Tel[offsets["telemetry"]].s)'
  <2> SUFFICES ASSUME offsets["telemetry"] > 0
               PROVE  LET r == Tel'[offsets["telemetry"]]
                      IN  /\ r.kind = "ok" /\ r.k = Rows /\ NoBad(offsets["telemetry"])'
                          /\ \E i \in 1..offsets["status"] : Ends(i, Tel[offsets["telemetry"]].s)'
    OBVIOUS
  <2>1. PICK r : r = Tel[offsets["telemetry"]] /\ r = Tel'[offsets'["telemetry"]]
    BY <1>3
  <2>2. /\ r.kind = "ok" /\ r.k = Rows /\ NoBad(offsets["telemetry"])
        /\ \E i \in 1..offsets["status"] : Ends(i, r.s)
    BY <2>1 DEF CommitInv
  <2>3. \E i \in 1..offsets["status"] : Ends(i, r.s)'
    BY <1>3, <2>2 DEF Ends
  <2>4. NoBad(offsets["telemetry"])'
    BY <1>3, <2>2 DEF NoBad
  <2> QED
    BY <2>1, <2>2, <2>3, <2>4
<1> QED
  BY <1>1, <1>2, <1>4, <1>5 DEF CommitInv

(* A field of the worker's memory changed for one topic or one session.    *)
LEMMA PosUpdated ==
  ASSUME w.pos \in [Topics -> Nat], NEW t \in Topics, w'.pos = [w.pos EXCEPT ![t] = @ + 1]
  PROVE  /\ w'.pos \in [Topics -> Nat] /\ w'.pos[t] = w.pos[t] + 1
         /\ \A x \in Topics \ {t} : w'.pos[x] = w.pos[x]
<1>1. w.pos[t] + 1 \in Nat
  OBVIOUS
<1> QED
  BY <1>1

(* One builder is replaced. *)
LEMMA BuildersUpdated ==
  ASSUME w.builders = [u \in Session |-> w.builders[u]], NEW s \in Session, NEW v,
         w'.builders = [w.builders EXCEPT ![s] = v]
  PROVE  /\ w'.builders = [u \in Session |-> w'.builders[u]] /\ w'.builders[s] = v
         /\ \A u \in Session \ {s} : w'.builders[u] = w.builders[u]
OBVIOUS

(* One terminal status is replaced. *)
LEMMA TermUpdated ==
  ASSUME w.term = [u \in Session |-> w.term[u]], NEW s \in Session, NEW v,
         w'.term = [w.term EXCEPT ![s] = v]
  PROVE  /\ w'.term = [u \in Session |-> w'.term[u]] /\ w'.term[s] = v
         /\ \A u \in Session \ {s} : w'.term[u] = w.term[u]
OBVIOUS

(* One last row is replaced. *)
LEMMA LastUpdated ==
  ASSUME w.last \in [Session -> 0..Rows], NEW s \in Session, NEW k \in 0..Rows,
         w'.last = [w.last EXCEPT ![s] = k]
  PROVE  /\ w'.last \in [Session -> 0..Rows] /\ w'.last[s] = k
         /\ \A u \in Session \ {s} : w'.last[u] = w.last[u]
OBVIOUS

(* One tracked offset is replaced. *)
LEMMA OffsUpdated ==
  ASSUME w.offs \in [Session -> [Topics -> Nat]], NEW s \in Session, NEW t \in Topics, NEW v \in Nat,
         w'.offs = [w.offs EXCEPT ![s][t] = v]
  PROVE  /\ w'.offs \in [Session -> [Topics -> Nat]] /\ w'.offs[s][t] = v
         /\ \A u \in Session \ {s} : w'.offs[u] = w.offs[u]
         /\ \A x \in Topics \ {t} : w'.offs[s][x] = w.offs[s][x]
OBVIOUS

(* The memory once a row of session s, read at the next offset, is         *)
(* accepted.                                                               *)
RowMem(s, k) ==
  Advance([Track(w, s, "telemetry") EXCEPT !.builders[s] = push(w.builders[s], Row(k)).b,
                                           !.last[s] = k], "telemetry")

(* The memory after an accepted row, field by field. *)
LEMMA RowFields ==
  ASSUME MemType, NEW s \in Session, NEW k \in 0..Rows
  PROVE  LET n == RowMem(s, k)
         IN  /\ DOMAIN n = MemFields
             /\ n.pos = [w.pos EXCEPT !["telemetry"] = @ + 1]
             /\ n.builders = [w.builders EXCEPT ![s] = push(w.builders[s], Row(k)).b]
             /\ n.last = [w.last EXCEPT ![s] = k]
             /\ n.term = w.term
             /\ n.offs = [w.offs EXCEPT ![s]["telemetry"] = w.pos["telemetry"] + 1]
             /\ n.failed = w.failed /\ n.blocked = w.blocked /\ n.own = w.own
<1> DEFINE b == push(w.builders[s], Row(k)).b
<1> DEFINE m == Track(w, s, "telemetry")
<1> DEFINE n == [m EXCEPT !.builders[s] = b, !.last[s] = k]
<1>1. DOMAIN w = MemFields
  BY DEF MemType
<1> HIDE DEF b
<1>2. /\ DOMAIN m = MemFields
      /\ m.offs = [w.offs EXCEPT ![s]["telemetry"] = w.pos["telemetry"] + 1]
      /\ m.builders = w.builders /\ m.last = w.last /\ m.term = w.term /\ m.pos = w.pos
      /\ m.failed = w.failed /\ m.blocked = w.blocked /\ m.own = w.own
  BY <1>1 DEF Track, MemFields
<1> HIDE DEF m
<1>3. /\ DOMAIN n = MemFields
      /\ n.builders = [m.builders EXCEPT ![s] = b] /\ n.last = [m.last EXCEPT ![s] = k]
      /\ n.offs = m.offs /\ n.term = m.term /\ n.pos = m.pos
      /\ n.failed = m.failed /\ n.blocked = m.blocked /\ n.own = m.own
  BY <1>2 DEF MemFields
<1>4. RowMem(s, k) = Advance(n, "telemetry")
  BY DEF RowMem, m, b
<1> HIDE DEF n
<1>5. n.pos \in [Topics -> Nat] /\ "telemetry" \in Topics
  BY <1>2, <1>3 DEF MemType, Topics
<1> QED
  BY <1>2, <1>3, <1>4, <1>5, AdvanceFields DEF b

(* The handler of a row of a session that goes on. *)
LEMMA RowStep ==
  ASSUME IInv, Handled, w.pos["telemetry"] < Len(Tel), exit' = exit, log' = log,
         NEW r, r = Tel[w.pos["telemetry"] + 1],
         ~_is_blocked("telemetry"), r.kind = "ok", r.s \notin w.failed,
         w' = RowMem(r.s, r.k),
         job' = Job(r.s, push(w.builders[r.s], Row(r.k)).out, "barrier")
  PROVE  IInv'
<1>1. /\ LogType /\ MemType /\ FailInv /\ TermInv /\ OffsInv /\ SessionInv /\ DoneInv
      /\ CommitInv /\ TelInv
  BY DEF IInv
<1> DEFINE p == w.pos["telemetry"]
<1>2. PICK s, k : s = r.s /\ k = r.k
  OBVIOUS
<1>3. /\ p \in Nat /\ p + 1 \in 1..Len(Tel) /\ Len(Tel) \in Nat
      /\ w.pos["status"] \in Nat /\ w.pos["status"] <= Len(Sta)
      /\ w.pos \in [Topics -> Nat]
  BY <1>1, Positions
<1>4. s \in Session /\ k \in 1..Rows /\ k \in 0..Rows
  <2>1. r \in TelRecord
    BY <1>1, <1>3, LogDomain
  <2>2. k >= 1
    BY <1>1, <1>2, <1>3 DEF TelInv
  <2> QED
    BY ONLY <1>2, <2>1, <2>2 DEF TelRecord
<1>5. TelOk(p + 1, s, k)
  BY <1>2 DEF TelOk
<1> DEFINE c == push(w.builders[s], Row(k))
<1>21. w' = RowMem(s, k) /\ job' = Job(s, c.out, "barrier")
  BY <1>2
<1>6. /\ DOMAIN w' = MemFields
      /\ w'.pos = [w.pos EXCEPT !["telemetry"] = @ + 1]
      /\ w'.builders = [w.builders EXCEPT ![s] = c.b]
      /\ w'.last = [w.last EXCEPT ![s] = k]
      /\ w'.term = w.term
      /\ w'.offs = [w.offs EXCEPT ![s]["telemetry"] = p + 1]
      /\ w'.failed = w.failed /\ w'.blocked = w.blocked /\ w'.own = w.own
  BY ONLY <1>1, <1>4, <1>21, RowFields
<1>7. job' = Job(s, c.out, "barrier")
  BY <1>2
<1>8. /\ log' = log /\ replay' = replay /\ features' = features /\ scores' = scores
      /\ emitted' = emitted /\ offsets' = offsets /\ exit' = exit /\ exit = "none" /\ job = Idle
      /\ Tel' = Tel /\ Sta' = Sta
  BY DEF Handled, Tel, Sta
<1> HIDE DEF c, p
<1>22. "telemetry" \in Topics /\ Topics \ {"telemetry"} = {"status"}
  BY DEF Topics
<1>23. /\ w'.pos \in [Topics -> Nat] /\ w'.pos["telemetry"] = w.pos["telemetry"] + 1
       /\ w'.pos["status"] = w.pos["status"]
  BY <1>3, <1>6, <1>22, PosUpdated
<1>24. /\ w'.offs \in [Session -> [Topics -> Nat]] /\ w'.offs[s]["telemetry"] = p + 1
       /\ \A u \in Session \ {s} : w'.offs[u] = w.offs[u]
       /\ w'.offs[s]["status"] = w.offs[s]["status"]
  <2>1. w.offs \in [Session -> [Topics -> Nat]] /\ p + 1 \in Nat
    BY ONLY <1>1, <1>3 DEF MemType, p
  <2> QED
    BY ONLY <1>4, <1>6, <1>22, <2>1, OffsUpdated
<1>25. /\ w'.builders = [u \in Session |-> w'.builders[u]] /\ w'.builders[s] = c.b
       /\ \A u \in Session \ {s} : w'.builders[u] = w.builders[u]
  <2>1. w.builders = [u \in Session |-> w.builders[u]]
    BY <1>1 DEF MemType
  <2> QED
    BY <1>4, <1>6, <2>1, BuildersUpdated
<1>26. /\ w'.last \in [Session -> 0..Rows] /\ w'.last[s] = k
       /\ \A u \in Session \ {s} : w'.last[u] = w.last[u]
  <2>1. w.last \in [Session -> 0..Rows]
    BY <1>1 DEF MemType
  <2> QED
    BY <1>4, <1>6, <2>1, LastUpdated
<1>9. /\ w'.pos["telemetry"] = p + 1 /\ w'.pos["status"] = w.pos["status"]
      /\ w'.builders[s] = c.b /\ w'.last[s] = k /\ w'.term[s] = w.term[s]
      /\ w'.offs[s]["telemetry"] = p + 1 /\ w'.offs[s]["status"] = w.offs[s]["status"]
      /\ \A u \in Session \ {s} :
           /\ w'.last[u] = w.last[u] /\ w'.builders[u] = w.builders[u]
           /\ w'.term[u] = w.term[u] /\ w'.offs[u] = w.offs[u]
  BY <1>6, <1>23, <1>24, <1>25, <1>26 DEF p
<1>10. NoBad(p) /\ NoBad(p + 1) /\ \A i : NoBad(i)' <=> NoBad(i)
  <2>1. NoBad(p)
    BY <1>1 DEF FailInv, _is_blocked, p
  <2>2. NoBad(p + 1)
    BY ONLY <1>3, <1>5, <2>1 DEF NoBad, TelOk
  <2> QED
    BY <1>8, <2>1, <2>2 DEF NoBad, Tel
<1>11. MemType'
  <2>1. w'.pos["telemetry"] <= Len(Tel) /\ w'.pos["status"] <= Len(Sta)
    BY ONLY <1>3, <1>9 DEF p
  <2>5. w'.term = [u \in Session |-> w'.term[u]]
    BY <1>1, <1>6 DEF MemType
  <2>6. Len(Tel)' = Len(Tel) /\ Len(Sta)' = Len(Sta)
    BY <1>8 DEF Tel, Sta
  <2>7. w'.failed \subseteq Session /\ w'.blocked \subseteq Topics /\ w'.own \subseteq Nat
    BY <1>1, <1>6 DEF MemType
  <2> QED
    BY <1>6, <1>23, <1>24, <1>25, <1>26, <2>1, <2>5, <2>6, <2>7 DEF MemType
<1>12. job.todo = <<>> /\ job.then = "idle"
  BY <1>8 DEF Idle
<1>13. job'.s = s /\ job'.todo = c.out /\ job'.then = "barrier" /\ job'.attempt = 0
  BY ONLY <1>7 DEF Job
<1>14. Moves(s)
  <2>1. \A i \in 1..w'.pos["telemetry"] :
          i > w.pos["telemetry"] /\ NoBad(i) /\ Tel[i].kind = "ok" => Tel[i].s = s
    <3> SUFFICES ASSUME NEW i \in 1..(p + 1), i > p PROVE Tel[i].s = s
      BY <1>9 DEF p
    <3>1. i = p + 1
      BY ONLY <1>3, i \in 1..(p + 1), i > p
    <3> QED
      BY <1>5, <3>1 DEF TelOk
  <2>2. \A i \in 1..w'.pos["status"] : ~(i > w.pos["status"])
    BY ONLY <1>3, <1>23
  <2>3. NoBad(w.pos["telemetry"]) <=> NoBad(w'.pos["telemetry"])
    BY <1>9, <1>10 DEF p
  <2>4. w.pos["telemetry"] <= w'.pos["telemetry"] /\ w.pos["status"] <= w'.pos["status"]
    BY ONLY <1>3, <1>23 DEF p
  <2> QED
    BY <1>6, <1>8, <1>9, <1>11, <1>12, <2>1, <2>2, <2>3, <2>4 DEF Moves
<1>15. /\ Attached(s)' \/ Detached(s)'
       /\ \/ job'.todo = <<>>
          \/ \E e \in Nat : /\ Due(e) /\ job'.todo = <<Window(e)>> /\ Attached(s)'
                            /\ emitted[s] < e /\ e <= Closed(s)'
  <2>1. Tel' = Tel /\ Sta' = Sta
    BY <1>8 DEF Tel, Sta
  <2>2. CASE Attached(s)
    BY <1>3, <1>4, <1>5, <1>8, <1>9, <1>10, <1>12, <1>13, <2>1, <2>2, RowAttached, ZenonT(30) DEF c, p
  <2>3. CASE Detached(s)
    <3>1. Detached(s)' /\ c.out = <<>>
      BY <1>4, <1>5, <1>8, <1>9, <2>1, <2>3, RowDetached DEF c, p
    <3> QED
      BY <1>13, <3>1
  <2> QED
    BY <1>1, <1>2, <1>4, <2>2, <2>3 DEF SessionInv
<1>16. JobType'
  <2>1. job'.todo = <<>> \/ \E e \in Nat : Due(e) /\ job'.todo = <<Window(e)>>
    BY <1>15
  <2>2. job' = [s |-> job'.s, todo |-> job'.todo, attempt |-> job'.attempt, then |-> job'.then]
    BY <1>7, <1>13 DEF Job
  <2> QED
    BY ONLY <1>13, <2>1, <2>2 DEF JobType
<1>17. JobInv'
  <2>1. ASSUME NEW e \in Nat, job'.todo = <<Window(e)>>
        PROVE  Attached(s)' /\ emitted'[s] < e /\ e <= Closed(s)'
    <3>1. PICK d \in Nat : /\ job'.todo = <<Window(d)>> /\ Attached(s)'
                           /\ emitted[s] < d /\ d <= Closed(s)'
      BY ONLY <1>15, <2>1
    <3>2. d = e
      BY <2>1, <3>1, WindowEnd
    <3> QED
      BY <1>8, <3>1, <3>2
  <2> QED
    BY <1>2, <1>4, <1>6, <1>13, <2>1 DEF JobInv
<1>18. Moved(s)'
  <2>1. /\ w'.offs[s]["telemetry"] # 0 /\ w'.last[s] # 0 /\ NoBad(w.offs[s]["telemetry"])'
        /\ w'.offs[s]["telemetry"] <= w'.pos["telemetry"]
        /\ TelOk(w.offs[s]["telemetry"], s, w.last[s])'
    <3>1. w'.offs[s]["telemetry"] = p + 1 /\ w'.last[s] = k /\ w'.pos["telemetry"] = p + 1
      BY <1>9
    <3>2. p \in Nat /\ k \in 1..Rows
      BY <1>3, <1>4
    <3>3. p + 1 # 0 /\ k # 0 /\ p + 1 <= p + 1
      BY ONLY <3>2
    <3>4. PICK q : q = p + 1
      OBVIOUS
    <3>7. Tel'[q].kind = "ok" /\ Tel'[q].s = s /\ Tel'[q].k = k
      BY ONLY <1>5, <1>8, <3>4 DEF TelOk
    <3>5. (TelOk(w.offs[s]["telemetry"], s, w.last[s]))'
      BY ONLY <3>1, <3>4, <3>7 DEF TelOk
    <3>6. NoBad(w.offs[s]["telemetry"])'
      BY ONLY <1>8, <1>10, <3>1 DEF NoBad
    <3> QED
      BY ONLY <3>1, <3>3, <3>5, <3>6
  <2>2. w'.term[s].kind # "none" =>
          /\ w'.offs[s]["status"] \in 1..w'.pos["status"]
          /\ Sta'[w'.offs[s]["status"]] = w'.term[s]
          /\ w'.term[s].kind \in Terminal /\ w'.term[s].s = s
    <3>1. s \in Session \ w.failed
      BY <1>2, <1>4
    <3> QED
      BY ONLY <1>1, <1>8, <1>9, <3>1 DEF TermInv
  <2>3. Busy(s)'
    BY <1>13 DEF Busy
  <2>4. \A i \in 1..w'.pos["status"] :
          Sta'[i].kind = "COMPLETED" /\ Sta'[i].s = s /\ w'.term[s].kind # "COMPLETED" => Settled(s)'
    <3>1. Settled(s)' <=> Settled(s)
      BY <1>8 DEF Settled, StoppedSession, FailedSession
    <3> QED
      BY ONLY <1>1, <1>8, <1>9, <3>1 DEF DoneInv, Sta
  <2> QED
    BY ONLY <1>6, <1>15, <2>1, <2>2, <2>3, <2>4 DEF Moved
<1>19. /\ LogType' /\ TelInv' /\ StaInv' /\ MemType' /\ FailInv' /\ TermInv' /\ OffsInv'
       /\ SessionInv' /\ JobType' /\ JobInv' /\ DoneInv' /\ ScoreInv'
       /\ \A u : Settled(u)' <=> Settled(u)
  BY <1>4, <1>14, <1>16, <1>17, <1>18, MoveKeeps
<1>20. CommitInv'
  BY <1>1, <1>8, <1>14, <1>19, CommitKept DEF Moves
<1> QED
  BY <1>19, <1>20 DEF IInv

-----------------------------------------------------------------------------
(* The handler of a terminal status, and the barrier.                      *)

(* The memory once the terminal status r of session s is read.             *)
StatusMem(s, r) == [Advance(Track(w, s, "status"), "status") EXCEPT !.term[s] = r]

(* The memory after a terminal status, field by field. *)
LEMMA StatusFields ==
  ASSUME MemType, NEW s \in Session, NEW r
  PROVE  LET n == StatusMem(s, r)
         IN  /\ DOMAIN n = MemFields
             /\ n.pos = [w.pos EXCEPT !["status"] = @ + 1]
             /\ n.builders = w.builders /\ n.last = w.last
             /\ n.term = [w.term EXCEPT ![s] = r]
             /\ n.offs = [w.offs EXCEPT ![s]["status"] = w.pos["status"] + 1]
             /\ n.failed = w.failed /\ n.blocked = w.blocked /\ n.own = w.own
<1> DEFINE m == Track(w, s, "status")
<1> DEFINE n == Advance(m, "status")
<1>1. DOMAIN w = MemFields
  BY DEF MemType
<1>2. /\ DOMAIN m = MemFields
      /\ m.offs = [w.offs EXCEPT ![s]["status"] = w.pos["status"] + 1]
      /\ m.builders = w.builders /\ m.last = w.last /\ m.term = w.term /\ m.pos = w.pos
      /\ m.failed = w.failed /\ m.blocked = w.blocked /\ m.own = w.own
  BY <1>1 DEF Track, MemFields
<1> HIDE DEF m
<1>3. m.pos \in [Topics -> Nat] /\ "status" \in Topics
  BY <1>2 DEF MemType, Topics
<1>4. /\ DOMAIN n = MemFields
      /\ n.pos = [m.pos EXCEPT !["status"] = @ + 1]
      /\ n.builders = m.builders /\ n.last = m.last /\ n.term = m.term /\ n.offs = m.offs
      /\ n.failed = m.failed /\ n.blocked = m.blocked /\ n.own = m.own
  BY <1>2, <1>3, AdvanceFields
<1>5. StatusMem(s, r) = [n EXCEPT !.term[s] = r]
  BY DEF StatusMem, m
<1> HIDE DEF n
<1>6. /\ DOMAIN StatusMem(s, r) = MemFields
      /\ StatusMem(s, r).term = [n.term EXCEPT ![s] = r]
      /\ StatusMem(s, r).pos = n.pos /\ StatusMem(s, r).builders = n.builders
      /\ StatusMem(s, r).last = n.last /\ StatusMem(s, r).offs = n.offs
      /\ StatusMem(s, r).failed = n.failed /\ StatusMem(s, r).blocked = n.blocked
      /\ StatusMem(s, r).own = n.own
  BY <1>4, <1>5 DEF MemFields
<1> QED
  BY <1>2, <1>4, <1>6

(* The first terminal status of a session that is read finds it attached,  *)
(* its builder open and its status unknown.                                *)
LEMMA FirstTerminal ==
  ASSUME IInv, w.pos["status"] < Len(Sta),
         NEW r, r = Sta[w.pos["status"] + 1], r.kind \in Terminal
  PROVE  /\ r.s \in Session
         /\ r.kind = "COMPLETED" => r.last = Rows /\ r.ts = Rows
         /\ r.kind = "STOPPED" => r.last = 0 /\ r.ts = 0
         /\ \A i \in 1..w.pos["status"] : ~Ends(i, r.s)
         /\ r.s \notin w.failed =>
              /\ Attached(r.s) /\ w.term[r.s].kind = "none"
              /\ \/ w.last[r.s] = 0 /\ w.builders[r.s] = new_builder
                 \/ w.last[r.s] > 0 /\ BuilderAt(w.builders[r.s], w.last[r.s])
<1>1. LogType /\ MemType /\ StaInv /\ TermInv /\ SessionInv
  BY DEF IInv
<1> DEFINE p == w.pos["status"]
<1>2. p \in Nat /\ p + 1 \in 1..Len(Sta) /\ Len(Sta) \in Nat
  BY <1>1, LogDomain DEF MemType, Topics
<1>3. PICK s : s = r.s
  OBVIOUS
<1>4. s \in Session /\ Sta[p + 1] \in StaRecord
  BY <1>1, <1>2, <1>3, LogDomain DEF StaRecord
<1>5. /\ r.kind = "COMPLETED" => r.last = Rows /\ r.ts = Rows
      /\ r.kind = "STOPPED" => r.last = 0 /\ r.ts = 0
  BY <1>1, <1>2 DEF StaInv
<1>6. ASSUME NEW i \in 1..p PROVE ~Ends(i, s)
  <2>1. i \in 1..Len(Sta) /\ i < p + 1 /\ Sta[i] \in StaRecord
    BY <1>1, <1>2, LogDomain
  <2>2. Sta[i].s \in Nat /\ s \in Nat
    BY <1>4, <2>1 DEF StaRecord, Session
  <2>3. Sta[i].kind \in Terminal => Sta[i].s < Sta[p + 1].s
    BY <1>1, <1>2, <2>1 DEF StaInv
  <2> QED
    BY <1>3, <2>2, <2>3 DEF Ends
<1>7. ASSUME s \notin w.failed
      PROVE  /\ Attached(s) /\ w.term[s].kind = "none"
             /\ \/ w.last[s] = 0 /\ w.builders[s] = new_builder
                \/ w.last[s] > 0 /\ BuilderAt(w.builders[s], w.last[s])
  <2>1. Attached(s)
    BY <1>1, <1>4, <1>6, <1>7 DEF SessionInv, Detached
  <2>2. w.term[s].kind = "none"
    BY <1>1, <1>4, <1>6, <1>7 DEF TermInv, Ends
  <2> QED
    BY <2>1, <2>2 DEF Attached, BuilderInv
<1> QED
  BY <1>3, <1>4, <1>5, <1>6, <1>7

(* What the handler has done of a terminal status, whatever it makes of    *)
(* the builder.                                                            *)
TerminalRead(r, s, b) ==
  /\ w.pos["status"] < Len(Sta) /\ r = Sta[w.pos["status"] + 1]
  /\ r.kind \in Terminal /\ s = r.s
  /\ DOMAIN w' = MemFields
  /\ w'.pos = [w.pos EXCEPT !["status"] = @ + 1]
  /\ w'.builders = [w.builders EXCEPT ![s] = b] /\ w'.last = w.last
  /\ w'.term = [w.term EXCEPT ![s] = r]
  /\ w'.offs = [w.offs EXCEPT ![s]["status"] = w.pos["status"] + 1]
  /\ w'.failed = w.failed /\ w'.blocked = w.blocked /\ w'.own = w.own

(* What a terminal status that is read changes, and what is left to show   *)
(* of its session.                                                         *)
LEMMA StatusMoves ==
  ASSUME IInv, Handled, log' = log, NEW r, NEW s, NEW b, TerminalRead(r, s, b)
  PROVE  /\ Moves(s)
         /\ w'.pos["telemetry"] = w.pos["telemetry"] /\ w'.pos["status"] = w.pos["status"] + 1
         /\ w'.builders[s] = b /\ w'.term[s] = r
         /\ w'.offs[s]["status"] = w'.pos["status"]
         /\ w'.offs[s]["telemetry"] = w.offs[s]["telemetry"]
         /\ (/\ s \notin w.failed => Attached(s) \/ Detached(s)
             /\ s \notin w.failed /\ w.term[s].kind = "COMPLETED" /\ w.last[s] = Rows
                  => Settled(s) \/ Busy(s))'
            => Moved(s)'
<1>1. LogType /\ MemType /\ OffsInv
  BY DEF IInv
<1>20. /\ w.pos["status"] < Len(Sta) /\ r = Sta[w.pos["status"] + 1]
       /\ r.kind \in Terminal /\ s = r.s
  BY DEF TerminalRead
<1>2. PICK p : p = w.pos["status"]
  OBVIOUS
<1>3. /\ p \in Nat /\ p + 1 \in 1..Len(Sta) /\ Len(Sta) \in Nat /\ p + 1 \in Nat
      /\ w.pos["telemetry"] \in Nat /\ w.pos["telemetry"] <= Len(Tel)
      /\ w.pos \in [Topics -> Nat]
  BY <1>1, <1>2, <1>20, Positions
<1>4. s \in Session /\ \A i \in 1..p : ~Ends(i, s)
  BY <1>2, <1>20, FirstTerminal
<1>5. /\ log' = log /\ replay' = replay /\ features' = features /\ scores' = scores
      /\ emitted' = emitted /\ job = Idle /\ Tel' = Tel /\ Sta' = Sta
  BY DEF Handled, Tel, Sta
<1>6. r = Sta[p + 1] /\ r.s = s /\ r.kind \in Terminal
  BY <1>2, <1>20
<1>7. /\ DOMAIN w' = MemFields /\ w'.last = w.last
      /\ w'.failed = w.failed /\ w'.blocked = w.blocked /\ w'.own = w.own
  BY DEF TerminalRead
<1>8. "status" \in Topics /\ Topics \ {"status"} = {"telemetry"}
  BY DEF Topics
<1>9. /\ w'.pos \in [Topics -> Nat] /\ w'.pos["status"] = p + 1
      /\ w'.pos["telemetry"] = w.pos["telemetry"]
  <2>1. w'.pos = [w.pos EXCEPT !["status"] = @ + 1]
    BY DEF TerminalRead
  <2> QED
    BY ONLY <1>2, <1>3, <1>8, <2>1, PosUpdated
<1>10. /\ w'.offs \in [Session -> [Topics -> Nat]] /\ w'.offs[s]["status"] = p + 1
       /\ \A u \in Session \ {s} : w'.offs[u] = w.offs[u]
       /\ w'.offs[s]["telemetry"] = w.offs[s]["telemetry"]
  <2>1. w.offs \in [Session -> [Topics -> Nat]]
    BY <1>1 DEF MemType
  <2>2. w'.offs = [w.offs EXCEPT ![s]["status"] = p + 1]
    BY <1>2 DEF TerminalRead
  <2> QED
    BY ONLY <1>3, <1>4, <1>8, <2>1, <2>2, OffsUpdated
<1>11. /\ w'.builders = [u \in Session |-> w'.builders[u]] /\ w'.builders[s] = b
       /\ \A u \in Session \ {s} : w'.builders[u] = w.builders[u]
  <2>1. w.builders = [u \in Session |-> w.builders[u]]
    BY <1>1 DEF MemType
  <2>2. w'.builders = [w.builders EXCEPT ![s] = b]
    BY DEF TerminalRead
  <2> QED
    BY ONLY <1>4, <2>1, <2>2, BuildersUpdated
<1>12. /\ w'.term = [u \in Session |-> w'.term[u]] /\ w'.term[s] = r
       /\ \A u \in Session \ {s} : w'.term[u] = w.term[u]
  <2>1. w.term = [u \in Session |-> w.term[u]]
    BY <1>1 DEF MemType
  <2>2. w'.term = [w.term EXCEPT ![s] = r]
    BY DEF TerminalRead
  <2> QED
    BY ONLY <1>4, <2>1, <2>2, TermUpdated
<1>13. MemType'
  <2>1. w'.pos["telemetry"] <= Len(Tel) /\ w'.pos["status"] <= Len(Sta)
    BY ONLY <1>3, <1>9
  <2>2. /\ w'.last \in [Session -> 0..Rows]
        /\ w'.failed \subseteq Session /\ w'.blocked \subseteq Topics /\ w'.own \subseteq Nat
    BY <1>1, <1>7 DEF MemType
  <2>3. Len(Tel)' = Len(Tel) /\ Len(Sta)' = Len(Sta)
    BY <1>5 DEF Tel, Sta
  <2> QED
    BY ONLY <1>7, <1>9, <1>10, <1>11, <1>12, <2>1, <2>2, <2>3 DEF MemType
<1>14. job.todo = <<>> /\ job.then = "idle"
  BY <1>5 DEF Idle
<1>15. Moves(s)
  <2>1. \A i \in 1..w'.pos["telemetry"] : ~(i > w.pos["telemetry"])
    BY ONLY <1>3, <1>9
  <2>2. \A i \in 1..w'.pos["status"] : i > w.pos["status"] => Sta[i].s = s
    <3>1. \A i \in 1..(p + 1) : i > p => i = p + 1
      BY ONLY <1>3
    <3> QED
      BY ONLY <1>2, <1>6, <1>9, <3>1
  <2>3. NoBad(w.pos["telemetry"]) <=> NoBad(w'.pos["telemetry"])
    BY <1>9
  <2>4. w.pos["telemetry"] <= w'.pos["telemetry"] /\ w.pos["status"] <= w'.pos["status"]
    BY ONLY <1>2, <1>3, <1>9
  <2> QED
    BY ONLY <1>5, <1>7, <1>10, <1>11, <1>12, <1>13, <1>14, <2>1, <2>2, <2>3, <2>4 DEF Moves
<1>16. /\ w'.offs[s]["status"] \in 1..w'.pos["status"]
       /\ Sta'[w'.offs[s]["status"]] = w'.term[s]
       /\ w'.term[s].kind \in Terminal /\ w'.term[s].s = s
  <2>1. p + 1 \in 1..(p + 1)
    BY ONLY <1>3
  <2> QED
    BY ONLY <1>5, <1>6, <1>9, <1>10, <1>12, <2>1
<1>17. (LET j == w.offs[s]["telemetry"]
        IN  /\ j = 0 <=> w.last[s] = 0
            /\ j > 0 => j <= w.pos["telemetry"] /\ NoBad(j) /\ TelOk(j, s, w.last[s]))'
  <2>1. PICK j : j = w.offs[s]["telemetry"]
    OBVIOUS
  <2>2. /\ j = 0 <=> w.last[s] = 0
        /\ j > 0 => j <= w.pos["telemetry"] /\ NoBad(j) /\ TelOk(j, s, w.last[s])
    BY ONLY <1>1, <1>4, <2>1 DEF OffsInv
  <2>3. j = w'.offs[s]["telemetry"] /\ w'.last[s] = w.last[s]
    BY ONLY <1>7, <1>10, <2>1
  <2> QED
    BY ONLY <1>5, <1>9, <2>2, <2>3 DEF NoBad, TelOk
<1>18. \A i \in 1..w'.pos["status"] :
         Sta'[i].kind = "COMPLETED" /\ Sta'[i].s = s => w'.term[s].kind = "COMPLETED"
  <2>1. ASSUME NEW i \in 1..(p + 1), Sta[i].kind = "COMPLETED", Sta[i].s = s
        PROVE  r.kind = "COMPLETED"
    <3>1. ~(i \in 1..p)
      BY <1>4, <2>1 DEF Ends, Terminal
    <3>2. i = p + 1
      BY ONLY <1>3, <3>1, i \in 1..(p + 1)
    <3> QED
      BY <1>6, <2>1, <3>2
  <2> QED
    BY ONLY <1>5, <1>9, <1>12, <2>1
<1>19. ASSUME (/\ s \notin w.failed => Attached(s) \/ Detached(s)
               /\ s \notin w.failed /\ w.term[s].kind = "COMPLETED" /\ w.last[s] = Rows
                    => Settled(s) \/ Busy(s))'
       PROVE  Moved(s)'
  BY ONLY <1>16, <1>17, <1>18, <1>19 DEF Moved
<1> QED
  BY ONLY <1>2, <1>9, <1>10, <1>11, <1>12, <1>15, <1>19

(* Completing the builder closes its last bin and emits the window of it.  *)
LEMMA CompleteAttached ==
  ASSUME IInv, NEW s \in Session, Attached(s), job.todo = <<>>,
         w.last[s] = Rows, BuilderAt(w.builders[s], Rows),
         w'.last[s] = Rows, w'.builders[s] = complete(w.builders[s]).b,
         w'.term[s].kind = "COMPLETED", w'.pos["telemetry"] = w.pos["telemetry"],
         job'.s = s, job'.todo = complete(w.builders[s]).out,
         scores' = scores, emitted' = emitted, Tel' = Tel
  PROVE  /\ Attached(s)' /\ w'.builders[s].complete
         /\ \/ job'.todo = <<>>
            \/ \E e \in Nat : /\ Due(e) /\ job'.todo = <<Window(e)>>
                              /\ emitted[s] < e /\ e <= Closed(s)'
<1> DEFINE d == _compute_bin_end(Rows)
<1>1. MemType /\ ScoreInv
  BY DEF IInv
<1>2. emitted[s] \in Nat /\ Rows \in 1..Rows /\ Rows \in Nat /\ Stride \in Nat \ {0}
  BY <1>1, WorkerAssumption, BuilderAssumption DEF ScoreInv
<1>3. d \in Nat /\ d % Stride = 0 /\ Rows <= d /\ d - Stride < Rows
  BY <1>2, BinEnd, BinEndRange
<1>4. /\ w'.builders[s].complete = TRUE /\ w'.builders[s].last = <<Row(Rows)>>
      /\ job'.todo = IF Due(d) THEN <<Window(d)>> ELSE <<>>
  BY CompleteLast
<1> HIDE DEF d
<1>5. Closed(s)' = d /\ Closed(s) = d - Stride
  BY <1>4 DEF Closed, BuilderAt, d
<1>6. /\ emitted[s] = 0 \/ emitted[s] <= d - Stride
      /\ \A e \in Nat : Due(e) /\ e <= emitted[s] => Score(s, e) \in scores
      /\ \A e \in Nat : Due(e) /\ e <= d - Stride => e <= emitted[s]
  <2>1. \A e \in Nat : ~Pending(s, e)
    BY DEF Pending
  <2> QED
    BY <1>5, <2>1 DEF Attached
<1>7. BuilderInv(s)'
  BY <1>4 DEF BuilderInv
<1>8. ASSUME NEW e \in Nat, Due(e), e <= d PROVE e <= emitted[s] \/ Pending(s, e)'
  <2>1. CASE e = d
    BY <1>4, <1>8, <2>1 DEF Pending
  <2>2. CASE e <= d - Stride
    BY <1>6, <1>8, <2>2
  <2> QED
    BY <1>3, <1>8, <2>1, <2>2, DueBefore
<1>9. emitted[s] < d /\ emitted[s] <= d
  BY <1>2, <1>3, <1>6
<1>10. \A i \in 1..w'.pos["telemetry"] :
         NoBad(i)' /\ Tel'[i].kind = "ok" /\ Tel'[i].s = s => Tel'[i].k <= w'.last[s]
  BY DEF Attached, NoBad
<1>11. Attached(s)'
  BY <1>5, <1>6, <1>7, <1>8, <1>9, <1>10 DEF Attached
<1>12. job'.todo = <<>> \/ (Due(d) /\ job'.todo = <<Window(d)>>)
  BY <1>4
<1> QED
  BY <1>3, <1>4, <1>5, <1>9, <1>11, <1>12

(* The job of a session that completes: its last window, if one is due,    *)
(* then the commit.                                                        *)
LEMMA CompletingJob ==
  ASSUME NEW s \in Session, s \notin w.failed, w'.failed = w.failed, emitted' = emitted,
         job' = Job(s, job'.todo, "commit"), w'.term[s].kind = "COMPLETED", w'.last[s] = Rows,
         Attached(s)', w'.builders[s].complete,
         \/ job'.todo = <<>>
         \/ \E e \in Nat : /\ Due(e) /\ job'.todo = <<Window(e)>>
                           /\ emitted[s] < e /\ e <= Closed(s)'
  PROVE  JobType' /\ JobInv'
<1>1. /\ job'.s = s /\ job'.then = "commit" /\ job'.attempt = 0
      /\ job' = [s |-> job'.s, todo |-> job'.todo, attempt |-> job'.attempt, then |-> job'.then]
  <2>1. PICK todo : job' = [s |-> s, todo |-> todo, attempt |-> 0, then |-> "commit"]
    BY DEF Job
  <2> QED
    BY ONLY <2>1
<1>2. job'.todo = <<>> \/ \E e \in Nat : Due(e) /\ job'.todo = <<Window(e)>>
  OBVIOUS
<1>3. JobType'
  BY ONLY <1>1, <1>2 DEF JobType
<1>4. ASSUME NEW e \in Nat, job'.todo = <<Window(e)>>
      PROVE  emitted'[s] < e /\ e <= Closed(s)'
  <2>1. job'.todo # <<>>
    BY <1>4
  <2>2. PICK d \in Nat : /\ job'.todo = <<Window(d)>> /\ emitted[s] < d /\ d <= Closed(s)'
    BY <2>1
  <2>3. d = e
    BY <1>4, <2>2, WindowEnd
  <2> QED
    BY <2>2, <2>3
<1>5. s \in Session \ w'.failed /\ Attached(s)' /\ w'.builders[s].complete
      /\ w'.term[s].kind = "COMPLETED" /\ w'.last[s] = Rows
  OBVIOUS
<1>6. JobInv'
  BY ONLY <1>1, <1>4, <1>5 DEF JobInv
<1> QED
  BY <1>3, <1>6

(* A terminal status stays pending for its telemetry, stops the process,   *)
(* completes the builder, or finds none to complete.                       *)
LEMMA StatusStep ==
  ASSUME IInv, Handled, w.pos["status"] < Len(Sta), log' = log,
         NEW r, r = Sta[w.pos["status"] + 1], r.kind \in Terminal,
         LET seen == Advance(Track(w, r.s, "status"), "status")
             term == [seen EXCEPT !.term[r.s] = r]
         IN  IF _reached(seen, r.s, r.last) THEN _complete_session(term, r.s)
             ELSE w' = term /\ UNCHANGED <<job, exit>>
  PROVE  IInv'
<1>1. LogType /\ MemType /\ OffsInv /\ CommitInv
  BY DEF IInv
<1>2. PICK s : s = r.s
  OBVIOUS
<1> DEFINE n == StatusMem(s, r)
<1> DEFINE b == w.builders[s]
<1>3. /\ s \in Session
      /\ r.kind = "COMPLETED" => r.last = Rows /\ r.ts = Rows
      /\ r.kind = "STOPPED" => r.last = 0 /\ r.ts = 0
      /\ s \notin w.failed =>
           /\ Attached(s) /\ w.term[s].kind = "none"
           /\ \/ w.last[s] = 0 /\ b = new_builder
              \/ w.last[s] > 0 /\ BuilderAt(b, w.last[s])
  BY <1>2, FirstTerminal
<1>4. /\ DOMAIN n = MemFields
      /\ n.pos = [w.pos EXCEPT !["status"] = @ + 1]
      /\ n.builders = w.builders /\ n.last = w.last
      /\ n.term = [w.term EXCEPT ![s] = r]
      /\ n.offs = [w.offs EXCEPT ![s]["status"] = w.pos["status"] + 1]
      /\ n.failed = w.failed /\ n.blocked = w.blocked /\ n.own = w.own
  BY <1>1, <1>3, StatusFields
<1>5. DOMAIN w.builders = Session /\ DOMAIN w.term = Session
  <2>1. /\ w.builders = [u \in Session |-> w.builders[u]]
        /\ w.term = [u \in Session |-> w.term[u]]
    BY <1>1 DEF MemType
  <2> QED
    BY <2>1
<1>6. /\ log' = log /\ replay' = replay /\ features' = features /\ scores' = scores
      /\ emitted' = emitted /\ offsets' = offsets /\ exit = "none" /\ job = Idle
      /\ Tel' = Tel /\ Sta' = Sta
  BY DEF Handled, Tel, Sta
<1>7. w.last[s] \in 0..Rows /\ Rows \in Nat \ {0}
  BY <1>1, <1>3, WorkerAssumption DEF MemType
<1>8. ASSUME IF _reached(n, s, r.last) THEN _complete_session(n, s) ELSE w' = n /\ UNCHANGED <<job, exit>>
      PROVE  \/ w' = n /\ s \in w.failed /\ job' = Idle
             \/ /\ w' = n /\ s \notin w.failed /\ job' = Idle /\ exit' = "none"
                /\ r.kind = "COMPLETED" /\ w.last[s] # Rows
             \/ /\ w' = n /\ s \notin w.failed /\ exit' = "completion" /\ job' = Job(s, <<>>, "idle")
                /\ r.kind = "STOPPED"
             \/ /\ s \notin w.failed /\ r.kind = "COMPLETED" /\ w.last[s] = Rows
                /\ w' = [n EXCEPT !.builders[s] = complete(b).b]
                /\ job' = Job(s, complete(b).out, "commit") /\ exit' = "none"
             \/ /\ w' = n /\ s \notin w.failed /\ r.kind = "STOPPED" /\ w.last[s] = 0
                /\ job' = Job(s, <<>>, "commit") /\ exit' = "none"
  <2>1. n.builders[s] = b /\ n.last[s] = w.last[s] /\ n.term[s] = r /\ n.failed = w.failed
    BY <1>3, <1>4, <1>5
  <2>2. r.kind = "COMPLETED" \/ r.kind = "STOPPED"
    BY DEF Terminal
  <2> HIDE DEF n
  <2>3. CASE ~_reached(n, s, r.last)
    <3>1. w' = n /\ job' = Idle /\ exit' = "none"
      BY <1>6, <1>8, <2>3
    <3>2. ~(w.last[s] >= r.last)
      BY <2>1, <2>3 DEF _reached
    <3>3. r.kind = "COMPLETED" /\ w.last[s] # Rows
      BY ONLY <1>3, <1>7, <2>2, <3>2
    <3> QED
      BY <3>1, <3>3
  <2>4. CASE _reached(n, s, r.last)
    <3>1. w.last[s] >= r.last
      BY <2>1, <2>4 DEF _reached
    <3>2. r.kind = "COMPLETED" => w.last[s] = Rows
      BY ONLY <1>3, <1>7, <3>1
    <3>3. s \notin w.failed /\ w.last[s] = 0 => b.last = <<>>
      BY ONLY <1>3 DEF new_builder
    <3>4. s \notin w.failed /\ w.last[s] # 0 =>
            /\ b.last # <<>> /\ b.last[1].ts = w.last[s] /\ ~b.complete
      BY ONLY <1>3 DEF BuilderAt, Row
    <3>5. _complete_session(n, s)
      BY <1>8, <2>4
    <3>6. CASE s \in w.failed
      BY <2>1, <3>5, <3>6 DEF _complete_session
    <3>7. CASE s \notin w.failed /\ w.last[s] = 0
      <4>1. w' = n /\ job' = Job(s, <<>>, "commit") /\ exit' = exit
        BY <2>1, <3>3, <3>5, <3>7 DEF _complete_session
      <4>2. r.kind = "STOPPED"
        BY <1>7, <2>2, <3>2, <3>7
      <4> QED
        BY <1>6, <3>7, <4>1, <4>2
    <3>8. CASE s \notin w.failed /\ w.last[s] # 0 /\ r.kind = "STOPPED"
      <4>1. complete_raises(b, r.ts)
        BY <1>3, <1>7, <3>4, <3>8 DEF complete_raises
      <4> QED
        BY <2>1, <3>4, <3>5, <3>8, <4>1 DEF _complete_session
    <3>9. CASE s \notin w.failed /\ w.last[s] # 0 /\ r.kind = "COMPLETED"
      <4>1. ~complete_raises(b, r.ts)
        BY ONLY <1>3, <1>7, <3>2, <3>4, <3>9 DEF complete_raises
      <4> QED
        BY <1>6, <2>1, <3>2, <3>4, <3>5, <3>9, <4>1 DEF _complete_session
    <3> QED
      BY <2>2, <3>6, <3>7, <3>8, <3>9
  <2> QED
    BY <2>3, <2>4
<1>9. IF _reached(n, s, r.last) THEN _complete_session(n, s) ELSE w' = n /\ UNCHANGED <<job, exit>>
  <2>1. _reached(n, s, r.last) <=> _reached(Advance(Track(w, s, "status"), "status"), s, r.last)
    <3>1. n.last = Advance(Track(w, s, "status"), "status").last
      <4>1. DOMAIN w = MemFields
        BY <1>1 DEF MemType
      <4>2. Advance(Track(w, s, "status"), "status").last = w.last
        BY <4>1 DEF Advance, Track, MemFields
      <4> QED
        BY <1>4, <4>2
    <3> QED
      BY <3>1 DEF _reached
  <2> QED
    BY <1>2, <2>1 DEF StatusMem
<1> HIDE DEF n
<1>10. ASSUME Moves(s), Moved(s)', JobType', JobInv'
       PROVE  IInv'
  <2>1. /\ LogType' /\ TelInv' /\ StaInv' /\ MemType' /\ FailInv' /\ TermInv' /\ OffsInv'
        /\ SessionInv' /\ JobType' /\ JobInv' /\ DoneInv' /\ ScoreInv'
        /\ \A u : Settled(u)' <=> Settled(u)
    BY <1>3, <1>10, MoveKeeps
  <2>2. CommitInv'
    BY <1>1, <1>6, <1>10, <2>1, CommitKept DEF Moves
  <2> QED
    BY <2>1, <2>2 DEF IInv
<1>18. /\ IInv /\ Handled /\ w.pos["status"] < Len(Sta) /\ log' = log
       /\ r = Sta[w.pos["status"] + 1] /\ r.kind \in Terminal /\ s = r.s
  BY <1>2
<1>11. ASSUME w' = n
       PROVE  /\ Moves(s) /\ w'.term[s] = r /\ w'.failed = w.failed /\ w'.last = w.last
              /\ w'.offs[s]["status"] = w'.pos["status"]
              /\ w'.offs[s]["telemetry"] = w.offs[s]["telemetry"]
              /\ s \notin w.failed => Attached(s)'
              /\ (s \notin w.failed /\ r.kind = "COMPLETED" /\ w.last[s] = Rows
                    => Settled(s)' \/ Busy(s)')
                 => Moved(s)'
  <2>0. /\ DOMAIN w' = MemFields
        /\ w'.pos = [w.pos EXCEPT !["status"] = @ + 1]
        /\ w'.builders = w.builders /\ w'.last = w.last
        /\ w'.term = [w.term EXCEPT ![s] = r]
        /\ w'.offs = [w.offs EXCEPT ![s]["status"] = w.pos["status"] + 1]
        /\ w'.failed = w.failed /\ w'.blocked = w.blocked /\ w'.own = w.own
    BY ONLY <1>4, <1>11
  <2>1. w'.builders = [w.builders EXCEPT ![s] = b]
    <3>1. w.builders = [u \in Session |-> w.builders[u]]
      BY <1>1 DEF MemType
    <3> QED
      BY ONLY <1>3, <2>0, <3>1
  <2>2. /\ Moves(s)
        /\ w'.pos["telemetry"] = w.pos["telemetry"] /\ w'.pos["status"] = w.pos["status"] + 1
        /\ w'.builders[s] = b /\ w'.term[s] = r
        /\ w'.offs[s]["status"] = w'.pos["status"]
        /\ w'.offs[s]["telemetry"] = w.offs[s]["telemetry"]
        /\ (/\ s \notin w.failed => Attached(s) \/ Detached(s)
            /\ s \notin w.failed /\ w.term[s].kind = "COMPLETED" /\ w.last[s] = Rows
                 => Settled(s) \/ Busy(s))'
           => Moved(s)'
    <3>1. PICK c : c = b
      OBVIOUS
    <3>2. w'.builders = [w.builders EXCEPT ![s] = c]
      BY ONLY <2>1, <3>1
    <3> QED
      <4>1. TerminalRead(r, s, c)
        BY ONLY <1>18, <2>0, <3>2 DEF TerminalRead
      <4> QED
        BY ONLY IInv, Handled, log' = log, <3>1, <4>1, StatusMoves
  <2>3. s \notin w.failed => Attached(s)'
    <3> SUFFICES ASSUME s \notin w.failed PROVE Attached(s)'
      OBVIOUS
    <3>1. Attached(s) /\ ~b.complete
      BY ONLY <1>3, s \notin w.failed DEF BuilderAt, new_builder
    <3>2. Grown /\ w.pos["telemetry"] \in Nat /\ w.pos["telemetry"] <= Len(Tel)
      BY <1>1, <1>6, SameLog, Positions
    <3>3. \A e \in Nat : ~Pending(s, e)
      BY <1>6 DEF Idle, Pending
    <3>4. \A i \in 1..w'.pos["telemetry"] : ~(i > w.pos["telemetry"])
      BY ONLY <2>2, <3>2
    <3> QED
      BY ONLY <1>6, <2>0, <2>2, <3>1, <3>2, <3>3, <3>4, AttachedKept
  <2>4. (s \notin w.failed /\ r.kind = "COMPLETED" /\ w.last[s] = Rows
           => Settled(s)' \/ Busy(s)') => Moved(s)'
    BY ONLY <2>0, <2>2, <2>3
  <2> QED
    BY ONLY <2>0, <2>2, <2>3, <2>4
<1>12. \A e : <<Window(e)>> # <<>>
  OBVIOUS
<1>13. CASE w' = n /\ s \in w.failed /\ job' = Idle
  <2>1. Moves(s) /\ Moved(s)'
    BY <1>11, <1>13
  <2>2. JobType' /\ JobInv'
    BY ONLY <1>12, <1>13 DEF JobType, JobInv, Idle
  <2> QED
    BY <1>10, <2>1, <2>2
<1>14. CASE /\ w' = n /\ s \notin w.failed /\ job' = Idle /\ exit' = "none"
            /\ r.kind = "COMPLETED" /\ w.last[s] # Rows
  <2>1. Moves(s) /\ Moved(s)'
    BY <1>11, <1>14
  <2>2. JobType' /\ JobInv'
    BY ONLY <1>12, <1>14 DEF JobType, JobInv, Idle
  <2> QED
    BY <1>10, <2>1, <2>2
<1>15. CASE /\ w' = n /\ s \notin w.failed /\ exit' = "completion" /\ job' = Job(s, <<>>, "idle")
            /\ r.kind = "STOPPED"
  <2>1. Moves(s) /\ Moved(s)'
    BY <1>11, <1>15
  <2>2. JobType' /\ JobInv'
    BY ONLY <1>12, <1>15 DEF JobType, JobInv, Job
  <2> QED
    BY <1>10, <2>1, <2>2
<1>16. CASE /\ w' = n /\ s \notin w.failed /\ r.kind = "STOPPED" /\ w.last[s] = 0
            /\ job' = Job(s, <<>>, "commit") /\ exit' = "none"
  <2>1. Moves(s) /\ Moved(s)'
    BY <1>11, <1>16
  <2>2. w'.term[s].kind = "STOPPED" /\ w'.offs[s]["status"] = w'.pos["status"]
        /\ w'.offs[s]["telemetry"] = 0
    <3>1. w.offs[s]["telemetry"] = 0
      BY <1>1, <1>3, <1>16 DEF OffsInv
    <3> QED
      BY <1>11, <1>16, <3>1
  <2>3. job'.s = s /\ job'.then = "commit" /\ job'.todo = <<>> /\ JobType'
    BY ONLY <1>12, <1>16 DEF Job, JobType
  <2>4. s \in Session \ w'.failed
    BY <1>3, <1>11, <1>16
  <2>5. JobInv'
    BY ONLY <1>12, <2>2, <2>3, <2>4 DEF JobInv
  <2> QED
    BY <1>10, <2>1, <2>3, <2>5
<1>17. CASE /\ s \notin w.failed /\ r.kind = "COMPLETED" /\ w.last[s] = Rows
            /\ w' = [n EXCEPT !.builders[s] = complete(b).b]
            /\ job' = Job(s, complete(b).out, "commit") /\ exit' = "none"
  <2>1. /\ DOMAIN w' = MemFields
        /\ w'.pos = [w.pos EXCEPT !["status"] = @ + 1]
        /\ w'.builders = [w.builders EXCEPT ![s] = complete(b).b] /\ w'.last = w.last
        /\ w'.term = [w.term EXCEPT ![s] = r]
        /\ w'.offs = [w.offs EXCEPT ![s]["status"] = w.pos["status"] + 1]
        /\ w'.failed = w.failed /\ w'.blocked = w.blocked /\ w'.own = w.own
    <3>1. PICK c : c = complete(b).b
      OBVIOUS
    <3>2. w' = [n EXCEPT !.builders[s] = c]
      BY ONLY <1>17, <3>1
    <3>3. /\ DOMAIN w' = MemFields
          /\ w'.builders = [n.builders EXCEPT ![s] = c]
          /\ w'.pos = n.pos /\ w'.last = n.last /\ w'.term = n.term /\ w'.offs = n.offs
          /\ w'.failed = n.failed /\ w'.blocked = n.blocked /\ w'.own = n.own
      BY ONLY <1>4, <3>2 DEF MemFields
    <3> QED
      BY ONLY <1>4, <3>1, <3>3
  <2>2. /\ Moves(s)
        /\ w'.pos["telemetry"] = w.pos["telemetry"]
        /\ w'.builders[s] = complete(b).b /\ w'.term[s] = r
        /\ (/\ s \notin w.failed => Attached(s) \/ Detached(s)
            /\ s \notin w.failed /\ w.term[s].kind = "COMPLETED" /\ w.last[s] = Rows
                 => Settled(s) \/ Busy(s))'
           => Moved(s)'
    <3>1. PICK c : c = complete(b).b
      OBVIOUS
    <3>2. w'.builders = [w.builders EXCEPT ![s] = c]
      BY ONLY <2>1, <3>1
    <3> QED
      <4>1. TerminalRead(r, s, c)
        BY ONLY <1>18, <2>1, <3>2 DEF TerminalRead
      <4> QED
        BY ONLY IInv, Handled, log' = log, <3>1, <4>1, StatusMoves
  <2>3. job'.s = s /\ job'.todo = complete(b).out /\ job'.then = "commit" /\ job'.attempt = 0
    BY ONLY <1>17 DEF Job
  <2>4. Attached(s) /\ BuilderAt(b, Rows)
    <3>1. Rows # 0
      BY WorkerAssumption
    <3> QED
      BY ONLY <1>3, <1>17, <3>1
  <2>5. job.todo = <<>> /\ w'.term[s].kind = "COMPLETED" /\ w'.last[s] = Rows
    BY <1>6, <1>17, <2>1, <2>2 DEF Idle
  <2>6. /\ Attached(s)' /\ w'.builders[s].complete
        /\ \/ job'.todo = <<>>
           \/ \E e \in Nat : /\ Due(e) /\ job'.todo = <<Window(e)>>
                             /\ emitted[s] < e /\ e <= Closed(s)'
    BY <1>3, <1>6, <1>17, <2>2, <2>3, <2>4, <2>5, CompleteAttached
  <2>7. JobType' /\ JobInv'
    <3>1. job' = Job(s, job'.todo, "commit")
      BY ONLY <1>17, <2>3
    <3> QED
      BY <1>3, <1>6, <1>17, <2>1, <2>5, <2>6, <3>1, CompletingJob
  <2>8. Moved(s)'
    <3>1. Busy(s)'
      BY <2>3 DEF Busy
    <3> QED
      BY ONLY <2>2, <2>6, <3>1
  <2> QED
    BY <1>10, <2>2, <2>7, <2>8
<1> QED
  BY ONLY <1>8, <1>9, <1>13, <1>14, <1>15, <1>16, <1>17

(* A step of the barrier changes at most the builder of the session.       *)
LEMMA BarrierMoves ==
  ASSUME IInv, job.todo = <<>>, NEW s \in Session \ w.failed, job.s = s, NEW b,
         log' = log, replay' = replay, features' = features, scores' = scores, emitted' = emitted,
         DOMAIN w' = MemFields, w'.builders = [w.builders EXCEPT ![s] = b],
         w'.pos = w.pos, w'.last = w.last, w'.term = w.term, w'.offs = w.offs,
         w'.failed = w.failed, w'.blocked = w.blocked, w'.own = w.own
  PROVE  /\ Moves(s) /\ w'.builders[s] = b
         /\ (/\ Attached(s) \/ Detached(s)
             /\ w.term[s].kind = "COMPLETED" /\ w.last[s] = Rows => Settled(s) \/ Busy(s))'
            => Moved(s)'
<1>1. LogType /\ MemType /\ TermInv /\ OffsInv /\ DoneInv
  BY DEF IInv
<1>2. Tel' = Tel /\ Sta' = Sta /\ Len(Tel)' = Len(Tel) /\ Len(Sta)' = Len(Sta)
  BY DEF Tel, Sta
<1>3. w.pos["telemetry"] \in Nat /\ w.pos["status"] \in Nat
  BY <1>1, Positions
<1>4. /\ w'.builders = [u \in Session |-> w'.builders[u]] /\ w'.builders[s] = b
      /\ \A u \in Session \ {s} : w'.builders[u] = w.builders[u]
  <2>1. w.builders = [u \in Session |-> w.builders[u]] /\ s \in Session
    BY <1>1 DEF MemType
  <2> QED
    BY <2>1, BuildersUpdated
<1>5. MemType'
  BY <1>1, <1>2, <1>4 DEF MemType
<1>6. Moves(s)
  <2>1. /\ \A i \in 1..w'.pos["telemetry"] : ~(i > w.pos["telemetry"])
        /\ \A i \in 1..w'.pos["status"] : ~(i > w.pos["status"])
        /\ w.pos["telemetry"] <= w'.pos["telemetry"] /\ w.pos["status"] <= w'.pos["status"]
    BY <1>3
  <2> QED
    BY <1>4, <1>5, <2>1 DEF Moves
<1>7. w'.term[s].kind # "none" =>
        /\ w'.offs[s]["status"] \in 1..w'.pos["status"]
        /\ Sta'[w'.offs[s]["status"]] = w'.term[s]
        /\ w'.term[s].kind \in Terminal /\ w'.term[s].s = s
  BY <1>1, <1>2 DEF TermInv
<1>8. (LET j == w.offs[s]["telemetry"]
       IN  /\ j = 0 <=> w.last[s] = 0
           /\ j > 0 => j <= w.pos["telemetry"] /\ NoBad(j) /\ TelOk(j, s, w.last[s]))'
  BY <1>1, <1>2 DEF OffsInv, NoBad, TelOk
<1>9. \A i \in 1..w'.pos["status"] :
        Sta'[i].kind = "COMPLETED" /\ Sta'[i].s = s /\ w'.term[s].kind # "COMPLETED" => Settled(s)'
  <2>1. Settled(s)' <=> Settled(s)
    BY DEF Settled, StoppedSession, FailedSession
  <2> QED
    BY <1>1, <1>2, <2>1 DEF DoneInv
<1>10. ASSUME (/\ Attached(s) \/ Detached(s)
               /\ w.term[s].kind = "COMPLETED" /\ w.last[s] = Rows => Settled(s) \/ Busy(s))'
       PROVE  Moved(s)'
  BY <1>7, <1>8, <1>9, <1>10 DEF Moved
<1> QED
  BY <1>4, <1>6, <1>10

(* A handler that is over, or about to commit, leaves the session as it    *)
(* was.                                                                    *)
LEMMA AtRest ==
  ASSUME IInv, job.todo = <<>>, NEW s \in Session \ w.failed,
         w' = w, log' = log, replay' = replay, scores' = scores, emitted' = emitted
  PROVE  (Attached(s) => Attached(s)') /\ (Detached(s) => Detached(s)')
<1>1. LogType /\ MemType
  BY DEF IInv
<1>2. Tel' = Tel /\ Sta' = Sta
  BY DEF Tel, Sta
<1>3. \A e \in Nat : ~Pending(s, e)
  BY DEF Pending
<1>4. Attached(s) => Attached(s)'
  BY <1>2, <1>3 DEF Attached, NoBad, BuilderInv, Closed
<1>5. Detached(s) => Detached(s)'
  BY <1>2 DEF Detached, Ends
<1> QED
  BY <1>4, <1>5

(* A COMPLETED status that is remembered names the last row. *)
LEMMA Remembered ==
  ASSUME IInv, NEW s \in Session \ w.failed, w.term[s].kind = "COMPLETED"
  PROVE  /\ w.term[s].last = Rows /\ w.term[s].ts = Rows /\ Attached(s)
         /\ w.offs[s]["status"] \in 1..w.pos["status"] /\ w.offs[s]["status"] \in 1..Len(Sta)
         /\ Sta[w.offs[s]["status"]] = w.term[s] /\ w.term[s].s = s
<1>1. LogType /\ MemType /\ TermInv /\ StaInv /\ SessionInv
  BY DEF IInv
<1>2. /\ w.offs[s]["status"] \in 1..w.pos["status"]
      /\ Sta[w.offs[s]["status"]] = w.term[s] /\ w.term[s].s = s
  BY <1>1 DEF TermInv
<1>3. w.offs[s]["status"] \in 1..Len(Sta)
  <2>1. w.pos["status"] \in Nat /\ w.pos["status"] <= Len(Sta) /\ Len(Sta) \in Nat
    BY <1>1, Positions
  <2> QED
    BY <1>2, <2>1
<1>4. w.term[s].last = Rows /\ w.term[s].ts = Rows
  BY <1>1, <1>2, <1>3 DEF StaInv
<1>5. Attached(s)
  BY <1>1 DEF SessionInv, Detached
<1> QED
  BY <1>2, <1>3, <1>4, <1>5

(* The barrier completes the session, or the handler is over. *)
LEMMA BarrierStep ==
  ASSUME IInv, Barrier
  PROVE  IInv'
<1>1. MemType /\ JobInv /\ CommitInv /\ SessionInv
  BY DEF IInv
<1>2. PICK s : s = job.s
  OBVIOUS
<1>3. /\ exit = "none" /\ job.then = "barrier" /\ job.todo = <<>> /\ offsets' = offsets
      /\ log' = log /\ replay' = replay /\ features' = features /\ scores' = scores
      /\ emitted' = emitted /\ Tel' = Tel /\ Sta' = Sta
  BY DEF Barrier, Upstream, Tel, Sta
<1>4. s \in Session \ w.failed /\ s \in Session /\ s \notin w.failed
  BY <1>1, <1>2, <1>3 DEF JobInv
<1> DEFINE b == w.builders[s]
<1>5. ASSUME Moves(s), Moved(s)', JobType', JobInv'
      PROVE  IInv'
  <2>1. /\ LogType' /\ TelInv' /\ StaInv' /\ MemType' /\ FailInv' /\ TermInv' /\ OffsInv'
        /\ SessionInv' /\ JobType' /\ JobInv' /\ DoneInv' /\ ScoreInv'
        /\ \A u : Settled(u)' <=> Settled(u)
    BY <1>4, <1>5, MoveKeeps
  <2>2. CommitInv'
    BY <1>1, <1>3, <1>5, <2>1, CommitKept DEF Moves
  <2> QED
    BY <2>1, <2>2 DEF IInv
<1>6. \A e : <<Window(e)>> # <<>>
  OBVIOUS
<1>7. ASSUME w' = w
      PROVE  /\ Moves(s) /\ (Attached(s)' \/ Detached(s)') /\ (Attached(s) => Attached(s)')
             /\ (w.term[s].kind = "COMPLETED" /\ w.last[s] = Rows => Settled(s)' \/ Busy(s)')
                => Moved(s)'
  <2>1. PICK c : c = b
    OBVIOUS
  <2>2. DOMAIN w = MemFields /\ w.builders = [w.builders EXCEPT ![s] = c]
    <3>1. w.builders = [u \in Session |-> w.builders[u]] /\ DOMAIN w = MemFields
      BY <1>1 DEF MemType
    <3> QED
      BY <1>4, <2>1, <3>1
  <2>3. /\ DOMAIN w' = MemFields /\ w'.builders = [w.builders EXCEPT ![s] = c]
        /\ w'.pos = w.pos /\ w'.last = w.last /\ w'.term = w.term /\ w'.offs = w.offs
        /\ w'.failed = w.failed /\ w'.blocked = w.blocked /\ w'.own = w.own
    BY <1>7, <2>2
  <2>4. /\ Moves(s)
        /\ (/\ Attached(s) \/ Detached(s)
            /\ w.term[s].kind = "COMPLETED" /\ w.last[s] = Rows => Settled(s) \/ Busy(s))'
           => Moved(s)'
    BY <1>2, <1>3, <1>4, <2>3, BarrierMoves
  <2>5. (Attached(s) => Attached(s)') /\ (Attached(s)' \/ Detached(s)')
    BY <1>1, <1>3, <1>4, <1>7, AtRest DEF SessionInv
  <2> QED
    BY <1>7, <2>4, <2>5
<1>8. CASE w.term[s].kind = "COMPLETED" /\ w.term[s].last = w.last[s]
  <2>1. w.last[s] = Rows /\ w.term[s].ts = Rows /\ Attached(s) /\ Rows \in Nat \ {0}
    BY <1>4, <1>8, Remembered, WorkerAssumption
  <2>2. _complete_session(w, s)
    BY <1>2, <1>8 DEF Barrier
  <2>3. \/ BuilderAt(b, Rows)
        \/ b.complete /\ b.last = <<Row(Rows)>>
    BY <2>1 DEF Attached, BuilderInv
  <2>4. CASE BuilderAt(b, Rows)
    <3>1. b.last # <<>> /\ ~b.complete /\ ~complete_raises(b, w.term[s].ts)
      BY <2>1, <2>4 DEF BuilderAt, complete_raises, Row
    <3>2. PICK c : c = complete(b).b
      OBVIOUS
    <3>3. /\ w' = [w EXCEPT !.builders[s] = c]
          /\ job' = Job(s, complete(b).out, "commit") /\ exit' = exit
      BY <1>4, <2>2, <3>1, <3>2 DEF _complete_session
    <3>4. DOMAIN w = MemFields
      BY <1>1 DEF MemType
    <3>5. /\ DOMAIN w' = MemFields /\ w'.builders = [w.builders EXCEPT ![s] = c]
          /\ w'.pos = w.pos /\ w'.last = w.last /\ w'.term = w.term /\ w'.offs = w.offs
          /\ w'.failed = w.failed /\ w'.blocked = w.blocked /\ w'.own = w.own
      BY ONLY <3>3, <3>4 DEF MemFields
    <3>6. /\ Moves(s) /\ w'.builders[s] = c
          /\ (/\ Attached(s) \/ Detached(s)
              /\ w.term[s].kind = "COMPLETED" /\ w.last[s] = Rows => Settled(s) \/ Busy(s))'
             => Moved(s)'
      BY ONLY IInv, <1>2, <1>3, <1>4, <3>5, BarrierMoves
    <3>7. job'.s = s /\ job'.todo = complete(b).out /\ job'.then = "commit"
      BY ONLY <3>3 DEF Job
    <3>8. /\ Attached(s)' /\ w'.builders[s].complete
          /\ \/ job'.todo = <<>>
             \/ \E e \in Nat : /\ Due(e) /\ job'.todo = <<Window(e)>>
                               /\ emitted[s] < e /\ e <= Closed(s)'
      <4>1. w'.pos["telemetry"] = w.pos["telemetry"] /\ w'.last[s] = Rows
            /\ w'.term[s].kind = "COMPLETED"
        BY ONLY <1>8, <2>1, <3>5
      <4> QED
        BY ONLY IInv, <1>3, <1>4, <2>1, <2>4, <3>2, <3>6, <3>7, <4>1, CompleteAttached
    <3>9. JobType' /\ JobInv'
      <4>1. job' = Job(s, job'.todo, "commit")
        BY ONLY <3>3, <3>7
      <4>2. w'.term[s].kind = "COMPLETED" /\ w'.last[s] = Rows
        BY ONLY <1>8, <2>1, <3>5
      <4> QED
        BY ONLY <1>3, <1>4, <3>5, <3>8, <4>1, <4>2, CompletingJob
    <3>10. Moved(s)'
      <4>1. Busy(s)'
        BY ONLY <3>7 DEF Busy
      <4> QED
        BY ONLY <3>6, <3>8, <4>1
    <3> QED
      BY <1>5, <3>6, <3>9, <3>10
  <2>5. CASE b.complete /\ b.last = <<Row(Rows)>>
    <3>1. w' = w /\ job' = Job(s, <<>>, "commit")
      BY <1>4, <2>2, <2>5 DEF _complete_session
    <3>2. Moves(s) /\ Attached(s)'
      BY <1>7, <2>1, <3>1
    <3>3. job'.s = s /\ job'.todo = <<>> /\ job'.then = "commit"
      BY ONLY <3>1 DEF Job
    <3>4. Busy(s)'
      BY ONLY <3>3 DEF Busy
    <3>5. Moved(s)'
      BY <1>7, <3>1, <3>4
    <3>6. JobType' /\ JobInv'
      <4>1. job' = Job(s, job'.todo, "commit")
        BY ONLY <3>1, <3>3
      <4>2. /\ w'.term[s].kind = "COMPLETED" /\ w'.last[s] = Rows /\ w'.failed = w.failed
            /\ w'.builders[s].complete
        BY ONLY <1>8, <2>1, <2>5, <3>1
      <4> QED
        BY ONLY <1>3, <1>4, <3>2, <3>3, <4>1, <4>2, CompletingJob
    <3> QED
      BY <1>5, <3>2, <3>5, <3>6
  <2> QED
    BY <2>3, <2>4, <2>5
<1>9. CASE ~(w.term[s].kind = "COMPLETED" /\ w.term[s].last = w.last[s])
  <2>1. job' = Idle /\ w' = w /\ exit' = exit
    BY <1>2, <1>9 DEF Barrier
  <2>2. ~(w.term[s].kind = "COMPLETED" /\ w.last[s] = Rows)
    BY <1>4, <1>9, Remembered
  <2>3. Moves(s) /\ Moved(s)'
    BY <1>7, <2>1, <2>2
  <2>4. JobType' /\ JobInv'
    BY ONLY <1>6, <2>1 DEF JobType, JobInv, Idle
  <2> QED
    BY <1>5, <2>3, <2>4
<1> QED
  BY <1>8, <1>9

-----------------------------------------------------------------------------
(* The commit.                                                             *)

(* The windows of a session whose completed builder has nothing under way  *)
(* are all scored.                                                         *)
LEMMA CompletedIsSettled ==
  ASSUME IInv, NEW s \in Session \ w.failed, job.todo = <<>>,
         w.term[s].kind = "COMPLETED", w.builders[s].complete
  PROVE  Settled(s)
<1>1. Attached(s)
  BY Remembered
<1>2. Closed(s) = _compute_bin_end(Rows)
  BY DEF Closed
<1>3. ASSUME NEW e \in Nat, Due(e) PROVE Score(s, e) \in scores
  <2>1. e <= Closed(s)
    BY <1>2, <1>3 DEF Due
  <2>2. ~Pending(s, e)
    BY DEF Pending
  <2> QED
    BY <1>1, <1>3, <2>1, <2>2 DEF Attached
<1>4. AllWindows(s) \subseteq scores
  <2>1. AllWindows(s) = {Score(s, e) : e \in {n \in Nat : Due(n)}}
    BY WindowsAreDue
  <2> QED
    BY <1>3, <2>1
<1> QED
  BY <1>4 DEF Settled

(* When a session that completed is committed, every session before it     *)
(* that completed is done with.                                            *)
LEMMA EarlierIsSettled ==
  ASSUME IInv, NEW s \in Session \ w.failed, job.todo = <<>>, job.s = s,
         w.term[s].kind = "COMPLETED", w.builders[s].complete, w.last[s] = Rows,
         NEW i \in 1..w.offs[s]["status"], Sta[i].kind = "COMPLETED"
  PROVE  Settled(Sta[i].s)
<1>1. /\ LogType /\ MemType /\ TelInv /\ StaInv /\ OffsInv /\ FailInv /\ TermInv
      /\ SessionInv /\ DoneInv
  BY DEF IInv
<1>2. PICK u : u = Sta[i].s
  OBVIOUS
<1>3. PICK m : m = w.offs[s]["status"]
  OBVIOUS
<1>4. /\ m \in 1..w.pos["status"] /\ m \in 1..Len(Sta) /\ Sta[m].s = s
      /\ Sta[m].kind = "COMPLETED"
  BY <1>3, Remembered
<1>5. /\ w.pos["status"] \in Nat /\ w.pos["telemetry"] \in Nat /\ Len(Sta) \in Nat
      /\ Len(Tel) \in Nat /\ w.pos["telemetry"] <= Len(Tel)
  BY <1>1, Positions
<1>6. i \in 1..w.pos["status"] /\ i \in 1..Len(Sta) /\ i <= m
  BY <1>3, <1>4, <1>5
<1>7. u \in Session /\ s \in Session /\ u \in Nat /\ s \in Nat
  <2>1. Sta[i] \in StaRecord
    BY <1>1, <1>6, LogDomain
  <2> QED
    BY <1>2, <2>1 DEF StaRecord, Session
<1>8. CASE u = s
  BY <1>2, <1>8, CompletedIsSettled
<1>9. CASE u # s /\ w.term[u].kind # "COMPLETED"
  BY <1>1, <1>2, <1>6, <1>9 DEF DoneInv
<1>10. CASE u \in w.failed
  BY <1>1, <1>2, <1>10 DEF FailInv, Settled
<1>11. CASE u # s /\ w.term[u].kind = "COMPLETED" /\ u \notin w.failed
  <2>1. u < s
    <3>1. i < m
      BY <1>2, <1>4, <1>6, <1>11
    <3> QED
      BY <1>1, <1>2, <1>4, <1>6, <3>1 DEF StaInv, Terminal
  <2>2. PICK q \in 1..Len(Tel) : TelOk(q, u, Rows)
    BY <1>1, <1>2, <1>6 DEF StaInv
  <2>3. PICK j : j = w.offs[s]["telemetry"]
    OBVIOUS
  <2>4. j \in 1..Len(Tel) /\ j <= w.pos["telemetry"] /\ NoBad(j) /\ TelOk(j, s, Rows)
    <3>1. j \in Nat /\ Rows # 0
      BY <1>1, <1>7, <2>3, WorkerAssumption DEF MemType, Topics
    <3>2. j # 0 /\ (j > 0 => j <= w.pos["telemetry"] /\ NoBad(j) /\ TelOk(j, s, Rows))
      BY <1>1, <1>7, <2>3, <3>1 DEF OffsInv
    <3> QED
      BY <1>5, <3>1, <3>2
  <2>5. q <= j
    <3>1. j <= q => Tel[j].s <= Tel[q].s
      BY <1>1, <2>2, <2>4 DEF TelInv
    <3> QED
      BY <1>5, <1>7, <2>1, <2>2, <2>4, <3>1 DEF TelOk
  <2>6. q \in 1..w.pos["telemetry"] /\ NoBad(q)
    <3>1. q \in 1..w.pos["telemetry"]
      BY <1>5, <2>2, <2>4, <2>5
    <3>2. NoBad(q)
      BY <2>2, <2>4, <2>5 DEF NoBad
    <3> QED
      BY <3>1, <3>2
  <2>7. Rows <= w.last[u]
    <3>1. Attached(u)
      BY <1>7, <1>11, Remembered
    <3> QED
      BY <2>2, <2>6, <3>1 DEF Attached, TelOk
  <2>8. w.last[u] = Rows
    <3>1. w.last[u] \in 0..Rows /\ Rows \in Nat
      BY <1>1, <1>7, WorkerAssumption DEF MemType
    <3> QED
      BY <2>7, <3>1
  <2>9. ~Busy(u)
    BY <1>11 DEF Busy
  <2> QED
    BY <1>1, <1>2, <1>7, <1>11, <2>8, <2>9 DEF DoneInv
<1> QED
  BY <1>8, <1>9, <1>10, <1>11

(* When a session that was stopped before its first row was read is        *)
(* committed, it is the exception of the sessions before it.               *)
LEMMA StoppedIsSettled ==
  ASSUME IInv, NEW s \in Session \ w.failed, w.term[s].kind = "STOPPED",
         w.offs[s]["status"] = w.pos["status"],
         NEW i \in 1..w.pos["status"], Sta[i].kind = "COMPLETED"
  PROVE  Settled(Sta[i].s)
<1>1. LogType /\ MemType /\ StaInv /\ TermInv
  BY DEF IInv
<1>2. PICK m : m = w.pos["status"]
  OBVIOUS
<1>3. m \in Nat /\ Len(Sta) \in Nat /\ m <= Len(Sta)
  BY <1>1, <1>2, Positions
<1>4. i \in 1..m /\ m \in 1..Len(Sta) /\ i \in 1..Len(Sta)
  BY <1>2, <1>3
<1>5. Sta[m].s = s /\ Sta[m].kind = "STOPPED"
  BY <1>1, <1>2 DEF TermInv
<1>6. PICK u : u = Sta[i].s
  OBVIOUS
<1>7. u < s
  <2>1. i < m
    BY <1>3, <1>4, <1>5
  <2> QED
    BY <1>1, <1>4, <1>5, <1>6, <2>1 DEF StaInv, Terminal
<1>8. u \in 1..Sessions /\ s \in 1..Sessions /\ Sessions \in Nat
  <2>1. Sta[i] \in StaRecord
    BY <1>1, <1>4, LogDomain
  <2> QED
    BY <1>6, <2>1, WorkerAssumption DEF StaRecord, Session
<1>9. s \in u..Sessions
  BY ONLY <1>7, <1>8
<1>10. StoppedSession(s)
  <2>1. m \in DOMAIN Sta
    BY <1>1, <1>4, LogDomain
  <2> QED
    BY <1>5, <2>1 DEF StoppedSession, Sta
<1> QED
  BY <1>6, <1>9, <1>10 DEF Settled

(* The offsets of the session that completed are committed. *)
LEMMA CommitStep ==
  ASSUME IInv, Commit
  PROVE  IInv'
<1>1. LogType /\ MemType /\ JobInv /\ CommitInv /\ SessionInv /\ OffsInv /\ TermInv
  BY DEF IInv
<1>2. PICK s \in Session : /\ Completed(s)
         /\ offsets' = [t \in Topics |-> IF w.offs[s][t] = 0 THEN offsets[t] ELSE w.offs[s][t]]
  BY DEF Commit
<1>3. /\ exit = "none" /\ job.then = "commit" /\ job.s = s /\ job.todo = <<>>
  BY <1>2 DEF Completed
<1>4. /\ log' = log /\ replay' = replay /\ features' = features /\ scores' = scores
      /\ emitted' = emitted /\ w' = w /\ job' = Idle /\ Tel' = Tel /\ Sta' = Sta
  BY DEF Commit, Upstream, Tel, Sta
<1>5. /\ s \in Session \ w.failed
      /\ \/ w.term[s].kind = "COMPLETED" /\ w.last[s] = Rows /\ w.builders[s].complete
         \/ /\ w.term[s].kind = "STOPPED" /\ w.offs[s]["telemetry"] = 0
            /\ w.offs[s]["status"] = w.pos["status"]
  BY <1>1, <1>3 DEF JobInv
<1>6. w.term[s].kind = "COMPLETED" => Settled(s)
  BY <1>3, <1>5, CompletedIsSettled
<1>7. Moves(s) /\ Moved(s)'
  <2>1. PICK c : c = w.builders[s]
    OBVIOUS
  <2>2. DOMAIN w = MemFields /\ w.builders = [w.builders EXCEPT ![s] = c]
    <3>1. w.builders = [u \in Session |-> w.builders[u]] /\ DOMAIN w = MemFields
      BY <1>1 DEF MemType
    <3> QED
      BY <2>1, <3>1
  <2>3. /\ DOMAIN w' = MemFields /\ w'.builders = [w.builders EXCEPT ![s] = c]
        /\ w'.pos = w.pos /\ w'.last = w.last /\ w'.term = w.term /\ w'.offs = w.offs
        /\ w'.failed = w.failed /\ w'.blocked = w.blocked /\ w'.own = w.own
    BY <1>4, <2>2
  <2>4. /\ Moves(s)
        /\ (/\ Attached(s) \/ Detached(s)
            /\ w.term[s].kind = "COMPLETED" /\ w.last[s] = Rows => Settled(s) \/ Busy(s))'
           => Moved(s)'
    BY <1>3, <1>4, <1>5, <2>3, BarrierMoves
  <2>5. Attached(s)' \/ Detached(s)'
    BY <1>1, <1>3, <1>4, <1>5, AtRest DEF SessionInv
  <2>6. w'.term[s].kind = "COMPLETED" => Settled(s)'
    <3>1. Settled(s)' <=> Settled(s)
      BY <1>4 DEF Settled, StoppedSession, FailedSession
    <3> QED
      BY <1>4, <1>6, <3>1
  <2> QED
    BY <2>4, <2>5, <2>6
<1>8. JobType' /\ JobInv'
  <2>1. \A e : <<Window(e)>> # <<>>
    OBVIOUS
  <2> QED
    BY ONLY <1>4, <2>1 DEF JobType, JobInv, Idle
<1>9. /\ LogType' /\ TelInv' /\ StaInv' /\ MemType' /\ FailInv' /\ TermInv' /\ OffsInv'
      /\ SessionInv' /\ JobType' /\ JobInv' /\ DoneInv' /\ ScoreInv'
      /\ \A u : Settled(u)' <=> Settled(u)
  BY <1>7, <1>8, MoveKeeps
<1>10. PICK jt, js : jt = w.offs[s]["telemetry"] /\ js = w.offs[s]["status"]
  OBVIOUS
<1>11. /\ offsets' \in [Topics -> Nat] /\ jt \in Nat /\ js \in Nat
       /\ offsets'["telemetry"] = IF jt = 0 THEN offsets["telemetry"] ELSE jt
       /\ offsets'["status"] = IF js = 0 THEN offsets["status"] ELSE js
  <2>1. w.offs[s] \in [Topics -> Nat] /\ offsets \in [Topics -> Nat]
    BY <1>1 DEF MemType, CommitInv
  <2>2. jt \in Nat /\ js \in Nat /\ "telemetry" \in Topics /\ "status" \in Topics
    BY <1>10, <2>1 DEF Topics
  <2> QED
    BY <1>2, <1>10, <2>1, <2>2
<1>12. /\ offsets["telemetry"] \in Nat /\ offsets["status"] \in Nat
       /\ offsets["telemetry"] <= w.pos["telemetry"] /\ offsets["status"] <= w.pos["status"]
       /\ w.pos["telemetry"] \in Nat /\ w.pos["status"] \in Nat
       /\ w.pos["status"] <= Len(Sta) /\ Len(Sta) \in Nat
  BY <1>1, Positions DEF CommitInv, Topics
<1>13. js \in 1..w.pos["status"] /\ Ends(js, s)
  BY <1>1, <1>5, <1>10 DEF TermInv, Ends
<1>14. offsets'["status"] = js /\ offsets["status"] <= w.pos["status"]
  BY <1>11, <1>12, <1>13
<1>15. \A i \in 1..js : Sta[i].kind = "COMPLETED" => Settled(Sta[i].s)
  <2>1. CASE w.term[s].kind = "COMPLETED"
    BY <1>3, <1>5, <1>10, <2>1, EarlierIsSettled
  <2>2. CASE w.term[s].kind # "COMPLETED"
    BY <1>5, <1>10, <2>2, StoppedIsSettled
  <2> QED
    BY <2>1, <2>2
<1>16. \A i \in 1..js : Sta'[i].kind = "COMPLETED" => Settled(Sta[i].s)'
  <2> SUFFICES ASSUME NEW i \in 1..js, Sta'[i].kind = "COMPLETED" PROVE Settled(Sta[i].s)'
    OBVIOUS
  <2>1. PICK u : u = Sta[i].s /\ u = Sta'[i].s
    BY <1>4
  <2>2. Settled(u)'
    BY <1>4, <1>9, <1>15, <2>1
  <2> QED
    BY <2>1, <2>2
<1>17. /\ offsets'["telemetry"] <= w.pos["telemetry"]
       /\ offsets'["telemetry"] > 0 =>
            LET r == Tel[offsets'["telemetry"]]
            IN  /\ r.kind = "ok" /\ r.k = Rows /\ NoBad(offsets'["telemetry"])
                /\ \E i \in 1..js : Ends(i, r.s)
  <2>1. CASE jt # 0
    <3>1. w.term[s].kind = "COMPLETED" /\ w.last[s] = Rows
      BY <1>5, <1>10, <2>1
    <3>2. jt <= w.pos["telemetry"] /\ NoBad(jt) /\ TelOk(jt, s, Rows)
      <4>1. jt > 0
        BY <1>11, <2>1
      <4> QED
        BY <1>1, <1>5, <1>10, <3>1, <4>1 DEF OffsInv
    <3>3. offsets'["telemetry"] = jt /\ js \in 1..js
      BY <1>11, <1>12, <1>13, <2>1
    <3> QED
      BY <1>13, <3>2, <3>3 DEF TelOk
  <2>2. CASE jt = 0
    <3>1. w.term[s].kind = "STOPPED" /\ js = w.pos["status"]
      <4>1. w.last[s] # Rows
        <5>1. w.last[s] = 0 /\ Rows # 0
          BY <1>1, <1>5, <1>10, <2>2, WorkerAssumption DEF OffsInv
        <5> QED
          BY <5>1
      <4> QED
        BY <1>5, <1>10, <4>1
    <3>2. offsets'["telemetry"] = offsets["telemetry"]
      BY <1>11, <2>2
    <3>3. \A i \in 1..offsets["status"] : i \in 1..js
      BY <1>12, <3>1
    <3> QED
      BY <1>1, <1>12, <3>2, <3>3 DEF CommitInv
  <2> QED
    BY <2>1, <2>2
<1>18. CommitInv'
  <2>1. offsets'["status"] <= w'.pos["status"] /\ offsets'["telemetry"] <= w'.pos["telemetry"]
    BY <1>4, <1>12, <1>13, <1>14, <1>17
  <2>2. (offsets["telemetry"] > 0 =>
           LET r == Tel[offsets["telemetry"]]
           IN  /\ r.kind = "ok" /\ r.k = Rows /\ NoBad(offsets["telemetry"])
               /\ \E i \in 1..offsets["status"] : Ends(i, r.s))'
    BY ONLY <1>4, <1>14, <1>17 DEF NoBad, Ends
  <2>3. \A i \in 1..offsets'["status"] : Sta'[i].kind = "COMPLETED" => Settled(Sta[i].s)'
    BY <1>14, <1>16
  <2> QED
    BY ONLY <1>11, <2>1, <2>2, <2>3 DEF CommitInv
<1> QED
  BY <1>9, <1>18 DEF IInv

-----------------------------------------------------------------------------
(* A worker that starts.                                                   *)

(* Nothing is due before the first row. *)
LEMMA NothingDue ==
  ASSUME NEW e \in Nat, Due(e)
  PROVE  ~(e <= 0) /\ ~(e <= _compute_bin_end(0) - Stride)
<1>1. Stride <= e /\ Stride \in Nat \ {0}
  BY DueIsEnd, BuilderAssumption
<1>2. _compute_bin_end(0) \in Nat /\ _compute_bin_end(0) < 0 + Stride
  BY BinEnd
<1> QED
  BY <1>1, <1>2

(* The worker starts in the state its committed offsets give it: it reads  *)
(* every session from its first row, but for those whose end is committed. *)
LEMMA StartStep ==
  ASSUME IInv, start
  PROVE  IInv'
<1>1. LogType /\ MemType /\ TelInv /\ StaInv /\ CommitInv /\ ScoreInv
  BY DEF IInv
<1>2. /\ log' = log /\ replay' = replay /\ features' = features /\ scores' = scores
      /\ offsets' = offsets /\ job' = Idle /\ w' = __init__(offsets)
      /\ emitted' = [s \in Session |-> 0] /\ Tel' = Tel /\ Sta' = Sta
  BY DEF start, Upstream, Tel, Sta
<1>3. /\ DOMAIN w' = MemFields /\ w'.pos = offsets
      /\ w'.builders = [s \in Session |-> new_builder]
      /\ w'.last = [s \in Session |-> 0]
      /\ w'.term = [s \in Session |-> NoStatus]
      /\ w'.offs = [s \in Session |-> [t \in Topics |-> 0]]
      /\ w'.failed = {} /\ w'.blocked = {} /\ w'.own = {}
  BY ONLY <1>2 DEF __init__, MemFields
<1>4. /\ Grown /\ LogType' /\ TelInv' /\ StaInv'
  BY <1>2, SameLog
<1>5. /\ offsets \in [Topics -> Nat] /\ offsets["telemetry"] \in Nat /\ offsets["status"] \in Nat
      /\ offsets["telemetry"] <= Len(Tel) /\ offsets["status"] <= Len(Sta)
      /\ Len(Tel) \in Nat /\ Len(Sta) \in Nat
  <2>1. /\ offsets \in [Topics -> Nat]
        /\ offsets["telemetry"] <= w.pos["telemetry"] /\ offsets["status"] <= w.pos["status"]
    BY <1>1 DEF CommitInv
  <2>2. offsets["telemetry"] \in Nat /\ offsets["status"] \in Nat
    BY <2>1 DEF Topics
  <2>3. /\ w.pos["telemetry"] \in Nat /\ w.pos["telemetry"] <= Len(Tel)
        /\ w.pos["status"] \in Nat /\ w.pos["status"] <= Len(Sta)
        /\ Len(Tel) \in Nat /\ Len(Sta) \in Nat
    BY <1>1, Positions
  <2> QED
    BY ONLY <2>1, <2>2, <2>3
<1>6. MemType'
  <2>1. Len(Tel)' = Len(Tel) /\ Len(Sta)' = Len(Sta)
    BY <1>2
  <2>2. 0 \in 0..Rows /\ 0 \in Nat
    BY WorkerAssumption
  <2>3. /\ w'.builders = [s \in Session |-> w'.builders[s]]
        /\ w'.term = [s \in Session |-> w'.term[s]]
        /\ w'.last \in [Session -> 0..Rows]
        /\ w'.offs \in [Session -> [Topics -> Nat]]
    BY ONLY <1>3, <2>2
  <2> QED
    BY ONLY <1>3, <1>5, <2>1, <2>3 DEF MemType
<1>7. ASSUME NEW s \in Session
      PROVE  /\ w'.builders[s] = new_builder /\ w'.last[s] = 0 /\ w'.term[s].kind = "none"
             /\ w'.offs[s]["telemetry"] = 0 /\ emitted'[s] = 0
  <2>1. "telemetry" \in Topics
    BY DEF Topics
  <2> QED
    BY <1>2, <1>3, <2>1 DEF NoStatus
<1>8. NoBad(offsets["telemetry"])
  <2>1. CASE offsets["telemetry"] = 0
    BY <2>1 DEF NoBad
  <2>2. CASE offsets["telemetry"] # 0
    BY <1>1, <1>5, <2>2 DEF CommitInv
  <2> QED
    BY <2>1, <2>2
<1>9. FailInv'
  <2>1. NoBad(w.pos["telemetry"])'
    BY ONLY <1>2, <1>3, <1>8 DEF NoBad
  <2> QED
    BY <1>3, <2>1 DEF FailInv
<1>10. TermInv' /\ OffsInv'
  BY <1>7 DEF TermInv, OffsInv
<1>11. SessionInv'
  <2> SUFFICES ASSUME NEW s \in Session PROVE Attached(s)' \/ Detached(s)'
    BY DEF SessionInv
  <2>1. CASE \A i \in 1..offsets["telemetry"] : Tel[i].s # s
    <3>1. \A i \in 1..w'.pos["telemetry"] :
            NoBad(i)' /\ Tel'[i].kind = "ok" /\ Tel'[i].s = s => Tel'[i].k <= w'.last[s]
      BY <1>2, <1>3, <2>1
    <3>2. BuilderInv(s)' /\ Closed(s)' = _compute_bin_end(0) - Stride
      <4>1. new_builder.complete = FALSE
        BY DEF new_builder
      <4>2. w'.builders[s] = new_builder /\ w'.last[s] = 0
        BY <1>7
      <4>3. BuilderInv(s)'
        BY ONLY <4>2 DEF BuilderInv
      <4>4. Closed(s)' = _compute_bin_end(0) - Stride
        BY ONLY <4>1, <4>2 DEF Closed
      <4> QED
        BY <4>3, <4>4
    <3>3. \A e \in Nat : Due(e) => ~(e <= emitted'[s]) /\ ~(e <= Closed(s)')
      BY <1>7, <3>2, NothingDue
    <3>4. Attached(s)'
      BY <1>7, <3>1, <3>2, <3>3 DEF Attached
    <3> QED
      BY <3>4
  <2>2. CASE \E i \in 1..offsets["telemetry"] : Tel[i].s = s
    <3>1. PICK q \in 1..offsets["telemetry"] : Tel[q].s = s
      BY <2>2
    <3>2. PICK m, t : m = offsets["telemetry"] /\ t = Tel[m].s
      OBVIOUS
    <3>3. q \in 1..Len(Tel) /\ m \in 1..Len(Tel) /\ q <= m /\ m > 0
      BY <1>5, <3>1, <3>2
    <3>4. s <= t /\ s \in Nat /\ t \in Nat /\ t \in Session
      <4>1. Tel[m] \in TelRecord
        BY <1>1, <3>3, LogDomain
      <4>2. t \in Session /\ s \in Nat /\ t \in Nat
        BY <3>2, <4>1 DEF TelRecord, Session
      <4>3. Tel[q].s <= Tel[m].s
        BY <1>1, <3>3 DEF TelInv
      <4> QED
        BY <3>1, <3>2, <4>2, <4>3
    <3>5. Tel[m].kind = "ok" /\ Tel[m].k = Rows /\ \E i \in 1..offsets["status"] : Ends(i, t)
      BY <1>1, <3>2, <3>3 DEF CommitInv
    <3>6. PICK a \in 1..offsets["status"] : Ends(a, t)
      BY <3>5
    <3>7. a \in 1..Len(Sta) /\ replay.i \in Nat
      BY <1>1, <1>5, <3>6 DEF LogType
    <3>8. t < replay.i
      BY <1>1, <3>6, <3>7 DEF StaInv, Ends
    <3>9. s < replay.i
      BY <3>4, <3>7, <3>8
    <3>10. \E i \in 1..offsets["status"] : Ends(i, s)
      <4>1. PICK i \in 1..Len(Sta) : Ends(i, s)
        BY <1>1, <3>9 DEF StaInv
      <4>2. ~(a < i)
        <5>1. a < i => Sta[a].s < Sta[i].s
          BY <1>1, <3>6, <3>7, <4>1 DEF StaInv, Ends
        <5> QED
          BY <3>4, <3>6, <4>1, <5>1 DEF Ends
      <4>3. i \in 1..offsets["status"]
        BY <1>5, <3>6, <4>1, <4>2
      <4> QED
        BY <4>1, <4>3
    <3>11. ASSUME NEW i \in 1..Len(Tel), i > m, Tel[i].kind = "ok", Tel[i].s = s
           PROVE  Tel[i].k = Rows
      <4>1. m <= i
        BY <3>3, <3>11
      <4>2. Tel[m].s <= Tel[i].s
        BY <1>1, <3>3, <4>1 DEF TelInv
      <4>3. Tel[m].s = Tel[i].s
        BY <3>2, <3>4, <3>11, <4>2
      <4>4. Tel[m].k <= Tel[i].k
        BY <1>1, <3>3, <3>5, <3>11, <4>1, <4>3 DEF TelInv
      <4>5. Tel[i] \in TelRecord /\ Rows \in Nat
        BY <1>1, LogDomain, WorkerAssumption
      <4>6. Tel[i].k \in 0..Rows
        BY <4>5 DEF TelRecord
      <4> QED
        BY <3>5, <4>4, <4>5, <4>6
    <3>12. /\ w'.pos["telemetry"] = m /\ w'.pos["status"] = offsets["status"]
      BY <1>3, <3>2
    <3>13. \E i \in 1..w'.pos["status"] : Ends(i, s)'
      BY <1>2, <3>10, <3>12 DEF Ends
    <3>14. \A i \in 1..Len(Tel)' :
             i > w'.pos["telemetry"] /\ Tel'[i].kind = "ok" /\ Tel'[i].s = s => Tel'[i].k = Rows
      BY <1>2, <3>11, <3>12
    <3>15. Detached(s)'
      BY <1>2, <1>7, <3>9, <3>13, <3>14 DEF Detached
    <3> QED
      BY <3>15
  <2> QED
    BY <2>1, <2>2
<1>12. JobType' /\ JobInv'
  <2>1. \A e : <<Window(e)>> # <<>>
    OBVIOUS
  <2> QED
    BY ONLY <1>2, <2>1 DEF JobType, JobInv, Idle
<1>13. \A u : Settled(u)' <=> Settled(u)
  BY <1>2 DEF Settled, StoppedSession, FailedSession
<1>14. \A i \in 1..offsets["status"] : Sta'[i].kind = "COMPLETED" => Settled(Sta[i].s)'
  <2> SUFFICES ASSUME NEW i \in 1..offsets["status"], Sta'[i].kind = "COMPLETED"
               PROVE  Settled(Sta[i].s)'
    OBVIOUS
  <2>1. PICK u : u = Sta[i].s /\ u = Sta'[i].s
    BY <1>2
  <2>2. Settled(u)'
    BY <1>1, <1>2, <1>13, <2>1 DEF CommitInv
  <2> QED
    BY <2>1, <2>2
<1>15. DoneInv'
  BY <1>3, <1>7, <1>14 DEF DoneInv
<1>16. CommitInv'
  <2>1. w'.pos["telemetry"] = offsets["telemetry"] /\ w'.pos["status"] = offsets["status"]
    BY <1>3
  <2>2. (offsets["telemetry"] > 0 =>
           LET r == Tel[offsets["telemetry"]]
           IN  /\ r.kind = "ok" /\ r.k = Rows /\ NoBad(offsets["telemetry"])
               /\ \E i \in 1..offsets["status"] : Ends(i, r.s))'
    BY ONLY <1>1, <1>2 DEF CommitInv, NoBad, Ends
  <2> QED
    BY ONLY <1>2, <1>5, <1>14, <2>1, <2>2 DEF CommitInv
<1>17. ScoreInv'
  BY <1>1, <1>2 DEF ScoreInv
<1> QED
  BY <1>4, <1>6, <1>9, <1>10, <1>11, <1>12, <1>15, <1>16, <1>17 DEF IInv

-----------------------------------------------------------------------------
(* The theorems.                                                           *)

LEMMA InitInv ==
  ASSUME Init
  PROVE  IInv
<1>1. /\ log = [t \in Topics |-> <<>>] /\ replay = [i |-> 1, k |-> 0]
      /\ offsets = [t \in Topics |-> 0] /\ w = __init__(offsets) /\ job = Idle
      /\ features = {} /\ scores = {} /\ emitted = [s \in Session |-> 0]
  BY DEF Init
<1>2. Tel = <<>> /\ Sta = <<>> /\ Len(Tel) = 0 /\ Len(Sta) = 0
  BY <1>1 DEF Tel, Sta, Topics
<1>3. Sessions \in Nat /\ Rows \in Nat \ {0} /\ Stride \in Nat \ {0}
  BY WorkerAssumption, BuilderAssumption
<1>4. /\ offsets \in [Topics -> Nat] /\ offsets["telemetry"] = 0 /\ offsets["status"] = 0
  BY <1>1 DEF Topics
<1>5. /\ DOMAIN w = MemFields /\ w.pos = offsets
      /\ w.builders = [s \in Session |-> new_builder]
      /\ w.last = [s \in Session |-> 0]
      /\ w.term = [s \in Session |-> NoStatus]
      /\ w.offs = [s \in Session |-> [t \in Topics |-> 0]]
      /\ w.failed = {} /\ w.blocked = {} /\ w.own = {}
  BY ONLY <1>1 DEF __init__, MemFields
<1>6. LogType
  <2>1. Tel \in Seq(TelRecord) /\ Sta \in Seq(StaRecord)
    BY <1>2
  <2>2. log = [t \in Topics |-> log[t]]
    BY <1>1
  <2>3. replay \in [i : Nat \ {0}, k : 0..Rows] /\ replay.i <= Sessions + 1
    BY <1>1, <1>3
  <2> QED
    BY <2>1, <2>2, <2>3 DEF LogType
<1>7. TelInv /\ StaInv
  BY <1>1, <1>2, <1>3 DEF TelInv, StaInv, Session
<1>8. MemType
  <2>1. 0 \in 0..Rows /\ 0 \in Nat
    BY <1>3
  <2>2. /\ w.builders = [s \in Session |-> w.builders[s]]
        /\ w.term = [s \in Session |-> w.term[s]]
        /\ w.last \in [Session -> 0..Rows]
        /\ w.offs \in [Session -> [Topics -> Nat]]
    BY ONLY <1>5, <2>1
  <2> QED
    BY ONLY <1>2, <1>4, <1>5, <2>2 DEF MemType
<1>9. ASSUME NEW s \in Session
      PROVE  /\ w.builders[s] = new_builder /\ w.last[s] = 0 /\ w.term[s].kind = "none"
             /\ w.offs[s]["telemetry"] = 0 /\ emitted[s] = 0
  <2>1. "telemetry" \in Topics
    BY DEF Topics
  <2> QED
    BY <1>1, <1>5, <2>1 DEF NoStatus
<1>10. FailInv
  BY <1>4, <1>5 DEF FailInv, NoBad
<1>11. TermInv /\ OffsInv
  BY <1>9 DEF TermInv, OffsInv
<1>12. SessionInv
  <2> SUFFICES ASSUME NEW s \in Session PROVE Attached(s)
    BY DEF SessionInv
  <2>1. new_builder.complete = FALSE
    BY DEF new_builder
  <2>2. BuilderInv(s) /\ Closed(s) = _compute_bin_end(0) - Stride
    BY ONLY <1>9, <2>1, s \in Session DEF Closed, BuilderInv
  <2>3. \A e \in Nat : Due(e) => ~(e <= emitted[s]) /\ ~(e <= Closed(s))
    BY <1>9, <2>2, NothingDue
  <2> QED
    BY <1>4, <1>5, <1>9, <2>2, <2>3 DEF Attached
<1>13. JobType /\ JobInv
  <2>1. \A e : <<Window(e)>> # <<>>
    OBVIOUS
  <2> QED
    BY ONLY <1>1, <2>1 DEF JobType, JobInv, Idle
<1>14. DoneInv /\ CommitInv
  BY <1>4, <1>5, <1>9 DEF DoneInv, CommitInv
<1>15. ScoreInv
  BY <1>1 DEF ScoreInv
<1> QED
  BY <1>6, <1>7, <1>8, <1>10, <1>11, <1>12, <1>13, <1>14, <1>15 DEF IInv

(* The handlers, by what they make of the record they are given. *)
LEMMA HandleStep ==
  ASSUME IInv, NEW t \in Topics, handle_record(t)
  PROVE  IInv'
<1>1. MemType /\ LogType /\ FailInv
  BY DEF IInv
<1>2. Handled
  BY DEF handle_record, Handled, Upstream
<1>3. t = "telemetry" \/ t = "status"
  BY DEF Topics
<1>4. CASE t = "telemetry"
  <2>1. PICK r : r = Tel[w.pos["telemetry"] + 1]
    OBVIOUS
  <2>2. w.pos["telemetry"] < Len(Tel) /\ exit' = exit /\ _handle_telemetry_record(r)
    BY <1>4, <2>1 DEF handle_record, Tel
  <2>3. Advance(w, "telemetry").builders = w.builders
    BY <1>1 DEF Advance, MemType, MemFields
  <2>4. \/ /\ _is_blocked("telemetry")
           /\ w' = Advance(w, "telemetry") /\ log' = log /\ job' = job
        \/ /\ ~_is_blocked("telemetry") /\ r.kind = "bad"
           /\ w' = [Advance(w, "telemetry") EXCEPT !.blocked = @ \cup {"telemetry"}]
           /\ log' = log /\ job' = job
        \/ /\ ~_is_blocked("telemetry") /\ r.kind /= "bad" /\ r.s \in w.failed
           /\ w' = Advance(w, "telemetry") /\ log' = log /\ job' = job
        \/ /\ ~_is_blocked("telemetry") /\ r.kind = "foreign" /\ r.s \notin w.failed
           /\ _fail_session(Advance(w, "telemetry"), r.s) /\ job' = job
        \/ /\ ~_is_blocked("telemetry") /\ r.kind = "ok" /\ r.s \notin w.failed
           /\ w' = RowMem(r.s, r.k) /\ log' = log
           /\ job' = Job(r.s, push(w.builders[r.s], Row(r.k)).out, "barrier")
    BY ONLY <2>2, <2>3 DEF _handle_telemetry_record, RowMem
  <2>5. CASE /\ ~_is_blocked("telemetry") /\ r.kind = "ok" /\ r.s \notin w.failed
             /\ w' = RowMem(r.s, r.k) /\ log' = log
             /\ job' = Job(r.s, push(w.builders[r.s], Row(r.k)).out, "barrier")
    BY ONLY IInv, <1>2, <2>1, <2>2, <2>5, RowStep
  <2>6. CASE \/ /\ _is_blocked("telemetry")
                /\ w' = Advance(w, "telemetry") /\ log' = log /\ job' = job
             \/ /\ ~_is_blocked("telemetry") /\ r.kind = "bad"
                /\ w' = [Advance(w, "telemetry") EXCEPT !.blocked = @ \cup {"telemetry"}]
                /\ log' = log /\ job' = job
             \/ /\ ~_is_blocked("telemetry") /\ r.kind /= "bad" /\ r.s \in w.failed
                /\ w' = Advance(w, "telemetry") /\ log' = log /\ job' = job
             \/ /\ ~_is_blocked("telemetry") /\ r.kind = "foreign" /\ r.s \notin w.failed
                /\ _fail_session(Advance(w, "telemetry"), r.s) /\ job' = job
    BY ONLY IInv, <1>2, <2>1, <2>2, <2>6, TelemetrySkipped
  <2> QED
    BY ONLY <2>4, <2>5, <2>6
<1>5. CASE t = "status"
  <2>1. PICK r : r = Sta[w.pos["status"] + 1]
    OBVIOUS
  <2>2. w.pos["status"] < Len(Sta) /\ log' = log /\ _handle_status_record(r)
    BY <1>5, <2>1 DEF handle_record, Sta
  <2>3. w.pos["status"] + 1 \in w.own => r.kind = "FAILED"
    BY <1>1, <2>1 DEF FailInv
  <2>4. Advance(w, "status").pos["status"] = w.pos["status"] + 1
    BY <1>1 DEF Advance, MemType, MemFields, Topics
  <2>5. \/ /\ \/ /\ r.kind = "bad"
                 /\ w' = [Advance(w, "status") EXCEPT !.blocked = @ \cup {"status"}]
              \/ r.kind \notin Terminal /\ w' = Advance(w, "status")
              \/ /\ r.kind = "FAILED"
                 /\ w' = [Advance(Track(w, r.s, "status"), "status") EXCEPT !.failed = @ \cup {r.s}]
           /\ job' = job /\ exit' = exit
        \/ /\ r.kind \in Terminal
           /\ LET seen == Advance(Track(w, r.s, "status"), "status")
                  term == [seen EXCEPT !.term[r.s] = r]
              IN  IF _reached(seen, r.s, r.last) THEN _complete_session(term, r.s)
                  ELSE w' = term /\ UNCHANGED <<job, exit>>
    BY ONLY <2>2, <2>3, <2>4 DEF _handle_status_record, Terminal
  <2>6. CASE /\ r.kind \in Terminal
             /\ LET seen == Advance(Track(w, r.s, "status"), "status")
                    term == [seen EXCEPT !.term[r.s] = r]
                IN  IF _reached(seen, r.s, r.last) THEN _complete_session(term, r.s)
                    ELSE w' = term /\ UNCHANGED <<job, exit>>
    BY ONLY IInv, <1>2, <2>1, <2>2, <2>6, StatusStep
  <2>7. CASE /\ \/ /\ r.kind = "bad"
                   /\ w' = [Advance(w, "status") EXCEPT !.blocked = @ \cup {"status"}]
                \/ r.kind \notin Terminal /\ w' = Advance(w, "status")
                \/ /\ r.kind = "FAILED"
                   /\ w' = [Advance(Track(w, r.s, "status"), "status") EXCEPT !.failed = @ \cup {r.s}]
             /\ job' = job /\ exit' = exit
    BY ONLY IInv, <1>2, <2>1, <2>2, <2>7, StatusSkipped
  <2> QED
    BY ONLY <2>5, <2>6, <2>7
<1> QED
  BY <1>3, <1>4, <1>5

(* A step that changes nothing preserves the invariant. *)
LEMMA StutterStep ==
  ASSUME IInv, UNCHANGED vars
  PROVE  IInv'
<1>1. UNCHANGED <<log, replay>> /\ Environment /\ replay' = replay
  BY DEF vars, Environment
<1>2. /\ Grown /\ LogType' /\ TelInv' /\ StaInv' /\ Tel' = Tel
  BY <1>1, SameLog
<1>3. replay.i <= replay'.i /\ \A i \in 1..Len(Tel)' : ~(i > Len(Tel))
  <2>1. LogType /\ Len(Tel) \in Nat
    BY LogDomain DEF IInv
  <2> QED
    BY <1>1, <1>2, <2>1 DEF LogType
<1>4. /\ MemType' /\ FailInv' /\ TermInv' /\ OffsInv' /\ SessionInv' /\ JobType' /\ JobInv'
      /\ DoneInv' /\ CommitInv' /\ ScoreInv'
  BY <1>1, <1>2, <1>3, EnvironmentKeeps
<1> QED
  BY <1>2, <1>4 DEF IInv

(* The inductive invariant holds of every state of the worker. *)
THEOREM WorkerInvariant == Spec => []IInv
<1>1. Init => IInv
  BY InitInv
<1>2. IInv /\ [Next]_vars => IInv'
  <2> SUFFICES ASSUME IInv, [Next]_vars PROVE IInv'
    OBVIOUS
  <2>1. CASE PublishRow \/ RepublishRow \/ PublishFault
    BY <2>1, PublishSteps
  <2>2. CASE EndSession
    BY <2>2, EndSessionStep
  <2>3. ASSUME NEW t \in Topics, handle_record(t) PROVE IInv'
    BY <2>3, HandleStep
  <2>4. CASE _process_feature \/ score \/ Death
    BY <2>4, QuietSteps
  <2>5. CASE _validated_decision
    BY <2>5, ScoreStep
  <2>6. CASE SessionFailedError
    BY <2>6, SessionFailedStep
  <2>7. CASE Barrier
    BY <2>7, BarrierStep
  <2>8. CASE Commit
    BY <2>8, CommitStep
  <2>9. CASE start
    BY <2>9, StartStep
  <2>10. CASE UNCHANGED vars
    BY <2>10, StutterStep
  <2> QED
    BY <2>1, <2>2, <2>3, <2>4, <2>5, <2>6, <2>7, <2>8, <2>9, <2>10 DEF Next, Worker
<1> QED
  BY <1>1, <1>2, PTL DEF Spec

(* A session whose rows are behind the committed offset is over, and its   *)
(* end is committed too.                                                   *)
LEMMA CommittedIsSettled ==
  ASSUME IInv
  PROVE  CommittedIsScored
<1>1. LogType /\ MemType /\ TelInv /\ StaInv /\ CommitInv
  BY DEF IInv
<1> SUFFICES ASSUME NEW i \in 1..offsets["telemetry"]
             PROVE  Tel[i].kind # "bad" /\ Settled(Tel[i].s)
  BY DEF CommittedIsScored, Settled, Tel
<1>2. PICK s : s = Tel[i].s
  OBVIOUS
<1>3. PICK m, t : m = offsets["telemetry"] /\ t = Tel[m].s
  OBVIOUS
<1>4. /\ m \in Nat /\ m <= Len(Tel) /\ Len(Tel) \in Nat /\ Len(Sta) \in Nat
      /\ offsets["status"] \in Nat /\ offsets["status"] <= Len(Sta)
  <2>1. /\ offsets \in [Topics -> Nat]
        /\ offsets["telemetry"] <= w.pos["telemetry"] /\ offsets["status"] <= w.pos["status"]
    BY <1>1 DEF CommitInv
  <2>2. offsets["telemetry"] \in Nat /\ offsets["status"] \in Nat
    BY <2>1 DEF Topics
  <2>3. /\ w.pos["telemetry"] \in Nat /\ w.pos["telemetry"] <= Len(Tel)
        /\ w.pos["status"] \in Nat /\ w.pos["status"] <= Len(Sta)
        /\ Len(Tel) \in Nat /\ Len(Sta) \in Nat
    BY <1>1, Positions
  <2> QED
    BY ONLY <1>3, <2>1, <2>2, <2>3
<1>5. i \in 1..Len(Tel) /\ m \in 1..Len(Tel) /\ i <= m /\ m > 0
  BY <1>3, <1>4
<1>6. NoBad(m) /\ \E a \in 1..offsets["status"] : Ends(a, t)
  BY <1>1, <1>3, <1>5 DEF CommitInv
<1>7. Tel[i].kind # "bad"
  BY <1>3, <1>6 DEF NoBad
<1>8. s <= t /\ s \in Session /\ s \in Nat /\ t \in Nat
  <2>1. Tel[m] \in TelRecord /\ Tel[i] \in TelRecord
    BY <1>1, <1>5, LogDomain
  <2>2. Tel[i].s <= Tel[m].s
    BY <1>1, <1>5 DEF TelInv
  <2> QED
    BY <1>2, <1>3, <2>1, <2>2 DEF TelRecord, Session
<1>9. PICK a \in 1..offsets["status"] : Ends(a, t)
  BY <1>6
<1>10. a \in 1..Len(Sta) /\ replay.i \in Nat
  BY <1>1, <1>4, <1>9 DEF LogType
<1>11. s < replay.i
  <2>1. t < replay.i
    BY <1>1, <1>9, <1>10 DEF StaInv, Ends
  <2> QED
    BY <1>8, <1>10, <2>1
<1>12. PICK c \in 1..Len(Sta) : Ends(c, s)
  BY <1>1, <1>8, <1>11 DEF StaInv
<1>13. c \in 1..offsets["status"]
  <2>1. a < c => Sta[a].s < Sta[c].s
    BY <1>1, <1>9, <1>10, <1>12 DEF StaInv, Ends
  <2>2. ~(a < c)
    BY <1>8, <1>9, <1>12, <2>1 DEF Ends
  <2> QED
    BY <1>4, <1>9, <1>12, <2>2
<1>14. Settled(s)
  <2>1. CASE Sta[c].kind = "COMPLETED"
    BY <1>1, <1>12, <1>13, <2>1 DEF CommitInv, Ends
  <2>2. CASE Sta[c].kind = "STOPPED"
    <3>1. c \in DOMAIN Sta
      BY <1>1, <1>12, LogDomain
    <3>2. StoppedSession(s)
      BY <1>12, <2>2, <3>1 DEF StoppedSession, Ends, Sta
    <3>3. s \in s..Sessions
      BY <1>8, WorkerAssumption DEF Session
    <3> QED
      BY <3>2, <3>3 DEF Settled
  <2> QED
    BY <1>12, <2>1, <2>2 DEF Ends, Terminal
<1> QED
  BY <1>2, <1>7, <1>14

(* At-least-once: whatever the order in which the worker reads its topics  *)
(* and wherever it dies, a telemetry record behind the committed offset    *)
(* was decoded, and every window of its session that ran to its end is     *)
(* scored, unless the session failed or a session from it on was stopped.  *)
THEOREM CommittedScored == Spec => []CommittedIsScored
<1>1. IInv => CommittedIsScored
  BY CommittedIsSettled
<1> QED
  BY <1>1, WorkerInvariant, PTL

(* Every window the worker publishes, in whatever try, is the window that  *)
(* the offline code computes from all the rows of its session.             *)
THEOREM RetriesAgreeAlways == Spec => []RetriesAgree
<1>1. IInv => RetriesAgree
  <2> SUFFICES ASSUME IInv, NEW f \in features PROVE f \in AllWindows(f.s)
    BY DEF RetriesAgree
  <2>1. PICK s : s = f.s
    OBVIOUS
  <2>2. PICK e \in Nat : Due(e) /\ f = Score(s, e)
    BY <2>1 DEF IInv, ScoreInv
  <2>3. AllWindows(s) = {Score(s, n) : n \in {m \in Nat : Due(m)}}
    BY WindowsAreDue
  <2> QED
    BY <2>1, <2>2, <2>3
<1> QED
  BY <1>1, WorkerInvariant, PTL

(* The decision the worker publishes next is the next of its session, or   *)
(* the next of those it repeats.                                           *)
LEMMA DecisionInOrder ==
  ASSUME IInv, _validated_decision
  PROVE  \E d \in scores' : Producer!PublishScore(d)
<1>1. JobType /\ JobInv /\ ScoreInv
  BY DEF IInv
<1>2. /\ exit = "none" /\ job.todo # <<>>
      /\ scores' = scores \cup {Feature} /\ emitted' = [emitted EXCEPT ![job.s] = Feature.end]
  BY DEF _validated_decision, Scoring
<1>3. PICK e \in Nat : Due(e) /\ job.todo = <<Window(e)>>
  BY <1>1, <1>2 DEF JobType
<1>4. PICK s : s = job.s
  OBVIOUS
<1>5. s \in Session /\ Attached(s) /\ emitted[s] < e /\ e <= Closed(s)
  BY <1>1, <1>2, <1>3, <1>4 DEF JobInv
<1>6. PICK d : d = Score(s, e)
  OBVIOUS
<1>7. Feature = d /\ d.s = s /\ d.end = e
  <2>1. Head(job.todo) = Window(e)
    BY <1>3
  <2>2. Window(e).end = e
    BY DEF Window
  <2> QED
    BY <1>4, <1>6, <2>1, <2>2 DEF Feature, Score
<1>8. emitted[s] \in Nat
  BY <1>1, <1>5 DEF ScoreInv
<1>9. ASSUME NEW r \in scores, r.s = s, r.end > emitted[s]
      PROVE  d \in scores /\ e <= r.end
  <2>1. PICK n \in Nat : Due(n) /\ r = Score(s, n)
    BY <1>1, <1>9 DEF ScoreInv
  <2>2. r.end = n
    BY <2>1 DEF Score
  <2>3. e <= n
    <3> SUFFICES ASSUME n < e PROVE FALSE
      OBVIOUS
    <3>1. MemType /\ Closed(s) \in Int
      BY <1>5, ClosedType DEF IInv
    <3>2. n <= Closed(s)
      BY <1>5, <3>1
    <3>3. n <= emitted[s] \/ Pending(s, n)
      BY <1>5, <2>1, <3>2 DEF Attached
    <3>4. Pending(s, n)
      BY <1>8, <1>9, <2>2, <3>3
    <3>5. <<Window(n)>> = <<Window(e)>>
      BY <1>3, <3>4 DEF Pending
    <3>6. n = e
      BY <3>5, WindowEnd
    <3> QED
      BY <3>6
  <2>4. d \in scores
    <3>1. CASE n = e
      BY <1>6, <2>1, <3>1
    <3>2. CASE e < n
      BY <1>1, <1>3, <1>6, <1>9, <2>2, <3>2 DEF ScoreInv
    <3> QED
      BY <2>3, <3>1, <3>2
  <2> QED
    BY <2>2, <2>3, <2>4
<1>10. Producer!PublishScore(d)
  <2>1. d.end > emitted[d.s]
    BY <1>5, <1>7, <1>8
  <2>2. LET again == {r \in scores : r.s = d.s /\ r.end > emitted[d.s]}
        IN  again # {} => d \in again /\ \A r \in again : d.end <= r.end
    BY <1>7, <1>9, <2>1
  <2>3. scores' = scores \cup {d} /\ emitted' = [emitted EXCEPT ![d.s] = d.end]
    BY <1>2, <1>4, <1>7
  <2> QED
    BY <2>1, <2>2, <2>3 DEF Producer!PublishScore
<1> QED
  BY <1>2, <1>7, <1>10

(* The streaming worker implements the producer of irp.scores.v1 that the  *)
(* alert service is proved against.                                        *)
THEOREM WorkerIsProducer == Spec => ScoresInOrder
<1>1. Init => Producer!Init
  BY DEF Init, Producer!Init
<1>2. IInv /\ [Next]_vars => [Producer!Next]_(Producer!vars)
  <2> SUFFICES ASSUME IInv, [Next]_vars PROVE [Producer!Next]_(Producer!vars)
    OBVIOUS
  <2>1. CASE _validated_decision
    BY <2>1, DecisionInOrder DEF Producer!Next
  <2>2. CASE start
    <3>1. emitted' = [s \in Session |-> 0] /\ scores' = scores
      BY <2>2 DEF start
    <3>2. Producer!WorkerRestart
      BY ONLY <3>1 DEF Producer!WorkerRestart
    <3> QED
      BY <3>2 DEF Producer!Next
  <2>3. CASE UNCHANGED <<emitted, scores>>
    BY <2>3 DEF Producer!vars
  <2>4. CASE PublishRow \/ RepublishRow \/ PublishFault \/ EndSession
    BY <2>3, <2>4 DEF PublishRow, RepublishRow, PublishFault, EndSession, Environment
  <2>5. ASSUME NEW t \in Topics, handle_record(t) PROVE UNCHANGED <<emitted, scores>>
    BY <2>5 DEF handle_record
  <2>6. CASE _process_feature \/ score \/ Death \/ SessionFailedError
    BY <2>3, <2>6 DEF _process_feature, score, Death, SessionFailedError
  <2>7. CASE Barrier \/ Commit
    BY <2>3, <2>7 DEF Barrier, Commit
  <2>8. CASE UNCHANGED vars
    BY <2>3, <2>8 DEF vars
  <2> QED
    BY <2>1, <2>2, <2>3, <2>4, <2>5, <2>6, <2>7, <2>8 DEF Next, Worker
<1> QED
  BY <1>1, <1>2, WorkerInvariant, PTL DEF Spec, ScoresInOrder, Producer!Spec

=============================================================================
