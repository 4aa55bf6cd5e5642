----------------------------- MODULE Baselines -----------------------------
(***************************************************************************)
(* BaselineEngine of src/guardian/intelligence/baseline.py for one metric  *)
(* of one collector: the rolling window of its readings, and the rows it   *)
(* is written to and seeded from.                                          *)
(***************************************************************************)
EXTENDS Integers, Sequences, SequencesExt

CONSTANTS WindowSize,   \* _samples_per_window
          MinSamples    \* baseline_min_samples

(* validate_config wants ten samples at least, and does not look at the    *)
(* window: one that is smaller is never ready.                             *)
ASSUME WindowAssumption == WindowSize \in Nat /\ MinSamples \in 2..WindowSize

VARIABLE window         \* _windows["collector:metric"], oldest reading first

(* deque(maxlen).append *)
Pushed(w, value) == LET long == Append(w, value)
                    IN  IF Len(long) > WindowSize THEN Tail(long) ELSE long

Ready(w) == Len(w) >= MinSamples

(* np.mean, rounded down *)
Mean(w) ==
    LET sum[i \in 0..Len(w)] == IF i = 0 THEN 0 ELSE sum[i - 1] + w[i]
    IN  sum[Len(w)] \div Len(w)

FlushesShort(w) == w # <<>>         \* mutant: windows that are not ready, too

(* flush_to_store leaves out a window with too few readings.               *)
Flushes(w) == Ready(w)

RowUnderAnotherKey(w, id, now) ==   \* mutant: insert_baseline does not find the mean
    [id |-> id, at |-> now, mean |-> 0, samples |-> Len(w)]

RowOf(w, id, now) == [id |-> id, at |-> now, mean |-> Mean(w), samples |-> Len(w)]

Least(a, b) == IF a <= b THEN a ELSE b

(* load_from_store: as many copies of the mean as there were samples, but  *)
(* no more than are needed.  A deque drops what is too much.               *)
Seeded(w, row) ==
    LET long == w \o [i \in 1..Least(row.samples, MinSamples) |-> row.mean]
    IN  IF Len(long) > WindowSize THEN SubSeq(long, Len(long) - WindowSize + 1, Len(long)) ELSE long

(* The engine loads when it is made, and _load_intelligence loads again.   *)
LoadedTwice(row) == Seeded(Seeded(<<>>, row), row)
=============================================================================
