----------------------------- MODULE RpmAverager -----------------------------
(***************************************************************************)
(* components/rpm_cap/rpm_cap.c, averager_task: the history ring and the   *)
(* constant-time moving average behind rpm_cap_get_latest, and the changes *)
(* of the window by rpm_cap_set_params.  The average is kept as the pair   *)
(* of its sum and its count; speeds are integers.                          *)
(***************************************************************************)
EXTENDS Integers

CONSTANTS
  HistoryLen,   (* HISTORY_LEN: slots of both rings                       *)
  Speed,        (* the speeds measured                                    *)
  Window,       (* the moving average counts rpm_cap_set_params accepts   *)
  Shrink        (* TRUE when a moving average count may be lowered        *)

ASSUME AveragerAssumption ==
  /\ HistoryLen \in Nat \ {0}
  /\ Speed \subseteq Nat
  /\ Window \subseteq Nat \ {0}
  /\ Shrink \in BOOLEAN

VARIABLES
  history,     (* history, history_head, history_filled                   *)
  mavg,        (* mavg_ring, mavg_head, mavg_filled, mavg_sum             *)
  window,      (* moving_avg_count                                        *)
  latest       (* latest_rpm_bits                                         *)

avgVars == <<history, mavg, window, latest>>

Index == 0..(HistoryLen - 1)

AvgTypeOK ==
  /\ history \in [ring: [Index -> Nat], head: Index, filled: 0..HistoryLen]
  /\ mavg \in [ring: [Index -> Nat], head: Index, filled: 0..HistoryLen, sum: Int]
  /\ window \in Window
  /\ latest \in [sum: Int, count: 1..HistoryLen]

Zeros == [i \in Index |-> 0]

AvgInit ==
  /\ history = [ring |-> Zeros, head |-> 0, filled |-> 0]
  /\ mavg = [ring |-> Zeros, head |-> 0, filled |-> 0, sum |-> 0]
  /\ window \in Window
  /\ latest = [sum |-> 0, count |-> 1]

\* The window the averager uses: at most the ring.
Clamped(w) == IF w > HistoryLen THEN HistoryLen ELSE w

\* One sample: the history, then the moving average, then the published value.
AddToHistory(rpm) ==
  history' = [ring   |-> [history.ring EXCEPT ![history.head] = rpm],
              head   |-> (history.head + 1) % HistoryLen,
              filled |-> IF history.filled < HistoryLen THEN history.filled + 1
                                                        ELSE history.filled]

\* Mutant: one sample too young.
OldestOffByOne(w) == (mavg.head + HistoryLen - w + 1) % HistoryLen

\* The sample that leaves a window of w.
Oldest(w) == (mavg.head + HistoryLen - w) % HistoryLen

AddToAverage(rpm) ==
  LET w       == Clamped(window)
      growing == mavg.filled < w
  IN  mavg' = [ring   |-> [mavg.ring EXCEPT ![mavg.head] = rpm],
               head   |-> (mavg.head + 1) % HistoryLen,
               filled |-> IF growing THEN mavg.filled + 1 ELSE mavg.filled,
               sum    |-> mavg.sum + rpm - (IF growing THEN 0 ELSE mavg.ring[Oldest(w)])]

Average(rpm) ==
  /\ AddToHistory(rpm)
  /\ AddToAverage(rpm)
  /\ latest' = [sum |-> mavg'.sum, count |-> mavg'.filled]
  /\ UNCHANGED window

\* rpm_cap_set_params stores the count; the averager reads it per sample.
SetWindow(w) ==
  /\ w >= window \/ Shrink
  /\ window' = w
  /\ UNCHANGED <<history, mavg, latest>>

AvgNext ==
  \/ \E rpm \in Speed : Average(rpm)
  \/ \E w \in Window : SetWindow(w)

AvgSpec == AvgInit /\ [][AvgNext]_avgVars

-----------------------------------------------------------------------------
(* Properties.                                                             *)

\* The k-th latest sample, 1 being the latest.
Recent(k) == history.ring[(history.head + HistoryLen - k) % HistoryLen]
SumOfRecent(n) ==
  LET s[k \in 0..n] == IF k = 0 THEN 0 ELSE s[k - 1] + Recent(k) IN s[n]

\* The published average is that of the most recent samples: of all of them
\* until there are as many as the window has, never of more than the window.
\* (Only while the window is never made smaller.)  The indices and the counts
\* stay within the rings.
AverageOfRecent ==
  /\ AvgTypeOK
  /\ ~Shrink /\ history.filled > 0 =>
       /\ latest.sum = SumOfRecent(latest.count)
       /\ latest.count <= Clamped(window)

\* Claimed of the moving average: the published value is the mean of samples
\* that were measured, so it is no larger than the largest of the last
\* HistoryLen samples and no smaller than the smallest.
WithinSamples ==
  history.filled > 0 =>
    LET seen == {Recent(k) : k \in 1..history.filled} IN
      /\ \E x \in seen : latest.sum <= x * latest.count
      /\ \E x \in seen : latest.sum >= x * latest.count
=============================================================================
