------------------------------- MODULE NetRates -------------------------------
(***************************************************************************)
(* From a counter of the kernel to the text on the page: _net_quality of    *)
(* the agent's collector.py makes a rate of what a counter has grown since   *)
(* the last sample, fmtRate of the machines page writes it. The counter,     *)
(* bytes sent, stands for the six that psutil reads at once, of which it and *)
(* bytes received are reported in tenths and the others in hundredths. It    *)
(* does not stand for tcp_retrans, which is read from a file of its own: a   *)
(* read that fails gives 0 there, and the next rate is too high.            *)
(***************************************************************************)
EXTENDS Integers

CONSTANTS
  None,        \* no baseline
  Kilo,        \* 1024, the step from one unit to the next
  Units,       \* 5: B, KB, MB, GB, TB
  MaxBytes,    \* bound: the counter
  MaxElapsed   \* bound: seconds between samples

VARIABLES
  bytes,     \* the counter, summed over the interfaces that are there
  elapsed,   \* seconds since the time in _prev_net
  prev,      \* the counter in _prev_net
  rate,      \* net_sent_rate of the last report
  traffic,   \* history: bytes really sent since _prev_net was taken
  seconds,   \* history: the time that took
  dropped    \* history: the counter has lost an interface since then

gauge == <<prev, rate>>
truth == <<traffic, seconds, dropped>>
vars == <<bytes, elapsed, gauge, truth>>

TypeOK ==
  /\ bytes \in 0..MaxBytes /\ elapsed \in 0..MaxElapsed
  /\ prev \in Nat \cup {None} /\ rate \in Nat
  /\ traffic \in Nat /\ seconds \in Nat /\ dropped \in BOOLEAN

Init ==
  /\ bytes \in 0..MaxBytes /\ elapsed = 0
  /\ prev = None /\ rate = 0 /\ traffic = 0 /\ seconds = 0 /\ dropped = FALSE

Send ==
  /\ \E n \in 1..(MaxBytes - bytes) : bytes' = bytes + n /\ traffic' = traffic + n
  /\ traffic' <= 2 * MaxBytes
  /\ UNCHANGED <<elapsed, gauge, seconds, dropped>>

\* psutil keeps a counter from wrapping, but an interface that goes takes its
\* share of the sum with it.
Drop ==
  /\ \E n \in 0..(bytes - 1) : bytes' = n
  /\ dropped' = TRUE
  /\ UNCHANGED <<elapsed, gauge, traffic, seconds>>

Second ==
  /\ elapsed < MaxElapsed /\ elapsed' = elapsed + 1 /\ seconds' = seconds + 1
  /\ UNCHANGED <<bytes, gauge, traffic, dropped>>

\* The agent starts again, and with it _prev_net.
Restart ==
  /\ prev' = None /\ rate' = 0 /\ elapsed' = 0
  /\ traffic' = 0 /\ seconds' = 0 /\ dropped' = FALSE
  /\ UNCHANGED bytes

Baseline == prev' = bytes /\ elapsed' = 0 /\ traffic' = 0 /\ seconds' = 0 /\ dropped' = FALSE

Growth == IF bytes > prev THEN bytes - prev ELSE 0

\* round(x, 1) of a float: on a tie, either neighbour.
Tenths(n, d) == {r \in 0..(10 * n) : 2 * r * d \in (20 * n - d)..(20 * n + d)}

\* Variant: the difference as it is.
Sample_Signed ==
  /\ rate' = IF prev = None \/ elapsed = 0 THEN 0 ELSE (10 * (bytes - prev)) \div elapsed
  /\ Baseline
  /\ UNCHANGED bytes

\* net_io_counters answers. The clock may not have moved since the last sample.
Sample ==
  /\ IF prev = None \/ elapsed = 0 THEN rate' = 0 ELSE rate' \in Tenths(Growth, elapsed)
  /\ Baseline
  /\ UNCHANGED bytes

\* Variant: the time of the failed sample is taken for the last one.
SampleFails_Time ==
  /\ rate' = 0 /\ elapsed' = 0
  /\ UNCHANGED <<bytes, prev, truth>>

\* It raises: zero is reported and the baseline stays.
SampleFails ==
  /\ rate' = 0
  /\ UNCHANGED <<bytes, elapsed, prev, truth>>

Next == Send \/ Drop \/ Second \/ Restart \/ Sample \/ SampleFails

Spec == Init /\ [][Next]_vars

-----------------------------------------------------------------------------
(* fmtBytes *)

\* 1024 to the power of i, in tenths: what unit i begins with. There is no
\* unit that begins with the last.
Least[i \in 0..Units] == IF i = 0 THEN 10 ELSE Kilo * Least[i - 1]

\* The floor of log(n) / log(1024), n in tenths and more than 0; one for all that
\* is below 0, and Units for all from there.
Power(n) ==
  IF n < Least[0] THEN -1
  ELSE CHOOSE i \in 0..Units : Least[i] <= n /\ (i < Units => n < Least[i + 1])

Undefined == -1

\* Variant: a logarithm rounded to the nearest.
UnitOf_Rounded(n) ==
  IF n = 0 THEN 0
  ELSE LET i == IF n < 10 THEN -1
                ELSE CHOOSE j \in 0..n : /\ Kilo ^ (2 * j) * 100 <= Kilo * n * n
                                         /\ Kilo * n * n < Kilo ^ (2 * j + 2) * 100
       IN IF i \in 0..(Units - 1) THEN i ELSE Undefined

\* units[i]
UnitOf(n) ==
  IF n = 0 THEN 0
  ELSE IF Power(n) \in 0..(Units - 1) THEN Power(n) ELSE Undefined

-----------------------------------------------------------------------------
(* Properties *)

\* A reported rate times the time it stands for is what was sent in that time,
\* to the rounding, also when samples in between failed; after an interface has
\* gone it can be too low and never too high.
RateIsTraffic ==
  [][Sample /\ prev # None /\ elapsed > 0 =>
       /\ 2 * rate' * seconds <= 20 * traffic + seconds
       /\ dropped \/ 2 * rate' * seconds >= 20 * traffic - seconds]_vars

\* A rate is written with the unit it is 1 to 1024 of; but there is none for
\* what is less than one byte a second, and what is more than the last unit
\* reaches, and the page says "undefined/s".
WrittenInAUnit ==
  IF rate = 0 THEN UnitOf(rate) = 0
  ELSE \/ /\ UnitOf(rate) \in 0..(Units - 1)
          /\ Least[UnitOf(rate)] <= rate /\ rate < Least[UnitOf(rate) + 1]
       \/ UnitOf(rate) = Undefined /\ (rate < Least[0] \/ rate >= Least[Units])
=============================================================================
