---------------------------- MODULE DataProcessor ----------------------------
(***************************************************************************)
(* DataProcessor: the moving average filter and the threshold detector a   *)
(* frame goes through.  Samples are integers (rounding of doubles is left  *)
(* out, so sum_ is exact), the filtered value is the fraction sum / count, *)
(* and the detector's run counter is a machine int: incrementing it at     *)
(* IntMax is undefined, so the result is any int.                          *)
(***************************************************************************)
EXTENDS Integers, Sequences, Sums

CONSTANTS
  Sample,          \* values the source can deliver
  Low, High,       \* watermarks
  K,               \* out-of-band samples in a row that raise the alarm
  Window,          \* length of the moving average
  IntMax           \* largest int

ASSUME SampleAssumption == Sample \subseteq Int /\ Low \in Int /\ High \in Int
ASSUME WindowAssumption == Window \in Nat \ {0}
ASSUME KAssumption == K \in Nat \ {0} /\ IntMax \in Nat /\ K <= IntMax

VARIABLES
  filterBuf, filterHead, count, sum,    \* MovingAverageFilter: buf_, head_, count_, sum_
  consecutive, alarm,       \* ThresholdDetector
  recent,                   \* ghost: the last Window samples since the last reset
  run                       \* ghost: how many of the last samples were out of band, up to K

filterVars == <<filterBuf, filterHead, count, sum>>
detectorVars == <<consecutive, alarm>>
ghostVars == <<recent, run>>
processorVars == <<filterVars, detectorVars, ghostVars>>

MachineInt == -IntMax - 1 .. IntMax
Slots == 0 .. Window - 1

ProcessorTypeOK ==
  /\ filterBuf \in [Slots -> Int] /\ filterHead \in Slots /\ count \in 0 .. Window /\ sum \in Int
  /\ consecutive \in MachineInt /\ alarm \in BOOLEAN
  /\ recent \in Seq(Sample) /\ run \in 0 .. K

ProcessorInit ==
  /\ filterBuf = [i \in Slots |-> 0] /\ filterHead = 0 /\ count = 0 /\ sum = 0
  /\ consecutive = 0 /\ alarm = FALSE
  /\ recent = <<>> /\ run = 0

-------------------------------------------------------------------------------
(* MovingAverageFilter::apply *)

\* Mutant: the head stays at the end of the buffer.
FilterApplyStops(v) ==
  /\ count' = IF count < Window THEN count + 1 ELSE count
  /\ sum' = (IF count < Window THEN sum ELSE sum - filterBuf[filterHead]) + v
  /\ filterBuf' = [filterBuf EXCEPT ![filterHead] = v]
  /\ filterHead' = IF filterHead + 1 < Window THEN filterHead + 1 ELSE filterHead

FilterApply(v) ==
  /\ count' = IF count < Window THEN count + 1 ELSE count
  /\ sum' = (IF count < Window THEN sum ELSE sum - filterBuf[filterHead]) + v
  /\ filterBuf' = [filterBuf EXCEPT ![filterHead] = v]
  /\ filterHead' = (filterHead + 1) % Window

(* ThresholdDetector::apply *)

OutOfBand(v) == v > High \/ v < Low

Increment(n) == IF n < IntMax THEN {n + 1} ELSE MachineInt

\* Mutant: the alarm recomputed from the counter instead of latched.
DetectorApplyUnlatched(v) ==
  IF OutOfBand(v)
    THEN /\ consecutive' \in Increment(consecutive)
         /\ alarm' = (consecutive' >= K)
    ELSE /\ consecutive' = 0
         /\ alarm' = FALSE

DetectorApply(v) ==
  IF OutOfBand(v)
    THEN /\ consecutive' \in Increment(consecutive)
         /\ alarm' = (alarm \/ consecutive' >= K)
    ELSE /\ consecutive' = 0
         /\ alarm' = FALSE

-------------------------------------------------------------------------------
\* The ghosts follow the samples themselves.
Observe(v) ==
  /\ recent' = Append(IF Len(recent) < Window THEN recent ELSE Tail(recent), v)
  /\ run' = IF ~OutOfBand(v) THEN 0 ELSE IF run < K THEN run + 1 ELSE K

\* process(): filter and detector both see the raw value.
Process(v) == FilterApply(v) /\ DetectorApply(v) /\ Observe(v)

FilterReset == filterBuf' = [i \in Slots |-> 0] /\ filterHead' = 0 /\ count' = 0 /\ sum' = 0

DetectorReset == consecutive' = 0 /\ alarm' = FALSE

\* reset()
Reset == FilterReset /\ DetectorReset /\ recent' = <<>> /\ run' = 0

ProcessorNext == Reset \/ \E v \in Sample : Process(v)

ProcessorSpec == ProcessorInit /\ [][ProcessorNext]_processorVars

-------------------------------------------------------------------------------
(* Properties *)

\* The alarm flag is on exactly while the last K samples at least were all out
\* of band, for however long the source stays there: the counter overflowing
\* after IntMax of them neither clears the flag nor raises it early.
AlarmExact == alarm <=> run = K

\* The counter is the length of the run until the alarm is raised.
CounterTracksRun == run < K => consecutive = run

\* The slot of the i-th oldest sample in a window of n that ends before slot h.
SlotOf(h, n, i) == IF h - n + i - 1 < 0 THEN h - n + i - 1 + Window ELSE h - n + i - 1

\* The ring buffer holds the last samples, oldest first from the head back: the
\* slot apply() is about to overwrite is the oldest sample of a full window.
RingHoldsWindow ==
  /\ count = Len(recent)
  /\ \A i \in 1 .. count : recent[i] = filterBuf[SlotOf(filterHead, count, i)]

\* The sum of a sequence of integers.
SumOf(s) == Sum([i \in 0 .. Len(s) - 1 |-> s[i + 1]], Len(s))

\* The running sum, updated by a subtraction and an addition per sample, is the
\* sum of the samples in the window, so that sum / count is their mean.
SumExact == sum = SumOf(recent)

\* The inductive invariant.
ProcessorInv == ProcessorTypeOK /\ CounterTracksRun /\ AlarmExact /\ RingHoldsWindow /\ SumExact
===============================================================================
