----------------------------- MODULE BadgePower -----------------------------
(***************************************************************************)
(* The two gauges of the LCD badge: battery_gauge.py (a median over a      *)
(* window of voltages, five levels with hysteresis, the latched warning    *)
(* and the protective cutoff) and wifi_signal.py (signal bars).  Voltages  *)
(* are in hundredths of a volt.  One sample is taken per tick.             *)
(***************************************************************************)
EXTENDS Integers, Sequences, TLC

CONSTANTS
  Entry,          \* Entry[n]: n bars while the median is at least this much
  Hysteresis,     \* HYSTERESIS
  CutoffVolts,    \* CUTOFF_VOLTS
  CutoffSamples,  \* CUTOFF_MIN_SAMPLES
  FullOnUsb,      \* FULL_ON_USB_VOLTS
  BatteryWindow,  \* _WINDOW of battery_gauge
  SignalWindow,   \* _WINDOW of wifi_signal
  None

ASSUME PowerAssumption ==
  /\ Entry \in Seq(Nat) /\ Len(Entry) > 0
  /\ \A n \in 1 .. Len(Entry) - 1 : Entry[n] < Entry[n + 1]
  /\ Hysteresis \in Nat /\ FullOnUsb \in Nat
  /\ CutoffVolts \in Nat /\ CutoffVolts < Entry[1]
  /\ CutoffSamples \in 1 .. BatteryWindow /\ SignalWindow \in Nat \ {0}

Full == Len(Entry)

\* A gauge before its first sample; cells None shows as full.
Unprimed == [samples |-> <<>>, cells |-> None, latched |-> FALSE, signal |-> <<>>]

\* The newest samples that fit in the window.
Windowed(samples, size) ==
  IF Len(samples) <= size THEN samples ELSE Tail(samples)

\* Twice the median, which may be halfway between two samples.
Doubled(samples) ==
  LET s == SortSeq(samples, <)
      n == Len(s)
  IN s[(n + 1) \div 2] + s[n \div 2 + 1]

Level(median2) ==
  LET reached == {n \in 1 .. Full : median2 >= 2 * Entry[n]}
  IN IF reached = {} THEN 0 ELSE CHOOSE n \in reached : \A m \in reached : m <= n

\* _recompute: down at once, up one bar and only past the margin.
Recompute(g) ==
  LET median2 == Doubled(g.samples)
      target  == Level(median2)
      cells   == CASE g.cells = None \/ (g.cells # None /\ target < g.cells) -> target
                   [] g.cells # None /\ target > g.cells
                        /\ median2 >= 2 * (Entry[g.cells + 1] + Hysteresis) -> g.cells + 1
                   [] OTHER -> g.cells
  IN [g EXCEPT !.cells = cells, !.latched = @ \/ cells = 0]

\* bars_for_rssi; None: not associated, or the radio will not say.
BarsForRssi(rssi) ==
  CASE rssi = None -> 0
    [] rssi # None /\ rssi >= -65 -> 4
    [] rssi # None /\ rssi < -65 /\ rssi >= -75 -> 3
    [] rssi # None /\ rssi < -75 /\ rssi >= -85 -> 2
    [] OTHER -> 1

\* Both sample_if_due.
Sample(g, volts, rssi) ==
  Recompute([g EXCEPT !.samples = Windowed(Append(@, volts), BatteryWindow),
                      !.signal  = Windowed(Append(@, BarsForRssi(rssi)), SignalWindow)])

NotePower(g, usb) == [g EXCEPT !.latched = @ /\ ~usb]

Cells(g) == IF g.cells = None THEN Full ELSE g.cells
Bars(g)  == IF g.signal = <<>> THEN 0 ELSE Doubled(g.signal) \div 2
ChargedFull(g) == g.samples # <<>> /\ Doubled(g.samples) >= 2 * FullOnUsb

\* Mutant: the cutoff itself does not count as low.
BelowCutoff(g, onBattery) ==
  onBattery /\ Len(g.samples) >= CutoffSamples /\ Doubled(g.samples) < 2 * CutoffVolts

ShouldPowerOff(g, onBattery) ==
  /\ onBattery
  /\ Len(g.samples) >= CutoffSamples
  /\ Doubled(g.samples) <= 2 * CutoffVolts
=============================================================================
