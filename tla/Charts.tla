------------------------------- MODULE Charts -------------------------------
(***************************************************************************)
(* The graphs of the metrics page (TimeSeriesChart.tsx, NodeMetrics.tsx):  *)
(* which colour a series has, where its label is, what the pointer reads.  *)
(* Values and pixels are whole numbers.                                    *)
(***************************************************************************)
EXTENDS Integers, Sequences, FiniteSetsExt, Functions, Ordered

CONSTANTS
  Colours,   \* SERIES_COLORS.length
  Top,       \* PAD.top
  PlotH,     \* the height of the plot
  MIN_GAP,   \* between two end labels
  Values,    \* the values of a series
  Powers     \* the powers of ten that the values are between

ASSUME ColoursAssumption == Colours \in Nat \ {0}
ASSUME PlotAssumption == Top \in Nat /\ PlotH \in Nat /\ MIN_GAP \in Nat
ASSUME ValuesAssumption ==
  /\ Values \subseteq Nat
  /\ Powers \subseteq Nat \ {0}
  /\ \A v \in Values \ {0} : \E p \in Powers : p <= v /\ v < 10 * p

\* Mutants: colours go by position; slots run past the palette.
MutAssignByPosition(assigned, names) ==
  [name \in Range(names) |-> ((CHOOSE i \in DOMAIN names : names[i] = name) - 1) % Colours]
MutAssignUncapped(assigned, names) ==
  LET new == Range(names) \ DOMAIN assigned
      earlier(name) == {n \in new : \E i \in DOMAIN names :
                          names[i] = n /\ \A j \in 1..i : names[j] # name}
  IN [name \in DOMAIN assigned \cup new |->
        IF name \in DOMAIN assigned THEN assigned[name]
        ELSE Cardinality(DOMAIN assigned) + Cardinality(earlier(name))]

\* useSeriesColors: a name keeps the slot it was first given, and a new one
\* takes the slot after those given so far.
Assign(assigned, names) ==
  LET new == Range(names) \ DOMAIN assigned
      earlier(name) == {n \in new : \E i \in DOMAIN names :
                          names[i] = n /\ \A j \in 1..i : names[j] # name}
  IN [name \in DOMAIN assigned \cup new |->
        IF name \in DOMAIN assigned THEN assigned[name]
        ELSE (Cardinality(DOMAIN assigned) + Cardinality(earlier(name))) % Colours]

\* 1, 2 or 5 times a power of ten.
niceMax(value) ==
  IF value <= 0 THEN 1
  ELSE LET base == CHOOSE p \in Powers : p <= value /\ value < 10 * p
       IN base * Min({step \in {1, 2, 5, 10} : value <= step * base})

y(value, yMax) == Top + PlotH - (value * PlotH) \div yMax

\* The heights at which lines end, given the value each ends at, sorted.
Ends(last, yMax) ==
  LET lines == InOrder(DOMAIN last, {p \in (DOMAIN last) \X (DOMAIN last) :
                 LET one == y(last[p[1]], yMax)
                     two == y(last[p[2]], yMax)
                 IN one < two \/ (one = two /\ p[1] < p[2])})
  IN [k \in DOMAIN lines |-> y(last[lines[k]], yMax)]

\* A mutant: a label gives way to where the one above was, not where it went.
MutPushedDown(ys) ==
  [i \in DOMAIN ys |->
     IF i > 1 /\ ys[i] - ys[i - 1] < MIN_GAP THEN ys[i - 1] + MIN_GAP ELSE ys[i]]

\* Where a label is pushed to by those above it.
PushedDown(ys) ==
  LET at[i \in DOMAIN ys] ==
        IF i > 1 /\ ys[i] - at[i - 1] < MIN_GAP THEN at[i - 1] + MIN_GAP ELSE ys[i]
  IN at

\* layoutLabels: ends are the heights at which the lines end, top to bottom.
layoutLabels(ends) ==
  LET pushed == PushedDown(ends)
      shift == IF ends # <<>> /\ pushed[Len(ends)] > Top + PlotH
               THEN pushed[Len(ends)] - (Top + PlotH) ELSE 0
  IN [i \in DOMAIN ends |-> pushed[i] - shift]

\* A series is its name and its stamps, in order; the pointer is over a stamp
\* of the first series, and reads every series at that index.
ReadAt(series, index) ==
  [i \in DOMAIN series |->
     IF index \in DOMAIN series[i].stamps THEN {series[i].stamps[index]} ELSE {}]
=============================================================================
