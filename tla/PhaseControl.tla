---------------------------- MODULE PhaseControl ----------------------------
(***************************************************************************)
(* swfactory/phase_control.py: the phase of a search from one observation  *)
(* and the phase before, and the mode recommended for it.  Rates are whole *)
(* numbers of hundredths of a percent, Whole for 1.0; an observation o has *)
(* entropy, coherence, mobility, queue, accel, resource, branching,        *)
(* evidence, context, debt and disagreement.                               *)
(***************************************************************************)
EXTENDS Integers

Whole == 10000
Pc(n) == n * 100                                   \* n percent

Least(a, b)   == IF a <= b THEN a ELSE b
Largest(a, b) == IF a >= b THEN a ELSE b
Clamp(x)      == Least(Whole, Largest(0, x))
Abs(x)        == Largest(x, -x)

\* _signals
Jam(o)        == Least(Whole, (40 * o.queue + 25 * o.resource + 35 * o.debt + 15 * Largest(o.accel, 0)) \div 100)
Order(o)      == Clamp((35 * o.coherence + 35 * o.evidence + 15 * (Whole - o.entropy) + 15 * (Whole - o.disagreement)) \div 100)
Transition(o) == Least(Whole, (50 * o.disagreement + 20 * Abs(o.accel) + 20 * Least((10 * o.branching) \div 15, Whole)
                               + 10 * o.context) \div 100)

\* _raw_phase, test by test
RawJammed(o)  == Jam(o) >= Pc(72) \/ (o.branching >= Pc(125) /\ o.queue >= Pc(65))
RawCrystal(o) == /\ Order(o) >= Pc(85) /\ o.evidence >= Pc(90) /\ o.coherence >= Pc(85) /\ o.entropy <= Pc(25)
                 /\ o.disagreement <= Pc(15) /\ Jam(o) <= Pc(25) /\ o.branching < Whole
RawGlass(o)   == o.entropy <= Pc(40) /\ o.mobility <= Pc(25) /\ o.evidence < Pc(85) /\ o.coherence < Pc(85)
RawGas(o)     == o.entropy >= Pc(70) /\ o.coherence <= Pc(40) /\ o.evidence < Pc(75)

RawPhase(o) ==
  IF RawJammed(o) THEN "jammed" ELSE IF RawCrystal(o) THEN "crystal" ELSE IF RawGlass(o) THEN "glass"
  ELSE IF RawGas(o) THEN "gas"
  ELSE IF Transition(o) >= Pc(55) \/ o.branching >= Whole THEN "critical" ELSE "liquid"

\* _with_hysteresis: the bands in which the phase before is kept.
Sticks(raw, before, o) ==
  \/ /\ before = "crystal" /\ Order(o) >= Pc(78) /\ o.evidence >= Pc(82) /\ o.coherence >= Pc(78)
     /\ o.entropy <= Pc(35) /\ Jam(o) < Pc(45) /\ o.branching < Whole
  \/ before = "jammed" /\ Jam(o) >= Pc(50)
  \/ before = "glass" /\ o.mobility <= Pc(35) /\ o.evidence < Pc(90) /\ o.coherence < Pc(90) /\ Jam(o) < Pc(70)
  \/ before = "gas" /\ raw = "liquid" /\ o.entropy >= Pc(58) /\ o.coherence <= Pc(50) /\ Jam(o) < Pc(55)
  \/ before = "critical" /\ raw = "liquid" /\ Transition(o) >= Pc(40)
  \/ before = "liquid" /\ \/ raw = "gas" /\ o.entropy < Pc(82)
                          \/ raw = "critical" /\ Transition(o) < Pc(68) /\ o.branching < Whole

Phase(before, o) ==
  LET raw == RawPhase(o) IN
  IF before # "none" /\ raw \notin {"crystal", "jammed"} /\ Sticks(raw, before, o) THEN before ELSE raw

\* _mode
Annealable(o) == /\ Order(o) >= Pc(65) /\ o.evidence >= Pc(70) /\ o.entropy <= Pc(50) /\ o.disagreement <= Pc(35)
                 /\ Jam(o) < Pc(45) /\ o.branching < Whole
Mode(phase, o) ==
  CASE phase = "jammed"  -> "drain"
    [] phase = "glass"   -> "perturb"
    [] phase = "crystal" -> "verify"
    [] phase = "gas"     -> "diverge"
    [] OTHER -> IF Annealable(o) THEN "anneal" ELSE IF phase = "critical" THEN "measure" ELSE "coordinate"

=============================================================================
