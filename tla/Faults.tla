-------------------------------- MODULE Faults --------------------------------
(***************************************************************************)
(* The faults a run carries and what they do to the plant's quantities     *)
(* (faults.py), the eight scenarios that put some there before a run       *)
(* starts (scenarios.py), the press they move (curve.py), and the defects  *)
(* a part is decided to have under them (inspection_client.py, noise.py).  *)
(*                                                                         *)
(* Instants are ticks from the run's origin. A ramp moves a quantity by a  *)
(* part of its magnitude, so quantities are fractions <<numerator,         *)
(* denominator>>.                                                          *)
(***************************************************************************)
EXTENDS Integers, Sequences, SequencesExt

CONSTANTS
  Settings,       \* the figures of config.py that scenarios and press read, by their names
  Draw(_, _, _),  \* the uniform of a part, a lane and a class, in 0 .. 99: the stream no fault reaches
  Propensity      \* per carrier, the hundredths its parts' draws fall under

LANES == 1 .. 2
DEFECT_CLASSES == <<"gap", "crack", "misalignment", "missing_part", "scratch", "contamination">>
GAP == "gap"
Classes == ToSet(DEFECT_CLASSES)

Never == -1      \* a fault nobody repairs
Absent == -1000  \* a scope or a ramp nobody gave
NoMagnitude == <<>>
Half == -500     \* one that is no whole number

-----------------------------------------------------------------------------
(* Fractions.                                                                *)

Whole(n) == <<n, 1>>
Plus(x, y) == <<x[1] * y[2] + y[1] * x[2], x[2] * y[2]>>
Times(x, y) == <<x[1] * y[1], x[2] * y[2]>>
Under(x, y) == x[1] * y[2] < y[1] * x[2]
Power(x, n) == <<x[1] ^ n, x[2] ^ n>>

-----------------------------------------------------------------------------
(* What each kind of fault modifies, and how.                                *)

Scales(quantity, scope, required, classes) ==
  [quantity |-> quantity, form |-> "scale", scope |-> scope, required |-> required, classes |-> classes]
Offsets(quantity, scope, required) ==
  [quantity |-> quantity, form |-> "offset", scope |-> scope, required |-> required, classes |-> {}]

Specs ==
  [feeder_starvation |-> Scales("lane_fill", "lane", FALSE, {}),
   outfeed_blockage |-> Offsets("outfeed_fill", "none", FALSE),
   joining_force_drift |-> Offsets("joining_clamp_force", "none", FALSE),
   carrier_wear |-> Scales("defect_propensity", "carrier", TRUE, {"misalignment", "scratch"}),
   lane_contamination |-> Scales("defect_propensity", "lane", TRUE, {"missing_part", "contamination"}),
   optics_fouling |-> Scales("optics_clarity", "none", FALSE, {}),
   undersized_components |-> Offsets("press_contact", "lane", TRUE)]

Kinds == DOMAIN Specs

\* A fault; its parameters are a magnitude, which is a fraction, a scope and a ramp.
Fault(kind, at, until, magnitude, scope, ramp) ==
  [kind |-> kind, at |-> at, until |-> until, magnitude |-> magnitude, scope |-> scope, ramp |-> ramp]

\* Fault.__post_init__ lets it pass.
Valid(f) ==
  LET spec == Specs[f.kind] IN
  /\ f.at >= 0 /\ (f.until # Never => f.until > f.at)
  /\ f.scope # Absent => spec.scope # "none" /\ f.scope # Half
  /\ f.magnitude # NoMagnitude
  /\ spec.required => f.scope # Absent
  /\ f.ramp # Absent => f.ramp >= 0
  /\ spec.form = "scale" => ~Under(f.magnitude, Whole(0))

\* Half-open: a fault is over at the instant of its repair.
Active(f, at) == at >= f.at /\ (f.until # Never => at < f.until)

\* context: the carrier, the lane and the class a quantity is modified for.
InScope(f, context) ==
  LET spec == Specs[f.kind] IN
  /\ spec.classes # {} => context.class \in spec.classes
  /\ spec.scope # "none" /\ f.scope # Absent => f.scope = context[spec.scope]

Progress(f, elapsed) ==
  IF f.ramp \in {Absent, 0} \/ elapsed >= f.ramp THEN Whole(1) ELSE <<elapsed, f.ramp>>

Apply(f, elapsed, value) ==
  IF Specs[f.kind].form = "scale"
  THEN Times(value, Plus(Whole(1), Times(Plus(f.magnitude, Whole(-1)), Progress(f, elapsed))))
  ELSE Plus(value, Times(f.magnitude, Progress(f, elapsed)))

\* What the plant asks: a quantity at an instant, under every fault that acts, in their order.
Modify(faults, quantity, value, at, context) ==
  LET acts(f) == Specs[f.kind].quantity = quantity /\ Active(f, at) /\ InScope(f, context)
  IN FoldLeft(LAMBDA v, f : Apply(f, at - f.at, v), value, SelectSeq(faults, acts))

NoContext == [lane |-> Absent]

-----------------------------------------------------------------------------
(* The scenarios a run may start with.                                       *)

LotWindow(index) == [from |-> index * Settings.lot_size, to |-> (index + 1) * Settings.lot_size]

FeederStarvation ==
  Fault("feeder_starvation", Settings.scenario_warmup,
        Settings.scenario_warmup + Settings.feeder_starvation, Settings.feeder_starvation_factor, Absent, Absent)
OutfeedBlockage ==
  Fault("outfeed_blockage", Settings.scenario_warmup, Settings.scenario_warmup + Settings.outfeed_blockage,
        Settings.outfeed_blockage_parts, Absent, Settings.outfeed_blockage_ramp)
JoiningForceDrift ==
  Fault("joining_force_drift", Settings.scenario_warmup, Never, Settings.joining_force_drift_newtons, Absent,
        Settings.joining_force_drift_ramp)
CarrierWear ==
  Fault("carrier_wear", Settings.scenario_warmup, Never, Settings.carrier_wear_factor, Settings.worn_carrier_id,
        Absent)
LaneContamination ==
  Fault("lane_contamination", Settings.scenario_warmup, Never, Settings.lane_contamination_factor,
        Settings.contaminated_lane, Absent)
OpticsFouling ==
  Fault("optics_fouling", Settings.scenario_warmup, Never, Settings.optics_fouling_factor, Absent,
        Settings.optics_fouling_ramp)
BadLot ==
  LET w == LotWindow(Settings.bad_lot_index)
  IN Fault("undersized_components", w.from, w.to, Settings.undersized_component_mm, Settings.bad_lot_lane, Absent)
DefectiveComponent ==
  LET start == Settings.scenario_warmup + Settings.defective_component_offset
  IN Fault("undersized_components", start, start + Settings.takt, Settings.defective_component_mm,
           Settings.bad_lot_lane, Absent)

Builders == <<FeederStarvation, OutfeedBlockage, JoiningForceDrift, CarrierWear, LaneContamination,
              OpticsFouling, BadLot, DefectiveComponent>>

NO_SCENARIO == 0

\* The fault set a run of this scenario starts with.
FaultSet(scenario) == IF scenario = NO_SCENARIO THEN <<>> ELSE <<Builders[scenario]>>

-----------------------------------------------------------------------------
(* The press.                                                                *)

\* One lane after the other moves the point the ram meets the part at.
Contact(faults, at) ==
  FoldLeft(LAMBDA mm, lane : Modify(faults, "press_contact", mm, at, [lane |-> lane]),
           Whole(Settings.press_contact_nominal), <<1, 2>>)

Clamp(faults, at) ==
  Modify(faults, "joining_clamp_force", Whole(Settings.joining_force_nominal), at, NoContext)

\* force_distance refuses a press that could not be.
Presses(clamp, contact) ==
  /\ Under(Whole(0), clamp) /\ ~Under(contact, Whole(0))
  /\ Under(Plus(contact, Times(clamp, <<1, Settings.press_stiffness_nominal>>)),
           Whole(Settings.joining_distance_nominal))

\* The area under the curve, without its noise.
WorkOf(clamp, contact) ==
  Times(clamp, Plus(Plus(Whole(Settings.joining_distance_nominal), Times(Whole(-1), contact)),
                    Times(clamp, <<-1, 2 * Settings.press_stiffness_nominal>>)))

NominalWork == WorkOf(Whole(Settings.joining_force_nominal), Whole(Settings.press_contact_nominal))

-----------------------------------------------------------------------------
(* The defects a part has.                                                   *)

\* A joint that took less work gapes more readily.
GapScale(work) == Power(<<NominalWork[1] * work[2], NominalWork[2] * work[1]>>, Settings.gap_work_exponent)

\* truth_by_lane: every draw that falls under its threshold, capped at certainty.
TruthByLane(faults, part, carrier, work, at) ==
  LET threshold(lane, class) ==
        Modify(faults, "defect_propensity",
               Times(<<Propensity[carrier], 100>>, IF class = GAP THEN GapScale(work) ELSE Whole(1)),
               at, [carrier |-> carrier, lane |-> lane, class |-> class])
  IN {d \in LANES \X Classes : Under(<<Draw(part, d[1], d[2]), 100>>, threshold(d[1], d[2]))}

\* truth_for: the lanes dropped.
ClassesOf(defects) == {d[2] : d \in defects}

\* The camera's contrast, 1 through a clean lens; render_part takes nothing above it.
Clarity(faults, at) == Modify(faults, "optics_clarity", Whole(1), at, NoContext)
Renders(clarity) == ~Under(clarity, Whole(0)) /\ ~Under(Whole(1), clarity)
=============================================================================
