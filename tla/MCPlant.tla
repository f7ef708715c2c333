------------------------------ MODULE MCPlant ------------------------------
(* The instance of Plant that TLC checks. *)
EXTENDS Plant

MCSettings ==
  [takt |-> 1, scenario_warmup |-> 1, lot_size |-> 2, lane_capacity |-> 4, outfeed_capacity |-> 4,
   feeder_starvation |-> 1, feeder_starvation_factor |-> <<0, 1>>,
   outfeed_blockage |-> 3, outfeed_blockage_parts |-> <<5, 1>>, outfeed_blockage_ramp |-> 2,
   joining_force_drift_newtons |-> <<-2, 1>>, joining_force_drift_ramp |-> 2,
   carrier_wear_factor |-> <<6, 1>>, worn_carrier_id |-> 1,
   lane_contamination_factor |-> <<6, 1>>, contaminated_lane |-> 2,
   optics_fouling_factor |-> <<1, 2>>, optics_fouling_ramp |-> 2,
   bad_lot_index |-> 1, bad_lot_lane |-> 1, undersized_component_mm |-> <<2, 1>>,
   defective_component_offset |-> 1, defective_component_mm |-> <<2, 1>>,
   press_contact_nominal |-> 8, press_stiffness_nominal |-> 4, joining_force_nominal |-> 4,
   joining_distance_nominal |-> 12, gap_work_exponent |-> 2]

\* Parts differ in how near they come to their thresholds; every third one is defective anyway.
MCDraw(part, lane, class) ==
  IF part % 3 = 2 /\ class = "crack" THEN 0
  ELSE IF class = GAP THEN 3 ELSE IF class = "contamination" THEN 7 ELSE IF class = "scratch" THEN 9 ELSE 50

MCPropensity == [c \in 0 .. 1 |-> 2]

Request(kind, magnitude, scope, ramp, duration) ==
  [kind |-> kind, magnitude |-> magnitude, scope |-> scope, ramp |-> ramp, duration |-> duration]
MCRequests ==
  {Request("lane_contamination", <<5, 1>>, 2, Absent, 2),
   Request("optics_fouling", <<2, 1>>, Absent, Absent, Never),
   Request("undersized_components", <<2, 1>>, 1, 0, Never),
   Request("joining_force_drift", NoMagnitude, Absent, Absent, Never),
   Request("carrier_wear", <<5, 1>>, Half, Absent, 2)}
=============================================================================
