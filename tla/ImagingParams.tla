---------------------------- MODULE ImagingParams ----------------------------
(***************************************************************************)
(* ParamManager (src/src/camera/params.rs): the imaging parameters by      *)
(* their ONVIF names, normalised to [0, 1], over V4L2 controls that have   *)
(* integer ranges of their own.  The manager holds no lock: a caller's set *)
(* and get are separate calls, and others may write the controls between   *)
(* them.  Nothing in the program makes a manager yet; the controls are     *)
(* those of the code's in-memory device.                                   *)
(*                                                                         *)
(* A normalised value is a whole number of parts of 1, Parts to the whole. *)
(***************************************************************************)
EXTENDS Integers, FiniteSets

CONSTANTS
  ParamDefs,      \* the controls' ranges and defaults, by name
  Parts,          \* steps of the values callers set
  MaxControlOps   \* bound: calls made

ASSUME ParamAssumption ==
  /\ Parts \in Nat \ {0} /\ MaxControlOps \in Nat
  /\ \A name \in DOMAIN ParamDefs : LET r == ParamDefs[name] IN
       r.min \in Int /\ r.max \in Int /\ r.default \in r.min .. r.max

VARIABLES
  controls,       \* the device's integers, by control
  wanted,         \* the value set last, Untouched when others wrote since
  controlOps

paramVars == <<controls, wanted, controlOps>>

Untouched == -1

Limits(min, max, default) == [min |-> min, max |-> max, default |-> default]

\* default_param_defs, which MockV4l2Control::new repeats
DefaultParamDefs ==
  [Brightness |-> Limits(-255, 255, 0), Contrast |-> Limits(0, 255, 127),
   Saturation |-> Limits(0, 255, 127), Sharpness |-> Limits(0, 255, 0),
   WhiteBalance |-> Limits(0, 1, 1), Exposure |-> Limits(0, 3, 0)]

Names == DOMAIN ParamDefs
Span(r) == r.max - r.min

\* what a value that is read is a fraction of
Denominator(r) == IF Span(r) = 0 THEN 2 ELSE Span(r)

\* f64::round: halves away from zero
Round(n, d) == IF n >= 0 THEN (2 * n + d) \div (2 * d) ELSE -((d - 2 * n) \div (2 * d))

\* Mutant: the cast alone, towards zero
NormalizedToV4l2_Cast(norm, r) ==
  LET val == r.min * Parts + norm * Span(r)
  IN IF val >= 0 THEN val \div Parts ELSE -((-val) \div Parts)

NormalizedToV4l2(norm, r) == Round(r.min * Parts + norm * Span(r), Parts)

\* as a numerator, kept in [0, 1]; a control of one value reads one half
V4l2ToNormalized(value, r) ==
  IF Span(r) = 0 THEN 1
  ELSE IF value < r.min THEN 0 ELSE IF value > r.max THEN Span(r) ELSE value - r.min

(* Type invariant.                                                         *)
ParamTypeOK ==
  /\ controls \in [Names -> Int] /\ controlOps \in 0 .. MaxControlOps
  /\ wanted \in [Names -> 0 .. Parts \cup {Untouched}]

ParamInit ==
  /\ controls = [n \in Names |-> ParamDefs[n].default]
  /\ wanted = [n \in Names |-> Untouched] /\ controlOps = 0

\* set_param and s_ctrl: out of [0, 1] it is refused before the device.
SetParam ==
  /\ \E name \in Names, value \in -1 .. Parts + 1 :
       IF value \in 0 .. Parts
       THEN /\ controls' = [controls EXCEPT ![name] = NormalizedToV4l2(value, ParamDefs[name])]
            /\ wanted' = [wanted EXCEPT ![name] = value]
       ELSE UNCHANGED <<controls, wanted>>

\* Another program, or set_raw, which checks no range.
SetRaw ==
  \E name \in Names : \E value \in {ParamDefs[name].min - 1, ParamDefs[name].max} :
    /\ controls' = [controls EXCEPT ![name] = value]
    /\ wanted' = [wanted EXCEPT ![name] = Untouched]

ParamNext ==
  controlOps < MaxControlOps /\ controlOps' = controlOps + 1 /\ (SetParam \/ SetRaw)

ParamSpec == ParamInit /\ [][ParamNext]_paramVars

\* get_param, and current in list_params
GetParam(name) == V4l2ToNormalized(controls[name], ParamDefs[name])

-----------------------------------------------------------------------------
(* What was set is read back to half a step of the control, at both ends   *)
(* exactly (a control of one value reads one half whatever was set), and   *)
(* setting it once more, as a client does that writes back what it read,   *)
(* changes nothing: the value does not creep.                              *)
ParamsReadBack ==
  \A name \in Names : LET r == ParamDefs[name] IN
    /\ wanted[name] # Untouched /\ Span(r) # 0 =>
         /\ 2 * (GetParam(name) * Parts - wanted[name] * Span(r)) \in -Parts .. Parts
         /\ wanted[name] = 0 => GetParam(name) = 0
         /\ wanted[name] = Parts => GetParam(name) = Span(r)
    /\ controls[name] \in r.min .. r.max =>
         Round(r.min * Denominator(r) + GetParam(name) * Span(r), Denominator(r))
           = controls[name]
=============================================================================
