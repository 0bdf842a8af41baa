------------------------------- MODULE MCRtsp -------------------------------
(***************************************************************************)
(* An RTSP connection seen from three sides, side by side in one run:      *)
(* machine says which one runs, the others rest where they began.  No step *)
(* of one is combined with a step of another.                              *)
(***************************************************************************)
EXTENDS RtspSession, RtspFront, RtpWire

VARIABLE machine

\* Key frames of two packets, P-frames of one.
MCUnits == {[key |-> TRUE, packets |-> 2], [key |-> FALSE, packets |-> 1]}
\* The sequence numbers are about to wrap.
MCInitSeqs == {6}

rtspVars == <<machine, vars, frontVars, wireVars>>

MCInit ==
  /\ machine \in {"session", "front", "wire"}
  /\ Init /\ (machine # "session" => authed)
  /\ FrontInit /\ (machine # "front" => protected)
  /\ WireInit

MCNext ==
  \/ machine = "session" /\ Next /\ UNCHANGED <<machine, frontVars, wireVars>>
  \/ machine = "front" /\ FrontNext /\ UNCHANGED <<machine, vars, wireVars>>
  \/ machine = "wire" /\ WireNext /\ UNCHANGED <<machine, vars, frontVars>>

MCSpec == MCInit /\ [][MCNext]_rtspVars

(* The type invariant of every machine.                                    *)
MCTypeOK == TypeOK /\ FrontTypeOK /\ WireTypeOK

(* A bridge thread nobody listens to ends, under the fairness its module   *)
(* states (RtspSession).                                                   *)
FairOrphanThreadEnds == machine = "session" /\ Fairness => OrphanThreadEnds
=============================================================================
