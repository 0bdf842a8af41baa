------------------------------ MODULE MCMedia ------------------------------
(***************************************************************************)
(* The machines a picture passes on its way from the sensor to a browser or*)
(* a file, side by side in one run: machine says which one runs, the others*)
(* rest where they began.  No step of one is combined with a step of       *)
(* another.                                                                *)
(***************************************************************************)
EXTENDS ImageGeometry, CameraSource, M2mEncoder, AnnexB, MseStream, MseClock,
        Recorder, RecordingStore

VARIABLE machine

\* Parameter sets, a delimiter, slices; one with an emulation prevention byte.
MCNals == {<<7, 0, 1>>, <<8>>, <<9, 1>>, <<5, 0, 0, 3, 1>>, <<1, 1>>}

mediaVars == <<machine, geoVars, camVars, m2mVars, nalVars, mseVars, clockVars,
               recVars, storeVars>>

MCInit ==
  /\ machine \in {"geometry", "camera", "m2m", "annexb", "mse", "clock",
                  "recorder", "store"}
  /\ GeoInit
  /\ machine # "geometry" =>
       rotation = 0 /\ mirror = 0 /\ captured = <<2, 2>>
  /\ CamInit /\ (machine # "camera" => encoderKind = "software")
  /\ M2mInit
  /\ NalInit /\ (machine # "annexb" => framed = <<>>)
  /\ MseInit /\ ClockInit /\ RecInit /\ StoreInit

MCNext ==
  \/ /\ machine = "geometry" /\ GeoNext
     /\ UNCHANGED <<machine, camVars, m2mVars, nalVars, mseVars, clockVars,
                    recVars, storeVars>>
  \/ /\ machine = "camera" /\ CamNext
     /\ UNCHANGED <<machine, geoVars, m2mVars, nalVars, mseVars, clockVars,
                    recVars, storeVars>>
  \/ /\ machine = "m2m" /\ M2mNext
     /\ UNCHANGED <<machine, geoVars, camVars, nalVars, mseVars, clockVars,
                    recVars, storeVars>>
  \/ /\ machine = "annexb" /\ NalNext
     /\ UNCHANGED <<machine, geoVars, camVars, m2mVars, mseVars, clockVars,
                    recVars, storeVars>>
  \/ /\ machine = "mse" /\ MseNext
     /\ UNCHANGED <<machine, geoVars, camVars, m2mVars, nalVars, clockVars,
                    recVars, storeVars>>
  \/ /\ machine = "clock" /\ ClockNext
     /\ UNCHANGED <<machine, geoVars, camVars, m2mVars, nalVars, mseVars,
                    recVars, storeVars>>
  \/ /\ machine = "recorder" /\ RecNext
     /\ UNCHANGED <<machine, geoVars, camVars, m2mVars, nalVars, mseVars,
                    clockVars, storeVars>>
  \/ /\ machine = "store" /\ StoreNext
     /\ UNCHANGED <<machine, geoVars, camVars, m2mVars, nalVars, mseVars,
                    clockVars, recVars>>

MCSpec == MCInit /\ [][MCNext]_mediaVars

(* The type invariant of every machine.                                    *)
MCTypeOK ==
  /\ GeoTypeOK /\ CamTypeOK /\ M2mTypeOK /\ NalTypeOK
  /\ MseTypeOK /\ ClockTypeOK /\ RecTypeOK /\ StoreTypeOK

(* A recording holds all it was handed, in segments that follow each other *)
(* without a gap of their own (Recorder).                                  *)
RecordingsWhole == Conserved /\ SegmentsTile

(* The directory, its index and the footprint counter agree as far as the  *)
(* code can keep them, and a sweep gives up the oldest first               *)
(* (RecordingStore).                                                       *)
DirectorySound == FootprintExact /\ IndexNamesFiles /\ OldestFirst

(* The liveness properties of the machines, each under the fairness its    *)
(* module states.  The hardware camera source recovers and a forced IDR    *)
(* comes (CameraSource); and the threads somebody else waits for end: the  *)
(* poller of an encoder that is dropped (M2mEncoder), the bridge of a      *)
(* browser connection that was closed (MseStream), and the bridge of a     *)
(* recording that is being stopped (Recorder).                             *)
FairMedia ==
  /\ machine = "camera" /\ CamFairness => HardwareRecovers /\ ForcedIdrComes
  /\ machine = "m2m" /\ M2mFairness => EncoderDrops
  /\ machine = "mse" /\ MseFairness => BridgeExits
  /\ machine = "recorder" /\ RecFairness => StopCompletes
=============================================================================
