-------------------------------- MODULE AnnexB --------------------------------
(***************************************************************************)
(* From the encoder's byte stream to what a browser is sent: the Annex B   *)
(* splitter (src/src/h264/parser.rs) and the media fragment made of its    *)
(* NAL units (src/src/web/fmp4.rs).  The splitter's scan is modelled byte  *)
(* by byte.                                                                *)
(***************************************************************************)
EXTENDS Naturals, Sequences, SequencesExt

CONSTANTS
  Units,     \* NAL units as an encoder makes them, a type byte first
  MaxNals    \* bound: NAL units in a stream

\* No start code inside (emulation prevention), no zero last.
ASSUME NalAssumption ==
  /\ MaxNals \in Nat
  /\ \A u \in Units :
       /\ u \in Seq(0..255) /\ u # <<>> /\ u[Len(u)] # 0
       /\ \A i \in 1..(Len(u) - 2) : ~(u[i] = 0 /\ u[i + 1] = 0 /\ u[i + 2] = 1)

StartCodes == {<<0, 0, 1>>, <<0, 0, 0, 1>>}

VARIABLES
  framed,         \* what the encoder framed: <<start code, NAL unit>> pairs
  data,          \* the stream
  scanAt,         \* find_start_codes: i
  found,          \* and positions, then 0 for "not yet parsed"
  nals,           \* parse's result
  nalStage        \* "scan" | "cut" | "parsed" | "muxed"

\* The fragment: sample bytes, with one element for a four-byte length.
VARIABLES sample, sampleSize, dataOffset

nalVars == <<framed, data, scanAt, found, nals, nalStage, sample, sampleSize, dataOffset>>

NalTypeOK ==
  /\ scanAt \in 0..Len(data) + 1 /\ nalStage \in {"scan", "cut", "parsed", "muxed"}
  /\ \A i \in 1..Len(found) : found[i] \in 0..Len(data) - 1
  /\ sampleSize \in Nat /\ dataOffset \in Nat

NalInit ==
  /\ framed \in UNION {[1..n -> StartCodes \X Units] : n \in 0..MaxNals}
  /\ data = FlattenSeq([i \in DOMAIN framed |-> framed[i][1] \o framed[i][2]])
  /\ scanAt = 0 /\ found = <<>> /\ nals = <<>> /\ nalStage = "scan"
  /\ sample = <<>> /\ sampleSize = 0 /\ dataOffset = 0

At0(i) == data[i + 1]             \* the code counts from 0
Nothing3 == UNCHANGED <<framed, data, sample, sampleSize, dataOffset>>

\* Mutant: a four-byte start code counts from its second zero.
ScanByte_Short ==
  /\ nalStage = "scan" /\ scanAt + 2 < Len(data)
  /\ IF At0(scanAt) = 0 /\ At0(scanAt + 1) = 0 /\ At0(scanAt + 2) = 1
     THEN found' = Append(found, scanAt) /\ scanAt' = scanAt + 3
     ELSE scanAt' = scanAt + 1 /\ UNCHANGED found
  /\ Nothing3 /\ UNCHANGED <<nals, nalStage>>

\* find_start_codes, one turn: a zero before the pattern belongs to the code
ScanByte ==
  /\ nalStage = "scan" /\ scanAt + 2 < Len(data)
  /\ IF At0(scanAt) = 0 /\ At0(scanAt + 1) = 0 /\ At0(scanAt + 2) = 1
     THEN /\ found' = Append(found, IF scanAt > 0 /\ At0(scanAt - 1) = 0
                                    THEN scanAt - 1 ELSE scanAt)
          /\ scanAt' = scanAt + 3
     ELSE scanAt' = scanAt + 1 /\ UNCHANGED found
  /\ Nothing3 /\ UNCHANGED <<nals, nalStage>>

ScanDone ==
  /\ nalStage = "scan" /\ scanAt + 2 >= Len(data) /\ nalStage' = "cut"
  /\ Nothing3 /\ UNCHANGED <<scanAt, found, nals>>

\* parse: from behind a start code to the next, empty units left out
Cut ==
  /\ nalStage = "cut" /\ nalStage' = "parsed"
  /\ LET pos(i) == found[i]
         long(i) == pos(i) + 4 <= Len(data) /\ SubSeq(data, pos(i) + 1, pos(i) + 4) = <<0, 0, 0, 1>>
         start(i) == pos(i) + (IF long(i) THEN 4 ELSE 3)
         end(i) == IF i < Len(found) THEN pos(i + 1) ELSE Len(data)
         cut(i) == SubSeq(data, start(i) + 1, end(i))
     IN nals' = FlattenSeq([i \in DOMAIN found |->
                              IF cut(i) = <<>> THEN <<>> ELSE <<cut(i)>>])
  /\ Nothing3 /\ UNCHANGED <<scanAt, found>>

Type(nal) == nal[1] % 32
IsAud(nal) == Type(nal) = 9

\* extract_sps_pps: the first of a type, or none
FirstOf(type, units) == SelectSeq(units, LAMBDA n : Type(n) = type)

Box(payload) == 8 + payload
FullBox(payload) == 12 + payload
Moof == Box(FullBox(4) + Box(FullBox(4) + FullBox(8) + FullBox(20)))

\* The units of a stream that are not delimiters.
Kept(units) ==
  FlattenSeq([i \in DOMAIN units |-> IF IsAud(units[i]) THEN <<>> ELSE <<units[i]>>])

\* build_media_segment: delimiters are left out, every unit gets its length
Mux ==
  /\ nalStage = "parsed" /\ nalStage' = "muxed"
  /\ LET kept == Kept(nals) IN
       /\ sample' = FlattenSeq([i \in DOMAIN kept |-> <<Len(kept[i])>> \o kept[i]])
       /\ sampleSize' = Len(sample') + 3 * Len(kept)
  /\ dataOffset' = 100 + 8
  /\ UNCHANGED <<framed, data, scanAt, found, nals>>

NalNext == ScanByte \/ ScanDone \/ Cut \/ Mux
NalSpec == NalInit /\ [][NalNext]_nalVars

-----------------------------------------------------------------------------
(* Properties                                                              *)

\* What a decoder makes of a sample: a length, then as many bytes.
ReadByte(state, byte) ==
  IF state.left = 0 THEN [done |-> state.done, open |-> <<>>, left |-> byte]
  ELSE LET open == Append(state.open, byte)
       IN IF state.left = 1
            THEN [done |-> Append(state.done, open), open |-> <<>>, left |-> 0]
            ELSE [done |-> state.done, open |-> open, left |-> state.left - 1]
Decoded(bytes) ==
  FoldLeft(ReadByte, [done |-> <<>>, open |-> <<>>, left |-> 0], bytes)

(* Every stream of NAL units, whatever mix of start codes frames it, is    *)
(* split into exactly those units; a decoder that follows the fragment's   *)
(* offset, size and lengths reads them back, delimiters apart.             *)
UnitsArriveWhole ==
  LET sent == [i \in DOMAIN framed |-> framed[i][2]] IN
    /\ nalStage \in {"parsed", "muxed"} => nals = sent
    /\ nalStage = "muxed" =>
         /\ dataOffset = Moof + 8
         /\ Decoded(sample) = [done |-> Kept(sent), open |-> <<>>, left |-> 0]
         /\ sampleSize = Len(sample) + 3 * Len(Kept(sent))
=============================================================================
