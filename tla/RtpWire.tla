------------------------------ MODULE RtpWire ------------------------------
(***************************************************************************)
(* What one access unit becomes on the wire: access_unit_to_frames and     *)
(* packetize_nalu in src/src/streaming/rtsp.rs.  One session per mount; the*)
(* parameter sets are the server's, one pair per mount.  A NAL unit is a   *)
(* sequence of bytes, the first its header; a byte is a pair <<name, i>>.  *)
(* The clock is the capture time since the session began, in RTP ticks.    *)
(***************************************************************************)
EXTENDS Naturals, Sequences, SequencesExt

CONSTANTS
  Mtu,         \* RTP_MTU, 1400
  SliceSizes,  \* bytes of a slice
  TsMax,       \* u32::MAX
  TsStep,      \* 3000
  Gaps,        \* ticks between two units of a session
  MaxUnits     \* bound: units sent

ASSUME WireAssumption ==
  /\ Mtu \in Nat /\ Mtu > 2 /\ SliceSizes \subseteq Nat \ {0}
  /\ TsMax \in Nat /\ TsStep \in 1..TsMax /\ Gaps \subseteq Nat /\ MaxUnits \in Nat

VARIABLES
  paramSets,   \* Inner: mount -> [sps, pps], <<>> for None
  clock,       \* mount -> ticks since the session began, saturated
  lastTs,      \* mount -> Session.last_ts
  encoded,     \* encoder: mount -> the version of its parameter sets
  sent         \* history: [mount, key, before, nals, packets, ts] of each unit

wireVars == <<paramSets, clock, lastTs, encoded, sent>>

Mounts == {"main", "sub"}

Nal(name, size) == [i \in 1..size |-> <<name, i>>]
Sps(m, v) == Nal(<<"sps", m, v>>, 2)
Pps(m, v) == Nal(<<"pps", m, v>>, 1)
Slice(key, size) == Nal(<<IF key THEN "idr" ELSE "p">>, size)
NalType(nal) == nal[1][1][1]

WireTypeOK ==
  /\ DOMAIN paramSets = Mounts /\ encoded \in [Mounts -> 0..1]
  /\ clock \in [Mounts -> 0..TsMax] /\ lastTs \in [Mounts -> 0..TsMax]
  /\ Len(sent) <= MaxUnits
  /\ \A i \in DOMAIN sent : sent[i].ts \in 0..TsMax /\ sent[i].mount \in Mounts

WireInit ==
  /\ paramSets = [m \in Mounts |-> [sps |-> <<>>, pps |-> <<>>]]
  /\ clock = [m \in Mounts |-> 0] /\ lastTs = [m \in Mounts |-> 0]
  /\ encoded = [m \in Mounts |-> 0]
  /\ sent = <<>>

-----------------------------------------------------------------------------
(* The NAL units of a frame.                                               *)

Smaller(x, y) == IF x < y THEN x ELSE y

\* FU indicator and FU header take two bytes.
FragmentMtu == Mtu - 2

\* Mutant: the end of a payload that divides evenly is not seen.
EndsAt_Strict(offset, payload) == offset + FragmentMtu > Len(payload)
\* is_last: the fragment at this offset is the NAL unit's last one.
EndsAt(offset, payload) == offset + FragmentMtu >= Len(payload)

\* Single-NAL-unit packets, FU-A for what is longer than the MTU.
Packetize(nal) ==
  IF Len(nal) <= Mtu THEN <<[fu |-> FALSE, bytes |-> nal]>>
  ELSE LET payload == Tail(nal)
           fragments == (Len(payload) + FragmentMtu - 1) \div FragmentMtu
           Offset(k) == (k - 1) * FragmentMtu
       IN [k \in 1..fragments |->
             [fu |-> TRUE, header |-> nal[1], start |-> k = 1,
              end |-> EndsAt(Offset(k), payload),
              bytes |-> SubSeq(payload, Offset(k) + 1,
                               Smaller(Offset(k) + FragmentMtu, Len(payload)))]]

\* sps_for and pps_for.
SetsFor(m) == paramSets[m]

Has(nals, type) == \E i \in DOMAIN nals : NalType(nals[i]) = type
Stored(nal, present) == IF nal = <<>> \/ present THEN <<>> ELSE <<nal>>
\* A key frame that brings none gets the stored sets.
Injected(m, key, nals) ==
  IF ~key THEN <<>>
  ELSE Stored(SetsFor(m).sps, Has(nals, "sps"))
       \o Stored(SetsFor(m).pps, Has(nals, "pps"))

\* The unit's own sets are stored for the mount.
Keep(set, nals, type) ==
  LET found == {n \in DOMAIN nals : NalType(nals[n]) = type}
  IN IF found = {} THEN set ELSE nals[Max(found)]

-----------------------------------------------------------------------------
(* The timestamp.                                                          *)

\* u32 arithmetic: prev + 3000 wraps, computed (an f64 cast) saturates.
NextTs(prev, computed) ==
  LET stepped == (prev + TsStep) % (TsMax + 1)
  IN IF stepped > computed THEN stepped ELSE computed

\* is_last_pkt
Marked(nals, n, k) == n = Len(nals) /\ k = Len(Packetize(nals[n]))

\* The packets of the unit, in order.
Frames(nals, ts) ==
  LET Of(n) == LET payloads == Packetize(nals[n])
               IN [k \in DOMAIN payloads |->
                     [payload |-> payloads[k], ts |-> ts,
                      marker |-> Marked(nals, n, k)]]
  IN FlattenSeq([n \in DOMAIN nals |-> Of(n)])

\* A unit of mount m is due, gap ticks after the last one.
SendUnit(m, key, nals, gap) ==
  LET computed == Smaller(clock[m] + gap, TsMax)
      ts == NextTs(lastTs[m], computed)
      all == Injected(m, key, nals) \o nals
  IN /\ Len(sent) < MaxUnits
     /\ clock' = [clock EXCEPT ![m] = computed]
     /\ lastTs' = [lastTs EXCEPT ![m] = ts]
     /\ paramSets' = [paramSets EXCEPT
          ![m] = [sps |-> Keep(@.sps, nals, "sps"), pps |-> Keep(@.pps, nals, "pps")]]
     /\ sent' = Append(sent, [mount |-> m, key |-> key, nals |-> nals,
                              before |-> paramSets[m], ts |-> ts,
                              packets |-> Frames(all, ts)])
     /\ UNCHANGED encoded

\* What an encoder session gives out: a key frame with its parameter sets or
\* without them, a P-frame.  A new encoder session starts with new sets.
EncodedUnit(m) ==
  \E size \in SliceSizes, gap \in Gaps :
    \/ SendUnit(m, FALSE, <<Slice(FALSE, size)>>, gap)
    \/ SendUnit(m, TRUE, <<Slice(TRUE, size)>>, gap)
    \/ SendUnit(m, TRUE, <<Sps(m, encoded[m]), Pps(m, encoded[m]),
                           Slice(TRUE, size)>>, gap)

NewEncoder(m) ==
  /\ encoded[m] = 0
  /\ encoded' = [encoded EXCEPT ![m] = 1]
  /\ UNCHANGED <<paramSets, clock, lastTs, sent>>

WireNext == \E m \in Mounts : EncodedUnit(m) \/ NewEncoder(m)

WireSpec == WireInit /\ [][WireNext]_wireVars

-----------------------------------------------------------------------------
(* Properties.                                                             *)

\* What a receiver puts together (RFC 6184): a packet is a NAL unit, begins
\* one, goes on with it, or is thrown away.  open is the unit being built.
Receive(state, packet) ==
  LET p == packet.payload IN
  IF ~p.fu THEN [done |-> Append(state.done, p.bytes), open |-> <<>>]
  ELSE LET open == IF p.start THEN <<p.header>> \o p.bytes
                   ELSE IF state.open = <<>> THEN <<>> ELSE state.open \o p.bytes
       IN IF p.end /\ open # <<>>
            THEN [done |-> Append(state.done, open), open |-> <<>>]
            ELSE [done |-> state.done, open |-> open]
Reassembled(packets) ==
  FoldLeft(Receive, [done |-> <<>>, open |-> <<>>], packets).done

\* The sets a key frame goes out with: its own, or the last the mount sent.
SetsOf(unit) ==
  Stored(Keep(unit.before.sps, unit.nals, "sps"), FALSE)
    \o Stored(Keep(unit.before.pps, unit.nals, "pps"), FALSE)
SlicesOf(unit) ==
  FlattenSeq([n \in DOMAIN unit.nals |->
                IF NalType(unit.nals[n]) \in {"sps", "pps"} THEN <<>>
                ELSE <<unit.nals[n]>>])

\* j is the next unit of the session of i.
Follows(i, j) ==
  /\ i < j /\ sent[i].mount = sent[j].mount
  /\ \A k \in (i + 1)..(j - 1) : sent[k].mount # sent[i].mount

(* A receiver gets every unit back byte for byte, however its NAL units    *)
(* fall on the MTU (rtsp.rs:1043-1085): the marker ends it and nothing     *)
(* else carries one, all its packets have one timestamp, and a key frame   *)
(* comes with the parameter sets last seen on ITS mount, whichever session *)
(* or encoder brought them; they must never mix (rtsp.rs:174-176).  And it *)
(* gets them in order: a session's timestamps grow strictly, burst or not, *)
(* until the clock or a burst comes within a step of the last u32          *)
(* (rtsp.rs:1586-1600).                                                    *)
UnitsReassemble ==
  \A i \in DOMAIN sent :
    LET unit == sent[i] IN
    /\ Reassembled(unit.packets)
         = (IF unit.key THEN SetsOf(unit) ELSE <<>>) \o SlicesOf(unit)
    /\ \A k \in DOMAIN unit.packets :
         /\ unit.packets[k].marker <=> k = Len(unit.packets)
         /\ unit.packets[k].ts = unit.ts
    /\ \A j \in DOMAIN sent :
         Follows(i, j) /\ unit.ts + TsStep <= TsMax => unit.ts < sent[j].ts

(* rtsp.rs:1586: the timestamps are strictly monotonic.                    *)
TimestampsGrow ==
  \A i, j \in DOMAIN sent : Follows(i, j) => sent[i].ts < sent[j].ts


=============================================================================
