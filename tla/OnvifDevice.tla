----------------------------- MODULE OnvifDevice -----------------------------
(***************************************************************************)
(* The ONVIF device: wire_onvif_server registers the faces of the library  *)
(* in one map from action names to handlers (src/src/onvif_glue.rs), and a *)
(* request comes straight to its port or through the web port's proxy      *)
(* (src/src/web/server.rs).  What the library itself does with a handler   *)
(* map, a filter and a request is external, modelled from how the wiring   *)
(* and its tests use it.                                                   *)
(*                                                                         *)
(* Three names belong to several services; which face answers them is a    *)
(* matter of the order of the registrations.                               *)
(***************************************************************************)
EXTENDS Integers, Sequences, SequencesExt, FiniteSets

CONSTANTS
  Hosts,          \* the configurations the device may start with
  MaxSoap,        \* bound: requests served between two starts
  MaxStarts,      \* bound: starts of the process
  AddressBits     \* stands for the 32 bits of an address

Nowhere == "none"
Peers == 0 .. 2 ^ AddressBits - 1
Loopback == 2 ^ AddressBits - 1  \* stands for 127.0.0.1

VARIABLES
  host,           \* the [onvif] section and what the camera came up with
  onvif,          \* what wire_onvif_server built and the faces share
  soap, starts,
  answer,         \* the last request and its answer
  refiltered      \* a listed peer has changed the filter (history)

onvifVars == <<host, onvif, soap, starts, answer, refiltered>>

(***************************************************************************)
(* The allow-list.  An entry is a pair of an address and a prefix length,  *)
(* or blank; a list of blanks installs nothing.  The configuration was     *)
(* validated when it was loaded, so that no entry is malformed here.       *)
(***************************************************************************)
Blank == [addr |-> 0, prefix |-> -1]

AllowEntry == [addr : Peers, prefix : 0 .. AddressBits] \cup {Blank}

\* Config::validate refuses any other entry before a host starts with it.
ASSUME HostsAssumption ==
  /\ AddressBits \in Nat /\ MaxSoap \in Nat /\ MaxStarts \in Nat \ {0}
  /\ \A h \in Hosts : h.entries \in Seq(AllowEntry)

ParseIpFilter(entries) ==
  LET parsed == ToSet(entries) \ {Blank}
  IN IF parsed = {} THEN Nowhere ELSE "installed"

Entries(entries) == ToSet(entries) \ {Blank}

\* as a prefix compared by the bits it does not cover
Matches_LowBits(peer, e) ==
  peer % (2 ^ e.prefix) = e.addr % (2 ^ e.prefix)

Matches(peer, e) ==
  peer \div (2 ^ (AddressBits - e.prefix))
    = e.addr \div (2 ^ (AddressBits - e.prefix))

Admitted(peer) ==
  onvif.filter.on => \E e \in onvif.filter.entries : Matches(peer, e)

(***************************************************************************)
(* The handler map.  `bare` answers a body as it is, `shaped` one that     *)
(* carries a VideoSourceToken or the imaging name space.                   *)
(***************************************************************************)
DeviceActions == {"GetServices", "GetSystemDateAndTime",
                  "SetSystemDateAndTime", "SystemReboot",
                  "SetSystemFactoryDefault", "SetIPAddressFilter"}
SharedActions == {"GetStatus", "Stop", "GetServiceCapabilities"}
PtzActions == {"ContinuousMove"} \cup SharedActions
MediaActions == {"GetProfiles", "SetVideoEncoderConfiguration",
                 "SetSynchronizationPoint", "GetServiceCapabilities"}
ImagingActions == {"GetImagingSettings", "SetImagingSettings"}
                    \cup SharedActions
Actions == DeviceActions \cup PtzActions \cup MediaActions \cup ImagingActions

NoFace == [bare |-> Nowhere, shaped |-> Nowhere]

Register(map, face, names) ==
  [a \in Actions |-> IF a \in names THEN [bare |-> face, shaped |-> face]
                     ELSE map[a]]

\* The imaging face takes a name over and keeps what was there as fallback.
RegisterImaging(map) ==
  [a \in Actions |->
     IF a \notin ImagingActions THEN map[a]
     ELSE [bare |-> IF map[a].bare = Nowhere THEN "imaging" ELSE map[a].bare,
           shaped |-> "imaging"]]

\* as PTZ registered once more, after the faces that share its names
Wired_PtzLast(h) ==
  Register(RegisterImaging(
    Register([a \in Actions |-> NoFace], "media", MediaActions)),
    "ptz", PtzActions)

\* Device (unless the library rejects the identity), PTZ, media, imaging.
Wired(h) ==
  LET bare   == [a \in Actions |-> NoFace]
      device == IF h.identity THEN Register(bare, "device", DeviceActions)
                ELSE bare
  IN RegisterImaging(Register(Register(device, "ptz", PtzActions),
                              "media", MediaActions))

(***************************************************************************)
(* A start of the process: everything the faces share is built anew from   *)
(* the configuration.  `imaging` is in quarters, `encoder` is the media    *)
(* store's and `runs` the capture pipeline's.                              *)
(***************************************************************************)
Built(h) ==
  [handlers |-> Wired(h),
   open     |-> {"GetSystemDateAndTime", "GetServices"},
   routes   |-> {r \in {"events", "media2"} : h[r]},
   filter   |-> [on |-> ParseIpFilter(h.entries) # Nowhere,
                 entries |-> Entries(h.entries)],
   imaging  |-> [p \in {"Brightness", "Contrast"} |-> 2],
   encoder  |-> h.encoder, runs |-> h.encoder,
   observed |-> [clock |-> 0, reboot |-> 0, reset |-> 0],
   idr      |-> FALSE]

Nothing == [action |-> Nowhere]

Restarts ==
  /\ starts < MaxStarts /\ starts' = starts + 1
  /\ onvif' = Built(host) /\ soap' = 0
  /\ answer' = Nothing /\ refiltered' = FALSE
  /\ UNCHANGED host

(***************************************************************************)
(* A request.  The filter comes before the credentials, the credentials    *)
(* before the handler.  An empty password has always meant no              *)
(* authentication.                                                         *)
(***************************************************************************)
Authorized(r) == \/ r.action \in onvif.open
                 \/ host.password = "" \/ r.password = host.password

Face(r) == IF r.shaped THEN onvif.handlers[r.action].shaped
           ELSE onvif.handlers[r.action].bare

Status(r) ==
  IF ~Admitted(r.peer) THEN 403
  ELSE IF r.media2 /\ "media2" \notin onvif.routes THEN 404
  ELSE IF ~Authorized(r) THEN 401
  ELSE IF Face(r) = Nowhere THEN 400 ELSE 200

\* ImagingGlue::set_param refuses what is not in [0, 1].
InRange(v) == v \in 0 .. 4

\* DeviceHooksGlue and ImagingGlue: what an answered request changes.  The
\* hooks for the clock, a reboot and a reset only take note.
Effect(r) ==
  LET is(a, f) == r.action = a /\ Face(r) = f
  IN CASE is("SetSystemDateAndTime", "device") ->
            [onvif EXCEPT !.observed.clock = r.value]
       [] is("SystemReboot", "device") ->
            [onvif EXCEPT !.observed.reboot = @ + 1]
       [] is("SetSystemFactoryDefault", "device") ->
            [onvif EXCEPT !.observed.reset = @ + 1]
       [] is("SetIPAddressFilter", "device") /\ onvif.filter.on ->
            [onvif EXCEPT !.filter.entries =
               {[addr |-> r.value, prefix |-> AddressBits]}]
       [] is("SetImagingSettings", "imaging") /\ InRange(r.value) ->
            [onvif EXCEPT !.imaging.Brightness = r.value]
       [] is("SetVideoEncoderConfiguration", "media") ->
            [onvif EXCEPT !.encoder = r.value]
       [] is("SetSynchronizationPoint", "media") ->
            [onvif EXCEPT !.idr = TRUE]
       [] OTHER -> onvif

Values(a) == IF a \in {"SetSystemDateAndTime", "SetImagingSettings",
                       "SetVideoEncoderConfiguration", "SetIPAddressFilter"}
             THEN {1, 5} ELSE {0}

\* Through the web port the request is the proxy's own: it comes from the
\* loopback address, and always to the device service's path.
Requests ==
  {r \in [action : Actions, shaped : BOOLEAN, peer : Peers, media2 : BOOLEAN,
          password : {"", "right"}, value : {0, 1, 5}, web : BOOLEAN] :
     /\ r.value \in Values(r.action)
     /\ r.shaped => r.action \in ImagingActions
     /\ r.media2 => r.action \in MediaActions /\ ~r.web
     /\ r.web => r.peer = Loopback}

Serves ==
  /\ soap < MaxSoap /\ soap' = soap + 1
  /\ \E r \in Requests :
       LET ok == Status(r) = 200
       IN /\ onvif' = IF ok THEN Effect(r) ELSE onvif
          /\ answer' = [action |-> r.action, shaped |-> r.shaped,
                        peer |-> r.peer, known |-> r.password = host.password,
                        status |-> Status(r),
                        face |-> IF ok THEN Face(r) ELSE Nowhere]
  /\ refiltered' = (refiltered \/ onvif'.filter # onvif.filter)
  /\ UNCHANGED <<host, starts>>

\* The camera takes the request for a keyframe.
TakesLatch ==
  /\ onvif.idr /\ onvif' = [onvif EXCEPT !.idr = FALSE]
  /\ UNCHANGED <<host, soap, starts, answer, refiltered>>

OnvifInit ==
  /\ host \in Hosts /\ onvif = Built(host)
  /\ soap = 0 /\ starts = 1 /\ answer = Nothing /\ refiltered = FALSE

OnvifNext == Serves \/ TakesLatch \/ Restarts

OnvifSpec == OnvifInit /\ [][OnvifNext]_onvifVars

-----------------------------------------------------------------------------
OnvifTypeOK ==
  /\ host \in Hosts /\ soap \in 0 .. MaxSoap /\ starts \in 1 .. MaxStarts
  /\ DOMAIN onvif.handlers = Actions
  /\ \A p \in DOMAIN onvif.imaging : InRange(onvif.imaging[p])
  /\ onvif.observed.reboot \in 0 .. MaxSoap /\ onvif.idr \in BOOLEAN

\* Every answer comes from the service the request is about, whatever the
\* other services that know its name: an imaging body from imaging, a bare
\* GetStatus or Stop from PTZ, the bare capabilities from media, and a device
\* action from the device service or, when its identity was rejected, from
\* nobody.
RoutedByShape ==
  answer # Nothing /\ answer.face # Nowhere =>
    answer.face =
      IF answer.action \in ImagingActions /\ answer.shaped THEN "imaging"
      ELSE IF answer.action \in {"GetStatus", "Stop", "ContinuousMove"} THEN "ptz"
      ELSE IF answer.action \in MediaActions THEN "media"
      ELSE IF answer.action \in DeviceActions THEN "device"
      ELSE "imaging"

\* The addresses that share an entry's prefix.
Covers(e, peer) ==
  \E low \in Peers : LET size == 2 ^ (AddressBits - e.prefix)
                     IN low < size /\ peer = low + (e.addr \div size) * size

\* Until a listed peer with the password changes the list, a peer is answered
\* only when a configured entry covers its address; and however many requests
\* were made before it, only the actions a client needs to find out how to
\* sign in are answered without the password.
ListedPeersOnly ==
  answer # Nothing /\ answer.status = 200 =>
    /\ (Entries(host.entries) # {} /\ ~refiltered) =>
         \E e \in Entries(host.entries) : Covers(e, answer.peer)
    /\ host.password # "" /\ ~answer.known =>
         answer.action \in {"GetSystemDateAndTime", "GetServices"}

OnvifSound == RoutedByShape /\ ListedPeersOnly
=============================================================================
