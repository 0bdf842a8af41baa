----------------------------- MODULE RtspFront -----------------------------
(***************************************************************************)
(* The request side of one RTSP connection (handle_connection,             *)
(* parse_rtsp_request and handle_rtsp_request in                           *)
(* src/src/streaming/rtsp.rs): what one read() of the TCP stream returns   *)
(* is taken for one message, whatever it holds, and who is let in.         *)
(*                                                                         *)
(* The client sends requests, one after the other or pipelined, and, while *)
(* it plays, interleaved RTCP reports.  Every message travels in two       *)
(* pieces, so a read may return half a message, one, or several.  A client *)
(* that was challenged answers with the nonce of the challenge.            *)
(***************************************************************************)
EXTENDS Naturals, Sequences, SequencesExt

CONSTANTS
  Methods,       \* requests the client makes
  MaxMessages    \* bound: messages the client sends

ASSUME MethodsAssumption == Methods \subseteq
  {"OPTIONS", "DESCRIBE", "SETUP", "PLAY", "TEARDOWN", "RECORD"}
ASSUME MaxMessagesAssumption == MaxMessages \in Nat

VARIABLES
  protected,    \* is_auth_configured
  messages,     \* messages[i]: what the client sent, i is its CSeq
  wire,         \* pieces not read yet, <<message, part>>
  hasAuth,      \* has_auth
  hasSession,   \* session_id is set and the server knows it
  answers,      \* the answers, [cseq, status]; CSeq 0: to nobody
  whole,        \* requests a read began with and held in full (history)
  unbound       \* SETUPs whose UDP socket could not be bound (history)

frontVars == <<protected, messages, wire, hasAuth, hasSession, answers, whole,
               unbound>>

\* Wrong ones are like none.
Credentials == {"none", "basic", "digest"}
Guarded == {"DESCRIBE", "SETUP", "PLAY"}

(* Type invariant.                                                         *)
FrontTypeOK ==
  /\ messages \in Seq([method : Methods \cup {"RTCP"}, cred : Credentials])
  /\ Len(messages) <= MaxMessages
  /\ ToSet(wire) \subseteq (DOMAIN messages) \X {1, 2}
  /\ protected \in BOOLEAN /\ hasAuth \in BOOLEAN /\ hasSession \in BOOLEAN
  /\ answers \in Seq([cseq : 0..Len(messages), status : Nat])
  /\ whole \subseteq DOMAIN messages /\ unbound \subseteq whole

FrontInit ==
  /\ protected \in BOOLEAN
  /\ messages = <<>> /\ wire = <<>> /\ answers = <<>>
  /\ hasAuth = FALSE /\ hasSession = FALSE /\ whole = {} /\ unbound = {}

-----------------------------------------------------------------------------
(* The client.                                                             *)

Challenged == \E i \in DOMAIN answers : answers[i].status = 401

Send(method, cred) ==
  /\ Len(messages) < MaxMessages
  /\ cred # "none" => method \in Guarded
  /\ cred = "digest" => Challenged
  /\ messages' = Append(messages, [method |-> method, cred |-> cred])
  /\ wire' = wire \o <<<<Len(messages'), 1>>, <<Len(messages'), 2>>>>
  /\ UNCHANGED <<protected, hasAuth, hasSession, answers, whole, unbound>>

ClientStep ==
  \/ \E method \in Methods, cred \in Credentials : Send(method, cred)
  \/ hasSession /\ Send("RTCP", "none")

-----------------------------------------------------------------------------
(* The server: one read, one message.                                      *)

\* check_basic_auth, or check_digest_auth against the nonce "": a response
\* computed from the nonce of the challenge never matches.
Proves(cred) == cred = "basic"

Admitted(cred) == ~protected \/ hasAuth \/ Proves(cred)

Answer(cseq, status) ==
  answers' = Append(answers, [cseq |-> cseq, status |-> status])

\* OPTIONS (GET_PARAMETER and SET_PARAMETER alike) and unknown methods.
Plain(i) ==
  /\ messages[i].method \in {"OPTIONS", "RECORD"}
  /\ Answer(i, IF messages[i].method = "OPTIONS" THEN 200 ELSE 405)
  /\ UNCHANGED <<hasAuth, hasSession, unbound>>

\* The 401 of handle_describe, handle_setup and handle_play.
Refuse(i) ==
  /\ messages[i].method \in Guarded
  /\ ~Admitted(messages[i].cred)
  /\ Answer(i, 401)
  /\ UNCHANGED <<hasAuth, hasSession, unbound>>

FrontAdmit(i, method) ==
  /\ messages[i].method = method /\ Admitted(messages[i].cred)
  /\ hasAuth' = (protected /\ (hasAuth \/ Proves(messages[i].cred)))

FrontDescribe(i) ==
  /\ FrontAdmit(i, "DESCRIBE") /\ Answer(i, 200)
  /\ UNCHANGED <<hasSession, unbound>>

FrontSetup(i) ==
  /\ FrontAdmit(i, "SETUP")
  /\ \/ Answer(i, 200) /\ hasSession' = TRUE /\ UNCHANGED unbound
     \/ unbound' = unbound \cup {i} /\ UNCHANGED <<answers, hasSession>>

FrontPlay(i) ==
  /\ FrontAdmit(i, "PLAY") /\ Answer(i, IF hasSession THEN 200 ELSE 454)
  /\ UNCHANGED <<hasSession, unbound>>

\* No credentials are asked for.
FrontTeardown(i) ==
  /\ messages[i].method = "TEARDOWN"
  /\ Answer(i, IF hasSession THEN 200 ELSE 454) /\ hasSession' = FALSE
  /\ UNCHANGED <<hasAuth, unbound>>

\* handle_rtsp_request
Route(i) == \/ Plain(i) \/ Refuse(i) \/ FrontDescribe(i) \/ FrontSetup(i)
            \/ FrontPlay(i) \/ FrontTeardown(i)

Silent == UNCHANGED <<hasAuth, hasSession, answers, unbound>>
BadRequest == Answer(0, 400) /\ UNCHANGED <<hasAuth, hasSession, unbound>>

\* Mutant: the read is only ever decoded as a whole.
HeadersDecode_WholeRead(k) ==
  \A j \in 1..k : messages[wire[j][1]].method # "RTCP"
\* The headers are decoded on their own when the read is not text.
HeadersDecode(k) == TRUE

\* The read begins with a whole request: the rest of it is not looked at.
ReadRequest(k) ==
  LET i == wire[1][1] IN
    /\ k >= 2 /\ wire[1][2] = 1 /\ messages[i].method # "RTCP"
    /\ IF HeadersDecode(k) THEN Route(i) ELSE BadRequest
    /\ whole' = whole \cup {i}

\* It begins with a whole RTCP packet: all of it is skipped.
ReadReport(k) ==
  /\ k >= 2 /\ wire[1][2] = 1 /\ messages[wire[1][1]].method = "RTCP"
  /\ Silent /\ UNCHANGED whole

\* The first end of headers in the read is that of request i.
HeadersEnd(k, i) ==
  \E j \in 1..k :
    /\ wire[j] = <<i, 2>> /\ messages[i].method # "RTCP"
    /\ \A n \in 1..(j - 1) :
         wire[n][2] = 2 => messages[wire[n][1]].method = "RTCP"

\* Half a message comes first.  Half a request alone is dropped, half a
\* packet may not even be text; with an end of headers in sight what stands
\* before it is taken for a request of an unknown method or of none, with
\* the CSeq line it may contain.
ReadPartial(k) ==
  /\ k = 1 \/ wire[1][2] = 2
  /\ \/ Silent
     \/ messages[wire[1][1]].method = "RTCP" /\ BadRequest
     \/ wire[1][2] = 2 /\ \E i \in DOMAIN messages : HeadersEnd(k, i) /\
          \/ BadRequest
          \/ /\ Answer(0, 405) \/ Answer(i, 405)
             /\ UNCHANGED <<hasAuth, hasSession, unbound>>
  /\ UNCHANGED whole

ServerReads ==
  \E k \in 1..Len(wire) :
    /\ ReadRequest(k) \/ ReadReport(k) \/ ReadPartial(k)
    /\ wire' = SubSeq(wire, k + 1, Len(wire))
    /\ UNCHANGED <<protected, messages>>

FrontNext == ClientStep \/ ServerReads

FrontSpec == FrontInit /\ [][FrontNext]_frontVars

-----------------------------------------------------------------------------
(* Properties                                                              *)

Unread(i) == \E j \in DOMAIN wire : wire[j][1] = i
AnswersTo(i) == {j \in DOMAIN answers : answers[j].cseq = i}

(* A client can pair answers with requests although a read may hold half a *)
(* request or several: a request that begins a read and lies in it whole   *)
(* is answered once and with its own CSeq, whatever follows it in the same *)
(* read (RTCP included); nobody is answered twice for it, and answers come *)
(* in the order of the requests.  The one silence is a SETUP over UDP      *)
(* whose socket cannot be bound.                                           *)
AnswersPair ==
  /\ \A i \in whole \ unbound : \E j \in AnswersTo(i) :
       AnswersTo(i) = {j} /\ answers[j].status # 400
  /\ \A i, j \in DOMAIN answers :
       (i < j /\ answers[i].cseq # 0 /\ answers[j].cseq # 0) =>
         answers[i].cseq < answers[j].cseq

(* "Supports ... Basic and Digest authentication" (rtsp.rs, module         *)
(* comment).  Refuted: the nonce of the challenge is not kept, the digest  *)
(* is checked against an empty one, and the client that answered the       *)
(* challenge correctly is challenged again.                                *)
DigestAdmitted ==
  \A j \in DOMAIN answers :
    (answers[j].cseq # 0 /\ messages[answers[j].cseq].cred = "digest")
      => answers[j].status # 401
=============================================================================
