--------------------------- MODULE TelemetrySession ---------------------------
(***************************************************************************)
(* One connection of TelemetryClient.cpp to a session of TcpServer.cpp     *)
(* (handle_session), frame by frame over two byte streams.  The link may   *)
(* damage two neighbouring bytes once, in a header as well as in a         *)
(* payload; the client may be killed in the midst of a write; the server   *)
(* may be stopped; every insert may throw, or block for ever once the      *)
(* permits of the pool are lost.  Neither end has a timeout.               *)
(***************************************************************************)
EXTENDS FrameProtocol

CONSTANTS
  Token,        \* tokens a client is started with
  GoodToken,    \* those that may pass validate()
  Reading,      \* the bytes of the SensorFrames it sends
  MinSize,      \* size a payload needs to be inserted, 20 in the code
  NFrames,      \* frames a client sends, 60 in the code
  Burst         \* what damage makes of two neighbouring bytes

\* The size of the frame, 12 + payload.size(), is less than 2^32.
Payload(p) == p \in Seq(Byte) /\ (((12 + Len(p)) \div 256) \div 256) \div 256 < 256

\* No damage to two bytes of its length makes 12 + plen wrap in read_frame().
Short(p) == Len(p) < 65524

ASSUME TokenAssumption == GoodToken \subseteq Token /\ \A t \in Token : Payload(t) /\ Short(t)
ASSUME ReadingAssumption == \A r \in Reading : Payload(r) /\ Short(r) /\ Len(r) = MinSize
ASSUME BurstAssumption == Burst \subseteq Byte \X Byte /\ NFrames \in Nat

-------------------------------------------------------------------------------
(* Streams of bytes *)

\* Both reads of read_frame() can complete: the header, and as much as it announces.
Whole(x) == Len(x) >= 12 /\ Len(x) >= 12 + PayloadLen(x)
FirstFrame(x) == SubSeq(x, 1, 12 + PayloadLen(x))
Behind(x) == SubSeq(x, 13 + PayloadLen(x), Len(x))

\* External: the link puts b in the place of bytes i and i + 1 of x.
Hit(x, i, b) == [x EXCEPT ![i] = b[1], ![i + 1] = b[2]]

Empty(t) == [type |-> t, payload |-> << >>]

\* The frames of a session
Frames == [type : {AUTH}, payload : Token] \cup [type : {TELEMETRY}, payload : Reading]
          \cup {Empty(ACK), Empty(ERROR)}

\* read_frame() returns the frame at the start of x.
Passes(x) == Whole(x) /\ Acceptable(FirstFrame(x))

(* The checksum is of the payload alone.  What deserialize() makes of a      *)
(* wrong length depends on the data, and so it does if the checksum and the  *)
(* payload are damaged together: of these it notices some and others not.    *)
LengthHit(x, i, b) == \E j \in {i, i + 1} \cap 7 .. 10 : Hit(x, i, b)[j] # x[j]
Straddles(x, i, b) == i = 12 /\ b[1] # x[12] /\ b[2] # x[13]

-------------------------------------------------------------------------------
End == {"client", "server"}
Peer(e) == IF e = "client" THEN "server" ELSE "client"

VARIABLES
  place,        \* where run_client() and handle_session() are
  sockets,      \* the ends whose socket is open
  stream,       \* for each end the bytes on their way to it
  token,        \* argv[3] of the client
  readings,     \* payloads of the telemetry frames the client has written
  answered,     \* how many of them it has read the answer of
  authLog,      \* the entry of auth_log
  rows,         \* the rows of telemetry
  damage        \* "none", to a "length", "straddle" or any other, "covered"

linkVars == <<place, sockets, stream, token, readings, answered, authLog, rows, damage>>

SessionInit ==
  /\ place = [client |-> "connect", server |-> "accept"]
  /\ sockets = {} /\ stream = [e \in End |-> << >>]
  /\ token \in Token
  /\ readings = << >> /\ answered = 0 /\ authLog = "none" /\ rows = << >>
  /\ damage = "none"

MoveTo(e, l) == place' = [place EXCEPT ![e] = l]

\* The coroutine of e returns or throws, and its socket is closed.
Leave(e) == MoveTo(e, IF e = "client" THEN "failed" ELSE "ended") /\ sockets' = sockets \ {e}

-------------------------------------------------------------------------------
(* read_frame() and write_frame() of both ends *)

Complete(e) == Whole(stream[e])
Buffer(e) == FirstFrame(stream[e])

Reads(e) == place[e] \in {"readAuth", "readAuthReply", "readFrame", "readReply"}

Received(e) == Deserialize(Buffer(e))

\* Mutant: read_frame() cuts the frame out of the stream without deserialize() checking it.
FrameReadUnchecked(e, l) ==
  /\ place[e] = l /\ Complete(e)
  /\ stream' = [stream EXCEPT ![e] = Behind(stream[e])]

\* The read_frame() that e awaits at l returns Received(e).
FrameRead(e, l) ==
  /\ place[e] = l /\ Passes(stream[e])
  /\ stream' = [stream EXCEPT ![e] = Behind(stream[e])]

\* deserialize() throws, or the stream ends before the frame does.
ReadThrows(e) ==
  /\ Reads(e)
  /\ IF Complete(e) THEN ~Acceptable(Buffer(e)) ELSE Peer(e) \notin sockets
  /\ Leave(e)
  /\ stream' = [stream EXCEPT ![e] = << >>]
  /\ UNCHANGED <<token, readings, answered, authLog, rows, damage>>

\* e writes f and goes on at l; the write may throw once the peer is gone.
WriteFrame(e, f, l) ==
  \/ MoveTo(e, l) /\ stream' = [stream EXCEPT ![Peer(e)] = @ \o Serialize(f)] /\ UNCHANGED sockets
  \/ Peer(e) \notin sockets /\ place[Peer(e)] # "accept" /\ Leave(e) /\ UNCHANGED stream

-------------------------------------------------------------------------------
(* run_client() *)

\* The resolver or async_connect() may throw.
Connect ==
  /\ place["client"] = "connect"
  /\ \/ MoveTo("client", "writeAuth") /\ sockets' = sockets \cup {"client"}
     \/ MoveTo("client", "refused") /\ UNCHANGED sockets
  /\ UNCHANGED <<stream, token, readings, answered, authLog, rows, damage>>

WriteAuth ==
  /\ place["client"] = "writeAuth"
  /\ WriteFrame("client", [type |-> AUTH, payload |-> token], "readAuthReply")
  /\ UNCHANGED <<token, readings, answered, authLog, rows, damage>>

\* Where the loop is after `answered' frames; at the end the socket goes with the coroutine.
NextFrame(n) ==
  IF n < NFrames THEN MoveTo("client", "writeFrame") /\ UNCHANGED sockets
                 ELSE MoveTo("client", "done") /\ sockets' = sockets \ {"client"}

ReadAuthReply ==
  /\ FrameRead("client", "readAuthReply")
  /\ IF Received("client").type = ACK THEN NextFrame(0) ELSE Leave("client")
  /\ UNCHANGED <<token, readings, answered, authLog, rows, damage>>

WriteTelemetry ==
  /\ place["client"] = "writeFrame"
  /\ \E r \in Reading :
       /\ WriteFrame("client", [type |-> TELEMETRY, payload |-> r], "readReply")
       /\ readings' = IF place'["client"] = "readReply" THEN Append(readings, r) ELSE readings
  /\ UNCHANGED <<token, answered, authLog, rows, damage>>

\* The answer is read and its type is not looked at.
ReadReply ==
  /\ FrameRead("client", "readReply")
  /\ answered' = answered + 1
  /\ NextFrame(answered')
  /\ UNCHANGED <<token, readings, authLog, rows, damage>>

\* External: the client is killed.  The last bytes of a write may not have left.
ClientDies ==
  /\ "client" \in sockets
  /\ Leave("client")
  /\ \E n \in 0 .. Len(stream["server"]) : stream' = [stream EXCEPT !["server"] = SubSeq(@, 1, n)]
  /\ UNCHANGED <<token, readings, answered, authLog, rows, damage>>

-------------------------------------------------------------------------------
(* handle_session() *)

\* listen() accepts; remote_endpoint() throws if the peer is gone already.
AcceptClient ==
  /\ place["server"] = "accept" /\ place["client"] \notin {"connect", "refused"}
  /\ \/ MoveTo("server", "readAuth") /\ sockets' = sockets \cup {"server"}
     \/ "client" \notin sockets /\ Leave("server")
  /\ UNCHANGED <<stream, token, readings, answered, authLog, rows, damage>>

\* DbPool::acquire() waits for a permit that nobody will release.
Blocks == MoveTo("server", "blocked") /\ UNCHANGED sockets

\* validate(): only a good token passes, while JWT_SECRET is set and it has not expired.
Valid(t) == IF t \in GoodToken THEN {TRUE, FALSE} ELSE {FALSE}

(* The first frame.  Another type is answered with ERROR.  A token is        *)
(* validated and the result inserted before the answer; the insert may throw *)
(* or block.                                                                 *)
ReadToken ==
  /\ FrameRead("server", "readAuth")
  /\ LET f == Received("server")
     IN   \/ f.type # AUTH /\ MoveTo("server", "writeError") /\ UNCHANGED <<sockets, authLog>>
          \/ /\ f.type = AUTH
             /\ \E ok \in Valid(f.payload) :
                  /\ authLog' = IF ok THEN "AUTH_OK" ELSE "AUTH_FAIL_SIG"
                  /\ MoveTo("server", IF ok THEN "writeAck" ELSE "writeError")
             /\ UNCHANGED sockets
          \/ f.type = AUTH /\ (Leave("server") \/ Blocks) /\ UNCHANGED authLog
  /\ UNCHANGED <<token, readings, answered, rows, damage>>

\* write_frame(err), and the session returns.
WriteError ==
  /\ place["server"] = "writeError"
  /\ stream' = [stream EXCEPT !["client"] = @ \o Serialize(Empty(ERROR))]
  /\ Leave("server")
  /\ UNCHANGED <<token, readings, answered, authLog, rows, damage>>

WriteAck ==
  /\ place["server"] = "writeAck"
  /\ WriteFrame("server", Empty(ACK), "readFrame")
  /\ UNCHANGED <<token, readings, answered, authLog, rows, damage>>

\* Mutant: an insert that throws is only logged, and the frame acknowledged.
ReadTelemetrySwallows ==
  /\ FrameRead("server", "readFrame")
  /\ LET f == Received("server")
     IN   \/ f.type # TELEMETRY /\ Leave("server") /\ UNCHANGED rows
          \/ /\ f.type = TELEMETRY
             /\ rows' \in {rows} \cup IF Len(f.payload) >= MinSize
                                       THEN {Append(rows, SubSeq(f.payload, 1, MinSize))} ELSE {}
             /\ MoveTo("server", "writeAck") /\ UNCHANGED sockets
  /\ UNCHANGED <<token, readings, answered, authLog, damage>>

(* A frame of the loop: another type ends the session, a payload of full     *)
(* size is inserted first (which may throw or block), a shorter one only     *)
(* acknowledged.                                                             *)
ReadTelemetry ==
  /\ FrameRead("server", "readFrame")
  /\ LET f == Received("server")
     IN   \/ f.type # TELEMETRY /\ Leave("server") /\ UNCHANGED rows
          \/ /\ f.type = TELEMETRY
             /\ rows' = IF Len(f.payload) >= MinSize
                          THEN Append(rows, SubSeq(f.payload, 1, MinSize)) ELSE rows
             /\ MoveTo("server", "writeAck") /\ UNCHANGED sockets
          \/ /\ f.type = TELEMETRY /\ Len(f.payload) >= MinSize
             /\ (Leave("server") \/ Blocks) /\ UNCHANGED rows
  /\ UNCHANGED <<token, readings, answered, authLog, damage>>

\* SIGTERM stops the io_context: the session ends where it awaits, not while it blocks.
ServerStops ==
  /\ "server" \in sockets /\ place["server"] # "blocked"
  /\ Leave("server")
  /\ UNCHANGED <<stream, token, readings, answered, authLog, rows, damage>>

-------------------------------------------------------------------------------
(* External: the link damages bytes i and i + 1 of what is on its way to e,  *)
(* which is a frame or its first bytes.                                      *)
Damage(e, i, b) ==
  /\ damage = "none"
  /\ stream' = [stream EXCEPT ![e] = Hit(@, i, b)]
  /\ damage' = CASE LengthHit(stream[e], i, b) -> "length"
                 [] Straddles(stream[e], i, b) -> "straddle"
                 [] OTHER                      -> "covered"
  /\ UNCHANGED <<place, sockets, token, readings, answered, authLog, rows>>

ClientStep == Connect \/ WriteAuth \/ ReadAuthReply \/ WriteTelemetry \/ ReadReply \/ ReadThrows("client")
ServerStep == AcceptClient \/ ReadToken \/ WriteError \/ WriteAck \/ ReadTelemetry \/ ReadThrows("server")

Ended ==
  \/ place["client"] = "refused"
  \/ place["client"] \in {"done", "failed"} /\ place["server"] = "ended"

SessionNext ==
  \/ ClientStep \/ ServerStep \/ ClientDies \/ ServerStops
  \/ \E e \in End : \E i \in 1 .. Len(stream[e]) - 1, b \in Burst : Damage(e, i, b)
  \/ (Ended \/ place["server"] = "blocked") /\ UNCHANGED linkVars

\* Each end goes on as soon as the operation it awaits completes.
SessionSpec ==
  SessionInit /\ [][SessionNext]_linkVars /\ WF_linkVars(ClientStep) /\ WF_linkVars(ServerStep)

-------------------------------------------------------------------------------
Covered == damage \in {"none", "covered"}

(* No row is stored before an AUTH_OK is logged.  The table holds the        *)
(* readings of the client, in the order in which it sent them and none of    *)
(* them twice or changed, and its token is good; also if the link damages a  *)
(* payload, a checksum, a type or the magic.  Not so if it damages a length, *)
(* or the last byte of a checksum with the first of its payload: those       *)
(* deserialize() may accept (FrameProtocol.cpp, handle_session).             *)
RowsAreSent ==
  /\ rows # << >> => authLog = "AUTH_OK"
  /\ Covered => /\ Len(rows) <= Len(readings) /\ rows = SubSeq(readings, 1, Len(rows))
                /\ rows # << >> => token \in GoodToken

(* An answer stands for a row although the client does not look at its type: *)
(* each frame answered is stored, and at most one row, the last, has not     *)
(* been answered.  So a client that is done has all its readings in the      *)
(* table, unless the link damaged a length or a checksum with its payload: a *)
(* payload that became shorter is acknowledged without a row (the loops of   *)
(* run_client and handle_session).                                           *)
AnsweredIsStored ==
  Covered => answered <= Len(rows) /\ Len(rows) <= Len(readings) /\ Len(readings) <= answered + 1

(* Both ends come to an end, whatever is damaged, killed or thrown: each     *)
(* frame has its answer, and an end that leaves lets the other one go.  Only *)
(* a length that was damaged may keep both waiting, since neither has a      *)
(* timeout, or an insert that waits for a permit which was lost.             *)
SessionEnds ==
  <>[]Ended \/ <>[](damage = "length" /\ sockets = End) \/ <>[](place["server"] = "blocked")
===============================================================================
