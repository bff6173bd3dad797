------------------------------ MODULE SrsLink -------------------------------
(***************************************************************************)
(* What one SRSClient says to the server (backends/srs/srs_client.cpp):    *)
(* the handshake with its optional password, the JSON lines that two       *)
(* threads send over one TCP connection, and the UDP voice packets that    *)
(* the multimedia timer builds.                                            *)
(*                                                                         *)
(* The stream thread connects, shakes hands and then sends pings and       *)
(* position heartbeats; the Lua thread sends position updates.  send()     *)
(* may take part of a line.  The server is external.                       *)
(***************************************************************************)
EXTENDS Integers, Sequences

CONSTANTS
  Configured,      \* the password configured for coalition 1 (red), 2 (blue)
  Expected,        \* the password the server expects of each
  NoPassword,      \* an empty password
  NoMessage,       \* a thread that sends nothing
  FreqCounts,      \* numbers of frequencies of a transmission
  FrameSizes,      \* sizes of encoded frames, in bytes
  MaxUpdates,      \* bound: lines sent while streaming
  MaxOthers        \* bound: unrelated lines from the server

ASSUME LinkAssumption ==
  /\ {1, 2} \subseteq DOMAIN Configured
  /\ {1, 2} \subseteq DOMAIN Expected
  /\ FreqCounts \subseteq Nat
  /\ FrameSizes \subseteq Nat
  /\ MaxUpdates \in Nat /\ MaxOthers \in Nat
  /\ NoMessage \notin {"sync", "password", "ping", "heartbeat", "update"}

VARIABLES
  pc,          \* what the stream thread does next
  coalition,   \* the coalition of the transmission
  freqCount,   \* how many frequencies it is on
  tcpMutex,    \* the threads inside SendTCP's critical section
  sending,     \* the line a thread is sending, and the part it sends next
  wire,        \* what the TCP connection has taken: parts of lines
  cut,         \* history: where the wire ends in a line that SendTCP gave up
  sent,        \* lines sent while streaming (for the bound)
  eam,         \* the server has external AWACS mode enabled
  inbox,       \* lines from the server that were not read
  fragment,    \* there are unread bytes of a line that has not ended
  answered,    \* the lines the server has answered
  accepted,    \* the server has accepted the password
  packet       \* the voice packet that was built last

serverVars == <<eam, inbox, fragment, answered, accepted>>
tcpVars    == <<tcpMutex, sending, wire, cut>>
vars == <<pc, coalition, freqCount, tcpVars, sent, serverVars, packet>>

Threads == {"stream", "lua"}
Lines == {"sync", "password", "ping", "heartbeat", "update"}
Replies == {"on", "off", "accepted", "refused", "other"}
Idle == [line |-> NoMessage, part |-> 1]

\* Select EAM password for the requested coalition.
EamPassword == IF coalition \in {1, 2} THEN Configured[coalition] ELSE NoPassword

-----------------------------------------------------------------------------
(* Voice packets.                                                          *)

HeaderSize    == 6    \* kHeaderSize
FreqEntrySize == 10   \* kFreqEntrySize
FixedSize     == 57   \* kFixedSize
Word(n) == n % 65536  \* static_cast<uint16_t>

\* Mutant: the header is not counted.
BuildVoicePacketNoHeader(frameSize) ==
  LET audioLen == Word(frameSize)
      freqLen  == Word(freqCount * FreqEntrySize)
  IN [total |-> Word(audioLen + freqLen + FixedSize), audio |-> audioLen, freq |-> freqLen,
      written |-> HeaderSize + audioLen + freqCount * FreqEntrySize + FixedSize]

\* BuildVoicePacket: the lengths it declares, the first of which is also that
\* of its buffer, and the number of bytes it writes.
BuildVoicePacket(frameSize) ==
  LET audioLen == Word(frameSize)
      freqLen  == Word(freqCount * FreqEntrySize)
  IN [total |-> Word(HeaderSize + audioLen + freqLen + FixedSize),
      audio |-> audioLen, freq |-> freqLen,
      written |-> HeaderSize + audioLen + freqCount * FreqEntrySize + FixedSize]

NoPacket == [total |-> 0, audio |-> 0, freq |-> 0, written |-> 0]

\* TimerProc, with the next frame or the frame of silence.
SendVoice ==
  /\ pc = "stream"
  /\ \E n \in FrameSizes : packet' = BuildVoicePacket(n)
  /\ UNCHANGED <<pc, coalition, freqCount, tcpVars, sent, serverVars>>

-----------------------------------------------------------------------------
(* SendTCP.                                                                *)

TypeOK ==
  /\ pc \in {"connect", "sync", "syncing", "reply", "password", "proving", "verdict",
             "stream", "closed"}
  /\ coalition \in 0 .. 2
  /\ freqCount \in FreqCounts
  /\ tcpMutex \subseteq Threads
  /\ sending \in [Threads -> [line : Lines \cup {NoMessage}, part : {1, 2}]]
  /\ wire \in Seq([line : Lines, part : {1, 2}])
  /\ cut \subseteq Nat
  /\ sent \in 0 .. MaxUpdates
  /\ eam \in BOOLEAN
  /\ inbox \in Seq(Replies)
  /\ fragment \in BOOLEAN
  /\ answered \subseteq {"sync", "password"}
  /\ accepted \in BOOLEAN
  /\ packet \in [total : Nat, audio : Nat, freq : Nat, written : Nat]

Init ==
  /\ pc = "connect"
  /\ coalition \in 0 .. 2
  /\ freqCount \in FreqCounts
  /\ tcpMutex = {}
  /\ sending = [t \in Threads |-> Idle]
  /\ wire = <<>>
  /\ cut = {}
  /\ sent = 0
  /\ eam \in BOOLEAN
  /\ inbox = <<>>
  /\ fragment = FALSE
  /\ answered = {}
  /\ accepted = FALSE
  /\ packet = NoPacket

\* Mutant: no lock.
LockTcpNot(t, line) ==
  /\ sending[t] = Idle
  /\ tcpMutex' = tcpMutex \cup {t}
  /\ sending' = [sending EXCEPT ![t] = [line |-> line, part |-> 1]]
  /\ UNCHANGED <<wire, cut>>

\* Lock m_tcpMutex and build the line.
LockTcp(t, line) ==
  /\ sending[t] = Idle
  /\ tcpMutex = {}
  /\ tcpMutex' = {t}
  /\ sending' = [sending EXCEPT ![t] = [line |-> line, part |-> 1]]
  /\ UNCHANGED <<wire, cut>>

Unlock(t) ==
  /\ tcpMutex' = tcpMutex \ {t}
  /\ sending' = [sending EXCEPT ![t] = Idle]

Part(t, n) == [line |-> sending[t].line, part |-> n]

\* send() takes part of the line, and the loop goes on.
SendPart(t) ==
  /\ sending[t].line # NoMessage /\ sending[t].part = 1
  /\ wire' = Append(wire, Part(t, 1))
  /\ sending' = [sending EXCEPT ![t].part = 2]
  /\ UNCHANGED <<tcpMutex, cut>>

\* send() takes the rest of the line: SendTCP returns true.
SendRest(t) ==
  /\ sending[t].line # NoMessage
  /\ wire' = wire \o (IF sending[t].part = 1 THEN <<Part(t, 1), Part(t, 2)>>
                                             ELSE <<Part(t, 2)>>)
  /\ Unlock(t)
  /\ cut' = cut

\* send() fails: SendTCP gives the line up, whatever part of it is out, and
\* returns false.  It closes and marks nothing, and a later send() may succeed.
SendFails(t) ==
  /\ sending[t].line # NoMessage
  /\ cut' = IF sending[t].part = 2 THEN cut \cup {Len(wire)} ELSE cut
  /\ Unlock(t)
  /\ wire' = wire

-----------------------------------------------------------------------------
(* Connect and Handshake.                                                  *)

Goes(from, to) == pc = from /\ pc' = to

Connect ==
  /\ Goes("connect", "sync") \/ Goes("connect", "closed")
  /\ UNCHANGED <<coalition, freqCount, tcpVars, sent, serverVars, packet>>

HandshakeStarts ==
  /\ \/ Goes("sync", "syncing") /\ LockTcp("stream", "sync")
     \/ Goes("password", "proving") /\ LockTcp("stream", "password")
  /\ UNCHANGED <<coalition, freqCount, sent, serverVars, packet>>

\* The SYNC was sent: its reply is read only if there is a password.  The
\* password was sent: the verdict is read.
HandshakeSends ==
  /\ \/ SendPart("stream") /\ pc \in {"syncing", "proving"} /\ pc' = pc
     \/ /\ SendRest("stream")
        /\ \/ Goes("syncing", "reply") /\ EamPassword # NoPassword
           \/ Goes("syncing", "stream") /\ EamPassword = NoPassword
           \/ Goes("proving", "verdict")
     \/ SendFails("stream") /\ pc \in {"syncing", "proving"} /\ pc' = "closed"
  /\ UNCHANGED <<coalition, freqCount, sent, serverVars, packet>>

\* ReadLine returned the first line that was not read.
Reads(line) == inbox # <<>> /\ Head(inbox) = line /\ inbox' = Tail(inbox)

\* ReadLine returned nothing: recv() waited two seconds for one byte in vain.
TimesOut == inbox = <<>> /\ ~fragment /\ inbox' = inbox

\* Mutant: the socket has no receive timeout.
ReadReplyForever ==
  /\ \/ Reads("on") /\ Goes("reply", "password")
     \/ (\E l \in Replies \ {"on"} : Reads(l)) /\ Goes("reply", "stream")
  /\ UNCHANGED <<coalition, freqCount, tcpVars, sent, eam, fragment, answered, accepted, packet>>

\* A reply that enables external AWACS mode asks for the password; any other
\* line, and none, mean that there is nothing to prove.
ReadReply ==
  /\ \/ Reads("on") /\ Goes("reply", "password")
     \/ (TimesOut \/ \E l \in Replies \ {"on"} : Reads(l)) /\ Goes("reply", "stream")
  /\ UNCHANGED <<coalition, freqCount, tcpVars, sent, eam, fragment, answered, accepted, packet>>

\* Mutant: no answer in time counts as none needed, as it does for the SYNC.
ReadVerdictLenient ==
  /\ \/ (TimesOut \/ Reads("accepted")) /\ Goes("verdict", "stream")
     \/ (\E l \in Replies \ {"accepted"} : Reads(l)) /\ Goes("verdict", "closed")
  /\ UNCHANGED <<coalition, freqCount, tcpVars, sent, eam, fragment, answered, accepted, packet>>

\* Only a line that accepts the password ends the handshake well.
ReadVerdict ==
  /\ \/ Reads("accepted") /\ Goes("verdict", "stream")
     \/ (TimesOut \/ \E l \in Replies \ {"accepted"} : Reads(l)) /\ Goes("verdict", "closed")
  /\ UNCHANGED <<coalition, freqCount, tcpVars, sent, eam, fragment, answered, accepted, packet>>

\* ReadLine takes the bytes that are there of a line that has not ended, and
\* waits another two seconds for the next.
ReadBytes ==
  /\ pc \in {"reply", "verdict"} /\ inbox = <<>>
  /\ fragment /\ fragment' = FALSE
  /\ UNCHANGED <<pc, coalition, freqCount, tcpVars, sent, eam, inbox, answered, accepted, packet>>

\* recv() fails, which ReadLine does not tell from a timeout.
ReadFails ==
  /\ Goes("reply", "stream") \/ Goes("verdict", "closed")
  /\ UNCHANGED <<coalition, freqCount, tcpVars, sent, serverVars, packet>>

-----------------------------------------------------------------------------
(* While streaming.                                                        *)

PositionBusy == \E t \in Threads : sending[t].line \in {"heartbeat", "update"}

\* A ping is due, or a position heartbeat; the latter needs posData->syncMutex,
\* as does an update from Lua.
StartLine(t, line) ==
  /\ pc = "stream"
  /\ sent < MaxUpdates
  /\ line # "ping" => ~PositionBusy
  /\ LockTcp(t, line)
  /\ sent' = sent + 1
  /\ UNCHANGED <<pc, coalition, freqCount, serverVars, packet>>

StreamStarts == StartLine("stream", "ping") \/ StartLine("stream", "heartbeat")

LuaStarts == StartLine("lua", "update")

StreamSends(t) ==
  /\ pc = "stream"
  /\ SendPart(t) \/ SendRest(t) \/ SendFails(t)
  /\ UNCHANGED <<pc, coalition, freqCount, sent, serverVars, packet>>

\* The stream is over: the callback is cleared under syncMutex, then the
\* sockets are closed.
Disconnect ==
  /\ Goes("stream", "closed")
  /\ sending["stream"] = Idle
  /\ ~PositionBusy
  /\ UNCHANGED <<coalition, freqCount, tcpVars, sent, serverVars, packet>>

-----------------------------------------------------------------------------
(* The server.                                                             *)

HasArrived(line) == \E i \in 1 .. Len(wire) : wire[i] = [line |-> line, part |-> 2]

\* The server ends a line.
ServerSays(line) == inbox' = Append(inbox, line) /\ fragment' = FALSE

ServerAnswers ==
  /\ \/ /\ HasArrived("sync") /\ "sync" \notin answered
        /\ answered' = answered \cup {"sync"}
        /\ ServerSays(IF eam THEN "on" ELSE "off")
        /\ accepted' = accepted
     \/ /\ HasArrived("password") /\ "password" \notin answered
        /\ answered' = answered \cup {"password"}
        /\ accepted' = (Configured[coalition] = Expected[coalition])
        /\ ServerSays(IF accepted' THEN "accepted" ELSE "refused")
  /\ UNCHANGED <<pc, coalition, freqCount, tcpVars, sent, eam, packet>>

\* News of other clients.
ServerTalks ==
  /\ pc \in {"reply", "verdict"}
  /\ Len(inbox) < MaxOthers
  /\ ServerSays("other")
  /\ UNCHANGED <<pc, coalition, freqCount, tcpVars, sent, eam, answered, accepted, packet>>

\* Some bytes of a line, and not its end.
ServerDrips ==
  /\ pc \in {"reply", "verdict"}
  /\ ~fragment /\ fragment' = TRUE
  /\ UNCHANGED <<pc, coalition, freqCount, tcpVars, sent, eam, inbox, answered, accepted, packet>>

Next ==
  \/ Connect \/ HandshakeStarts \/ HandshakeSends
  \/ ReadReply \/ ReadVerdict \/ ReadBytes \/ ReadFails
  \/ StreamStarts \/ LuaStarts \/ (\E t \in Threads : StreamSends(t))
  \/ SendVoice \/ Disconnect
  \/ ServerAnswers \/ ServerTalks \/ ServerDrips

Spec == Init /\ [][Next]_vars

\* The stream thread runs, send() returns, and recv() of a byte returns within
\* two seconds.  The server may answer or not.
FairSpec ==
  /\ Spec
  /\ WF_vars(HandshakeStarts) /\ WF_vars(HandshakeSends)
  /\ WF_vars(ReadReply) /\ WF_vars(ReadVerdict) /\ WF_vars(ReadBytes)

-----------------------------------------------------------------------------

OnWire(line) == \E i \in 1 .. Len(wire) : wire[i].line = line

\* A client sends its password only to a server that asks for one, and once any
\* part of the password is out it streams only if the server has accepted it.
\* Of a client that sent none this says nothing: when the reply to its SYNC is
\* late, fails or has another line before it, it streams although the server
\* wanted a password (srs_client.cpp:223-285).
AuthSound ==
  OnWire("password") =>
    /\ eam /\ EamPassword # NoPassword
    /\ pc = "stream" => accepted

\* A handshake that was begun ends, whether or not the server answers, unless
\* the server for ever sends bytes of lines within two seconds of each other:
\* the timeout is that of recv(), one byte, and not of the line
\* (srs_client.cpp:290-315).
HandshakeEnds ==
  <>[][~ServerDrips]_vars => (pc = "sync" ~> pc \in {"stream", "closed"})

\* Lines do not mix on the wire, although two threads send and send() may take
\* a part of one: the end of a line comes right after its beginning, and a
\* beginning that something else follows is that of a line whose own SendTCP
\* failed (srs_client.cpp:565-581).
LinesAreWhole ==
  /\ \A i \in 1 .. Len(wire) : wire[i].part = 2 =>
       i > 1 /\ wire[i - 1] = [line |-> wire[i].line, part |-> 1] /\ i - 1 \notin cut
  /\ \A i \in 1 .. Len(wire) : wire[i].part = 1 /\ i < Len(wire) =>
       i \in cut \/ wire[i + 1].part = 2

\* The 16-bit lengths of a voice packet are those of what was written exactly
\* as long as that is less than 64 KB; nothing bounds the number of frequencies
\* (srs_client.cpp:508-513).
PacketIsWhole ==
  /\ packet.total = packet.written <=> packet.written < 65536
  /\ packet # NoPacket /\ packet.written < 65536 => packet.freq = freqCount * FreqEntrySize

\* What the server receives can be taken apart again, on either socket, but for
\* what SendTCP gave up and for packets of 64 KB and more.
WireIsWhole == LinesAreWhole /\ PacketIsWhole

=============================================================================
