---------------------------- MODULE SrsLinkProofs ---------------------------
(***************************************************************************)
(* Proofs about SrsLink, for any passwords, any bounds and any server: the *)
(* lines on the TCP connection are whole but for those whose own SendTCP   *)
(* failed (LinesInv: the thread inside SendTCP is alone there, and the end *)
(* of the wire is what it has sent), the handshake proves what it claims   *)
(* (AuthInv), and a voice packet of less than 64 KB is whole.              *)
(***************************************************************************)
EXTENDS SrsLink, TLAPS

Parts == [line : Lines, part : {1, 2}]

\* The end of the wire is the end of a line, or of one that was given up.
Settled(w) == Len(w) > 0 => w[Len(w)].part = 2 \/ Len(w) \in cut

\* The wire is settled, unless a thread has sent the first part of a line, which
\* then is its end.
LinesInv ==
  /\ LinesAreWhole
  /\ cut \subseteq 1 .. Len(wire)
  /\ \A t \in Threads : sending[t].line # NoMessage => tcpMutex = {t}
  /\ \A t \in Threads : sending[t].line # NoMessage =>
        IF sending[t].part = 1
          THEN Settled(wire)
          ELSE /\ Len(wire) > 0 /\ Len(wire) \notin cut
               /\ wire[Len(wire)] = [line |-> sending[t].line, part |-> 1]
  /\ (\A t \in Threads : sending[t].line = NoMessage) => Settled(wire)

-----------------------------------------------------------------------------
(* Types.                                                                  *)

\* All that a step can do to the TCP connection.
TcpSteps ==
  \/ UNCHANGED tcpVars
  \/ \E t \in Threads, line \in Lines : LockTcp(t, line)
  \/ \E t \in Threads : SendPart(t) \/ SendRest(t) \/ SendFails(t)

LEMMA EveryStepIsTcpStep ==
  ASSUME [Next]_vars
  PROVE  TcpSteps
<1>1. ASSUME HandshakeStarts \/ StreamStarts \/ LuaStarts
      PROVE  TcpSteps
  BY <1>1 DEF HandshakeStarts, StreamStarts, LuaStarts, StartLine, TcpSteps, Threads, Lines
<1>2. ASSUME HandshakeSends \/ \E t \in Threads : StreamSends(t)
      PROVE  TcpSteps
  BY <1>2 DEF HandshakeSends, StreamSends, TcpSteps, Threads
<1>3. ASSUME \/ Connect \/ ReadReply \/ ReadVerdict \/ SendVoice \/ Disconnect
             \/ ReadBytes \/ ReadFails \/ ServerAnswers \/ ServerTalks \/ ServerDrips
             \/ UNCHANGED vars
      PROVE  TcpSteps
  BY <1>3 DEF Connect, ReadReply, ReadVerdict, ReadBytes, ReadFails, SendVoice, Disconnect,
              ServerAnswers, ServerTalks, ServerDrips, vars, TcpSteps
<1> QED
  BY <1>1, <1>2, <1>3 DEF Next

TcpTypeOK ==
  /\ tcpMutex \subseteq Threads
  /\ sending \in [Threads -> [line : Lines \cup {NoMessage}, part : {1, 2}]]
  /\ wire \in Seq([line : Lines, part : {1, 2}])
  /\ cut \subseteq Nat

LEMMA TcpTypeStep ==
  ASSUME TcpTypeOK, TcpSteps
  PROVE  TcpTypeOK'
<1> USE DEF TcpTypeOK
<1>1. CASE UNCHANGED tcpVars
  BY <1>1 DEF tcpVars
<1>2. ASSUME NEW t \in Threads, NEW line \in Lines, LockTcp(t, line)
      PROVE  TcpTypeOK'
  BY <1>2 DEF LockTcp
<1>3. ASSUME NEW t \in Threads, SendPart(t)
      PROVE  TcpTypeOK'
  <2>1. sending[t].line \in Lines
    BY <1>3 DEF SendPart
  <2>2. Part(t, 1) \in [line : Lines, part : {1, 2}]
    BY <2>1 DEF Part
  <2>3. sending' \in [Threads -> [line : Lines \cup {NoMessage}, part : {1, 2}]]
    BY <1>3 DEF SendPart
  <2> QED
    BY <1>3, <2>2, <2>3 DEF SendPart
<1>4. ASSUME NEW t \in Threads, SendRest(t)
      PROVE  TcpTypeOK'
  <2>1. sending[t].line \in Lines
    BY <1>4 DEF SendRest
  <2>2. {Part(t, 1), Part(t, 2)} \subseteq [line : Lines, part : {1, 2}]
    BY <2>1 DEF Part
  <2> DEFINE parts == IF sending[t].part = 1 THEN <<Part(t, 1), Part(t, 2)>> ELSE <<Part(t, 2)>>
  <2>4. wire' = wire \o parts
    BY <1>4 DEF SendRest
  <2>5. /\ <<Part(t, 1), Part(t, 2)>> \in Seq([line : Lines, part : {1, 2}])
        /\ <<Part(t, 2)>> \in Seq([line : Lines, part : {1, 2}])
    <3> DEFINE S == [line : Lines, part : {1, 2}]
    <3>1. Part(t, 1) \in S /\ Part(t, 2) \in S
      BY <2>2
    <3> HIDE DEF S
    <3>2. <<Part(t, 1), Part(t, 2)>> \in Seq(S) /\ <<Part(t, 2)>> \in Seq(S)
      BY <3>1
    <3> QED
      BY <3>2 DEF S
  <2>6. parts \in Seq([line : Lines, part : {1, 2}])
    BY <2>5
  <2> HIDE DEF parts
  <2>3. wire' \in Seq([line : Lines, part : {1, 2}])
    BY <2>4, <2>6
  <2> QED
    BY <1>4, <2>3 DEF SendRest, Unlock, Idle
<1>5. ASSUME NEW t \in Threads, SendFails(t)
      PROVE  TcpTypeOK'
  <2>1. Len(wire) \in Nat
    OBVIOUS
  <2> QED
    BY <1>5, <2>1 DEF SendFails, Unlock, Idle
<1> QED
  BY <1>1, <1>2, <1>3, <1>4, <1>5 DEF TcpSteps

-----------------------------------------------------------------------------
(* Lines.                                                                  *)

WholeLines(w) ==
  /\ \A i \in 1 .. Len(w) : w[i].part = 2 =>
       i > 1 /\ w[i - 1] = [line |-> w[i].line, part |-> 1] /\ i - 1 \notin cut
  /\ \A i \in 1 .. Len(w) : w[i].part = 1 /\ i < Len(w) =>
       i \in cut \/ w[i + 1].part = 2

\* Lines stay whole when the first part of one follows a settled end, or the
\* second part its first.
LEMMA AppendPart ==
  ASSUME NEW w \in Seq(Parts), NEW x \in Parts, WholeLines(w),
         \/ x.part = 1 /\ Settled(w)
         \/ /\ Len(w) > 0 /\ Len(w) \notin cut
            /\ w[Len(w)] = [line |-> x.line, part |-> 1] /\ x.part = 2
  PROVE  WholeLines(Append(w, x))
<1> DEFINE v == Append(w, x)
<1>1. /\ Len(v) = Len(w) + 1 /\ Len(w) \in Nat
      /\ \A i \in 1 .. Len(w) : v[i] = w[i]
      /\ v[Len(w) + 1] = x
  OBVIOUS
<1>2. \A i \in 1 .. Len(v) : i \in 1 .. Len(w) \/ i = Len(w) + 1
  BY <1>1
<1> HIDE DEF v
<1>3. ASSUME NEW i \in 1 .. Len(v), v[i].part = 2
      PROVE  i > 1 /\ v[i - 1] = [line |-> v[i].line, part |-> 1] /\ i - 1 \notin cut
  <2>1. CASE i \in 1 .. Len(w)
    <3>1. /\ i > 1 /\ w[i - 1] = [line |-> w[i].line, part |-> 1] /\ i - 1 \notin cut
      BY <1>1, <1>3, <2>1 DEF WholeLines
    <3>2. i - 1 \in 1 .. Len(w)
      BY <1>1, <2>1, <3>1
    <3> QED
      BY <1>1, <2>1, <3>1, <3>2
  <2>2. CASE i = Len(w) + 1
    <3>1. x.part = 2
      BY <1>1, <1>3, <2>2
    <3>2. /\ Len(w) > 0 /\ Len(w) \notin cut
          /\ w[Len(w)] = [line |-> x.line, part |-> 1]
      BY <3>1
    <3>3. Len(w) \in 1 .. Len(w) /\ i - 1 = Len(w) /\ i > 1
      BY <1>1, <2>2, <3>2
    <3> QED
      BY <1>1, <2>2, <3>2, <3>3
  <2> QED
    BY <1>2, <2>1, <2>2
<1>4. ASSUME NEW i \in 1 .. Len(v), v[i].part = 1, i < Len(v)
      PROVE  i \in cut \/ v[i + 1].part = 2
  <2>1. i \in 1 .. Len(w)
    BY <1>1, <1>4
  <2>2. CASE i < Len(w)
    <3>1. i + 1 \in 1 .. Len(w)
      BY <1>1, <2>1, <2>2
    <3> QED
      BY <1>1, <1>4, <2>1, <2>2, <3>1 DEF WholeLines
  <2>3. CASE i = Len(w)
    <3>1. w[Len(w)].part = 1 /\ Len(w) > 0 /\ v[i + 1] = x
      BY <1>1, <1>4, <2>1, <2>3
    <3> QED
      BY <2>3, <3>1 DEF Settled
  <2> QED
    BY <1>1, <2>1, <2>2, <2>3
<1>5. WholeLines(v)
  BY <1>3, <1>4 DEF WholeLines
<1> QED
  BY <1>5 DEF v

LEMMA LinesStep ==
  ASSUME TcpTypeOK, LinesInv, TcpSteps
  PROVE  LinesInv'
<1> USE DEF TcpTypeOK, LinesInv
<1>0. WholeLines(wire) /\ Len(wire) \in Nat /\ wire \in Seq(Parts)
  BY DEF LinesAreWhole, WholeLines, Parts
<1>1. CASE UNCHANGED tcpVars
  BY <1>1 DEF tcpVars, LinesAreWhole, Settled
<1>2. ASSUME NEW t \in Threads, NEW line \in Lines, LockTcp(t, line)
      PROVE  LinesInv'
  <2>1. tcpMutex = {} /\ tcpMutex' = {t} /\ wire' = wire /\ cut' = cut
    BY <1>2 DEF LockTcp
  <2>2. \A u \in Threads : sending[u].line = NoMessage
    BY <2>1
  <2>3. /\ sending'[t] = [line |-> line, part |-> 1]
        /\ \A u \in Threads : u # t => sending'[u] = sending[u]
    BY <1>2 DEF LockTcp
  <2>4. LinesAreWhole' /\ Settled(wire)'
    BY <2>1, <2>2 DEF LinesAreWhole, Settled
  <2>5. line # NoMessage
    BY LinkAssumption DEF Lines
  <2> QED
    BY <2>1, <2>2, <2>3, <2>4, <2>5
<1>3. ASSUME NEW t \in Threads, SendPart(t)
      PROVE  LinesInv'
  <2>1. /\ sending[t].line \in Lines /\ sending[t].part = 1 /\ sending[t].line # NoMessage
        /\ cut' = cut /\ tcpMutex' = tcpMutex
        /\ wire' = Append(wire, Part(t, 1))
    BY <1>3 DEF SendPart
  <2>2. Part(t, 1) \in Parts /\ Part(t, 1).part = 1
    BY <2>1 DEF Part, Parts
  <2>3. Settled(wire)
    BY <2>1
  <2>4. WholeLines(Append(wire, Part(t, 1)))
    BY <1>0, <2>2, <2>3, AppendPart
  <2>5. LinesAreWhole'
    BY <2>1, <2>4 DEF LinesAreWhole, WholeLines
  <2>6. wire'[Len(wire')] = Part(t, 1) /\ Len(wire') = Len(wire) + 1
    BY <2>1, <2>2
  <2>7. /\ sending'[t].line = sending[t].line /\ sending'[t].part = 2
        /\ \A u \in Threads : u # t => sending'[u] = sending[u]
    BY <1>3 DEF SendPart
  <2>8. tcpMutex = {t} /\ \A u \in Threads : u # t => sending[u].line = NoMessage
    BY <2>1
  <2>9. Len(wire') \notin cut' /\ cut' \subseteq 1 .. Len(wire')
    BY <1>0, <2>1, <2>6
  <2> QED
    BY <1>0, <2>1, <2>5, <2>6, <2>7, <2>8, <2>9 DEF Part
<1>4. ASSUME NEW t \in Threads, SendRest(t)
      PROVE  LinesInv'
  <2>1. /\ sending[t].line \in Lines /\ sending[t].line # NoMessage
        /\ cut' = cut
        /\ tcpMutex = {t} /\ tcpMutex' = {}
        /\ \A u \in Threads : sending'[u].line = NoMessage
    BY <1>4 DEF SendRest, Unlock, Idle
  <2>2. Part(t, 1) \in Parts /\ Part(t, 2) \in Parts
    BY <2>1 DEF Part, Parts
  <2>3. /\ Part(t, 1) = [line |-> sending[t].line, part |-> 1]
        /\ Part(t, 2).line = sending[t].line /\ Part(t, 2).part = 2
    BY DEF Part
  <2>4. PICK v \in Seq(Parts) : /\ wire' = Append(v, Part(t, 2)) /\ WholeLines(v)
                                /\ Len(v) > 0 /\ Len(v) \notin cut /\ Len(v) >= Len(wire)
                                /\ v[Len(v)] = Part(t, 1)
    <3>1. CASE sending[t].part = 1
      <4> DEFINE u == Append(wire, Part(t, 1))
      <4>1. WholeLines(u)
        BY <1>0, <2>1, <2>2, <2>3, <3>1, AppendPart
      <4>2. u \in Seq(Parts) /\ Len(u) = Len(wire) + 1 /\ u[Len(u)] = Part(t, 1)
        BY <1>0, <2>2
      <4>3. wire' = Append(u, Part(t, 2))
        BY <1>0, <1>4, <2>2, <3>1 DEF SendRest
      <4>4. Len(u) \notin cut /\ Len(u) > 0 /\ Len(u) >= Len(wire)
        BY <1>0, <4>2
      <4> HIDE DEF u
      <4> QED
        BY <4>1, <4>2, <4>3, <4>4
    <3>2. CASE sending[t].part # 1
      <4>1. Len(wire) > 0 /\ Len(wire) \notin cut /\ wire[Len(wire)] = Part(t, 1)
        BY <2>1, <2>3, <3>2
      <4>2. wire' = wire \o <<Part(t, 2)>>
        BY <1>4, <3>2 DEF SendRest
      <4>3. wire' = Append(wire, Part(t, 2))
        BY <1>0, <2>2, <4>2
      <4> HIDE DEF TcpTypeOK, LinesInv
      <4> QED
        BY <1>0, <4>1, <4>3
    <3> QED
      BY <3>1, <3>2
  <2>5. WholeLines(Append(v, Part(t, 2)))
    BY <2>2, <2>3, <2>4, AppendPart
  <2>6. LinesAreWhole'
    BY <2>1, <2>4, <2>5 DEF LinesAreWhole, WholeLines
  <2>7. Len(wire') = Len(v) + 1 /\ wire'[Len(wire')] = Part(t, 2) /\ Len(v) \in Nat
    BY <2>2, <2>4
  <2>8. Settled(wire)'
    BY <2>3, <2>7 DEF Settled
  <2>9. cut' \subseteq 1 .. Len(wire')
    BY <1>0, <2>1, <2>4, <2>7
  <2> QED
    BY <2>1, <2>6, <2>8, <2>9
<1>5. ASSUME NEW t \in Threads, SendFails(t)
      PROVE  LinesInv'
  <2>1. /\ sending[t].line # NoMessage /\ wire' = wire
        /\ cut' = IF sending[t].part = 2 THEN cut \cup {Len(wire)} ELSE cut
        /\ \A u \in Threads : sending'[u].line = NoMessage
    BY <1>5 DEF SendFails, Unlock, Idle
  <2>2. CASE sending[t].part = 1
    BY <2>1, <2>2 DEF LinesAreWhole, Settled
  <2>3. CASE sending[t].part # 1
    <3>0. sending[t].part = 2
      BY <2>3
    <3>a. Len(wire) > 0 /\ wire[Len(wire)] = [line |-> sending[t].line, part |-> 1]
      BY <2>1, <3>0
    <3>b. wire[Len(wire)].part = 1
      BY <3>a
    <3>c. cut' = cut \cup {Len(wire)}
      BY <2>1, <3>0
    <3>1. /\ cut' = cut \cup {Len(wire)} /\ Len(wire) > 0
          /\ wire[Len(wire)].part = 1
      BY <3>a, <3>b, <3>c
    <3>d. Len(wire) \in 1 .. Len(wire) /\ cut \subseteq 1 .. Len(wire)
      BY <1>0, <3>a
    <3>2. Settled(wire)' /\ cut' \subseteq 1 .. Len(wire')
      <4>1. cut' \subseteq 1 .. Len(wire')
        BY <2>1, <3>c, <3>d
      <4>2. Len(wire') \in cut'
        BY <2>1, <3>c
      <4> QED
        BY <4>1, <4>2 DEF Settled
    <3>3. ASSUME NEW i \in 1 .. Len(wire), wire[i].part = 2
          PROVE  i - 1 \notin cut'
      <4>1. i - 1 \notin cut
        BY <1>0, <3>3 DEF WholeLines
      <4>2. i - 1 # Len(wire)
        BY <1>0, <3>3
      <4> QED
        BY <3>1, <4>1, <4>2
    <3>4. LinesAreWhole'
      BY <2>1, <3>1, <3>3 DEF LinesAreWhole
    <3> QED
      BY <2>1, <3>2, <3>4
  <2> QED
    BY <2>2, <2>3
<1> QED
  BY <1>1, <1>2, <1>3, <1>4, <1>5 DEF TcpSteps

LEMMA InitTypes ==
  ASSUME Init
  PROVE  TcpTypeOK
<1>1. /\ tcpMutex = {} /\ wire = <<>> /\ cut = {}
      /\ sending = [t \in Threads |-> [line |-> NoMessage, part |-> 1]]
  BY DEF Init, Idle
<1>2. [line |-> NoMessage, part |-> 1] \in [line : Lines \cup {NoMessage}, part : {1, 2}]
  OBVIOUS
<1>3. sending \in [Threads -> [line : Lines \cup {NoMessage}, part : {1, 2}]]
  BY <1>1, <1>2
<1>4. wire \in Seq([line : Lines, part : {1, 2}]) /\ tcpMutex \subseteq Threads
  BY <1>1
<1> QED
  BY <1>1, <1>3, <1>4 DEF TcpTypeOK

\* What LinesInv says, with the types it needs, holds always.
THEOREM LinesHold == Spec => [](TcpTypeOK /\ LinesInv)
<1>1. Init => TcpTypeOK /\ LinesInv
  <2> SUFFICES ASSUME Init PROVE TcpTypeOK /\ LinesInv
    OBVIOUS
  <2>1. /\ tcpMutex = {} /\ wire = <<>> /\ cut = {}
        /\ sending = [t \in Threads |-> [line |-> NoMessage, part |-> 1]]
    BY DEF Init, Idle
  <2>2. TcpTypeOK
    BY InitTypes
  <2>3. Len(wire) = 0 /\ \A t \in Threads : sending[t].line = NoMessage
    BY <2>1
  <2>4. LinesAreWhole
    BY <2>3 DEF LinesAreWhole
  <2> QED
    BY <2>1, <2>2, <2>3, <2>4 DEF LinesInv, Settled
<1>2. TcpTypeOK /\ LinesInv /\ [Next]_vars => (TcpTypeOK /\ LinesInv)'
  BY EveryStepIsTcpStep, TcpTypeStep, LinesStep
<1> QED
  BY <1>1, <1>2, PTL DEF Spec

\* Lines never mix on the wire, and one that is incomplete is one whose own
\* SendTCP failed, even if later lines follow it (srs_client.cpp:565-581).
THEOREM LinesStayWhole == Spec => []LinesAreWhole
<1>1. LinesInv => LinesAreWhole
  BY DEF LinesInv
<1> QED
  BY LinesHold, <1>1, PTL

-----------------------------------------------------------------------------
(* The handshake.                                                          *)

\* Who sends the password, and what each state of the stream thread and each
\* unread line of the server mean.
AuthInv ==
  /\ \A t \in Threads : sending[t].line = "password" => t = "stream" /\ pc = "proving"
  /\ OnWire("password") => pc \in {"proving", "verdict", "stream", "closed"}
  /\ OnWire("password") => eam /\ EamPassword # NoPassword
  /\ pc = "reply" => EamPassword # NoPassword
  /\ pc \in {"password", "proving", "verdict"} => eam /\ EamPassword # NoPassword
  /\ \A i \in 1 .. Len(inbox) : inbox[i] = "on" => eam
  /\ \A i \in 1 .. Len(inbox) : inbox[i] = "accepted" => accepted
  /\ accepted => "password" \in answered
  /\ pc = "stream" /\ OnWire("password") => accepted

\* Only what a thread is sending comes to be on the wire.
LEMMA WireGrows ==
  ASSUME TcpTypeOK, TcpSteps, NEW line, OnWire(line)'
  PROVE  OnWire(line) \/ \E t \in Threads : sending[t].line = line
<1> USE DEF TcpTypeOK, OnWire
<1>1. CASE wire' = wire
  BY <1>1
<1>2. ASSUME NEW t \in Threads, SendPart(t)
      PROVE  OnWire(line) \/ \E u \in Threads : sending[u].line = line
  <2>1. wire' = Append(wire, Part(t, 1)) /\ Part(t, 1).line = sending[t].line
    BY <1>2 DEF SendPart, Part
  <2>2. PICK i \in 1 .. Len(wire') : wire'[i].line = line
    OBVIOUS
  <2>3. CASE i \in 1 .. Len(wire)
    BY <2>1, <2>2, <2>3
  <2>4. CASE i \notin 1 .. Len(wire)
    BY <2>1, <2>2, <2>4
  <2> QED
    BY <2>3, <2>4
<1>3. ASSUME NEW t \in Threads, SendRest(t)
      PROVE  OnWire(line) \/ \E u \in Threads : sending[u].line = line
  <2>1. /\ \/ wire' = wire \o <<Part(t, 1), Part(t, 2)>>
           \/ wire' = wire \o <<Part(t, 2)>>
        /\ Part(t, 1).line = sending[t].line /\ Part(t, 2).line = sending[t].line
    BY <1>3 DEF SendRest, Part
  <2>2. PICK i \in 1 .. Len(wire') : wire'[i].line = line
    OBVIOUS
  <2>3. CASE i \in 1 .. Len(wire)
    BY <2>1, <2>2, <2>3
  <2>4. CASE i \notin 1 .. Len(wire)
    BY <2>1, <2>2, <2>4
  <2> QED
    BY <2>3, <2>4
<1> QED
  BY <1>1, <1>2, <1>3 DEF TcpSteps, tcpVars, LockTcp, SendFails

AuthTypeOK == TcpTypeOK /\ inbox \in Seq(Replies)

LEMMA InboxTypeStep ==
  ASSUME inbox \in Seq(Replies), [Next]_vars
  PROVE  inbox' \in Seq(Replies)
<1>1. CASE ReadReply \/ ReadVerdict
  BY <1>1 DEF ReadReply, ReadVerdict, Reads, TimesOut
<1>2. CASE ServerAnswers \/ ServerTalks
  BY <1>2 DEF ServerAnswers, ServerTalks, ServerSays, Replies
<1>3. CASE inbox' = inbox
  BY <1>3
<1> QED
  BY <1>1, <1>2, <1>3 DEF Next, vars, serverVars, Connect, HandshakeStarts, HandshakeSends,
     StreamStarts, LuaStarts, StartLine, StreamSends, SendVoice, Disconnect,
     ReadBytes, ReadFails, ServerDrips

LEMMA AuthStep ==
  ASSUME AuthTypeOK, AuthInv, [Next]_vars
  PROVE  AuthInv'
<1> USE DEF AuthTypeOK
<1>0. /\ TcpSteps
      /\ OnWire("password")' => OnWire("password") \/ \E t \in Threads : sending[t].line = "password"
  BY EveryStepIsTcpStep, WireGrows
<1>a. NoMessage # "password"
  BY LinkAssumption
<1>1. CASE Connect \/ SendVoice \/ Disconnect \/ ReadBytes \/ ReadFails \/ ServerDrips
           \/ UNCHANGED vars
  BY <1>1 DEF AuthInv, Connect, SendVoice, Disconnect, ReadBytes, ReadFails, ServerDrips, vars,
              Goes, OnWire, tcpVars, serverVars, EamPassword
<1>2. CASE HandshakeStarts
  <2>1. /\ pc' \in {"syncing", "proving"} /\ (pc' = "proving" => pc = "password")
        /\ pc' = "syncing" => pc = "sync"
        /\ wire' = wire
        /\ \/ pc' = "syncing" /\ LockTcp("stream", "sync")
           \/ pc' = "proving" /\ LockTcp("stream", "password")
    BY <1>2 DEF HandshakeStarts, Goes, LockTcp
  <2>2. /\ UNCHANGED <<eam, inbox, answered, accepted>> /\ EamPassword' = EamPassword
        /\ OnWire("password")' = OnWire("password")
    BY <1>2, <2>1 DEF HandshakeStarts, OnWire, serverVars, EamPassword
  <2>5. /\ sending'["lua"] = sending["lua"]
        /\ pc' = "syncing" => sending'["stream"].line = "sync"
    BY <2>1 DEF LockTcp, TcpTypeOK, Threads
  <2>3. \A t \in Threads : sending'[t].line = "password" => t = "stream" /\ pc' = "proving"
    BY <2>1, <2>5 DEF AuthInv, Threads
  <2>4. ~OnWire("password")
    BY <2>1, <1>2 DEF AuthInv, HandshakeStarts, Goes
  <2> QED
    BY <2>1, <2>2, <2>3, <2>4 DEF AuthInv
<1>3. CASE HandshakeSends
  <2>1. sending' \in [Threads -> [line : Lines \cup {NoMessage}, part : {1, 2}]]
    BY <1>0, TcpTypeStep DEF TcpTypeOK
  <2>2. CASE SendPart("stream")
    <3>1. sending'["stream"].line = sending["stream"].line /\ sending'["lua"] = sending["lua"]
      BY <2>2 DEF SendPart, TcpTypeOK, Threads
    <3>2. pc' = pc
      BY <1>3, <2>2, <2>1 DEF HandshakeSends, SendPart, SendRest, SendFails, Unlock, Idle,
                              TcpTypeOK, Threads
    <3> QED
      BY <1>0, <1>3, <3>1, <3>2 DEF AuthInv, Threads, HandshakeSends, serverVars, EamPassword
  <2>3. CASE ~SendPart("stream")
    <3>1. sending'["stream"].line = NoMessage /\ sending'["lua"] = sending["lua"]
      BY <1>3, <2>3 DEF HandshakeSends, SendRest, SendFails, Unlock, Idle, TcpTypeOK, Threads
    <3>2. \/ pc = "syncing" /\ pc' = "reply" /\ EamPassword # NoPassword
          \/ pc = "syncing" /\ pc' = "stream"
          \/ pc = "proving" /\ pc' \in {"verdict", "closed"}
          \/ pc = "syncing" /\ pc' = "closed"
      BY <1>3, <2>3 DEF HandshakeSends, Goes
    <3>3. UNCHANGED <<coalition, eam, inbox, answered, accepted>> /\ EamPassword' = EamPassword
      BY <1>3 DEF HandshakeSends, serverVars, EamPassword
    <3>4. \A t \in Threads : sending'[t].line # "password"
      BY <1>a, <3>1, <3>2 DEF AuthInv, Threads
    <3>5. OnWire("password")' => pc = "proving"
      BY <1>0, <3>2 DEF AuthInv
    <3> QED
      BY <1>0, <3>2, <3>3, <3>4, <3>5 DEF AuthInv
  <2> QED
    BY <2>2, <2>3
<1>4. CASE ReadReply
  <2>1. /\ pc = "reply" /\ pc' \in {"password", "stream"}
        /\ UNCHANGED <<coalition, sending, wire, eam, answered, accepted>>
        /\ pc' = "password" => Reads("on")
        /\ EamPassword' = EamPassword
    BY <1>4 DEF ReadReply, Goes, tcpVars, EamPassword
  <2>2. \/ inbox' = inbox
        \/ /\ Len(inbox') = Len(inbox) - 1 /\ Len(inbox) \in Nat
           /\ \A i \in 1 .. Len(inbox') : inbox'[i] = inbox[i + 1]
    BY <1>4 DEF ReadReply, Reads, TimesOut
  <2>3. Reads("on") => eam
    BY DEF Reads, AuthInv
  <2>4. OnWire("password")' = OnWire("password") /\ ~OnWire("password")
    BY <2>1 DEF AuthInv, OnWire
  <2>5. \A i \in 1 .. Len(inbox') : \E j \in 1 .. Len(inbox) : inbox'[i] = inbox[j]
    BY <2>2
  <2>6. /\ \A i \in 1 .. Len(inbox') : inbox'[i] = "on" => eam'
        /\ \A i \in 1 .. Len(inbox') : inbox'[i] = "accepted" => accepted'
    BY <2>1, <2>5 DEF AuthInv
  <2> QED
    BY <2>1, <2>3, <2>4, <2>6 DEF AuthInv
<1>5. CASE ReadVerdict
  <2>1. /\ pc = "verdict" /\ pc' \in {"closed", "stream"}
        /\ UNCHANGED <<coalition, sending, wire, eam, answered, accepted>>
        /\ pc' = "stream" => Reads("accepted")
        /\ EamPassword' = EamPassword
    BY <1>5 DEF ReadVerdict, Goes, tcpVars, EamPassword
  <2>2. \/ inbox' = inbox
        \/ /\ Len(inbox') = Len(inbox) - 1 /\ Len(inbox) \in Nat
           /\ \A i \in 1 .. Len(inbox') : inbox'[i] = inbox[i + 1]
    BY <1>5 DEF ReadVerdict, Reads, TimesOut
  <2>3. Reads("accepted") => accepted
    BY DEF Reads, AuthInv
  <2>4. OnWire("password")' = OnWire("password")
    BY <2>1 DEF OnWire
  <2>5. \A i \in 1 .. Len(inbox') : \E j \in 1 .. Len(inbox) : inbox'[i] = inbox[j]
    BY <2>2
  <2>6. /\ \A i \in 1 .. Len(inbox') : inbox'[i] = "on" => eam'
        /\ \A i \in 1 .. Len(inbox') : inbox'[i] = "accepted" => accepted'
    BY <2>1, <2>5 DEF AuthInv
  <2> QED
    BY <2>1, <2>3, <2>4, <2>6 DEF AuthInv
<1>6. CASE StreamStarts \/ LuaStarts \/ \E t \in Threads : StreamSends(t)
  <2>1. /\ pc = "stream" /\ pc' = pc
        /\ UNCHANGED <<coalition, eam, inbox, answered, accepted>>
        /\ EamPassword' = EamPassword
    BY <1>6 DEF StreamStarts, LuaStarts, StartLine, StreamSends, serverVars, EamPassword
  <2>2. \A t \in Threads : sending'[t].line # "password"
    <3>1. ASSUME NEW t \in Threads, NEW line \in {"ping", "heartbeat", "update"},
                 LockTcp(t, line), NEW u \in Threads
          PROVE  sending'[u].line # "password"
      BY <2>1, <3>1 DEF AuthInv, LockTcp, TcpTypeOK
    <3>2. ASSUME NEW t \in Threads, SendPart(t) \/ SendRest(t) \/ SendFails(t), NEW u \in Threads
          PROVE  sending'[u].line # "password"
      <4>1. sending[u].line # "password"
        BY <2>1 DEF AuthInv
      <4>2. sending'[u].line = sending[u].line \/ sending'[u].line = NoMessage
        <5>1. CASE SendPart(t)
          BY <5>1 DEF SendPart, TcpTypeOK
        <5>2. CASE SendRest(t) \/ SendFails(t)
          BY <5>2 DEF SendRest, SendFails, Unlock, Idle, TcpTypeOK
        <5> QED
          BY <3>2, <5>1, <5>2
      <4> QED
        BY <1>a, <4>1, <4>2
    <3>3. \/ \E t \in Threads, line \in {"ping", "heartbeat", "update"} : LockTcp(t, line)
          \/ \E t \in Threads : SendPart(t) \/ SendRest(t) \/ SendFails(t)
      BY <1>6 DEF StreamStarts, LuaStarts, StartLine, StreamSends, Threads
    <3> QED
      BY <3>1, <3>2, <3>3
  <2>3. OnWire("password")' => OnWire("password")
    BY <1>0, <2>1 DEF AuthInv
  <2> QED
    BY <2>1, <2>2, <2>3 DEF AuthInv
<1>7. CASE ServerAnswers
  <2>1. /\ UNCHANGED <<pc, coalition, sending, wire, eam>>
        /\ EamPassword' = EamPassword /\ OnWire("password")' = OnWire("password")
    BY <1>7 DEF ServerAnswers, tcpVars, EamPassword, OnWire
  <2>2. PICK l \in Replies : /\ inbox' = Append(inbox, l)
                             /\ l = "on" => eam
                             /\ l = "accepted" => accepted'
    BY <1>7 DEF ServerAnswers, ServerSays, Replies
  <2>3. /\ accepted => accepted'
        /\ accepted' => "password" \in answered'
    BY <1>7 DEF ServerAnswers, AuthInv
  <2>4. /\ Len(inbox') = Len(inbox) + 1 /\ Len(inbox) \in Nat
        /\ inbox'[Len(inbox) + 1] = l
        /\ \A i \in 1 .. Len(inbox) : inbox'[i] = inbox[i]
    BY <2>2
  <2>5. \A i \in 1 .. Len(inbox') : i \in 1 .. Len(inbox) \/ i = Len(inbox) + 1
    BY <2>4
  <2>6. \A i \in 1 .. Len(inbox') : inbox'[i] = "on" => eam'
    BY <2>1, <2>2, <2>4, <2>5 DEF AuthInv
  <2>7. \A i \in 1 .. Len(inbox') : inbox'[i] = "accepted" => accepted'
    BY <2>2, <2>3, <2>4, <2>5 DEF AuthInv
  <2> QED
    BY <2>1, <2>3, <2>6, <2>7 DEF AuthInv
<1>8. CASE ServerTalks
  <2>1. /\ UNCHANGED <<pc, coalition, sending, wire, eam, answered, accepted>>
        /\ EamPassword' = EamPassword /\ OnWire("password")' = OnWire("password")
        /\ inbox' = Append(inbox, "other")
    BY <1>8 DEF ServerTalks, ServerSays, tcpVars, EamPassword, OnWire
  <2>2. /\ \A i \in 1 .. Len(inbox') : inbox'[i] = "on" => eam'
        /\ \A i \in 1 .. Len(inbox') : inbox'[i] = "accepted" => accepted'
    BY <2>1 DEF AuthInv
  <2> QED
    BY <2>1, <2>2 DEF AuthInv
<1> QED
  BY <1>1, <1>2, <1>3, <1>4, <1>5, <1>6, <1>7, <1>8 DEF Next

\* A client that has sent any part of its password streams only once it was
\* accepted, and it sends none to a server that does not ask for one
\* (srs_client.cpp:223-285).
THEOREM HandshakeIsSound == Spec => []AuthSound
<1>1. Init => AuthTypeOK /\ AuthInv
  <2> SUFFICES ASSUME Init PROVE AuthTypeOK /\ AuthInv
    OBVIOUS
  <2>1. wire = <<>> /\ inbox = <<>> /\ accepted = FALSE /\ pc = "connect"
        /\ \A t \in Threads : sending[t].line = NoMessage
    BY DEF Init, Idle
  <2>2. TcpTypeOK
    BY InitTypes
  <2>3. inbox \in Seq(Replies) /\ Len(inbox) = 0 /\ Len(wire) = 0
    BY <2>1
  <2>4. NoMessage # "password"
    BY LinkAssumption
  <2> QED
    BY <2>1, <2>2, <2>3, <2>4 DEF AuthTypeOK, AuthInv, OnWire
<1>2. AuthTypeOK /\ AuthInv /\ [Next]_vars => (AuthTypeOK /\ AuthInv)'
  BY EveryStepIsTcpStep, TcpTypeStep, InboxTypeStep, AuthStep DEF AuthTypeOK
<1>3. AuthTypeOK /\ AuthInv => AuthSound
  BY DEF AuthInv, AuthSound
<1> QED
  BY <1>1, <1>2, <1>3, PTL DEF Spec

-----------------------------------------------------------------------------
(* The remaining variables.                                                *)

PlainTypeOK ==
  /\ pc \in {"connect", "sync", "syncing", "reply", "password", "proving", "verdict",
             "stream", "closed"}
  /\ coalition \in 0 .. 2
  /\ freqCount \in FreqCounts
  /\ sent \in 0 .. MaxUpdates
  /\ eam \in BOOLEAN
  /\ fragment \in BOOLEAN
  /\ answered \subseteq {"sync", "password"}
  /\ accepted \in BOOLEAN

LEMMA PlainTypeStep ==
  ASSUME PlainTypeOK, [Next]_vars
  PROVE  PlainTypeOK'
<1> USE DEF PlainTypeOK, Goes
<1>1. CASE Connect \/ HandshakeStarts \/ HandshakeSends \/ ReadReply \/ ReadVerdict
  BY <1>1 DEF Connect, HandshakeStarts, HandshakeSends, ReadReply, ReadVerdict, serverVars
<1>2. CASE StreamStarts \/ LuaStarts
  <2>1. sent < MaxUpdates /\ sent' = sent + 1 /\ UNCHANGED <<pc, coalition, freqCount, serverVars>>
    BY <1>2 DEF StreamStarts, LuaStarts, StartLine
  <2>2. sent' \in 0 .. MaxUpdates
    BY <2>1, LinkAssumption
  <2> QED
    BY <2>1, <2>2 DEF serverVars
<1>3. CASE (\E t \in Threads : StreamSends(t)) \/ SendVoice \/ Disconnect
  BY <1>3 DEF StreamSends, SendVoice, Disconnect, serverVars
<1>4. CASE ServerTalks \/ ServerDrips \/ ReadBytes \/ ReadFails \/ UNCHANGED vars
  BY <1>4 DEF ServerTalks, ServerSays, ServerDrips, ReadBytes, ReadFails, vars, serverVars
<1>5. CASE ServerAnswers
  <2>1. UNCHANGED <<pc, coalition, freqCount, sent, eam>>
    BY <1>5 DEF ServerAnswers
  <2>2. answered' \subseteq {"sync", "password"}
    BY <1>5 DEF ServerAnswers
  <2>3. accepted' \in BOOLEAN /\ fragment' \in BOOLEAN
    BY <1>5 DEF ServerAnswers, ServerSays
  <2> QED
    BY <2>1, <2>2, <2>3
<1> QED
  BY <1>1, <1>2, <1>3, <1>4, <1>5 DEF Next

Packets == [total : Nat, audio : Nat, freq : Nat, written : Nat]

LEMMA PacketTypeStep ==
  ASSUME freqCount \in FreqCounts, packet \in Packets, [Next]_vars
  PROVE  packet' \in Packets
<1>1. CASE SendVoice
  <2>1. PICK n \in FrameSizes : packet' = BuildVoicePacket(n)
    BY <1>1 DEF SendVoice
  <2>2. n \in Nat /\ freqCount \in Nat
    BY LinkAssumption
  <2> DEFINE freqLen == freqCount * FreqEntrySize
  <2>3. freqLen \in Nat
    BY <2>2 DEF FreqEntrySize
  <2>4. packet' = [total |-> Word(HeaderSize + Word(n) + Word(freqLen) + FixedSize),
                   audio |-> Word(n), freq |-> Word(freqLen),
                   written |-> HeaderSize + Word(n) + freqLen + FixedSize]
    BY <2>1 DEF BuildVoicePacket
  <2> HIDE DEF freqLen
  <2>5. \A k \in Nat : Word(k) \in Nat
    BY DEF Word
  <2>6. Word(n) \in Nat /\ Word(freqLen) \in Nat
    BY <2>2, <2>3, <2>5
  <2>7. /\ HeaderSize + Word(n) + Word(freqLen) + FixedSize \in Nat
        /\ HeaderSize + Word(n) + freqLen + FixedSize \in Nat
    BY <2>3, <2>6 DEF HeaderSize, FixedSize
  <2> QED
    BY <2>4, <2>5, <2>6, <2>7 DEF Packets
<1>2. CASE packet' = packet
  BY <1>2
<1> QED
  BY <1>1, <1>2 DEF Next, vars, Connect, HandshakeStarts, HandshakeSends, ReadReply,
     ReadVerdict, ReadBytes, ReadFails, StreamStarts, LuaStarts, StartLine, StreamSends, Disconnect,
     ServerAnswers, ServerTalks, ServerDrips

\* The variables keep their types.
THEOREM TypeCorrect == Spec => []TypeOK
<1> DEFINE I == AuthTypeOK /\ PlainTypeOK /\ packet \in Packets
<1>1. Init => I
  <2> SUFFICES ASSUME Init PROVE I
    OBVIOUS
  <2>1. inbox \in Seq(Replies)
    BY DEF Init
  <2>2. PlainTypeOK
    <3>1. sent \in 0 .. MaxUpdates
      BY LinkAssumption DEF Init
    <3>2. coalition \in 0 .. 2 /\ freqCount \in FreqCounts /\ answered \subseteq {"sync", "password"}
      BY DEF Init
    <3>3. eam \in BOOLEAN /\ accepted \in BOOLEAN /\ fragment \in BOOLEAN
      BY DEF Init
    <3>4. pc = "connect"
      BY DEF Init
    <3> QED
      BY <3>1, <3>2, <3>3, <3>4 DEF PlainTypeOK
  <2>3. packet \in Packets
    BY DEF Init, NoPacket, Packets
  <2> QED
    BY <2>1, <2>2, <2>3, InitTypes DEF AuthTypeOK
<1>2. I /\ [Next]_vars => I'
  <2> SUFFICES ASSUME I, [Next]_vars PROVE I'
    OBVIOUS
  <2>1. PlainTypeOK' /\ AuthTypeOK'
    BY EveryStepIsTcpStep, TcpTypeStep, InboxTypeStep, PlainTypeStep DEF AuthTypeOK
  <2>2. packet' \in Packets
    BY PacketTypeStep DEF PlainTypeOK
  <2> QED
    BY <2>1, <2>2
<1>3. I => TypeOK
  BY DEF AuthTypeOK, TcpTypeOK, PlainTypeOK, Packets, TypeOK
<1> HIDE DEF I
<1> QED
  BY <1>1, <1>2, <1>3, PTL DEF Spec

-----------------------------------------------------------------------------
(* Voice packets.                                                          *)

LEMMA WordIsShort ==
  ASSUME NEW k \in Nat
  PROVE  /\ Word(k) \in Nat /\ Word(k) < 65536
         /\ k < 65536 => Word(k) = k
BY DEF Word

PacketInv == freqCount \in FreqCounts /\ PacketIsWhole

\* What is on the TCP connection can be taken apart again, but for lines whose
\* own SendTCP failed, and so can a voice packet exactly as long as it is
\* shorter than 64 KB (srs_client.cpp:501-581).
THEOREM WireStaysWhole == Spec => []WireIsWhole
<1>1. Init => PacketInv
  BY DEF Init, PacketInv, PacketIsWhole, NoPacket
<1>2. PacketInv /\ [Next]_vars => PacketInv'
  <2> SUFFICES ASSUME PacketInv, [Next]_vars PROVE PacketInv'
    OBVIOUS
  <2>1. CASE SendVoice
    <3>1. PICK n \in FrameSizes : packet' = BuildVoicePacket(n)
      BY <2>1 DEF SendVoice
    <3>2. /\ n \in Nat /\ freqCount \in Nat /\ freqCount' = freqCount
          /\ freqCount \in FreqCounts
      BY <2>1, LinkAssumption DEF SendVoice, PacketInv
    <3> DEFINE freqLen == freqCount * FreqEntrySize
    <3>3. freqLen \in Nat
      BY <3>2 DEF FreqEntrySize
    <3> HIDE DEF freqLen
    <3>4. packet' = [total |-> Word(6 + Word(n) + Word(freqLen) + 57), audio |-> Word(n),
                     freq |-> Word(freqLen), written |-> 6 + Word(n) + freqLen + 57]
      BY <3>1 DEF BuildVoicePacket, freqLen, HeaderSize, FixedSize
    <3>5. PICK a \in Nat, f \in Nat : a = Word(n) /\ f = Word(freqLen)
      BY <3>2, <3>3, WordIsShort
    <3>6. /\ packet'.total = packet'.written <=> packet'.written < 65536
          /\ packet'.written < 65536 => packet'.freq = freqLen
      <4>1. /\ packet'.total = Word(6 + a + f + 57) /\ packet'.freq = f
            /\ packet'.written = 6 + a + freqLen + 57
        BY <3>4, <3>5
      <4>2. 6 + a + f + 57 \in Nat /\ 6 + a + freqLen + 57 \in Nat
        BY <3>3, <3>5
      <4>3. packet'.total < 65536 /\ packet'.total \in Nat
        BY <4>1, <4>2, WordIsShort
      <4>4. CASE 6 + a + freqLen + 57 < 65536
        <5>1. freqLen < 65536
          BY <3>3, <3>5, <4>4
        <5>2. f = freqLen
          BY <3>3, <3>5, <5>1, WordIsShort
        <5>3. Word(6 + a + f + 57) = 6 + a + f + 57
          BY <4>2, <4>4, <5>2, WordIsShort
        <5> QED
          BY <4>1, <4>4, <5>2, <5>3
      <4>5. CASE ~(6 + a + freqLen + 57 < 65536)
        BY <4>1, <4>2, <4>3, <4>5
      <4> QED
        BY <4>4, <4>5
    <3> QED
      BY <3>2, <3>6 DEF PacketInv, PacketIsWhole, freqLen
  <2>2. CASE packet' = packet /\ freqCount' = freqCount
    BY <2>2 DEF PacketInv, PacketIsWhole
  <2> QED
    BY <2>1, <2>2 DEF Next, vars, Connect, HandshakeStarts, HandshakeSends, ReadReply,
       ReadVerdict, ReadBytes, ReadFails, StreamStarts, LuaStarts, StartLine, StreamSends, Disconnect,
       ServerAnswers, ServerTalks, ServerDrips
<1>3. LinesAreWhole /\ PacketInv => WireIsWhole
  BY DEF WireIsWhole, PacketInv
<1>4. Spec => []PacketInv
  BY <1>1, <1>2, PTL DEF Spec
<1> QED
  BY <1>3, <1>4, LinesStayWhole, PTL

=============================================================================
