----------------------------- MODULE SocketsProofs -----------------------------
(***************************************************************************)
(* That counting bytes keeps client and server of sockets/client.c and     *)
(* server.c in step, and the echo programs too, for any number of rounds,  *)
(* lengths of messages and buffers, however the bytes are cut up and       *)
(* whoever is killed, as long as the time comes in one piece.              *)
(***************************************************************************)
EXTENDS MCSockets, SequenceTheorems, WellFoundedInduction, TLAPS

-----------------------------------------------------------------------------
(* The invariant                                                           *)

Typed ==
  /\ mode \in {"char", "node", "echo"}
  /\ spc \in {"start", "accept", "recv", "send", "spin", "done", "error", "killed"}
  /\ ci \in Nat \ {0} /\ si \in Nat \ {0} /\ total_sent \in Nat
  /\ toServer \in Seq(Nat) /\ toClient \in Seq(Nat) /\ message \in Seq(Nat)
  /\ after \in Seq(Nat) /\ Len(after) = TimeSize

\* the echo client has one round and has sent nothing before it
EchoOnce ==
  mode = "echo" =>
    \/ cpc = "done"
    \/ ci = 1 /\ (cpc \in {"connect", "build"} => total_sent = 0)

Lost == cpc \in {"error", "crashed", "killed"}
Serving == spc \in {"start", "accept", "recv", "send"}

\* bytes of a round that the client has begun and the server not answered
Unread == Len(message) + Len(toServer)

\* the answer is under way
AnswerSent ==
  si = ci + 1 /\ toClient \in Seq({ci}) /\ Len(toClient) = TimeSize

BeforeMessage ==
  si = ci /\ toServer = <<>> /\ message = <<>> /\ toClient = <<>> /\ spc # "send"
InMessage ==
  si = ci /\ toClient = <<>> /\ Unread <= total_sent /\ total_sent < Length(ci)
AfterMessage ==
  \/ si = ci /\ toClient = <<>> /\ total_sent = Length(ci)
  \/ AnswerSent /\ toServer = <<>> /\ message = <<>> /\ spc = "recv" /\ ci # Rounds

\* while the server serves, it has bytes of the message of its round only,
\* and no more than that message has
ServerOwn ==
  /\ message \in Seq({si}) /\ toServer \in Seq({si}) /\ Unread <= Length(si)
  /\ spc = "send" /\ mode # "echo" => Len(message) = Length(si)
  /\ mode = "echo" => si = 1 /\ (spc = "send" => message # <<>> \/ Lost)

\* and the two are in the same round, or the client has yet to read the answer
SameRound ==
  /\ cpc \in {"connect", "build", "send", "recv"} \/ Lost
  /\ cpc \in {"connect", "build"} => BeforeMessage
  /\ cpc = "send" => InMessage
  /\ cpc = "recv" => AfterMessage

InRound == ~split /\ Serving => ServerOwn /\ SameRound

\* the server has answered the last message
AtEnd ==
  ~split /\ spc = "done" =>
    \/ Lost \/ cpc = "done"
    \/ /\ cpc = "recv" \/ (cpc = "send" /\ mode = "echo")
       /\ ci = Rounds /\ AnswerSent
       /\ mode # "echo" => toServer = <<>>

InStep ==
  ~split /\ ~Lost /\ spc \notin {"error", "killed", "spin"}

\* the answer read last is that of the round before
LastRead == InStep /\ cpc # "done" => after[1] = ci - 1

IInv == Typed /\ EchoOnce /\ InRound /\ AtEnd /\ LastRead /\ OwnBytes

-----------------------------------------------------------------------------
(* Bytes                                                                   *)

LEMMA ConstantsTyped ==
  /\ Points \in Nat \ {0} /\ Inc \in Nat \ {0} /\ TimeSize \in Nat \ {0}
  /\ Buffer \in Nat \ {0} /\ Limit \in Nat \ {0}
BY SocketsAssumption

LEMMA LengthTyped == ASSUME NEW i \in Nat \ {0}, Typed PROVE Length(i) \in Nat \ {0}
<1>1. i * Inc \in Nat \ {0}
  BY ConstantsTyped
<1>2. CASE mode = "node"
  BY <1>1, <1>2, ConstantsTyped DEF Length
<1>3. CASE mode = "char"
  BY <1>1, <1>3 DEF Length
<1>4. CASE mode = "echo"
  BY <1>4, ConstantsTyped DEF Length
<1>. QED BY <1>2, <1>3, <1>4 DEF Typed

LEMMA RoundsTyped == Rounds \in Nat \ {0} /\ (mode = "echo" => Rounds = 1)
BY ConstantsTyped DEF Rounds

LEMMA BytesOf ==
  ASSUME NEW i \in Nat, NEW n \in Nat
  PROVE  /\ Bytes(i, n) \in Seq({i}) /\ Bytes(i, n) \in Seq(Nat) /\ Len(Bytes(i, n)) = n
         /\ n # 0 => Bytes(i, n) # <<>> /\ Bytes(i, n)[1] = i
BY DEF Bytes

\* a stream cut in two
LEMMA Cut ==
  ASSUME NEW S, NEW list \in Seq(S), NEW n \in 0..Len(list)
  PROVE  /\ SubSeq(list, 1, n) \in Seq(S) /\ Len(SubSeq(list, 1, n)) = n
         /\ SubSeq(list, n + 1, Len(list)) \in Seq(S)
         /\ Len(SubSeq(list, n + 1, Len(list))) = Len(list) - n
         /\ n # 0 => SubSeq(list, 1, n)[1] = list[1]
<1>1. Len(list) \in Nat /\ \A i \in 1..Len(list) : list[i] \in S
  BY LenProperties, ElementOfSeq
<1>2. /\ SubSeq(list, 1, n) \in Seq(S) /\ Len(SubSeq(list, 1, n)) = n
      /\ \A i \in 1..n : SubSeq(list, 1, n)[i] = list[i]
  <2>1. \A i \in 1..n : list[i] \in S
    BY <1>1
  <2>. QED BY <1>1, <2>1, SubSeqProperties
<1>3. /\ SubSeq(list, n + 1, Len(list)) \in Seq(S)
      /\ Len(SubSeq(list, n + 1, Len(list))) = Len(list) - n
  <2>1. \A i \in n+1..Len(list) : list[i] \in S
    BY <1>1
  <2>2. n + 1 \in Int /\ Len(list) \in Int
    BY <1>1
  <2>. QED BY <1>1, <2>1, <2>2, SubSeqProperties
<1>. QED BY <1>2, <1>3

LEMMA Empty ==
  ASSUME NEW S
  PROVE  /\ <<>> \in Seq(S) /\ Len(<<>>) = 0
         /\ \A list \in Seq(S) : Len(list) \in Nat /\ (Len(list) = 0 <=> list = <<>>)
BY EmptySeq

\* what n bytes read from a stream leave there and add to a buffer
LEMMA Moved ==
  ASSUME NEW S, NEW from \in Seq(S), NEW to \in Seq(S), NEW n \in 0..Len(from)
  PROVE  /\ to \o SubSeq(from, 1, n) \in Seq(S)
         /\ Len(to \o SubSeq(from, 1, n)) = Len(to) + n
         /\ SubSeq(from, n + 1, Len(from)) \in Seq(S)
         /\ Len(SubSeq(from, n + 1, Len(from))) = Len(from) - n
<1>1. /\ SubSeq(from, 1, n) \in Seq(S) /\ Len(SubSeq(from, 1, n)) = n
      /\ SubSeq(from, n + 1, Len(from)) \in Seq(S)
      /\ Len(SubSeq(from, n + 1, Len(from))) = Len(from) - n
  BY Cut
<1>2. ASSUME NEW piece \in Seq(S)
      PROVE  to \o piece \in Seq(S) /\ Len(to \o piece) = Len(to) + Len(piece)
  BY ConcatProperties
<1>. QED BY <1>1, <1>2

-----------------------------------------------------------------------------
(* The invariant holds                                                     *)

LEMMA InitHolds == ASSUME Init PROVE IInv
<1>1. <<>> \in Seq(Nat) /\ <<>> \in Seq({1}) /\ Len(<<>>) = 0
  BY Empty
<1>2. /\ Bytes(0, TimeSize) \in Seq(Nat) /\ Len(Bytes(0, TimeSize)) = TimeSize
      /\ Bytes(0, TimeSize)[1] = 0
  BY ConstantsTyped, BytesOf
<1>3. Typed
  BY <1>1, <1>2 DEF Init, Typed
<1>4. EchoOnce /\ AtEnd
  BY DEF Init, EchoOnce, AtEnd
<1>5. InRound
  <2>1. Length(1) \in Nat
    BY <1>3, LengthTyped
  <2>. QED BY <1>1, <2>1 DEF Init, InRound, ServerOwn, SameRound, Unread, BeforeMessage
<1>6. LastRead
  BY <1>2 DEF Init, LastRead
<1>7. OwnBytes
  <2>1. Length(1) \in Nat
    BY <1>3, LengthTyped
  <2>. QED BY <1>1, <2>1 DEF Init, OwnBytes
<1>. QED BY <1>3, <1>4, <1>5, <1>6, <1>7 DEF IInv

\* OwnBytes speaks of the server's part of the state only
LEMMA OwnUntouched ==
  ASSUME OwnBytes, UNCHANGED <<message, si, mode>>, ~split' => ~split
  PROVE  OwnBytes'
BY DEF OwnBytes, Length

LEMMA OwnAfter ==
  ASSUME Typed', message' \in Seq({si'}), (Unread <= Length(si))', Length(si)' \in Nat
  PROVE  OwnBytes'
<1>1. DOMAIN message' = 1..Len(message') /\ Len(message') \in Nat /\ Len(toServer') \in Nat
  BY LenProperties, Empty DEF Typed
<1>2. \A k \in DOMAIN message' : message'[k] = si'
  BY <1>1, ElementOfSeq
<1>3. Len(message') <= Length(si)'
  BY <1>1 DEF Unread
<1>. QED BY <1>2, <1>3 DEF OwnBytes

\* the steps that move no bytes and end no round
LEMMA QuietHolds ==
  ASSUME IInv,
         \/ Connect \/ ChooseMessage \/ SendFails \/ Listen \/ Accept
         \/ ReadNothing \/ ReadFails \/ ReplyFails \/ KillClient \/ KillServer
         \/ Build
  PROVE  IInv'
<1>. USE DEF IInv
<1>1. UNCHANGED <<toServer, toClient, ci, after, si, message, split, mode>>
  BY DEF Connect, ChooseMessage, SendFails, Listen, Accept, ReadNothing, ReadFails,
     ReplyFails, KillClient, KillServer, Build, ClientStep, ServerStep, client, server
<1>2. CASE Connect \/ ChooseMessage \/ Build \/ SendFails
  <2>1. /\ cpc \in {"connect", "build", "send"} /\ cpc' \in {"build", "send", "error", "crashed", "recv"}
        /\ cpc = "connect" /\ cpc' # "error" => cpc' = "build" /\ total_sent' = total_sent
        /\ cpc = "build" => cpc' \in {"send", "crashed"}
             /\ total_sent' = IF mode = "echo" THEN total_sent ELSE 0
        /\ cpc = "send" => Gone(spc) /\ (cpc' = "recv" => mode = "echo")
             /\ cpc' \in {"recv", "error"}
        /\ total_sent' \in {0, total_sent}
        /\ spc' = spc
    BY <1>2 DEF Connect, ChooseMessage, SendFails, Build, ClientStep, server
  <2>2. Typed' /\ EchoOnce' /\ OwnBytes'
    BY <1>1, <2>1, OwnUntouched DEF Typed, EchoOnce
  <2>3. InRound'
    <3>1. CASE cpc = "send"
      BY <1>1, <2>1, <3>1 DEF InRound, Serving, Gone
    <3>2. CASE cpc = "connect"
      BY <1>1, <2>1, <3>2 DEF InRound, Serving, ServerOwn, SameRound, BeforeMessage, Unread,
         Length, Lost
    <3>3. CASE cpc = "build"
      <4>1. Length(ci) \in Nat \ {0} /\ Length(ci)' = Length(ci)
        BY <1>1, LengthTyped DEF Typed, Length
      <4>2. BeforeMessage /\ cpc' = "send" /\ ~split /\ Serving => InMessage'
        <5>1. total_sent' = 0
          BY <2>1, <3>3 DEF EchoOnce
        <5>. QED BY <1>1, <2>1, <4>1, <5>1, Empty DEF BeforeMessage, InMessage, Unread
      <4>. QED BY <1>1, <2>1, <3>3, <4>2
               DEF InRound, Serving, ServerOwn, SameRound, Unread, Length, Lost
    <3>. QED BY <2>1, <3>1, <3>2, <3>3
  <2>4. AtEnd'
    BY <1>1, <2>1 DEF AtEnd, Rounds, AnswerSent, Lost
  <2>5. LastRead'
    BY <1>1, <2>1 DEF LastRead, InStep, Lost
  <2>. QED BY <2>2, <2>3, <2>4, <2>5
<1>3. CASE KillClient
  <2>1. cpc' \in {"killed", "error"} /\ UNCHANGED <<total_sent, spc>>
    BY <1>3 DEF KillClient, server
  <2>2. Typed' /\ EchoOnce' /\ OwnBytes'
    BY <1>1, <1>3, <2>1, OwnUntouched DEF Typed, EchoOnce, KillClient, Gone
  <2>3. InRound'
    BY <1>1, <2>1 DEF InRound, Serving, ServerOwn, SameRound, Unread, Length, Lost
  <2>4. AtEnd' /\ LastRead'
    BY <1>1, <2>1 DEF AtEnd, LastRead, InStep, Lost
  <2>. QED BY <2>2, <2>3, <2>4
<1>4. CASE Listen \/ Accept
  <2>1. /\ spc \in {"start", "accept"} /\ spc' \in {"accept", "recv"}
        /\ UNCHANGED <<cpc, total_sent>>
    BY <1>4 DEF Listen, Accept, ServerStep, client
  <2>2. Typed' /\ EchoOnce' /\ OwnBytes'
    BY <1>1, <2>1, OwnUntouched DEF Typed, EchoOnce
  <2>3. InRound'
    BY <1>1, <2>1 DEF InRound, Serving, ServerOwn, SameRound, Unread, Length, Lost,
       BeforeMessage, InMessage, AfterMessage, AnswerSent, Rounds
  <2>4. AtEnd' /\ LastRead'
    BY <1>1, <2>1 DEF AtEnd, LastRead, InStep, Lost
  <2>. QED BY <2>2, <2>3, <2>4
<1>5. CASE ReadNothing \/ ReadFails \/ ReplyFails \/ KillServer
  <2>1. spc' \in {"spin", "error", "killed"} /\ UNCHANGED <<cpc, total_sent>>
    BY <1>5 DEF ReadNothing, ReadFails, ReplyFails, KillServer, ServerStep, client
  <2>2. Typed' /\ EchoOnce' /\ OwnBytes'
    BY <1>1, <2>1, OwnUntouched DEF Typed, EchoOnce
  <2>3. InRound' /\ AtEnd' /\ LastRead'
    BY <1>1, <2>1 DEF InRound, Serving, AtEnd, LastRead, InStep
  <2>. QED BY <2>2, <2>3
<1>. QED BY <1>2, <1>3, <1>4, <1>5

LEMMA SendHolds == ASSUME IInv, Send PROVE IInv'
<1>. USE DEF IInv
<1>1. PICK n \in 1..(Length(ci) - total_sent) :
        /\ toServer' = toServer \o Bytes(ci, n) /\ total_sent' = total_sent + n
        /\ cpc = "send" /\ cpc' = IF total_sent' = Length(ci) THEN "recv" ELSE "send"
        /\ UNCHANGED <<toClient, ci, after, split, spc, si, message, mode>>
  BY DEF Send, ClientStep, server
<1>2. /\ Length(ci) \in Nat /\ Length(ci)' = Length(ci) /\ n \in Nat \ {0}
      /\ total_sent \in Nat /\ total_sent + n <= Length(ci)
  <2>1. Length(ci) \in Nat /\ total_sent \in Nat
    BY LengthTyped DEF Typed
  <2>2. Length(ci)' = Length(ci)
    BY <1>1 DEF Length
  <2>. QED BY <1>1, <2>1, <2>2
<1>3. /\ toServer' \in Seq(Nat) /\ Len(toServer') = Len(toServer) + n
      /\ toServer \in Seq({ci}) => toServer' \in Seq({ci})
  <2>1. /\ Bytes(ci, n) \in Seq({ci}) /\ Bytes(ci, n) \in Seq(Nat)
        /\ Len(Bytes(ci, n)) = n
    BY <1>2, BytesOf DEF Typed
  <2>2. toServer \in Seq(Nat)
    BY DEF Typed
  <2>. QED BY <1>1, <2>1, <2>2, ConcatProperties
<1>4. Typed' /\ EchoOnce' /\ OwnBytes'
  BY <1>1, <1>2, <1>3, OwnUntouched DEF Typed, EchoOnce
<1>5. InRound'
  <2>. SUFFICES ASSUME ~split, Serving PROVE (ServerOwn /\ SameRound)'
    BY <1>1 DEF InRound, Serving
  <2>1. ServerOwn /\ InMessage
    BY <1>1 DEF InRound, SameRound
  <2>2. Len(message) \in Nat /\ Len(toServer) \in Nat
    BY Empty DEF Typed
  <2>3. Unread' = Unread + n /\ Unread' <= total_sent' /\ Unread' <= Length(ci)
    <3>1. Unread \in Nat /\ Unread <= total_sent
      BY <2>1, <2>2 DEF Unread, InMessage
    <3>2. Unread' = Unread + n
      BY <1>1, <1>2, <1>3, <2>2 DEF Unread
    <3>. QED BY <1>1, <1>2, <3>1, <3>2
  <2>4. ServerOwn'
    BY <1>1, <1>2, <1>3, <2>1, <2>3 DEF ServerOwn, InMessage, Lost, Length
  <2>5. SameRound'
    <3>1. Unread' <= total_sent' /\ total_sent' <= Length(ci)'
      BY <1>1, <1>2, <2>3
    <3>2. total_sent' # Length(ci) => total_sent' < Length(ci)'
      BY <1>1, <1>2, <3>1
    <3>. QED BY <1>1, <1>2, <2>1, <3>1, <3>2 DEF SameRound, InMessage, AfterMessage
  <2>. QED BY <2>4, <2>5
<1>6. AtEnd' /\ LastRead'
  BY <1>1 DEF AtEnd, LastRead, InStep, Lost, AnswerSent, Rounds
<1>. QED BY <1>4, <1>5, <1>6

LEMMA ReceiveHolds == ASSUME IInv, Receive PROVE IInv'
<1>. USE DEF IInv
<1>1. PICK n \in 0..TimeSize :
        /\ n <= Len(toClient)
        /\ n = 0 => Gone(spc) /\ (toClient = <<>> \/ toServer # <<>>)
        /\ Recv(n)
  BY DEF Receive
<1>2. /\ after' = SubSeq(toClient, 1, n) \o SubSeq(after, n + 1, TimeSize)
      /\ toClient' = SubSeq(toClient, n + 1, Len(toClient))
      /\ ~split' => ~split /\ n \notin 1..TimeSize-1
      /\ ci' = ci + 1 /\ cpc = "recv" /\ cpc' = IF ci = Rounds THEN "done" ELSE "build"
      /\ UNCHANGED <<toServer, total_sent, spc, si, message, mode>>
  BY <1>1 DEF Recv, ClientStep, server
<1>3. /\ Len(toClient) \in Nat /\ n \in 0..Len(toClient) /\ n \in 0..Len(after)
  BY <1>1, Empty, ConstantsTyped DEF Typed
<1>4. /\ toClient' \in Seq(Nat) /\ Len(toClient') = Len(toClient) - n
      /\ after' \in Seq(Nat) /\ Len(after') = TimeSize
  <2>1. /\ toClient \in Seq(Nat) /\ after \in Seq(Nat) /\ Len(after) = TimeSize
    BY DEF Typed
  <2>2. /\ SubSeq(toClient, 1, n) \in Seq(Nat) /\ Len(SubSeq(toClient, 1, n)) = n
        /\ toClient' \in Seq(Nat) /\ Len(toClient') = Len(toClient) - n
    <3>1. /\ SubSeq(toClient, 1, n) \in Seq(Nat) /\ Len(SubSeq(toClient, 1, n)) = n
          /\ SubSeq(toClient, n + 1, Len(toClient)) \in Seq(Nat)
          /\ Len(SubSeq(toClient, n + 1, Len(toClient))) = Len(toClient) - n
      <4>1. toClient \in Seq(Nat) /\ n \in 0..Len(toClient)
        BY <1>3, <2>1
      <4>. QED BY <4>1, Cut
    <3>. QED BY <1>2, <3>1
  <2>3. /\ SubSeq(after, n + 1, TimeSize) \in Seq(Nat)
        /\ Len(SubSeq(after, n + 1, TimeSize)) = TimeSize - n
    BY <1>3, <2>1, Cut
  <2>4. after' \in Seq(Nat) /\ Len(after') = n + (TimeSize - n)
    BY <1>2, <2>2, <2>3, ConcatProperties
  <2>. QED BY <2>2, <2>4, ConstantsTyped
<1>5. Typed' /\ EchoOnce' /\ OwnBytes'
  <2>1. Typed'
    <3>1. ci' \in Nat \ {0} /\ UNCHANGED <<mode, spc, si, total_sent, toServer, message>>
      BY <1>2 DEF Typed
    <3>. QED BY <1>4, <3>1 DEF Typed
  <2>2. EchoOnce'
    BY <1>2, RoundsTyped DEF EchoOnce
  <2>3. OwnBytes'
    BY <1>2, OwnUntouched
  <2>. QED BY <2>1, <2>2, <2>3
<1>6. ASSUME ~split', Serving
      PROVE  n = TimeSize /\ AnswerSent /\ ServerOwn /\ AfterMessage
             /\ toServer = <<>> /\ message = <<>> /\ spc = "recv" /\ ci # Rounds
  <2>1. n = TimeSize /\ Len(toClient) # 0
    BY <1>1, <1>2, <1>3, <1>6, ConstantsTyped DEF Serving, Gone
  <2>2. ServerOwn /\ AfterMessage
    BY <1>2, <1>6 DEF InRound, SameRound
  <2>. QED BY <2>1, <2>2, Empty DEF AfterMessage
<1>7. InRound'
  <2>. SUFFICES ASSUME ~split', Serving PROVE (ServerOwn /\ SameRound)'
    BY <1>2 DEF InRound, Serving
  <2>1. toClient' = <<>>
    BY <1>4, <1>6, Empty DEF AnswerSent, Typed
  <2>2. ServerOwn'
    BY <1>2, <1>6 DEF ServerOwn, Unread, Length, Lost
  <2>3. SameRound'
    BY <1>2, <1>6, <2>1 DEF SameRound, BeforeMessage, AnswerSent
  <2>. QED BY <2>2, <2>3
<1>8. AtEnd'
  BY <1>2 DEF AtEnd, Lost, Gone
<1>9. LastRead'
  <2>. SUFFICES ASSUME InStep', cpc' # "done" PROVE after'[1] = ci
    <3>1. ci' - 1 = ci
      BY <1>2 DEF Typed
    <3>. QED BY <3>1 DEF LastRead
  <2>1. ~split' /\ Serving
    BY <1>2 DEF InStep, AtEnd, Serving, Lost, Typed
  <2>2. n = TimeSize /\ toClient \in Seq({ci}) /\ Len(toClient) = TimeSize
    BY <1>6, <2>1 DEF AnswerSent
  <2>3. SubSeq(toClient, 1, n) \in Seq({ci}) /\ Len(SubSeq(toClient, 1, n)) = TimeSize
    BY <1>3, <2>2, Cut
  <2>4. SubSeq(after, n + 1, TimeSize) = <<>>
    BY <2>2, SubSeqEmpty, ConstantsTyped
  <2>5. after' = SubSeq(toClient, 1, n)
    BY <1>2, <2>3, <2>4, ConcatEmptySeq
  <2>. QED BY <2>3, <2>5, ElementOfSeq, ConstantsTyped
<1>. QED BY <1>5, <1>7, <1>8, <1>9

LEMMA ReadHolds == ASSUME IInv, Read PROVE IInv'
<1>. USE DEF IInv
<1>1. PICK n \in 1..(Limit - Len(message)) :
        /\ n <= Len(toServer)
        /\ message' = message \o SubSeq(toServer, 1, n)
        /\ toServer' = SubSeq(toServer, n + 1, Len(toServer))
        /\ spc = "recv" /\ spc' = IF Len(message') = Length(si) THEN "send" ELSE "recv"
        /\ mode # "echo"
        /\ UNCHANGED <<toClient, si, cpc, ci, total_sent, after, split, mode>>
  BY DEF Read, Store, ServerStep, client
<1>2. n \in 0..Len(toServer) /\ n \in Nat \ {0} /\ Len(toServer) \in Nat /\ Len(message) \in Nat
  BY <1>1, Empty DEF Typed
<1>3. ASSUME NEW S, message \in Seq(S), toServer \in Seq(S)
      PROVE  /\ message' \in Seq(S) /\ Len(message') = Len(message) + n
             /\ toServer' \in Seq(S) /\ Len(toServer') = Len(toServer) - n
  BY <1>1, <1>2, <1>3, Moved
<1>4. /\ message' \in Seq(Nat) /\ Len(message') = Len(message) + n
      /\ toServer' \in Seq(Nat) /\ Len(toServer') = Len(toServer) - n
  BY <1>3 DEF Typed
<1>5. Typed' /\ EchoOnce'
  BY <1>1, <1>4 DEF Typed, EchoOnce
<1>6. Unread' = Unread /\ Unread \in Nat
  BY <1>2, <1>4 DEF Unread
<1>7. ASSUME ~split PROVE (ServerOwn /\ SameRound)'
  <2>1. ServerOwn /\ SameRound
    BY <1>1, <1>7 DEF InRound, Serving
  <2>2. message' \in Seq({si}) /\ toServer' \in Seq({si})
    BY <1>3, <2>1 DEF ServerOwn
  <2>3. Length(si)' = Length(si)
    BY <1>1 DEF Length
  <2>4. ServerOwn'
    BY <1>1, <1>6, <2>1, <2>2, <2>3 DEF ServerOwn
  <2>5. toServer # <<>>
    BY <1>1, <1>2, Empty
  <2>6. SameRound'
    BY <1>1, <1>6, <2>1, <2>5
       DEF SameRound, BeforeMessage, InMessage, AfterMessage, Lost, Length
  <2>. QED BY <2>4, <2>6
<1>8. InRound'
  BY <1>1, <1>7 DEF InRound
<1>9. OwnBytes'
  <2>1. Length(si)' \in Nat
    <3>1. Length(si)' = Length(si) /\ Length(si) \in Nat
      BY <1>1, LengthTyped DEF Length, Typed
    <3>. QED BY <3>1
  <2>2. CASE ~split
    <3>1. message' \in Seq({si'}) /\ (Unread <= Length(si))'
      BY <1>7, <2>2 DEF ServerOwn
    <3>. QED BY <1>5, <2>1, <3>1, OwnAfter
  <2>. QED BY <1>1, <2>2 DEF OwnBytes
<1>10. AtEnd' /\ LastRead'
  BY <1>1 DEF AtEnd, LastRead, InStep, Lost
<1>. QED BY <1>5, <1>8, <1>9, <1>10

LEMMA EchoReadHolds == ASSUME IInv, EchoRead PROVE IInv'
<1>. USE DEF IInv
<1>1. PICK n \in 0..Len(toServer) :
        /\ n = 0 => Gone(cpc)
        /\ message' = SubSeq(toServer, 1, n)
        /\ toServer' = SubSeq(toServer, n + 1, Len(toServer))
        /\ spc = "recv" /\ spc' = "send" /\ mode = "echo"
        /\ toServer = <<>> => Gone(cpc)
        /\ UNCHANGED <<toClient, si, cpc, ci, total_sent, after, split, mode>>
  BY DEF EchoRead, ServerStep, client
<1>2. n \in Nat /\ Len(toServer) \in Nat /\ Len(message) \in Nat
  BY <1>1, Empty DEF Typed
<1>3. ASSUME NEW S, toServer \in Seq(S)
      PROVE  /\ message' \in Seq(S) /\ Len(message') = n
             /\ toServer' \in Seq(S) /\ Len(toServer') = Len(toServer) - n
  <2>1. /\ SubSeq(toServer, 1, n) \in Seq(S) /\ Len(SubSeq(toServer, 1, n)) = n
        /\ SubSeq(toServer, n + 1, Len(toServer)) \in Seq(S)
        /\ Len(SubSeq(toServer, n + 1, Len(toServer))) = Len(toServer) - n
    BY <1>3, <1>1, Cut
  <2>. QED BY <1>1, <2>1
<1>4. /\ message' \in Seq(Nat) /\ Len(message') = n
      /\ toServer' \in Seq(Nat) /\ Len(toServer') = Len(toServer) - n
  BY <1>3 DEF Typed
<1>5. Typed' /\ EchoOnce'
  BY <1>1, <1>4 DEF Typed, EchoOnce
<1>6. Unread' \in Nat /\ Unread' <= Unread /\ Unread \in Nat
  BY <1>2, <1>4, <1>1 DEF Unread
<1>7. ASSUME ~split PROVE (ServerOwn /\ SameRound)'
  <2>1. ServerOwn /\ SameRound
    BY <1>1, <1>7 DEF InRound, Serving
  <2>2. message' \in Seq({si}) /\ toServer' \in Seq({si})
    BY <1>3, <2>1 DEF ServerOwn
  <2>3. Length(si)' = Length(si) /\ Length(si) \in Nat
    BY <1>1, LengthTyped DEF Length, Typed
  <2>4. message' # <<>> \/ Lost
    <3>1. cpc # "done"
      BY <2>1 DEF SameRound, Lost
    <3>2. n = 0 => Lost
      BY <1>1, <3>1 DEF Gone, Lost
    <3>3. n # 0 => message' # <<>>
      BY <1>4, Empty
    <3>. QED BY <3>2, <3>3
  <2>5. ServerOwn'
    <3>1. (Unread <= Length(si))'
      BY <1>1, <1>6, <2>1, <2>3 DEF ServerOwn
    <3>. QED BY <1>1, <2>1, <2>2, <2>4, <3>1 DEF ServerOwn, Lost
  <2>6. Lost \/ toServer # <<>>
    BY <1>1, <2>1 DEF Gone, Lost, SameRound
  <2>7. InMessage => InMessage'
    <3>1. Length(ci)' = Length(ci)
      BY <1>1 DEF Length
    <3>. QED BY <1>1, <1>6, <3>1 DEF InMessage, Typed
  <2>8. SameRound'
    BY <1>1, <2>1, <2>6, <2>7
       DEF SameRound, BeforeMessage, AfterMessage, Lost, Length
  <2>. QED BY <2>5, <2>8
<1>8. InRound'
  BY <1>1, <1>7 DEF InRound
<1>9. OwnBytes'
  <2>1. Length(si)' \in Nat
    <3>1. Length(si)' = Length(si) /\ Length(si) \in Nat
      BY <1>1, LengthTyped DEF Length, Typed
    <3>. QED BY <3>1
  <2>2. CASE ~split
    <3>1. message' \in Seq({si'}) /\ (Unread <= Length(si))'
      BY <1>7, <2>2 DEF ServerOwn
    <3>. QED BY <1>5, <2>1, <3>1, OwnAfter
  <2>. QED BY <1>1, <2>2 DEF OwnBytes
<1>10. AtEnd' /\ LastRead'
  BY <1>1 DEF AtEnd, LastRead, InStep, Lost
<1>. QED BY <1>5, <1>8, <1>9, <1>10

\* who is answered, and when: a message of the server's round that it has
LEMMA ReplyAnswers ==
  ASSUME IInv, Reply, ~split, ~Lost
  PROVE  /\ cpc = "recv" \/ (cpc = "send" /\ mode = "echo")
         /\ si = ci /\ AnswerSent' /\ Asked
         /\ mode # "echo" => toServer = <<>>
         /\ mode = "echo" => si = Rounds
<1>. USE DEF IInv
<1>1. /\ spc = "send" /\ toClient' = toClient \o Bytes(si, TimeSize) /\ si' = si + 1
      /\ UNCHANGED <<toServer, cpc, ci, total_sent, mode>>
      /\ ~split /\ ~Lost
  BY DEF Reply, ServerStep, client
<1>2. /\ Bytes(si, TimeSize) \in Seq({si}) /\ Bytes(si, TimeSize) \in Seq(Nat)
      /\ Len(Bytes(si, TimeSize)) = TimeSize
  BY BytesOf, ConstantsTyped DEF Typed
<1>3. toClient = <<>> => toClient' = Bytes(si, TimeSize)
  BY <1>1, <1>2, ConcatEmptySeq
<1>4. ServerOwn /\ SameRound
  BY <1>1 DEF InRound, Serving, IInv
<1>5. /\ Len(message) \in Nat /\ Len(toServer) \in Nat /\ Length(si) \in Nat \ {0}
      /\ toServer \in Seq(Nat) /\ message \in Seq(Nat) /\ total_sent \in Nat
  BY Empty, LengthTyped DEF Typed
<1>6. cpc \in {"send", "recv"} /\ si = ci /\ toClient = <<>>
  BY <1>1, <1>4 DEF SameRound, BeforeMessage, InMessage, AfterMessage
<1>7. mode # "echo" => toServer = <<>> /\ cpc = "recv"
  <2>1. mode # "echo" => Len(toServer) = 0 /\ Len(message) = Length(si)
    BY <1>1, <1>4, <1>5 DEF ServerOwn, Unread
  <2>2. mode # "echo" /\ cpc = "send" => Length(si) < Length(si)
    BY <1>4, <1>5, <1>6, <2>1 DEF SameRound, InMessage, Unread
  <2>. QED BY <1>5, <1>6, <2>1, <2>2, Empty
<1>8. mode = "echo" => si = Rounds
  BY <1>4, RoundsTyped DEF ServerOwn
<1>9. AnswerSent'
  BY <1>1, <1>2, <1>3, <1>6 DEF AnswerSent
<1>10. Asked
  <2>1. CASE mode = "echo" /\ cpc = "send"
    <3>1. Len(message) # 0
      BY <1>1, <1>4, <1>5, <2>1, Empty DEF ServerOwn
    <3>. QED BY <1>4, <1>5, <2>1, <3>1 DEF SameRound, InMessage, Unread, Asked
  <2>2. CASE cpc = "recv"
    <3>1. total_sent = Length(ci)
      BY <1>1, <1>4, <2>2 DEF SameRound, AfterMessage
    <3>. QED BY <1>5, <1>6, <3>1 DEF Asked
  <2>. QED BY <1>6, <1>7, <2>1, <2>2
<1>. QED BY <1>6, <1>7, <1>8, <1>9, <1>10

LEMMA ReplyHolds == ASSUME IInv, Reply PROVE IInv'
<1>. USE DEF IInv
<1>1. /\ spc = "send" /\ spc' = IF si = Rounds THEN "done" ELSE "recv"
      /\ toClient' = toClient \o Bytes(si, TimeSize)
      /\ si' = si + 1 /\ message' = <<>>
      /\ UNCHANGED <<toServer, cpc, ci, total_sent, after, split, mode>>
  BY DEF Reply, ServerStep, client
<1>2. /\ Bytes(si, TimeSize) \in Seq({si}) /\ Bytes(si, TimeSize) \in Seq(Nat)
      /\ Len(Bytes(si, TimeSize)) = TimeSize
  BY BytesOf, ConstantsTyped DEF Typed
<1>3. toClient' \in Seq(Nat) /\ (toClient = <<>> => toClient' = Bytes(si, TimeSize))
  <2>1. toClient' \in Seq(Nat)
    BY <1>1, <1>2, ConcatProperties DEF Typed
  <2>. QED BY <1>1, <1>2, <2>1, ConcatEmptySeq
<1>4. Typed' /\ EchoOnce'
  BY <1>1, <1>3, Empty DEF Typed, EchoOnce
<1>5. Len(message') = 0 /\ DOMAIN message' = {} /\ message' \in Seq({si + 1})
  BY <1>1, Empty
<1>6. OwnBytes'
  <2>1. Length(si)' \in Nat
    <3>1. Length(si + 1) \in Nat
      BY LengthTyped DEF Typed
    <3>2. Length(si)' = Length(si + 1)
      BY <1>1 DEF Length
    <3>. QED BY <3>1, <3>2
  <2>. QED BY <1>1, <1>5, <2>1 DEF OwnBytes
<1>7. ASSUME ~split, ~Lost
      PROVE  /\ cpc = "recv" \/ (cpc = "send" /\ mode = "echo")
             /\ si = ci /\ AnswerSent' /\ Asked
             /\ mode # "echo" => toServer = <<>>
             /\ mode = "echo" => si = Rounds
  BY <1>7, ReplyAnswers
<1>8. InRound'
  <2>. SUFFICES ASSUME ~split, spc' = "recv" PROVE (ServerOwn /\ SameRound)'
    BY <1>1 DEF InRound, Serving
  <2>1. ServerOwn /\ SameRound /\ si # Rounds
    BY <1>1 DEF InRound, Serving
  <2>2. mode # "echo"
    BY <2>1, RoundsTyped DEF ServerOwn
  <2>3. toServer = <<>>
    <3>1. /\ Len(message) \in Nat /\ Len(toServer) \in Nat /\ Length(si) \in Nat
          /\ toServer \in Seq(Nat)
      BY Empty, LengthTyped DEF Typed
    <3>2. Len(toServer) = 0
      BY <1>1, <2>1, <2>2, <3>1 DEF ServerOwn, Unread
    <3>. QED BY <3>1, <3>2, Empty
  <2>4. ServerOwn'
    <3>1. Length(si + 1) \in Nat /\ Length(si)' = Length(si + 1)
      <4>1. Length(si + 1) \in Nat
        BY LengthTyped DEF Typed
      <4>. QED BY <1>1, <4>1 DEF Length
    <3>2. toServer' \in Seq({si + 1}) /\ Len(toServer') = 0
      BY <1>1, <2>3, Empty
    <3>. QED BY <1>1, <1>5, <2>2, <3>1, <3>2 DEF ServerOwn, Unread
  <2>5. SameRound'
    BY <1>1, <1>7, <2>1, <2>2, <2>3 DEF SameRound, AfterMessage, Lost, Rounds
  <2>. QED BY <2>4, <2>5
<1>9. AtEnd'
  BY <1>1, <1>7 DEF AtEnd, Lost, Rounds
<1>10. LastRead'
  BY <1>1 DEF LastRead, InStep, Lost
<1>. QED BY <1>4, <1>6, <1>8, <1>9, <1>10

LEMMA StutterHolds == ASSUME IInv, UNCHANGED vars PROVE IInv'
BY DEF IInv, vars, client, server, Typed, EchoOnce, InRound, Serving, ServerOwn, SameRound,
  Unread, AnswerSent, BeforeMessage, InMessage, AfterMessage, AtEnd, Lost, LastRead,
  InStep, OwnBytes, Rounds, Length

LEMMA Inductive == Spec => []IInv
<1>1. Init => IInv
  BY InitHolds
<1>2. IInv /\ [Next]_vars => IInv'
  BY QuietHolds, SendHolds, ReceiveHolds, ReadHolds, EchoReadHolds, ReplyHolds, StutterHolds
     DEF Next, Client, Server
<1>. QED BY <1>1, <1>2, PTL DEF Spec

-----------------------------------------------------------------------------
(* What both sides hold, also after they have lost step                    *)

\* a side that has rounds to go is in one of them; and all that the echo
\* server may read has been sent
Bounds ==
  /\ TypeOK
  /\ cpc # "done" => ci <= Rounds
  /\ spc # "done" => si <= Rounds
  /\ mode = "echo" => Len(toServer) <= total_sent

LEMMA RoundsAreThere == Rounds \in 1..Points
BY ConstantsTyped DEF Rounds

LEMMA LongestIsLast ==
  ASSUME NEW i \in 1..Points, Typed
  PROVE  /\ Length(i) \in Nat /\ Length(Points) \in Nat /\ Length(i) <= Length(Points)
         /\ mode = "echo" => Length(Points) = Limit
<1>1. i \in Nat \ {0} /\ Points \in Nat \ {0} /\ Inc \in Nat
  BY ConstantsTyped
<1>2. Length(i) \in Nat /\ Length(Points) \in Nat
  BY <1>1, LengthTyped
<1>3. i * Inc <= Points * Inc
  <2>. DEFINE k == Points - i
  <2>1. k \in Nat /\ Points = i + k
    BY <1>1
  <2>. HIDE DEF k
  <2>2. (i + k) * Inc = i * Inc + k * Inc /\ k * Inc \in Nat /\ i * Inc \in Nat
    BY <1>1, <2>1
  <2>. QED BY <2>1, <2>2
<1>4. CASE mode = "node"
  <2>1. Length(i) = 2 * (i * Inc) + 1 /\ Length(Points) = 2 * (Points * Inc) + 1
    BY <1>1, <1>4 DEF Length
  <2>2. i * Inc \in Nat /\ Points * Inc \in Nat
    BY <1>1
  <2>. QED BY <1>2, <1>3, <1>4, <2>1, <2>2
<1>5. CASE mode = "char"
  BY <1>2, <1>3, <1>5 DEF Length
<1>6. CASE mode = "echo"
  BY <1>2, <1>6 DEF Length
<1>. QED BY <1>4, <1>5, <1>6 DEF Typed

LEMMA InitBounds == ASSUME Init PROVE Bounds
<1>1. 1 \in 1..Points /\ <<>> \in Seq(1..Points) /\ Len(<<>>) = 0
  BY ConstantsTyped, Empty
<1>2. Bytes(0, TimeSize) \in [1..TimeSize -> 0..Points]
  BY ConstantsTyped DEF Bytes
<1>3. Length(Points) \in Nat /\ Typed
  BY InitHolds, LengthTyped, ConstantsTyped DEF IInv
<1>4. /\ ci = 1 /\ si = 1 /\ total_sent = 0 /\ toServer = <<>> /\ toClient = <<>>
      /\ message = <<>> /\ after = Bytes(0, TimeSize) /\ cpc = "connect" /\ spc = "start"
      /\ mode \in {"char", "node", "echo"} /\ split = FALSE
  BY DEF Init
<1>5. 0 \in 0..Length(Points) /\ 0 <= Buffer /\ 0 <= Limit /\ 1 \in 1..Points+1
  BY <1>3, ConstantsTyped
<1>6. total_sent \in 0..Length(Points)
  BY <1>4, <1>5
<1>7. TypeOK
  BY <1>1, <1>2, <1>4, <1>5, <1>6 DEF TypeOK
<1>8. 1 <= Rounds /\ 0 <= 0
  BY RoundsAreThere, ConstantsTyped
<1>. QED BY <1>1, <1>4, <1>7, <1>8 DEF Bounds

\* steps that move no bytes and end no round
LEMMA QuietBounds ==
  ASSUME IInv, Bounds,
         UNCHANGED <<toServer, toClient, ci, after, si, mode>>,
         \/ UNCHANGED message
         \/ message' = <<>>,
         total_sent' = total_sent \/ (total_sent' = 0 /\ mode # "echo"),
         cpc' = cpc \/ (cpc # "done" /\ cpc' \in {"build", "send", "recv", "error", "crashed", "killed"}),
         spc' = spc \/ (spc # "done" /\ spc' \in {"accept", "recv", "send", "spin", "error", "killed"}),
         split' = split
  PROVE  Bounds'
<1>1. Length(Points)' = Length(Points) /\ Length(Points) \in Nat /\ Rounds' = Rounds
  BY LengthTyped, ConstantsTyped DEF IInv, Length, Rounds
<1>2. total_sent' \in 0..Length(Points)'
  BY <1>1 DEF Bounds, TypeOK
<1>3. message' \in Seq(1..Points) /\ Len(message') <= Limit
  <2>1. message \in Seq(1..Points) /\ Len(message) <= Limit
    BY DEF Bounds, TypeOK
  <2>2. <<>> \in Seq(1..Points) /\ Len(<<>>) <= Limit
    BY Empty, ConstantsTyped
  <2>. QED BY <2>1, <2>2
<1>4. cpc' \in {"connect", "build", "send", "recv", "done", "error", "crashed", "killed"}
      /\ spc' \in {"start", "accept", "recv", "send", "spin", "done", "error", "killed"}
      /\ (cpc' # "done" => cpc # "done") /\ (spc' # "done" => spc # "done")
  BY DEF Bounds, TypeOK
<1>5. TypeOK'
  BY <1>2, <1>3, <1>4 DEF Bounds, TypeOK
<1>. QED BY <1>1, <1>4, <1>5 DEF Bounds

LEMMA SendBounds == ASSUME IInv, Bounds, Send PROVE Bounds'
<1>1. PICK n \in 1..(Length(ci) - total_sent) :
        /\ Len(toServer) + n <= Buffer
        /\ toServer' = toServer \o Bytes(ci, n) /\ total_sent' = total_sent + n
        /\ cpc = "send" /\ cpc' \in {"recv", "send"}
        /\ UNCHANGED <<toClient, ci, after, split, spc, si, message, mode>>
  BY DEF Send, ClientStep, server
<1>2. ci \in 1..Points /\ ci <= Rounds
  BY <1>1, RoundsAreThere, ConstantsTyped DEF Bounds, TypeOK
<1>3. /\ Length(ci) \in Nat /\ Length(Points) \in Nat /\ Length(ci) <= Length(Points)
      /\ Length(Points)' = Length(Points) /\ Rounds' = Rounds
  BY <1>1, <1>2, LongestIsLast DEF IInv, Length, Rounds
<1>4. total_sent \in Nat /\ n \in Nat /\ total_sent + n <= Length(ci)
  <2>1. total_sent \in Nat
    BY DEF IInv, Typed
  <2>. QED BY <1>3, <2>1
<1>5. /\ toServer' \in Seq(1..Points) /\ Len(toServer') = Len(toServer) + n
      /\ Len(toServer) \in Nat
  <2>1. Bytes(ci, n) \in Seq(1..Points) /\ Len(Bytes(ci, n)) = n
    BY <1>2, <1>4 DEF Bytes
  <2>2. toServer \in Seq(1..Points)
    BY DEF Bounds, TypeOK
  <2>. QED BY <1>1, <2>1, <2>2, ConcatProperties, Empty
<1>6. total_sent' \in 0..Length(Points)' /\ Len(toServer') <= Buffer
  BY <1>1, <1>3, <1>4, <1>5
<1>7. mode = "echo" => Len(toServer') <= total_sent'
  BY <1>1, <1>4, <1>5 DEF Bounds
<1>8. TypeOK'
  BY <1>1, <1>5, <1>6 DEF Bounds, TypeOK
<1>. QED BY <1>1, <1>2, <1>3, <1>7, <1>8 DEF Bounds

LEMMA ReceiveBounds == ASSUME IInv, Bounds, Receive PROVE Bounds'
<1>1. PICK n \in 0..TimeSize : n <= Len(toClient) /\ Recv(n)
  BY DEF Receive
<1>2. /\ after' = SubSeq(toClient, 1, n) \o SubSeq(after, n + 1, TimeSize)
      /\ toClient' = SubSeq(toClient, n + 1, Len(toClient))
      /\ split' = (split \/ n \in 1..TimeSize-1)
      /\ ci' = ci + 1 /\ cpc = "recv" /\ cpc' = IF ci = Rounds THEN "done" ELSE "build"
      /\ UNCHANGED <<toServer, total_sent, spc, si, message, mode>>
  BY <1>1 DEF Recv, ClientStep, server
<1>3. /\ toClient \in Seq(1..Points) /\ toClient \in Seq(0..Points)
      /\ after \in Seq(0..Points) /\ Len(after) = TimeSize
  <2>1. /\ toClient \in Seq(1..Points) /\ after \in [1..TimeSize -> 0..Points]
    BY DEF Bounds, TypeOK
  <2>2. 1..Points \subseteq 0..Points
    BY ConstantsTyped
  <2>3. toClient \in Seq(0..Points)
    BY <2>1, <2>2, SeqMonotonic
  <2>. QED BY <2>1, <2>3, ConstantsTyped
<1>4. n \in 0..Len(toClient) /\ n \in 0..Len(after)
  BY <1>1, <1>3, Empty, ConstantsTyped
<1>5. after' \in Seq(0..Points) /\ Len(after') = TimeSize
  <2>1. SubSeq(toClient, 1, n) \in Seq(0..Points) /\ Len(SubSeq(toClient, 1, n)) = n
    <3>1. PICK S, list, m : S = 0..Points /\ list = toClient /\ m = n
      OBVIOUS
    <3>2. list \in Seq(S) /\ m \in 0..Len(list)
      BY <1>3, <1>4, <3>1
    <3>3. SubSeq(list, 1, m) \in Seq(S) /\ Len(SubSeq(list, 1, m)) = m
      BY <3>2, Cut
    <3>. QED BY <3>1, <3>3
  <2>2. /\ SubSeq(after, n + 1, TimeSize) \in Seq(0..Points)
        /\ Len(SubSeq(after, n + 1, TimeSize)) = TimeSize - n
    BY <1>3, <1>4, Cut
  <2>3. after' \in Seq(0..Points) /\ Len(after') = n + (TimeSize - n)
    BY <1>2, <2>1, <2>2, ConcatProperties
  <2>. QED BY <1>1, <2>3, ConstantsTyped
<1>6. after' \in [1..TimeSize -> 0..Points]
  BY <1>5, LenProperties
<1>7. toClient' \in Seq(1..Points)
  BY <1>2, <1>3, <1>4, Cut
<1>8. ci <= Rounds /\ ci \in Nat \ {0} /\ Rounds \in 1..Points /\ Rounds' = Rounds
  BY <1>2, RoundsAreThere DEF Bounds, IInv, Typed, Rounds
<1>9. ci' \in 1..Points+1 /\ (cpc' # "done" => ci' <= Rounds')
  BY <1>2, <1>8, ConstantsTyped
<1>10. split' \in BOOLEAN
  BY <1>2
<1>11. Length(Points)' = Length(Points) /\ cpc' \in {"done", "build"}
  BY <1>2 DEF Length
<1>12. TypeOK'
  BY <1>2, <1>6, <1>7, <1>9, <1>10, <1>11 DEF Bounds, TypeOK
<1>. QED BY <1>2, <1>8, <1>9, <1>12 DEF Bounds

LEMMA ReadBounds == ASSUME IInv, Bounds, Read \/ EchoRead PROVE Bounds'
<1>1. /\ UNCHANGED <<toClient, si, cpc, ci, total_sent, after, split, mode>>
      /\ spc = "recv" /\ spc' \in {"send", "recv"}
  BY DEF Read, EchoRead, Store, ServerStep, client
<1>2. PICK n \in 0..Len(toServer) :
        /\ toServer' = SubSeq(toServer, n + 1, Len(toServer))
        /\ \/ message' = message \o SubSeq(toServer, 1, n) /\ n <= Limit - Len(message)
           \/ message' = SubSeq(toServer, 1, n) /\ mode = "echo"
  <2>1. CASE Read
    <3>1. PICK n \in 1..(Limit - Len(message)) : Store(n)
      BY <2>1 DEF Read
    <3>2. Len(message) \in Nat /\ Len(toServer) \in Nat /\ Limit \in Nat
      BY Empty, ConstantsTyped DEF IInv, Typed
    <3>3. n \in 0..Len(toServer) /\ n <= Limit - Len(message)
      BY <3>1, <3>2 DEF Store
    <3>. QED BY <3>1, <3>3 DEF Store
  <2>2. CASE EchoRead
    BY <2>2 DEF EchoRead
  <2>. QED BY <2>1, <2>2
<1>3. toServer \in Seq(1..Points) /\ message \in Seq(1..Points)
  BY DEF Bounds, TypeOK
<1>4. /\ SubSeq(toServer, 1, n) \in Seq(1..Points) /\ Len(SubSeq(toServer, 1, n)) = n
      /\ toServer' \in Seq(1..Points) /\ Len(toServer') = Len(toServer) - n
      /\ Len(toServer) \in Nat /\ Len(message) \in Nat
  <2>1. /\ SubSeq(toServer, 1, n) \in Seq(1..Points) /\ Len(SubSeq(toServer, 1, n)) = n
        /\ SubSeq(toServer, n + 1, Len(toServer)) \in Seq(1..Points)
        /\ Len(SubSeq(toServer, n + 1, Len(toServer))) = Len(toServer) - n
    BY <1>2, <1>3, Cut
  <2>. QED BY <1>2, <1>3, <2>1, Empty
<1>5. Length(Points)' = Length(Points) /\ Rounds' = Rounds /\ (mode = "echo" => Length(Points) = Limit)
  BY <1>1 DEF Length, Rounds
<1>6. message' \in Seq(1..Points) /\ Len(message') <= Limit
  <2>1. CASE message' = message \o SubSeq(toServer, 1, n) /\ n <= Limit - Len(message)
    <3>1. message' \in Seq(1..Points) /\ Len(message') = Len(message) + n
      BY <1>3, <1>4, <2>1, ConcatProperties
    <3>. QED BY <1>2, <1>4, <2>1, <3>1, ConstantsTyped
  <2>2. CASE message' = SubSeq(toServer, 1, n) /\ mode = "echo"
    <3>1. total_sent \in 0..Limit /\ Len(toServer) <= total_sent
      <4>1. total_sent \in 0..Length(Points)
        BY DEF Bounds, TypeOK
      <4>. QED BY <1>5, <2>2, <4>1 DEF Bounds
    <3>2. n <= Len(toServer) /\ n \in Nat /\ Limit \in Nat
      BY <1>2, <1>4, ConstantsTyped
    <3>3. n <= Limit
      BY <1>4, <3>1, <3>2
    <3>. QED BY <1>4, <2>2, <3>3
  <2>. QED BY <1>2, <2>1, <2>2
<1>7. Len(toServer') <= Buffer /\ (mode = "echo" => Len(toServer') <= total_sent)
  <2>1. Len(toServer) <= Buffer /\ (mode = "echo" => Len(toServer) <= total_sent)
    BY DEF Bounds, TypeOK
  <2>2. total_sent \in Nat
    BY DEF IInv, Typed
  <2>. QED BY <1>2, <1>4, <2>1, <2>2, ConstantsTyped
<1>8. TypeOK'
  BY <1>1, <1>4, <1>5, <1>6, <1>7 DEF Bounds, TypeOK
<1>. QED BY <1>1, <1>5, <1>7, <1>8 DEF Bounds

LEMMA ReplyBounds == ASSUME IInv, Bounds, Reply PROVE Bounds'
<1>1. /\ spc = "send" /\ spc' = IF si = Rounds THEN "done" ELSE "recv"
      /\ toClient' = toClient \o Bytes(si, TimeSize)
      /\ si' = si + 1 /\ message' = <<>>
      /\ UNCHANGED <<toServer, cpc, ci, total_sent, after, split, mode>>
  BY DEF Reply, ServerStep, client
<1>2. si <= Rounds /\ si \in 1..Points /\ Rounds \in 1..Points /\ Rounds' = Rounds
  BY <1>1, RoundsAreThere, ConstantsTyped DEF Bounds, IInv, Typed, Rounds
<1>3. toClient' \in Seq(1..Points)
  <2>1. Bytes(si, TimeSize) \in Seq(1..Points)
    BY <1>2, ConstantsTyped DEF Bytes
  <2>2. toClient \in Seq(1..Points)
    BY DEF Bounds, TypeOK
  <2>. QED BY <1>1, <2>1, <2>2, ConcatProperties
<1>4. si' \in 1..Points+1 /\ (spc' # "done" => si' <= Rounds')
  BY <1>1, <1>2, ConstantsTyped
<1>5. message' \in Seq(1..Points) /\ Len(message') <= Limit
  BY <1>1, Empty, ConstantsTyped
<1>6. Length(Points)' = Length(Points) /\ spc' \in {"done", "recv"}
  BY <1>1 DEF Length
<1>7. TypeOK'
  BY <1>1, <1>3, <1>4, <1>5, <1>6 DEF Bounds, TypeOK
<1>. QED BY <1>1, <1>2, <1>4, <1>7 DEF Bounds

LEMMA BoundsKept == ASSUME IInv, Bounds, [Next]_vars PROVE Bounds'
<1>1. CASE Connect \/ Build \/ ChooseMessage \/ SendFails
  <2>1. /\ UNCHANGED <<toServer, toClient, ci, after, si, message, spc, split, mode>>
        /\ total_sent' = total_sent \/ (total_sent' = 0 /\ mode # "echo")
        /\ cpc # "done" /\ cpc' \in {"build", "send", "recv", "error", "crashed"}
    BY <1>1 DEF Connect, Build, ChooseMessage, SendFails, ClientStep, server
  <2>. QED BY <2>1, QuietBounds
<1>2. CASE Listen \/ Accept \/ ReadNothing \/ ReadFails \/ ReplyFails
  <2>1. /\ UNCHANGED <<toServer, toClient, ci, after, si, message, cpc, total_sent, split, mode>>
        /\ spc # "done" /\ spc' \in {"accept", "recv", "spin", "error"}
    BY <1>2 DEF Listen, Accept, ReadNothing, ReadFails, ReplyFails, ServerStep, client
  <2>. QED BY <2>1, QuietBounds
<1>3. CASE KillClient
  BY <1>3, QuietBounds DEF KillClient, Gone, server
<1>4. CASE KillServer
  BY <1>4, QuietBounds DEF KillServer, Gone, client
<1>5. CASE UNCHANGED vars
  BY <1>5, QuietBounds DEF vars, client, server
<1>. QED BY <1>1, <1>2, <1>3, <1>4, <1>5, SendBounds, ReceiveBounds, ReadBounds, ReplyBounds
         DEF Next, Client, Server

(* Neither array is overrun and no round is begun beyond the last, also    *)
(* when the sides have lost step.  The echo server's single read fits      *)
(* because the client sends no more than one message.                      *)
THEOREM BuffersSuffice == Spec => []TypeOK
<1>1. Init => Bounds
  BY InitBounds
<1>2. IInv /\ Bounds /\ [Next]_vars => Bounds'
  BY BoundsKept
<1>3. Bounds => TypeOK
  BY DEF Bounds
<1>. QED BY <1>1, <1>2, <1>3, Inductive, PTL DEF Spec

-----------------------------------------------------------------------------
(* What follows                                                            *)

(* As long as the time comes in one piece, what the servers count in a     *)
(* round are bytes of that round's message, and no more than it has.       *)
THEOREM ServerCountsOwnBytes == Spec => []OwnBytes
<1>1. IInv => OwnBytes
  BY DEF IInv
<1>. QED BY <1>1, Inductive, PTL

\* what the abstract round trip sees
Request == IF cpc \in {"send", "recv"} /\ Asked /\ si = ci THEN ci ELSE 0
Answer  == IF toClient = <<>> THEN 0 ELSE toClient[1]

Asks    == Request = 0 /\ Answer = 0 /\ Request' = after[1] + 1 /\ UNCHANGED <<Answer, after[1]>>
Answers == Request # 0 /\ Answer' = Request /\ Request' = 0 /\ UNCHANGED after[1]
Shows   == Answer # 0 /\ after'[1] = Answer /\ Answer' = 0 /\ UNCHANGED Request
Waits   == UNCHANGED <<Request, Answer, after[1]>>

LEMMA StaysLost == ASSUME [Next]_vars, InStep' PROVE InStep
<1>1. split => split'
  BY DEF Next, Client, Server, Connect, Build, ChooseMessage, Send, SendFails, Receive, Recv,
    Listen, Accept, Read, Store, EchoRead, ReadNothing, ReadFails, Reply, ReplyFails,
    KillClient, KillServer, ClientStep, ServerStep, vars, client, server
<1>2. Lost => Lost'
  BY DEF Next, Client, Server, Connect, Build, ChooseMessage, Send, SendFails, Receive, Recv,
    Listen, Accept, Read, Store, EchoRead, ReadNothing, ReadFails, Reply, ReplyFails,
    KillClient, KillServer, ClientStep, ServerStep, vars, client, server, Lost
<1>3. spc \in {"error", "killed", "spin"} => spc' \in {"error", "killed", "spin"}
  BY DEF Next, Client, Server, Connect, Build, ChooseMessage, Send, SendFails, Receive, Recv,
    Listen, Accept, Read, Store, EchoRead, ReadNothing, ReadFails, Reply, ReplyFails,
    KillClient, KillServer, ClientStep, ServerStep, vars, client, server
<1>. QED BY <1>1, <1>2, <1>3 DEF InStep

LEMMA SendMaps == ASSUME IInv, InStep, InStep', Send PROVE Asks \/ Waits
<1>. USE DEF IInv
<1>1. PICK n \in 1..(Length(ci) - total_sent) :
        /\ total_sent' = total_sent + n
        /\ cpc = "send" /\ cpc' \in {"send", "recv"}
        /\ UNCHANGED <<toClient, ci, after, split, spc, si, message, mode>>
  BY DEF Send, ClientStep, server
<1>2. Length(ci) \in Nat \ {0} /\ total_sent \in Nat /\ ci \in Nat \ {0} /\ si \in Nat
  BY LengthTyped DEF Typed
<1>3. Length(ci)' = Length(ci)
  BY <1>1 DEF Length
<1>4. CASE Serving
  <2>1. si = ci /\ toClient = <<>> /\ after[1] = ci - 1
    BY <1>1, <1>4 DEF InRound, SameRound, InMessage, LastRead, InStep
  <2>2. CASE Asked' /\ ~Asked
    BY <1>1, <1>2, <2>1, <2>2 DEF Asks, Request, Answer
  <2>3. CASE Asked' = Asked
    BY <1>1, <2>1, <2>3 DEF Waits, Request, Answer
  <2>4. Asked => Asked'
    <3>1. CASE mode = "echo"
      BY <1>1, <1>2, <3>1 DEF Asked
    <3>2. CASE mode # "echo"
      BY <1>1, <1>2, <3>2 DEF Asked
    <3>. QED BY <3>1, <3>2
  <2>. QED BY <2>2, <2>3, <2>4 DEF Asked
<1>5. CASE ~Serving
  <2>1. si = ci + 1
    BY <1>1, <1>5 DEF Serving, InStep, AtEnd, AnswerSent, Typed
  <2>. QED BY <1>1, <1>2, <2>1 DEF Waits, Request, Answer
<1>. QED BY <1>4, <1>5

LEMMA ReceiveMaps == ASSUME IInv, InStep, InStep', Receive PROVE Shows \/ Waits
<1>. USE DEF IInv
<1>1. PICK n \in 0..TimeSize :
        /\ n <= Len(toClient)
        /\ n = 0 => Gone(spc) /\ (toClient = <<>> \/ toServer # <<>>)
        /\ Recv(n)
  BY DEF Receive
<1>2. /\ after' = SubSeq(toClient, 1, n) \o SubSeq(after, n + 1, TimeSize)
      /\ toClient' = SubSeq(toClient, n + 1, Len(toClient))
      /\ n \notin 1..TimeSize-1
      /\ cpc = "recv" /\ cpc' \in {"done", "build"}
      /\ UNCHANGED <<spc, si>>
  BY <1>1 DEF Recv, ClientStep, server, InStep
<1>3. AnswerSent /\ ci \in Nat \ {0}
  <2>1. CASE Serving
    <3>1. AfterMessage /\ n # 0
      BY <1>1, <1>2, <2>1 DEF InRound, SameRound, InStep, Serving, Gone
    <3>2. toClient # <<>>
      BY <1>1, <3>1, Empty
    <3>. QED BY <3>1, <3>2 DEF AfterMessage, Typed
  <2>2. CASE ~Serving
    BY <1>2, <2>2 DEF Serving, InStep, AtEnd, Typed
  <2>. QED BY <2>1, <2>2
<1>4. /\ toClient \in Seq({ci}) /\ Len(toClient) = TimeSize /\ toClient # <<>>
      /\ toClient[1] = ci /\ Request = 0 /\ Request' = 0
  <2>1. toClient \in Seq({ci}) /\ Len(toClient) = TimeSize
    BY <1>3 DEF AnswerSent
  <2>2. toClient # <<>> /\ toClient[1] = ci
    BY <2>1, Empty, ElementOfSeq, ConstantsTyped
  <2>3. Request = 0 /\ Request' = 0
    BY <1>2, <1>3 DEF Request, AnswerSent
  <2>. QED BY <2>1, <2>2, <2>3
<1>5. CASE n = 0
  <2>1. after' = after /\ toClient' = toClient
    <3>1. /\ SubSeq(toClient, 1, 0) = <<>>
          /\ SubSeq(toClient, 1, Len(toClient)) = toClient
          /\ SubSeq(after, 1, TimeSize) = after
      BY SubSeqEmpty, SubSeqFull DEF Typed
    <3>. QED BY <1>2, <1>5, <3>1, ConcatEmptySeq DEF Typed
  <2>. QED BY <1>4, <2>1 DEF Waits, Answer
<1>6. CASE n = TimeSize
  <2>1. SubSeq(toClient, 1, n) \in Seq({ci}) /\ Len(SubSeq(toClient, 1, n)) = TimeSize
    BY <1>4, <1>6, Cut, ConstantsTyped
  <2>2. SubSeq(after, n + 1, TimeSize) = <<>> /\ toClient' = <<>>
    BY <1>2, <1>4, <1>6, SubSeqEmpty, ConstantsTyped
  <2>3. after' = SubSeq(toClient, 1, n)
    BY <1>2, <2>1, <2>2, ConcatEmptySeq
  <2>4. after'[1] = ci
    BY <2>1, <2>3, ElementOfSeq, ConstantsTyped
  <2>. QED BY <1>3, <1>4, <2>2, <2>4 DEF Shows, Answer
<1>. QED BY <1>1, <1>2, <1>5, <1>6, ConstantsTyped

LEMMA ReplyMaps == ASSUME IInv, InStep, InStep', Reply PROVE Answers
<1>1. /\ si' = si + 1 /\ UNCHANGED <<cpc, ci, after>>
  BY DEF Reply, ServerStep, client
<1>2. /\ cpc \in {"send", "recv"} /\ si = ci /\ AnswerSent' /\ Asked
      /\ si \in Nat \ {0}
  BY ReplyHolds, ReplyAnswers DEF InStep, IInv, Typed
<1>3. toClient' # <<>> /\ toClient'[1] = ci
  BY <1>1, <1>2, Empty, ElementOfSeq, ConstantsTyped DEF AnswerSent
<1>. QED BY <1>1, <1>2, <1>3 DEF Answers, Request, Answer

LEMMA ClientWaits ==
  ASSUME IInv, InStep, InStep', Connect \/ Build \/ ChooseMessage \/ SendFails
  PROVE  Waits
<1>. USE DEF IInv
<1>1. UNCHANGED <<toClient, ci, after, si, spc, mode, message, split>>
  BY DEF Connect, Build, ChooseMessage, SendFails, ClientStep, server
<1>2. Length(ci) \in Nat \ {0} /\ Length(ci)' = Length(ci)
  BY <1>1, LengthTyped DEF Length, Typed
<1>3. CASE Connect
  <2>1. cpc = "connect" /\ cpc' \in {"error", "build"}
    BY <1>3 DEF Connect, ClientStep
  <2>. QED BY <1>1, <2>1 DEF Waits, Request, Answer
<1>4. CASE Build \/ ChooseMessage
  <2>1. cpc = "build" /\ total_sent' = IF mode = "echo" THEN total_sent ELSE 0
    BY <1>4 DEF Build, ChooseMessage, ClientStep
  <2>2. total_sent' = 0
    BY <2>1 DEF EchoOnce
  <2>3. ~Asked'
    BY <1>1, <1>2, <2>2 DEF Asked
  <2>. QED BY <1>1, <2>1, <2>3 DEF Waits, Request, Answer
<1>5. CASE SendFails
  <2>1. /\ cpc = "send" /\ cpc' = "recv" /\ Gone(spc) /\ UNCHANGED total_sent
    BY <1>5 DEF SendFails, ClientStep, InStep, Lost
  <2>2. Asked' = Asked
    BY <1>1, <1>2, <2>1 DEF Asked
  <2>. QED BY <1>1, <2>1, <2>2 DEF Waits, Request, Answer
<1>. QED BY <1>3, <1>4, <1>5

(* Until a side is lost or a time comes in pieces, the socket programs     *)
(* implement the round trip: each message is answered once, when the       *)
(* server has it, and the time printed is that answer.                     *)
THEOREM StreamsImplementRoundTrip == Spec => RefinesRoundTrip
<1>1. Init => RT!Init
  <2>. SUFFICES ASSUME Init PROVE RT!Init
    OBVIOUS
  <2>1. Bytes(0, TimeSize)[1] = 0
    BY BytesOf, ConstantsTyped
  <2>. QED BY <2>1 DEF Init, RT!Init
<1>2. ASSUME IInv, [Next]_vars PROVE [RT!Next]_(RT!vars)
  <2>1. CASE ~InStep'
    BY <2>1 DEF RT!Next, InStep, Lost
  <2>2. CASE InStep'
    <3>1. InStep
      BY <1>2, <2>2, StaysLost
    <3>2. Asks \/ Answers \/ Shows \/ Waits
      <4>1. CASE Send
        BY <1>2, <2>2, <3>1, <4>1, SendMaps
      <4>2. CASE Receive
        BY <1>2, <2>2, <3>1, <4>2, ReceiveMaps
      <4>3. CASE Reply
        BY <1>2, <2>2, <3>1, <4>3, ReplyMaps
      <4>4. CASE Connect \/ Build \/ ChooseMessage \/ SendFails
        BY <1>2, <2>2, <3>1, <4>4, ClientWaits
      <4>5. CASE Listen \/ Accept \/ Read \/ EchoRead
        <5>1. UNCHANGED <<cpc, ci, total_sent, after, si, toClient, mode>>
          BY <4>5 DEF Listen, Accept, Read, EchoRead, Store, ServerStep, client
        <5>. QED BY <5>1 DEF Waits, Request, Answer, Asked, Length
      <4>6. CASE ReadNothing \/ ReadFails \/ ReplyFails \/ KillClient \/ KillServer
        BY <2>2, <4>6 DEF ReadNothing, ReadFails, ReplyFails, KillClient, KillServer,
           ServerStep, InStep, Lost
      <4>7. CASE UNCHANGED vars
        BY <4>7 DEF vars, client, server, Waits, Request, Answer, Asked, Length
      <4>. QED BY <1>2, <4>1, <4>2, <4>3, <4>4, <4>5, <4>6, <4>7 DEF Next, Client, Server
    <3>. QED BY <2>2, <3>1, <3>2
         DEF RT!Next, RT!Ask, RT!Answer, RT!Show, RT!vars, Asks, Answers, Shows, Waits,
             Request, Answer, InStep, Lost
  <2>. QED BY <2>1, <2>2
<1>. QED BY <1>1, <1>2, Inductive, PTL DEF Spec, RefinesRoundTrip, RT!Spec

-----------------------------------------------------------------------------
(* Trees and strings: what buildTree, serialize and deserialize compute,   *)
(* for every size.  Each recursion has a solution, shown by extending one  *)
(* for the smaller arguments, which its definition therefore is.           *)

\* every nonempty set of naturals has a least element
LEMMA LeastExists ==
  ASSUME NEW T \in SUBSET Nat, T # {}
  PROVE  \E m \in T : \A n \in T : m <= n
<1>1. PICK m \in T : \A n \in T : ~(<<n, m>> \in OpToRel(<, Nat))
  BY NatLessThanWellFounded, WFMin
<1>2. \A n \in T : ~(n < m)
  BY <1>1 DEF OpToRel
<1>. QED BY <1>2

LeftOf(n) == n - 1 - (n - 1) \div 2
RightOf(n) == (n - 1) \div 2

\* both subtrees are smaller, and they have all the nodes but the root
LEMMA Halves ==
  ASSUME NEW n \in Nat, n # 0
  PROVE  /\ LeftOf(n) \in 0..n-1 /\ RightOf(n) \in 0..n-1
         /\ LeftOf(n) + RightOf(n) = n - 1
<1>1. RightOf(n) \in Nat /\ 2 * RightOf(n) <= n - 1
  BY DEF RightOf
<1>. QED BY <1>1 DEF LeftOf, RightOf

LEMMA NodesAreTrees ==
  ASSUME NEW key, NEW l, NEW r
  PROVE  newNode(key, l, r) # NULL /\ newNode(key, l, r).key = key
         /\ newNode(key, l, r).left = l /\ newNode(key, l, r).right = r
<1>1. "key" \in DOMAIN newNode(key, l, r) /\ "key" \notin DOMAIN NULL
  BY DEF newNode, NULL
<1>. QED BY <1>1 DEF newNode

\* the trees up to size i
BuiltTo(f, i, key) ==
  /\ DOMAIN f = 0..i
  /\ f[0] = NULL
  /\ \A n \in 1..i : f[n] = newNode(key, f[LeftOf(n)], f[RightOf(n)])

LEMMA BuildPrefixes ==
  ASSUME NEW key, NEW i \in Nat PROVE \E f : BuiltTo(f, i, key)
<1>. DEFINE T == {j \in Nat : ~\E f : BuiltTo(f, j, key)}
<1>1. SUFFICES ASSUME T # {} PROVE FALSE
  OBVIOUS
<1>2. T \in SUBSET Nat
  OBVIOUS
<1>3. PICK j \in T : \A m \in T : j <= m
  <2>. HIDE DEF T
  <2>. QED BY <1>1, <1>2, LeastExists
<1>4. CASE j = 0
  <2>1. BuiltTo([n \in 0..0 |-> NULL], 0, key)
    BY DEF BuiltTo
  <2>. QED BY <1>3, <1>4, <2>1
<1>5. CASE j # 0
  <2>1. j - 1 \in Nat /\ j - 1 \notin T
    <3>. HIDE DEF T
    <3>. QED BY <1>2, <1>3, <1>5
  <2>2. PICK f : BuiltTo(f, j - 1, key)
    BY <2>1
  <2>. DEFINE g == [n \in 0..j |-> IF n = j THEN newNode(key, f[LeftOf(j)], f[RightOf(j)])
                                   ELSE f[n]]
  <2>3. DOMAIN g = 0..j /\ g[0] = NULL /\ \A n \in 0..j-1 : g[n] = f[n]
    BY <1>3, <1>5, <2>2 DEF BuiltTo
  <2>4. ASSUME NEW n \in 1..j PROVE g[n] = newNode(key, g[LeftOf(n)], g[RightOf(n)])
    <3>1. LeftOf(n) \in 0..j-1 /\ RightOf(n) \in 0..j-1
      BY <1>3, Halves
    <3>2. g[LeftOf(n)] = f[LeftOf(n)] /\ g[RightOf(n)] = f[RightOf(n)]
      BY <2>3, <3>1
    <3>3. g[n] = newNode(key, f[LeftOf(n)], f[RightOf(n)])
      BY <1>3, <2>2, <2>3 DEF BuiltTo
    <3>. QED BY <3>2, <3>3
  <2>5. BuiltTo(g, j, key)
    <3>. HIDE DEF g
    <3>. QED BY <2>3, <2>4 DEF BuiltTo
  <2>. QED BY <1>3, <2>5
<1>. QED BY <1>3, <1>4, <1>5

\* what buildTree makes: size nodes, the odd one on the left
LEMMA Builds ==
  ASSUME NEW key, NEW size \in Nat PROVE BuiltTo(Built(size, key), size, key)
<1>. DEFINE Rec(f) == f = [n \in 0..size |-> IF n = 0 THEN NULL
               ELSE LET halfSize == (n - 1) \div 2
                    IN newNode(key, f[n - 1 - halfSize], f[halfSize])]
<1>1. PICK f : BuiltTo(f, size, key)
  BY BuildPrefixes
<1>2. PICK g : g = [n \in 0..size |-> f[n]]
  OBVIOUS
<1>3. Rec(g)
  <2>1. ASSUME NEW n \in 0..size, n # 0
        PROVE  g[n] = newNode(key, g[n - 1 - (n - 1) \div 2], g[(n - 1) \div 2])
    <3>1. LeftOf(n) \in 0..size /\ RightOf(n) \in 0..size
      BY <2>1, Halves
    <3>2. g[LeftOf(n)] = f[LeftOf(n)] /\ g[RightOf(n)] = f[RightOf(n)]
      BY <1>2, <3>1
    <3>3. g[n] = newNode(key, f[LeftOf(n)], f[RightOf(n)])
      BY <1>1, <1>2, <2>1 DEF BuiltTo
    <3>. QED BY <3>2, <3>3 DEF LeftOf, RightOf
  <2>2. g[0] = NULL
    BY <1>1, <1>2 DEF BuiltTo
  <2>. QED BY <1>2, <2>1, <2>2
<1>4. Built(size, key) = CHOOSE h : Rec(h)
  BY DEF Built
<1>5. Rec(Built(size, key))
  BY <1>3, <1>4
<1>6. PICK b : b = Built(size, key)
  OBVIOUS
<1>7. DOMAIN b = 0..size /\ b[0] = NULL
  BY <1>5, <1>6
<1>8. ASSUME NEW n \in 1..size PROVE b[n] = newNode(key, b[LeftOf(n)], b[RightOf(n)])
  BY <1>5, <1>6 DEF LeftOf, RightOf
<1>. QED BY <1>6, <1>7, <1>8 DEF BuiltTo

-----------------------------------------------------------------------------
(* serialize                                                               *)

TreesOf(b, i) == {b[n] : n \in 0..i}

StringsOf(f, b, i) ==
  f = [t \in TreesOf(b, i) |->
         IF t = NULL THEN <<NO_NODE>> ELSE <<t.key>> \o f[t.left] \o f[t.right]]

LEMMA StringPrefixes ==
  ASSUME NEW key, NEW size \in Nat, NEW b, BuiltTo(b, size, key), NEW i \in 0..size
  PROVE  \E f : StringsOf(f, b, i)
<1>. DEFINE T == {j \in 0..size : ~\E f : StringsOf(f, b, j)}
<1>1. SUFFICES ASSUME T # {} PROVE FALSE
  OBVIOUS
<1>2. T \in SUBSET Nat
  OBVIOUS
<1>3. PICK j \in T : \A m \in T : j <= m
  <2>. HIDE DEF T
  <2>. QED BY <1>1, <1>2, LeastExists
<1>4. CASE j = 0
  <2>1. TreesOf(b, 0) = {NULL}
    BY DEF TreesOf, BuiltTo
  <2>2. PICK f : f = [t \in TreesOf(b, 0) |-> <<NO_NODE>>]
    OBVIOUS
  <2>3. StringsOf(f, b, 0)
    BY <2>1, <2>2 DEF StringsOf
  <2>. QED BY <1>3, <1>4, <2>3
<1>5. CASE j # 0
  <2>1. j - 1 \in 0..size /\ j - 1 \notin T /\ j \in 1..size
    <3>1. j \in 0..size
      BY <1>3
    <3>. HIDE DEF T
    <3>. QED BY <1>3, <1>5, <3>1
  <2>2. PICK f : StringsOf(f, b, j - 1)
    BY <2>1
  <2>3. TreesOf(b, j) = TreesOf(b, j - 1) \cup {b[j]}
    BY <2>1 DEF TreesOf
  <2>4. ASSUME NEW n \in 1..j
        PROVE  /\ b[n] # NULL
               /\ b[n].left \in TreesOf(b, j - 1) /\ b[n].right \in TreesOf(b, j - 1)
    <3>1. LeftOf(n) \in 0..j-1 /\ RightOf(n) \in 0..j-1
      BY <2>1, Halves
    <3>2. b[n] = newNode(key, b[LeftOf(n)], b[RightOf(n)])
      BY <2>1 DEF BuiltTo
    <3>. QED BY <3>1, <3>2, NodesAreTrees DEF TreesOf
  <2>5. CASE b[j] \in TreesOf(b, j - 1)
    <3>1. TreesOf(b, j) = TreesOf(b, j - 1)
      BY <2>3, <2>5
    <3>2. StringsOf(f, b, j)
      BY <2>2, <3>1 DEF StringsOf
    <3>. QED BY <1>3, <3>2
  <2>6. CASE b[j] \notin TreesOf(b, j - 1)
    <3>1. PICK g : g = [t \in TreesOf(b, j) |->
                     IF t = b[j] THEN <<t.key>> \o f[t.left] \o f[t.right] ELSE f[t]]
      OBVIOUS
    <3>2. \A t \in TreesOf(b, j - 1) : g[t] = f[t]
      BY <2>3, <2>6, <3>1
    <3>3. ASSUME NEW t \in TreesOf(b, j)
          PROVE  g[t] = IF t = NULL THEN <<NO_NODE>> ELSE <<t.key>> \o g[t.left] \o g[t.right]
      <4>1. PICK n \in 0..j : t = b[n]
        BY DEF TreesOf
      <4>2. CASE n = 0
        <5>1. t = NULL /\ t \in TreesOf(b, j - 1)
          BY <2>1, <4>1, <4>2 DEF BuiltTo, TreesOf
        <5>2. f[t] = <<NO_NODE>>
          BY <2>2, <5>1 DEF StringsOf
        <5>. QED BY <3>2, <5>1, <5>2
      <4>3. CASE n # 0
        <5>1. t # NULL /\ t.left \in TreesOf(b, j - 1) /\ t.right \in TreesOf(b, j - 1)
          BY <2>4, <4>1, <4>3
        <5>2. g[t.left] = f[t.left] /\ g[t.right] = f[t.right]
          BY <3>2, <5>1
        <5>3. g[t] = <<t.key>> \o f[t.left] \o f[t.right]
          <6>1. CASE t = b[j]
            BY <3>1, <6>1
          <6>2. CASE t # b[j]
            <7>1. t \in TreesOf(b, j - 1)
              BY <2>3, <6>2
            <7>. QED BY <2>2, <3>2, <5>1, <7>1 DEF StringsOf
          <6>. QED BY <6>1, <6>2
        <5>. QED BY <5>1, <5>2, <5>3
      <4>. QED BY <4>2, <4>3
    <3>4. StringsOf(g, b, j)
      BY <3>1, <3>3 DEF StringsOf
    <3>. QED BY <1>3, <3>4
  <2>. QED BY <2>5, <2>6
<1>. QED BY <1>4, <1>5

StringOf(b, size, n) == Serialize(b[n], TreesOf(b, size))

\* what serialize writes: a node, its left and its right subtree
LEMMA Serializes ==
  ASSUME NEW key, NEW size \in Nat, NEW b, BuiltTo(b, size, key)
  PROVE  /\ StringOf(b, size, 0) = <<NO_NODE>>
         /\ \A n \in 1..size : StringOf(b, size, n) =
              <<key>> \o StringOf(b, size, LeftOf(n)) \o StringOf(b, size, RightOf(n))
<1>. DEFINE trees == TreesOf(b, size)
            Rec(f) == f = [t \in trees |-> IF t = NULL THEN <<NO_NODE>>
                                           ELSE <<t.key>> \o f[t.left] \o f[t.right]]
<1>1. \E f : Rec(f)
  <2>1. size \in 0..size
    OBVIOUS
  <2>2. PICK f : StringsOf(f, b, size)
    BY <2>1, StringPrefixes
  <2>. QED BY <2>2 DEF StringsOf
<1>2. PICK f : f = CHOOSE h : Rec(h)
  OBVIOUS
<1>3. Rec(f)
  BY <1>1, <1>2
<1>4. \A t : Serialize(t, trees) = f[t]
  BY <1>2 DEF Serialize
<1>5. \A n \in 0..size : b[n] \in trees
  BY DEF TreesOf
<1>6. b[0] = NULL
  BY DEF BuiltTo
<1>9. \A t \in trees :
        f[t] = IF t = NULL THEN <<NO_NODE>> ELSE <<t.key>> \o f[t.left] \o f[t.right]
  <2>. HIDE DEF trees
  <2>. QED BY <1>3
<1>7. f[b[0]] = <<NO_NODE>>
  <2>1. b[0] \in trees
    BY <1>5
  <2>. HIDE DEF trees, Rec
  <2>. QED BY <1>6, <1>9, <2>1
<1>8. ASSUME NEW n \in 1..size
      PROVE  f[b[n]] = <<key>> \o f[b[LeftOf(n)]] \o f[b[RightOf(n)]]
  <2>1. b[n] = newNode(key, b[LeftOf(n)], b[RightOf(n)])
    BY DEF BuiltTo
  <2>2. /\ b[n] # NULL /\ b[n].key = key
        /\ b[n].left = b[LeftOf(n)] /\ b[n].right = b[RightOf(n)]
    BY <2>1, NodesAreTrees
  <2>3. f[b[n]] = <<b[n].key>> \o f[b[n].left] \o f[b[n].right]
    <3>1. b[n] \in trees
      BY <1>5
    <3>. HIDE DEF trees, Rec
    <3>. QED BY <1>9, <2>2, <3>1
  <2>. QED BY <2>2, <2>3
<1>. QED BY <1>4, <1>7, <1>8 DEF StringOf

\* a node in front of its two subtrees
Joined(S, key, l, r) ==
  /\ <<key>> \o l \o r \in Seq(S)
  /\ Len(<<key>> \o l \o r) = 1 + Len(l) + Len(r)
  /\ (<<key>> \o l \o r)[1] = key
  /\ \A i \in 1..Len(l) : (<<key>> \o l \o r)[1 + i] = l[i]
  /\ \A i \in 1..Len(r) : (<<key>> \o l \o r)[1 + Len(l) + i] = r[i]

LEMMA Joins ==
  ASSUME NEW S, NEW key \in S, NEW l \in Seq(S), NEW r \in Seq(S)
  PROVE  Joined(S, key, l, r)
<1>0. Len(l) \in Nat /\ Len(r) \in Nat
  BY LenProperties
<1>1. PICK h : h = <<key>> \o l
  OBVIOUS
<1>2. /\ h \in Seq(S) /\ Len(h) = 1 + Len(l) /\ h[1] = key
      /\ \A i \in 1..Len(l) : h[1 + i] = l[i]
  <2>1. <<key>> \in Seq(S) /\ Len(<<key>>) = 1 /\ <<key>>[1] = key
    OBVIOUS
  <2>2. /\ h \in Seq(S) /\ Len(h) = Len(<<key>>) + Len(l)
        /\ \A i \in 1 .. Len(<<key>>) + Len(l) :
             h[i] = IF i <= Len(<<key>>) THEN <<key>>[i] ELSE l[i - Len(<<key>>)]
    BY <1>1, <2>1, ConcatProperties
  <2>. QED BY <1>0, <2>1, <2>2
<1>3. PICK w : w = h \o r
  OBVIOUS
<1>4. /\ w \in Seq(S) /\ Len(w) = Len(h) + Len(r)
      /\ \A i \in 1 .. Len(h) + Len(r) : w[i] = IF i <= Len(h) THEN h[i] ELSE r[i - Len(h)]
  <2>1. h \in Seq(S)
    BY <1>2
  <2>. QED BY <1>3, <2>1, ConcatProperties
<1>5. \A i \in 1..1+Len(l) : w[i] = h[i]
  BY <1>0, <1>2, <1>4
<1>6. \A i \in 1..Len(r) : w[1 + Len(l) + i] = r[i]
  BY <1>0, <1>2, <1>4
<1>7. \A i \in 1..Len(l) : w[1 + i] = l[i]
  BY <1>0, <1>2, <1>5
<1>8. w[1] = key
  BY <1>0, <1>2, <1>5
<1>9. Len(w) = 1 + Len(l) + Len(r)
  BY <1>0, <1>2, <1>4
<1>. QED BY <1>1, <1>3, <1>4, <1>6, <1>7, <1>8, <1>9 DEF Joined

LEMMA StringsTyped ==
  ASSUME NEW S, NO_NODE \in S, NEW key \in S, NEW size \in Nat,
         NEW b, BuiltTo(b, size, key), NEW n \in 0..size
  PROVE  StringOf(b, size, n) \in Seq(S) /\ Len(StringOf(b, size, n)) = 2 * n + 1
<1>. DEFINE P(m) == StringOf(b, size, m) \in Seq(S) /\ Len(StringOf(b, size, m)) = 2 * m + 1
            T == {m \in 0..size : ~P(m)}
<1>1. SUFFICES ASSUME T # {} PROVE FALSE
  OBVIOUS
<1>2. T \in SUBSET Nat
  OBVIOUS
<1>3. PICK m \in T : \A j \in T : m <= j
  <2>. HIDE DEF T
  <2>. QED BY <1>1, <1>2, LeastExists
<1>4. \A j \in 0..m-1 : P(j)
  <2>1. m \in 0..size
    BY <1>3
  <2>2. ASSUME NEW j \in 0..m-1 PROVE j \in 0..size /\ j \notin T
    <3>. HIDE DEF T, P
    <3>. QED BY <1>2, <1>3, <2>1
  <2>. HIDE DEF P
  <2>. QED BY <2>2
<1>5. CASE m = 0
  <2>1. P(0)
    <3>1. StringOf(b, size, 0) = <<NO_NODE>>
      BY Serializes
    <3>2. <<NO_NODE>> \in Seq(S) /\ Len(<<NO_NODE>>) = 1
      OBVIOUS
    <3>3. Len(StringOf(b, size, 0)) = 1 /\ 2 * 0 + 1 = 1
      BY <3>1, <3>2
    <3>4. StringOf(b, size, 0) \in Seq(S)
      BY <3>1, <3>2
    <3>. QED BY <3>3, <3>4
  <2>. QED BY <1>3, <1>5, <2>1
<1>6. CASE m # 0
  <2>1. m \in 1..size /\ m \in Nat
    BY <1>3, <1>6
  <2>2. /\ LeftOf(m) \in 0..m-1 /\ RightOf(m) \in 0..m-1
        /\ LeftOf(m) + RightOf(m) = m - 1
    BY <1>6, <2>1, Halves
  <2>3. PICK l, r : l = StringOf(b, size, LeftOf(m)) /\ r = StringOf(b, size, RightOf(m))
    OBVIOUS
  <2>4. StringOf(b, size, m) = <<key>> \o l \o r
    <3>1. \A j \in 1..size : StringOf(b, size, j) =
            <<key>> \o StringOf(b, size, LeftOf(j)) \o StringOf(b, size, RightOf(j))
      BY Serializes
    <3>. HIDE DEF T, P
    <3>. QED BY <2>1, <2>3, <3>1, Zenon
  <2>5. l \in Seq(S) /\ Len(l) = 2 * LeftOf(m) + 1
    BY <1>4, <2>2, <2>3
  <2>6. r \in Seq(S) /\ Len(r) = 2 * RightOf(m) + 1
    BY <1>4, <2>2, <2>3
  <2>7. Joined(S, key, l, r)
    BY <2>5, <2>6, Joins
  <2>8. P(m)
    <3>1. StringOf(b, size, m) \in Seq(S)
      BY <2>4, <2>7 DEF Joined
    <3>2. Len(StringOf(b, size, m)) = 1 + Len(l) + Len(r)
      BY <2>4, <2>7 DEF Joined
    <3>3. PICK x, y : x = LeftOf(m) /\ y = RightOf(m)
      OBVIOUS
    <3>4. 1 + (2 * x + 1) + (2 * y + 1) = 2 * m + 1
      <4>1. m \in Nat /\ x \in Nat /\ y \in Nat /\ x + y = m - 1
        BY <2>1, <2>2, <3>3
      <4>. HIDE DEF T, P
      <4>. QED BY <4>1
    <3>5. Len(StringOf(b, size, m)) = 2 * m + 1
      BY <2>5, <2>6, <3>2, <3>3, <3>4
    <3>. QED BY <3>1, <3>5
  <2>. QED BY <1>3, <2>8
<1>. QED BY <1>5, <1>6

-----------------------------------------------------------------------------
(* deserialize                                                             *)

ReadAt(f, list, p) ==
  IF p > Len(list) THEN [next |-> Len(list) + 2, nodes |-> 0]
  ELSE IF list[p] = NO_NODE THEN [next |-> p + 1, nodes |-> 0]
  ELSE LET left  == f[p + 1]
           right == f[left.next]
       IN [next |-> right.next, nodes |-> 1 + left.nodes + right.nodes]

\* deserialize from place q on: it goes forward
ReadFrom(f, list, q) ==
  /\ DOMAIN f = q..Len(list)+2
  /\ \A p \in q..Len(list)+2 :
       /\ f[p] = ReadAt(f, list, p)
       /\ f[p].next \in 1..Len(list)+2 /\ (p <= Len(list) => f[p].next > p)

LEMMA ReadSuffixes ==
  ASSUME NEW S, NEW list \in Seq(S), NEW i \in 0..Len(list)+1
  PROVE  \E f : ReadFrom(f, list, Len(list) + 2 - i)
<1>0. Len(list) \in Nat
  OBVIOUS
<1>. DEFINE L == Len(list)
            T == {j \in 0..L+1 : ~\E f : ReadFrom(f, list, L + 2 - j)}
<1>1. SUFFICES ASSUME T # {} PROVE FALSE
  OBVIOUS
<1>2. T \in SUBSET Nat
  BY <1>0
<1>3. PICK j \in T : \A m \in T : j <= m
  <2>. HIDE DEF T
  <2>. QED BY <1>1, <1>2, LeastExists
<1>4. CASE j = 0
  <2>1. PICK f : f = [p \in L+2..L+2 |-> [next |-> L + 2, nodes |-> 0]]
    OBVIOUS
  <2>2. ReadFrom(f, list, L + 2)
    BY <1>0, <2>1 DEF ReadFrom, ReadAt
  <2>. QED BY <1>0, <1>3, <1>4, <2>2
<1>5. CASE j # 0
  <2>1. j - 1 \in 0..L+1 /\ j - 1 \notin T /\ j \in 1..L+1
    <3>1. j \in 0..L+1
      BY <1>3
    <3>. HIDE DEF T
    <3>. QED BY <1>0, <1>3, <1>5, <3>1
  <2>2. PICK q \in 1..L+1 : q = L + 2 - j /\ L + 2 - (j - 1) = q + 1
    <3>1. L + 2 - j \in 1..L+1 /\ L + 2 - (j - 1) = L + 2 - j + 1
      BY <1>0, <2>1
    <3>. HIDE DEF L
    <3>. QED BY <3>1
  <2>3. PICK f : ReadFrom(f, list, q + 1)
    BY <2>1, <2>2
  <2>4. PICK r : r = ReadAt(f, list, q)
    OBVIOUS
  <2>5. r.next \in 1..L+2 /\ (q <= L => r.next > q)
    <3>1. CASE q > L
      BY <1>0, <2>4, <3>1 DEF ReadAt
    <3>2. CASE q <= L /\ list[q] = NO_NODE
      BY <1>0, <2>4, <3>2 DEF ReadAt
    <3>3. CASE q <= L /\ list[q] # NO_NODE
      <4>1. PICK left : left = f[q + 1]
        OBVIOUS
      <4>2. PICK right : right = f[left.next]
        OBVIOUS
      <4>3. q + 1 \in q+1..L+2
        BY <1>0, <3>3
      <4>4. left.next \in 1..L+2 /\ (q + 1 <= L => left.next > q + 1)
        BY <2>3, <4>1, <4>3 DEF ReadFrom
      <4>5. left.next \in q+1..L+2
        <5>1. CASE q + 1 <= L
          BY <1>0, <4>4, <5>1
        <5>2. CASE q + 1 > L
          <6>1. left = [next |-> L + 2, nodes |-> 0]
            BY <2>3, <4>1, <4>3, <5>2 DEF ReadFrom, ReadAt
          <6>. QED BY <1>0, <3>3, <6>1
        <5>. QED BY <1>0, <5>1, <5>2
      <4>6. right.next \in 1..L+2 /\ (left.next <= L => right.next > left.next)
        BY <2>3, <4>2, <4>5 DEF ReadFrom
      <4>7. right.next > q
        <5>1. CASE left.next <= L
          BY <1>0, <4>5, <4>6, <5>1
        <5>2. CASE left.next > L
          <6>1. right = [next |-> L + 2, nodes |-> 0]
            BY <2>3, <4>2, <4>5, <5>2 DEF ReadFrom, ReadAt
          <6>. QED BY <1>0, <3>3, <6>1
        <5>. QED BY <1>0, <4>5, <5>1, <5>2
      <4>8. r.next = right.next
        BY <1>0, <2>4, <3>3, <4>1, <4>2 DEF ReadAt
      <4>. QED BY <4>6, <4>7, <4>8
    <3>. QED BY <1>0, <3>1, <3>2, <3>3
  <2>6. PICK g : g = [p \in q..L+2 |-> IF p = q THEN r ELSE f[p]]
    OBVIOUS
  <2>7. \A p \in q+1..L+2 : g[p] = f[p] /\ p \in q..L+2
    BY <1>0, <2>6
  <2>8. g[q] = r
    BY <1>0, <2>6
  <2>9. ASSUME NEW p \in q..L+2
        PROVE  /\ g[p] = ReadAt(f, list, p) /\ ReadAt(g, list, p) = ReadAt(f, list, p)
               /\ g[p].next \in 1..L+2 /\ (p <= L => g[p].next > p)
    <3>1. p = q \/ p \in q+1..L+2
      BY <1>0
    <3>2. g[p] = ReadAt(f, list, p)
      BY <2>3, <2>4, <2>7, <2>8, <3>1 DEF ReadFrom
    <3>3. g[p].next \in 1..L+2 /\ (p <= L => g[p].next > p)
      BY <2>3, <2>5, <2>7, <2>8, <3>1 DEF ReadFrom
    <3>4. CASE p > L \/ list[p] = NO_NODE
      <4>1. ReadAt(g, list, p) = ReadAt(f, list, p)
        BY <3>4 DEF ReadAt
      <4>. QED BY <3>2, <3>3, <4>1
    <3>5. CASE p <= L /\ list[p] # NO_NODE
      <4>1. p + 1 \in q+1..L+2
        BY <1>0, <3>5
      <4>2. PICK left : left = f[p + 1] /\ left = g[p + 1]
        BY <2>7, <4>1
      <4>3. left.next \in 1..L+2 /\ (p + 1 <= L => left.next > p + 1)
        BY <2>3, <4>1, <4>2 DEF ReadFrom
      <4>4. left.next \in q+1..L+2
        <5>1. CASE p + 1 <= L
          BY <1>0, <4>1, <4>3, <5>1
        <5>2. CASE p + 1 > L
          <6>1. left = [next |-> L + 2, nodes |-> 0]
            BY <2>3, <4>1, <4>2, <5>2 DEF ReadFrom, ReadAt
          <6>. QED BY <1>0, <4>1, <6>1
        <5>. QED BY <1>0, <5>1, <5>2
      <4>5. f[left.next] = g[left.next]
        BY <2>7, <4>4
      <4>6. ReadAt(g, list, p) = ReadAt(f, list, p)
        BY <4>2, <4>5 DEF ReadAt
      <4>. QED BY <3>2, <3>3, <4>6
    <3>. QED BY <1>0, <3>4, <3>5
  <2>10. DOMAIN g = q..L+2
    BY <2>6
  <2>11. ReadFrom(g, list, q)
    BY <2>9, <2>10 DEF ReadFrom
  <2>. QED BY <1>3, <2>2, <2>11
<1>. QED BY <1>4, <1>5

\* what deserialize does at a place of the string
LEMMA Deserializes ==
  ASSUME NEW S, NEW list \in Seq(S), NEW p \in 1..Len(list)
  PROVE  LET left  == Deserialize(list, p + 1)
             right == Deserialize(list, left.next)
         IN Deserialize(list, p) =
              IF list[p] = NO_NODE THEN [next |-> p + 1, nodes |-> 0]
              ELSE [next |-> right.next, nodes |-> 1 + left.nodes + right.nodes]
<1>. DEFINE L == Len(list)
            Rec(f) == f = [q \in 1..L+2 |->
               IF q > L THEN [next |-> L + 2, nodes |-> 0]
               ELSE IF list[q] = NO_NODE THEN [next |-> q + 1, nodes |-> 0]
               ELSE LET left  == f[q + 1]
                        right == f[left.next]
                    IN [next |-> right.next, nodes |-> 1 + left.nodes + right.nodes]]
<1>1. L \in Nat
  OBVIOUS
<1>2. PICK f : ReadFrom(f, list, 1)
  <2>1. L + 1 \in 0..L+1 /\ L + 2 - (L + 1) = 1
    BY <1>1
  <2>. QED BY <2>1, ReadSuffixes
<1>3. PICK g : g = [q \in 1..L+2 |-> f[q]]
  OBVIOUS
<1>4. Rec(g)
  <2>1. \A q \in 1..L+2 : g[q] = f[q]
    BY <1>3
  <2>2. ASSUME NEW q \in 1..L+2 PROVE g[q] = ReadAt(g, list, q)
    <3>1. g[q] = ReadAt(f, list, q)
      BY <1>2, <1>3 DEF ReadFrom
    <3>2. CASE q > L \/ list[q] = NO_NODE
      BY <3>1, <3>2 DEF ReadAt
    <3>3. CASE q <= L /\ list[q] # NO_NODE
      <4>1. q + 1 \in 1..L+2
        BY <1>1, <3>3
      <4>2. f[q + 1].next \in 1..L+2
        BY <1>2, <4>1 DEF ReadFrom
      <4>3. g[q + 1] = f[q + 1] /\ g[f[q + 1].next] = f[f[q + 1].next]
        BY <2>1, <4>1, <4>2
      <4>. QED BY <3>1, <4>3 DEF ReadAt
    <3>. QED BY <1>1, <3>2, <3>3
  <2>3. g = [q \in 1..L+2 |-> ReadAt(g, list, q)]
    BY <1>3, <2>2
  <2>. QED BY <2>3 DEF ReadAt
<1>5. PICK r : r = CHOOSE h : Rec(h)
  OBVIOUS
<1>6. r = [q \in 1..L+2 |-> ReadAt(r, list, q)]
  <2>1. Rec(r)
    BY <1>4, <1>5
  <2>. QED BY <2>1 DEF ReadAt
<1>7. \A q : Deserialize(list, q) = r[q]
  BY <1>5 DEF Deserialize
<1>8. p \in 1..L+2 /\ ~(p > L)
  BY <1>1
<1>9. r[p] = ReadAt(r, list, p)
  BY <1>6, <1>8
<1>. QED BY <1>7, <1>8, <1>9 DEF ReadAt

\* string stands in list from place p on
StandsAt(string, list, p) ==
  /\ p \in 1..Len(list) /\ p + Len(string) - 1 <= Len(list)
  /\ \A i \in 1..Len(string) : list[p + i - 1] = string[i]

(* Where a serialized tree stands in a list, deserialize passes over just  *)
(* it and counts its nodes.                                                *)
LEMMA TreeDecodes ==
  ASSUME NEW S, NO_NODE \in S, NEW key \in S, key # NO_NODE, NEW size \in Nat,
         NEW b, BuiltTo(b, size, key), NEW list \in Seq(S)
  PROVE  \A n \in 0..size, p \in 1..Len(list) :
           StandsAt(StringOf(b, size, n), list, p) =>
             Deserialize(list, p) = [next |-> p + 2 * n + 1, nodes |-> n]
<1>. DEFINE Decodes(n) ==
              \A p \in 1..Len(list) : StandsAt(StringOf(b, size, n), list, p) =>
                Deserialize(list, p) = [next |-> p + 2 * n + 1, nodes |-> n]
            T == {n \in 0..size : ~Decodes(n)}
<1>1. SUFFICES ASSUME T # {} PROVE FALSE
  <2>. HIDE DEF Decodes
  <2>1. \A n \in 0..size : Decodes(n)
    BY <1>1
  <2>. QED BY <2>1 DEF Decodes
<1>2. T \in SUBSET Nat
  OBVIOUS
<1>3. PICK m \in T : \A j \in T : m <= j
  <2>. HIDE DEF T
  <2>. QED BY <1>1, <1>2, LeastExists
<1>4. m \in 0..size /\ ~Decodes(m)
  <2>. HIDE DEF Decodes
  <2>. QED BY <1>3
<1>5. \A j \in 0..m-1 : Decodes(j)
  <2>1. ASSUME NEW j \in 0..m-1 PROVE j \in 0..size /\ j \notin T
    <3>. HIDE DEF T, Decodes
    <3>. QED BY <1>2, <1>3, <1>4
  <2>. HIDE DEF Decodes
  <2>. QED BY <2>1
<1>6. PICK p \in 1..Len(list) :
        /\ StandsAt(StringOf(b, size, m), list, p)
        /\ Deserialize(list, p) # [next |-> p + 2 * m + 1, nodes |-> m]
  <2>. HIDE DEF T
  <2>. QED BY <1>4
<1>. HIDE DEF T
<1>7. Len(list) \in Nat /\ p \in Nat
  OBVIOUS
<1>8. CASE m = 0
  <2>1. StringOf(b, size, 0) = <<NO_NODE>>
    BY Serializes
  <2>2. list[p] = NO_NODE
    <3>1. Len(<<NO_NODE>>) = 1 /\ <<NO_NODE>>[1] = NO_NODE
      OBVIOUS
    <3>2. StandsAt(<<NO_NODE>>, list, p)
      BY <1>6, <1>8, <2>1
    <3>3. list[p + 1 - 1] = <<NO_NODE>>[1]
      BY <3>1, <3>2 DEF StandsAt
    <3>. QED BY <1>7, <3>1, <3>3
  <2>3. Deserialize(list, p) = [next |-> p + 1, nodes |-> 0]
    BY <2>2, Deserializes
  <2>. QED BY <1>6, <1>7, <1>8, <2>3
<1>9. CASE m # 0
  <2>. HIDE DEF Decodes
  <2>1. m \in 1..size /\ m \in Nat
    BY <1>4, <1>9
  <2>2. PICK x, y : x = LeftOf(m) /\ y = RightOf(m)
    OBVIOUS
  <2>3. x \in 0..m-1 /\ y \in 0..m-1 /\ x + y = m - 1 /\ x \in 0..size /\ y \in 0..size
    <3>1. x \in 0..m-1 /\ y \in 0..m-1 /\ x + y = m - 1
      BY <1>9, <2>1, <2>2, Halves
    <3>. QED BY <2>1, <3>1
  <2>4. PICK l, r, w : /\ l = StringOf(b, size, x) /\ r = StringOf(b, size, y)
                      /\ w = StringOf(b, size, m)
    OBVIOUS
  <2>5. w = <<key>> \o l \o r
    <3>1. \A j \in 1..size : StringOf(b, size, j) =
            <<key>> \o StringOf(b, size, LeftOf(j)) \o StringOf(b, size, RightOf(j))
      BY Serializes
    <3>. QED BY <2>1, <2>2, <2>4, <3>1, Zenon
  <2>6. /\ l \in Seq(S) /\ Len(l) = 2 * x + 1
        /\ r \in Seq(S) /\ Len(r) = 2 * y + 1
    BY <2>3, <2>4, StringsTyped
  <2>7. Joined(S, key, l, r)
    BY <2>6, Joins
  <2>8. /\ Len(w) = 1 + Len(l) + Len(r) /\ w[1] = key
        /\ \A i \in 1..Len(l) : w[1 + i] = l[i]
        /\ \A i \in 1..Len(r) : w[1 + Len(l) + i] = r[i]
    BY <2>5, <2>7 DEF Joined
  <2>9. /\ p + Len(w) - 1 <= Len(list)
        /\ \A i \in 1..Len(w) : list[p + i - 1] = w[i]
    BY <1>6, <2>4 DEF StandsAt
  <2>10. Len(l) \in Nat /\ Len(r) \in Nat /\ Len(w) \in Nat
    BY <2>3, <2>6, <2>8
  <2>11. list[p] # NO_NODE
    <3>1. list[p + 1 - 1] = w[1]
      BY <2>8, <2>9, <2>10
    <3>. QED BY <1>7, <2>8, <3>1
  <2>12. StandsAt(l, list, p + 1)
    <3>1. p + 1 \in 1..Len(list) /\ (p + 1) + Len(l) - 1 <= Len(list)
      <4>1. PICK c, d, z \in Nat : c = Len(l) /\ d = Len(r) /\ z = Len(list)
        BY <1>7, <2>10
      <4>2. p + (1 + c + d) - 1 <= z /\ d # 0
        BY <2>3, <2>6, <2>8, <2>9, <4>1
      <4>3. d >= 1
        BY <4>1, <4>2
      <4>4. p \in 1..z
        BY <4>1
      <4>5. p + 1 \in 1..z /\ (p + 1) + c - 1 <= z
        BY <4>1, <4>2, <4>3, <4>4
      <4>. QED BY <4>1, <4>5
    <3>2. ASSUME NEW i \in 1..Len(l) PROVE list[(p + 1) + i - 1] = l[i]
      <4>1. 1 + i \in 1..Len(w) /\ p + (1 + i) - 1 = (p + 1) + i - 1
        BY <1>7, <2>8, <2>10
      <4>. QED BY <2>8, <2>9, <4>1
    <3>. QED BY <3>1, <3>2 DEF StandsAt
  <2>13. Deserialize(list, p + 1) = [next |-> p + 1 + 2 * x + 1, nodes |-> x]
    <3>1. Decodes(x) /\ p + 1 \in 1..Len(list)
      BY <1>5, <2>3, <2>12 DEF StandsAt
    <3>. QED BY <2>4, <2>12, <3>1 DEF Decodes
  <2>14. PICK q : q = p + 1 + 2 * x + 1 /\ q = p + 1 + Len(l) /\ q \in Nat
    BY <1>7, <2>3, <2>6
  <2>15. StandsAt(r, list, q)
    <3>1. q \in 1..Len(list) /\ q + Len(r) - 1 <= Len(list)
      <4>1. PICK c, d, z \in Nat : c = Len(l) /\ d = Len(r) /\ z = Len(list)
        BY <1>7, <2>10
      <4>2. p + (1 + c + d) - 1 <= z /\ d # 0 /\ q = p + 1 + c
        BY <2>3, <2>6, <2>8, <2>9, <2>14, <4>1
      <4>3. d >= 1
        BY <4>1, <4>2
      <4>4. p \in 1..z
        BY <4>1
      <4>5. q \in 1..z /\ q + d - 1 <= z
        BY <2>14, <4>1, <4>2, <4>3, <4>4
      <4>. QED BY <4>1, <4>5
    <3>2. ASSUME NEW i \in 1..Len(r) PROVE list[q + i - 1] = r[i]
      <4>1. 1 + Len(l) + i \in 1..Len(w) /\ p + (1 + Len(l) + i) - 1 = q + i - 1
        BY <1>7, <2>8, <2>10, <2>14
      <4>. QED BY <2>8, <2>9, <4>1
    <3>. QED BY <3>1, <3>2 DEF StandsAt
  <2>16. Deserialize(list, q) = [next |-> q + 2 * y + 1, nodes |-> y]
    <3>1. Decodes(y) /\ q \in 1..Len(list)
      BY <1>5, <2>3, <2>15 DEF StandsAt
    <3>. QED BY <2>4, <2>15, <3>1 DEF Decodes
  <2>17. PICK left, right : /\ left = Deserialize(list, p + 1)
                           /\ right = Deserialize(list, left.next)
    OBVIOUS
  <2>18. left.next = q /\ left.nodes = x
    BY <2>13, <2>14, <2>17
  <2>19. right.next = q + 2 * y + 1 /\ right.nodes = y
    BY <2>16, <2>17, <2>18
  <2>20. Deserialize(list, p) = [next |-> right.next, nodes |-> 1 + left.nodes + right.nodes]
    BY <2>11, <2>17, Deserializes
  <2>21. q + 2 * y + 1 = p + 2 * m + 1 /\ 1 + x + y = m
    BY <1>7, <2>1, <2>3, <2>14
  <2>. QED BY <1>6, <2>18, <2>19, <2>20, <2>21
<1>. QED BY <1>8, <1>9

-----------------------------------------------------------------------------
(* For every number of rounds and every size of the trees: what the server *)
(* has counted when it calls deserialize is a whole serialized tree, at    *)
(* whose last character deserialize, which has no bound, stops.            *)
THEOREM CountedBytesDecode == Spec => []MessageDecodes
<1>1. ASSUME IInv PROVE MessageDecodes
  <2>. SUFFICES ASSUME spc = "send", mode = "node", ~split
                PROVE  LET trees == Built(message[1] * Inc, "0")
                           list == Serialize(BuildTree(message[1] * Inc, "0"),
                                             {trees[n] : n \in DOMAIN trees})
                       IN Deserialize(list, 1) = [next |-> Len(message) + 1, nodes |-> si * Inc]
    BY DEF MessageDecodes
  <2>1. message \in Seq({si}) /\ Len(message) = Length(si)
    BY <1>1 DEF IInv, InRound, Serving, ServerOwn
  <2>2. PICK size \in Nat : size = si * Inc
    BY <1>1, ConstantsTyped DEF IInv, Typed
  <2>3. Len(message) = 2 * size + 1
    <3>1. 2 * si * Inc = 2 * (si * Inc)
      BY <1>1, ConstantsTyped DEF IInv, Typed
    <3>. QED BY <2>1, <2>2, <3>1 DEF Length
  <2>4. message[1] = si
    <3>1. 1 \in 1..Len(message)
      BY <2>3
    <3>. QED BY <2>1, <3>1, ElementOfSeq
  <2>5. PICK S : S = {"0", NO_NODE}
    OBVIOUS
  <2>6. PICK key : key = "0"
    OBVIOUS
  <2>7. NO_NODE \in S /\ key \in S /\ key # NO_NODE
    BY <2>5, <2>6 DEF NO_NODE
  <2>8. PICK b : b = Built(size, key)
    OBVIOUS
  <2>9. BuiltTo(b, size, key)
    BY <2>8, Builds
  <2>10. TreesOf(b, size) = {b[n] : n \in DOMAIN b}
    BY <2>9 DEF BuiltTo, TreesOf
  <2>11. PICK list : list = StringOf(b, size, size)
    OBVIOUS
  <2>12. list = Serialize(BuildTree(size, key), {b[n] : n \in DOMAIN b})
    BY <2>8, <2>10, <2>11 DEF StringOf, BuildTree
  <2>13. size \in 0..size
    OBVIOUS
  <2>14. list \in Seq(S) /\ Len(list) = 2 * size + 1
    BY <2>7, <2>9, <2>11, <2>13, StringsTyped
  <2>15. 1 \in 1..Len(list) /\ StandsAt(list, list, 1)
    BY <2>14 DEF StandsAt
  <2>16. Deserialize(list, 1) = [next |-> 1 + 2 * size + 1, nodes |-> size]
    BY <2>7, <2>9, <2>11, <2>13, <2>14, <2>15, TreeDecodes
  <2>17. 1 + 2 * size + 1 = Len(message) + 1
    BY <2>3
  <2>. QED BY <2>2, <2>4, <2>6, <2>8, <2>12, <2>16, <2>17
<1>. QED BY <1>1, Inductive, PTL
=============================================================================
