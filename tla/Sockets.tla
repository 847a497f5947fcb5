------------------------------- MODULE Sockets -------------------------------
(***************************************************************************)
(* The socket round trip of sockets/client.c and sockets/server.c.  In     *)
(* each round the client sends a message whose length both sides compute   *)
(* from the round's number, looping over partial sends; the server loops   *)
(* over recv until it has counted that many bytes and sends the time back; *)
(* the client reads that time with one recv and goes on, whatever it       *)
(* returned.  A connection is two streams of bytes; a byte is represented  *)
(* by the round of the message or reply it belongs to.                     *)
(*   shmht_vs_socket/client.c and server.c, mode "echo" here, are the       *)
(* ancestors: one message, which the server takes with one read, and an    *)
(* answer of a few bytes.                                                   *)
(***************************************************************************)
EXTENDS Integers, Sequences

CONSTANTS Points, Inc,          \* NUM_DATAPOINTS, DATA_INC
          Limit,                \* MESSAGE_LIMIT
          TimeSize,             \* sizeof(struct timespec)
          Buffer,               \* bytes the kernel holds for the server
          MayDie                \* who may be killed: "client", "server"

ASSUME SocketsAssumption ==
  /\ MayDie \subseteq {"client", "server"}
  /\ Points \in Nat \ {0} /\ Inc \in Nat \ {0}
  /\ TimeSize \in Nat \ {0} /\ Buffer \in Nat \ {0}
  /\ Limit \in Nat /\ 2 * Points * Inc + 1 <= Limit

VARIABLES mode,                 \* argv[1] of both: "char" or "node"; or "echo"
          toServer, toClient,   \* bytes under way
          cpc, ci, total_sent,  \* client: where it is, its round
          after,                \* client: the bytes of its struct timespec
          spc, si, message,     \* server: the first total_recv bytes of message
          split                 \* history: a recv gave the client part of a time

client == <<cpc, ci, total_sent, after>>
server == <<spc, si, message>>
vars == <<mode, toServer, toClient, client, server, split>>

\* what a message carries: a character for each node and each missing child;
\* the echo client's message may be as large as the server's array
Length(i) == CASE mode = "node" -> 2 * i * Inc + 1
               [] mode = "char" -> i * Inc
               [] mode = "echo" -> Limit
Rounds == IF mode = "echo" THEN 1 ELSE Points

Bytes(i, n) == [k \in 1..n |-> i]
Gone(pc) == pc \in {"done", "error", "crashed", "killed"}

Init ==
  /\ mode \in {"char", "node", "echo"}
  /\ toServer = <<>> /\ toClient = <<>> /\ split = FALSE
  /\ cpc = "connect" /\ ci = 1 /\ total_sent = 0 /\ after = Bytes(0, TimeSize)
  /\ spc = "start" /\ si = 1 /\ message = <<>>

-----------------------------------------------------------------------------
(* The client                                                              *)

ClientStep(from, to) == cpc = from /\ cpc' = to /\ UNCHANGED <<server, mode>>

Connect ==
  /\ ClientStep("connect", IF spc = "start" \/ Gone(spc) THEN "error" ELSE "build")
  /\ UNCHANGED <<toServer, toClient, ci, total_sent, after, split>>

\* deleteTree, buildTree, serialize.  msgTree is not initialised: in the
\* first round deleteTree may follow whatever it holds and crash.
Build ==
  /\ mode # "echo"
  /\ \/ ClientStep("build", "send")
     \/ mode = "node" /\ ci = 1 /\ ClientStep("build", "crashed")
  /\ total_sent' = 0
  /\ UNCHANGED <<toServer, toClient, ci, after, split>>

\* the echo client's argument is one of six sizes: with any other, length and
\* message are not initialised and it writes wherever they point
ChooseMessage ==
  /\ mode = "echo"
  /\ ClientStep("build", "send") \/ ClientStep("build", "crashed")
  /\ UNCHANGED <<toServer, toClient, ci, total_sent, after, split>>

\* Mutated form: send is not repeated for the bytes it did not take
SendOnce ==
  \E n \in 1..(Length(ci) - total_sent) :
    /\ Len(toServer) + n <= Buffer
    /\ toServer' = toServer \o Bytes(ci, n)
    /\ total_sent' = total_sent + n
    /\ ClientStep("send", "recv")
    /\ UNCHANGED <<toClient, ci, after, split>>

\* send takes some of the bytes that are left, as many as the kernel holds
Send ==
  \E n \in 1..(Length(ci) - total_sent) :
    /\ Len(toServer) + n <= Buffer
    /\ toServer' = toServer \o Bytes(ci, n)
    /\ total_sent' = total_sent + n
    /\ ClientStep("send", IF total_sent' = Length(ci) THEN "recv" ELSE "send")
    /\ UNCHANGED <<toClient, ci, after, split>>

\* the peer is gone: an error, or SIGPIPE; the echo client ignores an error
SendFails ==
  /\ Gone(spc)
  /\ \/ ClientStep("send", "error")
     \/ mode = "echo" /\ ClientStep("send", "recv")
  /\ UNCHANGED <<toServer, toClient, ci, total_sent, after, split>>

\* recv of n bytes, the end of the loop, and after it shutdown and close
Recv(n) ==
  /\ after' = SubSeq(toClient, 1, n) \o SubSeq(after, n + 1, TimeSize)
  /\ toClient' = SubSeq(toClient, n + 1, Len(toClient))
  /\ split' = (split \/ n \in 1..TimeSize-1)
  /\ ci' = ci + 1
  /\ ClientStep("recv", IF ci = Rounds THEN "done" ELSE "build")
  /\ UNCHANGED <<toServer, total_sent>>

\* Mutated forms: recv does not wait; the client insists on a reply
ReceiveNoWait ==
  \E n \in 0..TimeSize : n <= Len(toClient) /\ Recv(n)
ReceiveAgain ==
  \E n \in 1..TimeSize : n <= Len(toClient) /\ Recv(n)

\* recv gives some of the bytes of a time, or none when the peer is gone
\* (an error, if it went with data unread): its result is not looked at
Receive ==
  \E n \in 0..TimeSize :
    /\ n <= Len(toClient)
    /\ n = 0 => Gone(spc) /\ (toClient = <<>> \/ toServer # <<>>)
    /\ Recv(n)

Client == Connect \/ Build \/ ChooseMessage \/ Send \/ SendFails \/ Receive

-----------------------------------------------------------------------------
(* The server                                                              *)

ServerStep(from, to) == spc = from /\ spc' = to /\ UNCHANGED <<client, split, mode>>

\* socket, bind and listen
Listen ==
  /\ ServerStep("start", "accept")
  /\ UNCHANGED <<toServer, toClient, si, message>>

\* waits for a client whose connect has succeeded
Accept ==
  /\ cpc \notin {"connect", "error"}
  /\ ServerStep("accept", "recv")
  /\ UNCHANGED <<toServer, toClient, si, message>>

\* recv of n bytes, and deserialize once the count is right
Store(n) ==
  /\ n <= Len(toServer)
  /\ message' = message \o SubSeq(toServer, 1, n)
  /\ toServer' = SubSeq(toServer, n + 1, Len(toServer))
  /\ ServerStep("recv", IF Len(message') = Length(si) THEN "send" ELSE "recv")
  /\ UNCHANGED <<toClient, si>>

\* Mutated forms: recv may always store MESSAGE_LIMIT bytes; one recv is
\* taken for the whole message
ReadPastEnd == \E n \in 1..Limit : Store(n)
ReadOnce ==
  \E n \in 1..(Limit - Len(message)) :
    /\ n <= Len(toServer)
    /\ message' = message \o SubSeq(toServer, 1, n)
    /\ toServer' = SubSeq(toServer, n + 1, Len(toServer))
    /\ ServerStep("recv", "send")
    /\ UNCHANGED <<toClient, si>>

\* recv asks for all that the array has room for
Read == mode # "echo" /\ \E n \in 1..(Limit - Len(message)) : Store(n)

\* the echo server takes what one read gives for the message; nothing, if the
\* client is gone
EchoRead ==
  /\ mode = "echo"
  /\ toServer = <<>> => Gone(cpc)
  /\ \E n \in 0..Len(toServer) :
       /\ n = 0 => Gone(cpc)
       /\ message' = SubSeq(toServer, 1, n)
       /\ toServer' = SubSeq(toServer, n + 1, Len(toServer))
  /\ ServerStep("recv", "send")
  /\ UNCHANGED <<toClient, si>>

\* recv returns 0, for want of a peer or of room, and will go on doing so:
\* the loop has no test for it
ReadNothing ==
  /\ mode # "echo"
  /\ (toServer = <<>> /\ Gone(cpc)) \/ Len(message) = Limit
  /\ ServerStep("recv", "spin")
  /\ UNCHANGED <<toServer, toClient, si, message>>

\* the peer went with data unread: ECONNRESET
ReadFails ==
  /\ mode # "echo" /\ Gone(cpc) /\ toClient # <<>>
  /\ ServerStep("recv", "error")
  /\ UNCHANGED <<toServer, toClient, si, message>>

\* the end of the loop, and after it shutdown and close
Reply ==
  /\ ServerStep("send", IF si = Rounds THEN "done" ELSE "recv")
  /\ toClient' = toClient \o Bytes(si, TimeSize)
  /\ si' = si + 1
  /\ message' = <<>>
  /\ UNCHANGED toServer

\* SIGPIPE
ReplyFails ==
  /\ Gone(cpc)
  /\ ServerStep("send", "error")
  /\ UNCHANGED <<toServer, toClient, si, message>>

Server ==
  \/ Listen \/ Accept \/ Read \/ ReadNothing \/ ReadFails
  \/ EchoRead \/ Reply \/ ReplyFails

-----------------------------------------------------------------------------

\* killed before it has a connection, it is one whose connect failed
KillClient ==
  /\ "client" \in MayDie /\ ~Gone(cpc)
  /\ cpc' = IF cpc = "connect" THEN "error" ELSE "killed"
  /\ UNCHANGED <<toServer, toClient, ci, total_sent, after, server, split, mode>>

KillServer ==
  /\ "server" \in MayDie /\ ~Gone(spc)
  /\ spc' = "killed"
  /\ UNCHANGED <<toServer, toClient, client, si, message, split, mode>>

Next == Client \/ Server \/ KillClient \/ KillServer

Spec == Init /\ [][Next]_vars

\* both block in nothing but a call that the other side ends
FairSpec == Spec /\ WF_vars(Client) /\ WF_vars(Server)

-----------------------------------------------------------------------------
(* Properties *)

(* total_recv and total_sent stay within the arrays, even when the two     *)
(* sides have lost step: what the server stores never passes               *)
(* MESSAGE_LIMIT, and neither side begins a round beyond the last.         *)
TypeOK ==
  /\ mode \in {"char", "node", "echo"}
  /\ toServer \in Seq(1..Points) /\ Len(toServer) <= Buffer
  /\ toClient \in Seq(1..Points)
  /\ cpc \in {"connect", "build", "send", "recv", "done", "error", "crashed", "killed"}
  /\ spc \in {"start", "accept", "recv", "send", "spin", "done", "error", "killed"}
  /\ ci \in 1..Points+1 /\ si \in 1..Points+1
  /\ total_sent \in 0..Length(Points)
  /\ after \in [1..TimeSize -> 0..Points]
  /\ message \in Seq(1..Points) /\ Len(message) <= Limit
  /\ split \in BOOLEAN

(* The messages are not framed: the server counts bytes.  As long as every *)
(* time arrives in one piece, what the server has counted in a round is    *)
(* of that round's message and no more than its length, however the        *)
(* messages are cut up and whoever dies.                                   *)
OwnBytes ==
  ~split =>
    /\ \A k \in DOMAIN message : message[k] = si
    /\ Len(message) <= Length(si)

\* a message is asked when all of it is sent, in the echo demo when a part is
Asked == IF mode = "echo" THEN total_sent > 0 ELSE total_sent = Length(ci)

RT == INSTANCE RoundTrip WITH
        request <- IF cpc \in {"send", "recv"} /\ Asked /\ si = ci THEN ci ELSE 0,
        reply <- IF toClient = <<>> THEN 0 ELSE toClient[1],
        last <- after[1],
        inStep <- /\ ~split
                  /\ cpc \notin {"error", "crashed", "killed"}
                  /\ spc \notin {"error", "killed", "spin"}

(* So the server answers a message once, after it has all of it, and the   *)
(* client prints for a message the time of that answer, until a side is    *)
(* lost or a time comes in pieces.  The echo server's answer only says     *)
(* that it had something of the message.                                   *)
RefinesRoundTrip == RT!Spec

(* If nobody dies and every time arrives in one piece, both sides go       *)
(* through all the rounds and end.                                         *)
Completes ==
  cpc = "build" ~> \/ cpc = "done" /\ spc = "done"
                   \/ split
                   \/ cpc \in {"error", "crashed", "killed"}
                   \/ spc \in {"error", "killed"}

(* When the server dies the client notices, at the latest when the kernel  *)
(* takes no more bytes.                                                    *)
ClientNotStuck == spc = "killed" ~> Gone(cpc)
=============================================================================
