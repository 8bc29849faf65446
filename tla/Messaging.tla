------------------------------ MODULE Messaging ------------------------------
(***************************************************************************)
(* The messages that all the servers and their clients exchange: one       *)
(* server that runs runMessagingServer (MessagingServer/src), and calls of *)
(* runMessagingClient (MessagingClient/src), each with a connection of its *)
(* own on which one message goes up and at most one comes down.            *)
(*                                                                         *)
(* A message is its length byte and as many bytes more.  Both ends         *)
(* receive in a loop, always into the start of the buffer: of a message    *)
(* that comes in pieces the length byte is overwritten by a byte of the    *)
(* body.  A recv () that returns 0, because the peer has closed, changes   *)
(* nothing and the loop goes on: here, nothing happens any more.           *)
(***************************************************************************)
EXTENDS Integers, Sequences, FiniteSets

CONSTANTS
  Call,            \* calls of runMessagingClient
  Length,          \* msgLength of the messages that are sent
  MAX_MSG_LENGTH,  \* 255
  MAXPENDING,      \* connections that wait to be accepted
  MaxTroubles,     \* bound on the messages in pieces, clients killed and
                   \* failures of malloc() and recv() in the server
  NoCall

ASSUME MessagingAssumption ==
  /\ IsFiniteSet(Call) /\ NoCall \notin Call
  /\ MAX_MSG_LENGTH \in Nat /\ Length \subseteq 0..MAX_MSG_LENGTH
  /\ MAXPENDING \in Nat /\ MaxTroubles \in Nat

VARIABLES
  server,   \* what the server is at, and how it ended
  serving,  \* whose connection it has accepted
  got,      \* its receive loop
  queue,    \* connections that wait to be accepted
  client,   \* what each call is at, or the code it returned
  wants,    \* calls that pass a pReceivedMsg
  reading,  \* the receive loop of each call
  up,       \* what is on its way to the server: its length byte and bytes left
  down,     \* and back
  hungUp,   \* calls whose end of the connection is closed
  dropped,  \* calls whose connection the server has closed
  handled,  \* calls whose message serverHandleMsg has seen
  garbled,  \* calls for which it saw, or read, another one than was sent
  pieces, deaths, failures   \* how often each trouble has been met

serverVars == <<server, serving, got, queue>>
clientVars == <<client, wants, reading>>
troubles == <<pieces, deaths, failures>>
Troubles == pieces + deaths + failures
vars == <<server, serving, got, queue, client, wants, reading, up, down,
          hungUp, dropped, handled, garbled, pieces, deaths, failures>>

SIZE_OF_MSG_LENGTH == 1
Raw(length) == length + SIZE_OF_MSG_LENGTH

\* rawReceivedLength and *pReceivedMsgLength before the first recv ().
Fresh == [raw |-> 0, length |-> MAX_MSG_LENGTH]
Nothing == [length |-> 0, left |-> 0]

\* When the receive loops go on, and when what they have is a message.
Complete(loop) == loop.raw = Raw(loop.length)
GoesOn(loop) == ~Complete(loop) /\ loop.raw < Raw(MAX_MSG_LENGTH) /\ loop.length > 0
\* Mutant: the client waits for one byte more.
ClientWaitsOn(loop) == loop.raw <= Raw(loop.length) /\ loop.length > 0
ClientGoesOn(loop) == GoesOn(loop) /\ loop.raw < Raw(loop.length)

\* What the loop can be after one recv () of n bytes: the first brings the
\* length byte, a later one any byte of the body in its place.
Received(loop, n, stream) ==
  {[raw |-> loop.raw + n, length |-> l] :
     l \in IF loop.raw = 0 THEN {stream.length} ELSE 0..MAX_MSG_LENGTH}

\* How many bytes one recv () brings: all that are there and asked for, or
\* fewer when the message comes in pieces.
Bites(loop, stream) ==
  {n \in 1..stream.left : n <= Raw(loop.length) /\ (n = stream.left \/ Troubles < MaxTroubles)}

Init ==
  /\ server = "accept" /\ serving = NoCall /\ got = Fresh /\ queue = <<>>
  /\ client = [c \in Call |-> "new"] /\ wants = {}
  /\ reading = [c \in Call |-> Fresh]
  /\ up = [c \in Call |-> Nothing] /\ down = [c \in Call |-> Nothing]
  /\ hungUp = {} /\ dropped = {} /\ handled = {} /\ garbled = {}
  /\ pieces = 0 /\ deaths = 0 /\ failures = 0

Running == server \in {"accept", "receive", "handle"}

(***************************************************************************)
(* runMessagingClient.                                                     *)
(***************************************************************************)
Return(c, code) == client' = [client EXCEPT ![c] = code] /\ hungUp' = hungUp \cup {c}

Connect(c) ==
  /\ client[c] = "new" /\ Running /\ Len(queue) < MAXPENDING
  /\ queue' = Append(queue, c)
  /\ client' = [client EXCEPT ![c] = "connected"]
  /\ wants' \in {wants, wants \cup {c}}
  /\ UNCHANGED <<server, serving, got, reading, up, down, hungUp, dropped,
                 handled, garbled, troubles>>

\* Nobody listens, or there was no room for as long as connect () tries.
ConnectFails(c) ==
  /\ client[c] = "new" /\ (~Running \/ Len(queue) = MAXPENDING)
  /\ Return(c, "FAILED_TO_CONNECT")
  /\ UNCHANGED <<serverVars, wants, reading, up, down, dropped, handled,
                 garbled, troubles>>

Send(c, length) ==
  /\ client[c] = "connected"
  /\ up' = [up EXCEPT ![c] = [length |-> length, left |-> Raw(length)]]
  /\ IF c \in wants
     THEN client' = [client EXCEPT ![c] = "waiting"] /\ UNCHANGED hungUp
     ELSE Return(c, "SUCCESS")
  /\ UNCHANGED <<serverVars, wants, reading, down, dropped, handled, garbled, troubles>>

SendFails(c) ==
  /\ client[c] = "connected" /\ c \in dropped
  /\ Return(c, "COULDNT_SEND_WHOLE_MESSAGE")
  /\ UNCHANGED <<serverVars, wants, reading, up, down, dropped, handled,
                 garbled, troubles>>

Receive(c) ==
  /\ client[c] = "waiting"
  /\ \E n \in Bites(reading[c], down[c]) :
       \E loop \in Received(reading[c], n, down[c]) :
         /\ reading' = [reading EXCEPT ![c] = loop]
         /\ down' = [down EXCEPT ![c].left = @ - n]
         /\ pieces' = IF n = down[c].left THEN pieces ELSE pieces + 1
         /\ garbled' = IF Complete(loop) /\ reading[c].raw > 0
                       THEN garbled \cup {c} ELSE garbled
         /\ IF ClientGoesOn(loop) THEN UNCHANGED <<client, hungUp>>
            ELSE Return(c, IF Complete(loop) THEN "SUCCESS"
                           ELSE "INCOMPLETE_OR_TOO_LONG")
  /\ UNCHANGED <<serverVars, wants, up, dropped, handled, deaths, failures>>

\* The server has ended without reading what was sent: recv () fails.
ReceiveFails(c) ==
  /\ client[c] = "waiting" /\ c \in dropped \ handled /\ up[c].left > 0
  /\ Return(c, "INCOMPLETE_OR_TOO_LONG")
  /\ UNCHANGED <<serverVars, wants, reading, up, down, dropped, handled,
                 garbled, troubles>>

\* The client's process is killed; its end of the connection closes.
Die(c) ==
  /\ client[c] \in {"connected", "waiting"}
  /\ Troubles < MaxTroubles /\ deaths' = deaths + 1
  /\ Return(c, "died")
  /\ UNCHANGED <<serverVars, wants, reading, up, down, dropped, handled,
                 garbled, pieces, failures>>

(***************************************************************************)
(* runMessagingServer and its handleSendReceive.                           *)
(***************************************************************************)
\* Mutant: the loop is not begun afresh.
AcceptOnward ==
  /\ server = "accept" /\ queue # <<>>
  /\ server' = "receive" /\ serving' = Head(queue) /\ queue' = Tail(queue)
  /\ UNCHANGED <<got, clientVars, up, down, hungUp, dropped, handled, garbled, troubles>>

Accept ==
  /\ server = "accept" /\ queue # <<>>
  /\ server' = "receive" /\ serving' = Head(queue) /\ queue' = Tail(queue)
  /\ got' = Fresh
  /\ UNCHANGED <<clientVars, up, down, hungUp, dropped, handled, garbled, troubles>>

\* The server returns from runMessagingServer, and its process ends: every
\* connection it has is closed.
Exit(code) ==
  /\ server' = code /\ serving' = NoCall
  /\ queue' = <<>>
  /\ dropped' = dropped \cup {serving} \cup {queue[i] : i \in DOMAIN queue}

ServerReceive ==
  /\ server = "receive"
  /\ \E n \in Bites(got, up[serving]) :
       \E loop \in Received(got, n, up[serving]) :
         /\ got' = loop
         /\ up' = [up EXCEPT ![serving].left = @ - n]
         /\ pieces' = IF n = up[serving].left THEN pieces ELSE pieces + 1
         /\ garbled' = IF Complete(loop) /\ got.raw > 0
                       THEN garbled \cup {serving} ELSE garbled
         /\ IF GoesOn(loop) THEN UNCHANGED <<server, serving, queue, dropped>>
            ELSE IF Complete(loop)
            THEN server' = "handle" /\ UNCHANGED <<serving, queue, dropped>>
            ELSE Exit("MESSAGE_INCOMPLETE_OR_TOO_LONG")
  /\ UNCHANGED <<clientVars, down, hungUp, handled, deaths, failures>>

\* malloc () or recv () fails.
ServerFails ==
  /\ server \in {"receive", "handle"}
  /\ Troubles < MaxTroubles /\ failures' = failures + 1
  /\ Exit("FAILED")
  /\ UNCHANGED <<got, clientVars, up, down, hungUp, handled, garbled, pieces, deaths>>

\* serverHandleMsg fills in an answer or leaves it at length 0, and says
\* whether the server is to go on.  The assertion on the length of the answer
\* counts its length byte.
Handle(answer, goOn) ==
  /\ server = "handle"
  /\ handled' = handled \cup {serving}
  /\ IF answer > 0 /\ Raw(answer) > MAX_MSG_LENGTH
     THEN Exit("aborted") /\ UNCHANGED down
     ELSE /\ down' = [down EXCEPT ![serving] =
                        IF answer = 0 THEN Nothing
                        ELSE [length |-> answer, left |-> Raw(answer)]]
          /\ IF goOn
             THEN /\ server' = "accept" /\ serving' = NoCall
                  /\ dropped' = dropped \cup {serving} /\ UNCHANGED queue
             ELSE Exit("EXIT_NORMALLY")
  /\ UNCHANGED <<got, clientVars, up, hungUp, garbled, troubles>>

ClientStep(c) ==
  \/ ConnectFails(c) \/ SendFails(c) \/ Receive(c) \/ ReceiveFails(c)
  \/ \E length \in Length : Send(c, length)
HandleMsg == \E answer \in Length, goOn \in BOOLEAN : Handle(answer, goOn)
ServerStep == Accept \/ ServerReceive \/ HandleMsg

Next ==
  \/ \E c \in Call : Connect(c) \/ ClientStep(c) \/ Die(c)
  \/ ServerStep \/ ServerFails

Spec == Init /\ [][Next]_vars

\* Processes run on.
FairSpec == Spec /\ WF_vars(ServerStep) /\ \A c \in Call : WF_vars(ClientStep(c))

(***************************************************************************)
(* Properties.                                                             *)
(***************************************************************************)
Code == {"SUCCESS", "FAILED_TO_CONNECT", "COULDNT_SEND_WHOLE_MESSAGE",
         "INCOMPLETE_OR_TOO_LONG"}

\* Neither end takes one message for another, and the server ends only when
\* its handler says so or gives an answer of the full MAX_MSG_LENGTH, unless a
\* message comes in pieces or the server itself fails: a client that is killed
\* at any moment does neither (handleSendReceive, runMessagingServer).
KeepsMessagesWhole ==
  pieces = 0 => /\ garbled = {}
                /\ \/ server \in {"accept", "receive", "handle", "EXIT_NORMALLY", "aborted"}
                   \/ failures > 0

\* Everybody who has connected comes back with a code, whoever else is waiting
\* and however the server ends, as long as no client is killed, no message
\* comes in pieces, nothing fails and the handler answers who waits: each of
\* these leaves somebody in a receive loop for ever.
EveryoneReturns ==
  \A c \in Call :
    client[c] = "connected" ~>
      \/ client[c] \in Code \cup {"died"}
      \/ c \in wants \cap handled /\ down[c].length = 0
      \/ Troubles > 0
=============================================================================
