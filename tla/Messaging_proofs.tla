-------------------------- MODULE Messaging_proofs --------------------------
(***************************************************************************)
(* Proofs about Messaging, for any number of calls, lengths of messages,   *)
(* backlog and troubles.                                                   *)
(***************************************************************************)
EXTENDS Messaging, SequenceTheorems, TLAPS

(***************************************************************************)
(* The inductive invariant.                                                *)
(***************************************************************************)
Stream == [length : 0..MAX_MSG_LENGTH, left : Nat]
Loop   == [raw : Nat, length : 0..MAX_MSG_LENGTH]

Early == {"new", "connected", "waiting"}
State == Early \cup Code \cup {"died"}

\* Every variable has its type.
TypeInv ==
  /\ queue \in Seq(Call) /\ got \in Loop
  /\ server \in {"receive", "handle"} => serving \in Call
  /\ client \in [Call -> State] /\ reading \in [Call -> Loop]
  /\ up \in [Call -> Stream] /\ down \in [Call -> Stream]
  /\ wants \subseteq Call /\ garbled \subseteq Call
  /\ pieces \in Nat /\ deaths \in Nat /\ failures \in Nat

\* What is on its way is a whole message or nothing, until one comes in pieces.
Whole(stream) == stream.left = 0 \/ stream.left = Raw(stream.length)
StreamInv == \A c \in Call : Whole(up[c]) /\ Whole(down[c])

\* A loop that goes on has received nothing yet.
LoopInv ==
  /\ server = "receive" => got.raw = 0
  /\ \A c \in Call : client[c] \in Early => reading[c].raw = 0

EndInv ==
  \/ server \in {"accept", "receive", "handle", "EXIT_NORMALLY", "aborted"}
  \/ failures > 0

WholeInv == pieces = 0 => StreamInv /\ LoopInv /\ EndInv /\ garbled = {}
IInv == TypeInv /\ WholeInv

\* One recv () that leaves nothing takes a whole message into a fresh loop,
\* whose length byte then is that of the message.
LEMMA WholeMessage ==
  ASSUME NEW loop \in Loop, loop.raw = 0, NEW stream \in Stream, Whole(stream),
         NEW n \in Bites(loop, stream), n = stream.left, NEW after \in Received(loop, n, stream)
  PROVE  Complete(after) /\ after \in Loop
<1>1. n \in 1..stream.left
  BY DEF Bites
<1>2. stream.left = Raw(stream.length) /\ n \in Nat
  BY <1>1 DEF Whole, Stream
<1>3. after = [raw |-> n, length |-> stream.length]
  BY <1>2 DEF Received, Loop
<1>4. QED
  BY <1>2, <1>3 DEF Complete, Loop, Stream, Raw

\* Any recv () leaves the loop and the stream of their types.
LEMMA ReceiveTypes ==
  ASSUME NEW loop \in Loop, NEW stream \in Stream, NEW n \in Bites(loop, stream),
         NEW after \in Received(loop, n, stream)
  PROVE  after \in Loop /\ [stream EXCEPT !.left = @ - n] \in Stream
<1>1. n \in 1..stream.left /\ n \in Nat /\ stream.left - n \in Nat
  BY DEF Bites, Stream
<1>2. \E l \in 0..MAX_MSG_LENGTH : after = [raw |-> loop.raw + n, length |-> l]
  BY DEF Received, Loop, Stream
<1>3. after \in Loop
  BY <1>1, <1>2 DEF Loop
<1>4. [stream EXCEPT !.left = @ - n] \in Stream
  BY <1>1 DEF Stream
<1>5. QED
  BY <1>3, <1>4

LEMMA InitWhole == Init => IInv
<1> SUFFICES ASSUME Init PROVE IInv
  OBVIOUS
<1>1. Fresh \in Loop /\ Fresh.raw = 0 /\ Nothing \in Stream /\ Nothing.left = 0
  BY MessagingAssumption DEF Fresh, Loop, Nothing, Stream
<1>2. queue \in Seq(Call)
  BY EmptySeq DEF Init
<1>3. TypeInv
  BY <1>1, <1>2 DEF Init, TypeInv, State, Early
<1>4. WholeInv
  BY <1>1 DEF Init, WholeInv, StreamInv, Whole, LoopInv, EndInv
<1>5. QED
  BY <1>3, <1>4 DEF IInv

(***************************************************************************)
(* The steps of the clients.                                               *)
(***************************************************************************)
\* What Connect, the failures and a death do to the client's state.
ToState(c, state) ==
  /\ client' = [client EXCEPT ![c] = state]
  /\ state \in State
  /\ state \in Early => client[c] \in Early

LEMMA ClientQuiet ==
  ASSUME IInv, NEW c \in Call,
         Connect(c) \/ ConnectFails(c) \/ SendFails(c) \/ ReceiveFails(c) \/ Die(c)
  PROVE  IInv'
<1>1. \E state : ToState(c, state)
  <2>1. CASE Connect(c)
    <3>1. ToState(c, "connected")
      BY <2>1 DEF Connect, ToState, State, Early, Code
    <3>2. QED
      BY <3>1
  <2>2. CASE ConnectFails(c)
    <3>1. ToState(c, "FAILED_TO_CONNECT")
      BY <2>2 DEF ConnectFails, Return, ToState, State, Early, Code
    <3>2. QED
      BY <3>1
  <2>3. CASE SendFails(c)
    <3>1. ToState(c, "COULDNT_SEND_WHOLE_MESSAGE")
      BY <2>3 DEF SendFails, Return, ToState, State, Early, Code
    <3>2. QED
      BY <3>1
  <2>4. CASE ReceiveFails(c)
    <3>1. ToState(c, "INCOMPLETE_OR_TOO_LONG")
      BY <2>4 DEF ReceiveFails, Return, ToState, State, Early, Code
    <3>2. QED
      BY <3>1
  <2>5. CASE Die(c)
    <3>1. ToState(c, "died")
      BY <2>5 DEF Die, Return, ToState, State, Early, Code
    <3>2. QED
      BY <3>1
  <2>6. QED
    BY <2>1, <2>2, <2>3, <2>4, <2>5
<1>2. PICK state : ToState(c, state)
  BY <1>1
<1>3. /\ server' = server /\ serving' = serving /\ got' = got
      /\ reading' = reading /\ up' = up /\ down' = down /\ garbled' = garbled
      /\ pieces' = pieces /\ failures' = failures
      /\ deaths' \in {deaths, deaths + 1}
      /\ wants' \in {wants, wants \cup {c}}
      /\ queue' \in {queue, Append(queue, c)}
  BY DEF Connect, ConnectFails, SendFails, ReceiveFails, Die, serverVars, clientVars, troubles
<1>4. TypeInv'
  <2>1. queue' \in Seq(Call)
    <3>1. queue \in Seq(Call)
      BY DEF IInv, TypeInv
    <3>2. Append(queue, c) \in Seq(Call)
      BY <3>1
    <3>3. QED
      BY <1>3, <3>1, <3>2
  <2>2. client' \in [Call -> State]
    BY <1>2 DEF IInv, TypeInv, ToState
  <2>3. wants' \subseteq Call /\ deaths' \in Nat
    BY <1>3 DEF IInv, TypeInv
  <2>4. QED
    BY <1>3, <2>1, <2>2, <2>3 DEF IInv, TypeInv
<1>5. WholeInv'
  <2>1. \A d \in Call : client'[d] \in Early => client[d] \in Early
    BY <1>2 DEF IInv, TypeInv, ToState
  <2>2. LoopInv => LoopInv'
    BY <1>3, <2>1 DEF LoopInv, Early
  <2>3. StreamInv => StreamInv'
    BY <1>3 DEF StreamInv, Whole
  <2>4. EndInv => EndInv'
    BY <1>3 DEF EndInv
  <2>5. QED
    BY <1>3, <2>2, <2>3, <2>4 DEF IInv, WholeInv
<1>6. QED
  BY <1>4, <1>5 DEF IInv

LEMMA SendWhole ==
  ASSUME IInv, NEW c \in Call, NEW length \in Length, Send(c, length) PROVE IInv'
<1>1. /\ client' \in {[client EXCEPT ![c] = "waiting"], [client EXCEPT ![c] = "SUCCESS"]}
      /\ up' = [up EXCEPT ![c] = [length |-> length, left |-> Raw(length)]]
      /\ client[c] = "connected"
      /\ server' = server /\ serving' = serving /\ got' = got /\ queue' = queue
      /\ wants' = wants /\ reading' = reading /\ down' = down /\ garbled' = garbled
      /\ pieces' = pieces /\ deaths' = deaths /\ failures' = failures
  BY DEF Send, Return, serverVars, troubles
<1>2. PICK stream : stream = [length |-> length, left |-> Raw(length)]
  OBVIOUS
<1>3. stream \in Stream /\ Whole(stream)
  BY <1>2, MessagingAssumption DEF Stream, Whole, Raw, SIZE_OF_MSG_LENGTH
<1>4. up' = [up EXCEPT ![c] = stream]
  BY <1>1, <1>2
<1>5. TypeInv'
  <2>1. client' \in [Call -> State]
    BY <1>1 DEF IInv, TypeInv, State, Early, Code
  <2>2. up' \in [Call -> Stream]
    BY <1>3, <1>4 DEF IInv, TypeInv
  <2>3. QED
    BY <1>1, <2>1, <2>2 DEF IInv, TypeInv
<1>6. WholeInv'
  <2>1. \A d \in Call : client'[d] \in Early => client[d] \in Early
    BY <1>1 DEF IInv, TypeInv, Early
  <2>2. LoopInv => LoopInv'
    BY <1>1, <2>1 DEF LoopInv, Early
  <2>3. StreamInv => StreamInv'
    BY <1>1, <1>3, <1>4 DEF StreamInv, IInv, TypeInv, Whole
  <2>4. EndInv => EndInv'
    BY <1>1 DEF EndInv
  <2>5. QED
    BY <1>1, <2>2, <2>3, <2>4 DEF IInv, WholeInv
<1>7. QED
  BY <1>5, <1>6 DEF IInv
LEMMA ReceiveWhole ==
  ASSUME IInv, NEW c \in Call, Receive(c) PROVE IInv'
<1>1. PICK n \in Bites(reading[c], down[c]) :
        \E loop \in Received(reading[c], n, down[c]) :
          /\ reading' = [reading EXCEPT ![c] = loop]
          /\ down' = [down EXCEPT ![c].left = @ - n]
          /\ pieces' = IF n = down[c].left THEN pieces ELSE pieces + 1
          /\ garbled' = IF Complete(loop) /\ reading[c].raw > 0
                        THEN garbled \cup {c} ELSE garbled
          /\ IF ClientGoesOn(loop) THEN UNCHANGED <<client, hungUp>>
             ELSE Return(c, IF Complete(loop) THEN "SUCCESS"
                            ELSE "INCOMPLETE_OR_TOO_LONG")
  BY DEF Receive
<1>2. PICK loop \in Received(reading[c], n, down[c]) :
          /\ reading' = [reading EXCEPT ![c] = loop]
          /\ down' = [down EXCEPT ![c].left = @ - n]
          /\ pieces' = IF n = down[c].left THEN pieces ELSE pieces + 1
          /\ garbled' = IF Complete(loop) /\ reading[c].raw > 0
                        THEN garbled \cup {c} ELSE garbled
          /\ IF ClientGoesOn(loop) THEN UNCHANGED <<client, hungUp>>
             ELSE Return(c, IF Complete(loop) THEN "SUCCESS"
                            ELSE "INCOMPLETE_OR_TOO_LONG")
  BY <1>1
<1>3. /\ client[c] = "waiting"
      /\ server' = server /\ serving' = serving /\ got' = got /\ queue' = queue
      /\ wants' = wants /\ up' = up /\ deaths' = deaths /\ failures' = failures
  BY DEF Receive, serverVars
<1>4. reading[c] \in Loop /\ down[c] \in Stream
  BY DEF IInv, TypeInv
<1>5. PICK loop0, stream0 : loop0 = reading[c] /\ stream0 = down[c]
  OBVIOUS
<1>6. loop \in Loop /\ [stream0 EXCEPT !.left = @ - n] \in Stream
  BY <1>1, <1>2, <1>4, <1>5, ReceiveTypes
<1>7. PICK rest : rest = [stream0 EXCEPT !.left = @ - n]
  OBVIOUS
<1>8. down' = [down EXCEPT ![c] = rest] /\ rest \in Stream
  BY <1>2, <1>4, <1>5, <1>6, <1>7 DEF IInv, TypeInv
<1>9. TypeInv'
  <2>1. pieces' \in Nat
    BY <1>2 DEF IInv, TypeInv
  <2>2. garbled' \subseteq Call
    BY <1>2 DEF IInv, TypeInv
  <2>3. client' \in [Call -> State]
    BY <1>2 DEF IInv, TypeInv, Return, State, Code
  <2>4. reading' \in [Call -> Loop] /\ down' \in [Call -> Stream]
    BY <1>2, <1>6, <1>8 DEF IInv, TypeInv
  <2>5. QED
    BY <1>3, <2>1, <2>2, <2>3, <2>4 DEF IInv, TypeInv
<1>10. WholeInv'
  <2> SUFFICES ASSUME pieces' = 0 PROVE (StreamInv /\ LoopInv /\ EndInv /\ garbled = {})'
    BY DEF WholeInv
  <2>1. pieces = 0 /\ n = stream0.left
    BY <1>2, <1>5 DEF IInv, TypeInv
  <2>2. StreamInv /\ LoopInv /\ EndInv /\ garbled = {}
    BY <2>1 DEF IInv, WholeInv
  <2>3. loop0.raw = 0 /\ Whole(stream0)
    BY <1>3, <1>5, <2>2 DEF LoopInv, StreamInv, Early
  <2>4. Complete(loop)
    BY <1>1, <1>2, <1>4, <1>5, <2>1, <2>3, WholeMessage
  <2>5. Whole(rest)
    BY <1>4, <1>5, <1>7, <2>1 DEF Whole, Stream
  <2>6. StreamInv'
    BY <1>3, <1>8, <2>2, <2>5 DEF IInv, TypeInv, StreamInv, Whole
  <2>7. client' = [client EXCEPT ![c] = "SUCCESS"]
    BY <1>2, <2>4 DEF ClientGoesOn, GoesOn, Return
  <2>8. \A d \in Call \ {c} : client'[d] = client[d] /\ reading'[d] = reading[d]
    BY <1>2, <2>7 DEF IInv, TypeInv
  <2>9. client'[c] \notin Early
    BY <2>7 DEF IInv, TypeInv, Early
  <2>10. LoopInv'
    BY <1>3, <2>2, <2>8, <2>9 DEF LoopInv
  <2>11. garbled' = {}
    BY <1>2, <1>5, <2>2, <2>3
  <2>12. QED
    BY <1>3, <2>2, <2>6, <2>10, <2>11 DEF EndInv
<1>11. QED
  BY <1>9, <1>10 DEF IInv

(***************************************************************************)
(* The steps of the server.                                                *)
(***************************************************************************)
LEMMA AcceptWhole == ASSUME IInv, Accept PROVE IInv'
<1>1. /\ server' = "receive" /\ serving' = Head(queue) /\ queue' = Tail(queue)
      /\ got' = Fresh /\ queue # <<>>
      /\ client' = client /\ wants' = wants /\ reading' = reading /\ up' = up
      /\ down' = down /\ garbled' = garbled /\ pieces' = pieces
      /\ deaths' = deaths /\ failures' = failures
  BY DEF Accept, clientVars, troubles
<1>2. serving' \in Call /\ queue' \in Seq(Call)
  BY <1>1, HeadTailProperties DEF IInv, TypeInv
<1>3. Fresh \in Loop /\ Fresh.raw = 0
  BY MessagingAssumption DEF Fresh, Loop
<1>4. TypeInv'
  BY <1>1, <1>2, <1>3 DEF IInv, TypeInv
<1>5. WholeInv'
  BY <1>1, <1>3 DEF IInv, WholeInv, StreamInv, Whole, LoopInv, EndInv
<1>6. QED
  BY <1>4, <1>5 DEF IInv

LEMMA ServerReceiveWhole == ASSUME IInv, ServerReceive PROVE IInv'
<1>1. server = "receive" /\ serving \in Call
  BY DEF ServerReceive, IInv, TypeInv
<1>2. PICK c, loop0, stream0 : c = serving /\ loop0 = got /\ stream0 = up[serving]
  OBVIOUS
<1>3. c \in Call /\ loop0 \in Loop /\ stream0 \in Stream
  BY <1>1, <1>2 DEF IInv, TypeInv
<1>4. PICK n \in Bites(loop0, stream0) :
       \E loop \in Received(loop0, n, stream0) :
         /\ got' = loop
         /\ up' = [up EXCEPT ![c].left = @ - n]
         /\ pieces' = IF n = stream0.left THEN pieces ELSE pieces + 1
         /\ garbled' = IF Complete(loop) /\ loop0.raw > 0
                       THEN garbled \cup {c} ELSE garbled
         /\ IF GoesOn(loop) THEN UNCHANGED <<server, serving, queue, dropped>>
            ELSE IF Complete(loop)
            THEN server' = "handle" /\ UNCHANGED <<serving, queue, dropped>>
            ELSE Exit("MESSAGE_INCOMPLETE_OR_TOO_LONG")
  BY <1>2 DEF ServerReceive
<1>5. PICK loop \in Received(loop0, n, stream0) :
         /\ got' = loop
         /\ up' = [up EXCEPT ![c].left = @ - n]
         /\ pieces' = IF n = stream0.left THEN pieces ELSE pieces + 1
         /\ garbled' = IF Complete(loop) /\ loop0.raw > 0
                       THEN garbled \cup {c} ELSE garbled
         /\ IF GoesOn(loop) THEN UNCHANGED <<server, serving, queue, dropped>>
            ELSE IF Complete(loop)
            THEN server' = "handle" /\ UNCHANGED <<serving, queue, dropped>>
            ELSE Exit("MESSAGE_INCOMPLETE_OR_TOO_LONG")
  BY <1>4
<1>6. /\ client' = client /\ wants' = wants /\ reading' = reading /\ down' = down
      /\ deaths' = deaths /\ failures' = failures
  BY DEF ServerReceive, clientVars
<1>7. loop \in Loop /\ [stream0 EXCEPT !.left = @ - n] \in Stream
  BY <1>3, <1>4, <1>5, ReceiveTypes
<1>8. PICK rest : rest = [stream0 EXCEPT !.left = @ - n]
  OBVIOUS
<1>9. up' = [up EXCEPT ![c] = rest] /\ rest \in Stream
  BY <1>2, <1>3, <1>5, <1>7, <1>8 DEF IInv, TypeInv
<1>10. TypeInv'
  <2>1. pieces' \in Nat
    BY <1>5 DEF IInv, TypeInv
  <2>2. garbled' \subseteq Call
    BY <1>3, <1>5 DEF IInv, TypeInv
  <2>3. queue' \in Seq(Call) /\ (server' \in {"receive", "handle"} => serving' \in Call)
    <3>1. queue \in Seq(Call) /\ <<>> \in Seq(Call)
      BY EmptySeq DEF IInv, TypeInv
    <3>2. QED
      BY <1>1, <1>5, <3>1 DEF Exit
  <2>4. up' \in [Call -> Stream] /\ got' \in Loop
    BY <1>5, <1>7, <1>9 DEF IInv, TypeInv
  <2>5. QED
    BY <1>6, <2>1, <2>2, <2>3, <2>4 DEF IInv, TypeInv
<1>11. WholeInv'
  <2> SUFFICES ASSUME pieces' = 0 PROVE (StreamInv /\ LoopInv /\ EndInv /\ garbled = {})'
    BY DEF WholeInv
  <2>1. pieces = 0 /\ n = stream0.left
    BY <1>5 DEF IInv, TypeInv
  <2>2. StreamInv /\ LoopInv /\ EndInv /\ garbled = {}
    BY <2>1 DEF IInv, WholeInv
  <2>3. loop0.raw = 0 /\ Whole(stream0)
    BY <1>1, <1>2, <2>2 DEF LoopInv, StreamInv
  <2>4. Complete(loop)
    BY <1>3, <1>4, <1>5, <2>1, <2>3, WholeMessage
  <2>5. Whole(rest)
    BY <1>3, <1>8, <2>1 DEF Whole, Stream
  <2>6. StreamInv'
    BY <1>3, <1>6, <1>9, <2>2, <2>5 DEF IInv, TypeInv, StreamInv, Whole
  <2>7. server' = "handle"
    BY <1>5, <2>4 DEF GoesOn
  <2>8. LoopInv'
    BY <1>6, <2>2, <2>7 DEF LoopInv
  <2>9. garbled' = {}
    BY <1>5, <2>2, <2>3
  <2>10. QED
    BY <2>6, <2>7, <2>8, <2>9 DEF EndInv
<1>12. QED
  BY <1>10, <1>11 DEF IInv

LEMMA ServerFailsWhole == ASSUME IInv, ServerFails PROVE IInv'
<1>1. /\ server' = "FAILED" /\ queue' = <<>> /\ got' = got /\ failures' = failures + 1
      /\ client' = client /\ wants' = wants /\ reading' = reading /\ up' = up
      /\ down' = down /\ garbled' = garbled /\ pieces' = pieces /\ deaths' = deaths
  BY DEF ServerFails, Exit, clientVars
<1>2. queue' \in Seq(Call)
  BY <1>1, EmptySeq
<1>3. failures' \in Nat /\ failures' > 0
  BY <1>1 DEF IInv, TypeInv
<1>4. TypeInv'
  BY <1>1, <1>2, <1>3 DEF IInv, TypeInv
<1>5. WholeInv'
  BY <1>1, <1>3 DEF IInv, WholeInv, StreamInv, Whole, LoopInv, EndInv
<1>6. QED
  BY <1>4, <1>5 DEF IInv

LEMMA HandleWhole ==
  ASSUME IInv, NEW answer \in Length, NEW goOn \in BOOLEAN, Handle(answer, goOn)
  PROVE  IInv'
<1>1. /\ server' \in {"accept", "EXIT_NORMALLY", "aborted"}
      /\ queue' \in {queue, <<>>}
  BY DEF Handle, Exit
<1>2. /\ got' = got /\ failures' = failures /\ client' = client /\ wants' = wants
      /\ reading' = reading /\ up' = up /\ garbled' = garbled /\ pieces' = pieces
      /\ deaths' = deaths
  BY DEF Handle, clientVars, troubles
<1>3. serving \in Call
  BY DEF Handle, IInv, TypeInv
<1>4. PICK back : back = IF answer = 0 THEN Nothing
                         ELSE [length |-> answer, left |-> Raw(answer)]
  OBVIOUS
<1>5. back \in Stream /\ Whole(back)
  BY <1>4, MessagingAssumption DEF Stream, Whole, Raw, SIZE_OF_MSG_LENGTH, Nothing
<1>6. down' \in {down, [down EXCEPT ![serving] = back]}
  BY <1>4 DEF Handle
<1>7. TypeInv'
  <2>1. queue' \in Seq(Call)
    BY <1>1, EmptySeq DEF IInv, TypeInv
  <2>2. down' \in [Call -> Stream]
    BY <1>3, <1>5, <1>6 DEF IInv, TypeInv
  <2>3. QED
    BY <1>1, <1>2, <2>1, <2>2 DEF IInv, TypeInv
<1>8. WholeInv'
  <2>1. StreamInv => StreamInv'
    BY <1>2, <1>3, <1>5, <1>6 DEF StreamInv, IInv, TypeInv, Whole
  <2>2. LoopInv => LoopInv'
    BY <1>1, <1>2 DEF LoopInv
  <2>3. EndInv'
    BY <1>1 DEF EndInv
  <2>4. QED
    BY <1>2, <2>1, <2>2, <2>3 DEF IInv, WholeInv
<1>9. QED
  BY <1>7, <1>8 DEF IInv

(***************************************************************************)
(* Every step keeps the invariant.                                         *)
(***************************************************************************)
LEMMA NextWhole == IInv /\ [Next]_vars => IInv'
<1> SUFFICES ASSUME IInv, [Next]_vars PROVE IInv'
  OBVIOUS
<1>1. CASE \E c \in Call : Connect(c) \/ ClientStep(c) \/ Die(c)
  <2>1. PICK c \in Call : Connect(c) \/ ClientStep(c) \/ Die(c)
    BY <1>1
  <2>2. CASE Connect(c) \/ ConnectFails(c) \/ SendFails(c) \/ ReceiveFails(c) \/ Die(c)
    BY <2>2, ClientQuiet
  <2>3. CASE Receive(c)
    BY <2>3, ReceiveWhole
  <2>4. CASE \E length \in Length : Send(c, length)
    BY <2>4, SendWhole
  <2>5. QED
    BY <2>1, <2>2, <2>3, <2>4 DEF ClientStep
<1>2. CASE Accept
  BY <1>2, AcceptWhole
<1>3. CASE ServerReceive
  BY <1>3, ServerReceiveWhole
<1>4. CASE HandleMsg
  BY <1>4, HandleWhole DEF HandleMsg
<1>5. CASE ServerFails
  BY <1>5, ServerFailsWhole
<1>6. CASE UNCHANGED vars
  BY <1>6 DEF vars, IInv, TypeInv, WholeInv, StreamInv, Whole, LoopInv, EndInv
<1>7. QED
  BY <1>1, <1>2, <1>3, <1>4, <1>5, <1>6 DEF Next, ServerStep

\* The invariant, for any number of calls and any troubles.
THEOREM Invariant == Spec => []IInv
BY InitWhole, NextWhole, PTL DEF Spec

\* As long as no message comes in pieces neither end takes one message for
\* another, and a server ends only when its handler says so, gives an answer
\* of the full length or something fails: not because of what its clients do
\* or when they die (handleSendReceive, runMessagingServer).
THEOREM MessagesKeptWhole == Spec => []KeepsMessagesWhole
<1>1. IInv => KeepsMessagesWhole
  BY DEF IInv, WholeInv, EndInv, KeepsMessagesWhole
<1>2. QED
  BY <1>1, Invariant, PTL

(***************************************************************************)
(* Where a call is, as long as nothing has gone wrong: what                *)
(* EveryoneReturns rests on besides fairness.                              *)
(***************************************************************************)
Elements(q) == {q[i] : i \in DOMAIN q}
Distinct(q) == \A i, j \in DOMAIN q : q[i] = q[j] => i = j

Pending == Elements(queue)
Serving == server \in {"receive", "handle"}

\* The server has, or will get, the message of the call; the call has, or
\* needs, no answer.
Sent(c) == client[c] = "connected" \/ up[c].left > 0
Answered(c) == down[c].left > 0 \/ down[c].length = 0

\* A connection waits, is served or is closed, one of them at a time.
Apart ==
  /\ Distinct(queue) /\ Pending \cap dropped = {} /\ (Pending # {} => Running)
  /\ Serving => serving \notin Pending /\ serving \notin dropped
  /\ handled \subseteq dropped

ServedInv ==
  /\ server = "receive" => Sent(serving)
  /\ server = "handle" => client[serving] \notin {"new", "connected"}

CallInv(c) ==
  /\ client[c] = "new" => c \notin Pending /\ c \notin dropped /\ (Serving => c # serving)
  /\ client[c] \in {"new", "connected"} => up[c].left = 0 /\ c \notin handled
  /\ c \in Pending => Sent(c)
  /\ client[c] = "waiting" /\ c \in dropped =>
       IF c \in handled THEN Answered(c) ELSE up[c].left > 0
  /\ c \notin handled => down[c].length = 0
  /\ client[c] \in {"connected", "waiting"} =>
       c \in Pending \/ (Serving /\ c = serving) \/ c \in dropped

CallsInv == \A c \in Call : CallInv(c)
Placed == Apart /\ ServedInv /\ CallsInv
PlacedInv == Troubles = 0 => Placed

LEMMA Appended ==
  ASSUME NEW q \in Seq(Call), NEW c \in Call, Distinct(q), c \notin Elements(q)
  PROVE  /\ Distinct(Append(q, c))
         /\ Elements(Append(q, c)) = Elements(q) \cup {c}
<1>1. PICK n \in Nat : n = Len(q) /\ DOMAIN q = 1..n
  OBVIOUS
<1>2. PICK r : r = Append(q, c)
  OBVIOUS
<1>3. DOMAIN r = 1..(n + 1) /\ r[n + 1] = c /\ \A i \in 1..n : r[i] = q[i]
  BY <1>1, <1>2
<1>4. Distinct(r)
  BY <1>1, <1>3 DEF Distinct, Elements
<1>5. Elements(r) = Elements(q) \cup {c}
  <2>1. \A d \in Elements(r) : d \in Elements(q) \cup {c}
    BY <1>1, <1>3 DEF Elements
  <2>2. \A d \in Elements(q) : d \in Elements(r)
    BY <1>1, <1>3 DEF Elements
  <2>3. c \in Elements(r)
    BY <1>1, <1>3 DEF Elements
  <2>4. QED
    BY <2>1, <2>2, <2>3
<1>6. QED
  BY <1>2, <1>4, <1>5

LEMMA Taken ==
  ASSUME NEW q \in Seq(Call), q # <<>>, Distinct(q)
  PROVE  /\ Distinct(Tail(q)) /\ Head(q) \in Call
         /\ Head(q) \notin Elements(Tail(q))
         /\ Elements(q) = Elements(Tail(q)) \cup {Head(q)}
<1>1. PICK n \in Nat : n = Len(q) /\ DOMAIN q = 1..n
  OBVIOUS
<1>2. PICK r : r = Tail(q)
  OBVIOUS
<1>3. n > 0
  BY <1>1, EmptySeq
<1>4. DOMAIN r = 1..(n - 1) /\ \A i \in 1..(n - 1) : r[i] = q[i + 1]
  BY <1>1, <1>2, <1>3, HeadTailProperties
<1>5. Head(q) = q[1] /\ q[1] \in Call
  BY <1>1, <1>3
<1>6. Distinct(r)
  <2> SUFFICES ASSUME NEW i \in 1..(n - 1), NEW j \in 1..(n - 1), r[i] = r[j] PROVE i = j
    BY <1>4 DEF Distinct
  <2>1. i + 1 \in 1..n /\ j + 1 \in 1..n /\ q[i + 1] = q[j + 1]
    BY <1>3, <1>4
  <2>2. QED
    BY <1>1, <2>1 DEF Distinct
<1>7. q[1] \notin Elements(r)
  <2> SUFFICES ASSUME NEW i \in 1..(n - 1), r[i] = q[1] PROVE FALSE
    BY <1>4 DEF Elements
  <2>1. i + 1 \in 1..n /\ 1 \in 1..n /\ q[i + 1] = q[1]
    BY <1>3, <1>4
  <2>2. QED
    BY <1>1, <2>1 DEF Distinct
<1>8. Elements(q) = Elements(r) \cup {q[1]}
  <2>1. ASSUME NEW i \in 1..n PROVE q[i] \in Elements(r) \cup {q[1]}
    <3>1. CASE i = 1
      BY <3>1
    <3>2. CASE i # 1
      <4>1. i - 1 \in 1..(n - 1) /\ r[i - 1] = q[i]
        BY <1>4, <3>2
      <4>2. QED
        BY <1>4, <4>1 DEF Elements
    <3>3. QED
      BY <3>1, <3>2
  <2>2. ASSUME NEW i \in 1..(n - 1) PROVE r[i] \in Elements(q)
    <3>1. i + 1 \in 1..n /\ r[i] = q[i + 1]
      BY <1>3, <1>4
    <3>2. QED
      BY <1>1, <3>1 DEF Elements
  <2>3. q[1] \in Elements(q)
    BY <1>1, <1>3 DEF Elements
  <2>4. \A d \in Elements(q) : d \in Elements(r) \cup {q[1]}
    BY <1>1, <2>1 DEF Elements
  <2>5. \A d \in Elements(r) : d \in Elements(q)
    BY <1>4, <2>2 DEF Elements
  <2>6. QED
    BY <2>3, <2>4, <2>5
<1>9. QED
  BY <1>2, <1>5, <1>6, <1>7, <1>8

LEMMA Emptied == Elements(<<>>) = {} /\ Distinct(<<>>)
BY DEF Elements, Distinct

LEMMA InitPlaced == Init => PlacedInv
<1> SUFFICES ASSUME Init PROVE Placed
  BY DEF PlacedInv
<1>1. Pending = {} /\ Distinct(queue)
  BY Emptied DEF Init, Pending
<1>2. \A c \in Call : /\ client[c] = "new" /\ up[c].left = 0 /\ down[c].length = 0
  BY DEF Init, Nothing
<1>3. Apart /\ ServedInv
  BY <1>1 DEF Init, Apart, Serving, ServedInv
<1>4. CallsInv
  BY <1>1, <1>2 DEF Init, CallsInv, CallInv, Serving
<1>5. QED
  BY <1>3, <1>4 DEF Placed

LEMMA ConnectPlaced ==
  ASSUME IInv, Placed, NEW c \in Call, Connect(c) PROVE Placed'
<1>1. /\ client[c] = "new" /\ Running
      /\ queue' = Append(queue, c) /\ client' = [client EXCEPT ![c] = "connected"]
      /\ server' = server /\ serving' = serving /\ up' = up /\ down' = down
      /\ dropped' = dropped /\ handled' = handled
  BY DEF Connect
<1>2. c \notin Pending /\ c \notin dropped /\ (Serving => c # serving)
  BY <1>1 DEF Placed, CallsInv, CallInv
<1>3. Pending' = Pending \cup {c} /\ Distinct(queue)'
  <2>1. queue \in Seq(Call) /\ Distinct(queue)
    BY DEF IInv, TypeInv, Placed, Apart
  <2>2. QED
    BY <1>1, <1>2, <2>1, Appended DEF Pending
<1>4. /\ client'[c] = "connected"
      /\ \A d \in Call \ {c} : client'[d] = client[d]
  BY <1>1 DEF IInv, TypeInv
<1>5. Apart'
  BY <1>1, <1>2, <1>3 DEF Placed, Apart, Serving, Running
<1>6. ServedInv'
  <2>1. Serving => serving \in Call \ {c}
    BY <1>2 DEF IInv, TypeInv, Serving
  <2>2. QED
    BY <1>1, <1>4, <2>1 DEF Placed, ServedInv, Serving, Sent
<1>7. CallsInv'
  <2> SUFFICES ASSUME NEW d \in Call PROVE CallInv(d)'
    BY DEF CallsInv
  <2>1. CallInv(d)
    BY DEF Placed, CallsInv
  <2>2. CASE d = c
    BY <1>1, <1>3, <1>4, <2>1, <2>2 DEF CallInv, Sent
  <2>3. CASE d # c
    BY <1>1, <1>3, <1>4, <2>1, <2>3 DEF CallInv, Sent, Answered, Serving
  <2>4. QED
    BY <2>2, <2>3
<1>8. QED
  BY <1>5, <1>6, <1>7 DEF Placed

LEMMA SendPlaced ==
  ASSUME IInv, Placed, NEW c \in Call, NEW length \in Length, Send(c, length)
  PROVE  Placed'
<1>1. /\ client[c] = "connected"
      /\ client' \in {[client EXCEPT ![c] = "waiting"], [client EXCEPT ![c] = "SUCCESS"]}
      /\ up' = [up EXCEPT ![c] = [length |-> length, left |-> Raw(length)]]
      /\ server' = server /\ serving' = serving /\ queue' = queue /\ down' = down
      /\ dropped' = dropped /\ handled' = handled
  BY DEF Send, Return, serverVars
<1>2. Raw(length) > 0
  BY MessagingAssumption DEF Raw, SIZE_OF_MSG_LENGTH
<1>3. /\ client'[c] \notin {"new", "connected"} /\ up'[c].left > 0
      /\ \A d \in Call \ {c} : client'[d] = client[d] /\ up'[d] = up[d]
  BY <1>1, <1>2 DEF IInv, TypeInv
<1>4. Pending' = Pending /\ Apart'
  BY <1>1 DEF Placed, Apart, Serving, Running, Pending
<1>5. ServedInv'
  <2>1. Serving => serving \in Call
    BY DEF IInv, TypeInv, Serving
  <2>2. QED
    BY <1>1, <1>3, <2>1 DEF Placed, ServedInv, Serving, Sent
<1>6. CallsInv'
  <2> SUFFICES ASSUME NEW d \in Call PROVE CallInv(d)'
    BY DEF CallsInv
  <2>1. CallInv(d)
    BY DEF Placed, CallsInv
  <2>2. CASE d = c
    BY <1>1, <1>3, <1>4, <2>1, <2>2 DEF CallInv, Sent, Serving
  <2>3. CASE d # c
    BY <1>1, <1>3, <1>4, <2>1, <2>3 DEF CallInv, Sent, Answered, Serving
  <2>4. QED
    BY <2>2, <2>3
<1>7. QED
  BY <1>4, <1>5, <1>6 DEF Placed

\* A call that comes back leaves the others where they are.
Leaves(c) ==
  /\ client[c] \in Early
  /\ \E code \in Code : client' = [client EXCEPT ![c] = code]
  /\ c \in Pending => up[c].left > 0
  /\ Serving /\ c = serving => client[c] = "waiting"
  /\ server' = server /\ serving' = serving /\ queue' = queue /\ up' = up
  /\ dropped' = dropped /\ handled' = handled
  /\ \A d \in Call : down'[d].length = down[d].length
  /\ \A d \in Call \ {c} : down'[d].left = down[d].left

LEMMA LeavesPlaced ==
  ASSUME IInv, Placed, NEW c \in Call, Leaves(c) PROVE Placed'
<1>1. PICK code \in Code : client' = [client EXCEPT ![c] = code]
  BY DEF Leaves
<1>2. /\ client'[c] \notin Early /\ client[c] \in Early
      /\ \A d \in Call \ {c} : client'[d] = client[d]
  BY <1>1 DEF Leaves, IInv, TypeInv, Code, Early
<1>3. Pending' = Pending /\ Apart'
  BY DEF Leaves, Placed, Apart, Serving, Running, Pending
<1>4. ServedInv'
  <2>1. Serving => serving \in Call
    BY DEF IInv, TypeInv, Serving
  <2>2. QED
    BY <1>2, <2>1 DEF Leaves, Placed, ServedInv, Serving, Sent, Early
<1>5. CallsInv'
  <2> SUFFICES ASSUME NEW d \in Call PROVE CallInv(d)'
    BY DEF CallsInv
  <2>1. CallInv(d)
    BY DEF Placed, CallsInv
  <2>2. CASE d = c
    BY <1>2, <1>3, <2>1, <2>2 DEF Leaves, CallInv, Sent, Early
  <2>3. CASE d # c
    BY <1>2, <1>3, <2>1, <2>3 DEF Leaves, CallInv, Sent, Answered, Serving
  <2>4. QED
    BY <2>2, <2>3
<1>6. QED
  BY <1>3, <1>4, <1>5 DEF Placed

LEMMA FailsPlaced ==
  ASSUME IInv, Placed, NEW c \in Call, ConnectFails(c) \/ SendFails(c) \/ ReceiveFails(c)
  PROVE  Placed'
<1>1. /\ \/ client[c] = "new"
         \/ client[c] \in {"connected", "waiting"} /\ c \in dropped
      /\ \E code \in Code : client' = [client EXCEPT ![c] = code]
      /\ server' = server /\ serving' = serving /\ queue' = queue /\ up' = up
      /\ down' = down /\ dropped' = dropped /\ handled' = handled
  BY DEF ConnectFails, SendFails, ReceiveFails, Return, Code, serverVars
<1>2. c \notin Pending /\ (Serving => c # serving)
  <2>1. CallInv(c) /\ Apart
    BY DEF Placed, CallsInv
  <2>2. QED
    BY <1>1, <2>1 DEF CallInv, Apart
<1>3. Leaves(c)
  BY <1>1, <1>2 DEF Leaves, Early
<1>4. QED
  BY <1>3, LeavesPlaced

LEMMA NoTrouble ==
  ASSUME NEW p \in Nat, NEW d \in Nat, NEW f \in Nat, p + d + f = 0
  PROVE  p = 0 /\ d = 0 /\ f = 0
OBVIOUS

LEMMA ReceivePlaced ==
  ASSUME IInv, Placed, NEW c \in Call, Receive(c), Troubles = 0, (Troubles = 0)'
  PROVE  Placed'
<1>1. PICK loop0, stream0 : loop0 = reading[c] /\ stream0 = down[c]
  OBVIOUS
<1>2. loop0 \in Loop /\ stream0 \in Stream
  BY <1>1 DEF IInv, TypeInv
<1>3. PICK n \in Bites(loop0, stream0) :
        \E loop \in Received(loop0, n, stream0) :
          /\ down' = [down EXCEPT ![c].left = @ - n]
          /\ pieces' = IF n = stream0.left THEN pieces ELSE pieces + 1
          /\ IF ClientGoesOn(loop) THEN UNCHANGED <<client, hungUp>>
             ELSE Return(c, IF Complete(loop) THEN "SUCCESS"
                            ELSE "INCOMPLETE_OR_TOO_LONG")
  BY <1>1 DEF Receive
<1>4. PICK loop \in Received(loop0, n, stream0) :
          /\ down' = [down EXCEPT ![c].left = @ - n]
          /\ pieces' = IF n = stream0.left THEN pieces ELSE pieces + 1
          /\ IF ClientGoesOn(loop) THEN UNCHANGED <<client, hungUp>>
             ELSE Return(c, IF Complete(loop) THEN "SUCCESS"
                            ELSE "INCOMPLETE_OR_TOO_LONG")
  BY <1>3
<1>5. /\ client[c] = "waiting" /\ server' = server /\ serving' = serving /\ queue' = queue
      /\ up' = up /\ dropped' = dropped /\ handled' = handled
      /\ deaths' = deaths /\ failures' = failures
  BY DEF Receive, serverVars
<1>6. pieces = 0 /\ pieces' = 0
  <2>1. pieces \in Nat /\ deaths \in Nat /\ failures \in Nat
    BY DEF IInv, TypeInv
  <2>2. pieces + deaths + failures = 0 /\ pieces' + deaths' + failures' = 0
    BY DEF Troubles
  <2>3. pieces = 0 /\ deaths = 0 /\ failures = 0
    BY <2>1, <2>2, NoTrouble
  <2>4. pieces' \in Nat
    BY <2>1, <1>4
  <2>5. QED
    BY <2>1, <2>2, <2>3, <2>4, <1>5, NoTrouble
<1>7. n = stream0.left
  BY <1>4, <1>6
<1>8. loop0.raw = 0 /\ Whole(stream0)
  BY <1>1, <1>5, <1>6 DEF IInv, WholeInv, LoopInv, StreamInv, Early
<1>9. Complete(loop)
  BY <1>2, <1>3, <1>4, <1>7, <1>8, WholeMessage
<1>10. client' = [client EXCEPT ![c] = "SUCCESS"]
  BY <1>4, <1>9 DEF ClientGoesOn, GoesOn, Return
<1>11. /\ \A d \in Call : down'[d].length = down[d].length
       /\ \A d \in Call \ {c} : down'[d].left = down[d].left
  BY <1>4 DEF IInv, TypeInv, Stream
<1>12. c \in Pending => up[c].left > 0
  BY <1>5 DEF Placed, CallsInv, CallInv, Sent
<1>13. Leaves(c)
  BY <1>5, <1>10, <1>11, <1>12 DEF Leaves, Early, Code
<1>14. QED
  BY <1>13, LeavesPlaced

LEMMA AcceptPlaced == ASSUME IInv, Placed, Accept PROVE Placed'
<1>1. /\ server = "accept" /\ server' = "receive" /\ queue # <<>>
      /\ serving' = Head(queue) /\ queue' = Tail(queue)
      /\ client' = client /\ up' = up /\ down' = down
      /\ dropped' = dropped /\ handled' = handled
  BY DEF Accept, clientVars
<1>2. PICK c : c = Head(queue)
  OBVIOUS
<1>3. /\ Distinct(queue)' /\ c \in Call /\ c \notin Pending'
      /\ Pending = Pending' \cup {c}
  <2>1. queue \in Seq(Call) /\ Distinct(queue)
    BY DEF IInv, TypeInv, Placed, Apart
  <2>2. QED
    BY <1>1, <1>2, <2>1, Taken DEF Pending
<1>4. c \notin dropped /\ Sent(c) /\ client[c] # "new"
  BY <1>3 DEF Placed, Apart, CallsInv, CallInv
<1>5. Apart'
  BY <1>1, <1>2, <1>3, <1>4 DEF Placed, Apart, Running, Serving
<1>6. ServedInv'
  BY <1>1, <1>2, <1>4 DEF ServedInv, Sent
<1>7. CallsInv'
  <2> SUFFICES ASSUME NEW d \in Call PROVE CallInv(d)'
    BY DEF CallsInv
  <2>1. CallInv(d)
    BY DEF Placed, CallsInv
  <2>2. QED
    BY <1>1, <1>2, <1>3, <1>4, <2>1 DEF CallInv, Sent, Answered, Serving
<1>8. QED
  BY <1>5, <1>6, <1>7 DEF Placed

LEMMA ServerReceivePlaced ==
  ASSUME IInv, Placed, ServerReceive, Troubles = 0, (Troubles = 0)'
  PROVE  Placed'
<1>1. server = "receive" /\ serving \in Call
  BY DEF ServerReceive, IInv, TypeInv
<1>2. PICK c, loop0, stream0 : c = serving /\ loop0 = got /\ stream0 = up[serving]
  OBVIOUS
<1>3. c \in Call /\ loop0 \in Loop /\ stream0 \in Stream
  BY <1>1, <1>2 DEF IInv, TypeInv
<1>4. PICK n \in Bites(loop0, stream0) :
       \E loop \in Received(loop0, n, stream0) :
         /\ up' = [up EXCEPT ![c].left = @ - n]
         /\ pieces' = IF n = stream0.left THEN pieces ELSE pieces + 1
         /\ IF GoesOn(loop) THEN UNCHANGED <<server, serving, queue, dropped>>
            ELSE IF Complete(loop)
            THEN server' = "handle" /\ UNCHANGED <<serving, queue, dropped>>
            ELSE Exit("MESSAGE_INCOMPLETE_OR_TOO_LONG")
  BY <1>2 DEF ServerReceive
<1>5. PICK loop \in Received(loop0, n, stream0) :
         /\ up' = [up EXCEPT ![c].left = @ - n]
         /\ pieces' = IF n = stream0.left THEN pieces ELSE pieces + 1
         /\ IF GoesOn(loop) THEN UNCHANGED <<server, serving, queue, dropped>>
            ELSE IF Complete(loop)
            THEN server' = "handle" /\ UNCHANGED <<serving, queue, dropped>>
            ELSE Exit("MESSAGE_INCOMPLETE_OR_TOO_LONG")
  BY <1>4
<1>6. /\ client' = client /\ down' = down /\ handled' = handled
      /\ deaths' = deaths /\ failures' = failures
  BY DEF ServerReceive, clientVars
<1>7. pieces = 0 /\ pieces' = 0
  <2>1. pieces \in Nat /\ deaths \in Nat /\ failures \in Nat
    BY DEF IInv, TypeInv
  <2>2. pieces + deaths + failures = 0 /\ pieces' + deaths' + failures' = 0
    BY DEF Troubles
  <2>3. pieces = 0 /\ deaths = 0 /\ failures = 0
    BY <2>1, <2>2, NoTrouble
  <2>4. pieces' \in Nat
    BY <2>1, <1>5
  <2>5. QED
    BY <2>1, <2>2, <2>3, <2>4, <1>6, NoTrouble
<1>8. n = stream0.left /\ n > 0
  BY <1>4, <1>5, <1>7 DEF Bites
<1>9. loop0.raw = 0 /\ Whole(stream0)
  BY <1>1, <1>2, <1>7 DEF IInv, WholeInv, LoopInv, StreamInv
<1>10. Complete(loop)
  BY <1>3, <1>4, <1>5, <1>8, <1>9, WholeMessage
<1>11. /\ server' = "handle" /\ serving' = serving /\ queue' = queue /\ dropped' = dropped
  BY <1>5, <1>10 DEF GoesOn
<1>12. \A d \in Call \ {c} : up'[d] = up[d]
  BY <1>5 DEF IInv, TypeInv
<1>13. client[c] \notin {"new", "connected"} /\ c \notin Pending /\ c \notin dropped
  BY <1>1, <1>2, <1>3, <1>8 DEF Placed, Apart, CallsInv, CallInv, Serving
<1>14. Pending' = Pending
  BY <1>11 DEF Pending
<1>15. Apart'
  BY <1>1, <1>6, <1>11, <1>14 DEF Placed, Apart, Serving, Running
<1>16. ServedInv'
  BY <1>2, <1>6, <1>11, <1>13 DEF ServedInv
<1>17. CallsInv'
  <2> SUFFICES ASSUME NEW d \in Call PROVE CallInv(d)'
    BY DEF CallsInv
  <2>1. CallInv(d)
    BY DEF Placed, CallsInv
  <2>2. CASE d = c
    BY <1>1, <1>2, <1>6, <1>11, <1>13, <1>14, <2>1, <2>2 DEF CallInv, Serving
  <2>3. CASE d # c
    BY <1>1, <1>2, <1>6, <1>11, <1>12, <1>14, <2>1, <2>3 DEF CallInv, Sent, Answered, Serving
  <2>4. QED
    BY <2>2, <2>3
<1>18. QED
  BY <1>15, <1>16, <1>17 DEF Placed

LEMMA HandlePlaced ==
  ASSUME IInv, Placed, NEW answer \in Length, NEW goOn \in BOOLEAN, Handle(answer, goOn)
  PROVE  Placed'
<1>1. PICK c : c = serving
  OBVIOUS
<1>2. /\ server = "handle" /\ c \in Call /\ handled' = handled \cup {c}
      /\ client' = client /\ up' = up
  BY <1>1 DEF Handle, clientVars, IInv, TypeInv
<1>3. /\ client[c] \notin {"new", "connected"}
      /\ c \notin Pending /\ c \notin dropped /\ down[c].length = 0
  BY <1>1, <1>2 DEF Placed, Apart, ServedInv, CallsInv, CallInv, Serving
<1>4. server' \in {"accept", "EXIT_NORMALLY", "aborted"}
  BY DEF Handle, Exit
<1>5. \/ queue' = queue /\ dropped' = dropped \cup {c} /\ server' = "accept"
      \/ queue' = <<>> /\ dropped' = dropped \cup {c} \cup Pending
  BY <1>1 DEF Handle, Exit, Pending, Elements
<1>6. /\ dropped' = dropped \cup {c} \cup (Pending \ Pending')
      /\ Pending' \subseteq Pending /\ Distinct(queue)'
      /\ Pending' # {} => server' = "accept"
  BY <1>5, Emptied DEF Pending, Placed, Apart
<1>7. \A d \in Call \ {c} : down'[d] = down[d]
  BY <1>1 DEF Handle, IInv, TypeInv
<1>8. down'[c].left > 0 \/ down'[c].length = 0
  <2>1. CASE down' = down
    BY <1>3, <2>1
  <2>2. CASE down' # down
    <3>1. down' = [down EXCEPT ![c] = IF answer = 0 THEN Nothing
                                      ELSE [length |-> answer, left |-> Raw(answer)]]
      BY <1>1, <2>2 DEF Handle
    <3>2. CASE answer = 0
      BY <1>2, <3>1, <3>2 DEF Nothing, IInv, TypeInv
    <3>3. CASE answer # 0
      <4>1. Raw(answer) > 0
        BY MessagingAssumption DEF Raw, SIZE_OF_MSG_LENGTH
      <4>2. down'[c].left = Raw(answer)
        BY <1>2, <3>1, <3>3 DEF IInv, TypeInv
      <4>3. QED
        BY <4>1, <4>2
    <3>4. QED
      BY <3>2, <3>3
  <2>3. QED
    BY <2>1, <2>2
<1>9. Apart'
  BY <1>2, <1>3, <1>4, <1>6 DEF Placed, Apart, Serving, Running
<1>10. ServedInv'
  BY <1>4 DEF ServedInv
<1>11. CallsInv'
  <2> SUFFICES ASSUME NEW d \in Call PROVE CallInv(d)'
    BY DEF CallsInv
  <2>1. CallInv(d)
    BY DEF Placed, CallsInv
  <2>2. CASE d = c
    BY <1>2, <1>3, <1>4, <1>6, <1>8, <2>2 DEF CallInv, Answered, Serving
  <2>3. CASE d # c
    <3>1. d \in dropped' => d \in dropped \/ d \in Pending
      BY <1>6, <2>3
    <3>2. d \in Pending => d \notin dropped
      BY DEF Placed, Apart
    <3>3. d \in Pending => d \in Pending' \/ d \in dropped'
      BY <1>6
    <3>4. client'[d] = client[d] /\ up'[d] = up[d] /\ down'[d] = down[d]
          /\ (d \in handled' <=> d \in handled) /\ ~Serving' /\ (Serving => serving # d)
          /\ (d \in dropped => d \in dropped') /\ (d \in Pending' => d \in Pending)
      BY <1>1, <1>2, <1>4, <1>6, <1>7, <2>3 DEF Serving
    <3>5. d \in handled => d \notin Pending
      BY DEF Placed, Apart
    <3>6. QED
      BY <2>1, <3>1, <3>2, <3>3, <3>4, <3>5 DEF CallInv, Sent, Answered
  <2>4. QED
    BY <2>2, <2>3
<1>12. QED
  BY <1>9, <1>10, <1>11 DEF Placed

LEMMA NextPlaced == IInv /\ PlacedInv /\ [Next]_vars => PlacedInv'
<1> SUFFICES ASSUME IInv, PlacedInv, [Next]_vars, (Troubles = 0)' PROVE Placed'
  BY DEF PlacedInv
<1>1. IInv'
  BY NextWhole
<1>2. /\ pieces' \in {pieces, pieces + 1} /\ deaths' \in {deaths, deaths + 1}
      /\ failures' \in {failures, failures + 1}
  BY DEF Next, vars, ServerStep, ClientStep, HandleMsg, Connect, ConnectFails, Send,
         SendFails, Receive, ReceiveFails, Die, Accept, ServerReceive, ServerFails, Handle,
         troubles
<1>3. /\ pieces \in Nat /\ deaths \in Nat /\ failures \in Nat
      /\ pieces' \in Nat /\ deaths' \in Nat /\ failures' \in Nat
  BY <1>1 DEF IInv, TypeInv
<1>4. pieces' = 0 /\ deaths' = 0 /\ failures' = 0
  <2>1. pieces' + deaths' + failures' = 0
    BY DEF Troubles
  <2>2. QED
    BY <1>3, <2>1, NoTrouble
<1>5. pieces = 0 /\ deaths = 0 /\ failures = 0
  BY <1>2, <1>3, <1>4
<1>6. Troubles = 0
  BY <1>5 DEF Troubles
<1>7. Placed
  BY <1>6 DEF PlacedInv
<1>8. CASE \E c \in Call : Connect(c) \/ ClientStep(c) \/ Die(c)
  <2>1. PICK c \in Call : Connect(c) \/ ClientStep(c) \/ Die(c)
    BY <1>8
  <2>2. CASE Connect(c)
    BY <1>7, <2>2, ConnectPlaced
  <2>3. CASE ConnectFails(c) \/ SendFails(c) \/ ReceiveFails(c)
    BY <1>7, <2>3, FailsPlaced
  <2>4. CASE Receive(c)
    BY <1>6, <1>7, <2>4, ReceivePlaced
  <2>5. CASE \E length \in Length : Send(c, length)
    BY <1>7, <2>5, SendPlaced
  <2>6. CASE Die(c)
    BY <1>4, <1>5, <2>6 DEF Die
  <2>7. QED
    BY <2>1, <2>2, <2>3, <2>4, <2>5, <2>6 DEF ClientStep
<1>9. CASE Accept
  BY <1>7, <1>9, AcceptPlaced
<1>10. CASE ServerReceive
  BY <1>6, <1>7, <1>10, ServerReceivePlaced
<1>11. CASE HandleMsg
  BY <1>7, <1>11, HandlePlaced DEF HandleMsg
<1>12. CASE ServerFails
  BY <1>4, <1>5, <1>12 DEF ServerFails
<1>13. CASE UNCHANGED vars
  BY <1>7, <1>13 DEF vars, Placed, Apart, ServedInv, CallsInv, CallInv, Pending, Serving,
                     Sent, Answered, Running
<1>14. QED
  BY <1>8, <1>9, <1>10, <1>11, <1>12, <1>13 DEF Next, ServerStep

\* What a call that is not back yet can rely on: it waits at a server that
\* runs, or is served, and the server has or will get its message; or its
\* connection is closed, and it finds that out, or has its answer, or is to
\* get none.
Cared(c) ==
  \/ c \in Pending /\ Running /\ Sent(c)
  \/ c = serving /\ (server = "handle" \/ (server = "receive" /\ Sent(c)))
  \/ c \in dropped /\ \/ client[c] = "connected"
                      \/ c \notin handled /\ up[c].left > 0
                      \/ c \in handled /\ Answered(c)

NobodyForgotten ==
  Troubles = 0 => \A c \in Call : client[c] \in {"connected", "waiting"} => Cared(c)

\* As long as nothing goes wrong no call is forgotten, not even when the
\* server ends with others waiting: this, with fairness, is what
\* EveryoneReturns rests on (runMessagingServer closes every connection).
THEOREM NobodyIsForgotten == Spec => []NobodyForgotten
<1>1. IInv /\ PlacedInv => NobodyForgotten
  <2> SUFFICES ASSUME IInv, Placed, NEW c \in Call, client[c] \in {"connected", "waiting"}
               PROVE  Cared(c)
    BY DEF NobodyForgotten, PlacedInv
  <2>1. CallInv(c) /\ Apart /\ ServedInv
    BY DEF Placed, CallsInv
  <2>2. CASE c \in Pending
    BY <2>1, <2>2 DEF CallInv, Apart, Cared
  <2>3. CASE Serving /\ c = serving
    BY <2>1, <2>3 DEF ServedInv, Serving, Cared, Sent
  <2>4. CASE c \in dropped
    BY <2>1, <2>4 DEF CallInv, Cared
  <2>5. QED
    BY <2>1, <2>2, <2>3, <2>4 DEF CallInv
<1>2. Spec => []PlacedInv
  BY InitPlaced, NextPlaced, Invariant, PTL DEF Spec
<1>3. QED
  BY <1>1, <1>2, Invariant, PTL
=============================================================================
