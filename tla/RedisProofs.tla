------------------------------ MODULE RedisProofs ----------------------------
(***************************************************************************)
(* What the API asks of Redis: RedisClient for any number of commands and  *)
(* any handshake, and RateLimit for any number of processes and requests,  *)
(* any limit and any window.                                               *)
(***************************************************************************)
EXTENDS RedisClient, RateLimit, TLAPS

-----------------------------------------------------------------------------
(* RedisClient                                                             *)

Settled(c) == status[c] \in {"resolved", "rejected"}
Started(c) == status[c] = "running" \/ Settled(c)

\* Commands are issued, start and settle in the order of their numbers.
QueueIsSerial ==
  /\ \A c, d \in Commands : c < d => /\ status[c] = "new" => status[d] = "new"
                                     /\ Started(d) => Settled(c)
  /\ \A c \in Commands : running = c <=> status[c] = "running"
  /\ \A i \in 1 .. Len(executed) : Started(executed[i])

\* A connection that was not opened yet carries nothing; only a started command dials.
UnopenedAreEmpty ==
  \A k \in Commands :
    /\ conn[k] # "none" => Started(k)
    /\ conn[k] \in {"none", "connecting"} =>
         toServer[k] = <<>> /\ toClient[k] = <<>> /\ greeted[k] = 0

\* One request at most is on its way to the server on each connection, and a command
\* only behind the whole handshake: the running one, on its own connection, or one
\* that was rejected.
OneRequestOnTheWire ==
  \A k \in Commands :
    toServer[k] # <<>> =>
      \E q \in Request :
        /\ toServer[k] = <<q>>
        /\ q.step # "command" => greeted[k] < Len(Handshake)
        /\ q.step = "command" =>
             /\ greeted[k] = Len(Handshake)
             /\ (q.by = running /\ k = line) \/ status[q.by] = "rejected"

\* The socket kept for the next command has answered everything.
KeptSocketIsClean ==
  /\ current # None => conn[current] \in {"open", "destroyed"}
  /\ SocketUsable => greeted[current] = Len(Handshake)
  /\ SocketUsable /\ phase # "sent" =>
       phase = "idle" /\ toServer[current] = <<>> /\ toClient[current] = <<>>
  /\ SocketUsable /\ phase = "sent" => line = current

\* What the running command waits for.
Awaited == IF phase = "sent" THEN CommandOf(running)
                             ELSE [step |-> Head(greeting), by |-> running]
Answered(ok) == IF phase = "greeting" /\ ok THEN 1 ELSE 0
Part(ok, ends) == [of |-> Awaited, ok |-> ok, ends |-> ends]

Unanswered == toServer[line] = <<Awaited>> /\ toClient[line] = <<>> /\ buffer = <<>>

\* The server's answer is under way, in one piece or two, or half of it is heard.
AnswerUnderWay(ok) ==
  /\ toServer[line] = <<>>
  /\ \/ buffer = <<>> /\ toClient[line] = <<Part(ok, TRUE)>>
     \/ buffer = <<>> /\ toClient[line] = <<Part(ok, FALSE), Part(ok, TRUE)>>
     \/ buffer = <<Part(ok, FALSE)>> /\ toClient[line] = <<Part(ok, TRUE)>>

Accepted(n) == IF phase = "sent" THEN n = Len(Handshake)
                                 ELSE n + Len(greeting) = Len(Handshake)

RunningCommandWaits ==
  /\ phase \in {"idle", "connecting"} => buffer = <<>>
  /\ phase = "connecting" => conn[line] = "connecting"
  /\ phase = "greeting" => greeting # <<>>
  /\ Listening(line) => conn[line] \in {"open", "destroyed"}
  /\ Listening(line) /\ conn[line] = "open" =>
       \/ Unanswered /\ Accepted(greeted[line])
       \/ \E ok \in BOOLEAN : AnswerUnderWay(ok) /\ Accepted(greeted[line] - Answered(ok))

IInv ==
  /\ TypeOK
  /\ RepliesAreTheirOwn
  /\ OnlyRejectedCommandsRunLate
  /\ QueueIsSerial
  /\ UnopenedAreEmpty
  /\ OneRequestOnTheWire
  /\ KeptSocketIsClean
  /\ RunningCommandWaits

\* What short sequences of requests and of pieces of replies are.
LEMMA Short ==
  ASSUME NEW S, NEW x \in S, NEW y \in S
  PROVE  /\ <<>> \in Seq(S) /\ <<x>> \in Seq(S) /\ <<x, y>> \in Seq(S)
         /\ Append(<<>>, x) = <<x>> /\ Append(<<x>>, y)[1] = x
         /\ <<>> \o <<x>> = <<x>> /\ <<>> \o <<x, y>> = <<x, y>>
         /\ <<x>> # <<>> /\ Head(<<x>>) = x /\ Tail(<<x>>) = <<>> /\ <<x>>[1] = x
         /\ <<x, y>> # <<>> /\ Head(<<x, y>>) = x /\ Tail(<<x, y>>) = <<y>> /\ <<x, y>>[1] = x
<1>1. <<>> \in Seq(S) /\ <<x>> \in Seq(S) /\ <<x, y>> \in Seq(S)
  OBVIOUS
<1>2. /\ <<x>> # <<>> /\ Head(<<x>>) = x /\ Tail(<<x>>) = <<>> /\ <<x>>[1] = x
      /\ <<x, y>> # <<>> /\ Head(<<x, y>>) = x /\ <<x, y>>[1] = x
  OBVIOUS
<1>3. Tail(<<x, y>>) = <<y>>
  OBVIOUS
<1>4. Append(<<>>, x) = <<x>>
  OBVIOUS
<1>5. Append(<<x>>, y)[1] = x
  OBVIOUS
<1>6. <<>> \o <<x>> = <<x>> 
  OBVIOUS
<1>7. <<>> \o <<x, y>> = <<x, y>>
  OBVIOUS
<1>8. QED
  BY <1>1, <1>2, <1>3, <1>4, <1>5, <1>6, <1>7

LEMMA InitInv == Init => IInv
<1>1. SUFFICES ASSUME Init PROVE IInv
  OBVIOUS
<1>2. TypeOK
  BY <1>1, MaxCommandsAssumption, HandshakeAssumption DEF Init, TypeOK, None, Commands
<1>3. RepliesAreTheirOwn /\ OnlyRejectedCommandsRunLate
  BY <1>1 DEF Init, RepliesAreTheirOwn, OnlyRejectedCommandsRunLate
<1>4. QueueIsSerial
  BY <1>1 DEF Init, QueueIsSerial, Started, Settled, None, Commands
<1>5. UnopenedAreEmpty /\ OneRequestOnTheWire /\ KeptSocketIsClean /\ RunningCommandWaits
  BY <1>1 DEF Init, UnopenedAreEmpty, OneRequestOnTheWire, KeptSocketIsClean,
              RunningCommandWaits, SocketUsable, Listening
<1>6. QED
  BY <1>2, <1>3, <1>4, <1>5 DEF IInv

\* The request whose answer the running command waits for.
LEMMA AwaitedIsARequest ==
  ASSUME IInv, phase \in {"greeting", "sent"}
  PROVE  /\ running \in Commands /\ line \in Commands
         /\ Awaited \in Request
         /\ \A ok, ends \in BOOLEAN : Part(ok, ends) \in Chunk
<1>1. running \in Commands /\ line \in Commands
  BY DEF IInv, TypeOK
<1>2. phase = "greeting" => Head(greeting) \in {"AUTH", "SELECT"}
  BY DEF IInv, TypeOK, RunningCommandWaits
<1>3. Awaited \in Request
  BY <1>1, <1>2 DEF Awaited, CommandOf, Request
<1>4. QED
  BY <1>1, <1>3 DEF Part, Chunk

-----------------------------------------------------------------------------
(* The promises. *)

\* A command starts: it is the next in number.
LEMMA StartKeeps ==
  ASSUME IInv, NEW c \in Commands, Start(c)
  PROVE  /\ RepliesAreTheirOwn' /\ OnlyRejectedCommandsRunLate' /\ QueueIsSerial'
         /\ \A d \in Commands : Started(d) => Started(d)'
         /\ \A d \in Commands : status[d] = "rejected" => status'[d] = "rejected"
         /\ ~Started(c)
<1>1. /\ running = None /\ running' = c /\ status[c] = "queued"
      /\ status' = [status EXCEPT ![c] = "running"]
      /\ status \in [Commands -> {"new", "queued", "running", "resolved", "rejected"}]
      /\ UNCHANGED <<answer, executed>>
      /\ executed \in Seq(Commands)
      /\ \A d \in 1 .. c - 1 : status[d] # "queued"
  BY DEF Start, Oldest, IInv, TypeOK
<1>2. \A d \in Commands : status'[d] = IF d = c THEN "running" ELSE status[d]
  BY <1>1
<1>3. \A d \in Commands : d < c => Settled(d)
  <2>1. TAKE d \in Commands
  <2>2. HAVE d < c
  <2>3. d \in 1 .. c - 1
    BY <2>2, MaxCommandsAssumption DEF Commands
  <2>4. status[d] # "queued" /\ status[d] # "new" /\ status[d] # "running"
    BY <1>1, <2>2, <2>3 DEF IInv, QueueIsSerial, None, Commands
  <2>5. QED
    BY <1>1, <2>4 DEF Settled
<1>4. \A d \in Commands : c < d => ~Started(d)
  BY <1>1 DEF IInv, QueueIsSerial, Settled
<1>5. QueueIsSerial'
  <2>1. \A d, e \in Commands : d < e => (status[d] = "new" => status[e] = "new")' /\ (Started(e) => Settled(d))'
    BY <1>1, <1>2, <1>3, <1>4, MaxCommandsAssumption DEF IInv, QueueIsSerial, Settled, Started, Commands
  <2>2. \A d \in Commands : running' = d <=> status'[d] = "running"
    BY <1>1, <1>2 DEF IInv, QueueIsSerial, None, Commands
  <2>3. \A i \in 1 .. Len(executed) : Started(executed[i])'
    BY <1>1, <1>2 DEF IInv, QueueIsSerial, Settled, Started
  <2>4. QED
    BY <2>1, <2>2, <2>3, <1>1 DEF QueueIsSerial
<1>6. RepliesAreTheirOwn' /\ OnlyRejectedCommandsRunLate'
  <2>1. \A i \in DOMAIN executed : executed[i] \in Commands
    BY <1>1
  <2>2. QED
    BY <1>1, <1>2, <2>1 DEF IInv, RepliesAreTheirOwn, OnlyRejectedCommandsRunLate, CommandOf
<1>7. QED
  BY <1>1, <1>2, <1>5, <1>6 DEF Settled, Started

\* Nothing happens to the promises.
LEMMA PromisesStay ==
  ASSUME IInv, UNCHANGED <<promises, executed>>
  PROVE  RepliesAreTheirOwn' /\ OnlyRejectedCommandsRunLate' /\ QueueIsSerial'
BY DEF IInv, promises, RepliesAreTheirOwn, OnlyRejectedCommandsRunLate, QueueIsSerial,
       Started, Settled

\* The running command settles; with a reply, only with its own.
LEMMA SettleKeeps ==
  ASSUME IInv, running # None, UNCHANGED executed,
         NEW outcome \in {"resolved", "rejected"}, NEW reply, Settle(outcome, reply),
         outcome = "resolved" => reply = CommandOf(running)
  PROVE  /\ RepliesAreTheirOwn' /\ OnlyRejectedCommandsRunLate' /\ QueueIsSerial'
         /\ \A d \in Commands : Started(d) => Started(d)'
         /\ \A d \in Commands : status[d] = "rejected" => status'[d] = "rejected"
         /\ status'[running] = outcome
<1>1. /\ running \in Commands /\ running' = None
      /\ status' = [status EXCEPT ![running] = outcome]
      /\ answer' = [answer EXCEPT ![running] = reply]
      /\ status \in [Commands -> {"new", "queued", "running", "resolved", "rejected"}]
      /\ answer \in [Commands -> Request \cup {NoReply}]
      /\ executed \in Seq(Commands)
      /\ status[running] = "running"
  BY DEF Settle, IInv, TypeOK, QueueIsSerial
<1>2. \A d \in Commands : /\ status'[d] = IF d = running THEN outcome ELSE status[d]
                          /\ answer'[d] = IF d = running THEN reply ELSE answer[d]
  BY <1>1
<1>3. RepliesAreTheirOwn'
  BY <1>2 DEF IInv, RepliesAreTheirOwn, CommandOf
<1>4. OnlyRejectedCommandsRunLate'
  <2>1. \A i \in DOMAIN executed : executed[i] \in Commands
    BY <1>1
  <2>2. QED
    BY <1>1, <1>2, <2>1 DEF IInv, OnlyRejectedCommandsRunLate
<1>5. QueueIsSerial'
  <2>1. \A d, e \in Commands :
          d < e => (status[d] = "new" => status[e] = "new")' /\ (Started(e) => Settled(d))'
    BY <1>1, <1>2 DEF IInv, QueueIsSerial, Settled, Started
  <2>2. \A d \in Commands : running' = d <=> status'[d] = "running"
    BY <1>1, <1>2 DEF IInv, QueueIsSerial, None, Commands
  <2>3. \A i \in 1 .. Len(executed) : Started(executed[i])'
    BY <1>1, <1>2 DEF IInv, QueueIsSerial, Settled, Started
  <2>4. QED
    BY <2>1, <2>2, <2>3 DEF QueueIsSerial
<1>6. QED
  BY <1>1, <1>2, <1>3, <1>4, <1>5 DEF Settled, Started

-----------------------------------------------------------------------------
(* Rejections, and connections that end. *)

\* The running command is rejected.  Whatever becomes of the connections, no usable
\* socket is left with bytes on it.
LEMMA RejectKeeps ==
  ASSUME IInv, running # None, Reject, UNCHANGED <<toServer, greeted, executed>>,
         conn' \in [Commands -> {"none", "connecting", "open", "destroyed"}],
         \A k \in Commands : conn[k] = "none" => conn'[k] = "none",
         \A k \in Commands : conn'[k] = conn[k] \/ conn'[k] = "destroyed",
         toClient' \in [Commands -> Seq(Chunk)],
         \A k \in Commands : toClient[k] = <<>> => toClient'[k] = <<>>,
         current' \in {None, current},
         SocketUsable' => toServer[current] = <<>> /\ toClient'[current] = <<>>
  PROVE  IInv'
<1>1. /\ running' = None /\ line' = None /\ phase' = "idle"
      /\ greeting' = <<>> /\ buffer' = <<>>
      /\ running \in Commands
      /\ status' = [status EXCEPT ![running] = "rejected"]
      /\ answer' = [answer EXCEPT ![running] = NoReply]
  BY DEF Reject, Settle, IInv, TypeOK
<1>2. /\ RepliesAreTheirOwn' /\ OnlyRejectedCommandsRunLate' /\ QueueIsSerial'
      /\ \A d \in Commands : Started(d) => Started(d)'
      /\ \A d \in Commands : status[d] = "rejected" => status'[d] = "rejected"
      /\ status'[running] = "rejected"
  BY SettleKeeps, "rejected" # "resolved" DEF Reject
<1>3. TypeOK'
  <2>1. /\ status' \in [Commands -> {"new", "queued", "running", "resolved", "rejected"}]
        /\ answer' \in [Commands -> Request \cup {NoReply}]
    BY <1>1 DEF IInv, TypeOK
  <2>2. /\ greeting' \in Seq({"AUTH", "SELECT"}) /\ buffer' \in Seq(Chunk)
        /\ running' \in Commands \cup {None} /\ line' \in Commands \cup {None}
        /\ phase' \in {"idle", "connecting", "greeting", "sent"}
        /\ running' = None <=> line' = None
        /\ running' = None <=> phase' = "idle"
    BY <1>1
  <2>3. /\ current' \in Commands \cup {None}
        /\ toServer' \in [Commands -> Seq(Request)]
        /\ greeted' \in [Commands -> 0 .. Len(Handshake)]
        /\ executed' \in Seq(Commands)
    BY DEF IInv, TypeOK
  <2>4. QED
    BY <2>1, <2>2, <2>3 DEF TypeOK
<1>4. UnopenedAreEmpty'
  BY <1>2 DEF IInv, UnopenedAreEmpty
<1>5. OneRequestOnTheWire'
  <2>1. SUFFICES ASSUME NEW k \in Commands, toServer[k] # <<>>, NEW q \in Request,
                        toServer[k] = <<q>>,
                        q.step # "command" => greeted[k] < Len(Handshake),
                        q.step = "command" =>
                          /\ greeted[k] = Len(Handshake)
                          /\ (q.by = running /\ k = line) \/ status[q.by] = "rejected"
                 PROVE  q.step = "command" => status'[q.by] = "rejected"
    BY DEF IInv, OneRequestOnTheWire
  <2>2. q.by \in Commands
    BY DEF Request
  <2>3. QED
    BY <2>1, <2>2, <1>2
<1>6. KeptSocketIsClean'
  <2>1. current' # None => conn'[current'] \in {"open", "destroyed"}
    BY DEF IInv, TypeOK, KeptSocketIsClean
  <2>2. SocketUsable' => SocketUsable /\ current' = current
    BY DEF IInv, TypeOK, KeptSocketIsClean, SocketUsable
  <2>3. QED
    BY <1>1, <2>1, <2>2 DEF IInv, KeptSocketIsClean
<1>7. RunningCommandWaits'
  BY <1>1 DEF RunningCommandWaits, Listening
<1>8. QED
  BY <1>2, <1>3, <1>4, <1>5, <1>6, <1>7 DEF IInv

\* Connections that are open or gone end, and nothing else happens.
LEMMA DisconnectKeeps ==
  ASSUME IInv, NEW gone \in SUBSET (Commands \cup {None}),
         \A k \in gone : k # None => conn[k] \in {"open", "destroyed"},
         conn' = Destroyed(gone), toClient' = Severed(gone), current' \in {None, current},
         UNCHANGED <<promises, phase, greeting, line, buffer, toServer, greeted, executed>>
  PROVE  IInv'
<1>1. \A k \in Commands : /\ conn'[k] = IF k \in gone THEN "destroyed" ELSE conn[k]
                          /\ toClient'[k] = IF k \in gone THEN <<>> ELSE toClient[k]
  BY DEF Destroyed, Severed
<1>2. RepliesAreTheirOwn' /\ OnlyRejectedCommandsRunLate' /\ QueueIsSerial'
  BY PromisesStay
<1>3. TypeOK'
  <2>1. conn' \in [Commands -> {"none", "connecting", "open", "destroyed"}]
    BY DEF IInv, TypeOK, Destroyed
  <2>2. toClient' \in [Commands -> Seq(Chunk)]
    BY DEF IInv, TypeOK, Severed
  <2>3. QED
    BY <2>1, <2>2 DEF IInv, TypeOK, promises
<1>4. UnopenedAreEmpty'
  <2>1. ASSUME NEW k \in Commands
        PROVE  /\ conn'[k] # "none" => conn[k] # "none"
               /\ conn'[k] \in {"none", "connecting"} => conn'[k] = conn[k] /\ k \notin gone
    BY <1>1 DEF None, Commands
  <2>2. QED
    BY <1>1, <2>1 DEF IInv, UnopenedAreEmpty, promises, Started, Settled
<1>5. OneRequestOnTheWire'
  BY DEF IInv, OneRequestOnTheWire, promises
<1>6. KeptSocketIsClean'
  <2>1. current' # None => conn'[current'] \in {"open", "destroyed"}
    BY <1>1 DEF IInv, TypeOK, KeptSocketIsClean
  <2>2. SocketUsable' => SocketUsable /\ current' = current /\ toClient'[current] = toClient[current]
    BY <1>1 DEF IInv, TypeOK, KeptSocketIsClean, SocketUsable
  <2>3. QED
    BY <2>1, <2>2 DEF IInv, KeptSocketIsClean
<1>7. RunningCommandWaits'
  <2>1. Listening(line) => line \in Commands
    BY DEF IInv, TypeOK, Listening
  <2>2. phase = "connecting" => line \in Commands /\ conn'[line] = "connecting"
    BY <1>1 DEF IInv, TypeOK, RunningCommandWaits, None, Commands
  <2>3. Listening(line) => conn'[line] \in {"open", "destroyed"}
    BY <1>1, <2>1 DEF IInv, RunningCommandWaits
  <2>4. Listening(line) /\ conn'[line] = "open"
          => conn[line] = "open" /\ toClient'[line] = toClient[line]
    BY <1>1, <2>1
  <2>5. QED
    BY <2>2, <2>3, <2>4 DEF IInv, RunningCommandWaits, Listening, promises, Awaited, Part,
       Unanswered, AnswerUnderWay, Accepted, Answered, CommandOf
<1>8. QED
  BY <1>2, <1>3, <1>4, <1>5, <1>6, <1>7 DEF IInv

LEMMA DialRefusedKeeps == ASSUME IInv, DialRefused PROVE IInv'
<1>1. /\ phase = "connecting" /\ running # None /\ line \in Commands
      /\ conn[line] = "connecting" /\ current \in Commands \cup {None}
  BY DEF DialRefused, IInv, TypeOK, RunningCommandWaits
<1>2. conn' \in [Commands -> {"none", "connecting", "open", "destroyed"}]
  BY DEF DialRefused, CloseSocket, Destroyed, IInv, TypeOK
<1>3. \A k \in Commands : conn'[k] = IF k \in {current, line} THEN "destroyed" ELSE conn[k]
  BY DEF DialRefused, CloseSocket, Destroyed
<1>4. \A k \in Commands : conn[k] = "none" => conn'[k] = "none"
  BY <1>1, <1>3 DEF IInv, KeptSocketIsClean, None, Commands
<1>5. /\ toClient' \in [Commands -> Seq(Chunk)]
      /\ \A k \in Commands : toClient[k] = <<>> => toClient'[k] = <<>>
  BY DEF DialRefused, CloseSocket, Severed, IInv, TypeOK
<1>6. QED
  BY <1>1, <1>2, <1>3, <1>4, <1>5, RejectKeeps DEF DialRefused, CloseSocket, SocketUsable

LEMMA DialTimeoutKeeps == ASSUME IInv, DialTimeout PROVE IInv'
<1>1. /\ phase = "connecting" /\ running # None /\ line \in Commands
      /\ conn[line] = "connecting" /\ ~SocketUsable
  BY DEF DialTimeout, IInv, TypeOK, RunningCommandWaits, KeptSocketIsClean
<1>2. /\ conn' \in [Commands -> {"none", "connecting", "open", "destroyed"}]
      /\ \A k \in Commands : conn'[k] = IF k = line THEN "destroyed" ELSE conn[k]
  BY DEF DialTimeout, IInv, TypeOK
<1>3. ~SocketUsable'
  BY <1>1, <1>2 DEF DialTimeout, SocketUsable, IInv, TypeOK
<1>4. QED
  BY <1>1, <1>2, <1>3, RejectKeeps DEF DialTimeout, wires, IInv, TypeOK

LEMMA GreetingTimeoutKeeps == ASSUME IInv, GreetingTimeout PROVE IInv'
<1>1. phase = "greeting" /\ running # None /\ ~SocketUsable
  BY DEF GreetingTimeout, IInv, TypeOK, KeptSocketIsClean
<1>2. QED
  BY <1>1, RejectKeeps DEF GreetingTimeout, wires, IInv, TypeOK, SocketUsable

LEMMA CommandTimeoutKeeps == ASSUME IInv, CommandTimeout PROVE IInv'
<1>1. phase = "sent" /\ running # None /\ current \in Commands \cup {None} /\ current' = None
  BY DEF CommandTimeout, CloseSocket, IInv, TypeOK
<1>2. /\ conn' \in [Commands -> {"none", "connecting", "open", "destroyed"}]
      /\ \A k \in Commands : conn'[k] = IF k = current THEN "destroyed" ELSE conn[k]
  BY DEF CommandTimeout, CloseSocket, Destroyed, IInv, TypeOK
<1>3. \A k \in Commands : conn[k] = "none" => conn'[k] = "none"
  BY <1>2 DEF IInv, KeptSocketIsClean, None, Commands
<1>4. /\ toClient' \in [Commands -> Seq(Chunk)]
      /\ \A k \in Commands : toClient[k] = <<>> => toClient'[k] = <<>>
  BY DEF CommandTimeout, CloseSocket, Severed, IInv, TypeOK
<1>5. QED
  BY <1>1, <1>2, <1>3, <1>4, RejectKeeps DEF CommandTimeout, SocketUsable

LEMMA NoticeCloseKeeps == ASSUME IInv, NoticeClose PROVE IInv'
<1>1. running # None /\ current' = None
  BY DEF NoticeClose, IInv, TypeOK
<1>2. QED
  BY <1>1, RejectKeeps DEF NoticeClose, wires, IInv, TypeOK, SocketUsable

LEMMA ConnectionErrorKeeps ==
  ASSUME IInv, NEW k \in Commands, ConnectionError(k) PROVE IInv'
<1>1. /\ conn[k] = "open" /\ current \in Commands \cup {None} /\ current' = None
      /\ conn' = Destroyed({current, k}) /\ toClient' = Severed({current, k})
      /\ UNCHANGED <<toServer, greeted, executed>>
      /\ current # None => conn[current] \in {"open", "destroyed"}
  <2>1. {current} \cup {k} = {current, k}
    OBVIOUS
  <2>2. QED
    BY <2>1 DEF ConnectionError, CloseSocket, IInv, TypeOK, KeptSocketIsClean
<1>2. CASE Listening(k)
  <2>1. running # None /\ Reject
    BY <1>2 DEF ConnectionError, Listening, IInv, TypeOK
  <2>2. conn' \in [Commands -> {"none", "connecting", "open", "destroyed"}]
    BY <1>1 DEF Destroyed, IInv, TypeOK
  <2>3. \A c \in Commands : conn'[c] = IF c \in {current, k} THEN "destroyed" ELSE conn[c]
    BY <1>1 DEF Destroyed
  <2>4. \A c \in Commands : conn[c] = "none" => conn'[c] = "none"
    BY <1>1, <2>3 DEF None, Commands
  <2>5. /\ toClient' \in [Commands -> Seq(Chunk)]
        /\ \A c \in Commands : toClient[c] = <<>> => toClient'[c] = <<>>
    BY <1>1 DEF Severed, IInv, TypeOK
  <2>6. QED
    BY <1>1, <2>1, <2>2, <2>3, <2>4, <2>5, RejectKeeps DEF SocketUsable
<1>3. CASE ~Listening(k)
  <2>1. UNCHANGED <<promises, phase, greeting, line, buffer>>
    BY <1>3 DEF ConnectionError
  <2>2. /\ {current, k} \in SUBSET (Commands \cup {None})
        /\ \A c \in {current, k} : c # None => conn[c] \in {"open", "destroyed"}
    BY <1>1
  <2>3. QED
    BY <1>1, <2>1, <2>2, DisconnectKeeps
<1>4. QED
  BY <1>2, <1>3

LEMMA PeerClosesKeeps ==
  ASSUME IInv, NEW k \in Commands, PeerCloses(k) PROVE IInv'
<1>1. /\ conn[k] = "open" /\ conn' = Destroyed({k}) /\ toClient' = Severed({k})
      /\ UNCHANGED <<toServer, greeted, executed>>
  BY DEF PeerCloses
<1>2. CASE phase = "sent" /\ line = k
  <2>1. running # None /\ Reject /\ current' = None
    BY <1>2 DEF PeerCloses, IInv, TypeOK
  <2>2. /\ conn' \in [Commands -> {"none", "connecting", "open", "destroyed"}]
        /\ \A c \in Commands : conn'[c] = IF c = k THEN "destroyed" ELSE conn[c]
    BY <1>1 DEF Destroyed, IInv, TypeOK
  <2>3. /\ toClient' \in [Commands -> Seq(Chunk)]
        /\ \A c \in Commands : toClient[c] = <<>> => toClient'[c] = <<>>
    BY <1>1 DEF Severed, IInv, TypeOK
  <2>4. QED
    BY <1>1, <2>1, <2>2, <2>3, RejectKeeps DEF SocketUsable
<1>3. CASE ~(phase = "sent" /\ line = k)
  <2>1. UNCHANGED <<promises, phase, greeting, line, buffer, current>>
    BY <1>3 DEF PeerCloses
  <2>2. {k} \in SUBSET (Commands \cup {None})
    OBVIOUS
  <2>3. QED
    BY <1>1, <2>1, <2>2, DisconnectKeeps
<1>4. QED
  BY <1>2, <1>3

-----------------------------------------------------------------------------
(* The commands that are issued, started and dialled. *)

LEMMA SubmitKeeps == ASSUME IInv, NEW c \in Commands, Submit(c) PROVE IInv'
<1>1. /\ status[c] = "new" /\ status' = [status EXCEPT ![c] = "queued"]
      /\ status \in [Commands -> {"new", "queued", "running", "resolved", "rejected"}]
      /\ \A d \in 1 .. c - 1 : status[d] # "new"
      /\ executed \in Seq(Commands)
      /\ UNCHANGED <<answer, running, phase, greeting, line, current, conn, wires, buffer>>
  BY DEF Submit, IInv, TypeOK
<1>2. \A d \in Commands : status'[d] = IF d = c THEN "queued" ELSE status[d]
  BY <1>1
<1>3. \A d \in Commands : d < c => status[d] # "new"
  BY <1>1, MaxCommandsAssumption DEF Commands
<1>4. TypeOK'
  BY <1>1 DEF IInv, TypeOK, wires
<1>5. RepliesAreTheirOwn'
  BY <1>1, <1>2 DEF IInv, RepliesAreTheirOwn, CommandOf
<1>6. OnlyRejectedCommandsRunLate'
  <2>1. \A i \in DOMAIN executed : executed[i] \in Commands
    BY <1>1
  <2>2. QED
    BY <1>1, <1>2, <2>1 DEF IInv, OnlyRejectedCommandsRunLate, wires
<1>7. \A d \in Commands : (Started(d) <=> Started(d)') /\ (Settled(d) <=> Settled(d)')
  BY <1>1, <1>2 DEF Started, Settled
<1>8. QueueIsSerial'
  <2>1. \A d, e \in Commands :
          d < e => (status[d] = "new" => status[e] = "new")' /\ (Started(e) => Settled(d))'
    BY <1>1, <1>2, <1>3, <1>7 DEF IInv, QueueIsSerial
  <2>2. \A d \in Commands : running' = d <=> status'[d] = "running"
    BY <1>1, <1>2 DEF IInv, QueueIsSerial
  <2>3. \A i \in 1 .. Len(executed) : Started(executed[i])'
    BY <1>1, <1>7, \A i \in 1 .. Len(executed) : executed[i] \in Commands DEF IInv, QueueIsSerial, wires
  <2>4. QED
    BY <1>1, <2>1, <2>2, <2>3 DEF QueueIsSerial, wires
<1>9. UnopenedAreEmpty' /\ OneRequestOnTheWire'
  <2>1. \A q \in Request : q.by \in Commands
    BY DEF Request
  <2>2. QED
    BY <1>1, <1>2, <1>7, <2>1 DEF IInv, UnopenedAreEmpty, OneRequestOnTheWire, wires
<1>10. KeptSocketIsClean' /\ RunningCommandWaits'
  BY <1>1 DEF IInv, KeptSocketIsClean, RunningCommandWaits, SocketUsable, Listening, wires,
         Awaited, Part, Unanswered, AnswerUnderWay, Accepted, Answered, CommandOf
<1>11. QED
  BY <1>4, <1>5, <1>6, <1>8, <1>9, <1>10 DEF IInv

\* A request is written on a connection that has answered everything.
LEMMA WriteKeepsOneRequest ==
  ASSUME IInv, NEW k \in Commands, NEW q \in Request, Write(k, q), toServer[k] = <<>>,
         greeted \in [Commands -> Nat], UNCHANGED greeted,
         running' \in Commands, running = None \/ running' = running,
         line' = k, running = None \/ line = k,
         q.by = running',
         IF q.step = "command" THEN greeted[k] = Len(Handshake) ELSE greeted[k] < Len(Handshake),
         \A d \in Commands : status[d] = "rejected" => status'[d] = "rejected"
  PROVE  /\ toServer' \in [Commands -> Seq(Request)]
         /\ toServer'[k] = <<q>>
         /\ \A c \in Commands : c # k => toServer'[c] = toServer[c]
         /\ OneRequestOnTheWire'
<1>1. toServer \in [Commands -> Seq(Request)]
  BY DEF IInv, TypeOK
<1>2. toServer' \in [Commands -> Seq(Request)] /\ toServer'[k] = <<q>>
  BY <1>1, Short DEF Write
<1>3. \A c \in Commands : c # k => toServer'[c] = toServer[c]
  BY <1>1 DEF Write
<1>4. OneRequestOnTheWire'
  <2>1. SUFFICES ASSUME NEW c \in Commands, toServer'[c] # <<>>
                 PROVE  \E p \in Request :
                          /\ toServer'[c] = <<p>>
                          /\ p.step # "command" => greeted[c] < Len(Handshake)
                          /\ p.step = "command" =>
                               /\ greeted[c] = Len(Handshake)
                               /\ (p.by = running' /\ c = line') \/ status'[p.by] = "rejected"
    BY DEF OneRequestOnTheWire
  <2>2. CASE c = k
    BY <1>2, <2>2
  <2>3. CASE c # k
    <3>1. PICK p \in Request :
            /\ toServer[c] = <<p>>
            /\ p.step # "command" => greeted[c] < Len(Handshake)
            /\ p.step = "command" =>
                 /\ greeted[c] = Len(Handshake)
                 /\ (p.by = running /\ c = line) \/ status[p.by] = "rejected"
      BY <1>3, <2>1, <2>3 DEF IInv, OneRequestOnTheWire
    <3>2. p.by \in Commands
      BY DEF Request
    <3>3. ~(p.by = running /\ c = line)
      BY <2>3, <3>2 DEF None, Commands
    <3>4. QED
      BY <1>3, <2>3, <3>1, <3>2, <3>3
  <2>4. QED
    BY <2>2, <2>3
<1>5. QED
  BY <1>2, <1>3, <1>4

LEMMA WriteOnSocketKeeps ==
  ASSUME IInv, NEW c \in Commands, WriteOnSocket(c) PROVE IInv'
<1>1. /\ SocketUsable /\ Start(c) /\ phase' = "sent" /\ line' = current
      /\ Write(current, CommandOf(c)) /\ UNCHANGED <<conn, current, greeting, greeted, executed, buffer, toClient>>
      /\ running' = c /\ running = None /\ phase = "idle" /\ buffer = <<>>
      /\ current \in Commands /\ conn[current] = "open"
      /\ status' = [status EXCEPT ![c] = "running"] /\ UNCHANGED answer
  BY DEF WriteOnSocket, Start, Oldest, SocketUsable, IInv, TypeOK, RunningCommandWaits
<1>2. /\ RepliesAreTheirOwn' /\ OnlyRejectedCommandsRunLate' /\ QueueIsSerial'
      /\ \A d \in Commands : Started(d) => Started(d)'
      /\ \A d \in Commands : status[d] = "rejected" => status'[d] = "rejected"
  BY <1>1, StartKeeps
<1>3. toServer[current] = <<>> /\ toClient[current] = <<>> /\ greeted[current] = Len(Handshake)
  BY <1>1 DEF IInv, KeptSocketIsClean
<1>4. CommandOf(c) \in Request /\ CommandOf(c).step = "command" /\ CommandOf(c).by = c
  BY DEF CommandOf, Request
<1>5. greeted \in [Commands -> Nat]
  BY HandshakeAssumption DEF IInv, TypeOK
<1>6. /\ toServer' \in [Commands -> Seq(Request)] /\ toServer'[current] = <<CommandOf(c)>>
      /\ \A d \in Commands : d # current => toServer'[d] = toServer[d]
      /\ OneRequestOnTheWire'
  BY <1>1, <1>2, <1>3, <1>4, <1>5, WriteKeepsOneRequest
<1>7. TypeOK'
  BY <1>1, <1>6 DEF IInv, TypeOK, None, Commands
<1>8. UnopenedAreEmpty'
  BY <1>1, <1>2, <1>6 DEF IInv, UnopenedAreEmpty
<1>9. KeptSocketIsClean'
  BY <1>1, <1>3 DEF IInv, KeptSocketIsClean, SocketUsable
<1>10. RunningCommandWaits'
  BY <1>1, <1>3, <1>6 DEF RunningCommandWaits, Listening, Unanswered, Awaited, Accepted
<1>11. QED
  BY <1>2, <1>6, <1>7, <1>8, <1>9, <1>10 DEF IInv

LEMMA DialKeeps == ASSUME IInv, NEW c \in Commands, Dial(c) PROVE IInv'
<1>1. /\ ~SocketUsable /\ Start(c) /\ phase' = "connecting" /\ line' = c
      /\ conn' = [conn EXCEPT ![c] = "connecting"]
      /\ UNCHANGED <<toServer, answer, current, greeting, greeted, executed, buffer, toClient>>
      /\ running' = c /\ running = None /\ phase = "idle" /\ buffer = <<>>
      /\ status' = [status EXCEPT ![c] = "running"]
  BY DEF Dial, Start, Oldest, IInv, TypeOK, RunningCommandWaits
<1>2. /\ RepliesAreTheirOwn' /\ OnlyRejectedCommandsRunLate' /\ QueueIsSerial'
      /\ \A d \in Commands : Started(d) => Started(d)'
      /\ \A d \in Commands : status[d] = "rejected" => status'[d] = "rejected"
      /\ ~Started(c)
  BY <1>1, StartKeeps
<1>3. /\ conn[c] = "none" /\ toServer[c] = <<>> /\ toClient[c] = <<>> /\ greeted[c] = 0
      /\ conn \in [Commands -> {"none", "connecting", "open", "destroyed"}]
  BY <1>2 DEF IInv, TypeOK, UnopenedAreEmpty
<1>4. TypeOK'
  BY <1>1 DEF IInv, TypeOK, None, Commands
<1>5. UnopenedAreEmpty'
  <2>1. Started(c)'
    BY <1>1 DEF Started, IInv, TypeOK
  <2>2. QED
    BY <1>1, <1>2, <1>3, <2>1 DEF IInv, UnopenedAreEmpty
<1>6. OneRequestOnTheWire'
  <2>1. \A q \in Request : q.by # running /\ q.by \in Commands
    BY <1>1 DEF Request, None, Commands
  <2>2. QED
    BY <1>1, <1>2, <2>1 DEF IInv, OneRequestOnTheWire
<1>7. KeptSocketIsClean'
  BY <1>1, <1>3 DEF IInv, TypeOK, KeptSocketIsClean, SocketUsable
<1>8. RunningCommandWaits'
  BY <1>1, <1>3 DEF RunningCommandWaits, Listening
<1>9. QED
  BY <1>2, <1>4, <1>5, <1>6, <1>7, <1>8 DEF IInv

-----------------------------------------------------------------------------
(* The handshake and the replies. *)

\* What the running command listens to on an open connection.
LEMMA AnswerIsTheNext ==
  ASSUME IInv, Hear
  PROVE  /\ phase \in {"greeting", "sent"} /\ running \in Commands /\ line \in Commands
         /\ conn[line] = "open" /\ toServer[line] = <<>>
         /\ toClient' = [toClient EXCEPT ![line] = Tail(toClient[line])]
         /\ toClient' \in [Commands -> Seq(Chunk)]
         /\ Awaited \in Request
         /\ \E ok \in BOOLEAN :
              /\ Accepted(greeted[line] - Answered(ok))
              /\ Received[1] = Part(ok, Head(toClient[line]).ends) \/ Received[1] = Part(ok, FALSE)
              /\ IF Head(toClient[line]).ends
                 THEN toClient'[line] = <<>>
                 ELSE /\ Received = <<Part(ok, FALSE)>>
                      /\ toClient'[line] = <<Part(ok, TRUE)>>
<1>1. /\ phase \in {"greeting", "sent"} /\ running \in Commands /\ line \in Commands
      /\ conn[line] = "open" /\ toClient[line] # <<>> /\ Listening(line)
      /\ toClient' = [toClient EXCEPT ![line] = Tail(toClient[line])]
      /\ toClient \in [Commands -> Seq(Chunk)]
  BY DEF Hear, Listening, IInv, TypeOK
<1>2. toClient' \in [Commands -> Seq(Chunk)] /\ toClient'[line] = Tail(toClient[line])
  BY <1>1
<1>3. Awaited \in Request /\ \A ok, ends \in BOOLEAN : Part(ok, ends) \in Chunk
  BY <1>1, AwaitedIsARequest
<1>4. PICK ok \in BOOLEAN : AnswerUnderWay(ok) /\ Accepted(greeted[line] - Answered(ok))
  BY <1>1 DEF IInv, RunningCommandWaits, Unanswered
<1>5. DEFINE part == Part(ok, FALSE)
             rest == Part(ok, TRUE)
<1>6. part \in Chunk /\ rest \in Chunk /\ ~part.ends /\ rest.ends
  BY <1>3 DEF Part
<1>7. /\ Received[1] = Part(ok, Head(toClient[line]).ends) \/ Received[1] = Part(ok, FALSE)
      /\ IF Head(toClient[line]).ends
         THEN toClient'[line] = <<>>
         ELSE Received = <<part>> /\ toClient'[line] = <<rest>>
  <2>1. CASE buffer = <<>> /\ toClient[line] = <<rest>>
    <3>1. Head(toClient[line]) = rest /\ Tail(toClient[line]) = <<>> /\ Received = <<rest>>
      BY <2>1, <1>6, Short DEF Received
    <3>2. QED
      BY <3>1, <1>2, <1>6, Short
  <2>2. CASE buffer = <<>> /\ toClient[line] = <<part, rest>>
    <3>1. Head(<<part, rest>>) = part /\ Tail(<<part, rest>>) = <<rest>>
      <4> HIDE DEF part, rest
      <4>1. QED
        BY <1>6, Short
    <3>2. Append(<<>>, part) = <<part>> /\ <<part>>[1] = part
      BY <1>6, Short
    <3>3. Received = <<part>>
      BY <2>2, <3>1, <3>2 DEF Received
    <3>4. QED
      BY <2>2, <3>1, <3>2, <3>3, <1>2, <1>6
  <2>3. CASE buffer = <<part>> /\ toClient[line] = <<rest>>
    <3>1. Head(toClient[line]) = rest /\ Tail(toClient[line]) = <<>> /\ Received[1] = part
      BY <2>3, <1>6, Short DEF Received
    <3>2. QED
      BY <3>1, <1>2, <1>6
  <2>4. QED
    BY <1>4, <2>1, <2>2, <2>3 DEF AnswerUnderWay
<1>8. toServer[line] = <<>>
  BY <1>4 DEF AnswerUnderWay
<1>9. QED
  BY <1>1, <1>2, <1>3, <1>4, <1>7, <1>8

\* Bytes are read on connections on which nothing is awaited, or half a reply is.
LEMMA HearPartKeeps == ASSUME IInv, HearPart PROVE IInv'
<1>1. /\ Hear /\ ~Head(toClient[line]).ends /\ buffer' = Received
      /\ UNCHANGED <<promises, phase, greeting, line, current, conn, toServer, greeted, executed>>
  BY DEF HearPart
<1>2. /\ phase \in {"greeting", "sent"} /\ running \in Commands /\ line \in Commands
      /\ conn[line] = "open" /\ toServer[line] = <<>>
      /\ toClient' = [toClient EXCEPT ![line] = Tail(toClient[line])]
      /\ toClient' \in [Commands -> Seq(Chunk)]
  BY <1>1, AnswerIsTheNext
<1>3. PICK ok \in BOOLEAN : /\ Accepted(greeted[line] - Answered(ok))
                            /\ Received = <<Part(ok, FALSE)>>
                            /\ toClient'[line] = <<Part(ok, TRUE)>>
  BY <1>1, AnswerIsTheNext
<1>4. Part(ok, FALSE) \in Chunk
  BY <1>2, AwaitedIsARequest
<1>5. TypeOK'
  <2>1. buffer' \in Seq(Chunk)
    BY <1>1, <1>3, <1>4, Short
  <2>2. QED
    BY <1>1, <1>2, <2>1 DEF IInv, TypeOK, promises
<1>6. RepliesAreTheirOwn' /\ OnlyRejectedCommandsRunLate' /\ QueueIsSerial'
  BY <1>1, PromisesStay
<1>7. \A k \in Commands : k # line => toClient'[k] = toClient[k]
  BY <1>2 DEF IInv, TypeOK
<1>8. UnopenedAreEmpty' /\ OneRequestOnTheWire'
  BY <1>1, <1>2, <1>7 DEF IInv, UnopenedAreEmpty, OneRequestOnTheWire, promises, Started, Settled
<1>9. KeptSocketIsClean'
  BY <1>1, <1>2 DEF IInv, KeptSocketIsClean, SocketUsable
<1>10. RunningCommandWaits'
  <2>1. AnswerUnderWay(ok)' /\ Accepted(greeted[line] - Answered(ok))'
    BY <1>1, <1>2, <1>3 DEF AnswerUnderWay, Accepted, Answered, Part, Awaited, CommandOf, promises
  <2>2. QED
    BY <1>1, <1>2, <2>1 DEF IInv, RunningCommandWaits, Listening
<1>11. QED
  BY <1>5, <1>6, <1>8, <1>9, <1>10 DEF IInv

LEMMA HearErrorKeeps == ASSUME IInv, HearError PROVE IInv'
<1>1. /\ Hear /\ Head(toClient[line]).ends /\ Reject
      /\ UNCHANGED <<current, conn, toServer, greeted, executed>>
  BY DEF HearError
<1>2. /\ phase \in {"greeting", "sent"} /\ running \in Commands /\ line \in Commands
      /\ conn[line] = "open" /\ toServer[line] = <<>> /\ toClient'[line] = <<>>
      /\ toClient' = [toClient EXCEPT ![line] = Tail(toClient[line])]
      /\ toClient' \in [Commands -> Seq(Chunk)]
  BY <1>1, AnswerIsTheNext
<1>3. \A k \in Commands : k # line => toClient'[k] = toClient[k]
  BY <1>2 DEF IInv, TypeOK
<1>4. SocketUsable' => toServer[current] = <<>> /\ toClient'[current] = <<>>
  BY <1>1, <1>2 DEF IInv, KeptSocketIsClean, SocketUsable
<1>5. running # None
  BY <1>2 DEF None, Commands
<1>6. /\ conn' \in [Commands -> {"none", "connecting", "open", "destroyed"}]
      /\ \A k \in Commands : conn'[k] = conn[k]
      /\ \A k \in Commands : toClient[k] = <<>> => toClient'[k] = <<>>
  BY <1>1, <1>2, <1>3 DEF IInv, TypeOK
<1>7. QED
  BY <1>1, <1>2, <1>4, <1>5, <1>6, RejectKeeps

LEMMA HearReplyKeeps == ASSUME IInv, HearReply PROVE IInv'
<1>1. /\ Hear /\ Head(toClient[line]).ends /\ phase = "sent"
      /\ Settle("resolved", Received[1].of)
      /\ UNCHANGED <<current, conn, toServer, greeted, executed>>
  BY DEF HearReply
<1>2. /\ running \in Commands /\ line \in Commands
      /\ conn[line] = "open" /\ toServer[line] = <<>> /\ toClient'[line] = <<>>
      /\ toClient' = [toClient EXCEPT ![line] = Tail(toClient[line])]
      /\ toClient' \in [Commands -> Seq(Chunk)]
  BY <1>1, AnswerIsTheNext
<1>3. Received[1].of = CommandOf(running)
  <2>1. \E ok, ends \in BOOLEAN : Received[1] = Part(ok, ends)
    BY <1>1, AnswerIsTheNext
  <2>2. QED
    BY <1>1, <2>1 DEF Part, Awaited
<1>4. /\ running # None
      /\ running' = None /\ line' = None /\ phase' = "idle" /\ greeting' = <<>> /\ buffer' = <<>>
      /\ status' = [status EXCEPT ![running] = "resolved"]
      /\ answer' = [answer EXCEPT ![running] = CommandOf(running)]
  BY <1>1, <1>2, <1>3 DEF Settle, None, Commands
<1>5. /\ RepliesAreTheirOwn' /\ OnlyRejectedCommandsRunLate' /\ QueueIsSerial'
      /\ \A d \in Commands : Started(d) => Started(d)'
      /\ \A d \in Commands : status[d] = "rejected" => status'[d] = "rejected"
  BY <1>1, <1>3, <1>4, SettleKeeps
<1>6. TypeOK'
  <2>1. CommandOf(running) \in Request
    BY <1>2 DEF CommandOf, Request
  <2>2. QED
    BY <1>1, <1>2, <1>4, <2>1 DEF IInv, TypeOK
<1>7. \A k \in Commands : k # line => toClient'[k] = toClient[k]
  BY <1>2 DEF IInv, TypeOK
<1>8. UnopenedAreEmpty'
  BY <1>1, <1>2, <1>5, <1>7 DEF IInv, UnopenedAreEmpty
<1>9. OneRequestOnTheWire'
  <2>1. \A q \in Request : q.by \in Commands
    BY DEF Request
  <2>2. QED
    BY <1>1, <1>2, <1>5, <2>1 DEF IInv, OneRequestOnTheWire
<1>10. KeptSocketIsClean'
  BY <1>1, <1>2, <1>4 DEF IInv, KeptSocketIsClean, SocketUsable
<1>11. RunningCommandWaits'
  BY <1>4 DEF RunningCommandWaits, Listening
<1>12. QED
  BY <1>5, <1>6, <1>8, <1>9, <1>10, <1>11 DEF IInv

LEMMA UnheardKeeps == ASSUME IInv, NEW k \in Commands, Unheard(k) PROVE IInv'
<1>1. /\ conn[k] = "open" /\ toClient[k] # <<>> /\ ~Listening(k)
      /\ toClient' = [toClient EXCEPT ![k] = Tail(toClient[k])]
      /\ toClient \in [Commands -> Seq(Chunk)]
      /\ UNCHANGED <<promises, phase, greeting, line, current, conn, toServer, greeted, executed, buffer>>
  BY DEF Unheard, IInv, TypeOK
<1>2. /\ toClient' \in [Commands -> Seq(Chunk)]
      /\ \A c \in Commands : c # k => toClient'[c] = toClient[c]
  BY <1>1
<1>3. TypeOK'
  BY <1>1, <1>2 DEF IInv, TypeOK, promises
<1>4. RepliesAreTheirOwn' /\ OnlyRejectedCommandsRunLate' /\ QueueIsSerial'
  BY <1>1, PromisesStay
<1>5. UnopenedAreEmpty' /\ OneRequestOnTheWire'
  BY <1>1, <1>2 DEF IInv, UnopenedAreEmpty, OneRequestOnTheWire, promises, Started, Settled
<1>6. KeptSocketIsClean'
  BY <1>1, <1>2 DEF IInv, TypeOK, KeptSocketIsClean, SocketUsable
<1>7. RunningCommandWaits'
  <2>1. Listening(line) => line \in Commands /\ line # k
    BY <1>1 DEF Listening, IInv, TypeOK
  <2>2. QED
    BY <1>1, <1>2, <2>1 DEF IInv, RunningCommandWaits, Listening, promises, Awaited, Part,
       Unanswered, AnswerUnderWay, Accepted, Answered, CommandOf
<1>8. QED
  BY <1>3, <1>4, <1>5, <1>6, <1>7 DEF IInv

\* The next step of the handshake, or the command once there is none, is written on a
\* connection that has answered everything.
LEMMA ProceedKeeps ==
  ASSUME IInv, running \in Commands, line \in Commands, UNCHANGED <<promises, line, greeted, executed>>,
         NEW rest \in Seq({"AUTH", "SELECT"}), greeting' = rest, Proceed(rest),
         greeted[line] + Len(rest) = Len(Handshake),
         toServer[line] = <<>>, toClient'[line] = <<>>, buffer' = <<>>,
         ~SocketUsable,
         conn' \in [Commands -> {"none", "connecting", "open", "destroyed"}],
         toClient' \in [Commands -> Seq(Chunk)],
         \A k \in Commands : k # line => conn'[k] = conn[k] /\ toClient'[k] = toClient[k],
         conn'[line] = "open", conn[line] \in {"connecting", "open"}
  PROVE  IInv'
<1>1. running' = running /\ line' = line /\ running # None /\ line # None
  BY DEF promises, None, Commands
<1>2. greeted \in [Commands -> Nat] /\ greeted[line] \in Nat /\ Len(rest) \in Nat
      /\ Len(Handshake) \in Nat
  BY HandshakeAssumption DEF IInv, TypeOK
<1>3. RepliesAreTheirOwn' /\ OnlyRejectedCommandsRunLate' /\ QueueIsSerial'
  BY PromisesStay
<1>4. \A k \in Commands : status[k] = "rejected" => status'[k] = "rejected"
  BY DEF promises
<1>5. PICK q \in Request :
        /\ q = Awaited' /\ q.by = running /\ Write(line, q)
        /\ phase' \in {"greeting", "sent"}
        /\ phase' = "greeting" => rest # <<>> /\ UNCHANGED current /\ q.step # "command"
        /\ phase' = "sent" => rest = <<>> /\ current' = line /\ q.step = "command"
  <2>1. CASE rest = <<>>
    <3>1. phase' = "sent" /\ current' = line /\ Write(line, CommandOf(running))
      BY <2>1 DEF Proceed
    <3>2. CommandOf(running) \in Request
      BY DEF CommandOf, Request
    <3>3. CommandOf(running) = Awaited'
      BY <3>1, <1>1 DEF Awaited, CommandOf
    <3>4. QED
      BY <2>1, <3>1, <3>2, <3>3 DEF CommandOf
  <2>2. CASE rest # <<>>
    <3>1. /\ phase' = "greeting" /\ UNCHANGED current
          /\ Write(line, [step |-> Head(rest), by |-> running])
      BY <2>2 DEF Proceed
    <3>2. Head(rest) \in {"AUTH", "SELECT"}
      BY <2>2
    <3>3. [step |-> Head(rest), by |-> running] \in Request
      BY <3>2 DEF Request
    <3>4. [step |-> Head(rest), by |-> running] = Awaited'
      BY <3>1, <1>1 DEF Awaited
    <3>5. QED
      BY <2>2, <3>1, <3>2, <3>3, <3>4
  <2>3. QED
    BY <2>1, <2>2
<1>6. IF q.step = "command" THEN greeted[line] = Len(Handshake) ELSE greeted[line] < Len(Handshake)
  BY <1>2, <1>5
<1>7. /\ toServer' \in [Commands -> Seq(Request)] /\ toServer'[line] = <<q>>
      /\ \A k \in Commands : k # line => toServer'[k] = toServer[k]
      /\ OneRequestOnTheWire'
  BY <1>1, <1>2, <1>4, <1>5, <1>6, WriteKeepsOneRequest
<1>8. TypeOK'
  <2>1. /\ current' \in Commands \cup {None}
        /\ running' = None <=> line' = None
        /\ running' = None <=> phase' = "idle"
    BY <1>1, <1>5 DEF IInv, TypeOK
  <2>2. buffer' \in Seq(Chunk) /\ phase' \in {"idle", "connecting", "greeting", "sent"}
    BY <1>5
  <2>3. QED
    BY <1>7, <2>1, <2>2 DEF IInv, TypeOK, promises
<1>9. UnopenedAreEmpty'
  BY <1>1, <1>7 DEF IInv, UnopenedAreEmpty, promises, Started, Settled
<1>10. KeptSocketIsClean'
  <2>1. CASE phase' = "sent"
    BY <2>1, <1>1, <1>2, <1>5, <1>6 DEF KeptSocketIsClean, SocketUsable
  <2>2. CASE phase' = "greeting"
    <3>1. current' = current /\ (current # None => conn[current] \in {"open", "destroyed"})
          /\ current \in Commands \cup {None}
      BY <2>2, <1>5 DEF IInv, TypeOK, KeptSocketIsClean
    <3>2. QED
      BY <3>1, <2>2 DEF KeptSocketIsClean, SocketUsable
  <2>3. QED
    BY <1>5, <2>1, <2>2
<1>11. RunningCommandWaits'
  <2>1. Unanswered'
    BY <1>1, <1>5, <1>7 DEF Unanswered
  <2>2. Accepted(greeted[line])'
    BY <1>1, <1>2, <1>5, <1>6 DEF Accepted
  <2>3. QED
    BY <1>1, <1>5, <2>1, <2>2 DEF RunningCommandWaits, Listening
<1>12. QED
  BY <1>3, <1>7, <1>8, <1>9, <1>10, <1>11 DEF IInv

LEMMA ConnectedKeeps == ASSUME IInv, Connected PROVE IInv'
<1>1. /\ phase = "connecting" /\ conn' = [conn EXCEPT ![line] = "open"]
      /\ greeting' = Handshake /\ Proceed(Handshake)
      /\ UNCHANGED <<promises, line, toClient, greeted, executed, buffer>>
      /\ running \in Commands /\ line \in Commands /\ buffer = <<>>
      /\ conn[line] = "connecting" /\ ~SocketUsable
  BY DEF Connected, IInv, TypeOK, RunningCommandWaits, KeptSocketIsClean
<1>2. toServer[line] = <<>> /\ toClient[line] = <<>> /\ greeted[line] = 0
  BY <1>1 DEF IInv, UnopenedAreEmpty
<1>3. greeted[line] + Len(Handshake) = Len(Handshake)
  BY <1>2, HandshakeAssumption
<1>4. /\ conn' \in [Commands -> {"none", "connecting", "open", "destroyed"}]
      /\ toClient' \in [Commands -> Seq(Chunk)]
      /\ conn'[line] = "open" /\ \A k \in Commands : k # line => conn'[k] = conn[k]
  BY <1>1 DEF IInv, TypeOK
<1>5. QED
  BY <1>1, <1>2, <1>3, <1>4, ProceedKeeps, HandshakeAssumption

LEMMA HearGreetingKeeps == ASSUME IInv, HearGreeting PROVE IInv'
<1>1. /\ Hear /\ phase = "greeting" /\ Head(toClient[line]).ends /\ Received[1].ok
      /\ greeting' = Tail(greeting) /\ buffer' = <<>> /\ Proceed(Tail(greeting))
      /\ UNCHANGED <<promises, line, conn, greeted, executed>>
  BY DEF HearGreeting
<1>2. /\ running \in Commands /\ line \in Commands
      /\ conn[line] = "open" /\ toServer[line] = <<>> /\ toClient'[line] = <<>>
      /\ toClient' = [toClient EXCEPT ![line] = Tail(toClient[line])]
      /\ toClient' \in [Commands -> Seq(Chunk)]
  BY <1>1, AnswerIsTheNext
<1>3. \A k \in Commands : k # line => toClient'[k] = toClient[k]
  BY <1>2 DEF IInv, TypeOK
<1>4. greeting \in Seq({"AUTH", "SELECT"}) /\ greeting # <<>> /\ ~SocketUsable
      /\ greeted[line] \in Nat /\ conn \in [Commands -> {"none", "connecting", "open", "destroyed"}]
  BY <1>1, <1>2, HandshakeAssumption DEF IInv, TypeOK, RunningCommandWaits, KeptSocketIsClean
<1>5. Tail(greeting) \in Seq({"AUTH", "SELECT"}) /\ Len(Tail(greeting)) = Len(greeting) - 1
      /\ Len(greeting) \in Nat
  BY <1>4
<1>6. greeted[line] + Len(Tail(greeting)) = Len(Handshake)
  <2>1. PICK ok \in BOOLEAN :
          /\ Accepted(greeted[line] - Answered(ok))
          /\ Received[1] = Part(ok, Head(toClient[line]).ends) \/ Received[1] = Part(ok, FALSE)
    BY <1>1, AnswerIsTheNext
  <2>2. ok = TRUE
    BY <1>1, <2>1 DEF Part
  <2>3. Accepted(greeted[line] - 1)
    BY <1>1, <2>1, <2>2 DEF Answered
  <2>4. greeted[line] - 1 + Len(greeting) = Len(Handshake)
    BY <1>1, <2>3 DEF Accepted
  <2>5. QED
    BY <2>4, <1>4, <1>5, HandshakeAssumption
<1>7. QED
  BY <1>1, <1>2, <1>3, <1>4, <1>5, <1>6, ProceedKeeps

-----------------------------------------------------------------------------
(* The server. *)

\* The server executes a request, which may be late: then its command was rejected.
LEMMA ExecuteKeeps == ASSUME IInv, NEW k \in Commands, Execute(k) PROVE IInv'
<1>1. PICK q \in Request :
        /\ toServer[k] = <<q>>
        /\ q.step # "command" => greeted[k] < Len(Handshake)
        /\ q.step = "command" =>
             /\ greeted[k] = Len(Handshake)
             /\ (q.by = running /\ k = line) \/ status[q.by] = "rejected"
  BY DEF Execute, IInv, OneRequestOnTheWire
<1>2. Head(toServer[k]) = q /\ Tail(toServer[k]) = <<>> /\ toServer[k] # <<>>
  BY <1>1, Short
<1>3. q.by \in Commands /\ q.step \in {"AUTH", "SELECT", "command"}
  BY DEF Request
<1>4. PICK ok \in BOOLEAN, split \in BOOLEAN :
        /\ greeted' = [greeted EXCEPT ![k] = IF ok /\ q.step # "command" THEN greeted[k] + 1 ELSE greeted[k]]
        /\ toClient' = IF conn[k] = "open"
                       THEN [toClient EXCEPT ![k] = toClient[k] \o Reply(q, ok, split)]
                       ELSE toClient
  BY <1>2 DEF Execute
<1>5. /\ toServer' = [toServer EXCEPT ![k] = <<>>]
      /\ executed' = IF q.step = "command" THEN Append(executed, q.by) ELSE executed
      /\ UNCHANGED <<promises, phase, greeting, line, current, conn, buffer>>
  BY <1>2 DEF Execute
<1>6. \A ends \in BOOLEAN : [of |-> q, ok |-> ok, ends |-> ends] \in Chunk
  BY DEF Chunk
<1>7. Reply(q, ok, split) \in Seq(Chunk)
  BY <1>6, Short DEF Reply
<1>8. /\ toServer' \in [Commands -> Seq(Request)]
      /\ toServer'[k] = <<>>
      /\ \A c \in Commands : c # k => toServer'[c] = toServer[c]
  BY <1>5 DEF IInv, TypeOK
<1>9. /\ toClient' \in [Commands -> Seq(Chunk)]
      /\ conn[k] = "open" => toClient'[k] = toClient[k] \o Reply(q, ok, split)
      /\ \A c \in Commands : c # k => toClient'[c] = toClient[c]
  <2>1. toClient \in [Commands -> Seq(Chunk)]
    BY DEF IInv, TypeOK
  <2>2. toClient[k] \o Reply(q, ok, split) \in Seq(Chunk)
    BY <1>7, <2>1
  <2>3. CASE conn[k] = "open"
    <3>1. toClient' = [toClient EXCEPT ![k] = toClient[k] \o Reply(q, ok, split)]
      BY <1>4, <2>3
    <3>2. QED
      BY <2>1, <2>2, <2>3, <3>1
  <2>4. CASE conn[k] # "open"
    <3>1. toClient' = toClient
      BY <1>4, <2>4
    <3>2. QED
      BY <2>1, <2>4, <3>1
  <2>5. QED
    BY <2>3, <2>4
<1>10. /\ greeted' \in [Commands -> 0 .. Len(Handshake)]
       /\ greeted'[k] = IF ok /\ q.step # "command" THEN greeted[k] + 1 ELSE greeted[k]
       /\ \A c \in Commands : c # k => greeted'[c] = greeted[c]
  <2>1. greeted \in [Commands -> 0 .. Len(Handshake)]
    BY DEF IInv, TypeOK
  <2>2. CASE ok /\ q.step # "command"
    <3>1. greeted' = [greeted EXCEPT ![k] = greeted[k] + 1]
      BY <1>4, <2>2
    <3>2. greeted[k] + 1 \in 0 .. Len(Handshake)
      BY <1>1, <2>1, <2>2, HandshakeAssumption
    <3>3. QED
      BY <2>1, <2>2, <3>1, <3>2
  <2>3. CASE ~(ok /\ q.step # "command")
    <3>1. greeted' = greeted
      BY <1>4, <2>1, <2>3
    <3>2. QED
      BY <2>1, <2>3, <3>1
  <2>4. QED
    BY <2>2, <2>3
<1>11. q.step = "command" => Started(q.by)
  <2>1. running = q.by => status[q.by] = "running"
    BY <1>3 DEF IInv, QueueIsSerial
  <2>2. QED
    BY <1>1, <2>1 DEF Started, Settled
<1>12. /\ executed \in Seq(Commands) /\ executed' \in Seq(Commands)
       /\ \A i \in 1 .. Len(executed') : i \notin 1 .. Len(executed) =>
            q.step = "command" /\ i = Len(executed) + 1 /\ executed'[i] = q.by
       /\ \A i \in 1 .. Len(executed) : i \in 1 .. Len(executed') /\ executed'[i] = executed[i]
       /\ DOMAIN executed' = 1 .. Len(executed') /\ DOMAIN executed = 1 .. Len(executed)
  <2>1. executed \in Seq(Commands) /\ DOMAIN executed = 1 .. Len(executed)
    BY DEF IInv, TypeOK
  <2>2. CASE q.step = "command"
    <3>1. executed' = Append(executed, q.by)
      BY <1>5, <2>2
    <3>2. /\ executed' \in Seq(Commands) /\ Len(executed') = Len(executed) + 1
          /\ executed'[Len(executed) + 1] = q.by
          /\ \A i \in 1 .. Len(executed) : executed'[i] = executed[i]
      BY <1>3, <2>1, <3>1
    <3>3. DOMAIN executed' = 1 .. Len(executed') /\ Len(executed) \in Nat
      BY <2>1, <3>2
    <3>4. QED
      BY <2>1, <2>2, <3>2, <3>3
  <2>3. CASE q.step # "command"
    <3>1. executed' = executed
      BY <1>5, <2>3
    <3>2. QED
      BY <2>1, <3>1
  <2>4. QED
    BY <2>2, <2>3
<1>13. TypeOK'
  BY <1>5, <1>8, <1>9, <1>10, <1>12 DEF IInv, TypeOK, promises
<1>14. RepliesAreTheirOwn'
  BY <1>5 DEF IInv, RepliesAreTheirOwn, promises
<1>15. QueueIsSerial'
  <2>1. \A i \in 1 .. Len(executed') : Started(executed'[i])
    BY <1>11, <1>12 DEF IInv, QueueIsSerial
  <2>2. QED
    BY <1>5, <2>1 DEF IInv, QueueIsSerial, Started, Settled, promises
<1>16. OnlyRejectedCommandsRunLate'
  <2>1. SUFFICES ASSUME NEW i \in 1 .. Len(executed'), NEW j \in 1 .. Len(executed'),
                        i < j, executed'[i] > executed'[j]
                 PROVE  status[executed'[j]] = "rejected"
    BY <1>5, <1>12 DEF OnlyRejectedCommandsRunLate, promises
  <2>2. CASE j \in 1 .. Len(executed)
    <3>1. i \in 1 .. Len(executed)
      BY <2>1, <2>2, <1>12
    <3>2. QED
      BY <2>1, <2>2, <3>1, <1>12 DEF IInv, OnlyRejectedCommandsRunLate
  <2>3. CASE j \notin 1 .. Len(executed)
    <3>1. q.step = "command" /\ j = Len(executed) + 1 /\ executed'[j] = q.by
      BY <1>12, <2>3
    <3>2. i \in 1 .. Len(executed) /\ executed[i] > q.by /\ executed[i] \in Commands
      BY <1>12, <2>1, <3>1
    <3>3. Started(executed[i])
      BY <3>2 DEF IInv, QueueIsSerial
    <3>4. Settled(q.by)
      BY <1>3, <3>2, <3>3, MaxCommandsAssumption DEF IInv, QueueIsSerial, Commands
    <3>5. q.by # running
      BY <1>3, <3>4 DEF IInv, QueueIsSerial, Settled
    <3>6. QED
      BY <1>1, <3>1, <3>5
  <2>4. QED
    BY <2>2, <2>3
<1>17. UnopenedAreEmpty'
  <2>1. conn[k] \notin {"none", "connecting"}
    BY <1>1, Short DEF IInv, UnopenedAreEmpty
  <2>2. QED
    BY <1>5, <1>8, <1>9, <1>10, <2>1 DEF IInv, UnopenedAreEmpty, promises, Started, Settled
<1>18. OneRequestOnTheWire'
  BY <1>5, <1>8, <1>10 DEF IInv, OneRequestOnTheWire, promises
\* On an open connection that is listened to, the request is the one awaited.
<1>19. Listening(line) /\ k = line /\ conn[line] = "open" =>
         /\ q = Awaited /\ toClient[line] = <<>> /\ buffer = <<>> /\ Accepted(greeted[line])
  <2>1. SUFFICES ASSUME Listening(line), k = line, conn[line] = "open"
                 PROVE  Unanswered /\ Accepted(greeted[line]) /\ q = Awaited
    BY DEF Unanswered
  <2>2. Unanswered /\ Accepted(greeted[line])
    <3>1. \A o \in BOOLEAN : ~AnswerUnderWay(o)
      BY <1>2, <2>1 DEF AnswerUnderWay
    <3>2. QED
      BY <2>1, <3>1 DEF IInv, RunningCommandWaits
  <2>3. <<q>> = <<Awaited>>
    BY <1>1, <2>1, <2>2 DEF Unanswered
  <2>4. QED
    BY <2>2, <2>3
<1>20. phase = "sent" <=> (phase \in {"greeting", "sent"} /\ Awaited.step = "command")
  <2>1. phase = "greeting" => Head(greeting) \in {"AUTH", "SELECT"}
    BY DEF IInv, TypeOK, RunningCommandWaits
  <2>2. QED
    BY <2>1 DEF Awaited, CommandOf
<1>21. KeptSocketIsClean'
  <2>1. SUFFICES ASSUME SocketUsable, k = current
                 PROVE  phase = "sent" /\ line = current /\ greeted'[current] = Len(Handshake)
    BY <1>5, <1>8, <1>9, <1>10 DEF IInv, KeptSocketIsClean, SocketUsable, TypeOK
  <2>2. phase = "sent" /\ line = current /\ greeted[current] = Len(Handshake)
    BY <1>2, <2>1 DEF IInv, KeptSocketIsClean
  <2>3. q.step = "command"
    BY <2>1, <2>2, <1>19, <1>20 DEF Listening, SocketUsable
  <2>4. QED
    BY <2>1, <2>2, <2>3, <1>10
<1>22. RunningCommandWaits'
  <2>1. CASE ~Listening(line) \/ conn[line] # "open"
    BY <2>1, <1>5 DEF IInv, RunningCommandWaits, Listening
  <2>2. CASE Listening(line) /\ k # line
    <3>1. line \in Commands
      BY <2>2 DEF Listening, IInv, TypeOK
    <3>2. QED
      BY <2>2, <3>1, <1>5, <1>8, <1>9, <1>10 DEF IInv, RunningCommandWaits, Listening, promises,
         Awaited, Part, Unanswered, AnswerUnderWay, Accepted, Answered, CommandOf
  <2>3. CASE Listening(line) /\ k = line /\ conn[line] = "open"
    <3>1. q = Awaited /\ toClient[line] = <<>> /\ buffer = <<>> /\ Accepted(greeted[line])
      BY <2>3, <1>19
    <3>2. Part(ok, TRUE) \in Chunk /\ Part(ok, FALSE) \in Chunk
      BY <3>1, <1>6 DEF Part
    <3>3. Reply(q, ok, split) = IF split THEN <<Part(ok, FALSE), Part(ok, TRUE)>> ELSE <<Part(ok, TRUE)>>
      BY <3>1 DEF Reply, Part
    <3>4. toClient'[line] = Reply(q, ok, split)
      <4>1. <<>> \o Reply(q, ok, split) = Reply(q, ok, split)
        BY <1>7
      <4>2. QED
        BY <2>3, <3>1, <4>1, <1>9
    <3>5. AnswerUnderWay(ok)'
      BY <2>3, <3>1, <3>3, <3>4, <1>5, <1>8 DEF AnswerUnderWay, Part, Awaited, CommandOf, promises
    <3>6. greeted[line] \in Nat /\ greeted'[line] - Answered(ok) = greeted[line]
      <4>1. Answered(ok) = IF ok /\ q.step # "command" THEN 1 ELSE 0
        BY <2>3, <3>1, <1>20 DEF Answered, Listening
      <4>2. greeted[line] \in Nat
        BY <2>3, HandshakeAssumption DEF IInv, TypeOK
      <4>3. QED
        BY <4>1, <4>2, <2>3, <1>10
    <3>7. Accepted(greeted[line] - Answered(ok))'
      BY <3>1, <3>6, <1>5 DEF Accepted, Answered
    <3>8. phase \in {"greeting", "sent"} /\ (phase = "greeting" => greeting # <<>>)
      BY <2>3 DEF Listening, IInv, RunningCommandWaits
    <3>9. \E o \in BOOLEAN : AnswerUnderWay(o)' /\ Accepted(greeted[line] - Answered(o))'
      BY <3>5, <3>7
    <3>10. QED
      BY <2>3, <3>8, <3>9, <1>5 DEF RunningCommandWaits
  <2>4. QED
    BY <2>1, <2>2, <2>3
<1>23. QED
  BY <1>13, <1>14, <1>15, <1>16, <1>17, <1>18, <1>21, <1>22 DEF IInv

LEMMA LoseBytesKeeps == ASSUME IInv, NEW k \in Commands, LoseBytes(k) PROVE IInv'
<1>1. /\ conn[k] = "destroyed" /\ toServer' = [toServer EXCEPT ![k] = <<>>]
      /\ UNCHANGED <<promises, phase, greeting, line, current, conn, toClient, greeted, executed, buffer>>
  BY DEF LoseBytes
<1>2. /\ toServer' \in [Commands -> Seq(Request)]
      /\ toServer'[k] = <<>>
      /\ \A c \in Commands : c # k => toServer'[c] = toServer[c]
  BY <1>1 DEF IInv, TypeOK
<1>3. TypeOK'
  BY <1>1, <1>2 DEF IInv, TypeOK, promises
<1>4. RepliesAreTheirOwn' /\ OnlyRejectedCommandsRunLate' /\ QueueIsSerial'
  BY <1>1, PromisesStay
<1>5. UnopenedAreEmpty' /\ OneRequestOnTheWire'
  BY <1>1, <1>2 DEF IInv, UnopenedAreEmpty, OneRequestOnTheWire, promises, Started, Settled
<1>6. KeptSocketIsClean'
  BY <1>1, <1>2 DEF IInv, TypeOK, KeptSocketIsClean, SocketUsable
<1>7. RunningCommandWaits'
  <2>1. Listening(line) /\ conn[line] = "open" => line \in Commands /\ line # k
    BY <1>1 DEF Listening, IInv, TypeOK
  <2>2. QED
    BY <1>1, <1>2, <2>1 DEF IInv, RunningCommandWaits, Listening, promises, Awaited, Part,
       Unanswered, AnswerUnderWay, Accepted, Answered, CommandOf
<1>8. QED
  BY <1>3, <1>4, <1>5, <1>6, <1>7 DEF IInv

LEMMA StutterKeeps == ASSUME IInv, UNCHANGED vars PROVE IInv'
<1>1. UNCHANGED <<status, answer, running, phase, greeting, line, current, conn,
                  toServer, toClient, greeted, executed, buffer>>
  BY DEF vars, promises, wires
<1>2. TypeOK' /\ UnopenedAreEmpty' /\ OneRequestOnTheWire' /\ KeptSocketIsClean'
  BY <1>1 DEF IInv, TypeOK, UnopenedAreEmpty, OneRequestOnTheWire, KeptSocketIsClean,
         SocketUsable, Started, Settled
<1>3. RepliesAreTheirOwn' /\ OnlyRejectedCommandsRunLate' /\ QueueIsSerial'
  BY <1>1, PromisesStay DEF promises
<1>4. RunningCommandWaits'
  BY <1>1 DEF IInv, RunningCommandWaits, Listening, Awaited, Part,
         Unanswered, AnswerUnderWay, Accepted, Answered, CommandOf
<1>5. QED
  BY <1>2, <1>3, <1>4 DEF IInv

LEMMA StepInv == IInv /\ [Next]_vars => IInv'
<1>1. SUFFICES ASSUME IInv, [Next]_vars PROVE IInv'
  OBVIOUS
<1>2. CASE ClientStep
  BY <1>1, <1>2, WriteOnSocketKeeps, DialKeeps, ConnectedKeeps, HearPartKeeps, HearGreetingKeeps,
     HearReplyKeeps, HearErrorKeeps, NoticeCloseKeeps DEF ClientStep
<1>3. CASE TimerStep
  BY <1>1, <1>3, DialTimeoutKeeps, GreetingTimeoutKeeps, CommandTimeoutKeeps DEF TimerStep
<1>4. CASE Environment
  BY <1>1, <1>4, DialRefusedKeeps, SubmitKeeps, UnheardKeeps, ConnectionErrorKeeps,
     PeerClosesKeeps, ExecuteKeeps, LoseBytesKeeps DEF Environment
<1>5. CASE UNCHANGED vars
  BY <1>1, <1>5, StutterKeeps
<1>6. QED
  BY <1>1, <1>2, <1>3, <1>4, <1>5 DEF Next

-----------------------------------------------------------------------------
\* On every connection at most one request is unanswered, and it is the running
\* command's or that of one that was rejected, in every reachable state.
THEOREM Invariance == Spec => []IInv
BY InitInv, StepInv, PTL DEF Spec

\* Every reachable state is typed.
THEOREM TypeCorrect == Spec => []TypeOK
<1>1. IInv => TypeOK
  BY DEF IInv
<1>2. QED
  BY <1>1, Invariance, PTL

\* However commands time out and connections fail, are refused or are left half
\* open, no promise resolves with the reply to another request.
THEOREM RepliesCorrect == Spec => []RepliesAreTheirOwn
<1>1. IInv => RepliesAreTheirOwn
  BY DEF IInv
<1>2. QED
  BY <1>1, Invariance, PTL

\* The server executes what was issued later first only if the promise of the
\* earlier command was rejected, on as many connections as there ever are.
THEOREM LateCommandsCorrect == Spec => []OnlyRejectedCommandsRunLate
<1>1. IInv => OnlyRejectedCommandsRunLate
  BY DEF IInv
<1>2. QED
  BY <1>1, Invariance, PTL

\* No command is written on a connection before the server has accepted each step
\* of the handshake on it.
THEOREM HandshakeCorrect == Spec => []CommandsFollowTheHandshake
<1>1. IInv => CommandsFollowTheHandshake
  <2>1. SUFFICES ASSUME IInv, NEW k \in Commands, NEW i \in DOMAIN toServer[k],
                        toServer[k][i].step = "command"
                 PROVE  greeted[k] = Len(Handshake)
    BY DEF CommandsFollowTheHandshake
  <2>2. toServer[k] # <<>>
    BY <2>1
  <2>3. PICK q \in Request : /\ toServer[k] = <<q>>
                             /\ q.step = "command" => greeted[k] = Len(Handshake)
    BY <2>1, <2>2 DEF IInv, OneRequestOnTheWire
  <2>4. i = 1 /\ toServer[k][i] = q
    BY <2>1, <2>3
  <2>5. QED
    BY <2>1, <2>3, <2>4
<1>2. QED
  BY <1>1, Invariance, PTL

-----------------------------------------------------------------------------
(* RateLimit: a counter lets through no more than it counts since it was   *)
(* opened, and no more than the limit before that.  Once it expires, it    *)
(* has been open for a whole window.                                       *)

\* What a counter that is at `count`, with `left` ticks to its expiry, has let through:
\* no more than it counts since it was opened, and as much as another before it.
Within(count) == IF count > Limit THEN Limit ELSE count
Bounded(window, count, left) ==
  /\ \A a \in Ages : window[a] <= Limit + Within(count)
  /\ \A a \in Ages : a + left < Ttl => window[a] <= Within(count)

\* A record that has expired counts nothing.
LocalCount(s) == IF localLeft[s] = 0 THEN 0 ELSE localHits[s]
LocalExpiry(s) == IF localLeft[s] = 0 THEN NoExpiry ELSE localLeft[s]

KeyIsBounded == Bounded(granted, hits, ttl)
RecordsAreBounded ==
  \A s \in Servers : Bounded(localGranted[s], LocalCount(s), LocalExpiry(s))

RateInv == RateTypeOK /\ CountingKeysExpire /\ KeyIsBounded /\ RecordsAreBounded

\* A count kept at Limit + 1 still tells the first hit, and no hit, from the others.
LEMMA CountsStay ==
  ASSUME NEW n \in 0 .. Limit + 1
  PROVE  /\ Capped(n + 1) \in 1 .. Limit + 1
         /\ n # 0 => Capped(n + 1) # 1
         /\ n = 0 => Capped(n + 1) = 1
BY LimitAssumption DEF Capped

\* One hit more, and let through only if it is counted within the limit.
LEMMA AdmitIsBounded ==
  ASSUME NEW w \in [Ages -> Nat], NEW n \in 0 .. Limit + 1, NEW l \in 1 .. NoExpiry,
         Bounded(w, n, l)
  PROVE  /\ Admit(w, Capped(n + 1)) \in [Ages -> Nat]
         /\ Bounded(Admit(w, Capped(n + 1)), Capped(n + 1), l)
         /\ Bounded(w, Capped(n + 1), l)
<1>1. CASE n < Limit
  <2>1. Capped(n + 1) = n + 1 /\ Within(n + 1) = n + 1 /\ Within(n) = n
    BY <1>1, LimitAssumption DEF Capped, Within
  <2>2. Admit(w, n + 1) = [a \in Ages |-> w[a] + 1]
    BY <1>1, LimitAssumption DEF Admit
  <2>3. \A a \in Ages : /\ w[a] \in Nat /\ a \in Nat
                        /\ w[a] <= Limit + n /\ (a + l < Ttl => w[a] <= n)
    BY <2>1 DEF Bounded, Ages
  <2>4. Admit(w, n + 1) \in [Ages -> Nat]
    BY <2>2, <2>3
  <2>5. Bounded(Admit(w, n + 1), n + 1, l) /\ Bounded(w, n + 1, l)
    BY <2>1, <2>2, <2>3, LimitAssumption DEF Bounded
  <2>6. QED
    BY <2>1, <2>4, <2>5
<1>2. CASE n >= Limit
  <2>1. Capped(n + 1) = Limit + 1 /\ Within(Limit + 1) = Limit /\ Within(n) = Limit
    BY <1>2, LimitAssumption DEF Capped, Within
  <2>2. Admit(w, Limit + 1) = w
    BY LimitAssumption DEF Admit
  <2>3. QED
    BY <2>1, <2>2 DEF Bounded
<1>3. QED
  BY <1>1, <1>2, LimitAssumption

\* A tick later: the counter that expires had let through no more than the limit.
LEMMA LaterIsBounded ==
  ASSUME NEW w \in [Ages -> Nat], NEW n \in 0 .. Limit + 1, NEW l \in 1 .. NoExpiry,
         Bounded(w, n, l)
  PROVE  /\ Later(w) \in [Ages -> Nat]
         /\ Bounded(Later(w), IF l = 1 THEN 0 ELSE n,
                    IF l \in {1, NoExpiry} THEN NoExpiry ELSE l - 1)
<1>1. \A a \in Ages : /\ a \in Nat /\ w[a] \in Nat /\ Later(w)[a] \in Nat
                      /\ a = 0 => Later(w)[a] = 0
                      /\ a # 0 => a - 1 \in Ages /\ Later(w)[a] = w[a - 1]
  BY LimitAssumption DEF Later, Ages
<1>2. Later(w) \in [Ages -> Nat]
  BY <1>1 DEF Later
<1>3. Within(n) \in 0 .. Limit /\ Within(0) = 0
  BY LimitAssumption DEF Within
<1>4. ASSUME NEW a \in Ages
      PROVE  /\ Later(w)[a] <= Limit + Within(n)
             /\ a - 1 + l < Ttl => Later(w)[a] <= Within(n)
  BY <1>1, <1>3, <1>4, LimitAssumption DEF Bounded
<1>5. CASE l = 1
  <2>1. \A a \in Ages : Later(w)[a] <= Limit
    BY <1>1, <1>3, <1>4, <1>5, LimitAssumption DEF Ages
  <2>2. \A a \in Ages : ~(a + NoExpiry < Ttl)
    BY LimitAssumption DEF Ages, NoExpiry
  <2>3. Bounded(Later(w), 0, NoExpiry)
    BY <1>3, <2>1, <2>2, LimitAssumption DEF Bounded
  <2>4. QED
    BY <1>2, <1>5, <2>3
<1>6. CASE l = NoExpiry
  <2>1. \A a \in Ages : ~(a + NoExpiry < Ttl)
    BY LimitAssumption DEF Ages, NoExpiry
  <2>2. Bounded(Later(w), n, NoExpiry)
    BY <1>4, <2>1 DEF Bounded
  <2>3. l # 1
    BY <1>6, LimitAssumption DEF NoExpiry
  <2>4. QED
    BY <1>2, <1>6, <2>2, <2>3
<1>7. CASE l # 1 /\ l # NoExpiry
  <2>1. \A a \in Ages : a + (l - 1) = a - 1 + l
    BY DEF Ages, NoExpiry
  <2>2. Bounded(Later(w), n, l - 1)
    BY <1>4, <2>1 DEF Bounded
  <2>3. QED
    BY <1>2, <1>7, <2>2
<1>8. QED
  BY <1>5, <1>6, <1>7

\* Renewing the expiry promises nothing that did not hold.
LEMMA ArmedIsBounded ==
  ASSUME NEW w, NEW n, NEW l, Bounded(w, n, l)
  PROVE  Bounded(w, n, Ttl)
BY LimitAssumption DEF Bounded, Ages

LEMMA LocalIsTyped ==
  ASSUME RateTypeOK, NEW s \in Servers
  PROVE  LocalCount(s) \in 0 .. Limit + 1 /\ LocalExpiry(s) \in 1 .. NoExpiry
<1>1. localHits[s] \in 0 .. Limit + 1 /\ localLeft[s] \in 0 .. Ttl
  BY DEF RateTypeOK
<1>2. QED
  BY <1>1, LimitAssumption DEF LocalCount, LocalExpiry, NoExpiry

LEMMA IncrementLocalKeeps ==
  ASSUME RateInv, NEW s \in Servers, IncrementLocal(s)
  PROVE  /\ localHits' \in [Servers -> 0 .. Limit + 1] /\ localLeft' \in [Servers -> 0 .. Ttl]
         /\ localGranted' \in [Servers -> [Ages -> Nat]]
         /\ RecordsAreBounded'
<1>1. /\ localHits \in [Servers -> 0 .. Limit + 1] /\ localLeft \in [Servers -> 0 .. Ttl]
      /\ localGranted \in [Servers -> [Ages -> Nat]]
  BY DEF RateInv, RateTypeOK
<1>2. LocalCount(s) \in 0 .. Limit + 1 /\ LocalExpiry(s) \in 1 .. NoExpiry
  BY LocalIsTyped DEF RateInv
<1>3. LocalHits(s) = Capped(LocalCount(s) + 1) /\ LocalHits(s) \in 0 .. Limit + 1
  BY <1>2, CountsStay, LimitAssumption DEF LocalHits, LocalCount
<1>4. /\ Admit(localGranted[s], LocalHits(s)) \in [Ages -> Nat]
      /\ Bounded(Admit(localGranted[s], LocalHits(s)), LocalHits(s), LocalExpiry(s))
  BY <1>1, <1>2, <1>3, AdmitIsBounded DEF RateInv, RecordsAreBounded
<1>5. /\ localHits' = [localHits EXCEPT ![s] = LocalHits(s)]
      /\ localLeft' = [localLeft EXCEPT ![s] = IF @ = 0 THEN Ttl ELSE @]
      /\ localGranted' = [localGranted EXCEPT ![s] = Admit(@, LocalHits(s))]
  BY DEF IncrementLocal
<1>6. localHits' \in [Servers -> 0 .. Limit + 1] /\ localLeft' \in [Servers -> 0 .. Ttl]
  BY <1>1, <1>3, <1>5, LimitAssumption
<1>7. localGranted' \in [Servers -> [Ages -> Nat]]
  BY <1>1, <1>4, <1>5
<1>8. ASSUME NEW t \in Servers
      PROVE  Bounded(localGranted[t], LocalCount(t), LocalExpiry(t))'
  <2>1. CASE t = s
    <3>1. /\ localGranted'[t] = Admit(localGranted[s], LocalHits(s)) /\ localHits'[t] = LocalHits(s)
          /\ localLeft'[t] = IF localLeft[s] = 0 THEN Ttl ELSE localLeft[s]
      BY <1>1, <1>5, <2>1
    <3>2. LocalCount(t)' = LocalHits(s)
      BY <1>1, <3>1, LimitAssumption DEF LocalCount
    <3>3. LocalExpiry(t)' = IF localLeft[s] = 0 THEN Ttl ELSE LocalExpiry(s)
      BY <1>1, <3>1, LimitAssumption DEF LocalExpiry
    <3>4. Bounded(localGranted'[t], LocalHits(s), LocalExpiry(t)')
      BY <1>4, <3>1, <3>3, ArmedIsBounded
    <3>5. QED
      BY <3>2, <3>4 DEF Bounded
  <2>2. CASE t # s
    <3>1. /\ localGranted'[t] = localGranted[t] /\ localHits'[t] = localHits[t]
          /\ localLeft'[t] = localLeft[t]
      BY <1>1, <1>5, <2>2
    <3>2. Bounded(localGranted[t], LocalCount(t), LocalExpiry(t))
      BY DEF RateInv, RecordsAreBounded
    <3>3. QED
      BY <3>1, <3>2 DEF Bounded, LocalCount, LocalExpiry
  <2>3. QED
    BY <2>1, <2>2
<1>9. QED
  BY <1>6, <1>7, <1>8 DEF RecordsAreBounded

LEMMA RateInitInv == RateInit => RateInv
<1> SUFFICES ASSUME RateInit
             PROVE  RateInv
  OBVIOUS
<1>1. ttl \in 1 .. NoExpiry /\ hits \in 0 .. Limit + 1 /\ hits = 0 /\ ttl = NoExpiry
  BY LimitAssumption DEF RateInit, NoExpiry
<1>2. /\ localHits \in [Servers -> 0 .. Limit + 1] /\ localLeft \in [Servers -> 0 .. Ttl]
      /\ granted \in [Ages -> Nat] /\ localGranted \in [Servers -> [Ages -> Nat]]
  BY LimitAssumption DEF RateInit
<1>3. /\ req \in [Requests -> Hit \cup {Idle}] /\ unarmed = FALSE
      /\ lateIncrs \in 0 .. MaxLate /\ latePExpires \in 0 .. MaxLate
  BY LateAssumption DEF RateInit
<1>4. RateTypeOK
  BY <1>1, <1>2, <1>3 DEF RateTypeOK
<1>5. CountingKeysExpire
  BY <1>1 DEF CountingKeysExpire
<1>6. Within(0) = 0 /\ \A a \in Ages : ~(a + NoExpiry < Ttl)
  BY LimitAssumption DEF Within, Ages, NoExpiry
<1>7. KeyIsBounded
  BY <1>1, <1>6, LimitAssumption DEF RateInit, KeyIsBounded, Bounded
<1>8. RecordsAreBounded
  <2>1. \A s \in Servers : /\ LocalCount(s) = 0 /\ LocalExpiry(s) = NoExpiry
                           /\ \A a \in Ages : localGranted[s][a] = 0
    BY DEF RateInit, LocalCount, LocalExpiry
  <2>2. ASSUME NEW s \in Servers
        PROVE  Bounded(localGranted[s], LocalCount(s), LocalExpiry(s))
    <3>1. \A a \in Ages : localGranted[s][a] = 0
      BY <2>1
    <3>2. Bounded(localGranted[s], 0, NoExpiry)
      BY <1>6, <3>1, LimitAssumption DEF Bounded
    <3>3. QED
      BY <2>1, <3>2
  <2>3. QED
    BY <2>2 DEF RecordsAreBounded
<1>9. QED
  BY <1>4, <1>5, <1>7, <1>8 DEF RateInv

\* What leaves the records of the processes, or the key, alone.
LEMMA RecordsStay ==
  ASSUME RecordsAreBounded, UNCHANGED <<localHits, localLeft, localGranted>>
  PROVE  RecordsAreBounded'
BY DEF RecordsAreBounded, Bounded, LocalCount, LocalExpiry, NoExpiry

\* The request whose hit counts 1 is the one that goes on to PEXPIRE.
LEMMA IncrKeeps ==
  ASSUME RateInv, NEW r \in Requests, NEW s \in Servers, Incr(r, s)
  PROVE  RateInv'
<1>1. Incremented \in 1 .. Limit + 1 /\ (hits = 0 => Incremented = 1)
  BY CountsStay DEF Incremented, RateInv, RateTypeOK
<1>2. granted' \in [Ages -> Nat] /\ Bounded(granted', Incremented, ttl)
  BY AdmitIsBounded DEF RateInv, RateTypeOK, KeyIsBounded, Incr, Incremented
<1> DEFINE next == [at |-> AfterIncr(Incremented), server |-> s]
<1>3. req' = [req EXCEPT ![r] = next] /\ next \in Hit
  BY DEF Incr, AfterIncr, Hit
<1>4. hits' = Incremented /\ hits' # 0 /\ hits' \in 0 .. Limit + 1
  BY <1>1, LimitAssumption DEF Incr
<1>5. RateTypeOK'
  BY <1>2, <1>3, <1>4 DEF RateInv, RateTypeOK, Incr, late, NoExpiry
<1>6. CountingKeysExpire'
  <2> SUFFICES ASSUME ttl = NoExpiry, ~unarmed
               PROVE  \E q \in Requests : req'[q].at = "pexpire"
    BY DEF CountingKeysExpire, Incr, NoExpiry
  <2>1. CASE hits = 0
    <3>1. req'[r].at = "pexpire"
      BY <1>1, <1>3, <2>1 DEF AfterIncr, RateInv, RateTypeOK
    <3>2. QED
      BY <3>1
  <2>2. CASE hits # 0
    <3>1. PICK q \in Requests : req[q].at = "pexpire"
      BY <2>2, LimitAssumption DEF RateInv, CountingKeysExpire, RateTypeOK
    <3>2. q # r
      BY <3>1 DEF Incr, Idle
    <3>3. req'[q].at = "pexpire"
      BY <1>3, <3>1, <3>2 DEF RateInv, RateTypeOK
    <3>4. QED
      BY <3>3
  <2>3. QED
    BY <2>1, <2>2
<1>7. KeyIsBounded'
  BY <1>2, <1>4 DEF KeyIsBounded, Incr, Bounded
<1>8. RecordsAreBounded'
  BY RecordsStay DEF RateInv, Incr
<1>9. QED
  BY <1>5, <1>6, <1>7, <1>8 DEF RateInv

\* What Redis counts unseen is let through by nobody; a key created so is unarmed.
LEMMA CountUnseenKeeps ==
  ASSUME RateInv, CountUnseen, UNCHANGED <<ttl, req, granted>>
  PROVE  /\ hits' \in 1 .. Limit + 1 /\ unarmed' \in BOOLEAN
         /\ unarmed' => ttl' = NoExpiry
         /\ CountingKeysExpire' /\ KeyIsBounded'
<1>1. hits' = Capped(hits + 1) /\ hits' \in 1 .. Limit + 1 /\ unarmed' = (unarmed \/ hits = 0)
  BY CountsStay DEF CountUnseen, Incremented, RateInv, RateTypeOK
<1>2. unarmed' \in BOOLEAN /\ (unarmed' => ttl' = NoExpiry)
  BY <1>1 DEF RateInv, RateTypeOK, NoExpiry
<1>3. CountingKeysExpire'
  <2>1. CASE hits = 0
    <3>1. unarmed'
      BY <1>1, <2>1
    <3>2. QED
      BY <3>1 DEF CountingKeysExpire
  <2>2. CASE hits # 0
    <3>1. hits > 0
      BY <2>2, LimitAssumption DEF RateInv, RateTypeOK
    <3>2. ttl = NoExpiry => unarmed \/ \E r \in Requests : req[r].at = "pexpire"
      BY <3>1 DEF RateInv, CountingKeysExpire
    <3>3. unarmed => unarmed'
      BY <1>1
    <3>4. ttl' = NoExpiry => unarmed' \/ \E r \in Requests : req'[r].at = "pexpire"
      BY <3>2, <3>3
    <3>5. QED
      BY <3>4 DEF CountingKeysExpire
  <2>3. QED
    BY <2>1, <2>2
<1>4. Bounded(granted, Capped(hits + 1), ttl)
  BY AdmitIsBounded DEF RateInv, RateTypeOK, KeyIsBounded
<1>5. QED
  BY <1>1, <1>2, <1>3, <1>4 DEF KeyIsBounded, Bounded

LEMMA IncrRejectedKeeps ==
  ASSUME RateInv, NEW r \in Requests, NEW s \in Servers, IncrRejected(r, s)
  PROVE  RateInv'
<1>1. IncrementLocal(s) /\ UNCHANGED <<ttl, req, latePExpires, granted>>
  BY DEF IncrRejected
<1>2. /\ localHits' \in [Servers -> 0 .. Limit + 1] /\ localLeft' \in [Servers -> 0 .. Ttl]
      /\ localGranted' \in [Servers -> [Ages -> Nat]]
      /\ RecordsAreBounded'
  BY <1>1, IncrementLocalKeeps
<1>3. CountUnseen \/ UNCHANGED <<hits, unarmed>>
  BY DEF IncrRejected
<1>4. lateIncrs' \in 0 .. MaxLate
  BY LateAssumption DEF IncrRejected, RateInv, RateTypeOK
<1>5. /\ hits' \in 0 .. Limit + 1 /\ (hits' = 0 => ttl' = NoExpiry) /\ unarmed' \in BOOLEAN
      /\ unarmed' => hits' > 0 /\ ttl' = NoExpiry
      /\ CountingKeysExpire' /\ KeyIsBounded'
  <2>1. CASE CountUnseen
    BY <1>1, <2>1, CountUnseenKeeps, LimitAssumption
  <2>2. CASE UNCHANGED <<hits, unarmed>>
    BY <1>1, <2>2 DEF RateInv, RateTypeOK, CountingKeysExpire, KeyIsBounded, Bounded, NoExpiry
  <2>3. QED
    BY <1>3, <2>1, <2>2
<1>6. RateTypeOK'
  BY <1>1, <1>2, <1>4, <1>5 DEF RateInv, RateTypeOK, NoExpiry
<1>7. QED
  BY <1>2, <1>5, <1>6 DEF RateInv

LEMMA LateIncrKeeps ==
  ASSUME RateInv, LateIncr
  PROVE  RateInv'
<1>1. /\ CountUnseen /\ lateIncrs' \in 0 .. MaxLate
      /\ UNCHANGED <<ttl, localHits, localLeft, req, latePExpires, granted, localGranted>>
  BY LateAssumption DEF LateIncr, RateInv, RateTypeOK
<1>2. /\ hits' \in 1 .. Limit + 1 /\ unarmed' \in BOOLEAN
      /\ unarmed' => ttl' = NoExpiry
      /\ CountingKeysExpire' /\ KeyIsBounded'
  BY <1>1, CountUnseenKeeps
<1>3. hits' \in 0 .. Limit + 1 /\ hits' # 0 /\ hits' > 0
  BY <1>2, LimitAssumption
<1>4. RateTypeOK'
  BY <1>1, <1>2, <1>3 DEF RateInv, RateTypeOK, NoExpiry
<1>5. QED
  BY <1>1, <1>2, <1>4, RecordsStay DEF RateInv

\* PEXPIRE arms the key that is there now, whoever created it.
LEMMA ArmedKeeps ==
  ASSUME RateInv, Arm, UNCHANGED <<hits, granted>>
  PROVE  /\ ttl' \in 1 .. NoExpiry /\ (hits' = 0 => ttl' = NoExpiry)
         /\ unarmed' = FALSE
         /\ CountingKeysExpire' /\ KeyIsBounded'
<1>1. /\ ttl' \in 1 .. NoExpiry /\ (hits' = 0 => ttl' = NoExpiry) /\ (hits' > 0 => ttl' # NoExpiry)
      /\ ttl' = (IF hits = 0 THEN ttl ELSE Ttl) /\ unarmed' = FALSE
  BY LimitAssumption DEF Arm, RateInv, RateTypeOK, NoExpiry
<1>2. Bounded(granted, hits, ttl) /\ Bounded(granted, hits, Ttl)
  BY ArmedIsBounded DEF RateInv, KeyIsBounded
<1>3. CountingKeysExpire'
  BY <1>1 DEF CountingKeysExpire, NoExpiry
<1>4. QED
  BY <1>1, <1>2, <1>3 DEF KeyIsBounded, Bounded

LEMMA PExpireKeeps ==
  ASSUME RateInv, NEW r \in Requests, PExpire(r)
  PROVE  RateInv'
<1>1. PICK s \in Servers : req[r] = [at |-> "pexpire", server |-> s]
  BY DEF PExpire, RateInv, RateTypeOK, Hit, Idle
<1> DEFINE next == [at |-> "pttl", server |-> s]
<1>2. req' \in [Requests -> Hit \cup {Idle}]
  <2>1. next = [req[r] EXCEPT !.at = "pttl"] /\ next \in Hit
    BY <1>1 DEF Hit
  <2>2. req' = [req EXCEPT ![r] = next]
    BY <2>1 DEF PExpire
  <2>3. QED
    BY <2>1, <2>2 DEF RateInv, RateTypeOK
<1>3. Arm /\ UNCHANGED <<hits, late, localHits, localLeft, granted, localGranted>>
  BY DEF PExpire
<1>4. /\ ttl' \in 1 .. NoExpiry /\ (hits' = 0 => ttl' = NoExpiry)
      /\ unarmed' = FALSE
      /\ CountingKeysExpire' /\ KeyIsBounded'
  BY <1>3, ArmedKeeps
<1>5. RateTypeOK'
  BY <1>2, <1>3, <1>4 DEF RateInv, RateTypeOK, NoExpiry, late
<1>6. RecordsAreBounded'
  BY <1>3, RecordsStay DEF RateInv
<1>7. QED
  BY <1>4, <1>5, <1>6 DEF RateInv

LEMMA LatePExpireKeeps ==
  ASSUME RateInv, LatePExpire
  PROVE  RateInv'
<1>1. /\ Arm /\ latePExpires' \in 0 .. MaxLate
      /\ UNCHANGED <<hits, localHits, localLeft, req, lateIncrs, granted, localGranted>>
  BY LateAssumption DEF LatePExpire, RateInv, RateTypeOK
<1>2. /\ ttl' \in 1 .. NoExpiry /\ (hits' = 0 => ttl' = NoExpiry)
      /\ unarmed' = FALSE
      /\ CountingKeysExpire' /\ KeyIsBounded'
  BY <1>1, ArmedKeeps
<1>3. RateTypeOK'
  BY <1>1, <1>2 DEF RateInv, RateTypeOK, NoExpiry
<1>4. QED
  BY <1>1, <1>2, <1>3, RecordsStay DEF RateInv

LEMMA PExpireRejectedKeeps ==
  ASSUME RateInv, NEW r \in Requests, PExpireRejected(r)
  PROVE  RateInv'
<1>1. req[r].server \in Servers
  BY DEF PExpireRejected, RateInv, RateTypeOK, Hit, Idle
<1>2. /\ localHits' \in [Servers -> 0 .. Limit + 1] /\ localLeft' \in [Servers -> 0 .. Ttl]
      /\ localGranted' \in [Servers -> [Ages -> Nat]]
      /\ RecordsAreBounded'
  BY <1>1, IncrementLocalKeeps DEF PExpireRejected
<1>3. /\ UNCHANGED <<hits, lateIncrs, granted>>
      /\ Arm \/ (ttl' = ttl /\ unarmed' = (hits > 0 /\ ttl = NoExpiry))
  BY DEF PExpireRejected
<1>4. /\ req' \in [Requests -> Hit \cup {Idle}] /\ latePExpires' \in 0 .. MaxLate
  BY LateAssumption DEF PExpireRejected, Done, RateInv, RateTypeOK
<1>5. /\ ttl' \in 1 .. NoExpiry /\ (hits' = 0 => ttl' = NoExpiry) /\ unarmed' \in BOOLEAN
      /\ unarmed' => hits' > 0 /\ ttl' = NoExpiry
      /\ CountingKeysExpire' /\ KeyIsBounded'
  <2>1. CASE Arm
    BY <1>3, <2>1, ArmedKeeps
  <2>2. CASE ttl' = ttl /\ unarmed' = (hits > 0 /\ ttl = NoExpiry)
    <3>1. /\ ttl' \in 1 .. NoExpiry /\ (hits' = 0 => ttl' = NoExpiry) /\ unarmed' \in BOOLEAN
          /\ unarmed' <=> hits' > 0 /\ ttl' = NoExpiry
      BY <1>3, <2>2 DEF RateInv, RateTypeOK, NoExpiry
    <3>2. CountingKeysExpire'
      BY <3>1 DEF CountingKeysExpire, NoExpiry
    <3>3. KeyIsBounded'
      BY <1>3, <2>2 DEF RateInv, KeyIsBounded, Bounded
    <3>4. QED
      BY <3>1, <3>2, <3>3
  <2>3. QED
    BY <1>3, <2>1, <2>2
<1>6. RateTypeOK'
  <2>1. hits' \in 0 .. Limit + 1 /\ granted' \in [Ages -> Nat] /\ lateIncrs' \in 0 .. MaxLate
    BY <1>3 DEF RateInv, RateTypeOK
  <2>2. QED
    BY <1>2, <1>4, <1>5, <2>1 DEF RateTypeOK, NoExpiry
<1>7. QED
  BY <1>2, <1>5, <1>6 DEF RateInv

LEMMA PTtlKeeps ==
  ASSUME RateInv, NEW r \in Requests, PTtl(r) \/ PTtlRejected(r)
  PROVE  RateInv'
<1>1. req[r] \in Hit /\ req[r].at = "pttl"
  BY DEF PTtl, PTtlRejected, RateInv, RateTypeOK, Idle
<1>2. req' = [req EXCEPT ![r] = Idle] /\ UNCHANGED <<hits, ttl, late, granted, unarmed>>
  BY DEF PTtl, PTtlRejected, Done
<1>3. /\ localHits' \in [Servers -> 0 .. Limit + 1] /\ localLeft' \in [Servers -> 0 .. Ttl]
      /\ localGranted' \in [Servers -> [Ages -> Nat]]
      /\ RecordsAreBounded'
  <2>1. CASE PTtl(r)
    <3>1. UNCHANGED <<localHits, localLeft, localGranted>>
      BY <2>1 DEF PTtl
    <3>2. QED
      BY <3>1, RecordsStay DEF RateInv, RateTypeOK
  <2>2. CASE PTtlRejected(r)
    BY <1>1, <2>2, IncrementLocalKeeps DEF PTtlRejected, Hit
  <2>3. QED
    BY <2>1, <2>2
<1>4. \A q \in Requests : req[q].at = "pexpire" => req'[q].at = "pexpire"
  BY <1>1, <1>2 DEF RateInv, RateTypeOK
<1>5. RateTypeOK'
  BY <1>2, <1>3 DEF RateInv, RateTypeOK, late, NoExpiry
<1>6. CountingKeysExpire'
  BY <1>2, <1>4 DEF RateInv, CountingKeysExpire, NoExpiry
<1>7. KeyIsBounded'
  BY <1>2 DEF RateInv, KeyIsBounded, Bounded
<1>8. QED
  BY <1>3, <1>5, <1>6, <1>7 DEF RateInv

\* The key goes with its expiry.
LEMMA TickKeeps ==
  ASSUME RateInv, Tick
  PROVE  RateInv'
<1>1. /\ ttl' = IF ttl \in {1, NoExpiry} THEN NoExpiry ELSE ttl - 1
      /\ hits' = IF ttl = 1 THEN 0 ELSE hits
      /\ granted' = Later(granted)
      /\ UNCHANGED <<localHits, req, late, unarmed>>
  BY DEF Tick
<1>2. /\ ttl' \in 1 .. NoExpiry /\ hits' \in 0 .. Limit + 1
      /\ hits' = 0 => ttl' = NoExpiry
  BY <1>1, LimitAssumption DEF RateInv, RateTypeOK, NoExpiry
<1>3. localLeft' \in [Servers -> 0 .. Ttl]
  <2>1. localLeft' = [s \in Servers |-> IF localLeft[s] = 0 THEN 0 ELSE localLeft[s] - 1]
    BY DEF Tick
  <2>2. ASSUME NEW s \in Servers
        PROVE  (IF localLeft[s] = 0 THEN 0 ELSE localLeft[s] - 1) \in 0 .. Ttl
    <3>1. localLeft[s] \in 0 .. Ttl
      BY DEF RateInv, RateTypeOK
    <3>2. QED
      BY <3>1, LimitAssumption
  <2>3. QED
    BY <2>1, <2>2
<1>4. granted' \in [Ages -> Nat] /\ Bounded(granted', hits', ttl')
  BY <1>1, LaterIsBounded DEF RateInv, RateTypeOK, KeyIsBounded
<1>5. ASSUME NEW s \in Servers
      PROVE  /\ localGranted'[s] = Later(localGranted[s]) /\ localGranted'[s] \in [Ages -> Nat]
             /\ Bounded(localGranted[s], LocalCount(s), LocalExpiry(s))'
  <2>1. localLeft[s] \in 0 .. Ttl /\ localHits[s] \in 0 .. Limit + 1
    BY DEF RateInv, RateTypeOK
  <2>2. /\ localGranted'[s] = Later(localGranted[s]) /\ localHits'[s] = localHits[s]
        /\ localLeft'[s] = IF localLeft[s] = 0 THEN 0 ELSE localLeft[s] - 1
    BY DEF Tick
  <2>3. /\ Later(localGranted[s]) \in [Ages -> Nat]
        /\ Bounded(Later(localGranted[s]), IF LocalExpiry(s) = 1 THEN 0 ELSE LocalCount(s),
                   IF LocalExpiry(s) \in {1, NoExpiry} THEN NoExpiry ELSE LocalExpiry(s) - 1)
    BY LocalIsTyped, LaterIsBounded DEF RateInv, RateTypeOK, RecordsAreBounded
  <2>4. LocalCount(s)' = IF LocalExpiry(s) = 1 THEN 0 ELSE LocalCount(s)
    BY <2>1, <2>2, LimitAssumption DEF LocalCount, LocalExpiry, NoExpiry
  <2>5. LocalExpiry(s)' = IF LocalExpiry(s) \in {1, NoExpiry} THEN NoExpiry ELSE LocalExpiry(s) - 1
    BY <2>1, <2>2, LimitAssumption DEF LocalExpiry, NoExpiry
  <2>6. QED
    BY <2>2, <2>3, <2>4, <2>5 DEF Bounded
<1>6. localGranted' \in [Servers -> [Ages -> Nat]]
  BY <1>5 DEF Tick
<1>7. RateTypeOK'
  BY <1>1, <1>2, <1>3, <1>4, <1>6, LimitAssumption DEF RateInv, RateTypeOK, late, NoExpiry
<1>8. CountingKeysExpire'
  BY <1>1, LimitAssumption DEF RateInv, RateTypeOK, CountingKeysExpire, NoExpiry
<1>9. KeyIsBounded' /\ RecordsAreBounded'
  BY <1>4, <1>5 DEF KeyIsBounded, RecordsAreBounded, Bounded
<1>10. QED
  BY <1>7, <1>8, <1>9 DEF RateInv

LEMMA RateStepKeeps ==
  ASSUME RateInv, [RateNext]_rateVars
  PROVE  RateInv'
<1>1. CASE UNCHANGED rateVars
  BY <1>1, RecordsStay DEF rateVars, RateInv, RateTypeOK, CountingKeysExpire, KeyIsBounded, Bounded,
     NoExpiry, Ages, late
<1>2. CASE RateNext
  BY <1>2, TickKeeps, IncrKeeps, IncrRejectedKeeps, PExpireKeeps, PExpireRejectedKeeps, PTtlKeeps,
     LateIncrKeeps, LatePExpireKeeps
     DEF RateNext, RequestStep
<1>3. QED
  BY <1>1, <1>2

\* RateLimit's inductive invariant holds of every reachable state: each counter has let
\* through what it counts, and before it was opened no more than one window's worth.
THEOREM RateInvariance == RateSpec => []RateInv
<1>1. RateInit => RateInv
  BY RateInitInv
<1>2. RateInv /\ [RateNext]_rateVars => RateInv'
  BY RateStepKeeps
<1>3. QED
  BY <1>1, <1>2, PTL DEF RateSpec

\* The counts and expiries of Redis and of every process stay within their bounds,
\* and there is no expiry without a key.
THEOREM RateTypeCorrect == RateSpec => []RateTypeOK
<1>1. RateInv => RateTypeOK
  BY DEF RateInv
<1>2. QED
  BY <1>1, RateInvariance, PTL

\* However the requests of any number of processes interleave, expire and fail, the
\* key lets through two windows' worth at most in any interval of one window's
\* length, and so does the record of each process.
THEOREM RateCorrect == RateSpec => []RateIsBounded
<1>1. ASSUME NEW w, NEW n \in Nat, NEW l, Bounded(w, n, l), w \in [Ages -> Nat]
      PROVE  w[Ttl - 1] <= 2 * Limit
  <2>1. Ttl - 1 \in Ages /\ Within(n) \in Nat /\ Within(n) <= Limit
    BY LimitAssumption DEF Ages, Within
  <2>2. w[Ttl - 1] <= Limit + Within(n) /\ w[Ttl - 1] \in Nat
    BY <1>1, <2>1 DEF Bounded
  <2>3. QED
    BY <2>1, <2>2, LimitAssumption
<1>2. ASSUME RateInv
      PROVE  RateIsBounded
  <2>1. granted[Ttl - 1] <= 2 * Limit
    BY <1>1, <1>2 DEF RateInv, RateTypeOK, KeyIsBounded
  <2>2. ASSUME NEW s \in Servers
        PROVE  localGranted[s][Ttl - 1] <= 2 * Limit
    <3>1. LocalCount(s) \in Nat
      BY <1>2, LocalIsTyped DEF RateInv
    <3>2. QED
      BY <1>1, <1>2, <3>1 DEF RateInv, RateTypeOK, RecordsAreBounded
  <2>3. QED
    BY <2>1, <2>2 DEF RateIsBounded
<1>3. QED
  BY <1>2, RateInvariance, PTL

\* However the requests of any number of processes interleave and expire, and however late
\* rejected commands run, a key that counts has an expiry, unless a request is about to set
\* it or the command that created the key or was to set it was rejected.
THEOREM ExpiryCorrect == RateSpec => []CountingKeysExpire
<1>1. RateInv => CountingKeysExpire
  BY DEF RateInv
<1>2. QED
  BY <1>1, RateInvariance, PTL
=============================================================================
