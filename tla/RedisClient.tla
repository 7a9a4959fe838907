----------------------------- MODULE RedisClient -----------------------------
(***************************************************************************)
(* The hand-written Redis client (src/cache/redis-client.service.ts): one   *)
(* process, one promise chain of commands, one socket that is reopened when *)
(* it is gone.  A command is a number, in the order command() was called;   *)
(* a connection is named by the command that dialled it, since a command    *)
(* dials at most once.                                                      *)
(*                                                                          *)
(* The socket is two FIFO byte streams.  A reply arrives in one chunk or in *)
(* two, and what is parsed from a buffer is the reply its first byte        *)
(* belongs to.  The server may execute what it received on a connection the *)
(* client has already given up.                                             *)
(***************************************************************************)
EXTENDS Naturals, Sequences

CONSTANTS
  MaxCommands,   \* bound: how many commands are issued
  Handshake      \* what connect() sends first: AUTH and SELECT, as REDIS_URL asks

ASSUME MaxCommandsAssumption == MaxCommands \in Nat
ASSUME HandshakeAssumption == Handshake \in Seq({"AUTH", "SELECT"})

Commands == 1 .. MaxCommands
None == 0

\* What travels to the server, and the pieces its answers come back in.
Request == [step : {"AUTH", "SELECT", "command"}, by : Commands]
Chunk == [of : Request, ok : BOOLEAN, ends : BOOLEAN]
CommandOf(c) == [step |-> "command", by |-> c]
NoReply == [step |-> "none", by |-> None]

VARIABLES
  status,     \* the promise command() returned
  answer,     \* the request whose reply the promise was resolved with
  running,    \* the command at the head of commandQueue, or None
  phase,      \* what the running command awaits
  greeting,   \* the handshake steps whose reply is still awaited
  line,       \* the connection the running command uses, or None
  current,    \* this.socket, or None
  conn,       \* each connection as the client sees it
  toServer, toClient,   \* bytes under way on each connection
  buffer,     \* the listener's buffer
  greeted,    \* how many handshake steps the server accepted on a connection
  executed    \* the commands the server executed, in order

promises == <<status, answer, running>>
wires == <<toServer, toClient, greeted, executed>>
vars == <<promises, phase, greeting, line, current, conn, wires, buffer>>

Init ==
  /\ status = [c \in Commands |-> "new"]
  /\ answer = [c \in Commands |-> NoReply]
  /\ running = None /\ line = None /\ current = None
  /\ phase = "idle" /\ greeting = <<>> /\ buffer = <<>>
  /\ conn = [k \in Commands |-> "none"]
  /\ toServer = [k \in Commands |-> <<>>]
  /\ toClient = [k \in Commands |-> <<>>]
  /\ greeted = [k \in Commands |-> 0]
  /\ executed = <<>>

\* Mutant of Settle: cleanup() is not called, the listeners stay.
SettleListening(outcome, reply) ==
  /\ status' = [status EXCEPT ![running] = outcome]
  /\ answer' = [answer EXCEPT ![running] = reply]
  /\ running' = None
  /\ UNCHANGED <<line, phase, greeting, buffer>>

(* The promise of the running command settles and the chain moves on, also  *)
(* after a failure: the queue continues from operation.catch(...).          *)
Settle(outcome, reply) ==
  /\ status' = [status EXCEPT ![running] = outcome]
  /\ answer' = [answer EXCEPT ![running] = reply]
  /\ running' = None /\ line' = None
  /\ phase' = "idle" /\ greeting' = <<>> /\ buffer' = <<>>

Reject == Settle("rejected", NoReply)

Write(k, request) == toServer' = [toServer EXCEPT ![k] = Append(@, request)]

\* closeSocket destroys this.socket, whichever connection called it.
Destroyed(ks) == [k \in Commands |-> IF k \in ks THEN "destroyed" ELSE conn[k]]
Severed(ks) == [k \in Commands |-> IF k \in ks THEN <<>> ELSE toClient[k]]

CloseSocket(alsoGone) ==
  /\ conn' = Destroyed({current} \cup alsoGone)
  /\ toClient' = Severed({current} \cup alsoGone)
  /\ current' = None

------------------------------------------------------------------------------
(* The caller and the promise chain. *)

Submit(c) ==
  /\ status[c] = "new"
  /\ \A d \in 1 .. c - 1 : status[d] # "new"
  /\ status' = [status EXCEPT ![c] = "queued"]
  /\ UNCHANGED <<answer, running, phase, greeting, line, current, conn, wires, buffer>>

\* Mutant of Oldest: any waiting command may start.
AnyWaiting(c) == running = None /\ status[c] = "queued"

\* commandQueue.then(): the oldest command starts when the one before it is over.
Oldest(c) ==
  /\ running = None
  /\ status[c] = "queued"
  /\ \A d \in 1 .. c - 1 : status[d] # "queued"

Start(c) ==
  /\ Oldest(c)
  /\ status' = [status EXCEPT ![c] = "running"]
  /\ running' = c
  /\ UNCHANGED <<answer, current, greeting, greeted, executed, buffer, toClient>>

SocketUsable == current # None /\ conn[current] = "open"

WriteOnSocket(c) ==
  /\ SocketUsable
  /\ Start(c)
  /\ phase' = "sent" /\ line' = current
  /\ Write(current, CommandOf(c))
  /\ UNCHANGED conn

Dial(c) ==
  /\ ~SocketUsable
  /\ Start(c)
  /\ phase' = "connecting" /\ line' = c
  /\ conn' = [conn EXCEPT ![c] = "connecting"]
  /\ UNCHANGED toServer

------------------------------------------------------------------------------
(* connect(): the dial, then one handshake step after another. *)

\* Mutant of Proceed: the command does not wait for the handshake.
ProceedAtOnce(rest) ==
  /\ phase' = "sent" /\ current' = line
  /\ Write(line, CommandOf(running))

\* What follows once the steps in `rest` are all that is left of the handshake.
Proceed(rest) ==
  IF rest = <<>>
  THEN /\ phase' = "sent" /\ current' = line
       /\ Write(line, CommandOf(running))
  ELSE /\ phase' = "greeting"
       /\ Write(line, [step |-> Head(rest), by |-> running])
       /\ UNCHANGED current

Connected ==
  /\ phase = "connecting"
  /\ conn' = [conn EXCEPT ![line] = "open"]
  /\ greeting' = Handshake
  /\ Proceed(Handshake)
  /\ UNCHANGED <<promises, line, toClient, greeted, executed, buffer>>

\* The 'error' listener of the new socket calls closeSocket, and the dial rejects.
DialRefused ==
  /\ phase = "connecting"
  /\ CloseSocket({line})
  /\ Reject
  /\ UNCHANGED <<toServer, greeted, executed>>

DialTimeout ==
  /\ phase = "connecting"
  /\ conn' = [conn EXCEPT ![line] = "destroyed"]
  /\ Reject
  /\ UNCHANGED <<current, wires>>

\* Mutant of GreetingTimeout: the timer is dropped once the connection is gone.
GreetingTimeoutWhileOpen ==
  /\ phase = "greeting" /\ conn[line] = "open"
  /\ Reject
  /\ UNCHANGED <<current, conn, wires>>

\* Nothing closes the connection when a handshake step is not answered in time.
GreetingTimeout ==
  /\ phase = "greeting"
  /\ Reject
  /\ UNCHANGED <<current, conn, wires>>

------------------------------------------------------------------------------
(* onData of a handshake step and of a command: nothing happens until the   *)
(* buffer holds a whole reply.                                              *)

Listening(k) == phase \in {"greeting", "sent"} /\ line = k

Received == Append(buffer, Head(toClient[line]))

Hear ==
  /\ running # None /\ Listening(line)
  /\ conn[line] = "open" /\ toClient[line] # <<>>
  /\ toClient' = [toClient EXCEPT ![line] = Tail(@)]

HearPart ==
  /\ Hear
  /\ ~Head(toClient[line]).ends
  /\ buffer' = Received
  /\ UNCHANGED <<promises, phase, greeting, line, current, conn, toServer, greeted, executed>>

HearGreeting ==
  /\ Hear
  /\ phase = "greeting"
  /\ Head(toClient[line]).ends /\ Received[1].ok
  /\ greeting' = Tail(greeting) /\ buffer' = <<>>
  /\ Proceed(Tail(greeting))
  /\ UNCHANGED <<promises, line, conn, greeted, executed>>

HearReply ==
  /\ Hear
  /\ phase = "sent"
  /\ Head(toClient[line]).ends /\ Received[1].ok
  /\ Settle("resolved", Received[1].of)
  /\ UNCHANGED <<current, conn, toServer, greeted, executed>>

\* An error reply makes parseResponse throw: the promise rejects, the socket stays.
HearError ==
  /\ Hear
  /\ Head(toClient[line]).ends /\ ~Received[1].ok
  /\ Reject
  /\ UNCHANGED <<current, conn, toServer, greeted, executed>>

\* Data no listener waits for is dropped by the socket.
Unheard(k) ==
  /\ conn[k] = "open" /\ toClient[k] # <<>> /\ ~Listening(k)
  /\ toClient' = [toClient EXCEPT ![k] = Tail(@)]
  /\ UNCHANGED <<promises, phase, greeting, line, current, conn, toServer, greeted, executed, buffer>>

------------------------------------------------------------------------------
(* Timeouts, and connections that end. *)

\* Mutant of CommandTimeout: the socket is kept for the next command.
CommandTimeoutKeepingSocket ==
  /\ phase = "sent"
  /\ Reject
  /\ UNCHANGED <<current, conn, wires>>

CommandTimeout ==
  /\ phase = "sent"
  /\ CloseSocket({})
  /\ Reject
  /\ UNCHANGED <<toServer, greeted, executed>>

(* 'error' on any open connection, one that a failed handshake left behind  *)
(* included, runs connect()'s listener: closeSocket destroys this.socket.   *)
ConnectionError(k) ==
  /\ conn[k] = "open"
  /\ CloseSocket({k})
  /\ IF Listening(k)
     THEN Reject
     ELSE UNCHANGED <<promises, phase, greeting, line, buffer>>
  /\ UNCHANGED <<toServer, greeted, executed>>

(* The peer closes: only a command in flight has a 'close' listener, which  *)
(* forgets the socket; otherwise the next getSocket finds it destroyed.     *)
PeerCloses(k) ==
  /\ conn[k] = "open"
  /\ conn' = Destroyed({k}) /\ toClient' = Severed({k})
  /\ IF phase = "sent" /\ line = k
     THEN Reject /\ current' = None
     ELSE UNCHANGED <<promises, phase, greeting, line, buffer, current>>
  /\ UNCHANGED <<toServer, greeted, executed>>

\* The 'close' of a socket that closeSocket destroyed under a running command.
NoticeClose ==
  /\ phase = "sent" /\ conn[line] = "destroyed"
  /\ Reject
  /\ current' = None
  /\ UNCHANGED <<conn, wires>>

------------------------------------------------------------------------------
(* The server (external).  It executes what it received, in order, on each  *)
(* connection; a connection the client destroyed may still have bytes for   *)
(* it, or lose them.                                                        *)

Reply(request, ok, split) ==
  LET part(ends) == [of |-> request, ok |-> ok, ends |-> ends]
  IN  IF split THEN <<part(FALSE), part(TRUE)>> ELSE <<part(TRUE)>>

Execute(k) ==
  /\ toServer[k] # <<>>
  /\ toServer' = [toServer EXCEPT ![k] = Tail(@)]
  /\ LET request == Head(toServer[k])
         isCommand == request.step = "command"
     IN
     /\ executed' = IF isCommand THEN Append(executed, request.by) ELSE executed
     /\ \E ok, split \in BOOLEAN :
          /\ greeted' = [greeted EXCEPT ![k] = IF ok /\ ~isCommand THEN @ + 1 ELSE @]
          /\ toClient' = IF conn[k] = "open"
                         THEN [toClient EXCEPT ![k] = @ \o Reply(request, ok, split)]
                         ELSE toClient
  /\ UNCHANGED <<promises, phase, greeting, line, current, conn, buffer>>

LoseBytes(k) ==
  /\ conn[k] = "destroyed" /\ toServer[k] # <<>>
  /\ toServer' = [toServer EXCEPT ![k] = <<>>]
  /\ UNCHANGED <<promises, phase, greeting, line, current, conn, toClient, greeted, executed, buffer>>

------------------------------------------------------------------------------
ClientStep ==
  \/ \E c \in Commands : WriteOnSocket(c) \/ Dial(c)
  \/ Connected \/ HearPart \/ HearGreeting \/ HearReply \/ HearError \/ NoticeClose

TimerStep == DialTimeout \/ GreetingTimeout \/ CommandTimeout

Environment ==
  \/ DialRefused
  \/ \E c \in Commands : Submit(c)
  \/ \E k \in Commands :
       Unheard(k) \/ ConnectionError(k) \/ PeerCloses(k) \/ Execute(k) \/ LoseBytes(k)

Next == ClientStep \/ TimerStep \/ Environment

Spec == Init /\ [][Next]_vars

(* Node runs pending callbacks, and a timer that is due.  Nothing is asked  *)
(* of the network or of the server.                                         *)
FairSpec == Spec /\ WF_vars(\E c \in Commands : WriteOnSocket(c) \/ Dial(c))
                 /\ WF_vars(TimerStep)

------------------------------------------------------------------------------
TypeOK ==
  /\ status \in [Commands -> {"new", "queued", "running", "resolved", "rejected"}]
  /\ answer \in [Commands -> Request \cup {NoReply}]
  /\ running \in Commands \cup {None}
  /\ phase \in {"idle", "connecting", "greeting", "sent"}
  /\ greeting \in Seq({"AUTH", "SELECT"})
  /\ line \in Commands \cup {None}
  /\ running = None <=> line = None
  /\ running = None <=> phase = "idle"
  /\ current \in Commands \cup {None}
  /\ conn \in [Commands -> {"none", "connecting", "open", "destroyed"}]
  /\ toServer \in [Commands -> Seq(Request)]
  /\ toClient \in [Commands -> Seq(Chunk)]
  /\ buffer \in Seq(Chunk)
  /\ greeted \in [Commands -> 0 .. Len(Handshake)]
  /\ executed \in Seq(Commands)

(* A promise resolves with the reply to its own command.  Nothing on the    *)
(* wire says which command a reply is for: it takes the serial queue, a     *)
(* buffer per command and a timeout that gives the socket up (104-108), or  *)
(* the answer that came too late is read as the next command's.             *)
RepliesAreTheirOwn ==
  \A c \in Commands : status[c] = "resolved" => answer[c] = CommandOf(c)

(* The server executes commands in the order command() was called, except   *)
(* that a command whose promise was rejected may still run late: a cache    *)
(* write that timed out can land after the invalidation that followed it.   *)
OnlyRejectedCommandsRunLate ==
  \A i, j \in DOMAIN executed :
    i < j /\ executed[i] > executed[j] => status[executed[j]] = "rejected"

(* No command reaches the server on a connection whose AUTH and SELECT were *)
(* not all accepted: it would run unauthenticated or in another database.   *)
CommandsFollowTheHandshake ==
  \A k \in Commands :
    (\E i \in DOMAIN toServer[k] : toServer[k][i].step = "command")
      => greeted[k] = Len(Handshake)

(* Every command's promise settles, whatever the network and the server do: *)
(* each wait of the running command has a timer, and a rejection does not   *)
(* stop the queue (80-81).                                                  *)
EveryCommandSettles ==
  \A c \in Commands : status[c] = "queued" ~> status[c] \in {"resolved", "rejected"}
==============================================================================
