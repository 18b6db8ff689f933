------------------------------ MODULE TcpServer ------------------------------
(***************************************************************************)
(* tcp_server: a TCP server whose main-loop component accepts connections   *)
(* and starts one FreeRTOS task for each.  The accepted socket is handed to *)
(* its task through the member shared_socket, and all tasks gather the      *)
(* bytes of the line under way in one member stream, ss_.  Nothing is       *)
(* locked: every step below may fall between any two steps of another       *)
(* thread.  The steps are the accesses to the shared members; a stream      *)
(* operation is taken to be atomic.                                         *)
(*                                                                          *)
(* A connection stands for its client, its socket, and the task created     *)
(* when it was accepted (which may take another connection's socket).       *)
(***************************************************************************)
EXTENDS Naturals, SequencesExt

CONSTANTS
  Conns,   \* connections that clients make (each once: bound)
  None,    \* nullptr
  Lines    \* Lines[c]: the lines client c sends, each a sequence of bytes

Newline == "\n"
Backlog == 4   \* listen(4)

\* The bytes of the lines; a line ends with a newline and has none.
Characters == UNION {UNION {Range(line) : line \in Range(Lines[c])} : c \in Conns}
Bytes == Characters \cup {Newline}

ASSUME NoneAssumption == None \notin Conns
ASSUME LinesAssumption == Lines \in [Conns -> Seq(Seq(Characters))] /\ Newline \notin Characters

Text == [c \in Conns |-> FlattenSeq([i \in DOMAIN Lines[c] |-> Append(Lines[c][i], Newline)])]

VARIABLES
  state,          \* ESPHome's component state
  connected,      \* network::is_connected()
  loop,           \* position of the main loop in loop()
  sock,           \* the local sock of loop()
  shared_socket,
  ss_,
  socket,         \* per connection: the socket, as the server sees it
  backlog,        \* connections waiting to be accepted
  task,           \* per connection: position of its task in tcp_task
  client_,        \* per connection: the socket its task took
  crashed,        \* a null pointer was dereferenced: the device restarts
  sent, hungup,   \* per client: bytes sent; it has closed its side
  inbox,          \* per connection: bytes not yet read by the server
  served,         \* history: per connection, the lines parsed for it
  raced,          \* history: a socket was accepted before a task took its own
  crossed,        \* history: shared_socket was cleared while about to be used
  overlapped,     \* history: a socket was accepted while a task was alive
  brokeoff,       \* history: a client hung up in the middle of a line
  unserved        \* history: sockets accepted and then given no task

server  == <<state, loop, sock, shared_socket, ss_, task, client_, crashed>>
clients == <<sent, hungup>>
history == <<raced, crossed, overlapped, brokeoff, unserved>>
vars    == <<server, connected, socket, backlog, clients, inbox, served, history>>

TypeOK ==
  /\ state \in {"setup", "loop", "failed"}
  /\ connected \in BOOLEAN
  /\ loop \in {"idle", "accept", "nodelay", "spawn", "log"}
  /\ sock \in Conns \cup {None}
  /\ shared_socket \in Conns \cup {None}
  /\ ss_ \in Seq(Bytes)
  /\ socket \in [Conns -> {"none", "waiting", "open", "closed"}]
  /\ backlog \in Seq(Conns)
  /\ task \in [Conns -> {"none", "start", "read", "parse", "clear", "forget", "deleted"}]
  /\ client_ \in [Conns -> Conns \cup {None}]
  /\ crashed \in BOOLEAN
  /\ sent \in [Conns -> Nat]
  /\ hungup \in [Conns -> BOOLEAN]
  /\ inbox \in [Conns -> Seq(Bytes)]
  /\ served \in [Conns -> Seq(Seq(Bytes))]
  /\ {raced, crossed, overlapped, brokeoff} \subseteq BOOLEAN
  /\ unserved \subseteq Conns

\* (mutant of InitHandover: the pointer is not initialised)
InitWildHandover == sock = None /\ shared_socket = "wild"

InitHandover == sock = None /\ shared_socket = None

Init ==
  /\ state = "setup"
  /\ connected = TRUE
  /\ loop = "idle"
  /\ InitHandover
  /\ ss_ = <<>>
  /\ socket = [c \in Conns |-> "none"]
  /\ backlog = <<>>
  /\ task = [c \in Conns |-> "none"]
  /\ client_ = [c \in Conns |-> None]
  /\ crashed = FALSE
  /\ sent = [c \in Conns |-> 0]
  /\ hungup = [c \in Conns |-> FALSE]
  /\ inbox = [c \in Conns |-> <<>>]
  /\ served = [c \in Conns |-> <<>>]
  /\ raced = FALSE /\ crossed = FALSE /\ overlapped = FALSE /\ brokeoff = FALSE
  /\ unserved = {}

Alive(c) == task[c] \notin {"none", "deleted"}
-----------------------------------------------------------------------------
(* The main loop: setup() and loop(). *)

\* Creating, configuring, binding or listening may fail.
Setup ==
  /\ state = "setup"
  /\ state' \in {"loop", "failed"}
  /\ UNCHANGED <<loop, sock, shared_socket, ss_, task, client_, crashed, connected,
                 socket, backlog, clients, inbox, served, history>>

\* Without a network, loop() returns at once: no step.
EnterLoop ==
  /\ state = "loop" /\ ~crashed /\ loop = "idle" /\ connected
  /\ loop' = "accept"
  /\ UNCHANGED <<state, sock, shared_socket, ss_, task, client_, crashed, connected,
                 socket, backlog, clients, inbox, served, history>>

NothingToAccept ==
  /\ ~crashed /\ loop = "accept" /\ backlog = <<>>
  /\ loop' = "idle"
  /\ UNCHANGED <<state, sock, shared_socket, ss_, task, client_, crashed, connected,
                 socket, backlog, clients, inbox, served, history>>

\* accept and the assignment of shared_socket
Accept ==
  LET c == Head(backlog) IN
  /\ ~crashed /\ loop = "accept" /\ backlog # <<>>
  /\ backlog' = Tail(backlog)
  /\ socket' = [socket EXCEPT ![c] = "open"]
  /\ sock' = c
  /\ shared_socket' = c
  /\ loop' = "nodelay"
  /\ raced' = (raced \/ \E d \in Conns : task[d] = "start")
  /\ overlapped' = (overlapped \/ \E d \in Conns : Alive(d))
  /\ UNCHANGED <<state, ss_, task, client_, crashed, connected, clients, inbox, served,
                 crossed, brokeoff, unserved>>

\* shared_socket->setsockopt(TCP_NODELAY): its failure ends loop() with the
\* socket open and nobody to serve it.
NoDelay ==
  /\ ~crashed /\ loop = "nodelay"
  /\ crashed' = (shared_socket = None)
  /\ \/ loop' = "spawn" /\ UNCHANGED unserved
     \/ loop' = "idle" /\ unserved' = unserved \cup {sock}
  /\ UNCHANGED <<state, sock, shared_socket, ss_, task, client_, connected, socket,
                 backlog, clients, inbox, served, raced, crossed, overlapped, brokeoff>>

\* xTaskCreate: its result is ignored.
Spawn ==
  /\ ~crashed /\ loop = "spawn"
  /\ loop' = "log"
  /\ \/ task' = [task EXCEPT ![sock] = "start"] /\ UNCHANGED unserved
     \/ unserved' = unserved \cup {sock} /\ UNCHANGED task
  /\ UNCHANGED <<state, sock, shared_socket, ss_, client_, crashed, connected, socket,
                 backlog, clients, inbox, served, raced, crossed, overlapped, brokeoff>>

\* "Accepted %s": dereferences shared_socket again.
LogAccepted ==
  /\ ~crashed /\ loop = "log"
  /\ crashed' = (shared_socket = None)
  /\ loop' = "accept"
  /\ UNCHANGED <<state, sock, shared_socket, ss_, task, client_, connected, socket,
                 backlog, clients, inbox, served, history>>
-----------------------------------------------------------------------------
(* tcp_task of the connection c *)

At(c, place)  == ~crashed /\ task[c] = place
Goto(c, place) == task' = [task EXCEPT ![c] = place]

\* (mutant of TaskStart: the pointer is moved out, not copied)
TaskStartMoves(c) ==
  /\ At(c, "start")
  /\ client_' = [client_ EXCEPT ![c] = shared_socket]
  /\ shared_socket' = None
  /\ Goto(c, "read")
  /\ UNCHANGED <<state, loop, sock, ss_, crashed, connected, socket,
                 backlog, clients, inbox, served, history>>

TaskStart(c) ==
  /\ At(c, "start")
  /\ client_' = [client_ EXCEPT ![c] = shared_socket]
  /\ Goto(c, "read")
  /\ UNCHANGED <<state, loop, sock, shared_socket, ss_, crashed, connected, socket,
                 backlog, clients, inbox, served, history>>

\* A read through a null client_.
ReadNull(c) ==
  /\ At(c, "read") /\ client_[c] = None
  /\ crashed' = TRUE
  /\ UNCHANGED <<state, loop, sock, shared_socket, ss_, task, client_, connected,
                 socket, backlog, clients, inbox, served, history>>

\* One byte arrives, and is collected or ends the line.
ReadByte(c) ==
  LET s == client_[c] IN
  /\ At(c, "read") /\ s # None
  /\ socket[s] = "open" /\ inbox[s] # <<>>
  /\ inbox' = [inbox EXCEPT ![s] = Tail(@)]
  /\ IF Head(inbox[s]) = Newline
       THEN Goto(c, "parse") /\ UNCHANGED ss_
       ELSE ss_' = Append(ss_, Head(inbox[s])) /\ UNCHANGED task
  /\ UNCHANGED <<state, loop, sock, shared_socket, client_, crashed, connected, socket,
                 backlog, clients, served, history>>

\* parse(ss_.str(), client_.get()), and the (empty) response.
Parse(c) ==
  /\ At(c, "parse")
  /\ served' = [served EXCEPT ![client_[c]] = Append(@, ss_)]
  /\ Goto(c, "clear")
  /\ UNCHANGED <<state, loop, sock, shared_socket, ss_, client_, crashed, connected,
                 socket, backlog, clients, inbox, history>>

\* (mutant of ClearLine: the stream keeps the line)
ClearNothing(c) ==
  /\ At(c, "clear")
  /\ Goto(c, "read")
  /\ UNCHANGED <<state, loop, sock, shared_socket, ss_, client_, crashed, connected, socket,
                 backlog, clients, inbox, served, history>>

ClearLine(c) ==
  /\ At(c, "clear")
  /\ ss_' = <<>>
  /\ Goto(c, "read")
  /\ UNCHANGED <<state, loop, sock, shared_socket, client_, crashed, connected, socket,
                 backlog, clients, inbox, served, history>>

\* (mutant of Close: the task ends without close())
CloseSkipped(c) ==
  LET s == client_[c] IN
  /\ At(c, "read") /\ s # None
  /\ socket[s] = "closed" \/ (inbox[s] = <<>> /\ hungup[s])
  /\ Goto(c, "forget")
  /\ UNCHANGED <<state, loop, sock, shared_socket, ss_, client_, crashed, connected, socket,
                 backlog, clients, inbox, served, history>>

\* The peer has closed, or another task has closed the socket under us.
Close(c) ==
  LET s == client_[c] IN
  /\ At(c, "read") /\ s # None
  /\ socket[s] = "closed" \/ (inbox[s] = <<>> /\ hungup[s])
  /\ socket' = [socket EXCEPT ![s] = "closed"]
  /\ Goto(c, "forget")
  /\ UNCHANGED <<state, loop, sock, shared_socket, ss_, client_, crashed, connected,
                 backlog, clients, inbox, served, history>>

\* shared_socket = nullptr, whoever's socket it holds by now; vTaskDelete.
Forget(c) ==
  /\ At(c, "forget")
  /\ shared_socket' = None
  /\ Goto(c, "deleted")
  /\ crossed' = \/ crossed \/ loop \in {"nodelay", "spawn", "log"}
                \/ \E d \in Conns : task[d] = "start"
  /\ UNCHANGED <<state, loop, sock, ss_, client_, crashed, connected, socket, backlog,
                 clients, inbox, served, raced, overlapped, brokeoff, unserved>>

Task(c) == \/ TaskStart(c) \/ ReadNull(c) \/ ReadByte(c) \/ Parse(c) \/ ClearLine(c)
           \/ Close(c) \/ Forget(c)
-----------------------------------------------------------------------------
(* The clients and the network. *)

Connect(c) ==
  /\ state = "loop" /\ ~crashed /\ connected
  /\ socket[c] = "none" /\ Len(backlog) < Backlog
  /\ socket' = [socket EXCEPT ![c] = "waiting"]
  /\ backlog' = Append(backlog, c)
  /\ UNCHANGED <<server, connected, clients, inbox, served, history>>

Send(c) ==
  /\ connected /\ socket[c] \in {"waiting", "open"} /\ ~hungup[c]
  /\ sent[c] < Len(Text[c])
  /\ sent' = [sent EXCEPT ![c] = @ + 1]
  /\ inbox' = [inbox EXCEPT ![c] = Append(@, Text[c][sent[c] + 1])]
  /\ UNCHANGED <<server, connected, socket, backlog, hungup, served, history>>

HangUp(c) ==
  /\ connected /\ socket[c] \in {"waiting", "open"} /\ ~hungup[c]
  /\ hungup' = [hungup EXCEPT ![c] = TRUE]
  /\ brokeoff' = (brokeoff \/ (sent[c] > 0 /\ Text[c][sent[c]] # Newline))
  /\ UNCHANGED <<server, connected, socket, backlog, sent, inbox, served,
                 raced, crossed, overlapped, unserved>>

Network ==
  /\ connected' = ~connected
  /\ UNCHANGED <<server, socket, backlog, clients, inbox, served, history>>

Loop == EnterLoop \/ NothingToAccept \/ Accept \/ NoDelay \/ Spawn \/ LogAccepted

Next ==
  \/ Setup \/ Loop \/ Network
  \/ \E c \in Conns : Task(c) \/ Connect(c) \/ Send(c) \/ HangUp(c)

Spec == Init /\ [][Next]_vars

\* The main loop and every task are scheduled again and again.
FairSpec == /\ Spec
            /\ WF_vars(Setup) /\ WF_vars(Loop)
            /\ \A c \in Conns : WF_vars(Task(c))
-----------------------------------------------------------------------------
(* Properties *)

\* The null pointer that a task leaves in shared_socket is only ever followed
\* when the task ended between an accept and the last use of shared_socket
\* for it, in loop() or in the new task.
NoNullSocket == crashed => crossed

\* Each socket is read by one task, and none is left open without a task,
\* unless a second connection was accepted before the first one's task took
\* its socket (or shared_socket was cleared, or the task was never created).
OneOwner ==
  ~raced /\ ~crossed =>
    /\ \A c, d \in Conns : c # d /\ client_[c] # None => client_[c] # client_[d]
    /\ \A c \in Conns : socket[c] = "open" =>
         \/ c \in unserved
         \/ loop \in {"nodelay", "spawn"} /\ sock = c
         \/ task[c] = "start"
         \/ \E d \in Conns : client_[d] = c /\ task[d] \in {"read", "parse", "clear"}

\* The lines parsed for a client are the lines it sent, whole, in order and
\* once each, as long as connections follow one another and none of them
\* ends within a line: the text of a line is never that of another one.
LinesAreWhole ==
  ~overlapped /\ ~brokeoff => \A c \in Conns : IsPrefix(served[c], Lines[c])

\* A connection whose client has hung up is closed in the end, unless it was
\* left without a task of its own.
HungUpIsClosed ==
  \A c \in Conns :
    <>[]connected =>
      (hungup[c] ~> socket[c] = "closed" \/ crashed \/ raced \/ crossed \/ c \in unserved)

\* "when network is disconnected force disconnect immediately": when the
\* network goes away, no connection stays open (if it stays away).
DisconnectForced ==
  ~connected ~> connected \/ (\A c \in Conns : socket[c] # "open" \/ c \in unserved)
==============================================================================
