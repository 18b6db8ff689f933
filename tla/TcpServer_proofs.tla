---------------------------- MODULE TcpServer_proofs ----------------------------
(***************************************************************************)
(* Proofs about TcpServer, for every number of connections and whatever     *)
(* their clients send: how the accepted socket is handed to its task.       *)
(***************************************************************************)
EXTENDS TcpServer, SequenceTheorems, WellFoundedInduction, TLAPS

\* The types of the variables that the handover works with.
HandoverTypes ==
  /\ backlog \in Seq(Conns)
  /\ sock \in Conns \cup {None} /\ shared_socket \in Conns \cup {None}
  /\ loop \in {"nodelay", "spawn", "log"} => sock # None
  /\ socket \in [Conns -> {"none", "waiting", "open", "closed"}]
  /\ task \in [Conns -> {"none", "start", "read", "parse", "clear", "forget", "deleted"}]
  /\ client_ \in [Conns -> Conns \cup {None}]

Reading(c) == task[c] \in {"read", "parse", "clear"}

\* Until shared_socket is cleared while it is about to be used, nothing that
\* is about to be used is null.
Followed ==
  /\ ~crashed
  /\ loop \in {"nodelay", "spawn", "log"} => shared_socket # None
  /\ \A c \in Conns : task[c] = "start" => shared_socket # None
  /\ \A c \in Conns : Reading(c) => client_[c] # None

\* Until, moreover, two connections race for shared_socket, it holds the
\* socket of the task that is to take it, every task takes its own, and an
\* open socket is on its way to its task or with it.
Handed ==
  /\ loop \in {"nodelay", "spawn"} => shared_socket = sock
  /\ loop \in {"nodelay", "spawn"} => \A c \in Conns : task[c] # "start"
  /\ \A c \in Conns : task[c] = "start" => shared_socket = c
  /\ \A c \in Conns : client_[c] \in {None, c}
  /\ \A c \in Conns : Reading(c) => client_[c] = c
  /\ \A c \in Conns : socket[c] = "open" =>
       \/ c \in unserved
       \/ loop \in {"nodelay", "spawn"} /\ sock = c
       \/ task[c] = "start" \/ Reading(c)

HandoverInv ==
  /\ HandoverTypes
  /\ ~crossed => Followed
  /\ ~raced /\ ~crossed => Handed

LEMMA HandoverInit == Init => HandoverInv
<1> SUFFICES ASSUME Init PROVE HandoverInv
  OBVIOUS
<1>1. HandoverTypes
  BY DEF Init, InitHandover, HandoverTypes
<1>2. ~crashed /\ loop = "idle"
  BY Zenon DEF Init
<1>3. \A c \in Conns : task[c] = "none" /\ client_[c] = None /\ socket[c] = "none"
  BY DEF Init
<1>4. loop \notin {"nodelay", "spawn", "log"} /\ loop \notin {"nodelay", "spawn"}
  BY <1>2
<1>5. \A c \in Conns : task[c] # "start" /\ ~Reading(c) /\ socket[c] # "open"
  BY <1>3 DEF Reading
<1>6. Followed
  BY <1>2, <1>4, <1>5, Zenon DEF Followed
<1>7. Handed
  BY <1>3, <1>4, <1>5, Zenon DEF Handed
<1> QED BY <1>1, <1>6, <1>7, Zenon DEF HandoverInv

Locations == {"none", "start", "read", "parse", "clear", "forget", "deleted"}

\* A task that goes on is where it goes; the others stay.
LEMMA Moved ==
  ASSUME HandoverTypes, NEW c \in Conns, NEW place \in Locations, Goto(c, place)
  PROVE  /\ task' \in [Conns -> Locations]
         /\ task'[c] = place
         /\ \A d \in Conns : d # c => task'[d] = task[d]
  BY DEF HandoverTypes, Goto, Locations

\* What the main loop does between two connections.
LEMMA IdleInv ==
  HandoverInv /\ (Setup \/ EnterLoop \/ NothingToAccept) => HandoverInv'
<1> SUFFICES ASSUME HandoverInv, Setup \/ EnterLoop \/ NothingToAccept PROVE HandoverInv'
  OBVIOUS
<1>1. /\ sock' = sock /\ shared_socket' = shared_socket /\ socket' = socket
      /\ task' = task /\ client_' = client_ /\ backlog' = backlog
      /\ crashed' = crashed /\ raced' = raced /\ crossed' = crossed /\ unserved' = unserved
  BY Zenon DEF Setup, EnterLoop, NothingToAccept, history
<1>2. loop' = loop \/ (loop' \in {"accept", "idle"} /\ loop \in {"accept", "idle"})
  BY DEF Setup, EnterLoop, NothingToAccept
<1>3. /\ loop' \in {"nodelay", "spawn", "log"} <=> loop \in {"nodelay", "spawn", "log"}
      /\ loop' \in {"nodelay", "spawn"} <=> loop \in {"nodelay", "spawn"}
  BY <1>2
<1>4. HandoverTypes'
  BY <1>1, <1>3, Zenon DEF HandoverInv, HandoverTypes
<1>5. \A c \in Conns : Reading(c)' <=> Reading(c)
  BY <1>1, Zenon DEF Reading
<1>6. Followed => Followed'
  BY <1>1, <1>3, <1>5, Zenon DEF Followed
<1>7. Handed => Handed'
  BY <1>1, <1>3, <1>5, Zenon DEF Handed
<1> QED BY <1>1, <1>4, <1>6, <1>7, Zenon DEF HandoverInv

LEMMA AcceptInv == HandoverInv /\ Accept => HandoverInv'
<1> SUFFICES ASSUME HandoverInv, Accept PROVE HandoverInv'
  OBVIOUS
<1> DEFINE c == Head(backlog)
<1>1. /\ loop = "accept" /\ backlog # <<>> /\ backlog' = Tail(backlog)
      /\ socket' = [socket EXCEPT ![c] = "open"]
      /\ sock' = c /\ shared_socket' = c /\ loop' = "nodelay"
      /\ task' = task /\ client_' = client_
      /\ crossed' = crossed /\ unserved' = unserved /\ crashed' = crashed
  BY Zenon DEF Accept
<1>2. raced' = (raced \/ \E d \in Conns : task[d] = "start")
  BY Zenon DEF Accept
<1>3. HandoverTypes
  BY Zenon DEF HandoverInv
<1>4. c \in Conns /\ c # None /\ backlog' \in Seq(Conns)
  BY <1>1, <1>3, NoneAssumption DEF HandoverTypes
<1> HIDE DEF c
<1>5. HandoverTypes'
  BY <1>1, <1>3, <1>4 DEF HandoverTypes
<1>6. \A d \in Conns : Reading(d)' <=> Reading(d)
  BY <1>1, Zenon DEF Reading
<1>7. Followed => Followed'
  BY <1>1, <1>4, <1>6, Zenon DEF Followed
<1>8. ASSUME Handed, ~raced' PROVE Handed'
  <2>1. \A d \in Conns : task[d] # "start"
    BY <1>2, <1>8, Zenon
  <2>2. loop \notin {"nodelay", "spawn"} /\ loop' \in {"nodelay", "spawn"}
    BY <1>1
  <2>3. \A d \in Conns : d # c => socket'[d] = socket[d]
    BY <1>1, <1>3, Zenon DEF HandoverTypes
  <2>4. \A d \in Conns : socket'[d] = "open" => d \in unserved \/ sock' = d \/ Reading(d)
    BY <1>1, <1>8, <2>1, <2>2, <2>3, Zenon DEF Handed
  <2> QED BY <1>1, <1>6, <1>8, <2>1, <2>2, <2>4, Zenon DEF Handed
<1> QED BY <1>1, <1>2, <1>5, <1>7, <1>8, Zenon DEF HandoverInv

LEMMA NoDelayInv == HandoverInv /\ NoDelay => HandoverInv'
<1> SUFFICES ASSUME HandoverInv, NoDelay PROVE HandoverInv'
  OBVIOUS
<1>1. /\ sock' = sock /\ shared_socket' = shared_socket /\ socket' = socket
      /\ task' = task /\ client_' = client_ /\ backlog' = backlog
      /\ raced' = raced /\ crossed' = crossed
  BY Zenon DEF NoDelay
<1>2. crashed' = (shared_socket = None)
  BY Zenon DEF NoDelay
<1>3. \/ loop' = "spawn" /\ unserved' = unserved
      \/ loop' = "idle" /\ unserved' = unserved \cup {sock}
  BY Zenon DEF NoDelay
<1>4. /\ loop \in {"nodelay", "spawn"} /\ loop \in {"nodelay", "spawn", "log"}
      /\ loop' = "idle" => loop' \notin {"nodelay", "spawn"}
      /\ loop' = "spawn" => loop' \in {"nodelay", "spawn"}
  BY DEF NoDelay
<1>5. HandoverTypes'
  BY <1>1, <1>4, Zenon DEF HandoverInv, HandoverTypes
<1>6. \A d \in Conns : Reading(d)' <=> Reading(d)
  BY <1>1, Zenon DEF Reading
<1>7. Followed => Followed'
  BY <1>1, <1>2, <1>4, <1>6, Zenon DEF Followed
<1>8. ASSUME Handed PROVE Handed'
  <2>1. \A c \in Conns : socket'[c] = "open" =>
          \/ c \in unserved'
          \/ loop' \in {"nodelay", "spawn"} /\ sock' = c
          \/ task'[c] = "start" \/ Reading(c)'
    BY <1>1, <1>3, <1>4, <1>6, <1>8 DEF Handed
  <2> QED BY <1>1, <1>4, <1>6, <1>8, <2>1, Zenon DEF Handed
<1> QED BY <1>1, <1>5, <1>7, <1>8, Zenon DEF HandoverInv

LEMMA SpawnInv == HandoverInv /\ Spawn => HandoverInv'
<1> SUFFICES ASSUME HandoverInv, Spawn PROVE HandoverInv'
  OBVIOUS
<1>1. /\ loop = "spawn" /\ loop' = "log"
      /\ sock' = sock /\ shared_socket' = shared_socket /\ socket' = socket
      /\ client_' = client_ /\ backlog' = backlog
      /\ crashed' = crashed /\ raced' = raced /\ crossed' = crossed
  BY Zenon DEF Spawn
<1>2. \/ task' = [task EXCEPT ![sock] = "start"] /\ unserved' = unserved
      \/ task' = task /\ unserved' = unserved \cup {sock}
  BY Zenon DEF Spawn
<1>3. /\ loop \in {"nodelay", "spawn"} /\ loop \in {"nodelay", "spawn", "log"}
      /\ loop' \notin {"nodelay", "spawn"}
  BY <1>1
<1>4. HandoverTypes /\ sock \in Conns
  BY <1>3, Zenon DEF HandoverInv, HandoverTypes
<1>5. /\ task' \in [Conns -> Locations]
      /\ \A d \in Conns : d # sock => task'[d] = task[d]
      /\ task'[sock] = "start" \/ (task' = task /\ sock \in unserved')
      /\ unserved \subseteq unserved'
  BY <1>2, <1>4 DEF HandoverTypes, Locations
<1>6. HandoverTypes'
  BY <1>1, <1>4, <1>5, Zenon DEF HandoverTypes, Locations
<1>7. \A d \in Conns : Reading(d)' => Reading(d) /\ task'[d] = task[d]
  <2> SUFFICES ASSUME NEW d \in Conns, Reading(d)' PROVE Reading(d) /\ task'[d] = task[d]
    OBVIOUS
  <2>1. task'[d] # "start"
    BY DEF Reading
  <2>2. task'[d] = task[d]
    BY <1>5, <2>1, Zenon
  <2> QED BY <2>2 DEF Reading
<1>8. Followed => Followed'
  BY <1>1, <1>3, <1>4, <1>5, <1>7, Zenon DEF Followed
<1>9. ASSUME Handed PROVE Handed'
  <2>1. \A d \in Conns : task'[d] = "start" => d = sock /\ shared_socket = sock
    BY <1>3, <1>5, <1>9, Zenon DEF Handed
  <2>2. \A d \in Conns : d # sock => (Reading(d)' <=> Reading(d))
    BY <1>5, Zenon DEF Reading
  <2>3. \A d \in Conns : socket'[d] = "open" =>
          d \in unserved' \/ task'[d] = "start" \/ Reading(d)'
    <3>1. \A d \in Conns : socket[d] = "open" => d \in unserved \/ sock = d \/ Reading(d)
      BY <1>3, <1>9, Zenon DEF Handed
    <3>2. \A d \in Conns : d # sock /\ socket[d] = "open" => d \in unserved \/ Reading(d)'
      BY <2>2, <3>1, Zenon
    <3>3. \A d \in Conns : d \in unserved => d \in unserved'
      BY <1>5
    <3> QED BY <1>1, <1>5, <3>2, <3>3, Zenon
  <2> QED BY <1>1, <1>3, <1>7, <1>9, <2>1, <2>3, Zenon DEF Handed
<1> QED BY <1>1, <1>6, <1>8, <1>9, Zenon DEF HandoverInv

LEMMA LogInv == HandoverInv /\ LogAccepted => HandoverInv'
<1> SUFFICES ASSUME HandoverInv, LogAccepted PROVE HandoverInv'
  OBVIOUS
<1>1. /\ loop = "log" /\ loop' = "accept"
      /\ sock' = sock /\ shared_socket' = shared_socket /\ socket' = socket
      /\ task' = task /\ client_' = client_ /\ backlog' = backlog
      /\ raced' = raced /\ crossed' = crossed /\ unserved' = unserved
  BY Zenon DEF LogAccepted, history
<1>2. crashed' = (shared_socket = None)
  BY Zenon DEF LogAccepted
<1>3. /\ loop \in {"nodelay", "spawn", "log"} /\ loop \notin {"nodelay", "spawn"}
      /\ loop' \notin {"nodelay", "spawn", "log"} /\ loop' \notin {"nodelay", "spawn"}
  BY <1>1
<1>4. HandoverTypes'
  BY <1>1, <1>3, Zenon DEF HandoverInv, HandoverTypes
<1>5. \A d \in Conns : Reading(d)' <=> Reading(d)
  BY <1>1, Zenon DEF Reading
<1>6. Followed => Followed'
  BY <1>1, <1>2, <1>3, <1>5, Zenon DEF Followed
<1>7. Handed => Handed'
  BY <1>1, <1>3, <1>5, Zenon DEF Handed
<1> QED BY <1>1, <1>4, <1>6, <1>7, Zenon DEF HandoverInv

LEMMA TaskStartInv ==
  ASSUME HandoverInv, NEW c \in Conns, TaskStart(c)
  PROVE  HandoverInv'
<1>1. /\ task[c] = "start" /\ ~crashed
      /\ client_' = [client_ EXCEPT ![c] = shared_socket]
      /\ loop' = loop /\ sock' = sock /\ shared_socket' = shared_socket
      /\ socket' = socket /\ backlog' = backlog
      /\ crashed' = crashed /\ raced' = raced /\ crossed' = crossed /\ unserved' = unserved
  BY Zenon DEF TaskStart, At, history
<1>2. HandoverTypes /\ Goto(c, "read") /\ "read" \in Locations
  BY DEF TaskStart, HandoverInv, Locations
<1>3. /\ task' \in [Conns -> Locations] /\ task'[c] = "read"
      /\ \A d \in Conns : d # c => task'[d] = task[d]
  BY <1>2, Moved, Zenon
<1>4. client_' \in [Conns -> Conns \cup {None}]
  BY <1>1, <1>2 DEF HandoverTypes
<1>5. /\ client_'[c] = shared_socket
      /\ \A d \in Conns : d # c => client_'[d] = client_[d]
  BY <1>1, <1>2, Zenon DEF HandoverTypes
<1>6. /\ Reading(c)' /\ task'[c] # "start"
      /\ \A d \in Conns : d # c => (Reading(d)' <=> Reading(d))
  <2>1. task'[c] \in {"read", "parse", "clear"} /\ task'[c] # "start"
    BY <1>3
  <2> QED BY <1>3, <2>1, Zenon DEF Reading
<1>7. Followed => Followed'
  BY <1>1, <1>3, <1>5, <1>6, Zenon DEF Followed
<1>8. Handed => Handed'
  BY <1>1, <1>3, <1>5, <1>6, Zenon DEF Handed
<1> QED BY <1>1, <1>2, <1>3, <1>4, <1>7, <1>8, Zenon DEF HandoverInv, HandoverTypes, Locations

\* A task that reads: it goes on reading, or ends.
LEMMA ReaderInv ==
  ASSUME HandoverInv, NEW c \in Conns,
         ReadByte(c) \/ Parse(c) \/ ClearLine(c)
  PROVE  HandoverInv'
<1>1. /\ loop' = loop /\ sock' = sock /\ shared_socket' = shared_socket
      /\ socket' = socket /\ backlog' = backlog /\ client_' = client_
      /\ crashed' = crashed /\ raced' = raced /\ crossed' = crossed /\ unserved' = unserved
  BY Zenon DEF ReadByte, Parse, ClearLine, history
<1>2. HandoverTypes
  BY Zenon DEF HandoverInv
<1>3. /\ task[c] \in {"read", "parse", "clear"}
      /\ \/ task' = task
         \/ \E place \in {"read", "parse", "clear"} : Goto(c, place)
  BY DEF ReadByte, Parse, ClearLine, At
<1>4. /\ task' \in [Conns -> Locations]
      /\ \A d \in Conns : d # c => task'[d] = task[d]
      /\ task'[c] \in {"read", "parse", "clear"}
  <2>1. CASE task' = task
    BY <1>2, <1>3, <2>1, Zenon DEF HandoverTypes, Locations
  <2>2. CASE \E place \in {"read", "parse", "clear"} : Goto(c, place)
    <3>1. PICK place \in {"read", "parse", "clear"} : Goto(c, place)
      BY <2>2
    <3>2. place \in Locations
      BY DEF Locations
    <3> QED BY <1>2, <3>1, <3>2, Moved, Zenon
  <2> QED BY <1>3, <2>1, <2>2, Zenon
<1>5. /\ task[c] # "start" /\ task'[c] # "start"
  BY <1>3, <1>4
<1>6. \A d \in Conns : Reading(d)' <=> Reading(d)
  BY <1>3, <1>4, Zenon DEF Reading
<1>7. \A d \in Conns : task'[d] = "start" <=> task[d] = "start"
  BY <1>4, <1>5, Zenon
<1>8. Followed => Followed'
  BY <1>1, <1>6, <1>7, Zenon DEF Followed
<1>9. Handed => Handed'
  BY <1>1, <1>6, <1>7, Zenon DEF Handed
<1> QED BY <1>1, <1>2, <1>4, <1>8, <1>9, Zenon DEF HandoverInv, HandoverTypes, Locations

LEMMA ReadNullInv ==
  ASSUME HandoverInv, NEW c \in Conns, ReadNull(c)
  PROVE  HandoverInv'
<1>1. /\ loop' = loop /\ sock' = sock /\ shared_socket' = shared_socket
      /\ socket' = socket /\ backlog' = backlog /\ client_' = client_ /\ task' = task
      /\ raced' = raced /\ crossed' = crossed /\ unserved' = unserved
      /\ client_[c] = None /\ task[c] = "read"
  BY Zenon DEF ReadNull, At, history
<1>2. HandoverTypes'
  BY <1>1, Zenon DEF HandoverInv, HandoverTypes
<1>3. Reading(c)
  BY <1>1 DEF Reading
<1>4. crossed
  BY <1>1, <1>3, Zenon DEF HandoverInv, Followed
<1> QED BY <1>1, <1>2, <1>4, Zenon DEF HandoverInv

LEMMA CloseInv ==
  ASSUME HandoverInv, NEW c \in Conns, Close(c)
  PROVE  HandoverInv'
<1>1. /\ loop' = loop /\ sock' = sock /\ shared_socket' = shared_socket
      /\ backlog' = backlog /\ client_' = client_
      /\ crashed' = crashed /\ raced' = raced /\ crossed' = crossed /\ unserved' = unserved
      /\ task[c] = "read" /\ client_[c] # None
      /\ socket' = [socket EXCEPT ![client_[c]] = "closed"]
  BY Zenon DEF Close, At, history
<1>2. HandoverTypes /\ Goto(c, "forget") /\ "forget" \in Locations
  BY DEF Close, HandoverInv, Locations
<1>3. /\ task' \in [Conns -> Locations] /\ task'[c] = "forget"
      /\ \A d \in Conns : d # c => task'[d] = task[d]
  BY <1>2, Moved, Zenon
<1>4. client_[c] \in Conns
  BY <1>1, <1>2, Zenon DEF HandoverTypes
<1>5. /\ socket' \in [Conns -> {"none", "waiting", "open", "closed"}]
      /\ socket'[client_[c]] = "closed"
      /\ \A d \in Conns : socket'[d] = "open" => socket[d] = "open" /\ d # client_[c]
  BY <1>1, <1>2, <1>4 DEF HandoverTypes
<1>6. /\ Reading(c) /\ ~Reading(c)' /\ task[c] # "start" /\ task'[c] # "start"
      /\ \A d \in Conns : d # c => (Reading(d)' <=> Reading(d))
  <2>1. /\ task'[c] \notin {"read", "parse", "clear"} /\ task[c] \in {"read", "parse", "clear"}
        /\ task[c] # "start" /\ task'[c] # "start"
    BY <1>1, <1>3
  <2> QED BY <1>3, <2>1, Zenon DEF Reading
<1>7. Followed => Followed'
  BY <1>1, <1>3, <1>6, Zenon DEF Followed
<1>8. Handed => Handed'
  <2> SUFFICES ASSUME Handed PROVE Handed'
    OBVIOUS
  <2>1. client_[c] = c
    BY <1>6, Zenon DEF Handed
  <2>2. \A d \in Conns : socket'[d] = "open" => d # c /\ socket[d] = "open"
    BY <1>5, <2>1, Zenon
  <2> QED BY <1>1, <1>3, <1>6, <2>2, Zenon DEF Handed
<1> QED BY <1>1, <1>2, <1>3, <1>5, <1>7, <1>8, Zenon DEF HandoverInv, HandoverTypes, Locations

LEMMA ForgetInv ==
  ASSUME HandoverInv, NEW c \in Conns, Forget(c)
  PROVE  HandoverInv'
<1>1. /\ loop' = loop /\ sock' = sock /\ shared_socket' = None
      /\ socket' = socket /\ backlog' = backlog /\ client_' = client_
      /\ crashed' = crashed /\ raced' = raced /\ unserved' = unserved
      /\ task[c] = "forget"
  BY Zenon DEF Forget, At
<1>2. HandoverTypes /\ Goto(c, "deleted") /\ "deleted" \in Locations
  BY DEF Forget, HandoverInv, Locations
<1>3. /\ task' \in [Conns -> Locations] /\ task'[c] = "deleted"
      /\ \A d \in Conns : d # c => task'[d] = task[d]
  BY <1>2, Moved, Zenon
<1>4. /\ ~crossed' => ~crossed
      /\ ~crossed' => loop \notin {"nodelay", "spawn", "log"}
      /\ ~crossed' => \A d \in Conns : task[d] # "start"
  BY Zenon DEF Forget
<1>5. loop \notin {"nodelay", "spawn", "log"} => loop \notin {"nodelay", "spawn"}
  OBVIOUS
<1>6. /\ ~Reading(c)' /\ task'[c] # "start" /\ ~Reading(c)
      /\ \A d \in Conns : d # c => (Reading(d)' <=> Reading(d))
  <2>1. /\ task'[c] \notin {"read", "parse", "clear"} /\ task[c] \notin {"read", "parse", "clear"}
        /\ task'[c] # "start"
    BY <1>1, <1>3
  <2> QED BY <1>3, <2>1, Zenon DEF Reading
<1>7. HandoverTypes'
  BY <1>1, <1>2, <1>3, Zenon DEF HandoverTypes, Locations
<1>8. ~crossed' /\ Followed => Followed'
  BY <1>1, <1>3, <1>4, <1>6, Zenon DEF Followed
<1>9. ~crossed' /\ Handed => Handed'
  BY <1>1, <1>3, <1>4, <1>5, <1>6, Zenon DEF Handed
<1> QED BY <1>1, <1>4, <1>7, <1>8, <1>9, Zenon DEF HandoverInv

\* What clients and the network do.
LEMMA OutsideInv ==
  ASSUME HandoverInv,
         Network \/ \E c \in Conns : Connect(c) \/ Send(c) \/ HangUp(c)
  PROVE  HandoverInv'
<1>1. /\ loop' = loop /\ sock' = sock /\ shared_socket' = shared_socket
      /\ client_' = client_ /\ task' = task
      /\ crashed' = crashed /\ raced' = raced /\ crossed' = crossed /\ unserved' = unserved
  BY Zenon DEF Network, Connect, Send, HangUp, server, history
<1>2. HandoverTypes
  BY Zenon DEF HandoverInv
<1>3. /\ socket' \in [Conns -> {"none", "waiting", "open", "closed"}]
      /\ backlog' \in Seq(Conns)
      /\ \A d \in Conns : socket'[d] = "open" => socket[d] = "open"
  <2>1. CASE \E c \in Conns : Connect(c)
    BY <1>2, <2>1 DEF HandoverTypes, Connect
  <2>2. CASE Network \/ \E c \in Conns : Send(c) \/ HangUp(c)
    <3>1. socket' = socket /\ backlog' = backlog
      BY <2>2, Zenon DEF Network, Send, HangUp
    <3> QED BY <1>2, <3>1, Zenon DEF HandoverTypes
  <2> QED BY <2>1, <2>2, Zenon
<1>4. \A d \in Conns : Reading(d)' <=> Reading(d)
  BY <1>1, Zenon DEF Reading
<1>5. HandoverTypes'
  BY <1>1, <1>2, <1>3, Zenon DEF HandoverTypes
<1>6. Followed => Followed'
  BY <1>1, <1>4, Zenon DEF Followed
<1>7. Handed => Handed'
  BY <1>1, <1>3, <1>4, Zenon DEF Handed
<1> QED BY <1>1, <1>5, <1>6, <1>7, Zenon DEF HandoverInv

LEMMA HandoverNext == HandoverInv /\ [Next]_vars => HandoverInv'
<1> SUFFICES ASSUME HandoverInv, [Next]_vars PROVE HandoverInv'
  OBVIOUS
<1>1. CASE UNCHANGED vars
  <2>1. /\ loop' = loop /\ sock' = sock /\ shared_socket' = shared_socket
        /\ socket' = socket /\ backlog' = backlog /\ client_' = client_ /\ task' = task
        /\ crashed' = crashed /\ raced' = raced /\ crossed' = crossed
        /\ unserved' = unserved
    BY <1>1 DEF vars, server, history
  <2>2. \A d \in Conns : Reading(d)' <=> Reading(d)
    BY <2>1, Zenon DEF Reading
  <2>3. HandoverTypes' /\ (Followed => Followed') /\ (Handed => Handed')
    BY <2>1, <2>2, Zenon DEF HandoverInv, HandoverTypes, Followed, Handed
  <2> QED BY <2>1, <2>3, Zenon DEF HandoverInv
<1>2. CASE Setup \/ Loop
  BY <1>2, IdleInv, AcceptInv, NoDelayInv, SpawnInv, LogInv, Zenon DEF Loop
<1>3. CASE \E c \in Conns : Task(c)
  BY <1>3, TaskStartInv, ReaderInv, ReadNullInv, CloseInv, ForgetInv, Zenon DEF Task
<1>4. CASE Network \/ \E c \in Conns : Connect(c) \/ Send(c) \/ HangUp(c)
  BY <1>4, OutsideInv, Zenon
<1> QED BY <1>1, <1>2, <1>3, <1>4, Zenon DEF Next

LEMMA HandoverAlways == Spec => []HandoverInv
  BY HandoverInit, HandoverNext, PTL DEF Spec

\* A null pointer is followed only when a task has cleared shared_socket
\* between the acceptance of another connection and the last use of
\* shared_socket for it, however many connections there are.
THEOREM NullNeedsCrossing == Spec => []NoNullSocket
<1>1. HandoverInv => NoNullSocket
  BY Zenon DEF HandoverInv, Followed, NoNullSocket
<1> QED BY <1>1, HandoverAlways, PTL

\* However many connections there are, every socket is read by one task, and
\* every open one is on its way to its task, with it, or was given none, unless
\* two of them raced for shared_socket or it was cleared meanwhile.
THEOREM SocketsHaveOneOwner == Spec => []OneOwner
<1>1. HandoverInv => OneOwner
  <2> SUFFICES ASSUME HandoverInv, ~raced, ~crossed
               PROVE  OneOwner
    BY Zenon DEF OneOwner
  <2>1. Handed
    BY Zenon DEF HandoverInv
  <2>2. \A c, d \in Conns : c # d /\ client_[c] # None => client_[c] # client_[d]
    BY <2>1, NoneAssumption, Zenon DEF Handed
  <2>3. \A c \in Conns : Reading(c) => client_[c] = c /\ task[c] \in {"read", "parse", "clear"}
    BY <2>1, Zenon DEF Handed, Reading
  <2>4. \A c \in Conns : socket[c] = "open" =>
         \/ c \in unserved
         \/ loop \in {"nodelay", "spawn"} /\ sock = c
         \/ task[c] = "start"
         \/ \E d \in Conns : client_[d] = c /\ task[d] \in {"read", "parse", "clear"}
    BY <2>1, <2>3, Zenon DEF Handed
  <2> QED BY <2>2, <2>4, Zenon DEF OneOwner
<1> QED BY <1>1, HandoverAlways, PTL
-----------------------------------------------------------------------------
(* What FlattenSeq returns.  The induction is over a set of numbers.        *)

\* A set of numbers that has 0 and, with each number, the next.
LEMMA SetInduction ==
  ASSUME NEW T \in SUBSET Nat, 0 \in T, \A n \in T : n + 1 \in T
  PROVE  \A n \in Nat : n \in T
<1> DEFINE Missing == Nat \ T
<1> SUFFICES ASSUME Missing # {} PROVE FALSE
  OBVIOUS
<1>1. PICK n \in Missing : \A l \in Missing : ~ (<<l, n>> \in OpToRel(<, Nat))
  BY NatLessThanWellFounded, WFMin, Missing \subseteq Nat, Zenon
<1>2. \A l \in Missing : ~ (l < n)
  BY <1>1 DEF OpToRel
<1>3. n # 0 /\ n - 1 \in Nat /\ n - 1 < n /\ (n - 1) + 1 = n
  OBVIOUS
<1>4. n - 1 \in T
  BY <1>2, <1>3
<1> QED BY <1>3, <1>4

\* g has the concatenations of the first sequences of ls.
Flattens(g, ls, m) ==
  g = [i \in 1 .. m |-> IF i = 1 THEN ls[i] ELSE g[i - 1] \o ls[i]]

LEMMA FlatteningExists ==
  ASSUME NEW ls
  PROVE  \A m \in Nat : \E g : Flattens(g, ls, m)
<1> DEFINE T == {m \in Nat : \E g : Flattens(g, ls, m)}
<1>1. 0 \in T
  <2>1. <<>> = [i \in 1 .. 0 |-> IF i = 1 THEN ls[i] ELSE <<>>[i - 1] \o ls[i]]
    OBVIOUS
  <2>2. Flattens(<<>>, ls, 0)
    BY <2>1 DEF Flattens
  <2> QED BY <2>2
<1>2. ASSUME NEW m \in T PROVE m + 1 \in T
  <2>1. PICK g : Flattens(g, ls, m)
    OBVIOUS
  <2> DEFINE h == [i \in 1 .. m + 1 |-> IF i <= m THEN g[i]
                     ELSE IF i = 1 THEN ls[i] ELSE g[i - 1] \o ls[i]]
  <2>2. \A i \in 1 .. m : g[i] = IF i = 1 THEN ls[i] ELSE g[i - 1] \o ls[i]
    BY <2>1 DEF Flattens
  <2>3. \A i \in 1 .. m + 1 : h[i] = IF i = 1 THEN ls[i] ELSE h[i - 1] \o ls[i]
    <3> TAKE i \in 1 .. m + 1
    <3>1. i # 1 => i - 1 \in 1 .. m /\ i - 1 \in 1 .. m + 1 /\ i - 1 <= m
      OBVIOUS
    <3>2. i # 1 => h[i - 1] = g[i - 1]
      BY <3>1
    <3>3. CASE i <= m
      BY <2>2, <3>2, <3>3
    <3>4. CASE ~(i <= m)
      BY <3>2, <3>4
    <3> QED BY <3>3, <3>4
  <2>4. h = [i \in 1 .. m + 1 |-> h[i]]
    OBVIOUS
  <2> HIDE DEF h
  <2>5. Flattens(h, ls, m + 1)
    BY <2>3, <2>4 DEF Flattens
  <2>6. m + 1 \in Nat
    OBVIOUS
  <2> QED BY <2>5, <2>6
<1> HIDE DEF T
<1>3. T \in SUBSET Nat
  BY DEF T
<1>4. \A m \in Nat : m \in T
  BY <1>1, <1>2, <1>3, SetInduction
<1> QED BY <1>4 DEF T

\* s is the first m sequences of ls, one after the other; off has their ends.
Layout(s, off, ls, m) ==
  /\ off \in [0 .. m -> Nat] /\ off[0] = 0 /\ off[m] = Len(s)
  /\ \A i \in 0 .. m : off[i] <= off[m]
  /\ \A i \in 1 .. m :
       /\ off[i] = off[i - 1] + Len(ls[i])
       /\ \A j \in 1 .. Len(ls[i]) : s[off[i - 1] + j] = ls[i][j]

\* One sequence more.
LEMMA LayoutGrows ==
  ASSUME NEW S, NEW ls \in Seq(Seq(S)), NEW m \in Nat, m + 1 \in 1 .. Len(ls),
         NEW s \in Seq(S), NEW off, Layout(s, off, ls, m)
  PROVE  \E o : Layout(s \o ls[m + 1], o, ls, m + 1)
<1> DEFINE l == ls[m + 1]
           t == s \o l
           a == Len(s)
           b == Len(l)
           o == [i \in 0 .. m + 1 |-> IF i <= m THEN off[i] ELSE a + b]
<1>1. l \in Seq(S)
  BY ElementOfSeq
<1>2. a \in Nat /\ b \in Nat
  BY <1>1, LenProperties
<1>3. /\ Len(t) = a + b
      /\ \A i \in 1 .. a + b : t[i] = IF i <= a THEN s[i] ELSE l[i - a]
  BY <1>1, ConcatProperties, Zenon
<1>4. /\ off \in [0 .. m -> Nat] /\ off[0] = 0 /\ off[m] = a
      /\ \A i \in 0 .. m : off[i] <= a
      /\ \A i \in 1 .. m :
           /\ off[i] = off[i - 1] + Len(ls[i])
           /\ \A j \in 1 .. Len(ls[i]) : s[off[i - 1] + j] = ls[i][j]
  BY DEF Layout
<1>5. \A i \in 1 .. m : Len(ls[i]) \in Nat
  <2> TAKE i \in 1 .. m
  <2>1. i \in 1 .. Len(ls)
    BY LenProperties
  <2> QED BY <2>1, ElementOfSeq, LenProperties
<1> HIDE DEF t, a, b
<1>6. o \in [0 .. m + 1 -> Nat] /\ o[0] = 0 /\ o[m + 1] = a + b
  BY <1>2, <1>4
<1>7. \A i \in 0 .. m : o[i] = off[i] /\ o[i] <= a + b
  BY <1>2, <1>4
<1> HIDE DEF o
<1>8. \A i \in 0 .. m + 1 : o[i] <= o[m + 1]
  <2> TAKE i \in 0 .. m + 1
  <2>1. i \in 0 .. m \/ i = m + 1
    OBVIOUS
  <2> QED BY <1>2, <1>6, <1>7, <2>1
<1>9. ASSUME NEW i \in 1 .. m + 1
      PROVE  /\ o[i] = o[i - 1] + Len(ls[i])
             /\ \A j \in 1 .. Len(ls[i]) : t[o[i - 1] + j] = ls[i][j]
  <2>1. CASE i <= m
    <3>1. i \in 1 .. m /\ i \in 0 .. m /\ i - 1 \in 0 .. m
      BY <2>1
    <3>2. o[i] = off[i] /\ o[i - 1] = off[i - 1]
      BY <1>7, <3>1
    <3>3. off[i - 1] \in Nat /\ Len(ls[i]) \in Nat /\ off[i - 1] + Len(ls[i]) <= a
      BY <1>4, <1>5, <3>1
    <3>4. \A j \in 1 .. Len(ls[i]) :
            off[i - 1] + j \in 1 .. a + b /\ off[i - 1] + j <= a
      BY <1>2, <3>3
    <3>5. \A j \in 1 .. Len(ls[i]) : t[off[i - 1] + j] = s[off[i - 1] + j]
      BY <1>3, <3>4
    <3> QED BY <1>4, <3>1, <3>2, <3>5
  <2>2. CASE i = m + 1
    <3>1. o[i - 1] = a /\ o[i] = a + b /\ ls[i] = l /\ Len(ls[i]) = b
      <4>1. i - 1 = m /\ m \in 0 .. m
        BY <2>2
      <4>2. o[m] = a
        BY <1>4, <1>7, <4>1
      <4> QED BY <1>6, <2>2, <4>1, <4>2 DEF b
    <3>2. \A j \in 1 .. b : a + j \in 1 .. a + b /\ ~(a + j <= a) /\ (a + j) - a = j
      BY <1>2
    <3>3. \A j \in 1 .. b : t[a + j] = l[j]
      BY <1>3, <3>2
    <3> HIDE DEF l
    <3> QED BY <3>1, <3>3
  <2> QED BY <2>1, <2>2
<1>10. Layout(t, o, ls, m + 1)
  BY <1>3, <1>6, <1>8, <1>9 DEF Layout
<1> QED BY <1>10 DEF t

\* FlattenSeq of sequences is what it seems.
LEMMA FlattenLayout ==
  ASSUME NEW S, NEW ls \in Seq(Seq(S))
  PROVE  FlattenSeq(ls) \in Seq(S) /\ \E off : Layout(FlattenSeq(ls), off, ls, Len(ls))
<1> DEFINE n == Len(ls)
<1>1. n \in Nat
  BY LenProperties
<1>2. CASE n = 0
  <2>1. FlattenSeq(ls) = <<>>
    BY <1>2, EmptySeq DEF FlattenSeq
  <2>2. Layout(<<>>, [i \in 0 .. 0 |-> 0], ls, 0)
    BY DEF Layout
  <2> QED BY <1>2, <2>1, <2>2
<1>3. CASE n # 0
  <2> DEFINE flatten == CHOOSE g : g = [i \in 1 .. n |-> IF i = 1 THEN ls[i] ELSE g[i - 1] \o ls[i]]
             Start(i) == i \in 1 .. n => flatten[i] \in Seq(S) /\ \E off : Layout(flatten[i], off, ls, i)
             T == {i \in Nat : Start(i)}
  <2>1. Flattens(flatten, ls, n)
    BY <1>1, FlatteningExists DEF Flattens
  <2>2. FlattenSeq(ls) = flatten[n]
    BY <1>3 DEF FlattenSeq
  <2> HIDE DEF flatten
  <2>3. \A i \in 1 .. n : flatten[i] = IF i = 1 THEN ls[i] ELSE flatten[i - 1] \o ls[i]
    BY <2>1 DEF Flattens
  <2>4. 0 \in T
    OBVIOUS
  <2>5. ASSUME NEW m \in T PROVE m + 1 \in T
    <3> SUFFICES ASSUME m + 1 \in 1 .. n
                 PROVE  /\ flatten[m + 1] \in Seq(S)
                        /\ \E off : Layout(flatten[m + 1], off, ls, m + 1)
      OBVIOUS
    <3>1. ls[m + 1] \in Seq(S)
      BY ElementOfSeq
    <3>2. CASE m = 0
      <4>1. Layout(<<>>, [i \in 0 .. 0 |-> 0], ls, 0)
        BY DEF Layout
      <4>2. \E o : Layout(<<>> \o ls[m + 1], o, ls, m + 1)
        <5>1. 0 \in Nat /\ 0 + 1 \in 1 .. Len(ls) /\ <<>> \in Seq(S)
          BY <3>2
        <5>2. \E o : Layout(<<>> \o ls[0 + 1], o, ls, 0 + 1)
          BY <4>1, <5>1, LayoutGrows
        <5> QED BY <3>2, <5>2
      <4>3. flatten[m + 1] = ls[m + 1] /\ <<>> \o ls[m + 1] = ls[m + 1]
        BY <2>3, <3>1, <3>2
      <4> QED BY <3>1, <4>2, <4>3
    <3>3. CASE m # 0
      <4>1. m \in 1 .. n
        BY <1>1, <3>3
      <4>2. flatten[m] \in Seq(S) /\ \E off : Layout(flatten[m], off, ls, m)
        BY <4>1
      <4>3. \E o : Layout(flatten[m] \o ls[m + 1], o, ls, m + 1)
        BY <4>2, LayoutGrows
      <4>4. flatten[m + 1] = flatten[m] \o ls[m + 1]
        <5>1. m + 1 # 1 /\ (m + 1) - 1 = m
          BY <3>3
        <5> QED BY <2>3, <5>1
      <4> QED BY <3>1, <4>2, <4>3, <4>4
    <3> QED BY <3>2, <3>3
  <2> HIDE DEF T
  <2>6. \A i \in Nat : i \in T
    <3>1. T \in SUBSET Nat
      BY DEF T
    <3> QED BY <2>4, <2>5, <3>1, SetInduction
  <2>7. Start(n)
    BY <1>1, <2>6 DEF T
  <2>8. n \in 1 .. n
    BY <1>1, <1>3
  <2> QED BY <2>2, <2>7, <2>8
<1> QED BY <1>2, <1>3
-----------------------------------------------------------------------------
(* Types.                                                                   *)

\* off has the ends of the lines of a client in the text that it sends.
LineEnds(c, off) ==
  /\ off \in [0 .. Len(Lines[c]) -> Nat] /\ off[0] = 0
  /\ off[Len(Lines[c])] = Len(Text[c])
  /\ \A i \in 0 .. Len(Lines[c]) : off[i] <= Len(Text[c])
  /\ \A i \in 1 .. Len(Lines[c]) :
       /\ off[i] = off[i - 1] + Len(Lines[c][i]) + 1
       /\ \A j \in 1 .. Len(Lines[c][i]) : Text[c][off[i - 1] + j] = Lines[c][i][j]
       /\ Text[c][off[i]] = Newline

\* The text of a client is its lines, each with its newline.
LEMMA TextLayout ==
  ASSUME NEW c \in Conns
  PROVE  Text[c] \in Seq(Bytes) /\ \E off : LineEnds(c, off)
<1> DEFINE n == Len(Lines[c])
           ls == [i \in DOMAIN Lines[c] |-> Append(Lines[c][i], Newline)]
<1>1. Lines[c] \in Seq(Seq(Characters)) /\ n \in Nat /\ DOMAIN Lines[c] = 1 .. n
  BY LinesAssumption, LenProperties
<1>2. \A i \in 1 .. n : Lines[c][i] \in Seq(Characters)
  BY <1>1, ElementOfSeq
<1>3. ASSUME NEW i \in 1 .. n
      PROVE  /\ ls[i] \in Seq(Bytes) /\ Len(ls[i]) = Len(Lines[c][i]) + 1
             /\ Len(Lines[c][i]) \in Nat
             /\ \A j \in 1 .. Len(Lines[c][i]) : ls[i][j] = Lines[c][i][j]
             /\ ls[i][Len(Lines[c][i]) + 1] = Newline
  <2> DEFINE l == Lines[c][i]
  <2>1. l \in Seq(Bytes) /\ Newline \in Bytes /\ ls[i] = Append(l, Newline)
    <3>1. l \in Seq(Characters) /\ Characters \subseteq Bytes
      BY <1>2 DEF Bytes
    <3> QED BY <1>1, <3>1 DEF Bytes
  <2> HIDE DEF l, ls
  <2> QED BY <2>1, AppendProperties, LenProperties DEF l
<1>4. ls \in Seq(Seq(Bytes)) /\ Len(ls) = n
  <2>1. ls = [i \in 1 .. n |-> ls[i]]
    BY <1>1
  <2> HIDE DEF ls, n
  <2>2. ls \in [1 .. n -> Seq(Bytes)]
    BY <1>3, <2>1
  <2> QED BY <1>1, <2>2, SeqDef, LenProperties
<1>5. Text[c] = FlattenSeq(ls)
  BY DEF Text
<1> HIDE DEF ls
<1>6. Text[c] \in Seq(Bytes) /\ \E off : Layout(Text[c], off, ls, n)
  BY <1>4, <1>5, FlattenLayout
<1>7. PICK off : Layout(Text[c], off, ls, n)
  BY <1>6
<1>8. /\ off \in [0 .. n -> Nat] /\ off[0] = 0 /\ off[n] = Len(Text[c])
      /\ \A i \in 0 .. n : off[i] <= off[n]
      /\ \A i \in 1 .. n :
           /\ off[i] = off[i - 1] + Len(ls[i])
           /\ \A j \in 1 .. Len(ls[i]) : Text[c][off[i - 1] + j] = ls[i][j]
  BY <1>7 DEF Layout
<1>9. ASSUME NEW i \in 1 .. n
      PROVE  /\ off[i] = off[i - 1] + Len(Lines[c][i]) + 1
             /\ \A j \in 1 .. Len(Lines[c][i]) : Text[c][off[i - 1] + j] = Lines[c][i][j]
             /\ Text[c][off[i]] = Newline
  <2> DEFINE a == Len(Lines[c][i])
             b == off[i - 1]
  <2>1. a \in Nat /\ Len(ls[i]) = a + 1 /\ b \in Nat
    <3>1. i - 1 \in 0 .. n
      BY <1>1
    <3> QED BY <1>3, <1>8, <3>1
  <2>2. \A j \in 1 .. a + 1 : Text[c][b + j] = ls[i][j]
    BY <1>8, <2>1
  <2>3. off[i] = b + (a + 1)
    BY <1>8, <2>1
  <2>4. (\A j \in 1 .. a : ls[i][j] = Lines[c][i][j]) /\ ls[i][a + 1] = Newline
    BY <1>3
  <2> HIDE DEF a, b
  <2>5. a + 1 \in 1 .. a + 1 /\ \A j \in 1 .. a : j \in 1 .. a + 1
    BY <2>1
  <2>6. off[i] = b + a + 1 /\ Text[c][off[i]] = Newline
    BY <2>1, <2>2, <2>3, <2>4, <2>5
  <2>7. \A j \in 1 .. a : Text[c][b + j] = Lines[c][i][j]
    BY <2>2, <2>4, <2>5
  <2> QED BY <2>6, <2>7 DEF a, b
<1>10. LineEnds(c, off)
  BY <1>8, <1>9 DEF LineEnds
<1> QED BY <1>6, <1>10

\* The types of what travels from a client to the server.
DataTypes ==
  /\ ss_ \in Seq(Bytes)
  /\ sent \in [Conns -> Nat] /\ \A c \in Conns : sent[c] <= Len(Text[c])
  /\ hungup \in [Conns -> BOOLEAN]
  /\ inbox \in [Conns -> Seq(Bytes)]
  /\ served \in [Conns -> Seq(Seq(Bytes))]

\* The types of the rest that no handover depends on.
StatusTypes ==
  /\ state \in {"setup", "loop", "failed"}
  /\ connected \in BOOLEAN
  /\ loop \in {"idle", "accept", "nodelay", "spawn", "log"}
  /\ crashed \in BOOLEAN
  /\ {raced, crossed, overlapped, brokeoff} \subseteq BOOLEAN
  /\ unserved \subseteq Conns

TypeInv == HandoverInv /\ DataTypes /\ StatusTypes

LEMMA TypesTogether == TypeInv => TypeOK
<1> SUFFICES ASSUME TypeInv PROVE TypeOK
  OBVIOUS
<1>1. HandoverTypes /\ DataTypes /\ StatusTypes
  BY Zenon DEF TypeInv, HandoverInv
<1> QED BY <1>1, Zenon DEF HandoverTypes, DataTypes, StatusTypes, TypeOK

LEMMA TypeInit == Init => TypeInv
<1> SUFFICES ASSUME Init PROVE TypeInv
  OBVIOUS
<1>1. DataTypes
  <2>1. \A c \in Conns : Len(Text[c]) \in Nat
    BY TextLayout, LenProperties
  <2>2. /\ ss_ = <<>> /\ sent = [c \in Conns |-> 0] /\ hungup = [c \in Conns |-> FALSE]
        /\ inbox = [c \in Conns |-> <<>>] /\ served = [c \in Conns |-> <<>>]
    BY Zenon DEF Init
  <2>3. \A c \in Conns : sent[c] <= Len(Text[c])
    BY <2>1, <2>2
  <2>4. sent \in [Conns -> Nat] /\ inbox \in [Conns -> Seq(Bytes)]
        /\ served \in [Conns -> Seq(Seq(Bytes))] /\ ss_ \in Seq(Bytes)
    BY <2>2
  <2>5. hungup \in [Conns -> BOOLEAN]
    BY <2>2, Zenon
  <2> QED BY <2>3, <2>4, <2>5, Zenon DEF DataTypes
<1>2. StatusTypes
  <2>1. {raced, crossed, overlapped, brokeoff} \subseteq BOOLEAN
    BY DEF Init
  <2> QED BY <2>1 DEF Init, StatusTypes
<1> QED BY <1>1, <1>2, HandoverInit, Zenon DEF TypeInv

LEMMA SentByte ==
  ASSUME DataTypes, NEW c \in Conns, sent[c] < Len(Text[c])
  PROVE  Text[c][sent[c] + 1] \in Bytes /\ sent[c] + 1 \in Nat /\ sent[c] + 1 <= Len(Text[c])
<1> DEFINE t == Text[c]
           p == sent[c]
           n == Len(t)
<1>1. t \in Seq(Bytes) /\ p \in Nat
  BY TextLayout DEF DataTypes
<1>2. n \in Nat
  BY <1>1, LenProperties
<1>3. p < n
  OBVIOUS
<1> HIDE DEF t, p, n
<1>4. p + 1 \in 1 .. n /\ p + 1 \in Nat /\ p + 1 <= n
  BY <1>1, <1>2, <1>3
<1>5. t[p + 1] \in Bytes
  BY <1>1, <1>4, ElementOfSeq DEF n
<1> QED BY <1>4, <1>5 DEF t, p, n

LEMMA DataNext == HandoverInv /\ DataTypes /\ [Next]_vars => DataTypes'
<1> SUFFICES ASSUME HandoverInv, DataTypes, [Next]_vars PROVE DataTypes'
  OBVIOUS
<1>1. CASE /\ ss_' = ss_ /\ inbox' = inbox /\ served' = served
           /\ sent' = sent /\ hungup' = hungup
  BY <1>1, Zenon DEF DataTypes
<1>2. CASE UNCHANGED vars \/ Setup \/ Loop \/ Network
  BY <1>1, <1>2, Zenon DEF vars, server, clients, Setup, Loop, EnterLoop, NothingToAccept,
     Accept, NoDelay, Spawn, LogAccepted, Network
<1>3. ASSUME NEW c \in Conns, TaskStart(c) \/ ReadNull(c) \/ Close(c) \/ Forget(c) \/ Connect(c)
      PROVE  DataTypes'
  BY <1>1, <1>3, Zenon DEF TaskStart, ReadNull, Close, Forget, Connect, clients, server
<1>4. ASSUME NEW c \in Conns, ReadByte(c) PROVE DataTypes'
  <2> DEFINE s == client_[c]
             b == Head(inbox[s])
  <2>1. /\ s # None /\ inbox[s] # <<>> /\ inbox' = [inbox EXCEPT ![s] = Tail(@)]
        /\ ss_' = ss_ \/ ss_' = Append(ss_, b)
        /\ served' = served /\ sent' = sent /\ hungup' = hungup
    BY <1>4, Zenon DEF ReadByte, clients
  <2>2. s \in Conns
    BY <2>1 DEF HandoverInv, HandoverTypes
  <2>3. inbox[s] \in Seq(Bytes)
    BY <2>2 DEF DataTypes
  <2>4. b \in Bytes /\ Tail(inbox[s]) \in Seq(Bytes)
    BY <2>1, <2>3, HeadTailProperties
  <2>5. inbox' \in [Conns -> Seq(Bytes)]
    BY <2>1, <2>2, <2>4 DEF DataTypes
  <2> HIDE DEF s, b
  <2>6. ss_' \in Seq(Bytes)
    <3>1. ss_ \in Seq(Bytes)
      BY Zenon DEF DataTypes
    <3>2. Append(ss_, b) \in Seq(Bytes)
      BY <2>4, <3>1, AppendProperties
    <3> QED BY <2>1, <3>1, <3>2, Zenon
  <2> QED BY <2>1, <2>5, <2>6, Zenon DEF DataTypes
<1>5. ASSUME NEW c \in Conns, Parse(c) PROVE DataTypes'
  <2>1. /\ served' = [served EXCEPT ![client_[c]] = Append(@, ss_)]
        /\ ss_' = ss_ /\ inbox' = inbox /\ sent' = sent /\ hungup' = hungup
    BY <1>5, Zenon DEF Parse, clients
  <2>2. served \in [Conns -> Seq(Seq(Bytes))] /\ ss_ \in Seq(Bytes)
    BY Zenon DEF DataTypes
  <2>3. \A d \in Conns : Append(served[d], ss_) \in Seq(Seq(Bytes))
    <3> TAKE d \in Conns
    <3>1. served[d] \in Seq(Seq(Bytes))
      BY <2>2
    <3> QED BY <2>2, <3>1, AppendProperties
  <2>4. served' \in [Conns -> Seq(Seq(Bytes))]
    BY <2>1, <2>2, <2>3
  <2> QED BY <2>1, <2>4, Zenon DEF DataTypes
<1>6. ASSUME NEW c \in Conns, ClearLine(c) PROVE DataTypes'
  <2>1. ss_' = <<>> /\ served' = served /\ inbox' = inbox /\ sent' = sent /\ hungup' = hungup
    BY <1>6, Zenon DEF ClearLine, clients
  <2>2. ss_' \in Seq(Bytes)
    BY <2>1
  <2> QED BY <2>1, <2>2, Zenon DEF DataTypes
<1>7. ASSUME NEW c \in Conns, Send(c) PROVE DataTypes'
  <2> DEFINE b == Text[c][sent[c] + 1]
  <2>1. /\ sent[c] < Len(Text[c])
        /\ sent' = [sent EXCEPT ![c] = @ + 1] /\ inbox' = [inbox EXCEPT ![c] = Append(@, b)]
        /\ ss_' = ss_ /\ served' = served /\ hungup' = hungup
    BY <1>7, Zenon DEF Send, server
  <2>2. b \in Bytes /\ sent[c] + 1 \in Nat /\ sent[c] + 1 <= Len(Text[c])
    BY <2>1, SentByte
  <2> HIDE DEF b
  <2>3. inbox' \in [Conns -> Seq(Bytes)] /\ sent' \in [Conns -> Nat]
    BY <2>1, <2>2 DEF DataTypes
  <2>4. \A d \in Conns : sent'[d] <= Len(Text[d])
    BY <2>1, <2>2 DEF DataTypes
  <2> QED BY <2>1, <2>3, <2>4, Zenon DEF DataTypes
<1>8. ASSUME NEW c \in Conns, HangUp(c) PROVE DataTypes'
  <2>1. /\ hungup' = [hungup EXCEPT ![c] = TRUE]
        /\ ss_' = ss_ /\ served' = served /\ inbox' = inbox /\ sent' = sent
    BY <1>8, Zenon DEF HangUp, server
  <2>2. hungup' \in [Conns -> BOOLEAN]
    BY <2>1 DEF DataTypes
  <2> QED BY <2>1, <2>2, Zenon DEF DataTypes
<1> QED BY <1>2, <1>3, <1>4, <1>5, <1>6, <1>7, <1>8, Zenon DEF Next, Task

LEMMA StatusNext == HandoverInv /\ StatusTypes /\ [Next]_vars => StatusTypes'
<1> SUFFICES ASSUME HandoverInv, StatusTypes, [Next]_vars PROVE StatusTypes'
  OBVIOUS
<1>1. CASE UNCHANGED <<state, connected, loop, crashed, raced, crossed, overlapped, brokeoff,
                       unserved>>
  BY <1>1, Zenon DEF StatusTypes
<1>2. CASE UNCHANGED vars
  BY <1>1, <1>2, Zenon DEF vars, server, history
<1>3. CASE Setup \/ EnterLoop \/ NothingToAccept \/ Network
  <2>1. UNCHANGED <<crashed, raced, crossed, overlapped, brokeoff, unserved>>
    BY <1>3, Zenon DEF Setup, EnterLoop, NothingToAccept, Network, server, history
  <2>2. state' \in {"setup", "loop", "failed"} /\ loop' \in {"idle", "accept", "nodelay", "spawn", "log"}
    BY <1>3 DEF Setup, EnterLoop, NothingToAccept, Network, server, StatusTypes
  <2>3. connected' \in BOOLEAN
    <3>1. connected' = connected \/ connected' = ~connected
      BY <1>3, Zenon DEF Setup, EnterLoop, NothingToAccept, Network
    <3> QED BY <3>1 DEF StatusTypes
  <2> QED BY <2>1, <2>2, <2>3, Zenon DEF StatusTypes
<1>4. CASE Accept
  <2>1. /\ state' = state /\ connected' = connected /\ crashed' = crashed /\ crossed' = crossed
        /\ brokeoff' = brokeoff /\ unserved' = unserved /\ loop' = "nodelay"
    BY <1>4, Zenon DEF Accept
  <2>2. raced' \in BOOLEAN /\ overlapped' \in BOOLEAN
    BY <1>4, Zenon DEF Accept
  <2> QED BY <2>1, <2>2 DEF StatusTypes
<1>5. CASE NoDelay \/ LogAccepted \/ Spawn
  <2>1. /\ state' = state /\ connected' = connected /\ raced' = raced /\ crossed' = crossed
        /\ overlapped' = overlapped /\ brokeoff' = brokeoff
        /\ loop' \in {"idle", "spawn", "log", "accept"}
    BY <1>5 DEF NoDelay, LogAccepted, Spawn, history
  <2>2. crashed' = (shared_socket = None) \/ crashed' = crashed
    BY <1>5, Zenon DEF NoDelay, LogAccepted, Spawn
  <2>3. crashed' \in BOOLEAN
    BY <2>2, Zenon DEF StatusTypes
  <2>4. unserved' = unserved \/ (sock \in Conns /\ unserved' = unserved \cup {sock})
    BY <1>5 DEF NoDelay, LogAccepted, Spawn, history, HandoverInv, HandoverTypes
  <2>5. unserved' \subseteq Conns
    BY <2>4 DEF StatusTypes
  <2>6. loop' \in {"idle", "accept", "nodelay", "spawn", "log"}
    BY <2>1
  <2> QED BY <2>1, <2>3, <2>5, <2>6, Zenon DEF StatusTypes
<1>6. ASSUME NEW c \in Conns, Task(c) \/ Connect(c) \/ Send(c) \/ HangUp(c) PROVE StatusTypes'
  <2>1. /\ state' = state /\ connected' = connected /\ loop' = loop /\ raced' = raced
        /\ overlapped' = overlapped /\ unserved' = unserved
    BY <1>6, Zenon DEF Task, TaskStart, ReadNull, ReadByte, Parse, ClearLine, Close, Forget,
       Connect, Send, HangUp, server, history
  <2>2. crashed' = crashed \/ crashed' = TRUE
    BY <1>6, Zenon DEF Task, TaskStart, ReadNull, ReadByte, Parse, ClearLine, Close, Forget,
       Connect, Send, HangUp, server
  <2>3. \/ crossed' = crossed
        \/ crossed' = (\/ crossed \/ loop \in {"nodelay", "spawn", "log"}
                       \/ \E d \in Conns : task[d] = "start")
    BY <1>6, Zenon DEF Task, TaskStart, ReadNull, ReadByte, Parse, ClearLine, Close, Forget,
       Connect, Send, HangUp, history
  <2>4. \/ brokeoff' = brokeoff
        \/ brokeoff' = (brokeoff \/ (sent[c] > 0 /\ Text[c][sent[c]] # Newline))
    BY <1>6, Zenon DEF Task, TaskStart, ReadNull, ReadByte, Parse, ClearLine, Close, Forget,
       Connect, Send, HangUp, history
  <2>5. crashed' \in BOOLEAN /\ crossed' \in BOOLEAN /\ brokeoff' \in BOOLEAN
    BY <2>2, <2>3, <2>4, Zenon DEF StatusTypes
  <2> QED BY <2>1, <2>5 DEF StatusTypes
<1> QED BY <1>2, <1>3, <1>4, <1>5, <1>6, Zenon DEF Next, Loop

LEMMA TypeAlways == Spec => []TypeInv
<1>1. TypeInv /\ [Next]_vars => TypeInv'
  BY HandoverNext, DataNext, StatusNext, Zenon DEF TypeInv
<1> QED BY TypeInit, <1>1, PTL DEF Spec

\* Every variable of the server, the network and the clients keeps its type;
\* no more is ever sent than a client has to send.
THEOREM TypeCorrect == Spec => []TypeOK
  BY TypesTogether, TypeAlways, PTL
-----------------------------------------------------------------------------
(* The lines.  First, sequences: a queue, a beginning, a rest.              *)

\* The queue q has elements of S, each once.
QueueOf(q, S) ==
  /\ \A i \in 1 .. Len(q) : q[i] \in S
  /\ \A i, j \in 1 .. Len(q) : q[i] = q[j] => i = j

LEMMA QueueTail ==
  ASSUME NEW D, NEW q \in Seq(D), q # <<>>, NEW S, QueueOf(q, S)
  PROVE  Head(q) \in S /\ QueueOf(Tail(q), S \ {Head(q)})
<1> DEFINE n == Len(q)
           r == Tail(q)
<1>1. /\ n \in Nat \ {0} /\ Head(q) = q[1] /\ Len(r) = n - 1
      /\ \A i \in 1 .. n - 1 : r[i] = q[i + 1]
  BY HeadTailProperties, EmptySeq, LenProperties
<1>2. /\ \A i \in 1 .. n : q[i] \in S
      /\ \A i, j \in 1 .. n : q[i] = q[j] => i = j
  BY DEF QueueOf
<1> HIDE DEF n, r
<1>3. 1 \in 1 .. n /\ \A i \in 1 .. n - 1 : i + 1 \in 1 .. n /\ i + 1 # 1
  BY <1>1
<1>4. \A i \in 1 .. n - 1 : r[i] \in S \ {q[1]}
  BY <1>1, <1>2, <1>3
<1>5. ASSUME NEW i \in 1 .. n - 1, NEW j \in 1 .. n - 1, r[i] = r[j]
      PROVE  i = j
  <2>1. i + 1 = j + 1
    BY <1>1, <1>2, <1>3, <1>5
  <2> QED BY <2>1
<1>6. QueueOf(r, S \ {q[1]})
  BY <1>1, <1>4, <1>5 DEF QueueOf
<1> QED BY <1>1, <1>2, <1>3, <1>6 DEF r

LEMMA QueueAppend ==
  ASSUME NEW D, NEW q \in Seq(D), NEW S, QueueOf(q, S), NEW e \in D, e \notin S
  PROVE  QueueOf(Append(q, e), S \cup {e})
<1> DEFINE n == Len(q)
           r == Append(q, e)
<1>1. /\ n \in Nat /\ Len(r) = n + 1 /\ r[n + 1] = e
      /\ \A i \in 1 .. n : r[i] = q[i]
  BY AppendProperties, LenProperties
<1>2. /\ \A i \in 1 .. n : q[i] \in S
      /\ \A i, j \in 1 .. n : q[i] = q[j] => i = j
  BY DEF QueueOf
<1> HIDE DEF n, r
<1>3. \A i \in 1 .. n + 1 : i \in 1 .. n \/ i = n + 1
  BY <1>1
<1>4. \A i \in 1 .. n + 1 : r[i] \in S \cup {e}
  BY <1>1, <1>2, <1>3
<1>5. \A i, j \in 1 .. n + 1 : r[i] = r[j] => i = j
  BY <1>1, <1>2, <1>3
<1>6. QueueOf(r, S \cup {e})
  BY <1>1, <1>4, <1>5 DEF QueueOf
<1> QED BY <1>6 DEF r

Begins(s, t) == Len(s) <= Len(t) /\ \A i \in 1 .. Len(s) : s[i] = t[i]

LEMMA BeginningIsPrefix ==
  ASSUME NEW S, NEW s \in Seq(S), NEW t \in Seq(S), Begins(s, t)
  PROVE  IsPrefix(s, t)
<1> DEFINE m == Len(s)
           n == Len(t)
<1>1. m \in Nat /\ n \in Nat /\ m <= n /\ \A i \in 1 .. m : s[i] = t[i]
  BY LenProperties DEF Begins
<1>2. SubSeq(s, 1, m) = [i \in 1 .. m |-> s[i]] /\ SubSeq(t, 1, m) = [i \in 1 .. m |-> t[i]]
  BY <1>1
<1>3. SubSeq(s, 1, m) = SubSeq(t, 1, m)
  BY <1>1, <1>2
<1> QED BY <1>1, <1>3 DEF IsPrefix

\* A beginning grows by the next element, until it is the whole.
LEMMA BeginningGrows ==
  ASSUME NEW S, NEW s \in Seq(S), NEW t \in Seq(S), Begins(s, t),
         NEW e, Len(s) < Len(t), e = t[Len(s) + 1]
  PROVE  Begins(Append(s, e), t) /\ Len(Append(s, e)) = Len(s) + 1
<1> DEFINE m == Len(s)
           n == Len(t)
           r == Append(s, e)
<1>1. m \in Nat /\ n \in Nat /\ m < n /\ \A i \in 1 .. m : s[i] = t[i]
  BY LenProperties DEF Begins
<1>2. e \in S
  <2>1. m + 1 \in 1 .. n
    BY <1>1
  <2> QED BY <2>1, ElementOfSeq
<1>3. Len(r) = m + 1 /\ r[m + 1] = e /\ \A i \in 1 .. m : r[i] = s[i]
  BY <1>2, AppendProperties
<1> HIDE DEF m, n, r
<1>4. \A i \in 1 .. m + 1 : i \in 1 .. m \/ i = m + 1
  BY <1>1
<1>5. e = t[m + 1]
  BY DEF m
<1>6. m + 1 <= n /\ \A i \in 1 .. m + 1 : r[i] = t[i]
  BY <1>1, <1>3, <1>4, <1>5
<1>7. Begins(r, t)
  BY <1>3, <1>6 DEF Begins, n
<1> QED BY <1>3, <1>7 DEF r, m

LEMMA BeginningIsAll ==
  ASSUME NEW S, NEW s \in Seq(S), NEW t \in Seq(S), Begins(s, t), ~(Len(s) < Len(t))
  PROVE  s = t
<1> DEFINE m == Len(s)
           n == Len(t)
<1>1. m \in Nat /\ n \in Nat /\ m = n /\ \A i \in 1 .. m : s[i] = t[i]
  BY LenProperties DEF Begins
<1> HIDE DEF m, n
<1>2. s = [i \in 1 .. m |-> s[i]] /\ t = [i \in 1 .. n |-> t[i]]
  BY LenProperties DEF m, n
<1> QED BY <1>1, <1>2

\* q is what comes after the first p elements of t, up to the element m.
Rest(q, t, p, m) ==
  /\ p \in Nat /\ p + Len(q) = m
  /\ \A j \in 1 .. Len(q) : q[j] = t[p + j]

LEMMA RestTail ==
  ASSUME NEW S, NEW q \in Seq(S), q # <<>>, NEW t, NEW p, NEW m \in Nat, Rest(q, t, p, m)
  PROVE  Head(q) = t[p + 1] /\ p + 1 <= m /\ Rest(Tail(q), t, p + 1, m)
<1> DEFINE n == Len(q)
           r == Tail(q)
<1>1. /\ n \in Nat \ {0} /\ Head(q) = q[1] /\ Len(r) = n - 1
      /\ \A j \in 1 .. n - 1 : r[j] = q[j + 1]
  BY HeadTailProperties, EmptySeq, LenProperties
<1>2. p \in Nat /\ p + n = m /\ \A j \in 1 .. n : q[j] = t[p + j]
  BY DEF Rest
<1> HIDE DEF n, r
<1>3. 1 \in 1 .. n /\ p + 1 <= m /\ p + 1 \in Nat /\ (p + 1) + (n - 1) = m
  BY <1>1, <1>2
<1>4. \A j \in 1 .. n - 1 : j + 1 \in 1 .. n /\ p + (j + 1) = (p + 1) + j
  BY <1>1, <1>2
<1>5. \A j \in 1 .. n - 1 : r[j] = t[(p + 1) + j]
  BY <1>1, <1>2, <1>4
<1>6. Rest(r, t, p + 1, m)
  BY <1>1, <1>3, <1>5 DEF Rest
<1> QED BY <1>1, <1>2, <1>3, <1>6 DEF r

LEMMA RestAppend ==
  ASSUME NEW S, NEW q \in Seq(S), NEW t, NEW p, NEW m \in Nat, Rest(q, t, p, m),
         NEW e \in S, e = t[m + 1]
  PROVE  Rest(Append(q, e), t, p, m + 1)
<1> DEFINE n == Len(q)
           r == Append(q, e)
<1>1. /\ n \in Nat /\ Len(r) = n + 1 /\ r[n + 1] = e
      /\ \A j \in 1 .. n : r[j] = q[j]
  BY AppendProperties, LenProperties
<1>2. p \in Nat /\ p + n = m /\ \A j \in 1 .. n : q[j] = t[p + j]
  BY DEF Rest
<1> HIDE DEF n, r
<1>3. p + (n + 1) = m + 1
  BY <1>1, <1>2
<1>4. \A j \in 1 .. n + 1 : j \in 1 .. n \/ j = n + 1
  BY <1>1
<1>5. \A j \in 1 .. n + 1 : r[j] = t[p + j]
  BY <1>1, <1>2, <1>3, <1>4
<1>6. Rest(r, t, p, m + 1)
  BY <1>1, <1>2, <1>3, <1>5 DEF Rest
<1> QED BY <1>6 DEF r

\* Where each line of a client ends in its text.
LineEnd(c) == CHOOSE off : LineEnds(c, off)

LEMMA LineEndIs == \A c \in Conns : LineEnds(c, LineEnd(c))
  BY TextLayout DEF LineEnd

\* s is what has been gathered of the line after the first k lines of c.
GatheredOf(c, k, s) == s = <<>> \/ (k < Len(Lines[c]) /\ Begins(s, Lines[c][k + 1]))

\* The next byte continues the line, or is the newline after all of it.
LEMMA NextByte ==
  ASSUME NEW c \in Conns, NEW k \in 0 .. Len(Lines[c]), NEW s \in Seq(Bytes),
         GatheredOf(c, k, s),
         NEW p, p = LineEnd(c)[k] + Len(s), p + 1 <= Len(Text[c]),
         NEW b, b = Text[c][p + 1]
  PROVE  /\ k < Len(Lines[c])
         /\ \/ /\ b # Newline
               /\ GatheredOf(c, k, Append(s, b))
               /\ LineEnd(c)[k] + Len(Append(s, b)) = p + 1
            \/ /\ b = Newline /\ s = Lines[c][k + 1]
               /\ LineEnd(c)[k + 1] = p + 1
<1> DEFINE n == Len(Lines[c])
           off == LineEnd(c)
           t == Text[c]
           a == Len(t)
           line == Lines[c][k + 1]
           l == Len(line)
           m == Len(s)
<1>1. n \in Nat /\ a \in Nat /\ m \in Nat /\ k \in Nat
  <2>1. Lines[c] \in Seq(Seq(Characters)) /\ t \in Seq(Bytes)
    BY LinesAssumption, TextLayout
  <2> QED BY <2>1, LenProperties
<1>2. /\ off \in [0 .. n -> Nat] /\ off[n] = a
      /\ \A i \in 1 .. n :
           /\ off[i] = off[i - 1] + Len(Lines[c][i]) + 1
           /\ \A j \in 1 .. Len(Lines[c][i]) : t[off[i - 1] + j] = Lines[c][i][j]
           /\ t[off[i]] = Newline
  BY LineEndIs, Zenon DEF LineEnds
<1>3. p = off[k] + m /\ p + 1 <= a /\ b = t[p + 1]
  OBVIOUS
<1>4. s = <<>> \/ (k < n /\ Begins(s, line))
  BY DEF GatheredOf
<1>5. s = <<>> => m = 0
  OBVIOUS
<1> HIDE DEF n, off, a, m, t
<1>6. off[k] \in Nat /\ p \in Nat
  <2>1. k \in 0 .. n
    BY DEF n
  <2>2. off[k] \in Nat
    BY <1>2, <2>1
  <2> QED BY <1>1, <1>3, <2>2
<1>7. k < n
  <2>1. CASE k = n
    BY <1>1, <1>2, <1>3, <1>4, <1>5, <1>6, <2>1
  <2>2. k <= n
    BY <1>1 DEF n
  <2> QED BY <1>1, <2>1, <2>2
<1>8. k + 1 \in 1 .. n /\ (k + 1) - 1 = k
  BY <1>1, <1>7
<1>9. line \in Seq(Characters) /\ line \in Seq(Bytes) /\ l \in Nat
  <2>1. Lines[c] \in Seq(Seq(Characters))
    BY LinesAssumption
  <2>2. line \in Seq(Characters)
    BY <1>8, <2>1, ElementOfSeq DEF n
  <2>3. Characters \subseteq Bytes
    BY DEF Bytes
  <2> QED BY <2>2, <2>3, LenProperties
<1>10. /\ off[k + 1] = off[k] + l + 1 /\ t[off[k + 1]] = Newline
       /\ \A j \in 1 .. l : t[off[k] + j] = line[j]
  BY <1>2, <1>8
<1>11. Begins(s, line)
  <2>1. CASE s = <<>>
    <3>1. Len(s) = 0
      BY <2>1
    <3> HIDE DEF line
    <3> QED BY <1>9, <3>1 DEF Begins
  <2> QED BY <1>4, <2>1
<1>12. m <= l
  BY <1>11 DEF Begins, m
<1> HIDE DEF line, l
<1>13. CASE m < l
  <2>1. m + 1 \in 1 .. l /\ off[k] + (m + 1) = p + 1
    <3>1. m \in Nat /\ l \in Nat /\ m < l
      BY <1>1, <1>9, <1>13
    <3>2. m + 1 \in 1 .. l
      BY <3>1
    <3> DEFINE o == off[k]
    <3>3. o \in Nat /\ p = o + m
      BY <1>3, <1>6
    <3> HIDE DEF o
    <3>4. o + (m + 1) = p + 1
      BY <3>1, <3>3
    <3> QED BY <3>2, <3>4 DEF o
  <2>2. b = line[m + 1]
    BY <1>3, <1>10, <2>1
  <2>3. b \in Characters
    BY <1>9, <2>1, <2>2, ElementOfSeq DEF l
  <2>4. b # Newline
    BY <2>3, LinesAssumption
  <2>5. Begins(Append(s, b), line) /\ Len(Append(s, b)) = m + 1
    BY <1>9, <1>11, <1>13, <2>2, BeginningGrows DEF m, l
  <2>6. GatheredOf(c, k, Append(s, b))
    BY <1>7, <2>5 DEF GatheredOf, line, n
  <2>7. off[k] + Len(Append(s, b)) = p + 1
    BY <2>1, <2>5
  <2> QED BY <1>7, <2>4, <2>6, <2>7 DEF n, off
<1>14. CASE ~(m < l)
  <2>1. m = l
    BY <1>1, <1>9, <1>12, <1>14
  <2>2. s = line
    BY <1>9, <1>11, <1>14, BeginningIsAll DEF m, l
  <2>3. off[k + 1] = p + 1
    BY <1>3, <1>6, <1>9, <1>10, <2>1
  <2>4. b = Newline
    BY <1>3, <1>10, <2>3
  <2> QED BY <1>7, <2>2, <2>3, <2>4 DEF n, off, line
<1> QED BY <1>13, <1>14

\* Where a line has ended, nothing of the next is gathered.
LEMMA NothingGathered ==
  ASSUME NEW c \in Conns, NEW k \in 0 .. Len(Lines[c]), NEW s \in Seq(Bytes),
         GatheredOf(c, k, s),
         NEW p, p = LineEnd(c)[k] + Len(s), p = 0 \/ Text[c][p] = Newline
  PROVE  s = <<>>
<1> SUFFICES ASSUME s # <<>> PROVE FALSE
  OBVIOUS
<1> DEFINE n == Len(Lines[c])
           off == LineEnd(c)
           line == Lines[c][k + 1]
           l == Len(line)
           m == Len(s)
<1>1. n \in Nat /\ m \in Nat \ {0} /\ k \in Nat
  <2>1. Lines[c] \in Seq(Seq(Characters))
    BY LinesAssumption
  <2> QED BY <2>1, LenProperties, EmptySeq
<1>2. k < n /\ Begins(s, line)
  BY DEF GatheredOf
<1>3. /\ off \in [0 .. n -> Nat]
      /\ \A i \in 1 .. n :
           \A j \in 1 .. Len(Lines[c][i]) : Text[c][off[i - 1] + j] = Lines[c][i][j]
  BY LineEndIs, Zenon DEF LineEnds
<1>4. p = off[k] + m
  OBVIOUS
<1> HIDE DEF n, off, m
<1>5. k + 1 \in 1 .. n /\ (k + 1) - 1 = k /\ k \in 0 .. n
  BY <1>1, <1>2
<1>6. line \in Seq(Characters) /\ l \in Nat
  <2>1. Lines[c] \in Seq(Seq(Characters))
    BY LinesAssumption
  <2> QED BY <1>5, <2>1, ElementOfSeq, LenProperties DEF n
<1>7. \A j \in 1 .. l : Text[c][off[k] + j] = line[j]
  BY <1>3, <1>5
<1>8. m <= l
  BY <1>2 DEF Begins, m
<1> HIDE DEF line, l
<1>9. m \in 1 .. l /\ off[k] \in Nat /\ p # 0
  BY <1>1, <1>3, <1>4, <1>5, <1>6, <1>8
<1>10. line[m] \in Characters /\ Text[c][p] = line[m]
  BY <1>4, <1>6, <1>7, <1>9, ElementOfSeq DEF l
<1> QED BY <1>9, <1>10, LinesAssumption
-----------------------------------------------------------------------------
(* While connections follow one another: nobody shares a socket, or ss_.    *)

Waiting == {c \in Conns : socket[c] = "waiting"}

\* At most one task is alive, it has the socket of its own connection, and
\* none is alive while the next one is on its way.
Apart ==
  /\ QueueOf(backlog, Waiting)
  /\ \A c \in Conns : socket[c] \in {"none", "waiting"} => task[c] = "none"
  /\ loop \in {"nodelay", "spawn"} =>
       /\ shared_socket = sock /\ socket[sock] = "open" /\ task[sock] = "none"
       /\ \A c \in Conns : ~Alive(c)
  /\ \A c, d \in Conns : Alive(c) /\ Alive(d) => c = d
  /\ \A c \in Conns : task[c] = "start" => shared_socket = c /\ socket[c] = "open"
  /\ \A c \in Conns : Reading(c) => client_[c] = c /\ socket[c] = "open"

LEMMA ApartInit == Init => Apart
<1> SUFFICES ASSUME Init PROVE Apart
  OBVIOUS
<1>1. backlog = <<>> /\ loop \notin {"nodelay", "spawn"}
  BY DEF Init
<1>2. \A c \in Conns : task[c] = "none"
  BY DEF Init
<1>3. QueueOf(backlog, Waiting)
  BY <1>1 DEF QueueOf
<1>4. \A c \in Conns : ~Alive(c) /\ task[c] # "start" /\ ~Reading(c)
  BY <1>2 DEF Alive, Reading
<1> QED BY <1>1, <1>2, <1>3, <1>4, Zenon DEF Apart

\* A step that touches neither the queue nor a socket nor a task.
LEMMA ApartStays ==
  ASSUME Apart,
         UNCHANGED <<backlog, socket, task, client_, sock, shared_socket>>,
         loop' \in {"nodelay", "spawn"} => loop \in {"nodelay", "spawn"}
  PROVE  Apart'
<1>1. Waiting' = Waiting /\ \A c \in Conns : (Alive(c)' <=> Alive(c)) /\ (Reading(c)' <=> Reading(c))
  BY Zenon DEF Waiting, Alive, Reading
<1>2. QueueOf(backlog, Waiting)'
  BY <1>1, Zenon DEF Apart, QueueOf
<1> QED BY <1>1, <1>2, Zenon DEF Apart

LEMMA ApartAccept ==
  ASSUME HandoverTypes, Apart, Accept, ~overlapped'
  PROVE  Apart'
<1> DEFINE c == Head(backlog)
<1>1. /\ backlog # <<>> /\ backlog' = Tail(backlog)
      /\ socket' = [socket EXCEPT ![c] = "open"]
      /\ sock' = c /\ shared_socket' = c /\ loop' = "nodelay"
      /\ task' = task /\ client_' = client_
  BY Zenon DEF Accept
<1>2. \A d \in Conns : ~Alive(d)
  BY Zenon DEF Accept
<1>3. backlog \in Seq(Conns) /\ socket \in [Conns -> {"none", "waiting", "open", "closed"}]
  BY Zenon DEF HandoverTypes
<1>4. c \in Waiting /\ QueueOf(backlog', Waiting \ {c})
  BY <1>1, <1>3, QueueTail, Zenon DEF Apart
<1>5. c \in Conns /\ socket[c] = "waiting"
  BY <1>4 DEF Waiting
<1> HIDE DEF c
<1>6. socket'[c] = "open" /\ \A d \in Conns : d # c => socket'[d] = socket[d]
  BY <1>1, <1>3, <1>5
<1>7. Waiting' = Waiting \ {c}
  BY <1>6 DEF Waiting
<1>8. QueueOf(backlog, Waiting)'
  BY <1>4, <1>7, Zenon DEF QueueOf
<1>9. task[c] = "none"
  BY <1>5 DEF Apart
<1>10. \A d \in Conns : socket'[d] \in {"none", "waiting"} => task'[d] = "none"
  BY <1>1, <1>6, <1>9, Zenon DEF Apart
<1>11. \A d \in Conns : ~Alive(d)' /\ task'[d] # "start" /\ ~Reading(d)'
  BY <1>1, <1>2 DEF Alive, Reading
<1> QED BY <1>1, <1>6, <1>8, <1>9, <1>10, <1>11, Zenon DEF Apart

LEMMA ApartSpawn ==
  ASSUME HandoverTypes, Apart, Spawn
  PROVE  Apart'
<1>1. /\ loop \in {"nodelay", "spawn", "log"} /\ loop \in {"nodelay", "spawn"}
      /\ loop' \notin {"nodelay", "spawn"}
      /\ UNCHANGED <<backlog, socket, client_, sock, shared_socket>>
      /\ task' = task \/ task' = [task EXCEPT ![sock] = "start"]
  BY DEF Spawn
<1>2. CASE task' = task
  BY <1>1, <1>2, ApartStays, Zenon
<1>3. CASE task' = [task EXCEPT ![sock] = "start"]
  <2>1. /\ sock \in Conns /\ shared_socket = sock /\ socket[sock] = "open"
        /\ \A c \in Conns : ~Alive(c)
    BY <1>1, Zenon DEF HandoverTypes, Apart
  <2>2. task'[sock] = "start" /\ \A c \in Conns : c # sock => task'[c] = task[c]
    BY <1>3, <2>1, Zenon DEF HandoverTypes
  <2>3. \A c \in Conns : ~Reading(c)'
    BY <2>1, <2>2 DEF Alive, Reading
  <2>4. \A c \in Conns : c # sock => ~Alive(c)' /\ task'[c] # "start"
    BY <2>1, <2>2 DEF Alive
  <2>5. QueueOf(backlog, Waiting)'
    <3>1. Waiting' = Waiting
      BY <1>1, Zenon DEF Waiting
    <3>2. QueueOf(backlog, Waiting) /\ backlog' = backlog
      BY <1>1, Zenon DEF Apart
    <3> QED BY <3>1, <3>2, Zenon DEF QueueOf
  <2>6. socket'[sock] \notin {"none", "waiting"}
    BY <1>1, <2>1
  <2>7. \A c \in Conns : socket'[c] \in {"none", "waiting"} => task'[c] = "none"
    BY <1>1, <2>2, <2>6, Zenon DEF Apart
  <2> QED BY <1>1, <2>1, <2>3, <2>4, <2>5, <2>7, Zenon DEF Apart
<1> QED BY <1>1, <1>2, <1>3, Zenon

\* A task that is alive goes to another place.
LEMMA ApartTask ==
  ASSUME HandoverTypes, Apart, NEW c \in Conns,
         TaskStart(c) \/ ReadByte(c) \/ Parse(c) \/ ClearLine(c) \/ Close(c) \/ Forget(c)
  PROVE  Apart'
<1>1. /\ task[c] \in {"start", "read", "parse", "clear", "forget"}
      /\ UNCHANGED <<backlog, sock, loop>>
  BY DEF TaskStart, ReadByte, Parse, ClearLine, Close, Forget, At
<1>2. Alive(c) /\ task[c] # "none"
  BY <1>1 DEF Alive
<1>3. loop \notin {"nodelay", "spawn"} /\ \A d \in Conns : d # c => ~Alive(d)
  BY <1>2, Zenon DEF Apart
<1>4. socket[c] \notin {"none", "waiting"}
  BY <1>2 DEF Apart
<1>5. ASSUME NEW d \in Conns, d # c PROVE ~Reading(d) /\ task[d] # "start" /\ ~Alive(d)
  BY <1>3, <1>5 DEF Alive, Reading
<1>6. ASSUME /\ task' \in [Conns -> Locations]
             /\ \A d \in Conns : d # c => task'[d] = task[d]
             /\ Waiting' = Waiting
             /\ \A d \in Conns : socket'[d] \in {"none", "waiting"} => socket[d] \in {"none", "waiting"}
             /\ task'[c] # "start"
             /\ Reading(c)' => client_'[c] = c /\ socket'[c] = "open"
      PROVE  Apart'
  <2>1. QueueOf(backlog, Waiting)'
    BY <1>1, <1>6, Zenon DEF Apart, QueueOf
  <2>2. \A d \in Conns : d # c => ~Alive(d)' /\ ~Reading(d)' /\ task'[d] # "start"
    BY <1>5, <1>6 DEF Alive, Reading
  <2>3. \A d \in Conns : socket'[d] \in {"none", "waiting"} => task'[d] = "none"
    BY <1>4, <1>6, Zenon DEF Apart
  <2> QED BY <1>1, <1>3, <1>6, <2>1, <2>2, <2>3, Zenon DEF Apart
<1>7. CASE TaskStart(c)
  <2>1. /\ client_' = [client_ EXCEPT ![c] = shared_socket] /\ socket' = socket
        /\ Goto(c, "read") /\ "read" \in Locations /\ task[c] = "start"
    BY <1>7 DEF TaskStart, At, Locations
  <2>2. /\ task' \in [Conns -> Locations] /\ task'[c] = "read"
        /\ \A d \in Conns : d # c => task'[d] = task[d]
    BY <2>1, Moved, Zenon
  <2>3. client_'[c] = c /\ socket'[c] = "open"
    BY <2>1, Zenon DEF Apart, HandoverTypes
  <2>4. Waiting' = Waiting
    BY <2>1, Zenon DEF Waiting
  <2>5. task'[c] # "start"
    BY <2>2
  <2> QED BY <1>6, <2>1, <2>2, <2>3, <2>4, <2>5, Zenon
<1>8. CASE ReadByte(c) \/ Parse(c) \/ ClearLine(c)
  <2>1. /\ UNCHANGED <<client_, socket>>
        /\ task[c] \in {"read", "parse", "clear"}
        /\ task' = task \/ \E place \in {"read", "parse", "clear"} : Goto(c, place)
    BY <1>8 DEF ReadByte, Parse, ClearLine, At
  <2>2. /\ task' \in [Conns -> Locations] /\ task'[c] \in {"read", "parse", "clear"}
        /\ \A d \in Conns : d # c => task'[d] = task[d]
    <3>1. \A place \in {"read", "parse", "clear"} : place \in Locations
      BY DEF Locations
    <3>2. task \in [Conns -> Locations]
      BY Zenon DEF HandoverTypes, Locations
    <3> QED BY <2>1, <3>1, <3>2, Moved, Zenon
  <2>3. client_'[c] = c /\ socket'[c] = "open"
    BY <2>1, Zenon DEF Apart, Reading
  <2>4. Waiting' = Waiting
    BY <2>1, Zenon DEF Waiting
  <2>5. task'[c] # "start"
    BY <2>2
  <2> QED BY <1>6, <2>1, <2>2, <2>3, <2>4, <2>5, Zenon
<1>9. CASE Close(c)
  <2>1. /\ socket' = [socket EXCEPT ![client_[c]] = "closed"]
        /\ Goto(c, "forget") /\ "forget" \in Locations /\ task[c] = "read"
    BY <1>9 DEF Close, At, Locations
  <2>2. /\ task' \in [Conns -> Locations] /\ task'[c] = "forget"
        /\ \A d \in Conns : d # c => task'[d] = task[d]
    BY <2>1, Moved, Zenon
  <2>3. client_[c] = c
    BY <2>1 DEF Apart, Reading
  <2>4. socket'[c] = "closed" /\ \A d \in Conns : d # c => socket'[d] = socket[d]
    BY <2>1, <2>3, Zenon DEF HandoverTypes
  <2>5. Waiting' = Waiting
    BY <1>4, <2>4 DEF Waiting
  <2>6. \A d \in Conns : socket'[d] \in {"none", "waiting"} => socket[d] \in {"none", "waiting"}
    BY <2>4
  <2>7. task'[c] # "start" /\ ~Reading(c)'
    BY <2>2 DEF Reading
  <2> QED BY <1>6, <2>2, <2>5, <2>6, <2>7, Zenon
<1>10. CASE Forget(c)
  <2>1. /\ socket' = socket
        /\ Goto(c, "deleted") /\ "deleted" \in Locations
    BY <1>10 DEF Forget, Locations
  <2>2. /\ task' \in [Conns -> Locations] /\ task'[c] = "deleted"
        /\ \A d \in Conns : d # c => task'[d] = task[d]
    BY <2>1, Moved, Zenon
  <2>3. Waiting' = Waiting
    BY <2>1, Zenon DEF Waiting
  <2>4. task'[c] # "start" /\ ~Reading(c)'
    BY <2>2 DEF Reading
  <2> QED BY <1>6, <2>1, <2>2, <2>3, <2>4, Zenon
<1> QED BY <1>7, <1>8, <1>9, <1>10

LEMMA ApartConnect ==
  ASSUME HandoverTypes, Apart, NEW c \in Conns, Connect(c)
  PROVE  Apart'
<1>1. /\ socket[c] = "none" /\ socket' = [socket EXCEPT ![c] = "waiting"]
      /\ backlog' = Append(backlog, c)
      /\ UNCHANGED <<task, client_, sock, shared_socket, loop>>
  BY Zenon DEF Connect, server
<1>2. socket'[c] = "waiting" /\ \A d \in Conns : d # c => socket'[d] = socket[d]
  BY <1>1, Zenon DEF HandoverTypes
<1>3. Waiting' = Waiting \cup {c} /\ c \notin Waiting
  BY <1>1, <1>2 DEF Waiting
<1>4. QueueOf(backlog', Waiting')
  <2>1. backlog \in Seq(Conns) /\ QueueOf(backlog, Waiting)
    BY Zenon DEF HandoverTypes, Apart
  <2>2. QueueOf(Append(backlog, c), Waiting \cup {c})
    BY <1>3, <2>1, QueueAppend, Zenon
  <2> QED BY <1>1, <1>3, <2>2, Zenon
<1>5. QueueOf(backlog, Waiting)'
  BY <1>4, Zenon DEF QueueOf
<1>6. task[c] = "none"
  BY <1>1 DEF Apart
<1>7. \A d \in Conns : (Alive(d)' <=> Alive(d)) /\ (Reading(d)' <=> Reading(d))
  BY <1>1, Zenon DEF Alive, Reading
<1>8. ~Alive(c) /\ ~Reading(c) /\ task[c] # "start" /\ socket[c] # "open"
  BY <1>1, <1>6 DEF Alive, Reading
<1>9. \A d \in Conns : socket'[d] \in {"none", "waiting"} => task'[d] = "none"
  BY <1>1, <1>2, <1>6, Zenon DEF Apart
<1>10. loop \in {"nodelay", "spawn"} => sock \in Conns /\ sock # c
  BY <1>8 DEF HandoverTypes, Apart
<1>11. loop' \in {"nodelay", "spawn"} =>
         /\ shared_socket' = sock' /\ socket'[sock'] = "open" /\ task'[sock'] = "none"
         /\ \A d \in Conns : ~Alive(d)'
  BY <1>1, <1>2, <1>7, <1>10, Zenon DEF Apart
<1>12. \A d \in Conns : socket[d] = "open" => socket'[d] = "open"
  BY <1>2, <1>8, Zenon
<1> QED BY <1>1, <1>5, <1>7, <1>9, <1>11, <1>12, Zenon DEF Apart

LEMMA ApartNext ==
  ASSUME HandoverTypes, ~overlapped => Apart, [Next]_vars
  PROVE  ~overlapped' => ~overlapped /\ Apart'
<1> SUFFICES ASSUME ~overlapped' PROVE ~overlapped /\ Apart'
  OBVIOUS
<1>1. CASE Accept
  <2>1. ~overlapped
    BY <1>1, Zenon DEF Accept
  <2> QED BY <1>1, <2>1, ApartAccept
<1>2. CASE ~Accept
  <2>1. overlapped' = overlapped
    BY <1>2, Zenon DEF Next, vars, history, Setup, Loop, EnterLoop, NothingToAccept, NoDelay, Spawn,
       LogAccepted, Network, Task, TaskStart, ReadNull, ReadByte, Parse, ClearLine, Close,
       Forget, Connect, Send, HangUp
  <2>2. Apart
    BY <2>1
  <2>3. CASE \/ UNCHANGED vars \/ Setup \/ EnterLoop \/ NothingToAccept \/ NoDelay \/ LogAccepted
             \/ Network \/ \E c \in Conns : Send(c) \/ HangUp(c) \/ ReadNull(c)
    <3>1. UNCHANGED <<backlog, socket, task, client_, sock, shared_socket>>
      BY <2>3, Zenon DEF vars, server, Setup, EnterLoop, NothingToAccept, NoDelay, LogAccepted,
         Network, Send, HangUp, ReadNull
    <3>2. loop' = loop \/ loop' \in {"accept", "idle"} \/ loop = "nodelay"
      BY <2>3 DEF vars, server, Setup, EnterLoop, NothingToAccept, NoDelay, LogAccepted,
         Network, Send, HangUp, ReadNull
    <3>3. loop' \in {"nodelay", "spawn"} => loop \in {"nodelay", "spawn"}
      BY <3>2
    <3> QED BY <2>1, <2>2, <3>1, <3>3, ApartStays
  <2> QED BY <1>2, <2>1, <2>2, <2>3, ApartSpawn, ApartTask, ApartConnect, Zenon DEF Next, Loop, Task
<1> QED BY <1>1, <1>2
-----------------------------------------------------------------------------
(* While, moreover, no client hangs up within a line: where each one is.    *)

\* What a client sent, what the server has read of it, and what it has parsed.
Progress(c) ==
  /\ Begins(served[c], Lines[c])
  /\ task[c] \in {"none", "start"} => served[c] = <<>> /\ Rest(inbox[c], Text[c], 0, sent[c])
  /\ task[c] = "read" =>
       /\ GatheredOf(c, Len(served[c]), ss_)
       /\ Rest(inbox[c], Text[c], LineEnd(c)[Len(served[c])] + Len(ss_), sent[c])
  /\ task[c] = "parse" =>
       /\ Len(served[c]) < Len(Lines[c]) /\ ss_ = Lines[c][Len(served[c]) + 1]
       /\ Rest(inbox[c], Text[c], LineEnd(c)[Len(served[c]) + 1], sent[c])
  /\ task[c] = "clear" => Rest(inbox[c], Text[c], LineEnd(c)[Len(served[c])], sent[c])

Gathered ==
  /\ \A c \in Conns : Progress(c)
  /\ (\A c \in Conns : ~Reading(c)) => ss_ = <<>>
  /\ \A c \in Conns : hungup[c] => sent[c] = 0 \/ Text[c][sent[c]] = Newline

LEMMA GatheredInit == Init => Gathered
<1> SUFFICES ASSUME Init PROVE Gathered
  OBVIOUS
<1>1. /\ ss_ = <<>>
      /\ \A c \in Conns : task[c] = "none" /\ served[c] = <<>> /\ inbox[c] = <<>>
                          /\ sent[c] = 0 /\ ~hungup[c]
  BY DEF Init
<1>2. ASSUME NEW c \in Conns PROVE Progress(c)
  <2>1. Len(Lines[c]) \in Nat
    BY LinesAssumption, LenProperties
  <2>2. Begins(<<>>, Lines[c])
    BY <2>1 DEF Begins
  <2>3. Rest(<<>>, Text[c], 0, 0)
    BY DEF Rest
  <2>4. task[c] # "read" /\ task[c] # "parse" /\ task[c] # "clear"
    BY <1>1
  <2> QED BY <1>1, <2>2, <2>3, <2>4, Zenon DEF Progress
<1> QED BY <1>1, <1>2, Zenon DEF Gathered

\* A connection that a step does not touch.
LEMMA ProgressStays ==
  ASSUME NEW c \in Conns, Progress(c),
         task'[c] = task[c], served'[c] = served[c], inbox'[c] = inbox[c], sent'[c] = sent[c],
         ss_' = ss_ \/ ~Reading(c)
  PROVE  Progress(c)'
<1>1. CASE ss_' = ss_
  BY <1>1, Zenon DEF Progress
<1>2. CASE ~Reading(c)
  <2>1. task'[c] # "read" /\ task'[c] # "parse" /\ task'[c] # "clear"
    BY <1>2 DEF Reading
  <2> QED BY <2>1, Zenon DEF Progress
<1> QED BY <1>1, <1>2

\* How many lines have been parsed, and their ends.
LEMMA Parsed ==
  ASSUME DataTypes, NEW c \in Conns, Progress(c)
  PROVE  /\ Len(served[c]) \in 0 .. Len(Lines[c])
         /\ Lines[c] \in Seq(Seq(Bytes)) /\ served[c] \in Seq(Seq(Bytes))
         /\ LineEnd(c)[Len(served[c])] \in Nat
<1>1. served[c] \in Seq(Seq(Bytes))
  BY DEF DataTypes
<1>2. Lines[c] \in Seq(Seq(Bytes))
  <2>1. Characters \subseteq Bytes /\ Lines[c] \in Seq(Seq(Characters))
    BY LinesAssumption DEF Bytes
  <2>2. Seq(Characters) \subseteq Seq(Bytes)
    BY <2>1
  <2> QED BY <2>1, <2>2
<1>3. Len(served[c]) \in 0 .. Len(Lines[c])
  <2>1. Len(served[c]) \in Nat /\ Len(Lines[c]) \in Nat
    BY <1>1, <1>2, LenProperties
  <2> QED BY <2>1 DEF Progress, Begins
<1>4. LineEnd(c) \in [0 .. Len(Lines[c]) -> Nat]
  BY LineEndIs, Zenon DEF LineEnds
<1>5. LineEnd(c)[Len(served[c])] \in Nat
  BY <1>3, <1>4, Zenon
<1> QED BY <1>1, <1>2, <1>3, <1>5

\* A step that touches no line.
LEMMA GatheredStays ==
  ASSUME Gathered,
         UNCHANGED <<ss_, served, inbox, sent, hungup>>,
         UNCHANGED task
  PROVE  Gathered'
<1>1. \A c \in Conns : Progress(c)'
  BY ProgressStays, Zenon DEF Gathered
<1>2. \A c \in Conns : Reading(c)' <=> Reading(c)
  BY Zenon DEF Reading
<1> QED BY <1>1, <1>2, Zenon DEF Gathered

LEMMA GatheredSpawn ==
  ASSUME HandoverTypes, Apart, Gathered, Spawn
  PROVE  Gathered'
<1>1. /\ UNCHANGED <<ss_, served, inbox, sent, hungup>>
      /\ task' = task \/ task' = [task EXCEPT ![sock] = "start"]
      /\ loop \in {"nodelay", "spawn", "log"} /\ loop \in {"nodelay", "spawn"}
  BY DEF Spawn, clients
<1>2. CASE task' = [task EXCEPT ![sock] = "start"]
  <2>1. sock \in Conns /\ task[sock] = "none"
    BY <1>1, Zenon DEF HandoverTypes, Apart
  <2>2. task'[sock] = "start" /\ \A c \in Conns : c # sock => task'[c] = task[c]
    BY <1>2, <2>1, Zenon DEF HandoverTypes
  <2>3. \A c \in Conns : Reading(c)' <=> Reading(c)
    BY <2>1, <2>2 DEF Reading
  <2>4. ASSUME NEW c \in Conns PROVE Progress(c)'
    <3>1. CASE c # sock
      BY <1>1, <2>2, <3>1, ProgressStays, Zenon DEF Gathered
    <3>2. CASE c = sock
      <4>1. /\ task[c] \in {"none", "start"} /\ task'[c] \notin {"read", "parse", "clear"}
            /\ task'[c] # "read" /\ task'[c] # "parse" /\ task'[c] # "clear"
        BY <2>1, <2>2, <3>2
      <4> QED BY <1>1, <4>1, Zenon DEF Progress, Gathered
    <3> QED BY <3>1, <3>2
  <2> QED BY <1>1, <2>3, <2>4, Zenon DEF Gathered
<1> QED BY <1>1, <1>2, GatheredStays, Zenon

LEMMA GatheredTaskStart ==
  ASSUME HandoverTypes, DataTypes, Apart, Gathered, NEW c \in Conns, TaskStart(c)
  PROVE  Gathered'
<1>1. /\ UNCHANGED <<ss_, served, inbox, sent, hungup>>
      /\ task[c] = "start" /\ Goto(c, "read") /\ "read" \in Locations
  BY DEF TaskStart, At, clients, Locations
<1>2. /\ task'[c] = "read" /\ \A d \in Conns : d # c => task'[d] = task[d]
  BY <1>1, Moved, Zenon
<1>3. Alive(c)
  BY <1>1 DEF Alive
<1>4. \A d \in Conns : d # c => ~Alive(d)
  BY <1>3, Zenon DEF Apart
<1>5. \A d \in Conns : ~Reading(d)
  BY <1>1, <1>4 DEF Alive, Reading
<1>6. ss_ = <<>>
  BY <1>5, Zenon DEF Gathered
<1>7. Reading(c)'
  BY <1>2 DEF Reading
<1>8. Progress(c)'
  <2>1. /\ served[c] = <<>> /\ Rest(inbox[c], Text[c], 0, sent[c]) /\ Begins(served[c], Lines[c])
    BY <1>1 DEF Gathered, Progress
  <2>2. LineEnd(c)[0] = 0
    BY LineEndIs, Zenon DEF LineEnds
  <2>3. Len(served[c]) = 0 /\ Len(ss_) = 0 /\ 0 + 0 = 0
    BY <1>6, <2>1
  <2>4. LineEnd(c)[Len(served[c])] + Len(ss_) = 0
    BY <2>2, <2>3
  <2>5. GatheredOf(c, Len(served[c]), ss_)
    BY <1>6 DEF GatheredOf
  <2>6. task'[c] # "none" /\ task'[c] # "start" /\ task'[c] # "parse" /\ task'[c] # "clear"
        /\ task'[c] \notin {"none", "start"}
    BY <1>2
  <2>7. Rest(inbox[c], Text[c], LineEnd(c)[Len(served[c])] + Len(ss_), sent[c])
    BY <2>1, <2>4, Zenon
  <2> QED BY <1>1, <2>1, <2>5, <2>6, <2>7, Zenon DEF Progress
<1>9. \A d \in Conns : Progress(d)'
  BY <1>1, <1>2, <1>8, ProgressStays, Zenon DEF Gathered
<1> QED BY <1>1, <1>7, <1>9, Zenon DEF Gathered

LEMMA GatheredReadByte ==
  ASSUME HandoverTypes, DataTypes, Apart, Gathered, NEW c \in Conns, ReadByte(c)
  PROVE  Gathered'
<1> DEFINE k == Len(served[c])
           q == inbox[c]
           b == Head(q)
           p == LineEnd(c)[k] + Len(ss_)
<1>1. task[c] = "read" /\ Reading(c) /\ Alive(c)
  BY DEF ReadByte, At, Reading, Alive
<1>2. client_[c] = c /\ \A d \in Conns : d # c => ~Alive(d)
  BY <1>1, Zenon DEF Apart
<1>3. /\ q # <<>> /\ inbox' = [inbox EXCEPT ![c] = Tail(q)]
      /\ \/ b = Newline /\ Goto(c, "parse") /\ ss_' = ss_
         \/ b # Newline /\ ss_' = Append(ss_, b) /\ task' = task
      /\ UNCHANGED <<served, sent, hungup>>
  BY <1>2, Zenon DEF ReadByte, clients
<1>4. /\ Begins(served[c], Lines[c]) /\ GatheredOf(c, k, ss_)
      /\ Rest(q, Text[c], p, sent[c]) /\ Progress(c)
  BY <1>1, Zenon DEF Gathered, Progress
<1>5. /\ q \in Seq(Bytes) /\ ss_ \in Seq(Bytes) /\ sent[c] \in Nat /\ sent[c] <= Len(Text[c])
      /\ inbox \in [Conns -> Seq(Bytes)]
  BY DEF DataTypes
<1>6. b = Text[c][p + 1] /\ p + 1 <= sent[c] /\ Rest(Tail(q), Text[c], p + 1, sent[c])
  BY <1>3, <1>4, <1>5, RestTail
<1>7. k \in 0 .. Len(Lines[c])
  BY <1>4, Parsed
<1>8. p + 1 <= Len(Text[c])
  <2>1. p \in Nat /\ Len(Text[c]) \in Nat
    BY <1>4, TextLayout, LenProperties DEF Rest
  <2> HIDE DEF p
  <2> QED BY <1>5, <1>6, <2>1
<1>9. /\ k < Len(Lines[c])
      /\ \/ /\ b # Newline
            /\ GatheredOf(c, k, Append(ss_, b))
            /\ LineEnd(c)[k] + Len(Append(ss_, b)) = p + 1
         \/ /\ b = Newline /\ ss_ = Lines[c][k + 1]
            /\ LineEnd(c)[k + 1] = p + 1
  <2> HIDE DEF k, b
  <2> QED BY <1>4, <1>5, <1>6, <1>7, <1>8, NextByte
<1>10. inbox'[c] = Tail(q) /\ \A d \in Conns : d # c => inbox'[d] = inbox[d]
  BY <1>3, <1>5, Zenon
<1>11. /\ \A d \in Conns : d # c => task'[d] = task[d]
       /\ task'[c] \in {"read", "parse"}
       /\ b = Newline => task'[c] = "parse" /\ ss_' = ss_
       /\ b # Newline => task'[c] = "read" /\ ss_' = Append(ss_, b)
  <2>1. "parse" \in Locations
    BY DEF Locations
  <2> HIDE DEF b
  <2>2. CASE b = Newline
    BY <1>3, <2>1, <2>2, Moved
  <2>3. CASE b # Newline
    BY <1>1, <1>3, <2>3
  <2> QED BY <2>2, <2>3
<1> HIDE DEF k, q, b, p
<1>12. Len(served'[c]) = k /\ served'[c] = served[c] /\ sent'[c] = sent[c]
  BY <1>3, Zenon DEF k
<1>13. task'[c] \notin {"none", "start"} /\ task'[c] # "clear" /\ Reading(c)'
  BY <1>11 DEF Reading
<1>14. Progress(c)'
  <2>1. CASE b = Newline
    <3>1. task'[c] = "parse" /\ task'[c] # "read" /\ ss_' = ss_
      BY <1>11, <2>1
    <3> QED BY <1>4, <1>6, <1>9, <1>10, <1>12, <1>13, <2>1, <3>1, Zenon DEF Progress
  <2>2. CASE b # Newline
    <3>1. task'[c] = "read" /\ task'[c] # "parse" /\ ss_' = Append(ss_, b)
      BY <1>11, <2>2
    <3> QED BY <1>4, <1>6, <1>9, <1>10, <1>12, <1>13, <2>2, <3>1, Zenon DEF Progress
  <2> QED BY <2>1, <2>2
<1>15. \A d \in Conns : d # c => Progress(d)'
  <2>1. \A d \in Conns : d # c => ~Reading(d)
    BY <1>2 DEF Alive, Reading
  <2> QED BY <1>3, <1>10, <1>11, <2>1, ProgressStays, Zenon DEF Gathered
<1> QED BY <1>3, <1>13, <1>14, <1>15, Zenon DEF Gathered

LEMMA GatheredParse ==
  ASSUME HandoverTypes, DataTypes, Apart, Gathered, NEW c \in Conns, Parse(c)
  PROVE  Gathered'
<1> DEFINE k == Len(served[c])
<1>1. task[c] = "parse" /\ Reading(c) /\ Alive(c) /\ Goto(c, "clear") /\ "clear" \in Locations
  BY DEF Parse, At, Reading, Alive, Locations
<1>2. client_[c] = c /\ \A d \in Conns : d # c => ~Alive(d)
  BY <1>1, Zenon DEF Apart
<1>3. /\ served' = [served EXCEPT ![c] = Append(served[c], ss_)]
      /\ UNCHANGED <<ss_, inbox, sent, hungup>>
  BY <1>2, Zenon DEF Parse, clients
<1>4. /\ Begins(served[c], Lines[c]) /\ Progress(c)
      /\ k < Len(Lines[c]) /\ ss_ = Lines[c][k + 1]
      /\ Rest(inbox[c], Text[c], LineEnd(c)[k + 1], sent[c])
  BY <1>1, Zenon DEF Gathered, Progress
<1>5. served'[c] = Append(served[c], ss_) /\ \A d \in Conns : d # c => served'[d] = served[d]
  BY <1>3, Zenon DEF DataTypes
<1>6. Begins(Append(served[c], ss_), Lines[c]) /\ Len(Append(served[c], ss_)) = k + 1
  BY <1>4, Parsed, BeginningGrows
<1>7. /\ task'[c] = "clear" /\ \A d \in Conns : d # c => task'[d] = task[d]
  BY <1>1, Moved, Zenon
<1>8. task'[c] \notin {"none", "start"} /\ task'[c] # "read" /\ task'[c] # "parse" /\ Reading(c)'
  BY <1>7 DEF Reading
<1>9. Progress(c)'
  BY <1>3, <1>4, <1>5, <1>6, <1>7, <1>8, Zenon DEF Progress
<1>10. \A d \in Conns : d # c => Progress(d)'
  BY <1>3, <1>5, <1>7, ProgressStays, Zenon DEF Gathered
<1> QED BY <1>3, <1>8, <1>9, <1>10, Zenon DEF Gathered

LEMMA GatheredClearLine ==
  ASSUME HandoverTypes, DataTypes, Apart, Gathered, NEW c \in Conns, ClearLine(c)
  PROVE  Gathered'
<1>1. task[c] = "clear" /\ Reading(c) /\ Alive(c) /\ Goto(c, "read") /\ "read" \in Locations
  BY DEF ClearLine, At, Reading, Alive, Locations
<1>2. \A d \in Conns : d # c => ~Reading(d)
  <2>1. \A d \in Conns : d # c => ~Alive(d)
    BY <1>1, Zenon DEF Apart
  <2> QED BY <2>1 DEF Alive, Reading
<1>3. ss_' = <<>> /\ UNCHANGED <<served, inbox, sent, hungup>>
  BY Zenon DEF ClearLine, clients
<1>4. /\ Begins(served[c], Lines[c]) /\ Progress(c)
      /\ Rest(inbox[c], Text[c], LineEnd(c)[Len(served[c])], sent[c])
  BY <1>1, Zenon DEF Gathered, Progress
<1>5. /\ task'[c] = "read" /\ \A d \in Conns : d # c => task'[d] = task[d]
  BY <1>1, Moved, Zenon
<1>6. task'[c] \notin {"none", "start"} /\ task'[c] # "clear" /\ task'[c] # "parse" /\ Reading(c)'
  BY <1>5 DEF Reading
<1>7. LineEnd(c)[Len(served[c])] + Len(ss_') = LineEnd(c)[Len(served[c])]
  <2> DEFINE o == LineEnd(c)[Len(served[c])]
  <2>1. o \in Nat /\ Len(ss_') = 0
    BY <1>3, <1>4, Parsed
  <2> HIDE DEF o
  <2>2. o + Len(ss_') = o
    BY <2>1
  <2> QED BY <2>2 DEF o
<1>8. GatheredOf(c, Len(served[c]), ss_')
  BY <1>3, Zenon DEF GatheredOf
<1>9. Progress(c)'
  BY <1>3, <1>4, <1>5, <1>6, <1>7, <1>8, Zenon DEF Progress
<1>10. \A d \in Conns : d # c => Progress(d)'
  BY <1>2, <1>3, <1>5, ProgressStays, Zenon DEF Gathered
<1> QED BY <1>3, <1>6, <1>9, <1>10, Zenon DEF Gathered

\* A task that ends: a client that has hung up leaves nothing in ss_.
LEMMA GatheredEnd ==
  ASSUME HandoverTypes, DataTypes, Apart, Gathered, NEW c \in Conns, Close(c) \/ Forget(c)
  PROVE  Gathered'
<1>1. /\ task[c] \in {"read", "forget"} /\ UNCHANGED <<ss_, served, inbox, sent, hungup>>
      /\ \E place \in {"forget", "deleted"} : Goto(c, place)
  BY DEF Close, Forget, At, clients
<1>2. /\ task'[c] \in {"forget", "deleted"} /\ \A d \in Conns : d # c => task'[d] = task[d]
  <2>1. \A place \in {"forget", "deleted"} : place \in Locations
    BY DEF Locations
  <2> QED BY <1>1, <2>1, Moved, Zenon
<1>3. /\ task'[c] \notin {"none", "start"}
      /\ task'[c] # "read" /\ task'[c] # "parse" /\ task'[c] # "clear"
  BY <1>2
<1>4. Progress(c)'
  BY <1>1, <1>3, Zenon DEF Gathered, Progress
<1>5. \A d \in Conns : d # c => Progress(d)'
  BY <1>1, <1>2, ProgressStays, Zenon DEF Gathered
<1>6. Alive(c)
  BY <1>1 DEF Alive
<1>7. \A d \in Conns : d # c => ~Reading(d)
  <2>1. \A d \in Conns : d # c => ~Alive(d)
    BY <1>6, Zenon DEF Apart
  <2> QED BY <2>1 DEF Alive, Reading
<1>8. ss_ = <<>>
  <2>1. CASE Close(c)
    <3>1. task[c] = "read" /\ Reading(c)
      BY <2>1 DEF Close, At, Reading
    <3>2. client_[c] = c /\ socket[c] = "open" /\ socket[c] # "closed"
      BY <3>1 DEF Apart
    <3>3. inbox[c] = <<>> /\ hungup[c]
      BY <2>1, <3>2, Zenon DEF Close
    <3>4. sent[c] = 0 \/ Text[c][sent[c]] = Newline
      BY <3>3, Zenon DEF Gathered
    <3>5. /\ GatheredOf(c, Len(served[c]), ss_) /\ Progress(c)
          /\ Rest(inbox[c], Text[c], LineEnd(c)[Len(served[c])] + Len(ss_), sent[c])
      BY <3>1, Zenon DEF Gathered, Progress
    <3>6. sent[c] = LineEnd(c)[Len(served[c])] + Len(ss_)
      <4> DEFINE p == LineEnd(c)[Len(served[c])] + Len(ss_)
      <4>1. p \in Nat /\ p + Len(inbox[c]) = sent[c] /\ Len(inbox[c]) = 0
        BY <3>3, <3>5 DEF Rest
      <4> HIDE DEF p
      <4>2. p = sent[c]
        BY <4>1
      <4> QED BY <4>2 DEF p
    <3>7. Len(served[c]) \in 0 .. Len(Lines[c]) /\ ss_ \in Seq(Bytes)
      BY <3>5, Parsed DEF DataTypes
    <3> QED BY <3>4, <3>5, <3>6, <3>7, NothingGathered
  <2>2. CASE Forget(c)
    <3>1. ~Reading(c)
      BY <2>2 DEF Forget, At, Reading
    <3> QED BY <1>7, <3>1, Zenon DEF Gathered
  <2> QED BY <2>1, <2>2
<1> QED BY <1>1, <1>4, <1>5, <1>8, Zenon DEF Gathered

LEMMA GatheredSend ==
  ASSUME DataTypes, Gathered, NEW c \in Conns, Send(c)
  PROVE  Gathered'
<1> DEFINE b == Text[c][sent[c] + 1]
<1>1. /\ ~hungup[c] /\ sent[c] < Len(Text[c])
      /\ sent' = [sent EXCEPT ![c] = sent[c] + 1]
      /\ inbox' = [inbox EXCEPT ![c] = Append(inbox[c], b)]
      /\ UNCHANGED <<ss_, task, served, hungup>>
  BY Zenon DEF Send, server
<1>2. b \in Bytes
  BY <1>1, SentByte
<1>3. /\ sent'[c] = sent[c] + 1 /\ inbox'[c] = Append(inbox[c], b)
      /\ \A d \in Conns : d # c => sent'[d] = sent[d] /\ inbox'[d] = inbox[d]
  BY <1>1, Zenon DEF DataTypes
<1>4. ASSUME NEW p, Rest(inbox[c], Text[c], p, sent[c])
      PROVE  Rest(inbox'[c], Text[c], p, sent'[c])
  <2>1. inbox[c] \in Seq(Bytes) /\ sent[c] \in Nat
    BY DEF DataTypes
  <2>2. Rest(Append(inbox[c], b), Text[c], p, sent[c] + 1)
    BY <1>2, <1>4, <2>1, RestAppend
  <2> QED BY <1>3, <2>2
<1> HIDE DEF b
<1>5. Progress(c)'
  BY <1>1, <1>4, Zenon DEF Gathered, Progress
<1>6. \A d \in Conns : d # c => Progress(d)'
  BY <1>1, <1>3, ProgressStays, Zenon DEF Gathered
<1>7. \A d \in Conns : Reading(d)' <=> Reading(d)
  BY <1>1, Zenon DEF Reading
<1> QED BY <1>1, <1>3, <1>5, <1>6, <1>7, Zenon DEF Gathered

LEMMA GatheredHangUp ==
  ASSUME DataTypes, Gathered, NEW c \in Conns, HangUp(c), ~brokeoff'
  PROVE  Gathered'
<1>1. /\ hungup' = [hungup EXCEPT ![c] = TRUE]
      /\ brokeoff' = (brokeoff \/ (sent[c] > 0 /\ Text[c][sent[c]] # Newline))
      /\ UNCHANGED <<ss_, task, served, inbox, sent>>
  BY Zenon DEF HangUp, server
<1>2. sent[c] > 0 => Text[c][sent[c]] = Newline
  BY <1>1, Zenon
<1>3. sent[c] = 0 \/ Text[c][sent[c]] = Newline
  BY <1>2 DEF DataTypes
<1>4. \A d \in Conns : d # c => hungup'[d] = hungup[d]
  BY <1>1, Zenon DEF DataTypes
<1>5. \A d \in Conns : Progress(d)'
  BY <1>1, ProgressStays, Zenon DEF Gathered
<1>6. \A d \in Conns : Reading(d)' <=> Reading(d)
  BY <1>1, Zenon DEF Reading
<1> QED BY <1>1, <1>3, <1>4, <1>5, <1>6, Zenon DEF Gathered

LEMMA GatheredNext ==
  ASSUME HandoverTypes, DataTypes, Apart, ~brokeoff => Gathered, [Next]_vars
  PROVE  ~brokeoff' => Gathered'
<1> SUFFICES ASSUME ~brokeoff' PROVE Gathered'
  OBVIOUS
<1>1. ~brokeoff
  BY Zenon DEF Next, vars, history, Setup, Loop, EnterLoop, NothingToAccept, Accept, NoDelay, Spawn,
     LogAccepted, Network, Task, TaskStart, ReadNull, ReadByte, Parse, ClearLine, Close,
     Forget, Connect, Send, HangUp
<1>2. Gathered
  BY <1>1
<1>3. CASE \/ UNCHANGED vars \/ Setup \/ EnterLoop \/ NothingToAccept \/ Accept \/ NoDelay
           \/ LogAccepted \/ Network \/ \E c \in Conns : Connect(c) \/ ReadNull(c)
  <2>1. UNCHANGED <<ss_, served, inbox, sent, hungup>> /\ UNCHANGED task
    BY <1>3, Zenon DEF vars, server, clients, Setup, EnterLoop, NothingToAccept, Accept, NoDelay,
       LogAccepted, Network, Connect, ReadNull
  <2> QED BY <1>2, <2>1, GatheredStays
<1> QED BY <1>2, <1>3, GatheredSpawn, GatheredTaskStart, GatheredReadByte, GatheredParse,
           GatheredClearLine, GatheredEnd, GatheredSend, GatheredHangUp, Zenon
           DEF Next, Loop, Task

LinesInv == TypeInv /\ (~overlapped => Apart /\ (~brokeoff => Gathered))

\* As long as connections follow one another and none ends within a line, the
\* lines parsed for each client are its own, whole, in order and once each,
\* whatever the lines are and however the threads interleave.
THEOREM LinesStayWhole == Spec => []LinesAreWhole
<1>1. Init => LinesInv
  BY TypeInit, ApartInit, GatheredInit, Zenon DEF LinesInv
<1>2. LinesInv /\ [Next]_vars => LinesInv'
  <2> SUFFICES ASSUME LinesInv, [Next]_vars PROVE LinesInv'
    OBVIOUS
  <2>1. HandoverTypes /\ DataTypes
    BY Zenon DEF LinesInv, TypeInv, HandoverInv
  <2>2. TypeInv'
    BY HandoverNext, DataNext, StatusNext, Zenon DEF LinesInv, TypeInv
  <2>3. ~overlapped' => ~overlapped /\ Apart'
    BY <2>1, ApartNext, Zenon DEF LinesInv
  <2>4. ~overlapped => (~brokeoff' => Gathered')
    BY <2>1, GatheredNext, Zenon DEF LinesInv
  <2> QED BY <2>2, <2>3, <2>4, Zenon DEF LinesInv
<1>3. LinesInv => LinesAreWhole
  <2> SUFFICES ASSUME LinesInv, ~overlapped, ~brokeoff, NEW c \in Conns
               PROVE  IsPrefix(served[c], Lines[c])
    BY Zenon DEF LinesAreWhole
  <2>1. DataTypes /\ Progress(c)
    BY Zenon DEF LinesInv, TypeInv, Gathered
  <2>2. Begins(served[c], Lines[c])
    BY <2>1, Zenon DEF Progress
  <2> QED BY <2>1, <2>2, Parsed, BeginningIsPrefix
<1> QED BY <1>1, <1>2, <1>3, PTL DEF Spec
==============================================================================
