------------------------------- MODULE Server -------------------------------
(* src/src/webSocketServer.cpp and signalSession.cpp: connections, the      *)
(* requests they carry, and the players that send back frames and errors.   *)
(*                                                                          *)
(* One thread runs every handler, to its end, one after the other (Run).    *)
(* The threads of the players call Send in between (of each player one at a *)
(* time).  A connection is known by its key, the address of its socket,     *)
(* which a later connection may get again.  Each access under mutex_ or mu_ *)
(* is one step.  What is sent is queued at the connection; between two      *)
(* handlers the handler thread starts to write all that is queued.          *)
EXTENDS Naturals

CONSTANTS
    Conn,     \* connections, each used once
    Key,      \* addresses of sockets
    Player,   \* players, each used once: they bound the number of Plays
    None

ASSUME ServerAssumption ==
    /\ None \notin Conn \cup Key \cup Player
    /\ {"busy", "asleep"} \cap (Conn \cup {None}) = {}
    /\ "other" \notin Player

VARIABLES
    sock,            \* [Conn -> its state]; "lost" until the close handler has run
    key,             \* [Conn -> Key or None]
    mapConnection,   \* [Key -> Conn, or None where the map has no entry]
    mediaResourceManager, \* [Key -> Player or None]
    run,             \* [Player -> "none", "running", "stopping" (stop_request_), "joined"]
    user_handle,     \* [Player -> Key or None]
    sending,         \* [Player -> None, "busy" (its thread has passed the test of
                     \*   stop_request_), the connection Send found, or "asleep" (its
                     \*   thread missed the notification of stop() and waits for ever)]
    tested,          \* the players in Send whose picture passed the test of the buffer
    buffer,          \* [Conn -> what is queued: the players of small pictures, or
                     \*   {"other"} when there are other messages only]
    m_write_flag,    \* the connections that write what was queued to their socket
    io_pc,           \* where the handler thread is
    io_conn,         \* the connection it works for
    io_req,          \* the request, or "close"
    io_player,       \* ffPtr, the player at hand
    owner,           \* history: [Player -> the connection that asked for it]
    quiet            \* history: [Conn -> no Play since its last Stop was answered]

registry == <<mapConnection, mediaResourceManager>>
players == <<run, user_handle, sending, tested, owner>>
queues == <<buffer, m_write_flag>>
io == <<io_conn, io_req, io_player>>
vars == <<sock, key, registry, players, queues, io_pc, io, quiet>>

Request == {"play", "stop", "configure", "bad"}

STypeOK ==
    /\ sock \in [Conn -> {"new", "open", "lost", "closed"}]
    /\ key \in [Conn -> Key \cup {None}]
    /\ mapConnection \in [Key -> Conn \cup {None}]
    /\ mediaResourceManager \in [Key -> Player \cup {None}]
    /\ run \in [Player -> {"none", "running", "stopping", "joined"}]
    /\ user_handle \in [Player -> Key \cup {None}]
    /\ sending \in [Player -> Conn \cup {None, "busy", "asleep"}]
    /\ tested \subseteq {p \in Player : sending[p] \in Conn}
    /\ buffer \in [Conn -> SUBSET (Player \cup {"other"})]
    /\ m_write_flag \subseteq Conn
    /\ io_pc \in {"idle", "play", "insert", "find", "stop", "join", "reply", "unmap"}
    /\ io_conn \in Conn \cup {None}
    /\ io_pc # "idle" => io_conn \in Conn /\ key[io_conn] \in Key
    /\ io_req \in Request \cup {None, "close"}
    /\ io_player \in Player \cup {None}
    /\ io_pc \in {"insert", "stop", "join"} => io_player \in Player
    /\ owner \in [Player -> Conn \cup {None}]
    /\ quiet \in [Conn -> BOOLEAN]

Init ==
    /\ sock = [c \in Conn |-> "new"]
    /\ key = [c \in Conn |-> None]
    /\ mapConnection = [k \in Key |-> None]
    /\ mediaResourceManager = [k \in Key |-> None]
    /\ run = [p \in Player |-> "none"]
    /\ user_handle = [p \in Player |-> None]
    /\ sending = [p \in Player |-> None]
    /\ tested = {}
    /\ buffer = [c \in Conn |-> {}]
    /\ m_write_flag = {}
    /\ io_pc = "idle"
    /\ io_conn = None
    /\ io_req = None
    /\ io_player = None
    /\ owner = [p \in Player |-> None]
    /\ quiet = [c \in Conn |-> TRUE]

----------------------------------------------------------------------------
(* The network.                                                             *)

(* A socket's address is free again once its connection is gone.            *)
FreeKeys == Key \ {key[c] : c \in {d \in Conn : sock[d] \in {"open", "lost"}}}

Lose(c) ==
    /\ sock[c] = "open"
    /\ sock' = [sock EXCEPT ![c] = "lost"]
    /\ m_write_flag' = m_write_flag \ {c}   \* nothing is written any more
    /\ UNCHANGED <<key, registry, players, buffer, io_pc, io, quiet>>

(* onError of a handshake that failed: its key is not in the map, so that   *)
(* the handler returns early.                                               *)
onError(c) ==
    /\ io_pc = "idle"
    /\ sock[c] = "new"
    /\ \E k \in FreeKeys : mapConnection[k] = None
    /\ sock' = [sock EXCEPT ![c] = "closed"]
    /\ UNCHANGED <<key, registry, players, queues, io_pc, io, quiet>>

----------------------------------------------------------------------------
(* The handlers.                                                            *)

IoKey == key[io_conn]

(* Of a queue it matters whether anything is in it, and which small         *)
(* pictures are: other messages are noted as long as there are none.        *)
Put(queue, m) ==
    LET small == (queue \cup {m}) \cap Player
    IN  IF small = {} THEN {"other"} ELSE small

Handle(c, r, to) ==
    /\ io_pc = "idle"
    /\ io_pc' = to
    /\ io_conn' = c
    /\ io_req' = r
    /\ UNCHANGED <<key, players, queues, io_player>>

(* insert leaves an entry there is already.                                 *)
onOpen(c, k) ==
    /\ io_pc = "idle"
    /\ sock[c] = "new"
    /\ k \in FreeKeys
    /\ sock' = [sock EXCEPT ![c] = "open"]
    /\ key' = [key EXCEPT ![c] = k]
    /\ mapConnection' = [mapConnection EXCEPT ![k] = IF @ = None THEN c ELSE @]
    /\ UNCHANGED <<mediaResourceManager, players, queues, io_pc, io, quiet>>

(* onMessage, up to the switch of parseAndProcess.  "configure" is a change *)
(* of resolution or of dropping, applied to the registered player, whose    *)
(* part in it VideoOutput models; "bad" is what is answered at once: a      *)
(* request that is refused, or one for the version.                         *)
onMessage(c, r) ==
    /\ sock[c] = "open"
    /\ mapConnection[key[c]] # None
    /\ r = "play" => \E p \in Player : run[p] = "none"   \* bound of the instance
    /\ Handle(c, r, CASE r = "play" -> "play"
                      [] r = "stop" -> "find"
                      [] r \in {"configure", "bad"} -> "reply")
    /\ quiet' = [quiet EXCEPT ![c] = @ /\ r # "play"]
    /\ UNCHANGED <<sock, registry>>

onCloseKeepsPlayer(c) ==   \* mutant: CloseFunc is not called
    /\ sock[c] = "lost"
    /\ mapConnection[key[c]] # None
    /\ Handle(c, "close", "unmap")
    /\ UNCHANGED <<sock, registry, quiet>>

(* onClose: a connection that is not in the map is left alone.              *)
onClose(c) ==
    /\ sock[c] = "lost"
    /\ mapConnection[key[c]] # None
    /\ Handle(c, "close", "find")
    /\ UNCHANGED <<sock, registry, quiet>>

IoGo(from, to) ==
    /\ io_pc = from
    /\ io_pc' = to
    /\ UNCHANGED <<key, queues, io_conn, io_req>>

(* playVideo: a player is made and its threads are started, whatever the    *)
(* connection plays already.                                                *)
startPlay(p) ==
    /\ IoGo("play", "insert")
    /\ run[p] = "none"
    /\ io_player' = p
    /\ run' = [run EXCEPT ![p] = "running"]
    /\ user_handle' = [user_handle EXCEPT ![p] = IoKey]
    /\ owner' = [owner EXCEPT ![p] = io_conn]
    /\ UNCHANGED <<sock, registry, sending, tested, quiet>>

InsertPlayerNot ==   \* mutant: the player is not kept
    /\ IoGo("insert", "stop")
    /\ mediaResourceManager[IoKey] = None
    /\ UNCHANGED <<sock, registry, players, io_player, quiet>>

InsertPlayerOver ==   \* mutant: what is registered already is overwritten
    /\ IoGo("insert", "reply")
    /\ mediaResourceManager' = [mediaResourceManager EXCEPT ![IoKey] = io_player]
    /\ UNCHANGED <<sock, mapConnection, players, io_player, quiet>>

(* It is inserted unless there is an entry already; then it goes out of     *)
(* scope, and its destructor stops it.                                      *)
InsertPlayer ==
    /\ IoGo("insert", "reply")
    /\ mediaResourceManager[IoKey] = None
    /\ mediaResourceManager' = [mediaResourceManager EXCEPT ![IoKey] = io_player]
    /\ UNCHANGED <<sock, mapConnection, players, io_player, quiet>>

DropPlayer ==
    /\ IoGo("insert", "stop")
    /\ mediaResourceManager[IoKey] # None
    /\ UNCHANGED <<sock, registry, players, io_player, quiet>>

(* stopPlay and stopFFmpeg.                                                 *)
AfterStop == IF io_req = "close" THEN "unmap" ELSE "reply"

FindPlayerUnchecked ==   \* mutant: the iterator is not compared with end()
    /\ IoGo("find", "stop")
    /\ io_player' = mediaResourceManager[IoKey]
    /\ mediaResourceManager' = [mediaResourceManager EXCEPT ![IoKey] = None]
    /\ UNCHANGED <<sock, mapConnection, players, quiet>>

FindPlayer ==
    /\ IoGo("find", "stop")
    /\ mediaResourceManager[IoKey] # None
    /\ io_player' = mediaResourceManager[IoKey]
    /\ mediaResourceManager' = [mediaResourceManager EXCEPT ![IoKey] = None]
    /\ UNCHANGED <<sock, mapConnection, players, quiet>>

FindNothing ==
    /\ IoGo("find", AfterStop)
    /\ mediaResourceManager[IoKey] = None
    /\ UNCHANGED <<sock, registry, players, io_player, quiet>>

StopPlayerUnflagged ==   \* mutant: stop_request_ is not set
    /\ IoGo("stop", "join")
    /\ UNCHANGED <<sock, registry, players, io_player, quiet>>

(* FfmpegWrapper::stopPlay: the flag, then the threads are joined.          *)
StopPlayer ==
    /\ IoGo("stop", "join")
    /\ run' = [run EXCEPT ![io_player] = "stopping"]
    /\ UNCHANGED <<sock, registry, user_handle, sending, tested, owner, io_player, quiet>>

JoinPlayerNot ==   \* mutant: the threads are not waited for
    /\ IoGo("join", AfterStop)
    /\ run' = [run EXCEPT ![io_player] = "joined"]
    /\ UNCHANGED <<sock, registry, user_handle, sending, tested, owner, io_player, quiet>>

JoinPlayer ==
    /\ IoGo("join", AfterStop)
    /\ sending[io_player] = None
    /\ run' = [run EXCEPT ![io_player] = "joined"]
    /\ UNCHANGED <<sock, registry, user_handle, sending, tested, owner, io_player, quiet>>

(* MessageFunc sends the response.                                          *)
Reply ==
    /\ io_pc = "reply"
    /\ io_pc' = "idle"
    /\ io_conn' = None
    /\ io_req' = None
    /\ io_player' = None
    /\ quiet' = [quiet EXCEPT ![io_conn] = @ \/ io_req = "stop"]
    /\ buffer' = [buffer EXCEPT ![io_conn] = Put(@, "other")]
    /\ UNCHANGED <<sock, key, registry, players, m_write_flag>>

UnmapNot ==   \* mutant: the entry of a closed connection stays
    /\ io_pc = "unmap"
    /\ io_pc' = "idle"
    /\ io_conn' = None
    /\ io_req' = None
    /\ io_player' = None
    /\ sock' = [sock EXCEPT ![io_conn] = "closed"]
    /\ buffer' = [buffer EXCEPT ![io_conn] = {}]
    /\ m_write_flag' = m_write_flag \ {io_conn}
    /\ UNCHANGED <<key, registry, players, quiet>>

(* onClose takes the connection from the map; its socket may be freed.      *)
Unmap ==
    /\ io_pc = "unmap"
    /\ io_pc' = "idle"
    /\ io_conn' = None
    /\ io_req' = None
    /\ io_player' = None
    /\ mapConnection' = [mapConnection EXCEPT ![IoKey] = None]
    /\ sock' = [sock EXCEPT ![io_conn] = "closed"]
    /\ buffer' = [buffer EXCEPT ![io_conn] = {}]
    /\ m_write_flag' = m_write_flag \ {io_conn}
    /\ UNCHANGED <<key, mediaResourceManager, players, quiet>>

Io == InsertPlayer \/ DropPlayer \/ FindPlayer \/ FindNothing \/ StopPlayer
      \/ JoinPlayer \/ Reply \/ Unmap

----------------------------------------------------------------------------
(* A thread of a player: a pass of its loop, which may send any number of   *)
(* messages (the frames of a packet, or the report of an error).            *)

Sends(p, at) ==
    /\ sending' = [sending EXCEPT ![p] = at]
    /\ UNCHANGED <<sock, key, registry, run, user_handle, owner, m_write_flag,
                   io_pc, io, quiet>>

Begin(p) ==
    /\ run[p] = "running"
    /\ sending[p] = None
    /\ Sends(p, "busy")
    /\ UNCHANGED <<tested, buffer>>

Pass(p) ==
    /\ sending[p] = "busy"
    /\ Sends(p, None)
    /\ UNCHANGED <<tested, buffer>>

(* The flag came between a thread's look at it and its wait in get(), and   *)
(* nothing more is put in its queue: it waits for ever.                     *)
Sleep(p) ==
    /\ run[p] = "stopping"
    /\ sending[p] = "busy"
    /\ Sends(p, "asleep")
    /\ UNCHANGED <<tested, buffer>>

(* Send: the key is looked up under the lock.                               *)
Look(p) ==
    /\ sending[p] = "busy"
    /\ Sends(p, mapConnection[user_handle[p]])
    /\ UNCHANGED <<tested, buffer>>

(* A small picture (256 to 511 wide: its first byte is 1) is given up when  *)
(* anything is queued; what is being written is not counted.                *)
Overflow(p) ==
    /\ sending[p] \in Conn
    /\ p \notin tested
    /\ buffer[sending[p]] # {}
    /\ Sends(p, "busy")
    /\ UNCHANGED <<tested, buffer>>

TestNot(p) ==   \* mutant: small pictures are not held back either
    /\ sending[p] \in Conn
    /\ tested' = tested \cup {p}
    /\ UNCHANGED buffer
    /\ Sends(p, sending[p])

Test(p) ==
    /\ sending[p] \in Conn
    /\ p \notin tested
    /\ buffer[sending[p]] = {}
    /\ tested' = tested \cup {p}
    /\ UNCHANGED buffer
    /\ Sends(p, sending[p])

(* The message joins the queue, whatever came into it since the test.       *)
Write(p) ==
    /\ sending[p] \in Conn
    /\ LET m == IF p \in tested THEN p ELSE "other"
       IN  buffer' = [buffer EXCEPT ![sending[p]] = Put(@, m)]
    /\ tested' = tested \ {p}
    /\ Sends(p, "busy")

PlayerStep(p) ==
    Begin(p) \/ Pass(p) \/ Sleep(p) \/ Look(p) \/ Overflow(p) \/ Test(p) \/ Write(p)

(* write_frame: unless a write is under way, all that is queued is taken    *)
(* from the queue, and from the amount that Send tests, and handed to asio. *)
StartWrite(c) ==
    /\ io_pc = "idle"
    /\ sock[c] = "open"
    /\ c \notin m_write_flag
    /\ buffer[c] # {}
    /\ m_write_flag' = m_write_flag \cup {c}
    /\ buffer' = [buffer EXCEPT ![c] = {}]
    /\ UNCHANGED <<sock, key, registry, players, io_pc, io, quiet>>

(* handle_write_frame: the socket has taken it all.                         *)
Written(c) ==
    /\ io_pc = "idle"
    /\ sock[c] = "open"
    /\ c \in m_write_flag
    /\ m_write_flag' = m_write_flag \ {c}
    /\ UNCHANGED <<sock, key, registry, players, buffer, io_pc, io, quiet>>

----------------------------------------------------------------------------
(* The handler thread waits for a player's thread that will never end.      *)
Hung == io_pc = "join" /\ sending[io_player] = "asleep"

(* Nothing is left to do: all connections are used up, an end of the        *)
(* instance only, or nobody is there to do it.                              *)
Exhausted ==
    /\ Hung \/ (io_pc = "idle" /\ \A c \in Conn : sock[c] = "closed")
    /\ UNCHANGED vars

Next ==
    \/ \E c \in Conn : \/ Lose(c) \/ onError(c) \/ onClose(c)
                       \/ StartWrite(c) \/ Written(c)
                       \/ \E k \in Key : onOpen(c, k)
                       \/ \E r \in Request : onMessage(c, r)
    \/ \E p \in Player : startPlay(p) \/ PlayerStep(p)
    \/ Io
    \/ Exhausted

Spec == Init /\ [][Next]_vars

(* asio runs the handlers in the order of their events, so that a close is  *)
(* handled whatever else arrives.  A thread that is told to stop gets its   *)
(* turns until its pass ends: a call of the library is interrupted, a       *)
(* packet has finitely many frames, and a wait ends unless the notification *)
(* was missed.  Of a thread that runs nothing is assumed: it may wait for   *)
(* ever.                                                                    *)
Fairness ==
    /\ WF_vars(Io \/ \E p \in Player : startPlay(p))
    /\ \A c \in Conn : SF_vars(onClose(c))
    /\ \A p \in Player : /\ WF_vars(Overflow(p) \/ Test(p) \/ Write(p))
                         /\ SF_vars(run[p] = "stopping" /\ Pass(p))

FairSpec == Spec /\ Fairness

----------------------------------------------------------------------------
(* Between two handlers every player that has threads is the one registered *)
(* under the key of the open connection that asked for it: none is left     *)
(* behind by a second Play, a failed insert or a reused key, and no request *)
(* reaches a player that is stopped.                                        *)
NoOrphan ==
    io_pc = "idle" =>
        /\ \A p \in Player : run[p] \notin {"none", "joined"} =>
               \E c \in Conn : /\ owner[p] = c
                               /\ sock[c] \in {"open", "lost"}
                               /\ mediaResourceManager[key[c]] = p
        /\ \A k \in Key : mediaResourceManager[k] # None =>
               run[mediaResourceManager[k]] = "running"

(* The map names exactly the connections whose close was not handled yet,   *)
(* each under its own key: onOpen, which replaces nothing, finds its key    *)
(* free, and the handlers find their connection.                            *)
KeysExact ==
    \A c \in Conn, k \in Key :
        mapConnection[k] = c <=> key[c] = k /\ sock[c] \in {"open", "lost"}

(* What p sends is handed to connection c, or given up for its full buffer. *)
Delivers(p, c) == sending[p] = c /\ sending'[p] # c

(* A player's messages reach only the connection that asked for it, also    *)
(* when keys are reused (54, 121-123).                                      *)
OwnClientOnly ==
    [][\A p \in Player, c \in Conn : Delivers(p, c) => owner[p] = c]_vars

(* Once a Stop is answered nothing more arrives until the next Play: a      *)
(* frame that was being decoded when the stop came is sent before.          *)
QuietAfterStop ==
    [][\A p \in Player, c \in Conn : Delivers(p, c) => ~quiet[c]]_vars

(* The handler thread, which serves every connection, comes back from each  *)
(* handler, also from those that wait for the threads of a player, unless   *)
(* one of these missed the notification of stop() (packetQueue.cpp:43, 68). *)
HandlersReturn == io_pc # "idle" ~> (io_pc = "idle" \/ Hung)

(* When a connection is lost its players stop, and its key is given back,   *)
(* unless a stop hangs.                                                     *)
LostReleases ==
    \A c \in Conn : sock[c] = "lost" ~>
        \/ Hung
        \/ /\ sock[c] = "closed"
           /\ \A k \in Key : mapConnection[k] # c
           /\ \A p \in Player : owner[p] = c => run[p] = "joined"

(* A small picture joins the queue of a connection only when none of the    *)
(* same player is queued, although the test and the sending are apart: with *)
(* the one being written, which the test does not see, at most two wait for *)
(* a client that reads slowly (141).                                        *)
OnePictureQueued ==
    [][\A p \in Player, c \in Conn :
           p \in tested /\ p \notin tested' /\ sending[p] = c => p \notin buffer[c]]_vars

(* After a Play that is answered with success a player runs for the         *)
(* connection: the new one, or, when the insert failed on the entry of an   *)
(* earlier Play, that one (142).                                            *)
AnsweredPlays ==
    io_pc = "reply" /\ io_req = "play" =>
        \E p \in Player : /\ mediaResourceManager[IoKey] = p
                          /\ run[p] = "running"
                          /\ owner[p] = io_conn

(* To its clients the server is a Subscription (54, 73, 118, 171, 210, 408: *)
(* whatever is sent, in whatever order, finds a client that asked for it).  *)
Link == [c \in Conn |-> IF sock[c] = "new" THEN "none"
                        ELSE IF sock[c] = "closed" THEN "gone" ELSE "up"]
Asked == [c \in Conn |-> ~quiet[c]]
Fed == [c \in Conn |-> \E p \in Player : sending[p] = c \/ p \in buffer[c]]

Client == INSTANCE Subscription WITH link <- Link, asked <- Asked, fed <- Fed

ImplementsSubscription == Client!CSpec

(* Of each player the server relies on what a PlayerLife promises, the      *)
(* thread that sends being any of its threads.                              *)
Life(p) == INSTANCE PlayerLife WITH
    Thread <- {p}, life <- run[p], busy <- {q \in {p} : sending[q] # None}

ImplementsLife(p) == Life(p)!LSpec
=============================================================================
