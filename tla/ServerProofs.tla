---------------------------- MODULE ServerProofs ----------------------------
(* Proofs about Server, for any number of connections, keys and players.    *)
EXTENDS Server, TLAPS

Up == {"open", "lost"}

(* The connections that are up have keys, and the map has exactly them.     *)
Keys ==
    /\ \A c \in Conn : sock[c] \in Up => key[c] \in Key
    /\ KeysExact

(* What a handler works on: its connection is up, and once it has erased    *)
(* the connection's player there is no entry any more.                      *)
IoOK ==
    /\ io_pc # "idle" => sock[io_conn] \in Up
    /\ io_pc \in {"play", "insert"} => io_req = "play"
    /\ io_pc = "play" => ~quiet[io_conn]
    /\ io_pc = "find" => io_req \in {"stop", "close"}
    /\ io_pc \in {"insert", "stop"} => run[io_player] = "running"
    /\ io_pc = "join" => run[io_player] = "stopping"
    /\ io_pc \in {"insert", "stop", "join"} =>
          \A k \in Key : mediaResourceManager[k] # io_player
    /\ \/ io_pc = "unmap"
       \/ io_pc \in {"stop", "join", "reply"} /\ io_req \in {"stop", "close"}
       => mediaResourceManager[key[io_conn]] = None
    /\ io_pc \in {"stop", "join", "reply"} /\ io_req = "play" =>
          mediaResourceManager[key[io_conn]] # None

(* A registered player runs, for the connection that has the key.           *)
Registered ==
    \A k \in Key : mediaResourceManager[k] # None =>
        /\ run[mediaResourceManager[k]] = "running"
        /\ user_handle[mediaResourceManager[k]] = k

(* A player that has threads works for a connection that is up, and is      *)
(* registered or in the hands of a handler of that connection.              *)
Alive ==
    \A p \in Player : run[p] \in {"running", "stopping"} =>
        /\ owner[p] \in Conn
        /\ sock[owner[p]] \in Up
        /\ user_handle[p] = key[owner[p]]
        /\ \/ mediaResourceManager[key[owner[p]]] = p
           \/ /\ io_pc \in {"insert", "stop", "join"}
              /\ io_player = p
              /\ io_conn = owner[p]

(* What a player sends goes to its owner.                                   *)
Sendings ==
    \A p \in Player : sending[p] # None =>
        /\ run[p] \in {"running", "stopping"}
        /\ sending[p] \in {"busy", "asleep", owner[p]}

(* While a picture that passed the test is on its way, no other of its      *)
(* player is queued: its thread is in Send, and nobody else adds one.       *)
Tested == \A p \in tested : p \notin buffer[sending[p]]

(* No connection that a player works for counts as quiet.                   *)
Loud ==
    \A p \in Player : run[p] \in {"running", "stopping"} => ~quiet[owner[p]]

Inv == STypeOK /\ Keys /\ IoOK /\ Registered /\ Alive /\ Sendings /\ Loud /\ Tested

(* The inductive invariant holds at the start.                              *)
LEMMA InitInv == Init => Inv
  <1> SUFFICES ASSUME Init PROVE Inv  OBVIOUS
  <1> USE ServerAssumption DEF Init
  <1>1. STypeOK  BY DEF STypeOK, Up, Request
  <1>2. Keys  BY DEF Keys, Up, KeysExact
  <1>3. IoOK  BY DEF IoOK, Up
  <1>4. Registered  BY DEF Registered, Up
  <1>5. Alive  BY DEF Alive, Up
  <1>6. Sendings  BY DEF Sendings, Up
  <1>7. Loud  BY DEF Loud, Up
  <1>8. Tested  BY DEF Tested
  <1> QED  BY <1>1, <1>2, <1>3, <1>4, <1>5, <1>6, <1>7, <1>8 DEF Inv

(* What is put into a queue is in it, beside the pictures that were there.  *)
LEMMA PutFacts ==
  ASSUME NEW queue \in SUBSET (Player \cup {"other"}), NEW m \in Player \cup {"other"}
  PROVE  /\ Put(queue, m) \in SUBSET (Player \cup {"other"})
         /\ \A p \in Player : p \in Put(queue, m) <=> p \in queue \/ p = m
  BY ServerAssumption DEF Put

(* No two connections that are up have the same key.                        *)
LEMMA KeysDiffer ==
  ASSUME Inv, NEW c \in Conn, NEW d \in Conn,
         sock[c] \in Up, sock[d] \in Up, key[c] = key[d]
  PROVE  c = d
  BY DEF Inv, Keys, KeysExact, Up

(* The player in the hands of a handler works for the handler's connection. *)
LEMMA InHand ==
  ASSUME Inv, io_pc \in {"insert", "stop", "join"}
  PROVE  /\ io_conn \in Conn /\ io_player \in Player /\ key[io_conn] \in Key
         /\ run[io_player] \in {"running", "stopping"}
         /\ owner[io_player] = io_conn
         /\ user_handle[io_player] = key[io_conn]
  <1>1. io_conn \in Conn /\ io_player \in Player /\ key[io_conn] \in Key
    BY DEF Inv, STypeOK
  <1>2. run[io_player] \in {"running", "stopping"}  BY DEF Inv, IoOK
  <1>3. /\ owner[io_player] \in Conn /\ sock[owner[io_player]] \in Up
        /\ user_handle[io_player] = key[owner[io_player]]
        /\ mediaResourceManager[key[owner[io_player]]] = io_player
             \/ io_conn = owner[io_player]
    BY <1>1, <1>2 DEF Inv, Alive
  <1>4. mediaResourceManager[key[owner[io_player]]] # io_player
    BY <1>3 DEF Inv, IoOK, Keys
  <1> QED  BY <1>1, <1>2, <1>3, <1>4

(* What a player's key leads to in the map is its owner.                    *)
LEMMA OwnerMapped ==
  ASSUME Inv, NEW p \in Player, run[p] \in {"running", "stopping"}
  PROVE  /\ owner[p] \in Conn /\ sock[owner[p]] \in Up
         /\ user_handle[p] = key[owner[p]] /\ user_handle[p] \in Key
         /\ mapConnection[user_handle[p]] = owner[p]
  BY DEF Inv, Alive, Keys, KeysExact, Up

(* Every step preserves the inductive invariant.                            *)
LEMMA Inductive == Inv /\ [Next]_vars => Inv'
  <1> SUFFICES ASSUME Inv, [Next]_vars PROVE Inv'  OBVIOUS
  <1> USE ServerAssumption DEF Inv
  <1>1. ASSUME NEW c \in Conn, Lose(c) PROVE Inv'
    <2> USE <1>1 DEF Lose, registry, players, queues, io
    <2>1. STypeOK'  BY DEF STypeOK, Request
    <2>2. Keys'  BY DEF STypeOK, Keys, KeysExact, Up
    <2>3. IoOK'  BY DEF STypeOK, IoOK, Keys, Up
    <2>4. Registered'  BY DEF STypeOK, Registered
    <2>5. Alive'  BY DEF STypeOK, Alive, Keys, Up
    <2>6. Sendings'  BY DEF STypeOK, Sendings
    <2>7. Loud'  BY DEF STypeOK, Loud
    <2>8. Tested'  BY DEF STypeOK, Tested
    <2> QED  BY <2>1, <2>2, <2>3, <2>4, <2>5, <2>6, <2>7, <2>8
  <1>2. ASSUME NEW c \in Conn, onError(c) PROVE Inv'
    <2> USE <1>2 DEF onError, registry, players, queues, io
    <2>1. STypeOK'  BY DEF STypeOK, Request
    <2>2. Keys'  BY DEF STypeOK, Keys, KeysExact, Up
    <2>3. IoOK'  BY DEF STypeOK, IoOK, Keys, Up
    <2>4. Registered'  BY DEF STypeOK, Registered
    <2>5. Alive'  BY DEF STypeOK, Alive, Keys, Up
    <2>6. Sendings'  BY DEF STypeOK, Sendings
    <2>7. Loud'  BY DEF STypeOK, Loud
    <2>8. Tested'  BY DEF STypeOK, Tested
    <2> QED  BY <2>1, <2>2, <2>3, <2>4, <2>5, <2>6, <2>7, <2>8
  <1>3. ASSUME NEW c \in Conn, onClose(c) PROVE Inv'
    <2> USE <1>3 DEF onClose, registry, players, queues, io, Handle
    <2>1. STypeOK'  BY DEF STypeOK, Request, Keys, Up
    <2>2. Keys'  BY DEF STypeOK, Keys, KeysExact, Up
    <2>3. IoOK'  BY DEF STypeOK, IoOK, Keys, Up
    <2>4. Registered'  BY DEF STypeOK, Registered
    <2>5. Alive'  BY DEF STypeOK, Alive, Keys, Up
    <2>6. Sendings'  BY DEF STypeOK, Sendings
    <2>7. Loud'  BY DEF STypeOK, Loud
    <2>8. Tested'  BY DEF STypeOK, Tested
    <2> QED  BY <2>1, <2>2, <2>3, <2>4, <2>5, <2>6, <2>7, <2>8
  <1>4. ASSUME NEW c \in Conn, NEW k \in Key, onOpen(c, k) PROVE Inv'
    <2> USE <1>4 DEF onOpen, registry, players, queues, io, FreeKeys
    <2>1. STypeOK'  BY DEF STypeOK, Request
    <2>2. Keys'  BY DEF STypeOK, Keys, KeysExact, Up
    <2>3. IoOK'  BY DEF STypeOK, IoOK, Keys, Up
    <2>4. Registered'  BY DEF STypeOK, Registered
    <2>5. Alive'  BY DEF STypeOK, Alive, Keys, Up
    <2>6. Sendings'  BY DEF STypeOK, Sendings
    <2>7. Loud'  BY DEF STypeOK, Loud
    <2>8. Tested'  BY DEF STypeOK, Tested
    <2> QED  BY <2>1, <2>2, <2>3, <2>4, <2>5, <2>6, <2>7, <2>8
  <1>5. ASSUME NEW c \in Conn, NEW r \in Request, onMessage(c, r) PROVE Inv'
    <2> USE <1>5 DEF onMessage, registry, players, queues, io, Handle, Request
    <2>1. STypeOK'  BY DEF STypeOK, Request, Keys, Up
    <2>2. Keys'  BY DEF STypeOK, Keys, KeysExact, Up
    <2>3. IoOK'  BY DEF STypeOK, IoOK, Keys, Up
    <2>4. Registered'  BY DEF STypeOK, Registered
    <2>5. Alive'  BY DEF STypeOK, Alive, Keys, Up
    <2>6. Sendings'  BY DEF STypeOK, Sendings
    <2>7. Loud'  BY DEF STypeOK, Loud
    <2>8. Tested'  BY DEF STypeOK, Tested
    <2> QED  BY <2>1, <2>2, <2>3, <2>4, <2>5, <2>6, <2>7, <2>8
  <1>6. ASSUME NEW p \in Player, startPlay(p) PROVE Inv'
    <2> USE <1>6 DEF startPlay, registry, players, queues, io, IoGo, IoKey
    <2>1. STypeOK'  BY DEF STypeOK, Request
    <2>2. Keys'  BY DEF STypeOK, Keys, KeysExact, Up
    <2>3. IoOK'  BY DEF STypeOK, IoOK, Registered, Up
    <2>4. Registered'  BY DEF STypeOK, Registered
    <2>5. Alive'
      <3> SUFFICES ASSUME NEW q \in Player, run'[q] \in {"running", "stopping"}
                   PROVE  /\ owner'[q] \in Conn /\ sock[owner'[q]] \in Up
                          /\ user_handle'[q] = key[owner'[q]]
                          /\ \/ mediaResourceManager[key[owner'[q]]] = q
                             \/ io_player' = q /\ io_conn = owner'[q]
        BY DEF Alive
      <3>1. CASE q = p  BY <3>1 DEF STypeOK, IoOK
      <3>2. CASE q # p  BY <3>2 DEF STypeOK, Alive
      <3> QED  BY <3>1, <3>2
    <2>6. Sendings'  BY DEF STypeOK, Sendings
    <2>7. Loud'
      <3> SUFFICES ASSUME NEW q \in Player, run'[q] \in {"running", "stopping"}
                   PROVE  ~quiet[owner'[q]]
        BY DEF Loud
      <3>1. CASE q = p  BY <3>1 DEF STypeOK, IoOK
      <3>2. CASE q # p  BY <3>2 DEF STypeOK, Loud
      <3> QED  BY <3>1, <3>2
    <2>8. Tested'  BY DEF STypeOK, Tested
    <2> QED  BY <2>1, <2>2, <2>3, <2>4, <2>5, <2>6, <2>7, <2>8
  <1>7. ASSUME NEW p \in Player, Begin(p) PROVE Inv'
    <2> USE <1>7 DEF Begin, Sends, registry, players, queues, io
    <2>1. STypeOK'  BY DEF STypeOK, Request
    <2>2. Keys'  BY DEF STypeOK, Keys, KeysExact, Up
    <2>3. IoOK'  BY DEF STypeOK, IoOK, Keys, Up
    <2>4. Registered'  BY DEF STypeOK, Registered
    <2>5. Alive'  BY DEF STypeOK, Alive, Keys, Up
    <2>6. Sendings'  BY DEF STypeOK, Sendings
    <2>7. Loud'  BY DEF STypeOK, Loud
    <2>8. Tested'  BY DEF STypeOK, Tested
    <2> QED  BY <2>1, <2>2, <2>3, <2>4, <2>5, <2>6, <2>7, <2>8
  <1>8. ASSUME NEW p \in Player, Pass(p) PROVE Inv'
    <2> USE <1>8 DEF Pass, Sends, registry, players, queues, io
    <2>1. STypeOK'  BY DEF STypeOK, Request
    <2>2. Keys'  BY DEF STypeOK, Keys, KeysExact, Up
    <2>3. IoOK'  BY DEF STypeOK, IoOK, Keys, Up
    <2>4. Registered'  BY DEF STypeOK, Registered
    <2>5. Alive'  BY DEF STypeOK, Alive, Keys, Up
    <2>6. Sendings'  BY DEF STypeOK, Sendings
    <2>7. Loud'  BY DEF STypeOK, Loud
    <2>8. Tested'  BY DEF STypeOK, Tested
    <2> QED  BY <2>1, <2>2, <2>3, <2>4, <2>5, <2>6, <2>7, <2>8
  <1>9. ASSUME NEW p \in Player, Look(p) PROVE Inv'
    <2> USE <1>9 DEF Look, Sends, registry, players, queues, io
    <2>0. run[p] \in {"running", "stopping"}  BY DEF Sendings
    <2>a. mapConnection[user_handle[p]] = owner[p] /\ owner[p] \in Conn
      BY <2>0, OwnerMapped
    <2>1. STypeOK'  BY <2>a DEF STypeOK, Request
    <2>2. Keys'  BY DEF STypeOK, Keys, KeysExact, Up
    <2>3. IoOK'  BY DEF STypeOK, IoOK, Keys, Up
    <2>4. Registered'  BY DEF STypeOK, Registered
    <2>5. Alive'  BY DEF STypeOK, Alive, Keys, Up
    <2>6. Sendings'  BY <2>0, <2>a DEF STypeOK, Sendings
    <2>7. Loud'  BY DEF STypeOK, Loud
    <2>8. Tested'  BY DEF STypeOK, Tested
    <2> QED  BY <2>1, <2>2, <2>3, <2>4, <2>5, <2>6, <2>7, <2>8
  <1>10. ASSUME NEW p \in Player, Write(p) PROVE Inv'
    <2> USE <1>10 DEF Write, Sends, registry, players, queues, io
    <2> DEFINE c == sending[p]
               m == IF p \in tested THEN p ELSE "other"
    <2>0. /\ c \in Conn /\ buffer[c] \in SUBSET (Player \cup {"other"})
          /\ m \in Player \cup {"other"}
      BY DEF STypeOK
    <2>a. buffer' = [buffer EXCEPT ![c] = Put(buffer[c], m)]  OBVIOUS
    <2>b. /\ Put(buffer[c], m) \in SUBSET (Player \cup {"other"})
          /\ \A q \in Player : q \in Put(buffer[c], m) <=> q \in buffer[c] \/ q = m
      BY <2>0, PutFacts
    <2>1. STypeOK'  BY <2>a, <2>b DEF STypeOK, Request
    <2>2. Keys'  BY DEF STypeOK, Keys, KeysExact, Up
    <2>3. IoOK'  BY DEF STypeOK, IoOK, Keys, Up
    <2>4. Registered'  BY DEF STypeOK, Registered
    <2>5. Alive'  BY DEF STypeOK, Alive, Keys, Up
    <2>6. Sendings'  BY DEF STypeOK, Sendings
    <2>7. Loud'  BY DEF STypeOK, Loud
    <2>8. Tested'  BY <2>a, <2>b DEF STypeOK, Tested
    <2> QED  BY <2>1, <2>2, <2>3, <2>4, <2>5, <2>6, <2>7, <2>8
  <1>11. ASSUME InsertPlayer PROVE Inv'
    <2> USE <1>11 DEF InsertPlayer, registry, players, queues, io, IoGo, IoKey
    <2>1. STypeOK'  BY DEF STypeOK, Request
    <2>2. Keys'  BY DEF STypeOK, Keys, KeysExact, Up
    <2>3. IoOK'  BY DEF STypeOK, IoOK, Keys, Up
    <2>4. Registered'  BY InHand DEF STypeOK, Registered, IoOK
    <2>5. Alive'  BY DEF STypeOK, Alive, Keys, Up
    <2>6. Sendings'  BY DEF STypeOK, Sendings
    <2>7. Loud'  BY DEF STypeOK, Loud
    <2>8. Tested'  BY DEF STypeOK, Tested
    <2> QED  BY <2>1, <2>2, <2>3, <2>4, <2>5, <2>6, <2>7, <2>8
  <1>12. ASSUME DropPlayer PROVE Inv'
    <2> USE <1>12 DEF DropPlayer, registry, players, queues, io, IoGo, IoKey
    <2>1. STypeOK'  BY DEF STypeOK, Request
    <2>2. Keys'  BY DEF STypeOK, Keys, KeysExact, Up
    <2>3. IoOK'  BY DEF STypeOK, IoOK, Keys, Up
    <2>4. Registered'  BY DEF STypeOK, Registered
    <2>5. Alive'  BY DEF STypeOK, Alive, Keys, Up
    <2>6. Sendings'  BY DEF STypeOK, Sendings
    <2>7. Loud'  BY DEF STypeOK, Loud
    <2>8. Tested'  BY DEF STypeOK, Tested
    <2> QED  BY <2>1, <2>2, <2>3, <2>4, <2>5, <2>6, <2>7, <2>8
  <1>13. ASSUME FindPlayer PROVE Inv'
    <2> USE <1>13 DEF FindPlayer, registry, players, queues, io, IoGo, IoKey
    <2>0. /\ io_conn \in Conn /\ IoKey \in Key /\ sock[io_conn] \in Up
          /\ io_player' \in Player /\ run[io_player'] = "running"
          /\ user_handle[io_player'] = IoKey
      BY DEF STypeOK, IoOK, Registered
    <2>a. /\ owner[io_player'] = io_conn
      BY <2>0, OwnerMapped, KeysDiffer
    <2>1. STypeOK'  BY DEF STypeOK, Request
    <2>2. Keys'  BY DEF STypeOK, Keys, KeysExact, Up
    <2>3. IoOK'  BY <2>0 DEF STypeOK, IoOK, Registered
    <2>4. Registered'  BY DEF STypeOK, Registered
    <2>5. Alive'
      <3> SUFFICES ASSUME NEW q \in Player, run[q] \in {"running", "stopping"}
                   PROVE  /\ owner[q] \in Conn /\ sock[owner[q]] \in Up
                          /\ user_handle[q] = key[owner[q]]
                          /\ \/ mediaResourceManager'[key[owner[q]]] = q
                             \/ io_player' = q /\ io_conn = owner[q]
        BY DEF Alive
      <3>1. CASE q = io_player'  BY <3>1, <2>a, OwnerMapped
      <3>2. CASE q # io_player'
        <4>1. mediaResourceManager[key[owner[q]]] = q /\ key[owner[q]] \in Key
          BY <3>2, OwnerMapped DEF Alive
        <4> QED  BY <3>2, <4>1, OwnerMapped DEF STypeOK
      <3> QED  BY <3>1, <3>2
    <2>6. Sendings'  BY DEF STypeOK, Sendings
    <2>7. Loud'  BY DEF STypeOK, Loud
    <2>8. Tested'  BY DEF STypeOK, Tested
    <2> QED  BY <2>1, <2>2, <2>3, <2>4, <2>5, <2>6, <2>7, <2>8
  <1>14. ASSUME FindNothing PROVE Inv'
    <2> USE <1>14 DEF FindNothing, registry, players, queues, io, IoGo, IoKey, AfterStop
    <2>1. STypeOK'  BY DEF STypeOK, Request
    <2>2. Keys'  BY DEF STypeOK, Keys, KeysExact, Up
    <2>3. IoOK'  BY DEF STypeOK, IoOK, Keys, Up
    <2>4. Registered'  BY DEF STypeOK, Registered
    <2>5. Alive'  BY DEF STypeOK, Alive, Keys, Up
    <2>6. Sendings'  BY DEF STypeOK, Sendings
    <2>7. Loud'  BY DEF STypeOK, Loud
    <2>8. Tested'  BY DEF STypeOK, Tested
    <2> QED  BY <2>1, <2>2, <2>3, <2>4, <2>5, <2>6, <2>7, <2>8
  <1>15. ASSUME StopPlayer PROVE Inv'
    <2> USE <1>15 DEF StopPlayer, registry, players, queues, io, IoGo
    <2>1. STypeOK'  BY DEF STypeOK, Request
    <2>2. Keys'  BY DEF STypeOK, Keys, KeysExact, Up
    <2>3. IoOK'  BY DEF STypeOK, IoOK, Keys, Up
    <2>4. Registered'  BY DEF STypeOK, Registered, IoOK
    <2>5. Alive'  BY InHand DEF STypeOK, Alive
    <2>6. Sendings'  BY DEF STypeOK, Sendings
    <2>7. Loud'  BY InHand DEF STypeOK, Loud
    <2>8. Tested'  BY DEF STypeOK, Tested
    <2> QED  BY <2>1, <2>2, <2>3, <2>4, <2>5, <2>6, <2>7, <2>8
  <1>16. ASSUME JoinPlayer PROVE Inv'
    <2> USE <1>16 DEF JoinPlayer, registry, players, queues, io, IoGo, AfterStop
    <2>1. STypeOK'  BY DEF STypeOK, Request
    <2>2. Keys'  BY DEF STypeOK, Keys, KeysExact, Up
    <2>3. IoOK'  BY DEF STypeOK, IoOK, Keys, Up
    <2>4. Registered'  BY DEF STypeOK, Registered, IoOK
    <2>5. Alive'  BY DEF STypeOK, Alive, Keys, Up
    <2>6. Sendings'  BY DEF STypeOK, Sendings
    <2>7. Loud'  BY DEF STypeOK, Loud
    <2>8. Tested'  BY DEF STypeOK, Tested
    <2> QED  BY <2>1, <2>2, <2>3, <2>4, <2>5, <2>6, <2>7, <2>8
  <1>17. ASSUME Reply PROVE Inv'
    <2> USE <1>17 DEF Reply, registry, players, queues, io
    <2>0. io_conn \in Conn /\ buffer[io_conn] \in SUBSET (Player \cup {"other"})
      BY DEF STypeOK
    <2>a. buffer' = [buffer EXCEPT ![io_conn] = Put(buffer[io_conn], "other")]  OBVIOUS
    <2>b. /\ Put(buffer[io_conn], "other") \in SUBSET (Player \cup {"other"})
          /\ \A q \in Player : q \in Put(buffer[io_conn], "other") <=> q \in buffer[io_conn]
      BY <2>0, PutFacts
    <2>1. STypeOK'  BY <2>a, <2>b DEF STypeOK, Request
    <2>2. Keys'  BY DEF STypeOK, Keys, KeysExact, Up
    <2>3. IoOK'  BY DEF STypeOK, IoOK, Keys, Up
    <2>4. Registered'  BY DEF STypeOK, Registered
    <2>5. Alive'  BY DEF STypeOK, Alive, Keys, Up
    <2>6. Sendings'  BY DEF STypeOK, Sendings
    <2>7. Loud'
      <3> SUFFICES ASSUME NEW q \in Player, run[q] \in {"running", "stopping"}
                   PROVE  ~quiet'[owner[q]]
        BY DEF Loud
      <3>1. owner[q] \in Conn /\ mediaResourceManager[key[owner[q]]] = q
        BY OwnerMapped DEF Alive
      <3>2. io_req = "stop" => owner[q] # io_conn  BY <3>1 DEF IoOK
      <3> QED  BY <3>1, <3>2 DEF STypeOK, Loud
    <2>8. Tested'  BY <2>a, <2>b DEF STypeOK, Tested
    <2> QED  BY <2>1, <2>2, <2>3, <2>4, <2>5, <2>6, <2>7, <2>8
  <1>18. ASSUME Unmap PROVE Inv'
    <2> USE <1>18 DEF Unmap, registry, players, queues, io, IoKey
    <2>1. STypeOK'  BY DEF STypeOK, Request
    <2>2. Keys'
      <3>1. io_conn \in Conn /\ IoKey \in Key /\ mapConnection[IoKey] = io_conn
        BY DEF STypeOK, IoOK, Keys, KeysExact, Up
      <3>2. \A c \in Conn : sock'[c] \in Up => key[c] \in Key
        BY <3>1 DEF STypeOK, Keys, Up
      <3>3. ASSUME NEW c \in Conn, NEW k \in Key
            PROVE  mapConnection'[k] = c <=> key[c] = k /\ sock'[c] \in Up
        <4>1. CASE c = io_conn
          BY <3>1, <4>1 DEF STypeOK, Keys, KeysExact, Up
        <4>2. CASE c # io_conn
          <5>1. sock'[c] = sock[c]  BY <4>2 DEF STypeOK
          <5>2. mapConnection[k] = c <=> key[c] = k /\ sock[c] \in Up
            BY DEF Keys, KeysExact, Up
          <5>3. mapConnection[k] = c => k # IoKey  BY <3>1, <4>2
          <5>4. CASE k = IoKey
            BY <3>1, <5>1, <5>2, <5>3, <5>4 DEF STypeOK
          <5>5. CASE k # IoKey
            BY <5>1, <5>2, <5>5 DEF STypeOK
          <5> QED  BY <5>4, <5>5
        <4> QED  BY <4>1, <4>2
      <3> QED  BY <3>2, <3>3 DEF Keys, KeysExact, Up
    <2>3. IoOK'  BY DEF STypeOK, IoOK, Keys, Up
    <2>4. Registered'  BY DEF STypeOK, Registered
    <2>5. Alive'
      <3> SUFFICES ASSUME NEW q \in Player, run[q] \in {"running", "stopping"}
                   PROVE  /\ owner[q] \in Conn /\ sock'[owner[q]] \in Up
                          /\ user_handle[q] = key[owner[q]]
                          /\ mediaResourceManager[key[owner[q]]] = q
        BY DEF Alive
      <3>1. owner[q] \in Conn /\ mediaResourceManager[key[owner[q]]] = q
        BY OwnerMapped DEF Alive
      <3>2. owner[q] # io_conn  BY <3>1 DEF IoOK
      <3> QED  BY <3>1, <3>2, OwnerMapped DEF STypeOK
    <2>6. Sendings'  BY DEF STypeOK, Sendings
    <2>7. Loud'  BY DEF STypeOK, Loud
    <2>8. Tested'  BY DEF STypeOK, Tested
    <2> QED  BY <2>1, <2>2, <2>3, <2>4, <2>5, <2>6, <2>7, <2>8
  <1>19. ASSUME NEW p \in Player, Overflow(p) PROVE Inv'
    <2> USE <1>19 DEF Overflow, Sends, registry, players, queues, io
    <2>1. STypeOK'  BY DEF STypeOK, Request
    <2>2. Keys'  BY DEF STypeOK, Keys, KeysExact, Up
    <2>3. IoOK'  BY DEF STypeOK, IoOK, Keys, Up
    <2>4. Registered'  BY DEF STypeOK, Registered
    <2>5. Alive'  BY DEF STypeOK, Alive, Keys, Up
    <2>6. Sendings'  BY DEF STypeOK, Sendings
    <2>7. Loud'  BY DEF STypeOK, Loud
    <2>8. Tested'  BY DEF STypeOK, Tested
    <2> QED  BY <2>1, <2>2, <2>3, <2>4, <2>5, <2>6, <2>7, <2>8
  <1>20. ASSUME NEW p \in Player, Test(p) PROVE Inv'
    <2> USE <1>20 DEF Test, Sends, registry, players, queues, io
    <2>1. STypeOK'  BY DEF STypeOK, Request
    <2>2. Keys'  BY DEF STypeOK, Keys, KeysExact, Up
    <2>3. IoOK'  BY DEF STypeOK, IoOK, Keys, Up
    <2>4. Registered'  BY DEF STypeOK, Registered
    <2>5. Alive'  BY DEF STypeOK, Alive, Keys, Up
    <2>6. Sendings'  BY DEF STypeOK, Sendings
    <2>7. Loud'  BY DEF STypeOK, Loud
    <2>8. Tested'  BY DEF STypeOK, Tested
    <2> QED  BY <2>1, <2>2, <2>3, <2>4, <2>5, <2>6, <2>7, <2>8
  <1>21. ASSUME NEW c \in Conn, StartWrite(c) PROVE Inv'
    <2> USE <1>21 DEF StartWrite, registry, players, queues, io
    <2>1. STypeOK'  BY DEF STypeOK, Request
    <2>2. Keys'  BY DEF STypeOK, Keys, KeysExact, Up
    <2>3. IoOK'  BY DEF STypeOK, IoOK, Keys, Up
    <2>4. Registered'  BY DEF STypeOK, Registered
    <2>5. Alive'  BY DEF STypeOK, Alive, Keys, Up
    <2>6. Sendings'  BY DEF STypeOK, Sendings
    <2>7. Loud'  BY DEF STypeOK, Loud
    <2>8. Tested'  BY DEF STypeOK, Tested
    <2> QED  BY <2>1, <2>2, <2>3, <2>4, <2>5, <2>6, <2>7, <2>8
  <1>23. ASSUME NEW c \in Conn, Written(c) PROVE Inv'
    <2> USE <1>23 DEF Written, registry, players, queues, io
    <2>1. STypeOK'  BY DEF STypeOK, Request
    <2>2. Keys'  BY DEF STypeOK, Keys, KeysExact, Up
    <2>3. IoOK'  BY DEF STypeOK, IoOK, Keys, Up
    <2>4. Registered'  BY DEF STypeOK, Registered
    <2>5. Alive'  BY DEF STypeOK, Alive, Keys, Up
    <2>6. Sendings'  BY DEF STypeOK, Sendings
    <2>7. Loud'  BY DEF STypeOK, Loud
    <2>8. Tested'  BY DEF STypeOK, Tested
    <2> QED  BY <2>1, <2>2, <2>3, <2>4, <2>5, <2>6, <2>7, <2>8
  <1>24. ASSUME NEW p \in Player, Sleep(p) PROVE Inv'
    <2> USE <1>24 DEF Sleep, Sends, registry, players, queues, io
    <2>1. STypeOK'  BY DEF STypeOK, Request
    <2>2. Keys'  BY DEF STypeOK, Keys, KeysExact, Up
    <2>3. IoOK'  BY DEF STypeOK, IoOK, Keys, Up
    <2>4. Registered'  BY DEF STypeOK, Registered
    <2>5. Alive'  BY DEF STypeOK, Alive, Keys, Up
    <2>6. Sendings'  BY DEF STypeOK, Sendings
    <2>7. Loud'  BY DEF STypeOK, Loud
    <2>8. Tested'  BY DEF STypeOK, Tested
    <2> QED  BY <2>1, <2>2, <2>3, <2>4, <2>5, <2>6, <2>7, <2>8
  <1>22. CASE UNCHANGED vars
    BY <1>22 DEF vars, registry, players, queues, io, STypeOK, Keys, KeysExact, IoOK,
        Registered, Alive, Sendings, Loud, Tested
  <1> QED
    BY <1>1, <1>2, <1>3, <1>4, <1>5, <1>6, <1>7, <1>8, <1>9, <1>10, <1>11, <1>12, <1>13, <1>14, <1>15, <1>16, <1>17, <1>18, <1>19, <1>20, <1>21, <1>22,
       <1>23, <1>24 DEF Next, Io, PlayerStep, Exhausted

(* The inductive invariant holds in every reachable state.                  *)
LEMMA Invariance == Spec => []Inv
  BY InitInv, Inductive, PTL DEF Spec

(* The registries keep their types, and a handler has the player it needs.  *)
THEOREM ServerTypeCorrect == Spec => []STypeOK
  BY Invariance, PTL DEF Inv

(* The connection map is exact: insert never meets an entry.                *)
THEOREM MapIsExact == Spec => []KeysExact
  <1>1. Inv => KeysExact  BY DEF Inv, Keys
  <1> QED  BY <1>1, Invariance, PTL

(* No player is left behind by its connection.                              *)
THEOREM NoOrphans == Spec => []NoOrphan
  <1>1. Inv => NoOrphan
    <2> SUFFICES ASSUME Inv, io_pc = "idle" PROVE NoOrphan  BY DEF NoOrphan
    <2>1. ASSUME NEW p \in Player, run[p] \notin {"none", "joined"}
          PROVE  \E c \in Conn : /\ owner[p] = c
                                 /\ sock[c] \in {"open", "lost"}
                                 /\ mediaResourceManager[key[c]] = p
      <3>1. run[p] \in {"running", "stopping"}  BY <2>1 DEF Inv, STypeOK
      <3> QED  BY <3>1, OwnerMapped DEF Inv, Alive, Up
    <2>2. ASSUME NEW k \in Key, mediaResourceManager[k] # None
          PROVE  run[mediaResourceManager[k]] = "running"
      BY <2>2 DEF Inv, Registered
    <2> QED  BY <2>1, <2>2 DEF NoOrphan
  <1> QED  BY <1>1, Invariance, PTL

(* Messages reach their own client only.                                    *)
THEOREM OwnClients == Spec => OwnClientOnly
  <1>1. Inv /\ [Next]_vars =>
          [\A p \in Player, c \in Conn : Delivers(p, c) => owner[p] = c]_vars
    BY ServerAssumption DEF Inv, Sendings, Delivers
  <1> QED  BY <1>1, Invariance, PTL DEF Spec, OwnClientOnly

(* Nothing is sent after the answer to a Stop.                              *)
THEOREM StopIsQuiet == Spec => QuietAfterStop
  <1>1. Inv /\ [Next]_vars =>
          [\A p \in Player, c \in Conn : Delivers(p, c) => ~quiet[c]]_vars
    BY ServerAssumption DEF Inv, Sendings, Loud, Delivers
  <1> QED  BY <1>1, Invariance, PTL DEF Spec, QuietAfterStop

(* A small picture never joins a queue that holds one of its player: it     *)
(* waits behind no other than the one that is being written (141).          *)
THEOREM PicturesDoNotPile == Spec => OnePictureQueued
  <1>1. Inv /\ [Next]_vars =>
          [\A p \in Player, c \in Conn :
              p \in tested /\ p \notin tested' /\ sending[p] = c => p \notin buffer[c]]_vars
    BY DEF Inv, Tested
  <1> QED  BY <1>1, Invariance, PTL DEF Spec, OnePictureQueued

(* A Play that is answered with success leaves a player for its connection. *)
THEOREM PlaysArePlayed == Spec => []AnsweredPlays
  <1>1. Inv => AnsweredPlays
    <2> SUFFICES ASSUME Inv, io_pc = "reply", io_req = "play"
                 PROVE  \E p \in Player : /\ mediaResourceManager[IoKey] = p
                                          /\ run[p] = "running"
                                          /\ owner[p] = io_conn
      BY DEF AnsweredPlays
    <2> DEFINE p == mediaResourceManager[IoKey]
    <2>1. io_conn \in Conn /\ IoKey \in Key /\ sock[io_conn] \in Up
      BY DEF Inv, STypeOK, IoOK, IoKey
    <2>2. p \in Player /\ run[p] = "running" /\ user_handle[p] = IoKey
      BY <2>1 DEF Inv, STypeOK, IoOK, Registered, IoKey
    <2>3. owner[p] = io_conn
      BY <2>1, <2>2, OwnerMapped, KeysDiffer DEF IoKey
    <2> QED  BY <2>2, <2>3
  <1> QED  BY <1>1, Invariance, PTL

(* A step that lets go of what is sent to a connection, or adds to it while *)
(* its client asks, is one of a Subscription.                               *)
LEMMA FedStep ==
  ASSUME Inv, NEW c \in Conn, sock[c] \in Up, UNCHANGED <<sock, quiet>>,
         \A d \in Conn \ {c} : Fed'[d] = Fed[d],
         Fed'[c] => Fed[c] \/ ~quiet[c]
  PROVE  [Client!CNext]_(Client!cvars)
  <1>1. Link' = Link /\ Asked' = Asked  BY DEF Link, Asked
  <1>2. Link[c] = "up"  BY DEF Link, Up
  <1>3. Fed' = [Fed EXCEPT ![c] = Fed'[c]] /\ Fed'[c] \in BOOLEAN /\ Fed[c] \in BOOLEAN
    <2>1. Fed = [d \in Conn |-> Fed[d]] /\ Fed' = [d \in Conn |-> Fed'[d]]
      BY Zenon DEF Fed
    <2>2. Fed[c] = (\E p \in Player : sending[p] = c \/ p \in buffer[c])
      BY Zenon DEF Fed
    <2>3. Fed'[c] = (\E p \in Player : sending'[p] = c \/ p \in buffer'[c])
      BY Zenon DEF Fed
    <2>4. Fed' = [Fed EXCEPT ![c] = Fed'[c]]
      <3> DEFINE new == Fed'
                 old == Fed
      <3>1. /\ old = [d \in Conn |-> old[d]] /\ new = [d \in Conn |-> new[d]]
            /\ \A d \in Conn \ {c} : new[d] = old[d]
        BY <2>1
      <3> HIDE DEF new, old
      <3>2. new = [old EXCEPT ![c] = new[c]]  BY <3>1
      <3> QED  BY <3>2 DEF new, old
    <2>5. Fed'[c] \in BOOLEAN  BY <2>3
    <2>6. Fed[c] \in BOOLEAN  BY <2>2
    <2> QED  BY <2>4, <2>5, <2>6
  <1>4. CASE Fed'[c] = Fed[c]
    <2>1. Fed' = Fed  BY <1>3, <1>4 DEF Fed
    <2> QED  BY <1>1, <2>1 DEF Client!cvars
  <1>5. CASE Fed'[c] /\ ~Fed[c]
    <2>1. Client!Feed(c)
      <3>1. Asked[c]  BY <1>5 DEF Asked
      <3>2. Fed' = [Fed EXCEPT ![c] = TRUE]  BY <1>3, <1>5
      <3> QED  BY <1>1, <1>2, <3>1, <3>2 DEF Client!Feed
    <2> QED  BY <2>1 DEF Client!CNext
  <1>6. CASE ~Fed'[c] /\ Fed[c]
    <2>1. Client!Written(c)
      <3>1. Fed' = [Fed EXCEPT ![c] = FALSE]  BY <1>3, <1>6
      <3> QED  BY <1>1, <1>2, <3>1 DEF Client!Written
    <2> QED  BY <2>1 DEF Client!CNext
  <1> QED  BY <1>3, <1>4, <1>5, <1>6

(* Every step of the server is one of a Subscription, or shows nothing.     *)
LEMMA StepRefines ==
  ASSUME Inv, [Next]_vars
  PROVE  [Client!CNext]_(Client!cvars)
  <1> USE ServerAssumption
  <1>0. UNCHANGED <<sock, quiet, sending, buffer>> => [Client!CNext]_(Client!cvars)
    BY DEF Client!cvars, Link, Asked, Fed
  <1>f. UNCHANGED <<sending, buffer>> => Fed' = Fed  BY DEF Fed
  <1>1. ASSUME NEW c \in Conn, Lose(c) PROVE [Client!CNext]_(Client!cvars)
    <2>1. Link' = Link  BY <1>1 DEF Lose, Inv, STypeOK, Link
    <2>2. Asked' = Asked /\ Fed' = Fed
      BY <1>1, <1>f DEF Lose, players, Asked
    <2> QED  BY <2>1, <2>2 DEF Client!cvars
  <1>2. ASSUME NEW c \in Conn, onError(c) PROVE [Client!CNext]_(Client!cvars)
    <2>1. Link[c] = "none" /\ Link' = [Link EXCEPT ![c] = "gone"]
      BY <1>2 DEF onError, Inv, STypeOK, Link
    <2>2. Asked' = Asked /\ Fed' = Fed
      BY <1>2, <1>f DEF onError, players, queues, Asked
    <2>3. Client!Refuse(c)  BY <2>1, <2>2 DEF Client!Refuse
    <2> QED  BY <2>3 DEF Client!CNext
  <1>3. ASSUME NEW c \in Conn, onClose(c) PROVE [Client!CNext]_(Client!cvars)
    BY <1>3, <1>0 DEF onClose, Handle, players, queues
  <1>4. ASSUME NEW c \in Conn, NEW k \in Key, onOpen(c, k)
        PROVE  [Client!CNext]_(Client!cvars)
    <2>1. Link[c] = "none" /\ Link' = [Link EXCEPT ![c] = "up"]
      BY <1>4 DEF onOpen, Inv, STypeOK, Link
    <2>2. Asked' = Asked /\ Fed' = Fed
      BY <1>4, <1>f DEF onOpen, players, queues, Asked
    <2>3. Client!Connect(c)  BY <2>1, <2>2 DEF Client!Connect
    <2> QED  BY <2>3 DEF Client!CNext
  <1>5. ASSUME NEW c \in Conn, NEW r \in Request, onMessage(c, r)
        PROVE  [Client!CNext]_(Client!cvars)
    <2>1. Link' = Link /\ Fed' = Fed
      BY <1>5, <1>f DEF onMessage, Handle, players, queues, Link
    <2>2. CASE r = "play"
      <3>1. Link[c] = "up"  BY <1>5 DEF onMessage, Link
      <3>2. Asked' = [Asked EXCEPT ![c] = TRUE]
        BY <1>5, <2>2 DEF onMessage, Inv, STypeOK, Asked
      <3>3. Client!Play(c)  BY <2>1, <3>1, <3>2 DEF Client!Play
      <3> QED  BY <3>3 DEF Client!CNext
    <2>3. CASE r # "play"
      <3>1. Asked' = Asked  BY <1>5, <2>3 DEF onMessage, Inv, STypeOK, Asked
      <3> QED  BY <2>1, <3>1 DEF Client!cvars
    <2> QED  BY <2>2, <2>3
  <1>6. ASSUME NEW p \in Player, startPlay(p) PROVE [Client!CNext]_(Client!cvars)
    BY <1>6, <1>0 DEF startPlay, IoGo, queues
  <1>7. ASSUME NEW p \in Player, PlayerStep(p) PROVE [Client!CNext]_(Client!cvars)
    <2> USE DEF Sends, Inv, STypeOK
    <2>1. CASE sending[p] \in Conn
      <3> DEFINE c == sending[p]
      <3>1. run[p] \in {"running", "stopping"} /\ c = owner[p]
        BY <2>1 DEF Sendings
      <3>2. sock[c] \in Up /\ ~quiet[c]  BY <3>1, OwnerMapped DEF Loud
      <3>3. UNCHANGED <<sock, quiet>>
        BY <1>7, <2>1 DEF PlayerStep, Begin, Pass, Sleep, Look, Overflow, Test, Write
      <3>4. \A d \in Conn \ {c}, q \in Player :
              /\ sending'[q] = d <=> sending[q] = d
              /\ buffer'[d] = buffer[d]
        BY <1>7, <2>1 DEF PlayerStep, Begin, Pass, Sleep, Look, Overflow, Test, Write
      <3>5. \A d \in Conn \ {c} : Fed'[d] = Fed[d]  BY <3>4 DEF Fed
      <3> HIDE DEF c
      <3>6. c \in Conn  BY <2>1 DEF c
      <3> QED  BY <3>2, <3>3, <3>5, <3>6, FedStep
    <2>2. CASE Look(p)
      <3> DEFINE c == owner[p]
      <3>1. run[p] \in {"running", "stopping"} /\ sending[p] = "busy"
        BY <2>2 DEF Look, Sendings
      <3>2. /\ c \in Conn /\ sock[c] \in Up /\ ~quiet[c]
            /\ mapConnection[user_handle[p]] = c
        BY <3>1, OwnerMapped DEF Loud
      <3>3. UNCHANGED <<sock, quiet, buffer>>  BY <2>2 DEF Look
      <3>4. \A d \in Conn \ {c}, q \in Player : sending'[q] = d <=> sending[q] = d
        BY <2>2, <3>1, <3>2 DEF Look
      <3>5. \A d \in Conn \ {c} : Fed'[d] = Fed[d]  BY <3>3, <3>4 DEF Fed
      <3> HIDE DEF c
      <3> QED  BY <3>2, <3>3, <3>5, FedStep
    <2>3. CASE Begin(p) \/ Pass(p) \/ Sleep(p)
      <3>1. UNCHANGED <<sock, quiet, buffer>>  BY <2>3 DEF Begin, Pass, Sleep
      <3>2. \A d \in Conn, q \in Player : sending'[q] = d <=> sending[q] = d
        BY <2>3 DEF Begin, Pass, Sleep
      <3>3. Fed' = Fed  BY <3>1, <3>2 DEF Fed
      <3> QED  BY <3>1, <3>3 DEF Client!cvars, Link, Asked
    <2> QED  BY <1>7, <2>1, <2>2, <2>3 DEF PlayerStep, Overflow, Test, Write
  <1>8. ASSUME NEW c \in Conn, StartWrite(c) \/ Written(c)
        PROVE  [Client!CNext]_(Client!cvars)
    <2>1. UNCHANGED <<sock, quiet, sending>> /\ sock[c] \in Up
      BY <1>8 DEF StartWrite, Written, players, Up
    <2>2. \A d \in Conn \ {c} : buffer'[d] = buffer[d]
      BY <1>8 DEF StartWrite, Written, Inv, STypeOK
    <2>3. \A d \in Conn \ {c} : Fed'[d] = Fed[d]  BY <2>1, <2>2 DEF Fed
    <2>4. Fed'[c] => Fed[c]  BY <1>8, <2>1 DEF StartWrite, Written, Inv, STypeOK, Fed
    <2> QED  BY <2>1, <2>3, <2>4, FedStep
  <1>9. CASE InsertPlayer \/ DropPlayer \/ FindPlayer \/ FindNothing \/ StopPlayer
             \/ JoinPlayer
    BY <1>9, <1>0 DEF InsertPlayer, DropPlayer, FindPlayer, FindNothing, StopPlayer,
       JoinPlayer, IoGo, players, queues
  <1>10. CASE Reply
    <2>1. io_conn \in Conn /\ sock[io_conn] \in Up
      BY <1>10 DEF Reply, Inv, STypeOK, IoOK
    <2>2. Link' = Link /\ Link[io_conn] = "up"
      BY <1>10, <2>1 DEF Reply, Link, Up
    <2>3. \A d \in Conn, p \in Player :
            /\ sending'[p] = d <=> sending[p] = d
            /\ p \in buffer'[d] <=> p \in buffer[d]
      BY <1>10, <2>1, PutFacts DEF Reply, players, queues, Inv, STypeOK
    <2>4. Fed' = Fed  BY <2>3 DEF Fed
    <2>5. CASE io_req = "stop"
      <3>1. Asked' = [Asked EXCEPT ![io_conn] = FALSE]
        BY <1>10, <2>1, <2>5 DEF Reply, Inv, STypeOK, Asked
      <3>2. Client!Stopped(io_conn)
        BY <2>1, <2>2, <2>4, <3>1 DEF Client!Stopped
      <3> QED  BY <2>1, <3>2 DEF Client!CNext
    <2>6. CASE io_req # "stop"
      <3>1. Asked' = Asked
        BY <1>10, <2>1, <2>6 DEF Reply, Inv, STypeOK, Asked
      <3> QED  BY <2>2, <2>4, <3>1 DEF Client!cvars
    <2> QED  BY <2>5, <2>6
  <1>11. CASE Unmap
    <2>1. io_conn \in Conn /\ sock[io_conn] \in Up
      BY <1>11 DEF Unmap, Inv, STypeOK, IoOK
    <2>2. \A p \in Player : sending[p] # io_conn
      <3> SUFFICES ASSUME NEW p \in Player, sending[p] = io_conn PROVE FALSE
        OBVIOUS
      <3>1. run[p] \in {"running", "stopping"} /\ owner[p] = io_conn
        BY <2>1 DEF Inv, STypeOK, Sendings
      <3>2. mediaResourceManager[key[io_conn]] = p
        BY <1>11, <3>1 DEF Unmap, Inv, Alive
      <3> QED  BY <1>11, <3>2 DEF Unmap, Inv, IoOK
    <2>3. Link[io_conn] = "up" /\ Link' = [Link EXCEPT ![io_conn] = "gone"]
      BY <1>11, <2>1 DEF Unmap, Inv, STypeOK, Link, Up
    <2>4. Asked' = Asked  BY <1>11 DEF Unmap, Asked
    <2>5. /\ UNCHANGED sending
          /\ buffer'[io_conn] = {}
          /\ \A d \in Conn \ {io_conn} : buffer'[d] = buffer[d]
      BY <1>11, <2>1 DEF Unmap, players, Inv, STypeOK
    <2>6. Fed' = [Fed EXCEPT ![io_conn] = FALSE]  BY <2>2, <2>5 DEF Fed
    <2>7. Client!End(io_conn)  BY <2>3, <2>4, <2>6 DEF Client!End
    <2> QED  BY <2>1, <2>7 DEF Client!CNext
  <1>12. CASE UNCHANGED vars
    BY <1>12, <1>0 DEF vars, players, queues
  <1> QED
    BY <1>1, <1>2, <1>3, <1>4, <1>5, <1>6, <1>7, <1>8, <1>9, <1>10, <1>11, <1>12 DEF Next, Io, Exhausted

(* The server is a Subscription to each client: nothing is sent to one that *)
(* did not ask, was told of the stop, or is gone.                           *)
THEOREM ServerIsSubscription == Spec => ImplementsSubscription
  <1>1. ASSUME Init PROVE Client!CInit
    <2>1. Link = [c \in Conn |-> "none"]  BY <1>1 DEF Init, Link
    <2>2. Asked = [c \in Conn |-> FALSE]  BY <1>1 DEF Init, Asked
    <2>3. \A c \in Conn, p \in Player : sending[p] # c /\ p \notin buffer[c]
      BY <1>1, ServerAssumption DEF Init
    <2>4. Fed = [c \in Conn |-> FALSE]  BY <2>3 DEF Fed
    <2> QED  BY <2>1, <2>2, <2>4 DEF Client!CInit
  <1>2. Inv /\ [Next]_vars => [Client!CNext]_(Client!cvars)  BY StepRefines
  <1> QED
    BY <1>1, <1>2, Invariance, PTL DEF Spec, ImplementsSubscription, Client!CSpec

----------------------------------------------------------------------------
(* What HandlersReturn and LostReleases rest on besides fairness.           *)

(* A player is owned once it has been started, and one is left for the Play *)
(* at hand.                                                                 *)
Owned ==
    /\ \A p \in Player : run[p] = "none" => owner[p] = None
    /\ io_pc = "play" => \E p \in Player : run[p] = "none"

LEMMA OwnedStep ==
  ASSUME Inv, Owned, [Next]_vars
  PROVE  Owned'
  <1> USE ServerAssumption DEF Owned
  <1>1. CASE \/ UNCHANGED vars \/ Exhausted
             \/ \E c \in Conn : \/ Lose(c) \/ onError(c) \/ StartWrite(c) \/ Written(c) \/ onClose(c)
                                \/ (\E k \in Key : onOpen(c, k))
    BY <1>1 DEF vars, players, Exhausted, Lose, onError, StartWrite, Written, onClose, Handle, onOpen
  <1>2. ASSUME NEW c \in Conn, NEW r \in Request, onMessage(c, r) PROVE Owned'
    <2>1. UNCHANGED <<run, owner>>  BY <1>2 DEF onMessage, Handle, players
    <2>2. io_pc' = "play" => r = "play"  BY <1>2 DEF onMessage, Handle, Request
    <2>3. io_pc' = "play" => \E p \in Player : run[p] = "none"  BY <1>2, <2>2 DEF onMessage
    <2> QED  BY <2>1, <2>3
  <1>3. ASSUME NEW p \in Player, startPlay(p) PROVE Owned'
    BY <1>3 DEF startPlay, IoGo, Inv, STypeOK
  <1>4. ASSUME NEW p \in Player, PlayerStep(p) PROVE Owned'
    BY <1>4 DEF PlayerStep, Begin, Pass, Sleep, Look, Overflow, Test, Write, Sends
  <1>5. CASE InsertPlayer \/ DropPlayer \/ FindPlayer \/ FindNothing \/ Reply \/ Unmap
    BY <1>5 DEF InsertPlayer, DropPlayer, FindPlayer, FindNothing, AfterStop, Reply, Unmap, IoGo,
       players
  <1>6. CASE StopPlayer \/ JoinPlayer
    BY <1>6 DEF StopPlayer, JoinPlayer, AfterStop, IoGo, Inv, STypeOK
  <1> QED  BY <1>1, <1>2, <1>3, <1>4, <1>5, <1>6 DEF Next, Io

LEMMA OwnedInvariance == Spec => []Owned
  <1>1. Init => Owned  BY DEF Init, Owned
  <1> QED  BY Invariance, <1>1, OwnedStep, PTL DEF Spec

(* The statements a handler has yet to run.                                 *)
IoLeft ==
    CASE io_pc = "play" -> 5
      [] io_pc \in {"insert", "find"} -> 4
      [] io_pc = "stop" -> 3
      [] io_pc = "join" -> 2
      [] io_pc \in {"reply", "unmap"} -> 1
      [] OTHER -> 0

(* A handler waits for nothing but the pass of a player that was told to    *)
(* stop (signalSession.cpp:26-40, 173-190; ffmpegWrapper.cpp:235-248).      *)
Unhindered ==
    /\ io_pc = "play" => \E p \in Player : run[p] = "none"
    /\ io_pc = "join" => sending[io_player] = None \/ run[io_player] = "stopping"

(* The handler thread comes nearer to the end of its handler with each of   *)
(* its steps, and the thread of a player that was told to stop begins no    *)
(* new pass of its loop: a handler that joins it waits for one pass, which  *)
(* ends unless the thread sleeps in get() (Hung).                           *)
THEOREM HandlersGetOn ==
  Spec => /\ []Unhindered
          /\ [][/\ io_pc # "idle" => \/ UNCHANGED <<io_pc, io_conn, io_req>>
                                     \/ IoLeft \in 1 .. 5 /\ IoLeft' \in 0 .. 4 /\ IoLeft' < IoLeft
                /\ \A p \in Player :
                       run[p] \in {"stopping", "joined"} =>
                           /\ run'[p] \in {"stopping", "joined"}
                           /\ sending[p] = None => sending'[p] = None]_vars
  <1> USE ServerAssumption
  <1>1. Inv /\ Owned => Unhindered
    BY DEF Inv, IoOK, Owned, Unhindered
  <1> DEFINE OnlyOn == io_pc # "idle" =>
                 \/ UNCHANGED <<io_pc, io_conn, io_req>>
                 \/ IoLeft \in 1 .. 5 /\ IoLeft' \in 0 .. 4 /\ IoLeft' < IoLeft
             LastPass == \A p \in Player :
                 run[p] \in {"stopping", "joined"} =>
                     /\ run'[p] \in {"stopping", "joined"}
                     /\ sending[p] = None => sending'[p] = None
  <1>2. Inv /\ [Next]_vars => OnlyOn
    <2> SUFFICES ASSUME Inv, [Next]_vars, io_pc # "idle"
                 PROVE  \/ UNCHANGED <<io_pc, io_conn, io_req>>
                        \/ IoLeft \in 1 .. 5 /\ IoLeft' \in 0 .. 4 /\ IoLeft' < IoLeft
      OBVIOUS
    <2>1. CASE \/ UNCHANGED vars
               \/ (\E p \in Player : PlayerStep(p))
               \/ (\E c \in Conn : Lose(c))
      BY <2>1 DEF vars, io, PlayerStep, Begin, Pass, Sleep, Look, Overflow, Test, Write, Sends, Lose
    <2>2. CASE Io \/ \E p \in Player : startPlay(p)
      <3>1. \/ io_pc = "play" /\ io_pc' = "insert"
            \/ io_pc = "insert" /\ io_pc' \in {"reply", "stop"}
            \/ io_pc = "find" /\ io_pc' \in {"stop", "unmap", "reply"}
            \/ io_pc = "stop" /\ io_pc' = "join"
            \/ io_pc = "join" /\ io_pc' \in {"unmap", "reply"}
            \/ io_pc \in {"reply", "unmap"} /\ io_pc' = "idle"
        BY <2>2 DEF Io, startPlay, InsertPlayer, DropPlayer, FindPlayer, FindNothing, StopPlayer,
           JoinPlayer, AfterStop, Reply, Unmap, IoGo
      <3> QED  BY <3>1 DEF IoLeft
    <2> QED
      BY <2>1, <2>2 DEF Next, Exhausted, onError, onClose, StartWrite, Written, onOpen, onMessage, Handle
  <1>3. Inv /\ [Next]_vars => LastPass
    <2> SUFFICES ASSUME Inv, [Next]_vars, NEW p \in Player, run[p] \in {"stopping", "joined"}
                 PROVE  /\ run'[p] \in {"stopping", "joined"}
                        /\ sending[p] = None => sending'[p] = None
      OBVIOUS
    <2>1. CASE \/ UNCHANGED vars \/ Exhausted
               \/ \E c \in Conn : \/ Lose(c) \/ onError(c) \/ StartWrite(c) \/ Written(c) \/ onClose(c)
                                  \/ (\E k \in Key : onOpen(c, k))
                                  \/ (\E r \in Request : onMessage(c, r))
      BY <2>1 DEF vars, players, Exhausted, Lose, onError, StartWrite, Written, onClose, Handle, onOpen, onMessage
    <2>2. ASSUME NEW q \in Player, startPlay(q)
          PROVE  run'[p] = run[p] /\ sending' = sending
      BY <2>2 DEF startPlay, Inv, STypeOK
    <2>3. ASSUME NEW q \in Player, PlayerStep(q)
          PROVE  run' = run /\ (sending[p] = None => sending'[p] = None)
      BY <2>3 DEF PlayerStep, Begin, Pass, Sleep, Look, Overflow, Test, Write, Sends, Inv, STypeOK
    <2>4. CASE InsertPlayer \/ DropPlayer \/ FindPlayer \/ FindNothing \/ Reply \/ Unmap
      BY <2>4 DEF InsertPlayer, DropPlayer, FindPlayer, FindNothing, Reply, Unmap, players
    <2>5. CASE StopPlayer \/ JoinPlayer
      BY <2>5 DEF StopPlayer, JoinPlayer, Inv, STypeOK
    <2> QED  BY <2>1, <2>2, <2>3, <2>4, <2>5 DEF Next, Io
  <1>4. Inv /\ [Next]_vars => [OnlyOn /\ LastPass]_vars
    BY <1>2, <1>3
  <1> QED  BY Invariance, OwnedInvariance, <1>1, <1>4, PTL DEF Spec

(* The close handler of a lost connection finds it in the map, and when it  *)
(* is done nothing of the connection is left: no entry in the map, and no   *)
(* player that is not joined (webSocketServer.cpp:104-128,                  *)
(* signalSession.cpp:26-40).                                                *)
THEOREM ClosedIsReleased ==
  Spec => [](\A c \in Conn :
                 /\ sock[c] = "lost" => mapConnection[key[c]] = c
                 /\ sock[c] = "closed" => /\ \A k \in Key : mapConnection[k] # c
                                          /\ \A p \in Player : owner[p] = c => run[p] = "joined")
  <1>1. Inv /\ Owned => \A c \in Conn :
                 /\ sock[c] = "lost" => mapConnection[key[c]] = c
                 /\ sock[c] = "closed" => /\ \A k \in Key : mapConnection[k] # c
                                          /\ \A p \in Player : owner[p] = c => run[p] = "joined"
    <2> SUFFICES ASSUME Inv, Owned, NEW c \in Conn
                 PROVE  /\ sock[c] = "lost" => mapConnection[key[c]] = c
                        /\ sock[c] = "closed" =>
                               /\ \A k \in Key : mapConnection[k] # c
                               /\ \A p \in Player : owner[p] = c => run[p] = "joined"
      OBVIOUS
    <2>1. sock[c] = "lost" => mapConnection[key[c]] = c
      BY DEF Inv, Keys, KeysExact, Up
    <2>2. sock[c] = "closed" => \A k \in Key : mapConnection[k] # c
      BY DEF Inv, Keys, KeysExact
    <2>3. ASSUME sock[c] = "closed", NEW p \in Player, owner[p] = c
          PROVE  run[p] = "joined"
      <3>1. run[p] # "none"  BY <2>3, ServerAssumption DEF Owned
      <3>2. run[p] \notin {"running", "stopping"}  BY <2>3 DEF Inv, Alive, Up
      <3> QED  BY <3>1, <3>2 DEF Inv, STypeOK
    <2> QED  BY <2>1, <2>2, <2>3
  <1> QED  BY Invariance, OwnedInvariance, <1>1, PTL

----------------------------------------------------------------------------
(* What a player does in the server is what a PlayerLife does.              *)
LEMMA LifeStep ==
  ASSUME Inv, NEW p \in Player, [Next]_vars
  PROVE  [Life(p)!LNext]_(Life(p)!lvars)
  <1> USE ServerAssumption
  <1>0. UNCHANGED <<run[p], sending[p]>> => [Life(p)!LNext]_(Life(p)!lvars)
    BY DEF Life!lvars
  <1>1. CASE \/ UNCHANGED vars \/ Exhausted
             \/ \E c \in Conn : \/ Lose(c) \/ onError(c) \/ StartWrite(c) \/ Written(c) \/ onClose(c)
                                \/ (\E k \in Key : onOpen(c, k))
                                \/ (\E r \in Request : onMessage(c, r))
             \/ InsertPlayer \/ DropPlayer \/ FindPlayer \/ FindNothing \/ Reply \/ Unmap
    BY <1>0, <1>1 DEF vars, players, Exhausted, Lose, onError, StartWrite, Written, onClose, Handle, onOpen,
       onMessage, InsertPlayer, DropPlayer, FindPlayer, FindNothing, Reply, Unmap
  <1>2. ASSUME NEW q \in Player, startPlay(q) PROVE [Life(p)!LNext]_(Life(p)!lvars)
    <2>1. CASE q = p
      <3>1. Life(p)!Start  BY <1>2, <2>1 DEF startPlay, Inv, STypeOK, Life!Start
      <3> QED  BY <3>1 DEF Life!LNext
    <2> QED  BY <1>0, <1>2, <2>1 DEF startPlay, Inv, STypeOK
  <1>3. ASSUME NEW q \in Player, PlayerStep(q) PROVE [Life(p)!LNext]_(Life(p)!lvars)
    <2>0. run' = run  BY <1>3 DEF PlayerStep, Begin, Pass, Sleep, Look, Overflow, Test, Write, Sends
    <2>1. CASE q # p
      <3>1. sending'[p] = sending[p]
        BY <1>3, <2>1 DEF PlayerStep, Begin, Pass, Sleep, Look, Overflow, Test, Write, Sends, Inv, STypeOK
      <3> QED  BY <1>0, <2>0, <3>1
    <2>2. CASE q = p /\ Begin(p)
      <3>1. Life(p)!Begin(p)  BY <2>0, <2>2 DEF Begin, Sends, Inv, STypeOK, Life!Begin
      <3> QED  BY <3>1 DEF Life!LNext
    <2>3. CASE q = p /\ ~Begin(p)
      <3>1. sending[p] # None
        BY <1>3, <2>3 DEF PlayerStep, Pass, Sleep, Look, Overflow, Test, Write
      <3>2. CASE sending'[p] # None
        BY <2>0, <3>1, <3>2 DEF Life!lvars
      <3>3. CASE sending'[p] = None
        <4>1. Life(p)!End(p)  BY <2>0, <3>1, <3>3 DEF Life!End
        <4> QED  BY <4>1 DEF Life!LNext
      <3> QED  BY <3>2, <3>3
    <2> QED  BY <2>1, <2>2, <2>3
  <1>4. CASE StopPlayer
    <2>1. CASE io_player = p
      <3>1. Life(p)!Stop
        BY <1>4, <2>1 DEF StopPlayer, IoGo, Inv, STypeOK, IoOK, Life!Stop
      <3> QED  BY <3>1 DEF Life!LNext
    <2> QED  BY <1>0, <1>4, <2>1 DEF StopPlayer, Inv, STypeOK
  <1>5. CASE JoinPlayer
    <2>1. CASE io_player = p
      <3>1. Life(p)!Join
        BY <1>5, <2>1 DEF JoinPlayer, IoGo, Inv, STypeOK, IoOK, Life!Join
      <3> QED  BY <3>1 DEF Life!LNext
    <2> QED  BY <1>0, <1>5, <2>1 DEF JoinPlayer, Inv, STypeOK
  <1> QED  BY <1>1, <1>2, <1>3, <1>4, <1>5 DEF Next, Io

(* The server asks no more of its players than what a PlayerLife promises,  *)
(* which PlayerProofs shows of the threads of FfmpegWrapper.                *)
THEOREM PlayersLive ==
  ASSUME NEW p \in Player
  PROVE  Spec => ImplementsLife(p)
  <1>1. Init => Life(p)!LInit  BY DEF Init, Life!LInit
  <1>2. Inv /\ [Next]_vars => [Life(p)!LNext]_(Life(p)!lvars)  BY LifeStep
  <1> QED  BY <1>1, <1>2, Invariance, PTL DEF Spec, ImplementsLife, Life!LSpec
=============================================================================
