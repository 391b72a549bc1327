---------------------------- MODULE PeerDirectory ----------------------------
(***************************************************************************)
(* How the peers of consensus/poa/p2p.py find and name each other: the     *)
(* handshake, the directory it fills, connections that are formed and      *)
(* exchanged by timers, and what storage/storage_manager.py keeps of it    *)
(* when a peer stops and is started again.                                 *)
(*                                                                         *)
(* Of the chain only whether a peer has one counts here, and of the        *)
(* network's details only who the admin is.  A peer's endpoint is its      *)
(* element of Node; its identity (key and node id, which are made and      *)
(* saved together) is a number.  A step is a whole handler, or what a      *)
(* coroutine does between two waits.                                       *)
(***************************************************************************)
EXTENDS Integers, Sequences, FiniteSets, SequencesExt, TLC

CONSTANTS Node,       \* endpoints
          Founder,    \* the one started without a bootstrap host; the others' is Founder
          Given,      \* Given[n]: the name n's user entered
          Lower,      \* Lower[s]: s in lower case
          Saver,      \* the ones started with activate_disk_save = "y"
          Load,       \* values of activate_disk_load a user may enter
          None,
          MAX_CONNECTIONS,
          Hasty,      \* bound: FALSE if timers expire only while the network is quiet
          MaxStops,   \* bound: peers that stop
          Fragile,    \* bound: the ones that may stop
          Sought      \* pairs <<n, e>>: n's timers pick e fairly

ASSUME DirectoryAssumption ==
  /\ Founder \in Node /\ IsFiniteSet(Node)
  /\ Saver \subseteq Node /\ Fragile \subseteq Node /\ Load \subseteq BOOLEAN
  /\ Hasty \in BOOLEAN /\ Sought \subseteq {p \in Node \X Node : p[1] # p[2]}
  /\ MAX_CONNECTIONS \in Nat \ {0} /\ MaxStops \in Nat
  /\ \A n \in Node : Given[n] \in DOMAIN Lower
  /\ \A s \in DOMAIN Lower : Lower[s] \in DOMAIN Lower /\ Lower[Lower[s]] = Lower[s]
  /\ None \notin Nat
  /\ None \notin [name : Seq(DOMAIN Lower \cup Nat), node_id : Nat]  \* an Entry

VARIABLES
  status,      \* "off", "up", or "raised": Peer(...) ended in an exception
  name,        \* self.name
  node_id,     \* the identity; None before the first start
  known_peers, \* known_peers[n][m]: what n has registered at endpoint m, or None
  name_to_node_id_dict,
  has_chain,   \* Chain.instance is not None
  admin_id,    \* None before the network's details came
  seen,        \* ids of new_peer messages in seen_message_ids
  connecting,  \* endpoints that connect_to_peer is opening a websocket to
  sampling,    \* gossip_peer_sampler is between its two halves
  up,          \* websockets that are open, <<client, server>>
  have_sent_peer_info,  \* client ends that have sent theirs
  inbox,       \* inbox[c][n]: sent over c to n and not yet read
  disk,        \* what a Saver's files hold
  count        \* history: identities, new_peer messages, stops

self_vars == <<status, name, node_id>>
dir_vars == <<known_peers, name_to_node_id_dict>>
net_vars == <<has_chain, admin_id>>
conn_vars == <<connecting, sampling, up, have_sent_peer_info>>

vars == <<self_vars, dir_vars, net_vars, seen, conn_vars, inbox, disk, count>>

-----------------------------------------------------------------------------
Conn == {c \in Node \X Node : c[1] # c[2]}
Ends(c) == {c[1], c[2]}
Other(c, n) == IF c[1] = n THEN c[2] ELSE c[1]

outbound_peers(n) == {c[2] : c \in {d \in up : d[1] = n}}

\* A name is what its user entered and the numbers get_unique_name put after it.
lower(nm) == <<Lower[nm[1]]>> \o Tail(nm)

Entry(nm, id) == [name |-> nm, node_id |-> id]
Knows(n) == {m \in Node : known_peers[n][m] # None}
Nobody == [m \in Node |-> None]
Empty == [node_id |-> None, peers |-> Nobody, chain |-> FALSE]

Init ==
  /\ status = [n \in Node |-> IF n = Founder THEN "up" ELSE "off"]
  /\ name = [n \in Node |-> <<Given[n]>>]
  /\ node_id = [n \in Node |-> IF n = Founder THEN 1 ELSE None]
  /\ known_peers = [n \in Node |-> Nobody]
  /\ name_to_node_id_dict = [n \in Node |-> IF n = Founder THEN lower(<<Given[n]>>) :> 1
                                                           ELSE << >>]
  /\ has_chain = [n \in Node |-> n = Founder]
  /\ admin_id = [n \in Node |-> IF n = Founder THEN 1 ELSE None]
  /\ seen = [n \in Node |-> {}]
  /\ connecting = [n \in Node |-> {}]
  /\ sampling = {}
  /\ up = {}
  /\ have_sent_peer_info = {}
  /\ inbox = [c \in Conn |-> [n \in Node |-> << >>]]
  /\ disk = [n \in Node |-> IF n = Founder /\ n \in Saver THEN [Empty EXCEPT !.node_id = 1]
                                                          ELSE Empty]
  /\ count = [ids |-> 1, msgs |-> 0, stops |-> 0]

-----------------------------------------------------------------------------
(***************************************************************************)
(* Sending.                                                                *)
(***************************************************************************)
Reads(c, n, type) ==
  /\ n \in Ends(c) /\ status[n] = "up"
  /\ inbox[c][n] # << >>
  /\ Head(inbox[c][n]).type = type

Read(c, n) == [inbox EXCEPT ![c][n] = Tail(@)]

\* Over c from n; a send on a closed websocket is caught.
send_message(c, n, msg, boxes) ==
  IF c \in up THEN [boxes EXCEPT ![c][Other(c, n)] = Append(@, msg)] ELSE boxes

\* A copy that its receiver would drop as already seen is not queued.
broadcast_message(n, msg, boxes) ==
  [c \in Conn |-> IF c \in up /\ n \in Ends(c) /\ msg.id \notin seen[Other(c, n)]
                  THEN [boxes[c] EXCEPT ![Other(c, n)] = Append(@, msg)]
                  ELSE boxes[c]]

peer_info(n) == [type |-> "peer_info", at |-> n, entry |-> Entry(name[n], node_id[n])]

\* n's list, with n itself.
known_peers_message(n, known) ==
  [type |-> "known_peers",
   peers |-> [known EXCEPT ![n] = Entry(name[n], node_id[n])]]

\* What n's files hold after n has written one of them.
save_peers(n, known) == [disk EXCEPT ![n].peers = known]
save_chain(n) == [disk EXCEPT ![n].chain = TRUE]
save_node_id(n, id) == [disk EXCEPT ![n].node_id = id]

load_node_id(n) == disk[n].node_id
load_chain(n) == disk[n].chain
load_peers(n) == disk[n].peers

save_known_peers_to_disk(n, known) == IF n \in Saver THEN save_peers(n, known) ELSE disk

-----------------------------------------------------------------------------
(***************************************************************************)
(* The directory.                                                          *)
(***************************************************************************)
Registered_Self(n, new) ==   \* mutant: n registers itself
  [m \in Node |-> IF known_peers[n][m] = None THEN new[m] ELSE known_peers[n][m]]

\* n's directory with the peers at the endpoints of new that n did not know.
Registered(n, new) ==
  [m \in Node |-> IF known_peers[n][m] = None /\ m # n THEN new[m] ELSE known_peers[n][m]]

NamesOf(n, known) ==
  LET added == {m \in Node : known[m] # None /\ known_peers[n][m] = None}
      names == {lower(known[m].name) : m \in added}
  IN  [nm \in names |-> LET m == CHOOSE m \in added : lower(known[m].name) = nm
                        IN  known[m].node_id]

register_SavesFirst(n, new) ==   \* mutant: the file is written before the directory
  LET known == Registered(n, new) IN
  /\ known_peers' = [known_peers EXCEPT ![n] = known]
  /\ name_to_node_id_dict' = [name_to_node_id_dict EXCEPT ![n] = NamesOf(n, known) @@ @]
  /\ disk' = IF known # known_peers[n] THEN save_known_peers_to_disk(n, known_peers[n])
             ELSE disk

register(n, new) ==
  LET known == Registered(n, new) IN
  /\ known_peers' = [known_peers EXCEPT ![n] = known]
  /\ name_to_node_id_dict' = [name_to_node_id_dict EXCEPT ![n] = NamesOf(n, known) @@ @]
  /\ disk' = IF known # known_peers[n] THEN save_known_peers_to_disk(n, known) ELSE disk

\* Compared in lower case with the names of others, and as it is with n's own.
existing_names(n) ==
  {lower(known_peers[n][m].name) : m \in Knows(n)} \cup {name[n]}

get_unique_name_Others(n, base) ==   \* mutant: n's own name is not compared
  LET existing == {lower(known_peers[n][m].name) : m \in Knows(n)}
      numbered(k) == Append(lower(base), k)
  IN  IF lower(base) \notin existing THEN lower(base)
      ELSE numbered(CHOOSE k \in 1..(Cardinality(existing) + 1) :
             /\ numbered(k) \notin existing
             /\ \A j \in 1..(k - 1) : numbered(j) \in existing)

get_unique_name(n, base) ==
  LET existing == existing_names(n)
      numbered(k) == Append(lower(base), k)
  IN  IF lower(base) \notin existing THEN lower(base)
      ELSE numbered(CHOOSE k \in 1..(Cardinality(existing) + 1) :
             /\ numbered(k) \notin existing
             /\ \A j \in 1..(k - 1) : numbered(j) \in existing)

-----------------------------------------------------------------------------
(***************************************************************************)
(* The handshake: handlers of one message each.                            *)
(***************************************************************************)
HandlePing(c, n) ==
  /\ Reads(c, n, "ping")
  /\ inbox' = send_message(c, n, [type |-> "pong"], Read(c, n))
  /\ UNCHANGED <<self_vars, dir_vars, net_vars, seen, conn_vars, disk, count>>

\* Only the end that formed the connection tells about itself, once.
HandlePong(c, n) ==
  /\ Reads(c, n, "pong")
  /\ IF c[1] = n /\ c \in up /\ c \notin have_sent_peer_info
     THEN /\ inbox' = send_message(c, n, peer_info(n), Read(c, n))
          /\ have_sent_peer_info' = have_sent_peer_info \cup {c}
     ELSE inbox' = Read(c, n) /\ UNCHANGED have_sent_peer_info
  /\ UNCHANGED <<self_vars, dir_vars, net_vars, seen, connecting, sampling, up, disk, count>>

\* A peer that is already known gets no answer.
HandlePeerInfo(c, n) ==
  /\ Reads(c, n, "peer_info")
  /\ LET msg == Head(inbox[c][n])
         new == [Nobody EXCEPT ![msg.at] = msg.entry]
     IN
     /\ register(n, new)
     /\ inbox' = IF msg.at \in Knows(n) THEN Read(c, n)
                 ELSE send_message(c, n, known_peers_message(n, known_peers'[n]), Read(c, n))
  /\ UNCHANGED <<self_vars, net_vars, seen, conn_vars, count>>

\* A peer that is new to the network: it may be renamed, is told whom n knows, and
\* is announced to all others.
HandleAddPeer(c, n) ==
  /\ Reads(c, n, "add_peer")
  /\ LET msg == Head(inbox[c][n])
         proposed == get_unique_name(n, msg.entry.name)
         id == count.msgs + 1
         entry == [msg.entry EXCEPT !.name = proposed]
         renaming == IF proposed = msg.entry.name THEN Read(c, n)
                     ELSE send_message(c, n, [type |-> "change_name", new_name |-> proposed,
                                              new_peer_msg_id |-> id], Read(c, n))
     IN
     IF msg.at \in Knows(n)
     THEN inbox' = Read(c, n) /\ UNCHANGED <<dir_vars, seen, disk, count>>
     ELSE /\ register(n, [Nobody EXCEPT ![msg.at] = entry])
          /\ seen' = [seen EXCEPT ![n] = @ \cup {id}]
          /\ count' = [count EXCEPT !.msgs = id]
          /\ inbox' = broadcast_message(n,
               [type |-> "new_peer", id |-> id, at |-> msg.at, entry |-> entry],
               send_message(c, n, known_peers_message(n, known_peers'[n]), renaming))
  /\ UNCHANGED <<self_vars, net_vars, conn_vars>>

HandleNewPeer(c, n) ==
  /\ Reads(c, n, "new_peer")
  /\ LET msg == Head(inbox[c][n])
         isNew == msg.id \notin seen[n]
     IN
     /\ seen' = [seen EXCEPT ![n] = @ \cup {msg.id}]
     /\ IF isNew /\ msg.at # n /\ msg.at \notin Knows(n)
        THEN /\ register(n, [Nobody EXCEPT ![msg.at] = msg.entry])
             /\ inbox' = broadcast_message(n, msg, Read(c, n))
        ELSE inbox' = Read(c, n) /\ UNCHANGED <<dir_vars, disk>>
  /\ UNCHANGED <<self_vars, net_vars, conn_vars, count>>

\* start_peer entered the name in lower case: for one that is not, del raises, and
\* connect_to_peer closes the connection with all that came after.
HandleChangeName(c, n) ==
  /\ Reads(c, n, "change_name")
  /\ LET msg == Head(inbox[c][n])
         names == name_to_node_id_dict[n]
         others == [nm \in DOMAIN names \ {name[n]} |-> names[nm]]
     IN
     IF name[n] \in DOMAIN names
     THEN /\ name' = [name EXCEPT ![n] = msg.new_name]
          /\ name_to_node_id_dict' = [name_to_node_id_dict EXCEPT ![n] =
               (msg.new_name :> node_id[n]) @@ others]
          /\ seen' = [seen EXCEPT ![n] = @ \cup {msg.new_peer_msg_id}]
          /\ inbox' = Read(c, n)
          /\ UNCHANGED <<up, have_sent_peer_info>>
     ELSE /\ inbox' = [inbox EXCEPT ![c][n] = << >>]
          /\ up' = up \ {c}
          /\ have_sent_peer_info' = have_sent_peer_info \ {c}
          /\ UNCHANGED <<name, name_to_node_id_dict, seen>>
  /\ UNCHANGED <<status, node_id, known_peers, net_vars, connecting, sampling, disk, count>>

HandleKnownPeers(c, n) ==
  /\ Reads(c, n, "known_peers")
  /\ register(n, Head(inbox[c][n]).peers)
  /\ inbox' = send_message(c, n, [type |-> "network_details_request"], Read(c, n))
  /\ UNCHANGED <<self_vars, net_vars, seen, conn_vars, count>>

HandleDetailsRequest(c, n) ==
  /\ Reads(c, n, "network_details_request")
  /\ inbox' = send_message(c, n, [type |-> "network_details", admin |-> admin_id[n]],
                           Read(c, n))
  /\ UNCHANGED <<self_vars, dir_vars, net_vars, seen, conn_vars, disk, count>>

\* Whoever answers, and whatever n knew before.
HandleDetails(c, n) ==
  /\ Reads(c, n, "network_details")
  /\ admin_id' = [admin_id EXCEPT ![n] = Head(inbox[c][n]).admin]
  /\ inbox' = send_message(c, n, [type |-> "chain_request"], Read(c, n))
  /\ UNCHANGED <<self_vars, dir_vars, has_chain, seen, conn_vars, disk, count>>

HandleChainRequest(c, n) ==
  /\ Reads(c, n, "chain_request")
  /\ inbox' = IF has_chain[n] THEN send_message(c, n, [type |-> "chain"], Read(c, n))
                              ELSE Read(c, n)
  /\ UNCHANGED <<self_vars, dir_vars, net_vars, seen, conn_vars, disk, count>>

HandleChain(c, n) ==
  /\ Reads(c, n, "chain")
  /\ has_chain' = [has_chain EXCEPT ![n] = TRUE]
  /\ disk' = IF n \in Saver THEN save_chain(n) ELSE disk
  /\ inbox' = Read(c, n)
  /\ UNCHANGED <<self_vars, dir_vars, admin_id, seen, conn_vars, count>>

HandleMessage(c, n) ==
  \/ HandlePing(c, n)
  \/ HandlePong(c, n)
  \/ HandlePeerInfo(c, n)
  \/ HandleAddPeer(c, n)
  \/ HandleNewPeer(c, n)
  \/ HandleChangeName(c, n)
  \/ HandleKnownPeers(c, n)
  \/ HandleDetailsRequest(c, n)
  \/ HandleDetails(c, n)
  \/ HandleChainRequest(c, n)
  \/ HandleChain(c, n)

-----------------------------------------------------------------------------
(***************************************************************************)
(* Connections.                                                            *)
(***************************************************************************)
\* The websocket is there, or the attempt has failed.  Who has no chain introduces
\* itself as a new peer.
connect_to_peer(n, e) ==
  LET c == <<n, e>>
      hello == IF has_chain[n] THEN [type |-> "ping"]
               ELSE [type |-> "add_peer", at |-> n, entry |-> Entry(name[n], node_id[n])]
  IN
  /\ status[n] = "up" /\ e \in connecting[n]
  /\ connecting' = [connecting EXCEPT ![n] = @ \ {e}]
  /\ IF status[e] # "up" \/ c \in up
     THEN UNCHANGED <<up, inbox>>
     ELSE /\ \A m \in Ends(c) : inbox[c][m] = << >>
          /\ up' = up \cup {c}
          /\ inbox' = [inbox EXCEPT ![c][e] = Append(@, hello)]
  /\ UNCHANGED <<self_vars, dir_vars, net_vars, seen, sampling, have_sent_peer_info,
                 disk, count>>

Quiet ==
  /\ \A m \in Node : connecting[m] = {} /\ \A c \in Conn : inbox[c][m] = << >>
  /\ sampling = {}

\* Timers sleep for 30 s and 60 s: in a network that is fast enough all is quiet then.
TimerDue(n) == status[n] = "up" /\ connecting[n] = {} /\ (Hasty \/ Quiet)

potential_peers_Connected(n) ==   \* mutant: one connection between two peers will do
  Knows(n) \ UNION {Ends(c) : c \in {d \in up : n \in Ends(d)}}

potential_peers(n) == Knows(n) \ outbound_peers(n)

\* Bound: a websocket is there within the second before the next one is tried.
discover_peers(n, e) ==
  /\ TimerDue(n)
  /\ Cardinality(outbound_peers(n)) < MAX_CONNECTIONS
  /\ e \in potential_peers(n)
  /\ connecting' = [connecting EXCEPT ![n] = {e}]
  /\ UNCHANGED <<self_vars, dir_vars, net_vars, seen, sampling, up, have_sent_peer_info,
                 inbox, disk, count>>

\* What either end of a closed websocket has not read: it still does, or it is lost.
Closing(c, boxes) ==
  \E losers \in SUBSET Ends(c) :
    inbox' = [boxes EXCEPT ![c] = [n \in Node |-> IF n \in losers THEN << >> ELSE @[n]]]

\* One connection is closed ..
SamplerDrops(n) ==
  /\ TimerDue(n) /\ n \notin sampling
  /\ Cardinality(outbound_peers(n)) >= MAX_CONNECTIONS
  /\ Cardinality(Knows(n)) > Cardinality(outbound_peers(n))
  /\ \E e \in outbound_peers(n) :
       /\ up' = up \ {<<n, e>>}
       /\ have_sent_peer_info' = have_sent_peer_info \ {<<n, e>>}
       /\ Closing(<<n, e>>, inbox)
  /\ sampling' = sampling \cup {n}
  /\ UNCHANGED <<self_vars, dir_vars, net_vars, seen, connecting, disk, count>>

\* .. and another one formed, to any peer that is not connected now.
SamplerConnects(n, e) ==
  /\ status[n] = "up" /\ n \in sampling
  /\ e \in potential_peers(n)
  /\ sampling' = sampling \ {n}
  /\ connecting' = [connecting EXCEPT ![n] = @ \cup {e}]
  /\ UNCHANGED <<self_vars, dir_vars, net_vars, seen, up, have_sent_peer_info, inbox,
                 disk, count>>

find_longest_chain_WithChain(n) ==   \* mutant: started with the chain, not with the peer
  /\ status[n] = "up" /\ has_chain[n]
  /\ \E c \in up : n \in Ends(c)
  /\ \A c \in up : n \in Ends(c) =>
       /\ inbox[c][n] = << >> /\ inbox[c][Other(c, n)] = << >>
  /\ inbox' = [c \in Conn |->
       IF c \in up /\ n \in Ends(c)
       THEN [inbox[c] EXCEPT ![Other(c, n)] = Append(@, [type |-> "chain_request"])]
       ELSE inbox[c]]
  /\ UNCHANGED <<self_vars, dir_vars, net_vars, seen, conn_vars, disk, count>>

\* Every 60 s over every connection.  Bound: only while n has no chain.
find_longest_chain(n) ==
  /\ status[n] = "up" /\ ~ has_chain[n]
  /\ \E c \in up : n \in Ends(c)
  /\ \A c \in up : n \in Ends(c) =>
       /\ inbox[c][n] = << >> /\ inbox[c][Other(c, n)] = << >>
  /\ inbox' = [c \in Conn |->
       IF c \in up /\ n \in Ends(c)
       THEN [inbox[c] EXCEPT ![Other(c, n)] = Append(@, [type |-> "chain_request"])]
       ELSE inbox[c]]
  /\ UNCHANGED <<self_vars, dir_vars, net_vars, seen, conn_vars, disk, count>>

-----------------------------------------------------------------------------
(***************************************************************************)
(* Stopping and starting.                                                  *)
(***************************************************************************)
Closed(n) == {c \in Conn : n \in Ends(c)}

\* The process ends, in whatever state it is.
Stop(n) ==
  /\ status[n] = "up" /\ n \in Fragile /\ count.stops < MaxStops
  /\ status' = [status EXCEPT ![n] = "off"]
  /\ count' = [count EXCEPT !.stops = @ + 1]
  /\ up' = up \ Closed(n)
  /\ have_sent_peer_info' = have_sent_peer_info \ Closed(n)
  /\ connecting' = [connecting EXCEPT ![n] = {}]
  /\ sampling' = sampling \ {n}
  /\ inbox' = [c \in Conn |-> IF c \in Closed(n) THEN [inbox[c] EXCEPT ![n] = << >>]
                                                 ELSE inbox[c]]
  /\ UNCHANGED <<name, node_id, dir_vars, net_vars, seen, disk>>

\* load_known_peers_from_disk iterates over the keys of what it read as if they
\* were pairs of an endpoint and an entry: with any peer in the file it raises.
LoadRaises(n, load) == load /\ load_peers(n) # Nobody

load_node_id_from_disk_Never(n, load) == None   \* mutant: the key is saved, the id is not

load_node_id_from_disk(n, load) == IF load THEN load_node_id(n) ELSE None

\* Peer(...) and start(Founder): an identity from the disk or a new one, a chain from
\* the disk or none, and a directory that is empty.
start(n, load) ==
  LET saved == load_node_id_from_disk(n, load)
      id == IF saved # None THEN saved ELSE count.ids + 1
  IN
  /\ n # Founder /\ status[n] # "up"
  /\ IF LoadRaises(n, load)
     THEN /\ status[n] = "off"
          /\ status' = [status EXCEPT ![n] = "raised"]
          /\ UNCHANGED <<name, node_id, dir_vars, net_vars, seen, connecting, disk, count>>
     ELSE /\ status' = [status EXCEPT ![n] = "up"]
          /\ name' = [name EXCEPT ![n] = <<Given[n]>>]
          /\ node_id' = [node_id EXCEPT ![n] = id]
          /\ known_peers' = [known_peers EXCEPT ![n] = Nobody]
          /\ name_to_node_id_dict' = [name_to_node_id_dict EXCEPT ![n] =
                                        lower(<<Given[n]>>) :> id]
          /\ has_chain' = [has_chain EXCEPT ![n] = load /\ load_chain(n)]
          /\ admin_id' = [admin_id EXCEPT ![n] = None]
          /\ seen' = [seen EXCEPT ![n] = {}]
          /\ connecting' = [connecting EXCEPT ![n] = {Founder}]
          /\ disk' = IF n \in Saver THEN save_node_id(n, id) ELSE disk
          /\ count' = IF saved # None THEN count ELSE [count EXCEPT !.ids = id]
  /\ UNCHANGED <<sampling, up, have_sent_peer_info, inbox>>

-----------------------------------------------------------------------------
Next ==
  \/ \E n \in Node :
       \/ \E load \in Load : start(n, load)
       \/ Stop(n)
       \/ SamplerDrops(n)
       \/ \E e \in Node : \/ connect_to_peer(n, e)
                         \/ discover_peers(n, e)
                         \/ SamplerConnects(n, e)
       \/ find_longest_chain(n)
  \/ \E c \in Conn : \E n \in Ends(c) : HandleMessage(c, n)

Spec == Init /\ [][Next]_vars

(***************************************************************************)
(* Sockets are read, attempts to connect end, timers run.  Which peer a    *)
(* timer picks is random, so one that can be picked again and again is     *)
(* picked again and again: Sought names the pairs this is needed for.      *)
(***************************************************************************)
Picks(n, e) == discover_peers(n, e) \/ SamplerConnects(n, e)

SamplerActs(n) == \E e \in Node : SamplerConnects(n, e)

Fairness ==
  /\ \A n \in Node : /\ WF_vars(SamplerActs(n))
                    /\ \A e \in Node : WF_vars(connect_to_peer(n, e))
  /\ \A n \in Node \ {Founder} : SF_vars(find_longest_chain(n))
  /\ \A p \in Sought : SF_vars(SamplerDrops(p[1])) /\ SF_vars(Picks(p[1], p[2]))
  /\ \A c \in Conn : \A n \in Ends(c) : WF_vars(HandleMessage(c, n))

FairSpec == Spec /\ Fairness

-----------------------------------------------------------------------------
(***************************************************************************)
(* Properties.                                                             *)
(***************************************************************************)
\* The variables hold what their comments say, and no peer lists itself.
TypeOK ==
  /\ status \in [Node -> {"off", "up", "raised"}]
  /\ \A n \in Node :
       /\ node_id[n] \in (1..count.ids) \cup {None} /\ admin_id[n] \in {1, None}
       /\ n \notin Knows(n)
       /\ \A m \in Knows(n) : known_peers[n][m].node_id \in 1..count.ids
  /\ up \subseteq Conn /\ have_sent_peer_info \subseteq up /\ sampling \subseteq Node

\* Entries are never replaced: what anyone has at an endpoint must still be the
\* identity of the peer there, across stops and starts that load from the disk.
EntriesCurrent ==
  \A n, m \in Node : m \in Knows(n) => known_peers[n][m].node_id = node_id[m]

\* get_unique_name, with many joining at once: the peers the founder has registered,
\* and the founder, have different names.
NamesDiffer ==
  \A m \in Knows(Founder) :
    LET nm == lower(known_peers[Founder][m].name) IN
    /\ nm # lower(name[Founder])
    /\ \A k \in Knows(Founder) : lower(known_peers[Founder][k].name) = nm => k = m

\* Whenever a Saver stops, its file has everyone it knew, by whichever message.
SavedPeers ==
  \A n \in Saver : status[n] = "up" /\ Knows(n) # {} => disk[n].peers = known_peers[n]

\* The timers' exchange of connections: a peer that stays up finds, and is found by,
\* one it seeks that stays up, also when that one stopped and forgot everybody.
EveryoneMeets ==
  \A p \in Sought : LET n == p[1]
                        m == p[2]
                    IN  <>[](status[n] = "up" /\ status[m] = "up")
                          => <>[](m \in Knows(n) /\ n \in Knows(m))

\* A peer that stays up gets a chain, also when nobody answers its add_peer because
\* they remember it.
Joins == \A n \in Node : <>[](status[n] = "up") => <>(has_chain[n])

\* add_miner and remove_miner work for the admin only: a peer that knows who that is
\* does not forget it.
AdminKept ==
  [][\A n \in Node : admin_id[n] # None /\ status[n] = "up" /\ status'[n] = "up"
        => admin_id'[n] # None]_vars
=============================================================================
