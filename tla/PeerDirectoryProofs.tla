------------------------ MODULE PeerDirectoryProofs ------------------------
(***************************************************************************)
(* Theorems about PeerDirectory, for any peers, names and bounds.          *)
(***************************************************************************)
EXTENDS PeerDirectory, LeastNumber

-----------------------------------------------------------------------------
(***************************************************************************)
(* What is sent and stored.  G holds the endpoints with the identities     *)
(* that a directory may list them under, A those that an add_peer may      *)
(* introduce.  An add_peer comes from the end that formed the connection,  *)
(* and a change_name answers it; the founder never introduces itself.      *)
(***************************************************************************)
Named == {nm \in Seq(DOMAIN Lower \cup Nat) : nm # << >> /\ nm[1] \in DOMAIN Lower}
Record == [name : Named, node_id : Nat]
Directory == [Node -> Record \cup {None}]
Saved == [node_id : Nat \cup {None}, peers : Directory, chain : BOOLEAN]

Msg == [type : {"ping", "pong", "network_details_request", "chain_request", "chain"}]
  \cup [type : {"peer_info", "add_peer"}, at : Node, entry : Record]
  \cup [type : {"known_peers"}, peers : Directory]
  \cup [type : {"new_peer"}, id : Nat, at : Node, entry : Record]
  \cup [type : {"change_name"}, new_name : Named, new_peer_msg_id : Nat]
  \cup [type : {"network_details"}, admin : {1, None}]

Lists(G, known) == \A m \in Node : known[m] # None => <<m, known[m].node_id>> \in G

Heard(G, A, c, n) ==
  {msg \in Msg :
     /\ msg.type \in {"peer_info", "new_peer"} => <<msg.at, msg.entry.node_id>> \in G
     /\ msg.type = "known_peers" => Lists(G, msg.peers)
     /\ msg.type = "add_peer" => /\ n = c[2] /\ msg.at = c[1] /\ c[1] # Founder
                                 /\ <<msg.at, msg.entry.node_id>> \in A
     /\ msg.type = "change_name" => n = c[1] /\ n # Founder}

Boxes(G, A) ==
  {boxes \in [Conn -> [Node -> Seq(Msg)]] :
     \A c \in Conn, n \in Node : boxes[c][n] \in Seq(Heard(G, A, c, n))}

Pairs == Node \X Nat

(***************************************************************************)
(* The type invariant that every proof starts from.                        *)
(***************************************************************************)
Shape ==
  /\ status \in [Node -> {"off", "up", "raised"}]
  /\ name \in [Node -> Named]
  /\ node_id \in [Node -> Nat \cup {None}]
  /\ \A n \in Node : status[n] = "up" => node_id[n] \in Nat
  /\ known_peers \in [Node -> Directory]
  /\ has_chain \in [Node -> BOOLEAN]
  /\ admin_id \in [Node -> {1, None}]
  /\ connecting \in [Node -> SUBSET Node]
  /\ \A n \in Node : known_peers[n][n] = None /\ n \notin connecting[n]
  /\ sampling \subseteq Node /\ up \subseteq Conn /\ have_sent_peer_info \subseteq up
  /\ inbox \in Boxes(Pairs, Pairs)
  /\ disk \in [Node -> Saved]
  /\ count \in [ids : Nat, msgs : Nat, stops : Nat]
  /\ has_chain[Founder] /\ name[Founder] = <<Given[Founder]>>

-----------------------------------------------------------------------------
(***************************************************************************)
(* Names.                                                                  *)
(***************************************************************************)
LEMMA LowerName ==
  ASSUME NEW nm \in Named
  PROVE  /\ lower(nm) \in Named
         /\ lower(lower(nm)) = lower(nm)
         /\ \A k \in Nat : /\ Append(lower(nm), k) \in Named
                           /\ lower(Append(lower(nm), k)) = Append(lower(nm), k)
<1> DEFINE S == DOMAIN Lower \cup Nat
           rest == Tail(nm)
           low == Lower[nm[1]]
<1>1. nm \in Seq(S) /\ nm # << >> /\ nm[1] \in DOMAIN Lower
  BY DEF Named
<1>2. rest \in Seq(S)
  BY <1>1
<1>3. low \in DOMAIN Lower /\ Lower[low] = low /\ low \in S
  BY <1>1, DirectoryAssumption DEF DirectoryAssumption
<1>4. lower(nm) = <<low>> \o rest
  BY DEF lower
<1> HIDE DEF S, rest, low
<1>5. ASSUME NEW r \in Seq(S)
      PROVE  LET s == <<low>> \o r IN
             s \in Seq(S) /\ s # << >> /\ s[1] = low /\ Tail(s) = r /\ lower(s) = s
  <2> DEFINE s == <<low>> \o r
  <2>1. s \in Seq(S) /\ s # << >> /\ s[1] = low /\ Tail(s) = r
    BY <1>3
  <2>2. lower(s) = s
    BY <2>1, <1>3 DEF lower
  <2> QED BY <2>1, <2>2
<1>6. lower(nm) \in Seq(S) /\ lower(nm) # << >> /\ lower(nm)[1] = low
  BY <1>2, <1>4, <1>5
<1>7. lower(nm) \in Named
  BY <1>3, <1>6 DEF Named, S
<1>8. ASSUME NEW k \in Nat
      PROVE  /\ Append(lower(nm), k) \in Named
             /\ lower(Append(lower(nm), k)) = Append(lower(nm), k)
  <2>1. k \in S
    BY DEF S
  <2>2. Append(rest, k) \in Seq(S)
    BY <1>2, <2>1
  <2>3. Append(lower(nm), k) = <<low>> \o Append(rest, k)
    BY <1>2, <1>3, <1>4, <2>1
  <2> DEFINE s == Append(lower(nm), k)
  <2>4. s \in Seq(S) /\ s # << >> /\ s[1] = low /\ lower(s) = s
    BY <1>5, <2>2, <2>3
  <2>5. s \in Named
    BY <1>3, <2>4 DEF Named, S
  <2> QED BY <2>4, <2>5
<1> QED BY <1>2, <1>4, <1>5, <1>7, <1>8

LEMMA NameNumbered ==
  ASSUME NEW n \in Node, Shape
  PROVE  name[n] \in Named /\ <<Given[n]>> \in Named
BY DirectoryAssumption DEF Shape, DirectoryAssumption, Named

-----------------------------------------------------------------------------
(***************************************************************************)
(* Connections: their two ends differ.                                     *)
(***************************************************************************)
LEMMA ConnEnds ==
  ASSUME NEW c \in Conn, NEW n \in Ends(c)
  PROVE  /\ n \in Node /\ Other(c, n) \in Node /\ n \in {c[1], c[2]}
         /\ c[1] \in Node /\ c[2] \in Node /\ c[1] # c[2] /\ c = <<c[1], c[2]>>
         /\ n = c[1] => Other(c, n) = c[2]
         /\ n = c[2] => Other(c, n) = c[1]
BY DEF Conn, Ends, Other

(***************************************************************************)
(* What messages may be in the boxes: a longer list allows more, and the   *)
(* boxes stay so when one is read, emptied or sent to.                     *)
(***************************************************************************)
LEMMA HeardGrows ==
  ASSUME NEW G, NEW A, NEW G2, NEW A2, G \subseteq G2, A \subseteq A2, NEW c, NEW n
  PROVE  Heard(G, A, c, n) \subseteq Heard(G2, A2, c, n)
BY DEF Heard, Lists

LEMMA ListsGrows ==
  ASSUME NEW G, NEW G2, G \subseteq G2, NEW known, Lists(G, known)
  PROVE  Lists(G2, known)
BY DEF Lists

\* The boxes b hold what the boxes a did, or less, or in places one more message.
BoxStep(G, A, a, b, c, n) ==
  \/ b[c][n] = a[c][n]
  \/ b[c][n] = << >>
  \/ a[c][n] # << >> /\ b[c][n] = Tail(a[c][n])
  \/ \E msg \in Heard(G, A, c, n) : b[c][n] = Append(a[c][n], msg)

LEMMA SeqStep ==
  ASSUME NEW S, NEW s \in Seq(S)
  PROVE  /\ << >> \in Seq(S)
         /\ s # << >> => Tail(s) \in Seq(S) /\ Head(s) \in S
         /\ \A x \in S : Append(s, x) \in Seq(S)
OBVIOUS

LEMMA BoxesStep ==
  ASSUME NEW G, NEW A, NEW a \in Boxes(G, A), NEW b,
         b = [c \in Conn |-> [n \in Node |-> b[c][n]]],
         \A c \in Conn, n \in Node : BoxStep(G, A, a, b, c, n)
  PROVE  b \in Boxes(G, A)
<1>1. ASSUME NEW c \in Conn, NEW n \in Node
      PROVE  b[c][n] \in Seq(Heard(G, A, c, n))
  <2>1. a[c][n] \in Seq(Heard(G, A, c, n))
    BY DEF Boxes
  <2> DEFINE S == Heard(G, A, c, n)
             box == a[c][n]
             box2 == b[c][n]
  <2>2. \/ box2 = box \/ box2 = << >>
        \/ box # << >> /\ box2 = Tail(box)
        \/ \E msg \in S : box2 = Append(box, msg)
    BY DEF BoxStep
  <2> HIDE DEF S, box, box2
  <2>3. box \in Seq(S)
    BY <2>1 DEF S, box
  <2>4. box2 \in Seq(S)
    BY <2>2, <2>3, SeqStep
  <2> QED BY <2>4 DEF S, box2
<1>2. \A c, n : Heard(G, A, c, n) \subseteq Msg
  BY DEF Heard
<1>3. \A c \in Conn, n \in Node : b[c][n] \in Seq(Msg)
  <2>1. ASSUME NEW S, S \subseteq Msg PROVE Seq(S) \subseteq Seq(Msg)
    BY <2>1
  <2> QED BY <1>1, <1>2, <2>1
<1>4. b \in [Conn -> [Node -> Seq(Msg)]]
  BY <1>3, Zenon
<1> QED BY <1>1, <1>4 DEF Boxes

LEMMA BoxesGrow ==
  ASSUME NEW G, NEW A, NEW G2, NEW A2, G \subseteq G2, A \subseteq A2,
         NEW a \in Boxes(G, A)
  PROVE  a \in Boxes(G2, A2)
<1>1. \A c, n : Heard(G, A, c, n) \subseteq Heard(G2, A2, c, n)
  BY HeardGrows
<1>2. ASSUME NEW S, NEW T, S \subseteq T PROVE Seq(S) \subseteq Seq(T)
  BY <1>2
<1>3. \A c \in Conn, n \in Node : a[c][n] \in Seq(Heard(G2, A2, c, n))
  BY <1>1, <1>2 DEF Boxes
<1> QED BY <1>3 DEF Boxes

LEMMA BoxesForm ==
  ASSUME NEW G, NEW A, NEW a \in Boxes(G, A)
  PROVE  /\ a = [c \in Conn |-> [n \in Node |-> a[c][n]]]
         /\ \A c \in Conn : a[c] = [n \in Node |-> a[c][n]]
<1>1. a \in [Conn -> [Node -> Seq(Msg)]]
  BY DEF Boxes
<1>2. \A c \in Conn : a[c] = [n \in Node |-> a[c][n]]
  BY <1>1
<1> QED BY <1>1, <1>2

\* A box in the place of another.
Put(a, c, n, s) == [a EXCEPT ![c][n] = s]

LEMMA PutBox ==
  ASSUME NEW G, NEW A, NEW a \in Boxes(G, A), NEW c \in Conn, NEW n \in Node, NEW s
  PROVE  /\ Put(a, c, n, s) = [d \in Conn |-> [m \in Node |-> Put(a, c, n, s)[d][m]]]
         /\ Put(a, c, n, s)[c][n] = s
         /\ \A d \in Conn, m \in Node :
              <<d, m>> # <<c, n>> => Put(a, c, n, s)[d][m] = a[d][m]
<1>1. a \in [Conn -> [Node -> Seq(Msg)]]
  BY DEF Boxes
<1> DEFINE e == [a EXCEPT ![c][n] = s]
           t == [a[c] EXCEPT ![n] = s]
<1>2. e = [d \in Conn |-> IF d = c THEN t ELSE a[d]]
  BY <1>1
<1>3. t = [m \in Node |-> IF m = n THEN s ELSE a[c][m]]
  BY <1>1
<1>4. \A d \in Conn : a[d] = [m \in Node |-> a[d][m]]
  BY <1>1
<1> HIDE DEF e, t
<1>5. e[c] = t /\ \A d \in Conn : d # c => e[d] = a[d]
  BY <1>2
<1>6. t[n] = s /\ \A m \in Node : m # n => t[m] = a[c][m]
  BY <1>3
<1>7. t = [m \in Node |-> t[m]]
  BY <1>3
<1>8. \A d \in Conn : e[d] = [m \in Node |-> e[d][m]]
  BY <1>4, <1>5, <1>7
<1>9. e = [d \in Conn |-> e[d]]
  BY <1>2
<1>10. e = [d \in Conn |-> [m \in Node |-> e[d][m]]]
  BY <1>8, <1>9
<1>11. \A d \in Conn, m \in Node : <<d, m>> # <<c, n>> => e[d][m] = a[d][m]
  BY <1>5, <1>6
<1>12. e[c][n] = s
  BY <1>5, <1>6
<1> QED BY <1>10, <1>11, <1>12 DEF e, Put

LEMMA ReadBoxes ==
  ASSUME NEW G, NEW A, inbox \in Boxes(G, A),
         NEW c \in Conn, NEW n \in Ends(c), inbox[c][n] # << >>
  PROVE  /\ Read(c, n) \in Boxes(G, A)
         /\ Head(inbox[c][n]) \in Heard(G, A, c, n)
         /\ Read(c, n)[c][n] = Tail(inbox[c][n])
         /\ \A d \in Conn, m \in Node : <<d, m>> # <<c, n>> => Read(c, n)[d][m] = inbox[d][m]
<1>1. n \in Node
  BY ConnEnds
<1>2. Read(c, n) = Put(inbox, c, n, Tail(inbox[c][n]))
  BY DEF Read, Put
<1>3. /\ Read(c, n) = [d \in Conn |-> [m \in Node |-> Read(c, n)[d][m]]]
      /\ Read(c, n)[c][n] = Tail(inbox[c][n])
      /\ \A d \in Conn, m \in Node : <<d, m>> # <<c, n>> => Read(c, n)[d][m] = inbox[d][m]
  BY <1>1, <1>2, PutBox
<1>4. \A d \in Conn, m \in Node : BoxStep(G, A, inbox, Read(c, n), d, m)
  BY <1>3 DEF BoxStep
<1>5. Read(c, n) \in Boxes(G, A)
  BY <1>3, <1>4, BoxesStep
<1>6. Head(inbox[c][n]) \in Heard(G, A, c, n)
  BY <1>1, SeqStep DEF Boxes
<1> QED BY <1>3, <1>5, <1>6

LEMMA AppendBox ==
  ASSUME NEW G, NEW A, NEW boxes \in Boxes(G, A), NEW c \in Conn, NEW n \in Node,
         NEW msg \in Heard(G, A, c, n)
  PROVE  LET b == Put(boxes, c, n, Append(boxes[c][n], msg)) IN
         /\ b \in Boxes(G, A)
         /\ b[c][n] = Append(boxes[c][n], msg)
         /\ \A d \in Conn, m \in Node : <<d, m>> # <<c, n>> => b[d][m] = boxes[d][m]
<1> DEFINE s == Append(boxes[c][n], msg)
<1> HIDE DEF s
<1>1. /\ Put(boxes, c, n, s) = [d \in Conn |-> [m \in Node |-> Put(boxes, c, n, s)[d][m]]]
      /\ Put(boxes, c, n, s)[c][n] = s
      /\ \A d \in Conn, m \in Node :
           <<d, m>> # <<c, n>> => Put(boxes, c, n, s)[d][m] = boxes[d][m]
  BY PutBox
<1>2. \A d \in Conn, m \in Node : BoxStep(G, A, boxes, Put(boxes, c, n, s), d, m)
  BY <1>1 DEF BoxStep, s
<1>3. Put(boxes, c, n, s) \in Boxes(G, A)
  BY <1>1, <1>2, BoxesStep
<1> QED BY <1>1, <1>3 DEF s

LEMMA SendBoxes ==
  ASSUME NEW G, NEW A, NEW boxes \in Boxes(G, A), NEW c \in Conn, NEW n \in Ends(c),
         NEW msg \in Heard(G, A, c, Other(c, n))
  PROVE  /\ send_message(c, n, msg, boxes) \in Boxes(G, A)
         /\ \A d \in Conn, m \in Node :
              LET b == send_message(c, n, msg, boxes)[d][m] IN
              \/ b = boxes[d][m]
              \/ c \in up /\ d = c /\ m = Other(c, n) /\ b = Append(boxes[c][m], msg)
<1>1. CASE c \notin up
  BY <1>1 DEF send_message
<1>2. CASE c \in up
  <2>1. send_message(c, n, msg, boxes)
          = Put(boxes, c, Other(c, n), Append(boxes[c][Other(c, n)], msg))
    BY <1>2 DEF send_message, Put
  <2>2. Other(c, n) \in Node
    BY ConnEnds
  <2> QED BY <1>2, <2>1, <2>2, AppendBox
<1> QED BY <1>1, <1>2

LEMMA BroadcastBoxes ==
  ASSUME NEW G, NEW A, NEW boxes \in Boxes(G, A), NEW n \in Node, NEW msg,
         \A c \in Conn, m \in Node : msg \in Heard(G, A, c, m)
  PROVE  /\ broadcast_message(n, msg, boxes) \in Boxes(G, A)
         /\ \A c \in Conn, m \in Node :
              LET b == broadcast_message(n, msg, boxes)[c][m] IN
              \/ b = boxes[c][m]
              \/ /\ c \in up /\ n \in Ends(c) /\ m = Other(c, n)
                 /\ b = Append(boxes[c][m], msg)
<1> DEFINE b == broadcast_message(n, msg, boxes)
           sent(c) == c \in up /\ n \in Ends(c) /\ msg.id \notin seen[Other(c, n)]
<1>1. \A c \in Conn : boxes[c] = [m \in Node |-> boxes[c][m]]
  BY BoxesForm
<1>2. b = [c \in Conn |-> b[c]]
  BY DEF broadcast_message
<1>3. ASSUME NEW c \in Conn
      PROVE  b[c] = [m \in Node |-> IF sent(c) /\ m = Other(c, n)
                                    THEN Append(boxes[c][m], msg) ELSE boxes[c][m]]
  <2>1. b[c] = IF sent(c) THEN [boxes[c] EXCEPT ![Other(c, n)] = Append(boxes[c][Other(c, n)], msg)]
                          ELSE boxes[c]
    BY DEF broadcast_message
  <2>2. boxes[c] = [m \in Node |-> boxes[c][m]]
    BY <1>1
  <2> HIDE DEF b, sent
  <2> QED BY <2>1, <2>2
<1> HIDE DEF b
<1>4. \A c \in Conn, m \in Node :
        b[c][m] = IF sent(c) /\ m = Other(c, n) THEN Append(boxes[c][m], msg) ELSE boxes[c][m]
  BY <1>3
<1>5. \A c \in Conn : b[c] = [m \in Node |-> b[c][m]]
  BY <1>3
<1>6. b = [c \in Conn |-> [m \in Node |-> b[c][m]]]
  BY <1>2, <1>5
<1>7. \A c \in Conn, m \in Node : BoxStep(G, A, boxes, b, c, m)
  BY <1>4 DEF BoxStep
<1>8. b \in Boxes(G, A)
  BY <1>6, <1>7, BoxesStep
<1> QED BY <1>4, <1>8 DEF b

-----------------------------------------------------------------------------
(***************************************************************************)
(* What is told: directories and messages list endpoints and identities    *)
(* of G only.                                                              *)
(***************************************************************************)
Telling(G, A, known, boxes) ==
  /\ boxes \in Boxes(G, A)
  /\ \A m \in Node : Lists(G, known[m])

LEMMA ShapeTells == Shape => Telling(Pairs, Pairs, known_peers, inbox)
<1>1. SUFFICES ASSUME Shape PROVE Telling(Pairs, Pairs, known_peers, inbox)
  OBVIOUS
<1>2. ASSUME NEW m \in Node PROVE Lists(Pairs, known_peers[m])
  <2>1. known_peers[m] \in Directory
    BY <1>1 DEF Shape
  <2> QED BY <2>1 DEF Lists, Directory, Pairs, Record
<1>3. inbox \in Boxes(Pairs, Pairs)
  BY <1>1 DEF Shape
<1> QED BY <1>2, <1>3 DEF Telling

LEMMA TellingGrows ==
  ASSUME NEW G, NEW A, NEW G2, NEW A2, G \subseteq G2, A \subseteq A2,
         NEW known, NEW boxes, Telling(G, A, known, boxes)
  PROVE  Telling(G2, A2, known, boxes)
BY BoxesGrow, ListsGrows DEF Telling

LEMMA SelfEntry ==
  ASSUME Shape, NEW n \in Node, status[n] = "up"
  PROVE  Entry(name[n], node_id[n]) \in Record /\ Entry(name[n], node_id[n]).node_id = node_id[n]
BY DEF Shape, Entry, Record

LEMMA PlainMessages ==
  ASSUME NEW G, NEW A, NEW c, NEW n
  PROVE  /\ [type |-> "ping"] \in Heard(G, A, c, n)
         /\ [type |-> "pong"] \in Heard(G, A, c, n)
         /\ [type |-> "network_details_request"] \in Heard(G, A, c, n)
         /\ [type |-> "chain_request"] \in Heard(G, A, c, n)
         /\ [type |-> "chain"] \in Heard(G, A, c, n)
         /\ \A a \in {1, None} : [type |-> "network_details", admin |-> a] \in Heard(G, A, c, n)
BY DEF Heard, Msg

LEMMA EntryMessages ==
  ASSUME NEW G, NEW A, NEW c, NEW n, NEW at \in Node, NEW entry \in Record, NEW id \in Nat,
         <<at, entry.node_id>> \in G
  PROVE  /\ [type |-> "peer_info", at |-> at, entry |-> entry] \in Heard(G, A, c, n)
         /\ [type |-> "new_peer", id |-> id, at |-> at, entry |-> entry] \in Heard(G, A, c, n)
BY DEF Heard, Msg

LEMMA IntroductionMessage ==
  ASSUME NEW G, NEW A, NEW c, NEW entry \in Record, c[1] \in Node, c[1] # Founder,
         <<c[1], entry.node_id>> \in A
  PROVE  [type |-> "add_peer", at |-> c[1], entry |-> entry] \in Heard(G, A, c, c[2])
BY DEF Heard, Msg

LEMMA RenamingMessage ==
  ASSUME NEW G, NEW A, NEW c, NEW nm \in Named, NEW id \in Nat, c[1] # Founder
  PROVE  [type |-> "change_name", new_name |-> nm, new_peer_msg_id |-> id]
            \in Heard(G, A, c, c[1])
BY DEF Heard, Msg

LEMMA ListMessage ==
  ASSUME Shape, NEW n \in Node, status[n] = "up", NEW G, NEW A, NEW c, NEW m,
         <<n, node_id[n]>> \in G, NEW known \in Directory, Lists(G, known)
  PROVE  known_peers_message(n, known) \in Heard(G, A, c, m)
<1> DEFINE self == Entry(name[n], node_id[n])
           all == [known EXCEPT ![n] = self]
<1>1. self \in Record /\ self.node_id = node_id[n]
  BY SelfEntry
<1> HIDE DEF self
<1>2. all \in Directory
  BY <1>1 DEF Directory
<1>3. \A k \in Node : all[k] = IF k = n THEN self ELSE known[k]
  BY DEF Directory
<1>4. Lists(G, all)
  BY <1>1, <1>3 DEF Lists
<1>5. known_peers_message(n, known) = [type |-> "known_peers", peers |-> all]
  BY DEF known_peers_message, self
<1> HIDE DEF all
<1> QED BY <1>2, <1>4, <1>5 DEF Heard, Msg

-----------------------------------------------------------------------------
(***************************************************************************)
(* Registering peers: nothing is forgotten or replaced, the peer itself is *)
(* not listed, and what is new comes from the list; the file, if it is     *)
(* written, is the directory.                                              *)
(***************************************************************************)
LEMMA RegisteredList ==
  ASSUME Shape, NEW n \in Node, NEW new \in Directory
  PROVE  /\ Registered(n, new) \in Directory
         /\ Registered(n, new)[n] = None
         /\ \A m \in Node : known_peers[n][m] # None => Registered(n, new)[m] = known_peers[n][m]
         /\ \A m \in Node : \/ Registered(n, new)[m] = known_peers[n][m]
                            \/ m # n /\ Registered(n, new)[m] = new[m]
<1>1. known_peers[n] \in Directory /\ known_peers[n][n] = None
  BY DEF Shape
<1> QED BY <1>1 DEF Registered, Directory

LEMMA RegisterStep ==
  ASSUME Shape, NEW n \in Node, NEW new \in Directory, register(n, new)
  PROVE  /\ known_peers' \in [Node -> Directory]
         /\ \A m \in Node : known_peers'[m][m] = None
         /\ known_peers'[n] = Registered(n, new)
         /\ \A m \in Node \ {n} : known_peers'[m] = known_peers[m]
         /\ disk' \in [Node -> Saved]
         /\ \A m \in Node : disk'[m].node_id = disk[m].node_id /\ disk'[m].chain = disk[m].chain
         /\ \A m \in Node \ {n} : disk'[m] = disk[m]
         /\ n \notin Saver => disk' = disk
         /\ n \in Saver => \/ known_peers'[n] = known_peers[n] /\ disk'[n] = disk[n]
                           \/ disk'[n].peers = known_peers'[n]
<1> DEFINE known == Registered(n, new)
<1>1. known \in Directory /\ known[n] = None
  BY RegisteredList
<1>2. known_peers \in [Node -> Directory] /\ \A m \in Node : known_peers[m][m] = None
  BY DEF Shape
<1>3. known_peers' = [known_peers EXCEPT ![n] = known]
  BY DEF register
<1>4. disk' = IF known # known_peers[n] /\ n \in Saver THEN [disk EXCEPT ![n].peers = known]
              ELSE disk
  BY DEF register, save_known_peers_to_disk, save_peers
<1> HIDE DEF known
<1>5. /\ known_peers' \in [Node -> Directory] /\ known_peers'[n] = known
      /\ \A m \in Node \ {n} : known_peers'[m] = known_peers[m]
  BY <1>1, <1>2, <1>3
<1>6. \A m \in Node : known_peers'[m][m] = None
  BY <1>1, <1>2, <1>5
<1> DEFINE file == [disk[n] EXCEPT !.peers = known]
<1>7. disk \in [Node -> Saved]
  BY DEF Shape
<1>8. /\ file \in Saved /\ file.peers = known
      /\ file.node_id = disk[n].node_id /\ file.chain = disk[n].chain
  BY <1>1, <1>7 DEF Saved
<1>9. [disk EXCEPT ![n].peers = known] = [disk EXCEPT ![n] = file]
  BY <1>7
<1> HIDE DEF file
<1> DEFINE files == [disk EXCEPT ![n] = file]
<1>10. files \in [Node -> Saved] /\ files[n] = file /\ \A m \in Node \ {n} : files[m] = disk[m]
  BY <1>7, <1>8
<1>11. disk' = files \/ (disk' = disk /\ (known = known_peers[n] \/ n \notin Saver))
  BY <1>4, <1>9
<1>12. n \notin Saver => disk' = disk
  BY <1>4
<1> HIDE DEF files
<1> QED BY <1>5, <1>6, <1>7, <1>8, <1>10, <1>11, <1>12 DEF known

LEMMA RegisterTells ==
  ASSUME Shape, NEW n \in Node, NEW new \in Directory, register(n, new), NEW G, Lists(G, new),
         \A m \in Node : Lists(G, known_peers[m])
  PROVE  \A m \in Node : Lists(G, known_peers'[m])
<1>1. Lists(G, known_peers[n])
  OBVIOUS
<1>2. Lists(G, Registered(n, new))
  BY <1>1, RegisteredList DEF Lists
<1>3. known_peers'[n] = Registered(n, new) /\ \A m \in Node \ {n} : known_peers'[m] = known_peers[m]
  BY RegisterStep
<1> QED BY <1>2, <1>3

\* A list of one peer.
LEMMA OneEntry ==
  ASSUME NEW at \in Node, NEW entry \in Record
  PROVE  LET one == [Nobody EXCEPT ![at] = entry] IN
         /\ one \in Directory /\ one[at] = entry
         /\ \A m \in Node : m # at => one[m] = None
         /\ \A G : <<at, entry.node_id>> \in G => Lists(G, one)
<1> DEFINE one == [Nobody EXCEPT ![at] = entry]
<1>1. /\ one \in Directory /\ one[at] = entry
      /\ \A m \in Node : m # at => one[m] = None
  BY DEF Nobody, Directory
<1> HIDE DEF one
<1>2. ASSUME NEW G, <<at, entry.node_id>> \in G PROVE Lists(G, one)
  BY <1>1, <1>2 DEF Lists
<1> QED BY <1>1, <1>2 DEF one

-----------------------------------------------------------------------------
(***************************************************************************)
(* Every handler passes on only what it was told, and tells about its own  *)
(* peer.                                                                   *)
(***************************************************************************)
LEMMA ReadsTold ==
  ASSUME Shape, NEW c \in Conn, NEW n \in Ends(c), NEW type, Reads(c, n, type),
         NEW G, NEW A, Telling(G, A, known_peers, inbox)
  PROVE  /\ n \in Node /\ Other(c, n) \in Node /\ Other(c, n) # n /\ status[n] = "up"
         /\ Read(c, n) \in Boxes(G, A)
         /\ Head(inbox[c][n]) \in Heard(G, A, c, n) /\ Head(inbox[c][n]).type = type
         /\ inbox[c][n] # << >>
<1>1. inbox[c][n] # << >> /\ status[n] = "up" /\ Head(inbox[c][n]).type = type
  BY DEF Reads
<1>2. inbox \in Boxes(G, A)
  BY DEF Telling
<1> QED BY <1>1, <1>2, ReadBoxes, ConnEnds

LEMMA AnswersTell ==
  ASSUME Shape, NEW c \in Conn, NEW n \in Ends(c),
         NEW G, NEW A, Telling(G, A, known_peers, inbox),
         \/ HandlePing(c, n) \/ HandleDetailsRequest(c, n) \/ HandleDetails(c, n)
         \/ HandleChainRequest(c, n) \/ HandleChain(c, n)
  PROVE  Telling(G, A, known_peers', inbox')
<1>1. \E type : Reads(c, n, type)
  BY DEF HandlePing, HandleDetailsRequest, HandleDetails, HandleChainRequest, HandleChain
<1>2. Read(c, n) \in Boxes(G, A) /\ n \in Node
  BY <1>1, ReadsTold
<1>3. admin_id[n] \in {1, None}
  BY <1>2 DEF Shape
<1>4. \/ inbox' = Read(c, n)
      \/ \E msg \in Heard(G, A, c, Other(c, n)) : inbox' = send_message(c, n, msg, Read(c, n))
  BY <1>3, PlainMessages
     DEF HandlePing, HandleDetailsRequest, HandleDetails, HandleChainRequest, HandleChain
<1>5. inbox' \in Boxes(G, A)
  BY <1>2, <1>4, SendBoxes
<1>6. known_peers' = known_peers
  BY DEF HandlePing, HandleDetailsRequest, HandleDetails, HandleChainRequest, HandleChain, dir_vars
<1> QED BY <1>5, <1>6 DEF Telling

LEMMA PongTells ==
  ASSUME Shape, NEW c \in Conn, NEW n \in Ends(c), HandlePong(c, n),
         NEW G, NEW A, Telling(G, A, known_peers, inbox), <<n, node_id[n]>> \in G
  PROVE  Telling(G, A, known_peers', inbox')
<1>1. Reads(c, n, "pong")
  BY DEF HandlePong
<1>2. Read(c, n) \in Boxes(G, A) /\ n \in Node /\ status[n] = "up"
  BY <1>1, ReadsTold
<1>3. peer_info(n) \in Heard(G, A, c, Other(c, n))
  BY <1>2, SelfEntry, EntryMessages, 0 \in Nat DEF peer_info
<1>4. inbox' \in {Read(c, n), send_message(c, n, peer_info(n), Read(c, n))}
  BY DEF HandlePong
<1>5. inbox' \in Boxes(G, A)
  BY <1>2, <1>3, <1>4, SendBoxes
<1>6. known_peers' = known_peers
  BY DEF HandlePong, dir_vars
<1> QED BY <1>5, <1>6 DEF Telling

LEMMA PeerInfoTells ==
  ASSUME Shape, NEW c \in Conn, NEW n \in Ends(c), HandlePeerInfo(c, n),
         NEW G, NEW A, Telling(G, A, known_peers, inbox), <<n, node_id[n]>> \in G
  PROVE  Telling(G, A, known_peers', inbox')
<1> DEFINE msg == Head(inbox[c][n])
           new == [Nobody EXCEPT ![msg.at] = msg.entry]
<1>1. Reads(c, n, "peer_info")
  BY DEF HandlePeerInfo
<1>2. /\ Read(c, n) \in Boxes(G, A) /\ n \in Node /\ status[n] = "up"
      /\ msg \in Heard(G, A, c, n) /\ msg.type = "peer_info"
  BY <1>1, ReadsTold
<1>3. msg.at \in Node /\ msg.entry \in Record /\ <<msg.at, msg.entry.node_id>> \in G
  BY <1>2 DEF Heard, Msg
<1>4. register(n, new)
  BY DEF HandlePeerInfo
<1>5. inbox' \in {Read(c, n),
                  send_message(c, n, known_peers_message(n, known_peers'[n]), Read(c, n))}
  BY DEF HandlePeerInfo
<1> HIDE DEF msg
<1>6. new \in Directory /\ Lists(G, new)
  BY <1>3, OneEntry
<1> HIDE DEF new
<1>7. \A m \in Node : Lists(G, known_peers'[m])
  BY <1>2, <1>4, <1>6, RegisterTells DEF Telling
<1>8. known_peers'[n] \in Directory
  BY <1>2, <1>4, <1>6, RegisterStep
<1>9. known_peers_message(n, known_peers'[n]) \in Heard(G, A, c, Other(c, n))
  BY <1>2, <1>7, <1>8, ListMessage
<1>10. inbox' \in Boxes(G, A)
  BY <1>2, <1>5, <1>9, SendBoxes
<1> QED BY <1>7, <1>10 DEF Telling

\* What the name is changed to is a name.
LEMMA UniqueName ==
  ASSUME Shape, NEW n \in Node, NEW base \in Named
  PROVE  /\ get_unique_name(n, base) \in Named
         /\ lower(get_unique_name(n, base)) = get_unique_name(n, base)
         /\ get_unique_name(n, base) \notin existing_names(n)
<1> DEFINE existing == existing_names(n)
           b == lower(base)
           numbered(k) == Append(b, k)
           N == Cardinality(existing)
           Good(k) == numbered(k) \notin existing /\ \A j \in 1..(k - 1) : numbered(j) \in existing
<1>1. IsFiniteSet(existing) /\ N \in Nat
  <2> DEFINE f == [m \in Knows(n) |-> lower(known_peers[n][m].name)]
             low == {lower(known_peers[n][m].name) : m \in Knows(n)}
  <2>1. IsFiniteSet(Knows(n))
    <3>1. Knows(n) \subseteq Node /\ IsFiniteSet(Node)
      BY DirectoryAssumption DEF Knows, DirectoryAssumption
    <3> QED BY <3>1, FS_Subset
  <2>2. f \in Surjection(Knows(n), low)
    BY DEF Surjection
  <2>3. IsFiniteSet(low)
    BY <2>1, <2>2, FS_Surjection
  <2>4. existing = low \cup {name[n]}
    BY DEF existing_names
  <2> HIDE DEF low
  <2>5. IsFiniteSet({name[n]})
    BY FS_Singleton
  <2>6. IsFiniteSet(low \cup {name[n]})
    BY <2>3, <2>5, FS_Union
  <2> QED BY <2>4, <2>6, FS_CardinalityType
<1>2. b \in Named /\ lower(b) = b /\ \A k \in Nat : numbered(k) \in Named /\ lower(numbered(k)) = numbered(k)
  BY LowerName
<1>3. get_unique_name(n, base) =
        IF b \notin existing THEN b ELSE numbered(CHOOSE k \in 1..(N + 1) : Good(k))
  BY DEF get_unique_name
<1>4. \A j, k \in Nat : numbered(j) = numbered(k) => j = k
  <2>1. b \in Seq(DOMAIN Lower \cup Nat)
    BY <1>2 DEF Named
  <2>2. ASSUME NEW j \in Nat, NEW k \in Nat, Append(b, j) = Append(b, k) PROVE j = k
    <3>1. Append(b, j)[Len(b) + 1] = j /\ Append(b, k)[Len(b) + 1] = k
      BY <2>1
    <3> QED BY <2>2, <3>1
  <2> QED BY <2>2
<1> HIDE DEF existing, b, numbered
<1>5. \E k \in 1..(N + 1) : numbered(k) \notin existing
  <2>1. SUFFICES ASSUME \A k \in 1..(N + 1) : numbered(k) \in existing PROVE FALSE
    OBVIOUS
  <2> DEFINE f == [k \in 1..(N + 1) |-> numbered(k)]
  <2>2. f \in Injection(1..(N + 1), existing)
    BY <1>4, <2>1 DEF Injection, IsInjective
  <2>3. IsFiniteSet(1..(N + 1)) /\ Cardinality(1..(N + 1)) = N + 1
    BY <1>1, FS_Interval
  <2>4. Cardinality(1..(N + 1)) <= Cardinality(existing)
    BY <1>1, <2>2, FS_Injection
  <2> QED BY <1>1, <2>3, <2>4 DEF N
<1>6. \E k \in 1..(N + 1) : Good(k)
  <2> DEFINE T == {k \in 1..(N + 1) : numbered(k) \notin existing}
  <2>1. T \in SUBSET Nat /\ T # {}
    BY <1>5
  <2>2. PICK k \in T : \A j \in T : k <= j
    <3> HIDE DEF T
    <3> QED BY <2>1, LeastElement
  <2>3. k \in 1..(N + 1) /\ numbered(k) \notin existing
    OBVIOUS
  <2>4. ASSUME NEW j \in 1..(k - 1) PROVE numbered(j) \in existing
    <3>1. j \in 1..(N + 1) /\ ~ (k <= j)
      BY <1>1, <2>3
    <3> QED BY <2>2, <3>1
  <2> QED BY <2>3, <2>4
<1> DEFINE number == CHOOSE k \in 1..(N + 1) : Good(k)
<1>7. number \in 1..(N + 1) /\ Good(number)
  <2> HIDE DEF Good, N
  <2> QED BY <1>6
<1>8. number \in Nat /\ numbered(number) \notin existing
  <2> HIDE DEF number
  <2> QED BY <1>1, <1>7
<1> HIDE DEF number
<1>9. get_unique_name(n, base) = IF b \notin existing THEN b ELSE numbered(number)
  BY <1>3 DEF number
<1>10. CASE b \notin existing
  BY <1>2, <1>9, <1>10 DEF existing
<1>11. CASE b \in existing
  BY <1>2, <1>8, <1>9, <1>11 DEF existing
<1> QED BY <1>10, <1>11

\* The parts of HandleAddPeer.
Introduced(c, n) == Head(inbox[c][n])
Proposed(c, n) == get_unique_name(n, Introduced(c, n).entry.name)
Renamed(c, n) == [Introduced(c, n).entry EXCEPT !.name = Proposed(c, n)]
Announcement(c, n) ==
  [type |-> "new_peer", id |-> count.msgs + 1, at |-> Introduced(c, n).at, entry |-> Renamed(c, n)]
Renaming(c, n) ==
  IF Proposed(c, n) = Introduced(c, n).entry.name THEN Read(c, n)
  ELSE send_message(c, n, [type |-> "change_name", new_name |-> Proposed(c, n),
                           new_peer_msg_id |-> count.msgs + 1], Read(c, n))

LEMMA AddPeerParts ==
  ASSUME NEW c, NEW n, HandleAddPeer(c, n)
  PROVE  /\ Reads(c, n, "add_peer")
         /\ UNCHANGED <<self_vars, net_vars, conn_vars>>
         /\ Introduced(c, n).at \in Knows(n) =>
              inbox' = Read(c, n) /\ UNCHANGED <<dir_vars, seen, disk, count>>
         /\ Introduced(c, n).at \notin Knows(n) =>
              /\ register(n, [Nobody EXCEPT ![Introduced(c, n).at] = Renamed(c, n)])
              /\ count' = [count EXCEPT !.msgs = count.msgs + 1]
              /\ inbox' = broadcast_message(n, Announcement(c, n),
                   send_message(c, n, known_peers_message(n, known_peers'[n]), Renaming(c, n)))
BY DEF HandleAddPeer, Introduced, Proposed, Renamed, Announcement, Renaming

LEMMA AddPeerTypes ==
  ASSUME Shape, NEW c \in Conn, NEW n \in Ends(c), Reads(c, n, "add_peer"),
         NEW G, NEW A, Telling(G, A, known_peers, inbox)
  PROVE  /\ n \in Node /\ status[n] = "up" /\ n = c[2] /\ Other(c, n) = c[1]
         /\ Introduced(c, n).at = c[1] /\ c[1] \in Node /\ c[1] # Founder /\ c[1] # n
         /\ Introduced(c, n).entry \in Record
         /\ <<c[1], Introduced(c, n).entry.node_id>> \in A
         /\ Proposed(c, n) \in Named /\ lower(Proposed(c, n)) = Proposed(c, n)
         /\ Proposed(c, n) \notin existing_names(n)
         /\ Renamed(c, n) \in Record /\ Renamed(c, n).name = Proposed(c, n)
         /\ Renamed(c, n).node_id = Introduced(c, n).entry.node_id
         /\ count.msgs + 1 \in Nat
<1> DEFINE msg == Introduced(c, n)
<1>1. n \in Node /\ status[n] = "up" /\ msg \in Heard(G, A, c, n) /\ msg.type = "add_peer"
  BY ReadsTold DEF Introduced
<1>2. /\ msg.at = c[1] /\ n = c[2] /\ c[1] # Founder
      /\ msg.entry \in Record /\ <<msg.at, msg.entry.node_id>> \in A
  BY <1>1 DEF Heard, Msg
<1>3. c[1] \in Node /\ c[1] # n /\ Other(c, n) = c[1]
  BY <1>2, ConnEnds
<1>4. msg.entry.name \in Named
  BY <1>2 DEF Record
<1>5. /\ Proposed(c, n) \in Named /\ lower(Proposed(c, n)) = Proposed(c, n)
      /\ Proposed(c, n) \notin existing_names(n)
  BY <1>1, <1>4, UniqueName DEF Proposed
<1>6. /\ Renamed(c, n) \in Record /\ Renamed(c, n).name = Proposed(c, n)
      /\ Renamed(c, n).node_id = msg.entry.node_id
  BY <1>2, <1>5 DEF Renamed, Record
<1>7. count.msgs + 1 \in Nat
  BY DEF Shape
<1> QED BY <1>1, <1>2, <1>3, <1>5, <1>6, <1>7

LEMMA AddPeerTells ==
  ASSUME Shape, NEW c \in Conn, NEW n \in Ends(c), HandleAddPeer(c, n),
         NEW G, NEW A, Telling(G, A, known_peers, inbox), <<n, node_id[n]>> \in G,
         <<c[1], Introduced(c, n).entry.node_id>> \in G
  PROVE  Telling(G, A, known_peers', inbox')
<1>1. Reads(c, n, "add_peer")
  BY AddPeerParts
<1>2. Read(c, n) \in Boxes(G, A)
  BY <1>1, ReadsTold
<1> DEFINE at == Introduced(c, n).at
<1>3. /\ n \in Node /\ status[n] = "up" /\ at = c[1] /\ at \in Node /\ c[1] # Founder
      /\ Other(c, n) = c[1] /\ Proposed(c, n) \in Named
      /\ Renamed(c, n) \in Record /\ <<at, Renamed(c, n).node_id>> \in G
      /\ count.msgs + 1 \in Nat
  BY <1>1, AddPeerTypes
<1>4. CASE at \in Knows(n)
  <2>1. inbox' = Read(c, n) /\ known_peers' = known_peers
    BY <1>4, AddPeerParts DEF dir_vars
  <2> QED BY <1>2, <2>1 DEF Telling
<1>5. CASE at \notin Knows(n)
  <2> DEFINE new == [Nobody EXCEPT ![at] = Renamed(c, n)]
  <2>1. /\ register(n, new)
        /\ inbox' = broadcast_message(n, Announcement(c, n),
             send_message(c, n, known_peers_message(n, known_peers'[n]), Renaming(c, n)))
    BY <1>5, AddPeerParts
  <2> HIDE DEF at
  <2>2. new \in Directory /\ Lists(G, new)
    BY <1>3, OneEntry
  <2> HIDE DEF new
  <2>3. \A m \in Node : Lists(G, known_peers'[m])
    BY <1>3, <2>1, <2>2, RegisterTells DEF Telling
  <2>4. known_peers'[n] \in Directory
    BY <1>3, <2>1, <2>2, RegisterStep
  <2>5. known_peers_message(n, known_peers'[n]) \in Heard(G, A, c, Other(c, n))
    BY <1>3, <2>3, <2>4, ListMessage
  <2>6. Renaming(c, n) \in Boxes(G, A)
    <3>1. [type |-> "change_name", new_name |-> Proposed(c, n),
           new_peer_msg_id |-> count.msgs + 1] \in Heard(G, A, c, Other(c, n))
      BY <1>3, RenamingMessage
    <3> QED BY <1>2, <3>1, SendBoxes DEF Renaming
  <2> DEFINE boxes == send_message(c, n, known_peers_message(n, known_peers'[n]), Renaming(c, n))
  <2>7. boxes \in Boxes(G, A)
    BY <2>5, <2>6, SendBoxes
  <2>8. \A d, m : Announcement(c, n) \in Heard(G, A, d, m)
    BY <1>3, EntryMessages DEF Announcement, at
  <2> HIDE DEF boxes
  <2>9. broadcast_message(n, Announcement(c, n), boxes) \in Boxes(G, A)
    BY <1>3, <2>7, <2>8, BroadcastBoxes
  <2> QED BY <2>1, <2>3, <2>9 DEF Telling, boxes
<1> QED BY <1>4, <1>5

LEMMA NewPeerTells ==
  ASSUME Shape, NEW c \in Conn, NEW n \in Ends(c), HandleNewPeer(c, n),
         NEW G, NEW A, Telling(G, A, known_peers, inbox)
  PROVE  Telling(G, A, known_peers', inbox')
<1> DEFINE msg == Head(inbox[c][n])
           new == [Nobody EXCEPT ![msg.at] = msg.entry]
<1>1. Reads(c, n, "new_peer")
  BY DEF HandleNewPeer
<1>2. /\ Read(c, n) \in Boxes(G, A) /\ n \in Node
      /\ msg \in Heard(G, A, c, n) /\ msg.type = "new_peer"
  BY <1>1, ReadsTold
<1>3. /\ msg.at \in Node /\ msg.entry \in Record /\ <<msg.at, msg.entry.node_id>> \in G
      /\ \A d, m : msg \in Heard(G, A, d, m)
  BY <1>2 DEF Heard, Msg
<1>4. \/ inbox' = Read(c, n) /\ known_peers' = known_peers
      \/ register(n, new) /\ inbox' = broadcast_message(n, msg, Read(c, n))
  BY DEF HandleNewPeer, dir_vars
<1> HIDE DEF msg
<1>5. new \in Directory /\ Lists(G, new)
  BY <1>3, OneEntry
<1>6. broadcast_message(n, msg, Read(c, n)) \in Boxes(G, A)
  BY <1>2, <1>3, BroadcastBoxes
<1> HIDE DEF new
<1>7. register(n, new) => \A m \in Node : Lists(G, known_peers'[m])
  BY <1>2, <1>5, RegisterTells DEF Telling
<1> QED BY <1>2, <1>4, <1>6, <1>7 DEF Telling

LEMMA KnownPeersTells ==
  ASSUME Shape, NEW c \in Conn, NEW n \in Ends(c), HandleKnownPeers(c, n),
         NEW G, NEW A, Telling(G, A, known_peers, inbox)
  PROVE  /\ Telling(G, A, known_peers', inbox')
         /\ \E new \in Directory : register(n, new) /\ Lists(G, new)
<1> DEFINE msg == Head(inbox[c][n])
<1>1. Reads(c, n, "known_peers")
  BY DEF HandleKnownPeers
<1>2. /\ Read(c, n) \in Boxes(G, A) /\ n \in Node
      /\ msg \in Heard(G, A, c, n) /\ msg.type = "known_peers"
  BY <1>1, ReadsTold
<1>3. msg.peers \in Directory /\ Lists(G, msg.peers)
  BY <1>2 DEF Heard, Msg
<1>4. /\ register(n, msg.peers)
      /\ inbox' = send_message(c, n, [type |-> "network_details_request"], Read(c, n))
  BY DEF HandleKnownPeers
<1> HIDE DEF msg
<1>5. \A m \in Node : Lists(G, known_peers'[m])
  BY <1>2, <1>3, <1>4, RegisterTells DEF Telling
<1>6. inbox' \in Boxes(G, A)
  BY <1>2, <1>4, PlainMessages, SendBoxes
<1> QED BY <1>3, <1>4, <1>5, <1>6 DEF Telling

LEMMA ChangeNameTells ==
  ASSUME Shape, NEW c \in Conn, NEW n \in Ends(c), HandleChangeName(c, n),
         NEW G, NEW A, Telling(G, A, known_peers, inbox)
  PROVE  /\ Telling(G, A, known_peers', inbox')
         /\ n # Founder /\ n = c[1]
         /\ name' = name \/ \E nm \in Named : name' = [name EXCEPT ![n] = nm]
         /\ \A d \in Conn, m \in Node :
              \/ inbox'[d][m] = inbox[d][m] /\ <<d, m>> # <<c, n>>
              \/ d = c /\ m = n /\ inbox'[d][m] \in {<< >>, Tail(inbox[d][m])}
<1> DEFINE msg == Head(inbox[c][n])
<1>1. Reads(c, n, "change_name")
  BY DEF HandleChangeName
<1>2. /\ Read(c, n) \in Boxes(G, A) /\ n \in Node
      /\ msg \in Heard(G, A, c, n) /\ msg.type = "change_name" /\ inbox[c][n] # << >>
  BY <1>1, ReadsTold
<1>3. msg.new_name \in Named /\ n = c[1] /\ n # Founder
  BY <1>2 DEF Heard, Msg
<1>4. inbox \in Boxes(G, A)
  BY DEF Telling
<1>5. /\ inbox' = Read(c, n) \/ inbox' = Put(inbox, c, n, << >>)
      /\ known_peers' = known_peers
      /\ name' = name \/ name' = [name EXCEPT ![n] = msg.new_name]
  BY DEF HandleChangeName, Put
<1> HIDE DEF msg
<1> DEFINE b == Put(inbox, c, n, << >>)
<1>6. /\ b = [d \in Conn |-> [m \in Node |-> b[d][m]]] /\ b[c][n] = << >>
      /\ \A d \in Conn, m \in Node : <<d, m>> # <<c, n>> => b[d][m] = inbox[d][m]
  BY <1>2, <1>4, PutBox
<1> HIDE DEF b
<1>7. \A d \in Conn, m \in Node : BoxStep(G, A, inbox, b, d, m)
  BY <1>6 DEF BoxStep
<1>8. b \in Boxes(G, A)
  BY <1>4, <1>6, <1>7, BoxesStep
<1>9. inbox' = Read(c, n) \/ inbox' = b
  BY <1>5 DEF b
<1>10. /\ Read(c, n)[c][n] = Tail(inbox[c][n])
       /\ \A d \in Conn, m \in Node : <<d, m>> # <<c, n>> => Read(c, n)[d][m] = inbox[d][m]
  BY <1>2, <1>4, ReadBoxes
<1>11. inbox'[c][n] \in {<< >>, Tail(inbox[c][n])}
  BY <1>6, <1>9, <1>10
<1>12. \A d \in Conn, m \in Node : <<d, m>> # <<c, n>> => inbox'[d][m] = inbox[d][m]
  BY <1>6, <1>9, <1>10
<1>13. \A d \in Conn, m \in Node :
         \/ inbox'[d][m] = inbox[d][m] /\ <<d, m>> # <<c, n>>
         \/ d = c /\ m = n /\ inbox'[d][m] \in {<< >>, Tail(inbox[d][m])}
  BY <1>11, <1>12
<1> QED BY <1>2, <1>3, <1>5, <1>8, <1>9, <1>13 DEF Telling

-----------------------------------------------------------------------------
(***************************************************************************)
(* And so do the timers, connections, stops and starts.                    *)
(***************************************************************************)
LEMMA ConnectTells ==
  ASSUME Shape, NEW n \in Node, NEW e \in Node, connect_to_peer(n, e),
         NEW G, NEW A, Telling(G, A, known_peers, inbox), <<n, node_id[n]>> \in A
  PROVE  /\ Telling(G, A, known_peers', inbox')
         /\ <<n, e>> \in Conn
         /\ \/ inbox' = inbox /\ up' = up
            \/ /\ up' = up \cup {<<n, e>>}
               /\ \A m \in Ends(<<n, e>>) : inbox[<<n, e>>][m] = << >>
               /\ \E msg \in Heard(G, A, <<n, e>>, e) :
                    /\ inbox'[<<n, e>>][e] = Append(<< >>, msg)
                    /\ ~ has_chain[n] => msg.type = "add_peer"
               /\ \A d \in Conn, m \in Node :
                    <<d, m>> # <<<<n, e>>, e>> => inbox'[d][m] = inbox[d][m]
<1> DEFINE c == <<n, e>>
           self == Entry(name[n], node_id[n])
           hello == IF has_chain[n] THEN [type |-> "ping"]
                    ELSE [type |-> "add_peer", at |-> n, entry |-> self]
<1>1. /\ c \in Conn /\ c[1] = n /\ c[2] = e /\ e \in Ends(c) /\ status[n] = "up"
      /\ ~ has_chain[n] => n # Founder
  BY DEF connect_to_peer, Shape, Conn, Ends
<1>2. self \in Record /\ self.node_id = node_id[n]
  BY <1>1, SelfEntry
<1>3. inbox \in Boxes(G, A)
  BY DEF Telling
<1>4. /\ \/ inbox' = inbox /\ up' = up
         \/ /\ \A m \in Ends(c) : inbox[c][m] = << >>
            /\ up' = up \cup {c}
            /\ inbox' = [inbox EXCEPT ![c][e] = Append(@, hello)]
      /\ known_peers' = known_peers
  BY DEF connect_to_peer, dir_vars
<1> HIDE DEF self
<1>5. [type |-> "add_peer", at |-> c[1], entry |-> self] \in Heard(G, A, c, c[2]) \/ has_chain[n]
  <2>1. CASE has_chain[n]
    BY <2>1
  <2>2. CASE ~ has_chain[n]
    <3> HIDE DEF c
    <3>1. c[1] \in Node /\ c[1] # Founder /\ <<c[1], self.node_id>> \in A
      BY <1>1, <1>2, <2>2
    <3> QED BY <1>2, <3>1, IntroductionMessage
  <2> QED BY <2>1, <2>2
<1>6. hello \in Heard(G, A, c, e) /\ (~ has_chain[n] => hello.type = "add_peer")
  BY <1>1, <1>5, PlainMessages
<1> HIDE DEF hello, c
<1> DEFINE b == Put(inbox, c, e, Append(inbox[c][e], hello))
<1>7. /\ b \in Boxes(G, A)
      /\ b[c][e] = Append(inbox[c][e], hello)
      /\ \A d \in Conn, m \in Node : <<d, m>> # <<c, e>> => b[d][m] = inbox[d][m]
  BY <1>1, <1>3, <1>6, AppendBox
<1>8. \/ inbox' = inbox /\ up' = up
      \/ (\A m \in Ends(c) : inbox[c][m] = << >>) /\ up' = up \cup {c} /\ inbox' = b
  BY <1>4 DEF Put
<1> HIDE DEF b
<1>9. Telling(G, A, known_peers', inbox')
  BY <1>3, <1>4, <1>7, <1>8 DEF Telling
<1>10. CASE inbox' = inbox /\ up' = up
  BY <1>1, <1>9, <1>10 DEF c
<1>11. CASE (\A m \in Ends(c) : inbox[c][m] = << >>) /\ up' = up \cup {c} /\ inbox' = b
  <2>1. inbox[c][e] = << >>
    BY <1>1, <1>11
  <2>2. b[c][e] = Append(<< >>, hello)
    BY <1>7, <2>1
  <2>3. \E msg \in Heard(G, A, c, e) :
          inbox'[c][e] = Append(<< >>, msg) /\ (~ has_chain[n] => msg.type = "add_peer")
    BY <1>6, <1>11, <2>2
  <2>4. \A d \in Conn, m \in Node : <<d, m>> # <<c, e>> => inbox'[d][m] = inbox[d][m]
    BY <1>7, <1>11
  <2> QED BY <1>1, <1>9, <1>11, <2>3, <2>4 DEF c
<1> QED BY <1>8, <1>10, <1>11

\* Boxes are only emptied.
Emptied(a, b) == \A d \in Conn, m \in Node : b[d][m] = a[d][m] \/ b[d][m] = << >>

LEMMA EmptiedBoxes ==
  ASSUME NEW G, NEW A, NEW a \in Boxes(G, A), NEW b, Emptied(a, b),
         b = [d \in Conn |-> [m \in Node |-> b[d][m]]]
  PROVE  b \in Boxes(G, A)
<1>1. \A d \in Conn, m \in Node : BoxStep(G, A, a, b, d, m)
  BY DEF Emptied, BoxStep
<1> QED BY <1>1, BoxesStep

LEMMA DropTells ==
  ASSUME Shape, NEW n \in Node, SamplerDrops(n),
         NEW G, NEW A, Telling(G, A, known_peers, inbox)
  PROVE  /\ Telling(G, A, known_peers', inbox')
         /\ Emptied(inbox, inbox')
         /\ \E e : <<n, e>> \in up /\ up' = up \ {<<n, e>>}
                   /\ have_sent_peer_info' = have_sent_peer_info \ {<<n, e>>}
<1>1. PICK e \in outbound_peers(n) :
        /\ up' = up \ {<<n, e>>}
        /\ have_sent_peer_info' = have_sent_peer_info \ {<<n, e>>}
        /\ Closing(<<n, e>>, inbox)
  BY DEF SamplerDrops
<1> DEFINE c == <<n, e>>
<1>2. c \in up /\ c \in Conn
  <2>1. \A d \in up : d = <<d[1], d[2]>> /\ d \in Conn
    BY DEF Shape, Conn
  <2> QED BY <2>1 DEF outbound_peers
<1>3. inbox \in Boxes(G, A) /\ known_peers' = known_peers
  BY DEF Telling, SamplerDrops, dir_vars
<1> HIDE DEF c
<1>4. PICK losers \in SUBSET Ends(c) :
        inbox' = [inbox EXCEPT ![c] = [m \in Node |-> IF m \in losers THEN << >> ELSE inbox[c][m]]]
  BY <1>1 DEF Closing, c
<1>5. inbox = [d \in Conn |-> inbox[d]] /\ \A d \in Conn : inbox[d] = [m \in Node |-> inbox[d][m]]
  BY <1>3, BoxesForm DEF Boxes
<1> DEFINE t == [m \in Node |-> IF m \in losers THEN << >> ELSE inbox[c][m]]
<1>6. t = [m \in Node |-> t[m]] /\ \A m \in Node : t[m] = inbox[c][m] \/ t[m] = << >>
  OBVIOUS
<1> HIDE DEF t
<1>7. inbox' = [d \in Conn |-> IF d = c THEN t ELSE inbox[d]]
  BY <1>4, <1>5 DEF t
<1>8. inbox'[c] = t /\ \A d \in Conn : d # c => inbox'[d] = inbox[d]
  BY <1>2, <1>7
<1>9. Emptied(inbox, inbox')
  BY <1>6, <1>8 DEF Emptied
<1>10. inbox' = [d \in Conn |-> inbox'[d]]
  BY <1>7
<1>11. \A d \in Conn : inbox'[d] = [m \in Node |-> inbox'[d][m]]
  BY <1>5, <1>6, <1>8
<1>12. inbox' = [d \in Conn |-> [m \in Node |-> inbox'[d][m]]]
  BY <1>10, <1>11
<1>13. inbox' \in Boxes(G, A)
  BY <1>3, <1>9, <1>12, EmptiedBoxes
<1> QED BY <1>1, <1>2, <1>3, <1>9, <1>13 DEF Telling, c

LEMMA StopTells ==
  ASSUME Shape, NEW n \in Node, Stop(n),
         NEW G, NEW A, Telling(G, A, known_peers, inbox)
  PROVE  /\ Telling(G, A, known_peers', inbox')
         /\ Emptied(inbox, inbox')
         /\ \A d \in Conn, m \in Node :
              inbox'[d][m] = IF n \in Ends(d) /\ m = n THEN << >> ELSE inbox[d][m]
<1>1. inbox \in Boxes(G, A) /\ known_peers' = known_peers
  BY DEF Telling, Stop, dir_vars
<1>2. inbox = [d \in Conn |-> inbox[d]] /\ \A d \in Conn : inbox[d] = [m \in Node |-> inbox[d][m]]
  BY <1>1, BoxesForm DEF Boxes
<1>3. inbox' = [d \in Conn |-> IF n \in Ends(d) THEN [inbox[d] EXCEPT ![n] = << >>] ELSE inbox[d]]
  BY DEF Stop, Closed
<1>4. ASSUME NEW d \in Conn
      PROVE  inbox'[d] = [m \in Node |-> IF n \in Ends(d) /\ m = n THEN << >> ELSE inbox[d][m]]
  <2>1. inbox'[d] = IF n \in Ends(d) THEN [inbox[d] EXCEPT ![n] = << >>] ELSE inbox[d]
    BY <1>3
  <2>2. inbox[d] = [m \in Node |-> inbox[d][m]]
    BY <1>2
  <2> QED BY <2>1, <2>2
<1>5. \A d \in Conn, m \in Node :
        inbox'[d][m] = IF n \in Ends(d) /\ m = n THEN << >> ELSE inbox[d][m]
  BY <1>4
<1>6. Emptied(inbox, inbox')
  BY <1>5 DEF Emptied
<1>7. \A d \in Conn : inbox'[d] = [m \in Node |-> inbox'[d][m]]
  BY <1>4
<1>8. inbox' = [d \in Conn |-> inbox'[d]]
  BY <1>3
<1>9. inbox' = [d \in Conn |-> [m \in Node |-> inbox'[d][m]]]
  BY <1>7, <1>8
<1>10. inbox' \in Boxes(G, A)
  BY <1>1, <1>6, <1>9, EmptiedBoxes
<1> QED BY <1>1, <1>5, <1>6, <1>10 DEF Telling

LEMMA FindTells ==
  ASSUME Shape, NEW n \in Node, find_longest_chain(n),
         NEW G, NEW A, Telling(G, A, known_peers, inbox)
  PROVE  /\ Telling(G, A, known_peers', inbox')
         /\ \A d \in Conn, m \in Node :
              \/ inbox'[d][m] = inbox[d][m]
              \/ /\ d \in up /\ n \in Ends(d) /\ m = Other(d, n)
                 /\ inbox'[d][m] = Append(inbox[d][m], [type |-> "chain_request"])
<1> DEFINE asked == [type |-> "chain_request"]
<1>1. inbox \in Boxes(G, A) /\ known_peers' = known_peers
  BY DEF Telling, find_longest_chain, dir_vars
<1>2. inbox = [d \in Conn |-> inbox[d]] /\ \A d \in Conn : inbox[d] = [m \in Node |-> inbox[d][m]]
  BY <1>1, BoxesForm DEF Boxes
<1>3. inbox' = [d \in Conn |-> IF d \in up /\ n \in Ends(d)
                              THEN [inbox[d] EXCEPT ![Other(d, n)] = Append(@, asked)]
                              ELSE inbox[d]]
  BY DEF find_longest_chain
<1> HIDE DEF asked
<1>4. ASSUME NEW d \in Conn
      PROVE  inbox'[d] = [m \in Node |-> IF (d \in up /\ n \in Ends(d)) /\ m = Other(d, n)
                                         THEN Append(inbox[d][m], asked) ELSE inbox[d][m]]
  <2>1. inbox'[d] = IF d \in up /\ n \in Ends(d)
                    THEN [inbox[d] EXCEPT ![Other(d, n)] = Append(inbox[d][Other(d, n)], asked)]
                    ELSE inbox[d]
    BY <1>3
  <2>2. inbox[d] = [m \in Node |-> inbox[d][m]]
    BY <1>2
  <2> QED BY <2>1, <2>2
<1>5. \A d \in Conn, m \in Node :
        inbox'[d][m] = IF (d \in up /\ n \in Ends(d)) /\ m = Other(d, n)
                       THEN Append(inbox[d][m], asked) ELSE inbox[d][m]
  BY <1>4
<1>6. \A d \in Conn : inbox'[d] = [m \in Node |-> inbox'[d][m]]
  BY <1>4
<1>7. inbox' = [d \in Conn |-> inbox'[d]]
  BY <1>3
<1>8. inbox' = [d \in Conn |-> [m \in Node |-> inbox'[d][m]]]
  BY <1>6, <1>7
<1>9. \A d, m : asked \in Heard(G, A, d, m)
  BY PlainMessages DEF asked
<1>10. \A d \in Conn, m \in Node : BoxStep(G, A, inbox, inbox', d, m)
  BY <1>5, <1>9 DEF BoxStep
<1>11. inbox' \in Boxes(G, A)
  BY <1>1, <1>8, <1>10, BoxesStep
<1> QED BY <1>1, <1>5, <1>11 DEF Telling, asked

LEMMA StartTells ==
  ASSUME Shape, NEW n \in Node, NEW load \in Load, start(n, load),
         NEW G, NEW A, Telling(G, A, known_peers, inbox)
  PROVE  /\ Telling(G, A, known_peers', inbox')
         /\ inbox' = inbox
         /\ known_peers' = known_peers \/ known_peers' = [known_peers EXCEPT ![n] = Nobody]
<1>1. inbox' = inbox /\ known_peers' \in {known_peers, [known_peers EXCEPT ![n] = Nobody]}
  BY DEF start, dir_vars
<1>2. Lists(G, Nobody)
  BY DEF Lists, Nobody
<1>3. known_peers \in [Node -> Directory]
  BY DEF Shape
<1>4. \A m \in Node : known_peers'[m] = known_peers[m] \/ known_peers'[m] = Nobody
  BY <1>1, <1>3
<1>5. \A m \in Node : Lists(G, known_peers'[m])
  BY <1>2, <1>4 DEF Telling
<1> QED BY <1>1, <1>5 DEF Telling

-----------------------------------------------------------------------------
(***************************************************************************)
(* The type invariant holds at first and is kept by every step.            *)
(***************************************************************************)
LEMMA InitShape == Init => Shape
<1>1. SUFFICES ASSUME Init PROVE Shape
  OBVIOUS
<1>2. Founder \in Node /\ \A n \in Node : <<Given[n]>> \in Named
  BY DirectoryAssumption DEF DirectoryAssumption, Named
<1>3. Nobody \in Directory /\ \A n \in Node : Nobody[n] = None
  BY DEF Nobody, Directory
<1>4. Empty \in Saved /\ [Empty EXCEPT !.node_id = 1] \in Saved
  BY <1>3 DEF Empty, Saved
<1>5. inbox \in Boxes(Pairs, Pairs)
  <2>1. \A c \in Conn, n \in Node : inbox[c][n] = << >>
    BY <1>1 DEF Init
  <2>2. \A S : << >> \in Seq(S)
    OBVIOUS
  <2>3. inbox = [c \in Conn |-> [n \in Node |-> << >>]]
    BY <1>1 DEF Init
  <2> QED BY <2>1, <2>2, <2>3 DEF Boxes
<1>6. disk \in [Node -> Saved]
  BY <1>1, <1>4 DEF Init
<1>7. /\ known_peers \in [Node -> Directory]
      /\ \A n \in Node : known_peers[n][n] = None /\ n \notin connecting[n]
  BY <1>1, <1>3 DEF Init
<1>8. count \in [ids : Nat, msgs : Nat, stops : Nat]
  BY <1>1 DEF Init
<1> QED BY <1>1, <1>2, <1>5, <1>6, <1>7, <1>8 DEF Init, Shape

LEMMA ShapeAnswers ==
  ASSUME Shape, NEW c \in Conn, NEW n \in Ends(c),
         \/ HandlePing(c, n) \/ HandleDetailsRequest(c, n) \/ HandleDetails(c, n)
         \/ HandleChainRequest(c, n) \/ HandleChain(c, n)
  PROVE  Shape'
<1>1. Telling(Pairs, Pairs, known_peers, inbox)
  BY ShapeTells
<1>2. inbox' \in Boxes(Pairs, Pairs)
  BY <1>1, AnswersTell DEF Telling
<1>3. \E type : Reads(c, n, type)
  BY DEF HandlePing, HandleDetailsRequest, HandleDetails, HandleChainRequest, HandleChain
<1>4. n \in Node
  BY ConnEnds
<1>5. HandleDetails(c, n) => Head(inbox[c][n]).admin \in {1, None}
  <2>1. SUFFICES ASSUME HandleDetails(c, n) PROVE Head(inbox[c][n]).admin \in {1, None}
    OBVIOUS
  <2>2. Reads(c, n, "network_details")
    BY <2>1 DEF HandleDetails
  <2>3. Head(inbox[c][n]) \in Heard(Pairs, Pairs, c, n) /\ Head(inbox[c][n]).type = "network_details"
    BY <1>1, <2>2, ReadsTold
  <2> QED BY <2>3 DEF Heard, Msg
<1>6. UNCHANGED <<status, name, node_id, known_peers, connecting, sampling, up,
                  have_sent_peer_info, count>>
  BY DEF HandlePing, HandleDetailsRequest, HandleDetails, HandleChainRequest, HandleChain,
         self_vars, dir_vars, conn_vars
<1>7. admin_id' = admin_id \/ \E a \in {1, None} : admin_id' = [admin_id EXCEPT ![n] = a]
  BY <1>5 DEF HandlePing, HandleDetailsRequest, HandleDetails, HandleChainRequest, HandleChain,
              net_vars
<1>8. has_chain' = has_chain \/ has_chain' = [has_chain EXCEPT ![n] = TRUE]
  BY DEF HandlePing, HandleDetailsRequest, HandleDetails, HandleChainRequest, HandleChain, net_vars
<1>9. disk' = disk \/ disk' = [disk EXCEPT ![n].chain = TRUE]
  BY DEF HandlePing, HandleDetailsRequest, HandleDetails, HandleChainRequest, HandleChain,
         save_chain
<1>10. disk' \in [Node -> Saved]
  <2> DEFINE file == [disk[n] EXCEPT !.chain = TRUE]
  <2>1. disk \in [Node -> Saved]
    BY DEF Shape
  <2>2. file \in Saved
    BY <1>4, <2>1 DEF Saved
  <2>3. [disk EXCEPT ![n].chain = TRUE] = [disk EXCEPT ![n] = file]
    BY <1>4, <2>1
  <2> HIDE DEF file
  <2> QED BY <1>4, <1>9, <2>1, <2>2, <2>3
<1>11. admin_id' \in [Node -> {1, None}]
  BY <1>4, <1>7 DEF Shape
<1>12. has_chain' \in [Node -> BOOLEAN] /\ has_chain'[Founder]
  <2>1. has_chain \in [Node -> BOOLEAN] /\ has_chain[Founder]
    BY DEF Shape
  <2>2. Founder \in Node
    BY DirectoryAssumption DEF DirectoryAssumption
  <2> QED BY <1>4, <1>8, <2>1, <2>2
<1> QED BY <1>2, <1>6, <1>10, <1>11, <1>12 DEF Shape

LEMMA ShapePong ==
  ASSUME Shape, NEW c \in Conn, NEW n \in Ends(c), HandlePong(c, n)
  PROVE  Shape'
<1>1. Telling(Pairs, Pairs, known_peers, inbox)
  BY ShapeTells
<1>2. n \in Node /\ status[n] = "up"
  BY ConnEnds DEF HandlePong, Reads
<1>3. <<n, node_id[n]>> \in Pairs
  BY <1>2 DEF Shape, Pairs
<1>4. inbox' \in Boxes(Pairs, Pairs)
  BY <1>1, <1>3, PongTells DEF Telling
<1>5. /\ UNCHANGED <<status, name, node_id, known_peers, has_chain, admin_id, connecting,
                     sampling, up, disk, count>>
      /\ have_sent_peer_info' \subseteq have_sent_peer_info \cup (up \cap {c})
  BY DEF HandlePong, self_vars, dir_vars, net_vars
<1> QED BY <1>4, <1>5 DEF Shape

LEMMA ShapeRegister ==
  ASSUME Shape, NEW n \in Node, NEW new \in Directory, register(n, new),
         inbox' \in Boxes(Pairs, Pairs), count' \in [ids : Nat, msgs : Nat, stops : Nat],
         UNCHANGED <<self_vars, net_vars, conn_vars>>
  PROVE  Shape'
<1>1. /\ known_peers' \in [Node -> Directory] /\ \A m \in Node : known_peers'[m][m] = None
      /\ disk' \in [Node -> Saved]
  BY RegisterStep
<1> QED BY <1>1 DEF Shape, self_vars, net_vars, conn_vars

LEMMA ShapePeerInfo ==
  ASSUME Shape, NEW c \in Conn, NEW n \in Ends(c), HandlePeerInfo(c, n)
  PROVE  Shape'
<1> DEFINE msg == Head(inbox[c][n])
<1>1. Telling(Pairs, Pairs, known_peers, inbox)
  BY ShapeTells
<1>2. Reads(c, n, "peer_info")
  BY DEF HandlePeerInfo
<1>3. /\ n \in Node /\ status[n] = "up"
      /\ msg \in Heard(Pairs, Pairs, c, n) /\ msg.type = "peer_info"
  BY <1>1, <1>2, ReadsTold
<1>4. <<n, node_id[n]>> \in Pairs
  BY <1>3 DEF Shape, Pairs
<1>5. inbox' \in Boxes(Pairs, Pairs)
  BY <1>1, <1>4, PeerInfoTells DEF Telling
<1>6. msg.at \in Node /\ msg.entry \in Record
  BY <1>3 DEF Heard, Msg
<1>7. register(n, [Nobody EXCEPT ![msg.at] = msg.entry])
  BY DEF HandlePeerInfo
<1>8. UNCHANGED <<self_vars, net_vars, conn_vars, count>>
  BY DEF HandlePeerInfo
<1> HIDE DEF msg
<1>9. [Nobody EXCEPT ![msg.at] = msg.entry] \in Directory
  BY <1>6, OneEntry
<1>10. count' \in [ids : Nat, msgs : Nat, stops : Nat]
  BY <1>8 DEF Shape
<1> QED BY <1>3, <1>5, <1>7, <1>8, <1>9, <1>10, ShapeRegister

LEMMA ShapeAddPeer ==
  ASSUME Shape, NEW c \in Conn, NEW n \in Ends(c), HandleAddPeer(c, n)
  PROVE  Shape'
<1> DEFINE at == Introduced(c, n).at
           new == [Nobody EXCEPT ![at] = Renamed(c, n)]
<1>1. Telling(Pairs, Pairs, known_peers, inbox)
  BY ShapeTells
<1>2. Reads(c, n, "add_peer") /\ UNCHANGED <<self_vars, net_vars, conn_vars>>
  BY AddPeerParts
<1>3. /\ n \in Node /\ status[n] = "up" /\ at \in Node /\ Renamed(c, n) \in Record
      /\ <<c[1], Introduced(c, n).entry.node_id>> \in Pairs
  BY <1>1, <1>2, AddPeerTypes
<1>4. <<n, node_id[n]>> \in Pairs
  BY <1>3 DEF Shape, Pairs
<1>5. inbox' \in Boxes(Pairs, Pairs)
  BY <1>1, <1>3, <1>4, AddPeerTells DEF Telling
<1>6. \/ UNCHANGED <<dir_vars, disk, count>>
      \/ register(n, new) /\ count' = [count EXCEPT !.msgs = count.msgs + 1]
  BY AddPeerParts
<1>7. new \in Directory
  BY <1>3, OneEntry
<1>8. count' \in [ids : Nat, msgs : Nat, stops : Nat]
  BY <1>6 DEF Shape
<1> HIDE DEF new
<1>9. CASE UNCHANGED <<dir_vars, disk, count>>
  BY <1>2, <1>5, <1>9 DEF Shape, self_vars, dir_vars, net_vars, conn_vars
<1>10. CASE register(n, new)
  BY <1>2, <1>3, <1>5, <1>7, <1>8, <1>10, ShapeRegister
<1> QED BY <1>6, <1>9, <1>10

LEMMA ShapeNewPeer ==
  ASSUME Shape, NEW c \in Conn, NEW n \in Ends(c), HandleNewPeer(c, n)
  PROVE  Shape'
<1> DEFINE msg == Head(inbox[c][n])
           new == [Nobody EXCEPT ![msg.at] = msg.entry]
<1>1. Telling(Pairs, Pairs, known_peers, inbox)
  BY ShapeTells
<1>2. Reads(c, n, "new_peer")
  BY DEF HandleNewPeer
<1>3. n \in Node /\ msg \in Heard(Pairs, Pairs, c, n) /\ msg.type = "new_peer"
  BY <1>1, <1>2, ReadsTold
<1>4. inbox' \in Boxes(Pairs, Pairs)
  BY <1>1, NewPeerTells DEF Telling
<1>5. msg.at \in Node /\ msg.entry \in Record
  BY <1>3 DEF Heard, Msg
<1>6. /\ register(n, new) \/ UNCHANGED <<dir_vars, disk>>
      /\ UNCHANGED <<self_vars, net_vars, conn_vars, count>>
  BY DEF HandleNewPeer
<1> HIDE DEF msg
<1>7. new \in Directory
  BY <1>5, OneEntry
<1>8. count' \in [ids : Nat, msgs : Nat, stops : Nat]
  BY <1>6 DEF Shape
<1> HIDE DEF new
<1>9. CASE UNCHANGED <<dir_vars, disk>>
  BY <1>4, <1>6, <1>9 DEF Shape, self_vars, dir_vars, net_vars, conn_vars
<1>10. CASE register(n, new)
  BY <1>3, <1>4, <1>6, <1>7, <1>8, <1>10, ShapeRegister
<1> QED BY <1>6, <1>9, <1>10

LEMMA ShapeKnownPeers ==
  ASSUME Shape, NEW c \in Conn, NEW n \in Ends(c), HandleKnownPeers(c, n)
  PROVE  Shape'
<1>1. Telling(Pairs, Pairs, known_peers, inbox)
  BY ShapeTells
<1>2. inbox' \in Boxes(Pairs, Pairs) /\ \E new \in Directory : register(n, new)
  BY <1>1, KnownPeersTells DEF Telling
<1>3. UNCHANGED <<self_vars, net_vars, conn_vars, count>>
  BY DEF HandleKnownPeers
<1>4. count' \in [ids : Nat, msgs : Nat, stops : Nat] /\ n \in Node
  BY <1>3, ConnEnds DEF Shape
<1> QED BY <1>2, <1>3, <1>4, ShapeRegister

LEMMA ShapeChangeName ==
  ASSUME Shape, NEW c \in Conn, NEW n \in Ends(c), HandleChangeName(c, n)
  PROVE  Shape'
<1>1. Telling(Pairs, Pairs, known_peers, inbox)
  BY ShapeTells
<1>2. /\ inbox' \in Boxes(Pairs, Pairs) /\ n # Founder /\ n \in Node
      /\ name' = name \/ \E nm \in Named : name' = [name EXCEPT ![n] = nm]
  BY <1>1, ChangeNameTells, ConnEnds DEF Telling
<1>3. name' \in [Node -> Named] /\ name'[Founder] = <<Given[Founder]>>
  BY <1>2, DirectoryAssumption DEF Shape, DirectoryAssumption
<1>4. /\ UNCHANGED <<status, node_id, known_peers, has_chain, admin_id, connecting, sampling,
                     disk, count>>
      /\ \/ UNCHANGED <<up, have_sent_peer_info>>
         \/ up' = up \ {c} /\ have_sent_peer_info' = have_sent_peer_info \ {c}
  BY DEF HandleChangeName, net_vars
<1> QED BY <1>2, <1>3, <1>4 DEF Shape

LEMMA ShapeConnect ==
  ASSUME Shape, NEW n \in Node, NEW e \in Node, connect_to_peer(n, e)
  PROVE  Shape'
<1>1. Telling(Pairs, Pairs, known_peers, inbox)
  BY ShapeTells
<1>2. status[n] = "up" /\ <<n, node_id[n]>> \in Pairs
  BY DEF connect_to_peer, Shape, Pairs
<1>3. /\ inbox' \in Boxes(Pairs, Pairs) /\ <<n, e>> \in Conn
      /\ up' = up \/ up' = up \cup {<<n, e>>}
  BY <1>1, <1>2, ConnectTells DEF Telling
<1>4. /\ UNCHANGED <<status, name, node_id, known_peers, has_chain, admin_id, sampling,
                     have_sent_peer_info, disk, count>>
      /\ connecting' = [connecting EXCEPT ![n] = @ \ {e}]
  BY DEF connect_to_peer, self_vars, dir_vars, net_vars
<1>5. connecting' \in [Node -> SUBSET Node] /\ \A m \in Node : m \notin connecting'[m]
  BY <1>4 DEF Shape
<1> QED BY <1>3, <1>4, <1>5 DEF Shape

LEMMA ShapeDial ==
  ASSUME Shape, NEW n \in Node, NEW e \in Node, discover_peers(n, e) \/ SamplerConnects(n, e)
  PROVE  Shape'
<1>1. e \in Knows(n)
  BY DEF discover_peers, SamplerConnects, potential_peers
<1>2. e # n
  BY <1>1 DEF Knows, Shape
<1>3. /\ UNCHANGED <<status, name, node_id, known_peers, has_chain, admin_id, up,
                     have_sent_peer_info, inbox, disk, count>>
      /\ sampling' \subseteq sampling
      /\ \/ connecting' = [connecting EXCEPT ![n] = {e}]
         \/ connecting' = [connecting EXCEPT ![n] = @ \cup {e}]
  BY DEF discover_peers, SamplerConnects, self_vars, dir_vars, net_vars
<1>4. connecting' \in [Node -> SUBSET Node] /\ \A m \in Node : m \notin connecting'[m]
  BY <1>2, <1>3 DEF Shape
<1> QED BY <1>3, <1>4 DEF Shape

LEMMA ShapeDrop ==
  ASSUME Shape, NEW n \in Node, SamplerDrops(n)
  PROVE  Shape'
<1>1. Telling(Pairs, Pairs, known_peers, inbox)
  BY ShapeTells
<1>2. /\ inbox' \in Boxes(Pairs, Pairs)
      /\ \E e : up' = up \ {<<n, e>>} /\ have_sent_peer_info' = have_sent_peer_info \ {<<n, e>>}
  BY <1>1, DropTells DEF Telling
<1>3. /\ UNCHANGED <<status, name, node_id, known_peers, has_chain, admin_id, connecting,
                     disk, count>>
      /\ sampling' = sampling \cup {n}
  BY DEF SamplerDrops, self_vars, dir_vars, net_vars
<1> QED BY <1>2, <1>3 DEF Shape

LEMMA ShapeFind ==
  ASSUME Shape, NEW n \in Node, find_longest_chain(n)
  PROVE  Shape'
<1>1. Telling(Pairs, Pairs, known_peers, inbox)
  BY ShapeTells
<1>2. inbox' \in Boxes(Pairs, Pairs)
  BY <1>1, FindTells DEF Telling
<1>3. UNCHANGED <<status, name, node_id, known_peers, has_chain, admin_id, connecting, sampling,
                  up, have_sent_peer_info, disk, count>>
  BY DEF find_longest_chain, self_vars, dir_vars, net_vars, conn_vars
<1> QED BY <1>2, <1>3 DEF Shape

LEMMA ShapeStop ==
  ASSUME Shape, NEW n \in Node, Stop(n)
  PROVE  Shape'
<1>1. Telling(Pairs, Pairs, known_peers, inbox)
  BY ShapeTells
<1>2. inbox' \in Boxes(Pairs, Pairs)
  BY <1>1, StopTells DEF Telling
<1>3. /\ UNCHANGED <<name, node_id, known_peers, has_chain, admin_id, disk>>
      /\ status' = [status EXCEPT ![n] = "off"]
      /\ count' = [count EXCEPT !.stops = count.stops + 1]
      /\ connecting' = [connecting EXCEPT ![n] = {}]
      /\ up' = up \ Closed(n) /\ have_sent_peer_info' = have_sent_peer_info \ Closed(n)
      /\ sampling' = sampling \ {n}
  BY DEF Stop, dir_vars, net_vars
<1>4. connecting' \in [Node -> SUBSET Node] /\ \A m \in Node : m \notin connecting'[m]
  BY <1>3 DEF Shape
<1>5. count' \in [ids : Nat, msgs : Nat, stops : Nat]
  BY <1>3 DEF Shape
<1>6. /\ status' \in [Node -> {"off", "up", "raised"}]
      /\ \A m \in Node : status'[m] = "up" => status[m] = "up"
  BY <1>3 DEF Shape
<1> QED BY <1>2, <1>3, <1>4, <1>5, <1>6 DEF Shape

\* The identity that a start gives its peer.
StartId(n, load) ==
  IF load_node_id_from_disk(n, load) # None THEN load_node_id_from_disk(n, load)
  ELSE count.ids + 1

LEMMA StartParts ==
  ASSUME NEW n, NEW load, start(n, load)
  PROVE  /\ n # Founder /\ status[n] # "up"
         /\ UNCHANGED <<sampling, up, have_sent_peer_info, inbox>>
         /\ \/ /\ LoadRaises(n, load) /\ status' = [status EXCEPT ![n] = "raised"]
               /\ UNCHANGED <<name, node_id, dir_vars, net_vars, seen, connecting, disk, count>>
            \/ /\ ~ LoadRaises(n, load) /\ status' = [status EXCEPT ![n] = "up"]
               /\ name' = [name EXCEPT ![n] = <<Given[n]>>]
               /\ node_id' = [node_id EXCEPT ![n] = StartId(n, load)]
               /\ known_peers' = [known_peers EXCEPT ![n] = Nobody]
               /\ has_chain' = [has_chain EXCEPT ![n] = load /\ load_chain(n)]
               /\ admin_id' = [admin_id EXCEPT ![n] = None]
               /\ connecting' = [connecting EXCEPT ![n] = {Founder}]
               /\ disk' = IF n \in Saver THEN [disk EXCEPT ![n].node_id = StartId(n, load)]
                          ELSE disk
               /\ count' = IF load_node_id_from_disk(n, load) # None THEN count
                           ELSE [count EXCEPT !.ids = count.ids + 1]
<1>1. CASE LoadRaises(n, load)
  BY <1>1 DEF start
<1>2. CASE ~ LoadRaises(n, load)
  BY <1>2 DEF start, StartId, save_node_id
<1> QED BY <1>1, <1>2

LEMMA StartFile ==
  ASSUME Shape, NEW n \in Node, NEW id \in Nat
  PROVE  LET files == [disk EXCEPT ![n].node_id = id] IN
         /\ files \in [Node -> Saved]
         /\ files[n].node_id = id /\ files[n].peers = disk[n].peers
         /\ files[n].chain = disk[n].chain
         /\ \A m \in Node \ {n} : files[m] = disk[m]
<1> DEFINE file == [disk[n] EXCEPT !.node_id = id]
<1>1. disk \in [Node -> Saved]
  BY DEF Shape
<1>2. /\ file \in Saved /\ file.node_id = id
      /\ file.peers = disk[n].peers /\ file.chain = disk[n].chain
  BY <1>1 DEF Saved
<1>3. [disk EXCEPT ![n].node_id = id] = [disk EXCEPT ![n] = file]
  BY <1>1
<1> HIDE DEF file
<1> QED BY <1>1, <1>2, <1>3

LEMMA ShapeStart ==
  ASSUME Shape, NEW n \in Node, NEW load \in Load, start(n, load)
  PROVE  /\ Shape'
         /\ count'.ids >= count.ids
         /\ known_peers' # known_peers => node_id'[n] \in Nat
         /\ StartId(n, load) \in Nat
<1>1. n # Founder /\ status[n] # "up" /\ UNCHANGED <<sampling, up, have_sent_peer_info, inbox>>
  BY StartParts
<1>2. StartId(n, load) \in Nat /\ count.ids \in Nat /\ count.ids + 1 \in Nat
  <2>1. disk[n].node_id \in Nat \cup {None} /\ count.ids \in Nat
    BY DEF Shape, Saved
  <2> QED BY <2>1 DEF StartId, load_node_id_from_disk, load_node_id
<1>3. Founder \in Node /\ Load \subseteq BOOLEAN /\ <<Given[n]>> \in Named
  BY DirectoryAssumption DEF DirectoryAssumption, Named
<1>4. CASE /\ LoadRaises(n, load) /\ status' = [status EXCEPT ![n] = "raised"]
           /\ UNCHANGED <<name, node_id, dir_vars, net_vars, seen, connecting, disk, count>>
  <2>1. /\ status' \in [Node -> {"off", "up", "raised"}]
        /\ \A m \in Node : status'[m] = "up" => status[m] = "up"
    BY <1>4 DEF Shape
  <2>2. Shape'
    BY <1>1, <1>4, <2>1 DEF Shape, dir_vars, net_vars
  <2> QED BY <1>2, <1>4, <2>2 DEF dir_vars
<1>5. CASE /\ ~ LoadRaises(n, load) /\ status' = [status EXCEPT ![n] = "up"]
           /\ name' = [name EXCEPT ![n] = <<Given[n]>>]
           /\ node_id' = [node_id EXCEPT ![n] = StartId(n, load)]
           /\ known_peers' = [known_peers EXCEPT ![n] = Nobody]
           /\ has_chain' = [has_chain EXCEPT ![n] = load /\ load_chain(n)]
           /\ admin_id' = [admin_id EXCEPT ![n] = None]
           /\ connecting' = [connecting EXCEPT ![n] = {Founder}]
           /\ disk' = IF n \in Saver THEN [disk EXCEPT ![n].node_id = StartId(n, load)]
                      ELSE disk
           /\ count' = IF load_node_id_from_disk(n, load) # None THEN count
                       ELSE [count EXCEPT !.ids = count.ids + 1]
  <2>1. /\ node_id' \in [Node -> Nat \cup {None}] /\ node_id'[n] \in Nat
        /\ status' \in [Node -> {"off", "up", "raised"}]
        /\ \A m \in Node : status'[m] = "up" => node_id'[m] \in Nat
    BY <1>2, <1>5 DEF Shape
  <2>2. known_peers' \in [Node -> Directory] /\ \A m \in Node : known_peers'[m][m] = None
    <3>1. Nobody \in Directory /\ Nobody[n] = None
      BY DEF Nobody, Directory
    <3> QED BY <1>5, <3>1 DEF Shape
  <2>3. connecting' \in [Node -> SUBSET Node] /\ \A m \in Node : m \notin connecting'[m]
    BY <1>1, <1>3, <1>5 DEF Shape
  <2>4. /\ has_chain' \in [Node -> BOOLEAN] /\ has_chain'[Founder]
        /\ admin_id' \in [Node -> {1, None}]
        /\ name' \in [Node -> Named] /\ name'[Founder] = <<Given[Founder]>>
    <3>1. load \in BOOLEAN /\ load_chain(n) \in BOOLEAN
      BY <1>3 DEF load_chain, Shape, Saved
    <3> QED BY <1>1, <1>3, <1>5, <3>1 DEF Shape
  <2>5. disk' \in [Node -> Saved]
    BY <1>2, <1>5, StartFile DEF Shape
  <2>6. count' \in [ids : Nat, msgs : Nat, stops : Nat] /\ count'.ids >= count.ids
    BY <1>2, <1>5 DEF Shape
  <2>7. Shape'
    BY <1>1, <2>1, <2>2, <2>3, <2>4, <2>5, <2>6 DEF Shape
  <2> QED BY <1>2, <2>1, <2>6, <2>7
<1> QED BY <1>4, <1>5, StartParts

\* What Next allows, one peer or one message at a time.
LEMMA NextCases ==
  ASSUME Next
  PROVE  \/ \E n \in Node, load \in Load : start(n, load)
         \/ \E n \in Node : Stop(n)
         \/ \E n \in Node : SamplerDrops(n)
         \/ \E n \in Node : find_longest_chain(n)
         \/ \E n, e \in Node : connect_to_peer(n, e)
         \/ \E n, e \in Node : discover_peers(n, e) \/ SamplerConnects(n, e)
         \/ \E c \in Conn : \E n \in Ends(c) :
              \/ HandlePing(c, n) \/ HandleDetailsRequest(c, n) \/ HandleDetails(c, n)
              \/ HandleChainRequest(c, n) \/ HandleChain(c, n)
         \/ \E c \in Conn : \E n \in Ends(c) : HandlePong(c, n)
         \/ \E c \in Conn : \E n \in Ends(c) : HandlePeerInfo(c, n)
         \/ \E c \in Conn : \E n \in Ends(c) : HandleAddPeer(c, n)
         \/ \E c \in Conn : \E n \in Ends(c) : HandleNewPeer(c, n)
         \/ \E c \in Conn : \E n \in Ends(c) : HandleChangeName(c, n)
         \/ \E c \in Conn : \E n \in Ends(c) : HandleKnownPeers(c, n)
BY Zenon DEF Next, HandleMessage

LEMMA ShapeStep == Shape /\ [Next]_vars => Shape'
<1>1. SUFFICES ASSUME Shape, [Next]_vars PROVE Shape'
  OBVIOUS
<1>2. CASE UNCHANGED vars
  BY <1>1, <1>2 DEF Shape, vars, self_vars, dir_vars, net_vars, conn_vars
<1>3. CASE Next
  BY <1>1, <1>3, NextCases, ShapeStart, ShapeStop, ShapeDrop, ShapeFind, ShapeConnect, ShapeDial,
     ShapeAnswers, ShapePong, ShapePeerInfo, ShapeAddPeer, ShapeNewPeer, ShapeChangeName,
     ShapeKnownPeers, Zenon
<1> QED BY <1>1, <1>2, <1>3

(***************************************************************************)
(* With G the endpoints under their identities, peers tell only of G.      *)
(***************************************************************************)
LEMMA TellingStep ==
  ASSUME Shape, Next, NEW G, Telling(G, G, known_peers, inbox),
         \A n \in Node : status[n] = "up" => <<n, node_id[n]>> \in G
  PROVE  Telling(G, G, known_peers', inbox')
<1>1. ASSUME NEW c \in Conn, NEW n \in Ends(c), NEW type, Reads(c, n, type)
      PROVE  <<n, node_id[n]>> \in G
  BY <1>1, ConnEnds DEF Reads
<1>2. ASSUME NEW c \in Conn, NEW n \in Ends(c), HandlePong(c, n) \/ HandlePeerInfo(c, n)
      PROVE  Telling(G, G, known_peers', inbox')
  <2>1. \E type : Reads(c, n, type)
    BY <1>2 DEF HandlePong, HandlePeerInfo
  <2>2. <<n, node_id[n]>> \in G
    BY <1>1, <2>1
  <2> QED BY <1>2, <2>2, PongTells, PeerInfoTells
<1>3. ASSUME NEW c \in Conn, NEW n \in Ends(c), HandleAddPeer(c, n)
      PROVE  Telling(G, G, known_peers', inbox')
  <2>1. Reads(c, n, "add_peer")
    BY <1>3, AddPeerParts
  <2>2. <<n, node_id[n]>> \in G
    BY <1>1, <2>1
  <2>3. <<c[1], Introduced(c, n).entry.node_id>> \in G
    BY <2>1, AddPeerTypes
  <2> QED BY <1>3, <2>2, <2>3, AddPeerTells
<1>4. ASSUME NEW n \in Node, NEW e \in Node, connect_to_peer(n, e)
      PROVE  Telling(G, G, known_peers', inbox')
  <2>1. <<n, node_id[n]>> \in G
    BY <1>4 DEF connect_to_peer
  <2> QED BY <1>4, <2>1, ConnectTells
<1>5. ASSUME NEW n \in Node, NEW e \in Node, discover_peers(n, e) \/ SamplerConnects(n, e)
      PROVE  Telling(G, G, known_peers', inbox')
  <2>1. known_peers' = known_peers /\ inbox' = inbox
    BY <1>5 DEF discover_peers, SamplerConnects, dir_vars
  <2> QED BY <2>1
<1> QED
  BY <1>2, <1>3, <1>4, <1>5, NextCases, StartTells, StopTells, DropTells, FindTells, AnswersTell,
     NewPeerTells, ChangeNameTells, KnownPeersTells, Zenon

-----------------------------------------------------------------------------
(***************************************************************************)
(* TypeOK: every identity anywhere has been given out.                     *)
(***************************************************************************)
Given_out == Node \X (1..count.ids)

TypeInv ==
  /\ Shape
  /\ Telling(Given_out, Given_out, known_peers, inbox)
  /\ \A n \in Node : /\ node_id[n] \in (1..count.ids) \cup {None}
                    /\ disk[n].node_id \in (1..count.ids) \cup {None}

\* A step that is not a start leaves the identities alone.
LEMMA IdentityKept ==
  ASSUME Shape, Next, ~ \E n \in Node, load \in Load : start(n, load)
  PROVE  /\ node_id' = node_id /\ count'.ids = count.ids
         /\ \A m \in Node : disk'[m].node_id = disk[m].node_id
         /\ \A m \in Node : status'[m] = status[m] \/ status'[m] = "off"
<1>1. disk \in [Node -> Saved] /\ count \in [ids : Nat, msgs : Nat, stops : Nat]
  BY DEF Shape
<1>2. ASSUME NEW n \in Node, NEW new \in Directory, register(n, new)
      PROVE  \A m \in Node : disk'[m].node_id = disk[m].node_id
  BY <1>2, RegisterStep
<1>3. ASSUME NEW c \in Conn, NEW n \in Ends(c),
             \/ HandlePing(c, n) \/ HandleDetailsRequest(c, n) \/ HandleDetails(c, n)
             \/ HandleChainRequest(c, n) \/ HandleChain(c, n)
      PROVE  UNCHANGED <<self_vars, count>> /\ \A m \in Node : disk'[m].node_id = disk[m].node_id
  <2>1. UNCHANGED <<self_vars, count>> /\ (disk' = disk \/ disk' = [disk EXCEPT ![n].chain = TRUE])
    BY <1>3 DEF HandlePing, HandleDetailsRequest, HandleDetails, HandleChainRequest, HandleChain,
                save_chain
  <2>2. n \in Node
    BY ConnEnds
  <2> DEFINE file == [disk[n] EXCEPT !.chain = TRUE]
  <2>3. [disk EXCEPT ![n].chain = TRUE] = [disk EXCEPT ![n] = file]
    BY <1>1, <2>2
  <2>4. file.node_id = disk[n].node_id
    BY <1>1, <2>2 DEF Saved
  <2> HIDE DEF file
  <2> QED BY <1>1, <2>1, <2>2, <2>3, <2>4
<1>4. Telling(Pairs, Pairs, known_peers, inbox)
  BY ShapeTells
<1>5. ASSUME NEW c \in Conn, NEW n \in Ends(c), HandlePeerInfo(c, n)
      PROVE  UNCHANGED <<self_vars, count>> /\ \A m \in Node : disk'[m].node_id = disk[m].node_id
  <2> DEFINE msg == Head(inbox[c][n])
  <2>1. Reads(c, n, "peer_info")
    BY <1>5 DEF HandlePeerInfo
  <2>2. n \in Node /\ msg \in Heard(Pairs, Pairs, c, n) /\ msg.type = "peer_info"
    BY <1>4, <2>1, ReadsTold
  <2>3. msg.at \in Node /\ msg.entry \in Record
    BY <2>2 DEF Heard, Msg
  <2>4. register(n, [Nobody EXCEPT ![msg.at] = msg.entry]) /\ UNCHANGED <<self_vars, count>>
    BY <1>5 DEF HandlePeerInfo
  <2> HIDE DEF msg
  <2> QED BY <1>2, <2>2, <2>3, <2>4, OneEntry
<1>6. ASSUME NEW c \in Conn, NEW n \in Ends(c), HandleAddPeer(c, n)
      PROVE  /\ UNCHANGED self_vars /\ count'.ids = count.ids
             /\ \A m \in Node : disk'[m].node_id = disk[m].node_id
  <2> DEFINE new == [Nobody EXCEPT ![Introduced(c, n).at] = Renamed(c, n)]
  <2>1. Reads(c, n, "add_peer") /\ UNCHANGED self_vars
    BY <1>6, AddPeerParts
  <2>2. n \in Node /\ Introduced(c, n).at \in Node /\ Renamed(c, n) \in Record
    BY <1>4, <2>1, AddPeerTypes
  <2>3. new \in Directory
    BY <2>2, OneEntry
  <2>4. \/ UNCHANGED <<disk, count>>
        \/ register(n, new) /\ count' = [count EXCEPT !.msgs = count.msgs + 1]
    BY <1>6, AddPeerParts
  <2> HIDE DEF new
  <2> QED BY <1>1, <1>2, <2>1, <2>2, <2>3, <2>4
<1>7. ASSUME NEW c \in Conn, NEW n \in Ends(c), HandleNewPeer(c, n)
      PROVE  UNCHANGED <<self_vars, count>> /\ \A m \in Node : disk'[m].node_id = disk[m].node_id
  <2> DEFINE msg == Head(inbox[c][n])
             new == [Nobody EXCEPT ![msg.at] = msg.entry]
  <2>1. Reads(c, n, "new_peer")
    BY <1>7 DEF HandleNewPeer
  <2>2. n \in Node /\ msg \in Heard(Pairs, Pairs, c, n) /\ msg.type = "new_peer"
    BY <1>4, <2>1, ReadsTold
  <2>3. msg.at \in Node /\ msg.entry \in Record
    BY <2>2 DEF Heard, Msg
  <2>4. (register(n, new) \/ UNCHANGED disk) /\ UNCHANGED <<self_vars, count>>
    BY <1>7 DEF HandleNewPeer
  <2> HIDE DEF msg
  <2>5. new \in Directory
    BY <2>3, OneEntry
  <2> HIDE DEF new
  <2> QED BY <1>2, <2>2, <2>4, <2>5
<1>8. ASSUME NEW c \in Conn, NEW n \in Ends(c), HandleKnownPeers(c, n)
      PROVE  UNCHANGED <<self_vars, count>> /\ \A m \in Node : disk'[m].node_id = disk[m].node_id
  <2>1. \E new \in Directory : register(n, new)
    BY <1>4, <1>8, KnownPeersTells
  <2>2. n \in Node /\ UNCHANGED <<self_vars, count>>
    BY <1>8, ConnEnds DEF HandleKnownPeers
  <2> QED BY <1>2, <2>1, <2>2
<1>9. ASSUME NEW c \in Conn, NEW n \in Ends(c), HandlePong(c, n) \/ HandleChangeName(c, n)
      PROVE  UNCHANGED <<status, node_id, disk, count>>
  BY <1>9 DEF HandlePong, HandleChangeName, self_vars
<1>10. ASSUME NEW n \in Node, NEW e \in Node,
              \/ connect_to_peer(n, e) \/ discover_peers(n, e) \/ SamplerConnects(n, e)
              \/ SamplerDrops(n) \/ find_longest_chain(n)
       PROVE  UNCHANGED <<status, node_id, disk, count>>
  BY <1>10 DEF connect_to_peer, discover_peers, SamplerConnects, SamplerDrops, find_longest_chain,
               self_vars
<1>11. ASSUME NEW n \in Node, Stop(n)
       PROVE  /\ UNCHANGED <<node_id, disk>> /\ count'.ids = count.ids
              /\ status' = [status EXCEPT ![n] = "off"]
  BY <1>1, <1>11 DEF Stop
<1> DEFINE Kept == /\ node_id' = node_id /\ count'.ids = count.ids
                   /\ \A m \in Node : disk'[m].node_id = disk[m].node_id
                   /\ \A m \in Node : status'[m] = status[m] \/ status'[m] = "off"
<1>12. UNCHANGED <<self_vars, count>> /\ (\A m \in Node : disk'[m].node_id = disk[m].node_id) => Kept
  BY DEF self_vars
<1>13. UNCHANGED <<status, node_id, disk, count>> => Kept
  OBVIOUS
<1>14. ASSUME NEW n \in Node, Stop(n) PROVE Kept
  <2>1. status' = [status EXCEPT ![n] = "off"] /\ status \in [Node -> {"off", "up", "raised"}]
    BY <1>11, <1>14 DEF Shape
  <2> QED BY <1>11, <1>14, <2>1
<1>15. ASSUME NEW c \in Conn, NEW n \in Ends(c), HandleAddPeer(c, n) PROVE Kept
  BY <1>6, <1>15 DEF self_vars
<1> HIDE DEF Kept
<1>16. Kept
  BY <1>3, <1>5, <1>7, <1>8, <1>9, <1>10, <1>12, <1>13, <1>14, <1>15, NextCases, Zenon
<1> QED BY <1>16 DEF Kept

LEMMA TypeInvStep == TypeInv /\ [Next]_vars => TypeInv'
<1>1. SUFFICES ASSUME TypeInv, [Next]_vars PROVE TypeInv'
  OBVIOUS
<1>2. Shape /\ Shape'
  BY <1>1, ShapeStep DEF TypeInv
<1>3. CASE UNCHANGED vars
  BY <1>1, <1>2, <1>3
     DEF TypeInv, Given_out, vars, self_vars, dir_vars, net_vars, conn_vars
<1>4. CASE Next
  <2> DEFINE G == Given_out
             G2 == Node \X (1..count'.ids)
             I == (1..count.ids) \cup {None}
             I2 == (1..count'.ids) \cup {None}
  <2>1. \A n \in Node : status[n] = "up" => <<n, node_id[n]>> \in G
    <3>1. ASSUME NEW n \in Node, status[n] = "up" PROVE <<n, node_id[n]>> \in G
      <4>1. node_id[n] \in Nat /\ None \notin Nat
        BY <1>2, <3>1, DirectoryAssumption DEF Shape, DirectoryAssumption
      <4>2. node_id[n] \in 1..count.ids
        BY <1>1, <4>1 DEF TypeInv
      <4> QED BY <4>2 DEF Given_out
    <3> QED BY <3>1
  <2>2. Telling(G, G, known_peers', inbox')
    <3>1. Telling(G, G, known_peers, inbox)
      BY <1>1 DEF TypeInv
    <3> HIDE DEF G
    <3> QED BY <1>2, <1>4, <2>1, <3>1, TellingStep
  <2>3. /\ count'.ids \in Nat /\ count.ids \in Nat /\ count'.ids >= count.ids
        /\ \A n \in Node : node_id'[n] \in I2 /\ disk'[n].node_id \in I2
    <3>1. count'.ids \in Nat /\ count.ids \in Nat
      BY <1>2 DEF Shape
    <3>2. \A n \in Node : node_id[n] \in I /\ disk[n].node_id \in I
      BY <1>1 DEF TypeInv
    <3>3. CASE ~ \E n \in Node, load \in Load : start(n, load)
      BY <1>2, <1>4, <3>1, <3>2, <3>3, IdentityKept
    <3>4. CASE \E n \in Node, load \in Load : start(n, load)
      <4>1. PICK n \in Node, load \in Load : start(n, load)
        BY <3>4
      <4>2. count'.ids >= count.ids /\ StartId(n, load) \in Nat
        BY <1>2, <4>1, ShapeStart
      <4>3. I \subseteq I2
        BY <3>1, <4>2
      <4>4. CASE UNCHANGED <<node_id, disk>>
        BY <3>1, <3>2, <4>2, <4>3, <4>4
      <4>5. CASE /\ node_id' = [node_id EXCEPT ![n] = StartId(n, load)]
                 /\ disk' = IF n \in Saver THEN [disk EXCEPT ![n].node_id = StartId(n, load)]
                            ELSE disk
                 /\ count' = IF load_node_id_from_disk(n, load) # None THEN count
                             ELSE [count EXCEPT !.ids = count.ids + 1]
        <5>1. StartId(n, load) \in 1..count'.ids
          <6>1. CASE load_node_id_from_disk(n, load) # None
            <7>1. StartId(n, load) = disk[n].node_id /\ count' = count
              BY <4>5, <6>1 DEF StartId, load_node_id_from_disk, load_node_id
            <7>2. StartId(n, load) # None
              BY <4>2, DirectoryAssumption DEF DirectoryAssumption
            <7> QED BY <3>2, <7>1, <7>2
          <6>2. CASE load_node_id_from_disk(n, load) = None
            <7>1. StartId(n, load) = count.ids + 1 /\ count'.ids = count.ids + 1
              BY <1>2, <4>5, <6>2 DEF StartId, Shape
            <7> QED BY <3>1, <7>1
          <6> QED BY <6>1, <6>2
        <5>2. \A m \in Node : node_id'[m] = node_id[m] \/ node_id'[m] = StartId(n, load)
          BY <1>2, <4>5 DEF Shape
        <5>3. \A m \in Node : disk'[m].node_id \in {disk[m].node_id, StartId(n, load)}
          BY <1>2, <4>2, <4>5, StartFile
        <5> HIDE DEF I, I2
        <5>4. StartId(n, load) \in I2
          BY <5>1 DEF I2
        <5> QED BY <3>1, <3>2, <4>2, <4>3, <5>2, <5>3, <5>4
      <4> QED BY <4>1, <4>4, <4>5, StartParts
    <3> QED BY <3>3, <3>4
  <2>4. G \subseteq G2
    BY <2>3 DEF Given_out
  <2>5. Telling(G2, G2, known_peers', inbox')
    <3> HIDE DEF G, G2
    <3> QED BY <2>2, <2>4, TellingGrows
  <2> QED BY <1>2, <2>3, <2>5 DEF TypeInv, Given_out
<1> QED BY <1>1, <1>3, <1>4

(***************************************************************************)
(* The variables hold what their comments say, and no peer lists itself:   *)
(* every identity in a directory is one that some start gave out.          *)
(***************************************************************************)
THEOREM DirectoryTypeOK == Spec => []TypeOK
<1>1. Init => TypeInv
  <2>1. SUFFICES ASSUME Init PROVE TypeInv
    OBVIOUS
  <2>2. Shape
    BY <2>1, InitShape
  <2>3. inbox \in Boxes(Given_out, Given_out)
    <3>1. \A c \in Conn, n \in Node : inbox[c][n] = << >>
      BY <2>1 DEF Init
    <3>2. \A S : << >> \in Seq(S)
      OBVIOUS
    <3>3. inbox = [c \in Conn |-> [n \in Node |-> << >>]]
      BY <2>1 DEF Init
    <3> QED BY <3>1, <3>2, <3>3 DEF Boxes
  <2>4. \A n \in Node : known_peers[n] = Nobody
    BY <2>1 DEF Init
  <2>5. \A n \in Node : Lists(Given_out, known_peers[n])
    BY <2>4 DEF Lists, Nobody
  <2>6. \A n \in Node : node_id[n] \in (1..count.ids) \cup {None}
    BY <2>1 DEF Init
  <2>7. \A n \in Node : disk[n].node_id \in {1, None} /\ 1 \in 1..count.ids
    BY <2>1 DEF Init, Empty
  <2> QED BY <2>2, <2>3, <2>5, <2>6, <2>7 DEF TypeInv, Telling
<1>2. TypeInv => TypeOK
  <2>1. SUFFICES ASSUME TypeInv PROVE TypeOK
    OBVIOUS
  <2>2. \A n \in Node : \A m \in Knows(n) : known_peers[n][m].node_id \in 1..count.ids
    BY <2>1 DEF TypeInv, Telling, Lists, Given_out, Knows
  <2>3. Shape /\ \A n \in Node : node_id[n] \in (1..count.ids) \cup {None}
    BY <2>1 DEF TypeInv
  <2> QED BY <2>2, <2>3 DEF TypeOK, Shape, Knows
<1> QED BY <1>1, <1>2, TypeInvStep, PTL DEF Spec

-----------------------------------------------------------------------------
(***************************************************************************)
(* EntriesCurrent, where whoever may stop has its identity saved and loads *)
(* it: an identity that was once given to an endpoint is not replaced.     *)
(***************************************************************************)
SavedIdentities == Fragile \subseteq Saver /\ Load \subseteq {TRUE}

Current == {p \in Pairs : node_id[p[1]] = p[2]}

CurrentInv ==
  /\ Shape
  /\ Telling(Current, Current, known_peers, inbox)
  /\ \A n \in Node : n \in Saver => disk[n].node_id = node_id[n]
  /\ \A n \in Node : n \notin Saver /\ n # Founder /\ status[n] # "up" => node_id[n] = None

LEMMA IdentityStays ==
  ASSUME SavedIdentities, CurrentInv, Next
  PROVE  /\ \A n \in Node : node_id'[n] = node_id[n] \/ (node_id[n] = None /\ node_id'[n] \in Nat)
         /\ \A n \in Node : n \in Saver => disk'[n].node_id = node_id'[n]
         /\ \A n \in Node : n \notin Saver /\ n # Founder /\ status'[n] # "up" => node_id'[n] = None
<1>1. Shape /\ Shape'
  BY ShapeStep DEF CurrentInv
<1>2. CASE \E n \in Node, load \in Load : start(n, load)
  <2>1. PICK n \in Node, load \in Load : start(n, load)
    BY <1>2
  <2>2. load = TRUE /\ n # Founder /\ status[n] # "up"
    BY <2>1, StartParts DEF SavedIdentities
  <2>3. StartId(n, load) \in Nat /\ None \notin Nat
    BY <1>1, <2>1, ShapeStart, DirectoryAssumption DEF DirectoryAssumption
  <2>4. CASE UNCHANGED <<node_id, disk>> /\ status' = [status EXCEPT ![n] = "raised"]
    <3>1. \A m \in Node : status'[m] # "up" => status[m] # "up"
      BY <1>1, <2>2, <2>4 DEF Shape
    <3> QED BY <2>4, <3>1 DEF CurrentInv
  <2>5. CASE /\ status' = [status EXCEPT ![n] = "up"]
             /\ node_id' = [node_id EXCEPT ![n] = StartId(n, load)]
             /\ disk' = IF n \in Saver THEN [disk EXCEPT ![n].node_id = StartId(n, load)] ELSE disk
    <3>1. /\ node_id'[n] = StartId(n, load)
          /\ \A m \in Node \ {n} : node_id'[m] = node_id[m] /\ status'[m] = status[m]
          /\ status'[n] = "up"
      BY <1>1, <2>5 DEF Shape
    <3>2. \A m \in Node \ {n} : disk'[m].node_id = disk[m].node_id
      BY <1>1, <2>3, <2>5, StartFile
    <3>3. n \in Saver => disk'[n].node_id = StartId(n, load)
      BY <1>1, <2>3, <2>5, StartFile
    <3>4. node_id[n] = None \/ StartId(n, load) = node_id[n]
      <4>1. CASE n \in Saver
        <5>1. disk[n].node_id = node_id[n]
          BY <4>1 DEF CurrentInv
        <5>2. load_node_id_from_disk(n, load) = node_id[n]
          BY <2>2, <5>1 DEF load_node_id_from_disk, load_node_id
        <5> QED BY <5>2 DEF StartId
      <4>2. CASE n \notin Saver
        BY <2>2, <4>2 DEF CurrentInv
      <4> QED BY <4>1, <4>2
    <3>5. \A m \in Node : m \in Saver => disk[m].node_id = node_id[m]
      BY DEF CurrentInv
    <3>6. \A m \in Node : m \notin Saver /\ m # Founder /\ status[m] # "up" => node_id[m] = None
      BY DEF CurrentInv
    <3> QED BY <2>3, <3>1, <3>2, <3>3, <3>4, <3>5, <3>6
  <2> QED BY <2>1, <2>4, <2>5, StartParts
<1>3. CASE ~ \E n \in Node, load \in Load : start(n, load)
  <2>1. /\ node_id' = node_id /\ \A m \in Node : disk'[m].node_id = disk[m].node_id
        /\ \A m \in Node : status'[m] = status[m] \/ status'[m] = "off"
    BY <1>1, <1>3, IdentityKept
  <2>2. ASSUME NEW m \in Node, m \notin Saver PROVE status'[m] # "up" => status[m] # "up"
    <3>1. CASE \E n \in Node : Stop(n)
      <4>1. PICK n \in Node : Stop(n)
        BY <3>1
      <4>2. n # m /\ status' = [status EXCEPT ![n] = "off"]
        BY <2>2, <4>1 DEF Stop, SavedIdentities
      <4> QED BY <1>1, <4>2 DEF Shape
    <3>2. CASE ~ \E n \in Node : Stop(n)
      <4>1. UNCHANGED status
        BY <1>3, <3>2, NextCases, AddPeerParts, Zenon
           DEF HandlePing, HandleDetailsRequest, HandleDetails, HandleChainRequest, HandleChain,
               HandlePong, HandlePeerInfo, HandleNewPeer, HandleChangeName, HandleKnownPeers,
               connect_to_peer, discover_peers, SamplerConnects, SamplerDrops, find_longest_chain,
               self_vars
      <4> QED BY <4>1
    <3> QED BY <3>1, <3>2
  <2> QED BY <2>1, <2>2 DEF CurrentInv
<1> QED BY <1>2, <1>3

LEMMA CurrentInvStep ==
  ASSUME SavedIdentities
  PROVE  CurrentInv /\ [Next]_vars => CurrentInv'
<1>1. SUFFICES ASSUME CurrentInv, [Next]_vars PROVE CurrentInv'
  OBVIOUS
<1>2. Shape /\ Shape'
  BY <1>1, ShapeStep DEF CurrentInv
<1>3. CASE UNCHANGED vars
  BY <1>1, <1>2, <1>3
     DEF CurrentInv, Current, vars, self_vars, dir_vars, net_vars, conn_vars
<1>4. CASE Next
  <2> DEFINE G == Current
             G2 == {p \in Pairs : node_id'[p[1]] = p[2]}
  <2>1. \A n \in Node : status[n] = "up" => <<n, node_id[n]>> \in G
    BY <1>2 DEF Current, Pairs, Shape
  <2>2. Telling(G, G, known_peers', inbox')
    <3>1. Telling(G, G, known_peers, inbox)
      BY <1>1 DEF CurrentInv
    <3> HIDE DEF G
    <3> QED BY <1>2, <1>4, <2>1, <3>1, TellingStep
  <2>3. /\ \A n \in Node : node_id'[n] = node_id[n] \/ (node_id[n] = None /\ node_id'[n] \in Nat)
        /\ \A n \in Node : n \in Saver => disk'[n].node_id = node_id'[n]
        /\ \A n \in Node : n \notin Saver /\ n # Founder /\ status'[n] # "up" => node_id'[n] = None
    BY <1>1, <1>4, IdentityStays
  <2>4. G \subseteq G2
    BY <2>3, DirectoryAssumption DEF Current, Pairs, DirectoryAssumption
  <2>5. Telling(G2, G2, known_peers', inbox')
    <3> HIDE DEF G, G2
    <3> QED BY <2>2, <2>4, TellingGrows
  <2> QED BY <1>2, <2>3, <2>5 DEF CurrentInv, Current
<1> QED BY <1>1, <1>3, <1>4

(***************************************************************************)
(* Entries are never replaced, so a peer that comes back must come back as *)
(* the one it was: if all who may stop save their identity and load it,    *)
(* what anyone has at an endpoint is the identity of the peer there.       *)
(***************************************************************************)
THEOREM DirectoryEntriesCurrent ==
  ASSUME SavedIdentities
  PROVE  Spec => []EntriesCurrent
<1>1. Init => CurrentInv
  <2>1. SUFFICES ASSUME Init PROVE CurrentInv
    OBVIOUS
  <2>2. Shape
    BY <2>1, InitShape
  <2>3. inbox \in Boxes(Current, Current)
    <3>1. \A c \in Conn, n \in Node : inbox[c][n] = << >>
      BY <2>1 DEF Init
    <3>2. \A S : << >> \in Seq(S)
      OBVIOUS
    <3>3. inbox = [c \in Conn |-> [n \in Node |-> << >>]]
      BY <2>1 DEF Init
    <3> QED BY <3>1, <3>2, <3>3 DEF Boxes
  <2>4. \A n \in Node : known_peers[n] = Nobody
    BY <2>1 DEF Init
  <2>5. \A n \in Node : Lists(Current, known_peers[n])
    BY <2>4 DEF Lists, Nobody
  <2>6. \A n \in Node : n \in Saver => disk[n].node_id = node_id[n]
    BY <2>1 DEF Init, Empty
  <2>7. \A n \in Node : n # Founder => node_id[n] = None
    BY <2>1 DEF Init
  <2> QED BY <2>2, <2>3, <2>5, <2>6, <2>7 DEF CurrentInv, Telling
<1>2. CurrentInv => EntriesCurrent
  <2>1. SUFFICES ASSUME CurrentInv, NEW n \in Node, NEW m \in Knows(n)
        PROVE  known_peers[n][m].node_id = node_id[m]
    BY DEF EntriesCurrent
  <2>2. Lists(Current, known_peers[n])
    BY <2>1 DEF CurrentInv, Telling
  <2>3. m \in Node /\ known_peers[n][m] # None
    BY DEF Knows
  <2>4. <<m, known_peers[n][m].node_id>> \in Current
    BY <2>2, <2>3 DEF Lists
  <2> QED BY <2>4 DEF Current
<1> QED BY <1>1, <1>2, CurrentInvStep, PTL DEF Spec

-----------------------------------------------------------------------------
(***************************************************************************)
(* SavedPeers.                                                             *)
(***************************************************************************)
SavedInv == Shape /\ SavedPeers

\* A step that leaves what peers know and have saved of it, but for directories that
\* are registered into, which are saved.
Saves ==
  \A n \in Saver : \/ /\ known_peers'[n] = known_peers[n] /\ disk'[n].peers = disk[n].peers
                      /\ status'[n] = "up" => status[n] = "up"
                   \/ disk'[n].peers = known_peers'[n]
                   \/ known_peers'[n] = Nobody

LEMMA SavesKeep ==
  ASSUME SavedPeers, Saves
  PROVE  SavedPeers'
<1>1. ASSUME NEW n \in Saver, status'[n] = "up", Knows(n)' # {}
      PROVE  disk'[n].peers = known_peers'[n]
  <2>1. CASE known_peers'[n] = Nobody
    BY <1>1, <2>1 DEF Knows, Nobody
  <2>2. CASE /\ known_peers'[n] = known_peers[n] /\ disk'[n].peers = disk[n].peers
             /\ status'[n] = "up" => status[n] = "up"
    BY <1>1, <2>2 DEF Knows, SavedPeers
  <2> QED BY <2>1, <2>2 DEF Saves
<1> QED BY <1>1 DEF SavedPeers

LEMMA RegisterSaves ==
  ASSUME Shape, NEW n \in Node, NEW new \in Directory, register(n, new), UNCHANGED status
  PROVE  Saves
<1>1. Saver \subseteq Node
  BY DirectoryAssumption DEF DirectoryAssumption
<1> QED BY <1>1, RegisterStep DEF Saves

LEMMA ChainSaves ==
  ASSUME Shape, NEW c \in Conn, NEW n \in Ends(c), HandleChain(c, n)
  PROVE  Saves
<1>1. /\ UNCHANGED <<status, known_peers>> /\ n \in Node
      /\ disk' = disk \/ disk' = [disk EXCEPT ![n].chain = TRUE]
  BY ConnEnds DEF HandleChain, self_vars, dir_vars, save_chain
<1>2. disk \in [Node -> Saved] /\ Saver \subseteq Node
  BY DirectoryAssumption DEF Shape, DirectoryAssumption
<1> DEFINE file == [disk[n] EXCEPT !.chain = TRUE]
<1>3. [disk EXCEPT ![n].chain = TRUE] = [disk EXCEPT ![n] = file]
  BY <1>1, <1>2
<1>4. file.peers = disk[n].peers
  BY <1>1, <1>2 DEF Saved
<1> HIDE DEF file
<1> QED BY <1>1, <1>2, <1>3, <1>4 DEF Saves

LEMMA StartSaves ==
  ASSUME Shape, NEW n \in Node, NEW load \in Load, start(n, load)
  PROVE  Saves
<1>1. /\ status \in [Node -> {"off", "up", "raised"}] /\ known_peers \in [Node -> Directory]
      /\ Saver \subseteq Node
  BY DirectoryAssumption DEF Shape, DirectoryAssumption
<1>2. CASE UNCHANGED <<known_peers, disk>> /\ status' = [status EXCEPT ![n] = "raised"]
  BY <1>1, <1>2 DEF Saves
<1>3. CASE /\ status' = [status EXCEPT ![n] = "up"]
           /\ known_peers' = [known_peers EXCEPT ![n] = Nobody]
           /\ disk' = IF n \in Saver THEN [disk EXCEPT ![n].node_id = StartId(n, load)] ELSE disk
  <2>1. StartId(n, load) \in Nat
    BY ShapeStart
  <2>2. \A m \in Node : disk'[m].peers = disk[m].peers
    BY <1>3, <2>1, StartFile
  <2>3. /\ known_peers'[n] = Nobody
        /\ \A m \in Node \ {n} : known_peers'[m] = known_peers[m] /\ status'[m] = status[m]
    BY <1>1, <1>3
  <2> QED BY <1>1, <2>2, <2>3 DEF Saves
<1> QED BY <1>2, <1>3, StartParts DEF dir_vars

LEMMA StopSaves ==
  ASSUME Shape, NEW n \in Node, Stop(n)
  PROVE  Saves
<1>1. UNCHANGED <<known_peers, disk>> /\ status' = [status EXCEPT ![n] = "off"]
  BY DEF Stop, dir_vars
<1>2. status \in [Node -> {"off", "up", "raised"}] /\ Saver \subseteq Node
  BY DirectoryAssumption DEF Shape, DirectoryAssumption
<1> QED BY <1>1, <1>2 DEF Saves

LEMMA HandlerSaves ==
  ASSUME Shape, NEW c \in Conn, NEW n \in Ends(c),
         \/ HandlePeerInfo(c, n) \/ HandleAddPeer(c, n) \/ HandleNewPeer(c, n)
         \/ HandleKnownPeers(c, n)
  PROVE  Saves
<1>1. Telling(Pairs, Pairs, known_peers, inbox) /\ n \in Node
  BY ShapeTells, ConnEnds
<1> DEFINE msg == Head(inbox[c][n])
           new == [Nobody EXCEPT ![msg.at] = msg.entry]
<1>2. CASE HandlePeerInfo(c, n)
  <2>1. Reads(c, n, "peer_info") /\ register(n, new) /\ UNCHANGED status
    BY <1>2 DEF HandlePeerInfo, self_vars
  <2>2. msg \in Heard(Pairs, Pairs, c, n) /\ msg.type = "peer_info"
    BY <1>1, <2>1, ReadsTold
  <2>3. msg.at \in Node /\ msg.entry \in Record
    BY <2>2 DEF Heard, Msg
  <2> HIDE DEF msg
  <2>4. new \in Directory
    BY <2>3, OneEntry
  <2> HIDE DEF new
  <2> QED BY <1>1, <2>1, <2>4, RegisterSaves
<1>3. CASE HandleNewPeer(c, n)
  <2>1. /\ Reads(c, n, "new_peer") /\ UNCHANGED status
        /\ register(n, new) \/ UNCHANGED <<dir_vars, disk>>
    BY <1>3 DEF HandleNewPeer, self_vars
  <2>2. msg \in Heard(Pairs, Pairs, c, n) /\ msg.type = "new_peer"
    BY <1>1, <2>1, ReadsTold
  <2>3. msg.at \in Node /\ msg.entry \in Record
    BY <2>2 DEF Heard, Msg
  <2> HIDE DEF msg
  <2>4. new \in Directory
    BY <2>3, OneEntry
  <2> HIDE DEF new
  <2>5. UNCHANGED <<dir_vars, disk>> => Saves
    BY <2>1 DEF dir_vars, Saves
  <2> QED BY <1>1, <2>1, <2>4, <2>5, RegisterSaves
<1>4. CASE HandleAddPeer(c, n)
  <2> DEFINE one == [Nobody EXCEPT ![Introduced(c, n).at] = Renamed(c, n)]
  <2>1. /\ Reads(c, n, "add_peer") /\ UNCHANGED status
        /\ register(n, one) \/ UNCHANGED <<dir_vars, disk>>
    BY <1>4, AddPeerParts DEF self_vars
  <2>2. Introduced(c, n).at \in Node /\ Renamed(c, n) \in Record
    BY <1>1, <2>1, AddPeerTypes
  <2>3. one \in Directory
    BY <2>2, OneEntry
  <2> HIDE DEF one
  <2>4. UNCHANGED <<dir_vars, disk>> => Saves
    BY <2>1 DEF dir_vars, Saves
  <2> QED BY <1>1, <2>1, <2>3, <2>4, RegisterSaves
<1>5. CASE HandleKnownPeers(c, n)
  <2>1. UNCHANGED status /\ \E list \in Directory : register(n, list)
    BY <1>1, <1>5, KnownPeersTells DEF HandleKnownPeers, self_vars
  <2> QED BY <1>1, <2>1, RegisterSaves
<1> QED BY <1>2, <1>3, <1>4, <1>5

(***************************************************************************)
(* Whoever saves to the disk has everyone it knows in its file, by         *)
(* whichever message it heard of them.                                     *)
(***************************************************************************)
THEOREM DirectorySavedPeers == Spec => []SavedPeers
<1>1. Init => SavedInv
  <2>1. SUFFICES ASSUME Init PROVE SavedInv
    OBVIOUS
  <2>2. \A n \in Node : Knows(n) = {}
    BY <2>1 DEF Init, Knows, Nobody
  <2>3. Saver \subseteq Node
    BY DirectoryAssumption DEF DirectoryAssumption
  <2> QED BY <2>1, <2>2, <2>3, InitShape DEF SavedInv, SavedPeers
<1>2. SavedInv /\ [Next]_vars => SavedInv'
  <2>1. SUFFICES ASSUME SavedInv, [Next]_vars PROVE SavedInv'
    OBVIOUS
  <2>2. Shape /\ Shape' /\ SavedPeers
    BY <2>1, ShapeStep DEF SavedInv
  <2>3. CASE UNCHANGED vars
    BY <2>2, <2>3 DEF SavedInv, SavedPeers, Knows, vars, self_vars, dir_vars
  <2>4. CASE Next
    <3>1. UNCHANGED <<status, known_peers, disk>> => Saves
      BY DEF Saves
    <3>2. ASSUME NEW c \in Conn, NEW n \in Ends(c),
                 \/ HandlePing(c, n) \/ HandleDetailsRequest(c, n) \/ HandleDetails(c, n)
                 \/ HandleChainRequest(c, n) \/ HandleChain(c, n)
          PROVE  Saves
      BY <2>2, <3>1, <3>2, ChainSaves
         DEF HandlePing, HandleDetailsRequest, HandleDetails, HandleChainRequest, self_vars, dir_vars
    <3>3. ASSUME NEW c \in Conn, NEW n \in Ends(c), HandlePong(c, n) \/ HandleChangeName(c, n)
          PROVE  Saves
      BY <3>1, <3>3 DEF HandlePong, HandleChangeName, self_vars, dir_vars
    <3>4. ASSUME NEW n \in Node, NEW e \in Node,
                 \/ connect_to_peer(n, e) \/ discover_peers(n, e) \/ SamplerConnects(n, e)
                 \/ SamplerDrops(n) \/ find_longest_chain(n)
          PROVE  Saves
      BY <3>1, <3>4 DEF connect_to_peer, discover_peers, SamplerConnects, SamplerDrops,
                        find_longest_chain, self_vars, dir_vars
    <3>5. Saves
      BY <2>2, <2>4, <3>2, <3>3, <3>4, NextCases, StartSaves, StopSaves, HandlerSaves, Zenon
    <3>6. SavedPeers'
      BY <2>2, <3>5, SavesKeep
    <3> QED BY <2>2, <3>6 DEF SavedInv
  <2> QED BY <2>1, <2>3, <2>4
<1> QED BY <1>1, <1>2, PTL DEF Spec, SavedInv

-----------------------------------------------------------------------------
(***************************************************************************)
(* NamesDiffer.  The founder names whoever it hears of first through the   *)
(* add_peer of that peer itself.  Whom it has not registered is a          *)
(* stranger: it has a connection to the founder only, on which its         *)
(* add_peer is the first message to be read, and until then nobody lists   *)
(* it and, as the timers wait for quiet, it dials nobody.                  *)
(***************************************************************************)
Acquainted == Knows(Founder) \cup {Founder}

Waiting(n) ==
  LET c == <<n, Founder>> IN
  /\ \A d \in up : n \in Ends(d) => d = c
  /\ \A d \in Conn, m \in Node : n \in Ends(d) /\ d # c => inbox[d][m] = << >>
  /\ \A i \in DOMAIN inbox[c][n] : inbox[c][n][i].type = "new_peer"
  /\ inbox[c][Founder] # << >> => Head(inbox[c][Founder]).type = "add_peer"
  /\ \/ c \in up \/ inbox[c][n] # << >>
     \/ status[n] = "up" /\ Knows(n) # {}
     => inbox[c][Founder] # << >>
  /\ connecting[n] \subseteq {Founder} /\ ~ has_chain[n] /\ ~ disk[n].chain /\ n \notin sampling

FounderFirst ==
  /\ Telling(Acquainted \X Nat, Pairs, known_peers, inbox)
  /\ \A n \in Node : connecting[n] \subseteq Acquainted
  /\ \A n \in Node \ Acquainted : Waiting(n)

NamesInv ==
  /\ Shape
  /\ NamesDiffer
  /\ status[Founder] = "up" => FounderFirst

\* Whom the founder knows it never forgets while it is up.
LEMMA StrangerConn ==
  ASSUME NEW n \in Node \ Acquainted
  PROVE  /\ n # Founder /\ n \in Node /\ <<n, Founder>> \in Conn
         /\ Ends(<<n, Founder>>) = {n, Founder}
         /\ Other(<<n, Founder>>, n) = Founder /\ Other(<<n, Founder>>, Founder) = n
BY DirectoryAssumption DEF DirectoryAssumption, Acquainted, Conn, Ends, Other

LEMMA AppendKeepsHead ==
  ASSUME NEW S, NEW s \in Seq(S), NEW x
  PROVE  /\ Append(s, x) # << >>
         /\ s # << >> => Head(Append(s, x)) = Head(s)
         /\ DOMAIN Append(s, x) = DOMAIN s \cup {Len(s) + 1}
         /\ \A i \in DOMAIN s : Append(s, x)[i] = s[i]
         /\ Append(s, x)[Len(s) + 1] = x
<1>1. Len(s) \in Nat /\ DOMAIN s = 1..Len(s)
  OBVIOUS
<1> QED BY <1>1

LEMMA TailKeepsTypes ==
  ASSUME NEW S, NEW s \in Seq(S), s # << >>, NEW type, \A i \in DOMAIN s : s[i].type = type
  PROVE  /\ Head(s).type = type
         /\ \A i \in DOMAIN Tail(s) : Tail(s)[i].type = type
<1>1. Len(s) \in Nat /\ DOMAIN s = 1..Len(s) /\ Len(s) # 0
  OBVIOUS
<1>2. 1 \in DOMAIN s /\ Head(s) = s[1]
  BY <1>1
<1>3. \A i \in DOMAIN Tail(s) : i + 1 \in DOMAIN s /\ Tail(s)[i] = s[i + 1]
  BY <1>1
<1> QED BY <1>2, <1>3

\* What a handler does to other connections than the one it reads: announcements.
Announces(c, a) ==
  \A d \in Conn, m \in Node :
    d # c => \/ inbox'[d][m] = inbox[d][m]
             \/ /\ d \in up /\ a \in Ends(d) /\ m = Other(d, a)
                /\ \E msg : msg.type = "new_peer" /\ inbox'[d][m] = Append(inbox[d][m], msg)

LEMMA SendAnnounces ==
  ASSUME Shape, NEW c \in Conn, NEW a \in Ends(c), inbox[c][a] # << >>,
         \/ inbox' = Read(c, a)
         \/ \E msg \in Heard(Pairs, Pairs, c, Other(c, a)) : inbox' = send_message(c, a, msg, Read(c, a))
  PROVE  Announces(c, a)
<1>1. inbox \in Boxes(Pairs, Pairs)
  BY DEF Shape
<1>2. /\ Read(c, a) \in Boxes(Pairs, Pairs)
      /\ \A d \in Conn, m \in Node : d # c => Read(c, a)[d][m] = inbox[d][m]
  BY <1>1, ReadBoxes
<1>3. ASSUME NEW msg \in Heard(Pairs, Pairs, c, Other(c, a)),
             inbox' = send_message(c, a, msg, Read(c, a))
      PROVE  \A d \in Conn, m \in Node : d # c => inbox'[d][m] = Read(c, a)[d][m]
  BY <1>2, <1>3, SendBoxes
<1>4. \A d \in Conn, m \in Node : d # c => inbox'[d][m] = Read(c, a)[d][m]
  BY <1>3
<1> QED BY <1>2, <1>4 DEF Announces

LEMMA HandlerAnnounces ==
  ASSUME Shape, NEW c \in Conn, NEW a \in Ends(c), HandleMessage(c, a)
  PROVE  Announces(c, a)
<1>1. Telling(Pairs, Pairs, known_peers, inbox) /\ a \in Node
  BY ShapeTells, ConnEnds
<1>2. ASSUME NEW type, Reads(c, a, type)
      PROVE  /\ inbox[c][a] # << >> /\ Read(c, a) \in Boxes(Pairs, Pairs) /\ status[a] = "up"
             /\ <<a, node_id[a]>> \in Pairs
             /\ Head(inbox[c][a]) \in Heard(Pairs, Pairs, c, a) /\ Head(inbox[c][a]).type = type
             /\ \A d \in Conn, m \in Node : d # c => Read(c, a)[d][m] = inbox[d][m]
  <2>1. /\ inbox[c][a] # << >> /\ Read(c, a) \in Boxes(Pairs, Pairs) /\ status[a] = "up"
        /\ Head(inbox[c][a]) \in Heard(Pairs, Pairs, c, a) /\ Head(inbox[c][a]).type = type
    BY <1>1, <1>2, ReadsTold
  <2>2. inbox \in Boxes(Pairs, Pairs) /\ <<a, node_id[a]>> \in Pairs
    BY <1>1, <2>1 DEF Shape, Pairs
  <2>3. \A d \in Conn, m \in Node : d # c => Read(c, a)[d][m] = inbox[d][m]
    BY <2>1, <2>2, ReadBoxes
  <2> QED BY <2>1, <2>2, <2>3
<1>3. CASE \/ HandlePing(c, a) \/ HandleDetailsRequest(c, a) \/ HandleDetails(c, a)
           \/ HandleChainRequest(c, a) \/ HandleChain(c, a)
  <2>1. \E type : Reads(c, a, type)
    BY <1>3 DEF HandlePing, HandleDetailsRequest, HandleDetails, HandleChainRequest, HandleChain
  <2>2. inbox[c][a] # << >> /\ admin_id[a] \in {1, None}
    BY <1>1, <1>2, <2>1 DEF Shape
  <2>3. \/ inbox' = Read(c, a)
        \/ \E msg \in Heard(Pairs, Pairs, c, Other(c, a)) :
             inbox' = send_message(c, a, msg, Read(c, a))
    BY <1>3, <2>2, PlainMessages
       DEF HandlePing, HandleDetailsRequest, HandleDetails, HandleChainRequest, HandleChain
  <2> QED BY <2>2, <2>3, SendAnnounces
<1>4. CASE HandlePong(c, a)
  <2>1. Reads(c, a, "pong") /\ inbox' \in {Read(c, a), send_message(c, a, peer_info(a), Read(c, a))}
    BY <1>4 DEF HandlePong
  <2>2. peer_info(a) \in Heard(Pairs, Pairs, c, Other(c, a))
    BY <1>1, <1>2, <2>1, SelfEntry, EntryMessages, 0 \in Nat DEF peer_info
  <2> QED BY <1>2, <2>1, <2>2, SendAnnounces
<1>5. CASE HandlePeerInfo(c, a)
  <2> DEFINE msg == Head(inbox[c][a])
             new == [Nobody EXCEPT ![msg.at] = msg.entry]
  <2>1. /\ Reads(c, a, "peer_info") /\ register(a, new)
        /\ inbox' \in {Read(c, a),
                       send_message(c, a, known_peers_message(a, known_peers'[a]), Read(c, a))}
    BY <1>5 DEF HandlePeerInfo
  <2>2. msg.at \in Node /\ msg.entry \in Record
    BY <1>2, <2>1 DEF Heard, Msg
  <2> HIDE DEF msg
  <2>3. new \in Directory
    BY <2>2, OneEntry
  <2> HIDE DEF new
  <2>4. known_peers'[a] \in Directory
    BY <1>1, <2>1, <2>3, RegisterStep
  <2>5. Lists(Pairs, known_peers'[a])
    BY <2>4 DEF Lists, Pairs, Directory, Record
  <2>6. known_peers_message(a, known_peers'[a]) \in Heard(Pairs, Pairs, c, Other(c, a))
    BY <1>1, <1>2, <2>1, <2>4, <2>5, ListMessage
  <2> QED BY <1>2, <2>1, <2>6, SendAnnounces
<1>6. CASE HandleAddPeer(c, a)
  <2> DEFINE new == [Nobody EXCEPT ![Introduced(c, a).at] = Renamed(c, a)]
             list == known_peers_message(a, known_peers'[a])
  <2>1. Reads(c, a, "add_peer")
    BY <1>6, AddPeerParts
  <2>2. /\ Introduced(c, a).at \in Node /\ Renamed(c, a) \in Record /\ Proposed(c, a) \in Named
        /\ Other(c, a) = c[1] /\ c[1] # Founder /\ count.msgs + 1 \in Nat
    BY <1>1, <2>1, AddPeerTypes
  <2>3. CASE inbox' = Read(c, a)
    BY <1>2, <2>1, <2>3, SendAnnounces
  <2>4. CASE register(a, new) /\ inbox' = broadcast_message(a, Announcement(c, a),
                                            send_message(c, a, list, Renaming(c, a)))
    <3>1. new \in Directory
      BY <2>2, OneEntry
    <3> HIDE DEF new
    <3>2. known_peers'[a] \in Directory
      BY <1>1, <2>4, <3>1, RegisterStep
    <3>3. Lists(Pairs, known_peers'[a])
      BY <3>2 DEF Lists, Pairs, Directory, Record
    <3>4. list \in Heard(Pairs, Pairs, c, Other(c, a))
      BY <1>1, <1>2, <2>1, <3>2, <3>3, ListMessage
    <3>5. [type |-> "change_name", new_name |-> Proposed(c, a), new_peer_msg_id |-> count.msgs + 1]
            \in Heard(Pairs, Pairs, c, Other(c, a))
      BY <2>2, RenamingMessage
    <3>6. /\ Renaming(c, a) \in Boxes(Pairs, Pairs)
          /\ \A d \in Conn, m \in Node : d # c => Renaming(c, a)[d][m] = Read(c, a)[d][m]
      BY <1>2, <2>1, <3>5, SendBoxes DEF Renaming
    <3> HIDE DEF list
    <3> DEFINE boxes == send_message(c, a, list, Renaming(c, a))
    <3>7. /\ boxes \in Boxes(Pairs, Pairs)
          /\ \A d \in Conn, m \in Node : d # c => boxes[d][m] = Renaming(c, a)[d][m]
      BY <3>4, <3>6, SendBoxes
    <3> HIDE DEF boxes
    <3>8. /\ \A d, m : Announcement(c, a) \in Heard(Pairs, Pairs, d, m)
          /\ Announcement(c, a).type = "new_peer"
      <4>1. <<Introduced(c, a).at, Renamed(c, a).node_id>> \in Pairs
        BY <2>2 DEF Pairs, Record
      <4> QED BY <2>2, <4>1, EntryMessages DEF Announcement
    <3>9. inbox' = broadcast_message(a, Announcement(c, a), boxes)
      BY <2>4 DEF boxes
    <3>10. \A d \in Conn, m \in Node :
             \/ inbox'[d][m] = boxes[d][m]
             \/ /\ d \in up /\ a \in Ends(d) /\ m = Other(d, a)
                /\ inbox'[d][m] = Append(boxes[d][m], Announcement(c, a))
      BY <1>1, <3>7, <3>8, <3>9, BroadcastBoxes
    <3>11. \A d \in Conn, m \in Node : d # c => boxes[d][m] = inbox[d][m]
      BY <1>2, <2>1, <3>6, <3>7
    <3> QED BY <3>8, <3>10, <3>11 DEF Announces
  <2> QED BY <1>6, <2>3, <2>4, AddPeerParts
<1>7. CASE HandleNewPeer(c, a)
  <2> DEFINE msg == Head(inbox[c][a])
  <2>1. /\ Reads(c, a, "new_peer")
        /\ inbox' = Read(c, a) \/ inbox' = broadcast_message(a, msg, Read(c, a))
    BY <1>7 DEF HandleNewPeer
  <2>2. (\A d, m : msg \in Heard(Pairs, Pairs, d, m)) /\ msg.type = "new_peer"
    BY <1>2, <2>1 DEF Heard, Msg
  <2> HIDE DEF msg
  <2>3. \A d \in Conn, m \in Node :
          \/ inbox'[d][m] = Read(c, a)[d][m]
          \/ /\ d \in up /\ a \in Ends(d) /\ m = Other(d, a)
             /\ inbox'[d][m] = Append(Read(c, a)[d][m], msg)
    BY <1>1, <1>2, <2>1, <2>2, BroadcastBoxes
  <2>4. \A d \in Conn, m \in Node : d # c => Read(c, a)[d][m] = inbox[d][m]
    BY <1>2, <2>1
  <2>5. ASSUME NEW d \in Conn, NEW m \in Node, d # c
        PROVE  \/ inbox'[d][m] = inbox[d][m]
               \/ /\ d \in up /\ a \in Ends(d) /\ m = Other(d, a)
                  /\ msg.type = "new_peer" /\ inbox'[d][m] = Append(inbox[d][m], msg)
    BY <2>2, <2>3, <2>4, <2>5
  <2> QED BY <2>5 DEF Announces
<1>8. CASE HandleChangeName(c, a)
  <2>1. \A d \in Conn, m \in Node : d # c => inbox'[d][m] = inbox[d][m]
    BY <1>1, <1>8, ChangeNameTells
  <2> QED BY <2>1 DEF Announces
<1>9. CASE HandleKnownPeers(c, a)
  <2>1. /\ Reads(c, a, "known_peers")
        /\ inbox' = send_message(c, a, [type |-> "network_details_request"], Read(c, a))
    BY <1>9 DEF HandleKnownPeers
  <2> QED BY <1>2, <2>1, PlainMessages, SendAnnounces
<1> QED BY <1>3, <1>4, <1>5, <1>6, <1>7, <1>8, <1>9 DEF HandleMessage

\* What a handler registers: what it was told, or who introduced itself.
LEMMA HandlerRegisters ==
  ASSUME Shape, NEW c \in Conn, NEW a \in Ends(c),
         NEW G, NEW A, Telling(G, A, known_peers, inbox),
         HandlePeerInfo(c, a) \/ HandleNewPeer(c, a) \/ HandleKnownPeers(c, a)
  PROVE  \/ UNCHANGED <<known_peers, disk>>
         \/ \E list \in Directory : register(a, list) /\ Lists(G, list)
<1> DEFINE msg == Head(inbox[c][a])
           new == [Nobody EXCEPT ![msg.at] = msg.entry]
<1>1. CASE HandlePeerInfo(c, a) \/ HandleNewPeer(c, a)
  <2>1. /\ Reads(c, a, "peer_info") \/ Reads(c, a, "new_peer")
        /\ register(a, new) \/ UNCHANGED <<known_peers, disk>>
    BY <1>1 DEF HandlePeerInfo, HandleNewPeer, dir_vars
  <2>2. msg \in Heard(G, A, c, a) /\ msg.type \in {"peer_info", "new_peer"}
    BY <2>1, ReadsTold
  <2>3. msg.at \in Node /\ msg.entry \in Record /\ <<msg.at, msg.entry.node_id>> \in G
    BY <2>2 DEF Heard, Msg
  <2> HIDE DEF msg
  <2>4. new \in Directory /\ Lists(G, new)
    BY <2>3, OneEntry
  <2> HIDE DEF new
  <2> QED BY <2>1, <2>4
<1>2. CASE HandleKnownPeers(c, a)
  BY <1>2, KnownPeersTells
<1> QED BY <1>1, <1>2

LEMMA AddPeerRegisters ==
  ASSUME Shape, NEW c \in Conn, NEW a \in Ends(c), HandleAddPeer(c, a)
  PROVE  /\ a = c[2] /\ c[1] \in Node /\ c[1] # Founder /\ c[1] # a /\ Renamed(c, a) \in Record
         /\ \/ c[1] \in Knows(a) /\ UNCHANGED <<known_peers, disk>>
            \/ /\ c[1] \notin Knows(a)
               /\ \E list \in Directory :
                    /\ register(a, list)
                    /\ list[c[1]] = Renamed(c, a) /\ \A m \in Node : m # c[1] => list[m] = None
<1>1. Telling(Pairs, Pairs, known_peers, inbox) /\ Reads(c, a, "add_peer")
  BY ShapeTells, AddPeerParts
<1>2. /\ a = c[2] /\ c[1] \in Node /\ c[1] # Founder /\ c[1] # a /\ Renamed(c, a) \in Record
      /\ Introduced(c, a).at = c[1]
  BY <1>1, AddPeerTypes
<1> DEFINE new == [Nobody EXCEPT ![c[1]] = Renamed(c, a)]
<1>3. \/ c[1] \in Knows(a) /\ UNCHANGED <<known_peers, disk>>
      \/ c[1] \notin Knows(a) /\ register(a, new)
  BY <1>2, AddPeerParts DEF dir_vars
<1>4. /\ new \in Directory /\ new[c[1]] = Renamed(c, a)
      /\ \A m \in Node : m # c[1] => new[m] = None
  BY <1>2, OneEntry
<1> HIDE DEF new
<1> QED BY <1>2, <1>3, <1>4

\* What handlers leave alone.
HandlerLeaves(c, a) ==
  /\ UNCHANGED <<connecting, sampling, status>> /\ up' \subseteq up
  /\ \A m \in Node \ {a} : /\ known_peers'[m] = known_peers[m] /\ has_chain'[m] = has_chain[m]
                           /\ disk'[m] = disk[m]

LEMMA HandlerFrame ==
  ASSUME Shape, NEW c \in Conn, NEW a \in Ends(c), HandleMessage(c, a)
  PROVE  HandlerLeaves(c, a)
<1>1. Telling(Pairs, Pairs, known_peers, inbox) /\ a \in Node
  BY ShapeTells, ConnEnds
<1>2. CASE HandlePeerInfo(c, a) \/ HandleNewPeer(c, a) \/ HandleKnownPeers(c, a)
  <2>1. /\ UNCHANGED <<connecting, sampling, status, up, has_chain>>
    BY <1>2 DEF HandlePeerInfo, HandleNewPeer, HandleKnownPeers, self_vars, net_vars, conn_vars
  <2>2. \/ UNCHANGED <<known_peers, disk>>
        \/ \E list \in Directory : register(a, list)
    BY <1>1, <1>2, HandlerRegisters
  <2> QED BY <1>1, <2>1, <2>2, RegisterStep DEF HandlerLeaves
<1>3. CASE HandleAddPeer(c, a)
  <2>1. /\ UNCHANGED <<connecting, sampling, status, up, has_chain>>
    BY <1>3, AddPeerParts DEF self_vars, net_vars, conn_vars
  <2>2. \/ UNCHANGED <<known_peers, disk>>
        \/ \E list \in Directory : register(a, list)
    BY <1>3, AddPeerRegisters
  <2> QED BY <1>1, <2>1, <2>2, RegisterStep DEF HandlerLeaves
<1>4. CASE HandleChain(c, a)
  <2>1. /\ UNCHANGED <<connecting, sampling, status, up, known_peers>>
        /\ has_chain' = [has_chain EXCEPT ![a] = TRUE]
        /\ disk' = disk \/ disk' = [disk EXCEPT ![a].chain = TRUE]
    BY <1>4 DEF HandleChain, self_vars, dir_vars, conn_vars, save_chain
  <2>2. has_chain \in [Node -> BOOLEAN] /\ disk \in [Node -> Saved]
    BY DEF Shape
  <2> QED BY <2>1, <2>2 DEF HandlerLeaves
<1>5. CASE HandleChangeName(c, a)
  BY <1>5 DEF HandleChangeName, HandlerLeaves, net_vars
<1>6. CASE \/ HandlePing(c, a) \/ HandlePong(c, a) \/ HandleDetailsRequest(c, a)
           \/ HandleDetails(c, a) \/ HandleChainRequest(c, a)
  BY <1>6 DEF HandlePing, HandlePong, HandleDetailsRequest, HandleDetails, HandleChainRequest,
              HandlerLeaves, self_vars, dir_vars, net_vars, conn_vars
<1> QED BY <1>2, <1>3, <1>4, <1>5, <1>6 DEF HandleMessage

\* The founder registers nobody it is told of: it knows them.
LEMMA FounderKnowsAll ==
  ASSUME Shape, NEW list \in Directory, register(Founder, list),
         Lists(Acquainted \X Nat, list)
  PROVE  known_peers'[Founder] = known_peers[Founder]
<1>1. Founder \in Node
  BY DirectoryAssumption DEF DirectoryAssumption
<1>2. known_peers'[Founder] = Registered(Founder, list)
  BY <1>1, RegisterStep
<1>3. known_peers[Founder] \in Directory
  BY <1>1 DEF Shape
<1>4. ASSUME NEW m \in Node, known_peers[Founder][m] = None, m # Founder
      PROVE  list[m] = None
  BY <1>4 DEF Lists, Acquainted, Knows
<1> QED BY <1>2, <1>3, <1>4 DEF Registered, Directory

\* Whom a peer registers through its add_peer it knows.
LEMMA Introduction ==
  ASSUME Shape, NEW c \in Conn, NEW a \in Ends(c), HandleAddPeer(c, a)
  PROVE  c[1] \in Knows(a)'
<1>1. /\ c[1] \in Node /\ c[1] # a /\ a \in Node /\ Renamed(c, a) \in Record
      /\ None \notin Record
  BY AddPeerRegisters, ConnEnds, DirectoryAssumption DEF DirectoryAssumption, Record, Named
<1>2. CASE c[1] \in Knows(a) /\ UNCHANGED known_peers
  BY <1>2 DEF Knows
<1>3. CASE c[1] \notin Knows(a)
  <2>1. PICK list \in Directory : register(a, list) /\ list[c[1]] = Renamed(c, a)
    BY <1>3, AddPeerRegisters
  <2>2. known_peers'[a] = Registered(a, list)
    BY <1>1, <2>1, RegisterStep
  <2>3. known_peers'[a][c[1]] = Renamed(c, a)
    BY <1>1, <1>3, <2>1, <2>2 DEF Registered, Knows
  <2> QED BY <1>1, <2>3 DEF Knows
<1> QED BY <1>2, <1>3, AddPeerRegisters

\* Who reads something is acquainted, or a stranger reading an announcement.
LEMMA StrangerReads ==
  ASSUME Shape, FounderFirst, NEW c \in Conn, NEW a \in Ends(c), NEW type, Reads(c, a, type),
         a \notin Acquainted
  PROVE  c = <<a, Founder>> /\ type = "new_peer" /\ inbox[c][Founder] # << >>
<1>1. /\ a \in Node /\ inbox[c][a] # << >> /\ Head(inbox[c][a]).type = type
  BY ConnEnds DEF Reads
<1>2. Waiting(a)
  BY <1>1 DEF FounderFirst
<1>3. c = <<a, Founder>> /\ inbox[c][Founder] # << >>
  BY <1>1, <1>2 DEF Waiting
<1>4. inbox[c][a] \in Seq(Msg)
  BY <1>1 DEF Shape, Boxes
<1>5. \A i \in DOMAIN inbox[c][a] : inbox[c][a][i].type = "new_peer"
  BY <1>2, <1>3 DEF Waiting
<1>6. Head(inbox[c][a]).type = "new_peer"
  BY <1>1, <1>4, <1>5, TailKeepsTypes
<1> QED BY <1>1, <1>3, <1>6

\* What a stranger waits for stays so while others read.
LEMMA OthersRead ==
  ASSUME Shape, NEW n \in Node \ Acquainted, Waiting(n), NEW c \in Conn, NEW a \in Ends(c),
         n \notin Ends(c), Announces(c, a), HandlerLeaves(c, a)
  PROVE  Waiting(n)'
<1> DEFINE f == <<n, Founder>>
<1>1. /\ f \in Conn /\ Ends(f) = {n, Founder} /\ Other(f, Founder) = n /\ n \in Node /\ n # a
      /\ n # Founder /\ f # c
  BY StrangerConn
<1>2. ASSUME NEW d \in Conn, NEW m \in Node, n \in Ends(d), d # f
      PROVE  inbox'[d][m] = << >>
  <2>1. d \notin up /\ inbox[d][m] = << >> /\ d # c
    BY <1>1, <1>2 DEF Waiting
  <2> QED BY <2>1 DEF Announces
<1>3. inbox'[f][Founder] = inbox[f][Founder]
  BY <1>1, DirectoryAssumption DEF Announces, DirectoryAssumption
<1>4. \/ inbox'[f][n] = inbox[f][n]
      \/ f \in up /\ \E msg : msg.type = "new_peer" /\ inbox'[f][n] = Append(inbox[f][n], msg)
  BY <1>1 DEF Announces
<1>5. inbox[f][n] \in Seq(Msg)
  BY <1>1 DEF Shape, Boxes
<1>6. \A i \in DOMAIN inbox'[f][n] : inbox'[f][n][i].type = "new_peer"
  <2>1. \A i \in DOMAIN inbox[f][n] : inbox[f][n][i].type = "new_peer"
    BY DEF Waiting
  <2>2. ASSUME NEW msg, msg.type = "new_peer", inbox'[f][n] = Append(inbox[f][n], msg)
        PROVE  \A i \in DOMAIN inbox'[f][n] : inbox'[f][n][i].type = "new_peer"
    <3> DEFINE box == inbox[f][n]
               box2 == inbox'[f][n]
    <3>1. box \in Seq(Msg) /\ box2 = Append(box, msg)
      BY <1>5, <2>2
    <3> HIDE DEF box, box2
    <3>2. /\ DOMAIN box2 = DOMAIN box \cup {Len(box) + 1} /\ box2[Len(box) + 1] = msg
          /\ \A i \in DOMAIN box : box2[i] = box[i]
      BY <3>1, AppendKeepsHead
    <3>3. \A i \in DOMAIN box : box[i].type = "new_peer"
      BY <2>1 DEF box
    <3>4. \A i \in DOMAIN box2 : box2[i].type = "new_peer"
      BY <2>2, <3>2, <3>3
    <3> QED BY <3>4 DEF box2
  <2> QED BY <1>4, <2>1, <2>2
<1>7. inbox'[f][n] # << >> => inbox[f][n] # << >> \/ f \in up
  BY <1>4
<1>8. /\ up' \subseteq up /\ UNCHANGED <<connecting, sampling, status>>
      /\ Knows(n)' = Knows(n) /\ has_chain'[n] = has_chain[n] /\ disk'[n] = disk[n]
  BY <1>1 DEF HandlerLeaves, Knows
<1>9. inbox[f][Founder] # << >> => Head(inbox[f][Founder]).type = "add_peer"
  BY DEF Waiting
<1>10. f \in up' \/ inbox'[f][n] # << >> \/ (status'[n] = "up" /\ Knows(n)' # {})
         => inbox'[f][Founder] # << >>
  BY <1>3, <1>7, <1>8 DEF Waiting
<1>11. /\ \A d \in up' : n \in Ends(d) => d = f
       /\ connecting'[n] \subseteq {Founder} /\ ~ has_chain'[n] /\ ~ disk'[n].chain /\ n \notin sampling'
  BY <1>8 DEF Waiting
<1> QED BY <1>2, <1>3, <1>6, <1>9, <1>10, <1>11 DEF Waiting

\* And while it reads announcements itself.
LEMMA StrangerHears ==
  ASSUME Shape, NEW n \in Node \ Acquainted, Waiting(n), HandleNewPeer(<<n, Founder>>, n)
  PROVE  Waiting(n)'
<1> DEFINE c == <<n, Founder>>
           msg == Head(inbox[c][n])
<1>1. /\ c \in Conn /\ Ends(c) = {n, Founder} /\ Other(c, n) = Founder /\ n \in Node /\ n # Founder
      /\ n \in Ends(c) /\ Founder \in Node
  BY StrangerConn, DirectoryAssumption DEF DirectoryAssumption
<1>2. Telling(Pairs, Pairs, known_peers, inbox) /\ Reads(c, n, "new_peer")
  BY ShapeTells DEF HandleNewPeer
<1>3. /\ inbox[c][n] # << >> /\ Read(c, n) \in Boxes(Pairs, Pairs) /\ inbox \in Boxes(Pairs, Pairs)
      /\ msg \in Heard(Pairs, Pairs, c, n) /\ msg.type = "new_peer"
  BY <1>1, <1>2, ReadsTold DEF Telling
<1>4. inbox' = Read(c, n) \/ inbox' = broadcast_message(n, msg, Read(c, n))
  BY DEF HandleNewPeer
<1>5. \A d, m : msg \in Heard(Pairs, Pairs, d, m)
  BY <1>3 DEF Heard, Msg
<1> HIDE DEF msg, c
<1>6. \A d \in Conn, m \in Node :
        \/ inbox'[d][m] = Read(c, n)[d][m]
        \/ /\ d \in up /\ n \in Ends(d) /\ m = Other(d, n)
           /\ inbox'[d][m] = Append(Read(c, n)[d][m], msg)
  BY <1>1, <1>3, <1>4, <1>5, BroadcastBoxes
<1>7. /\ Read(c, n)[c][n] = Tail(inbox[c][n])
      /\ \A d \in Conn, m \in Node : <<d, m>> # <<c, n>> => Read(c, n)[d][m] = inbox[d][m]
  BY <1>1, <1>3, ReadBoxes
<1>8. \A d \in Conn, m \in Node : n \in Ends(d) /\ d # c => inbox'[d][m] = << >>
  <2>1. \A d \in Conn, m \in Node : n \in Ends(d) /\ d # c => d \notin up /\ inbox[d][m] = << >>
    BY DEF Waiting, c
  <2> QED BY <1>6, <1>7, <2>1
<1>9. inbox'[c][n] = Tail(inbox[c][n])
  BY <1>1, <1>6, <1>7
<1>10. inbox[c][n] \in Seq(Msg) /\ inbox[c][Founder] \in Seq(Msg)
  BY <1>1 DEF Shape, Boxes
<1>11. \A i \in DOMAIN inbox'[c][n] : inbox'[c][n][i].type = "new_peer"
  <2>1. \A i \in DOMAIN inbox[c][n] : inbox[c][n][i].type = "new_peer"
    BY DEF Waiting, c
  <2> QED BY <1>3, <1>9, <1>10, <2>1, TailKeepsTypes
<1>12. inbox[c][Founder] # << >> /\ Head(inbox[c][Founder]).type = "add_peer"
  BY <1>3 DEF Waiting, c
<1>13. \/ inbox'[c][Founder] = inbox[c][Founder]
       \/ inbox'[c][Founder] = Append(inbox[c][Founder], msg)
  BY <1>1, <1>6, <1>7
<1>14. inbox'[c][Founder] # << >> /\ Head(inbox'[c][Founder]).type = "add_peer"
  <2>1. CASE inbox'[c][Founder] = inbox[c][Founder]
    BY <1>12, <2>1
  <2>2. CASE inbox'[c][Founder] = Append(inbox[c][Founder], msg)
    <3>1. /\ Append(inbox[c][Founder], msg) # << >>
          /\ Head(Append(inbox[c][Founder], msg)) = Head(inbox[c][Founder])
      BY <1>10, <1>12, AppendKeepsHead, Zenon
    <3> QED BY <1>12, <2>2, <3>1
  <2> QED BY <1>13, <2>1, <2>2
<1>15. UNCHANGED <<up, connecting, sampling, has_chain>>
  BY DEF HandleNewPeer, net_vars, conn_vars
<1>16. disk'[n].chain = disk[n].chain
  <2>1. \/ UNCHANGED disk
        \/ \E list \in Directory : register(n, list)
    BY <1>1, <1>2, HandlerRegisters DEF c
  <2> QED BY <1>1, <2>1, RegisterStep
<1>17. /\ \A d \in up' : n \in Ends(d) => d = c
       /\ connecting'[n] \subseteq {Founder} /\ ~ has_chain'[n] /\ ~ disk'[n].chain /\ n \notin sampling'
  BY <1>15, <1>16 DEF Waiting, c
<1> QED BY <1>8, <1>11, <1>14, <1>17 DEF Waiting, c

LEMMA HandlerReads ==
  ASSUME NEW c, NEW a, HandleMessage(c, a)
  PROVE  \E type : /\ Reads(c, a, type)
                   /\ type = "new_peer" => HandleNewPeer(c, a)
                   /\ type = "add_peer" => HandleAddPeer(c, a)
<1>1. CASE HandleNewPeer(c, a)
  BY <1>1 DEF HandleNewPeer
<1>2. CASE HandleAddPeer(c, a)
  BY <1>2 DEF HandleAddPeer
<1>3. CASE HandlePing(c, a) \/ HandlePong(c, a) \/ HandlePeerInfo(c, a) \/ HandleChangeName(c, a)
  <2>1. \E type \in {"ping", "pong", "peer_info", "change_name"} : Reads(c, a, type)
    BY <1>3 DEF HandlePing, HandlePong, HandlePeerInfo, HandleChangeName
  <2> QED BY <2>1
<1>4. CASE \/ HandleKnownPeers(c, a) \/ HandleDetailsRequest(c, a) \/ HandleDetails(c, a)
           \/ HandleChainRequest(c, a) \/ HandleChain(c, a)
  <2>1. \E type \in {"known_peers", "network_details_request", "network_details", "chain_request",
                     "chain"} : Reads(c, a, type)
    BY <1>4 DEF HandleKnownPeers, HandleDetailsRequest, HandleDetails, HandleChainRequest, HandleChain
  <2> QED BY <2>1
<1> QED BY <1>1, <1>2, <1>3, <1>4 DEF HandleMessage

\* No handler forgets anybody.
LEMMA HandlerRemembers ==
  ASSUME Shape, NEW c \in Conn, NEW a \in Ends(c), HandleMessage(c, a)
  PROVE  \A n, m \in Node : known_peers[n][m] # None => known_peers'[n][m] = known_peers[n][m]
<1>1. HandlerLeaves(c, a) /\ a \in Node /\ Telling(Pairs, Pairs, known_peers, inbox)
  BY HandlerFrame, ConnEnds, ShapeTells
<1>2. \/ UNCHANGED known_peers
      \/ \E list \in Directory : register(a, list)
  <2>1. CASE HandlePeerInfo(c, a) \/ HandleNewPeer(c, a) \/ HandleKnownPeers(c, a)
    BY <1>1, <2>1, HandlerRegisters
  <2>2. CASE HandleAddPeer(c, a)
    BY <2>2, AddPeerRegisters
  <2>3. CASE \/ HandlePing(c, a) \/ HandlePong(c, a) \/ HandleChangeName(c, a) \/ HandleChain(c, a)
             \/ HandleDetailsRequest(c, a) \/ HandleDetails(c, a) \/ HandleChainRequest(c, a)
    BY <2>3 DEF HandlePing, HandlePong, HandleChangeName, HandleDetailsRequest, HandleDetails,
                HandleChainRequest, HandleChain, dir_vars
  <2> QED BY <2>1, <2>2, <2>3 DEF HandleMessage
<1>3. ASSUME NEW list \in Directory, register(a, list), NEW m \in Node, known_peers[a][m] # None
      PROVE  known_peers'[a][m] = known_peers[a][m]
  BY <1>1, <1>3, RegisterStep, RegisteredList
<1> QED BY <1>1, <1>2, <1>3 DEF HandlerLeaves

LEMMA HandlerTells ==
  ASSUME Shape, FounderFirst, NEW c \in Conn, NEW a \in Ends(c), HandleMessage(c, a)
  PROVE  /\ Acquainted \subseteq Acquainted'
         /\ Telling(Acquainted' \X Nat, Pairs, known_peers', inbox')
<1>1. /\ a \in Node /\ Founder \in Node
      /\ known_peers \in [Node -> Directory] /\ \A n \in Node : status[n] = "up" => node_id[n] \in Nat
  BY ConnEnds, DirectoryAssumption DEF DirectoryAssumption, Shape
<1>2. Acquainted \subseteq Acquainted'
  BY <1>1, HandlerRemembers DEF Acquainted, Knows
<1> DEFINE G == Acquainted \X Nat
           G2 == Acquainted' \X Nat
<1>3. Telling(G, Pairs, known_peers, inbox) /\ G \subseteq G2
  BY <1>2 DEF FounderFirst
<1>4. ASSUME NEW type, Reads(c, a, type), type # "new_peer"
      PROVE  <<a, node_id[a]>> \in G2
  <2>1. a \in Acquainted /\ status[a] = "up"
    BY <1>4, StrangerReads DEF Reads
  <2> QED BY <1>1, <1>2, <2>1
<1>5. HandleAddPeer(c, a) => <<c[1], Introduced(c, a).entry.node_id>> \in G2
  <2>1. SUFFICES ASSUME HandleAddPeer(c, a) PROVE <<c[1], Introduced(c, a).entry.node_id>> \in G2
    OBVIOUS
  <2>2. Reads(c, a, "add_peer") /\ c[1] \in Node /\ a = c[2] /\ c = <<c[1], c[2]>>
    <3>1. c = <<c[1], c[2]>>
      BY DEF Conn
    <3> QED BY <2>1, <3>1, AddPeerParts, AddPeerRegisters
  <2>3. Introduced(c, a).entry.node_id \in Nat
    <3>1. Telling(Pairs, Pairs, known_peers, inbox)
      BY ShapeTells
    <3>2. <<c[1], Introduced(c, a).entry.node_id>> \in Pairs
      BY <2>2, <3>1, AddPeerTypes
    <3> QED BY <3>2 DEF Pairs
  <2>4. c[1] \in Acquainted'
    <3>1. CASE a = Founder
      BY <2>1, <3>1, Introduction DEF Acquainted
    <3>2. CASE a # Founder
      <4>1. SUFFICES ASSUME c[1] \notin Acquainted PROVE FALSE
        BY <1>2
      <4>2. Waiting(c[1]) /\ c # <<c[1], Founder>> /\ c[1] \in Ends(c)
        BY <2>2, <3>2, <4>1 DEF FounderFirst, Ends
      <4>3. inbox[c][a] = << >>
        BY <1>1, <4>2 DEF Waiting
      <4> QED BY <2>2, <4>3 DEF Reads
    <3> QED BY <3>1, <3>2
  <2> QED BY <2>3, <2>4
<1> HIDE DEF G, G2
<1>6. Telling(G2, Pairs, known_peers, inbox)
  BY <1>3, TellingGrows
<1>7. ASSUME \/ HandlePing(c, a) \/ HandleDetailsRequest(c, a) \/ HandleDetails(c, a)
             \/ HandleChainRequest(c, a) \/ HandleChain(c, a)
      PROVE  Telling(G2, Pairs, known_peers', inbox')
  BY <1>6, <1>7, AnswersTell
<1>8. ASSUME HandlePong(c, a)
      PROVE  Telling(G2, Pairs, known_peers', inbox')
  <2>1. <<a, node_id[a]>> \in G2
    BY <1>4, <1>8 DEF HandlePong
  <2> QED BY <1>6, <1>8, <2>1, PongTells
<1>9. ASSUME HandlePeerInfo(c, a)
      PROVE  Telling(G2, Pairs, known_peers', inbox')
  <2>1. <<a, node_id[a]>> \in G2
    BY <1>4, <1>9 DEF HandlePeerInfo
  <2> QED BY <1>6, <1>9, <2>1, PeerInfoTells
<1>10. ASSUME HandleAddPeer(c, a)
       PROVE  Telling(G2, Pairs, known_peers', inbox')
  <2>1. <<a, node_id[a]>> \in G2
    BY <1>4, <1>10 DEF HandleAddPeer
  <2> QED BY <1>5, <1>6, <1>10, <2>1, AddPeerTells
<1>11. ASSUME HandleNewPeer(c, a) \/ HandleChangeName(c, a) \/ HandleKnownPeers(c, a)
       PROVE  Telling(G2, Pairs, known_peers', inbox')
  BY <1>6, <1>11, NewPeerTells, ChangeNameTells, KnownPeersTells
<1>12. Telling(G2, Pairs, known_peers', inbox')
  BY <1>7, <1>8, <1>9, <1>10, <1>11 DEF HandleMessage
<1> QED BY <1>2, <1>12 DEF G2

LEMMA HandlerFounderFirst ==
  ASSUME Shape, FounderFirst, NEW c \in Conn, NEW a \in Ends(c), HandleMessage(c, a)
  PROVE  FounderFirst'
<1>1. /\ Acquainted \subseteq Acquainted'
      /\ Telling(Acquainted' \X Nat, Pairs, known_peers', inbox')
  BY HandlerTells
<1>2. HandlerLeaves(c, a) /\ Announces(c, a)
  BY HandlerFrame, HandlerAnnounces
<1>3. \A n \in Node : connecting'[n] \subseteq Acquainted'
  BY <1>1, <1>2 DEF HandlerLeaves, FounderFirst
<1>4. ASSUME NEW n \in Node, n \notin Acquainted' PROVE Waiting(n)'
  <2>1. n \in Node \ Acquainted /\ Waiting(n)
    BY <1>1, <1>4 DEF FounderFirst
  <2>2. CASE n \notin Ends(c)
    BY <1>2, <2>1, <2>2, OthersRead
  <2>3. CASE n \in Ends(c)
    <3>1. PICK type : /\ Reads(c, a, type)
                      /\ type = "new_peer" => HandleNewPeer(c, a)
                      /\ type = "add_peer" => HandleAddPeer(c, a)
      BY HandlerReads
    <3>2. inbox[c][a] # << >> /\ Head(inbox[c][a]).type = type /\ a \in Node
      BY <3>1, ConnEnds DEF Reads
    <3>3. c = <<n, Founder>>
      BY <2>1, <2>3, <3>2 DEF Waiting
    <3>4. CASE a = Founder
      <4>1. type = "add_peer"
        BY <2>1, <3>2, <3>3, <3>4 DEF Waiting
      <4>2. n \in Knows(Founder)'
        BY <3>1, <3>3, <3>4, <4>1, Introduction
      <4> QED BY <1>4, <4>2 DEF Acquainted
    <3>5. CASE a # Founder
      <4>1. a = n
        BY <3>3, <3>5 DEF Ends
      <4>2. type = "new_peer"
        BY <2>1, <3>1, <4>1, StrangerReads
      <4> QED BY <2>1, <3>1, <3>3, <4>1, <4>2, StrangerHears
    <3> QED BY <3>4, <3>5
  <2> QED BY <2>2, <2>3
<1> QED BY <1>1, <1>3, <1>4 DEF FounderFirst

(***************************************************************************)
(* The founder's names.                                                    *)
(***************************************************************************)
LEMMA NamesStay ==
  ASSUME Shape, Shape', known_peers'[Founder] = known_peers[Founder], NamesDiffer
  PROVE  NamesDiffer'
<1>1. name'[Founder] = name[Founder]
  BY DEF Shape
<1>2. Knows(Founder)' = Knows(Founder)
  BY DEF Knows
<1> QED BY <1>1, <1>2 DEF NamesDiffer, lower

LEMMA FounderNames ==
  ASSUME Lower[Given[Founder]] = Given[Founder], Shape, Shape', NamesDiffer,
         NEW c \in Conn, Founder \in Ends(c), HandleAddPeer(c, Founder)
  PROVE  NamesDiffer'
<1>1. /\ c[1] \in Node /\ c[1] # Founder /\ Renamed(c, Founder) \in Record
      /\ None \notin Record /\ Founder \in Node
  BY AddPeerRegisters, DirectoryAssumption DEF DirectoryAssumption, Record, Named
<1>2. /\ lower(Proposed(c, Founder)) = Proposed(c, Founder)
      /\ Proposed(c, Founder) \notin existing_names(Founder)
      /\ Renamed(c, Founder).name = Proposed(c, Founder)
  <2>1. Telling(Pairs, Pairs, known_peers, inbox) /\ Reads(c, Founder, "add_peer")
    BY ShapeTells, AddPeerParts
  <2> QED BY <2>1, AddPeerTypes
<1>3. CASE UNCHANGED known_peers
  BY <1>3, NamesStay
<1>4. CASE c[1] \notin Knows(Founder)
  <2>1. PICK list \in Directory : /\ register(Founder, list) /\ list[c[1]] = Renamed(c, Founder)
                                  /\ \A m \in Node : m # c[1] => list[m] = None
    BY <1>4, AddPeerRegisters
  <2>2. known_peers'[Founder] = Registered(Founder, list)
    BY <1>1, <2>1, RegisterStep
  <2>3. /\ known_peers'[Founder][c[1]] = Renamed(c, Founder)
        /\ \A m \in Node : m # c[1] => known_peers'[Founder][m] = known_peers[Founder][m]
    <3>1. known_peers[Founder][Founder] = None
      BY <1>1 DEF Shape
    <3> QED BY <1>1, <1>4, <2>1, <2>2, <3>1 DEF Registered, Knows
  <2>4. /\ Knows(Founder)' = Knows(Founder) \cup {c[1]}
    BY <1>1, <2>3 DEF Knows
  <2>5. lower(name[Founder]) = name[Founder] /\ name'[Founder] = name[Founder]
    BY DEF Shape, lower
  <2>6. /\ \A m \in Knows(Founder) : lower(known_peers[Founder][m].name) # Proposed(c, Founder)
        /\ name[Founder] # Proposed(c, Founder)
    BY <1>2 DEF existing_names
  <2>7. \A m \in Knows(Founder) : m # c[1] /\ m \in Node
    BY <1>4 DEF Knows
  <2> DEFINE low(m) == lower(known_peers[Founder][m].name)
             low2(m) == lower(known_peers'[Founder][m].name)
  <2>8. low2(c[1]) = Proposed(c, Founder) /\ \A m \in Knows(Founder) : low2(m) = low(m)
    BY <1>2, <2>3, <2>7
  <2>9. \A m \in Knows(Founder) :
          low(m) # lower(name[Founder]) /\ \A k \in Knows(Founder) : low(k) = low(m) => k = m
    BY DEF NamesDiffer
  <2>10. \A m \in Knows(Founder) : low(m) # Proposed(c, Founder)
    BY <2>6
  <2>11. lower(name[Founder])' = lower(name[Founder])
    BY <2>5 DEF lower
  <2>12. (\A m \in Knows(Founder)' :
           low2(m) # lower(name[Founder]) /\ \A k \in Knows(Founder)' : low2(k) = low2(m) => k = m)
    <3> HIDE DEF low, low2
    <3> QED BY <2>4, <2>5, <2>6, <2>8, <2>9, <2>10
  <2>13. \A m : lower(known_peers[Founder][m].name)' = low2(m)
    BY DEF lower
  <2> QED BY <2>11, <2>12, <2>13 DEF NamesDiffer
<1> QED BY <1>3, <1>4, AddPeerRegisters

LEMMA HandlerNames ==
  ASSUME Lower[Given[Founder]] = Given[Founder], Shape, Shape', NamesDiffer, FounderFirst,
         NEW c \in Conn, NEW a \in Ends(c), HandleMessage(c, a)
  PROVE  NamesDiffer'
<1>1. HandlerLeaves(c, a) /\ Founder \in Node
  BY HandlerFrame, DirectoryAssumption DEF DirectoryAssumption
<1>2. CASE a # Founder
  BY <1>1, <1>2, NamesStay DEF HandlerLeaves
<1>3. CASE a = Founder
  <2>1. CASE HandlePeerInfo(c, a) \/ HandleNewPeer(c, a) \/ HandleKnownPeers(c, a)
    <3>1. Telling(Acquainted \X Nat, Pairs, known_peers, inbox)
      BY DEF FounderFirst
    <3>2. \/ UNCHANGED known_peers
          \/ \E list \in Directory : register(Founder, list) /\ Lists(Acquainted \X Nat, list)
      BY <1>3, <2>1, <3>1, HandlerRegisters
    <3>3. known_peers'[Founder] = known_peers[Founder]
      BY <3>2, FounderKnowsAll
    <3> QED BY <3>3, NamesStay
  <2>2. CASE HandleAddPeer(c, a)
    BY <1>3, <2>2, FounderNames
  <2>3. CASE \/ HandlePing(c, a) \/ HandlePong(c, a) \/ HandleChangeName(c, a) \/ HandleChain(c, a)
             \/ HandleDetailsRequest(c, a) \/ HandleDetails(c, a) \/ HandleChainRequest(c, a)
    <3>1. UNCHANGED known_peers
      BY <2>3 DEF HandlePing, HandlePong, HandleChangeName, HandleDetailsRequest, HandleDetails,
                HandleChainRequest, HandleChain, dir_vars
    <3> QED BY <3>1, NamesStay
  <2> QED BY <2>1, <2>2, <2>3 DEF HandleMessage
<1> QED BY <1>2, <1>3

(***************************************************************************)
(* Timers, connections, stops and starts, while the founder is up.         *)
(***************************************************************************)
LEMMA WaitingStays ==
  ASSUME NEW n \in Node \ Acquainted, Waiting(n),
         LET f == <<n, Founder>> IN
         /\ \A d \in up' : n \in Ends(d) => d \in up
         /\ \A d \in Conn, m \in Node : n \in Ends(d) => inbox'[d][m] \in {inbox[d][m], << >>}
         /\ inbox'[f][Founder] = inbox[f][Founder]
         /\ status'[n] = "up" /\ Knows(n)' # {} => status[n] = "up" /\ Knows(n) # {}
         /\ connecting'[n] \subseteq {Founder} \cup connecting[n]
         /\ ~ has_chain'[n] /\ disk'[n].chain = disk[n].chain /\ n \notin sampling'
  PROVE  Waiting(n)'
<1> DEFINE f == <<n, Founder>>
<1>1. f \in Conn /\ n \in Ends(f) /\ n \in Node
  BY StrangerConn
<1>2. \A d \in up' : n \in Ends(d) => d = f
  BY DEF Waiting
<1>3. \A d \in Conn, m \in Node : n \in Ends(d) /\ d # f => inbox'[d][m] = << >>
  BY DEF Waiting
<1>4. inbox'[f][n] \in {inbox[f][n], << >>}
  BY <1>1
<1>5. \A i \in DOMAIN inbox'[f][n] : inbox'[f][n][i].type = "new_peer"
  BY <1>4 DEF Waiting
<1>6. inbox'[f][Founder] # << >> => Head(inbox'[f][Founder]).type = "add_peer"
  BY DEF Waiting
<1>7. f \in up' \/ inbox'[f][n] # << >> \/ (status'[n] = "up" /\ Knows(n)' # {})
        => inbox'[f][Founder] # << >>
  BY <1>1, <1>4 DEF Waiting
<1>8. connecting'[n] \subseteq {Founder} /\ ~ has_chain'[n] /\ ~ disk'[n].chain /\ n \notin sampling'
  BY DEF Waiting
<1> QED BY <1>2, <1>3, <1>5, <1>6, <1>7, <1>8 DEF Waiting

LEMMA FounderFirstStays ==
  ASSUME FounderFirst, known_peers'[Founder] = known_peers[Founder],
         Telling(Acquainted \X Nat, Pairs, known_peers', inbox'),
         \A n \in Node : connecting'[n] \subseteq Acquainted,
         \A n \in Node \ Acquainted : Waiting(n)'
  PROVE  FounderFirst'
<1>1. Acquainted' = Acquainted
  BY DEF Acquainted, Knows
<1>2. Telling(Acquainted' \X Nat, Pairs, known_peers', inbox')
  BY <1>1
<1> QED BY <1>1, <1>2 DEF FounderFirst

LEMMA StartFounderFirst ==
  ASSUME Shape, FounderFirst, NEW a \in Node, NEW load \in Load, start(a, load)
  PROVE  FounderFirst' /\ known_peers'[Founder] = known_peers[Founder]
<1>1. Telling(Acquainted \X Nat, Pairs, known_peers, inbox)
  BY DEF FounderFirst
<1>2. /\ Telling(Acquainted \X Nat, Pairs, known_peers', inbox')
      /\ inbox' = inbox /\ a # Founder /\ UNCHANGED <<sampling, up>>
      /\ known_peers' = known_peers \/ known_peers' = [known_peers EXCEPT ![a] = Nobody]
  BY <1>1, StartTells, StartParts
<1>3. known_peers'[Founder] = known_peers[Founder] /\ Founder \in Node
  BY <1>2, DirectoryAssumption DEF Shape, DirectoryAssumption
<1>4. CASE /\ status' = [status EXCEPT ![a] = "raised"]
           /\ UNCHANGED <<known_peers, has_chain, connecting, disk>>
  <2>1. \A n \in Node : status'[n] = "up" => status[n] = "up"
    BY <1>4 DEF Shape
  <2>2. ASSUME NEW n \in Node \ Acquainted PROVE Waiting(n)'
    <3>1. Waiting(n)
      BY DEF FounderFirst
    <3>2. ~ has_chain[n] /\ n \notin sampling /\ Knows(n)' = Knows(n)
      BY <1>4, <3>1 DEF Waiting, Knows
    <3> QED BY <1>2, <1>4, <2>1, <3>1, <3>2, WaitingStays
  <2>3. \A n \in Node : connecting'[n] \subseteq Acquainted
    BY <1>4 DEF FounderFirst
  <2> QED BY <1>2, <1>3, <2>2, <2>3, FounderFirstStays
<1>5. CASE /\ status' = [status EXCEPT ![a] = "up"]
           /\ known_peers' = [known_peers EXCEPT ![a] = Nobody]
           /\ has_chain' = [has_chain EXCEPT ![a] = load /\ load_chain(a)]
           /\ connecting' = [connecting EXCEPT ![a] = {Founder}]
           /\ disk' = IF a \in Saver THEN [disk EXCEPT ![a].node_id = StartId(a, load)] ELSE disk
  <2>1. /\ \A n \in Node \ {a} : /\ status'[n] = status[n] /\ known_peers'[n] = known_peers[n]
                                /\ has_chain'[n] = has_chain[n] /\ connecting'[n] = connecting[n]
        /\ known_peers'[a] = Nobody /\ has_chain'[a] = (load /\ load_chain(a))
        /\ connecting'[a] = {Founder}
    BY <1>5 DEF Shape
  <2>2. \A n \in Node : disk'[n].chain = disk[n].chain
    <3>1. StartId(a, load) \in Nat
      BY ShapeStart
    <3> QED BY <1>5, <3>1, StartFile
  <2>3. ASSUME NEW n \in Node \ Acquainted PROVE Waiting(n)'
    <3>1. Waiting(n)
      BY DEF FounderFirst
    <3>2. ~ has_chain[n] /\ n \notin sampling /\ ~ disk[n].chain
      BY <3>1 DEF Waiting
    <3>3. CASE n = a
      <4>1. Knows(n)' = {} /\ ~ has_chain'[n] /\ connecting'[n] \subseteq {Founder}
        BY <2>1, <3>2, <3>3 DEF Knows, Nobody, load_chain
      <4> QED BY <1>2, <2>2, <3>1, <3>2, <4>1, WaitingStays
    <3>4. CASE n # a
      <4>1. /\ status'[n] = status[n] /\ Knows(n)' = Knows(n) /\ ~ has_chain'[n]
            /\ connecting'[n] = connecting[n]
        BY <2>1, <3>2, <3>4 DEF Knows
      <4> QED BY <1>2, <2>2, <3>1, <3>2, <4>1, WaitingStays
    <3> QED BY <3>3, <3>4
  <2>4. \A n \in Node : connecting'[n] \subseteq Acquainted
    BY <2>1 DEF FounderFirst, Acquainted
  <2> QED BY <1>2, <1>3, <2>3, <2>4, FounderFirstStays
<1> QED BY <1>3, <1>4, <1>5, StartParts DEF dir_vars, net_vars

LEMMA StopFounderFirst ==
  ASSUME Shape, FounderFirst, NEW a \in Node, a # Founder, Stop(a)
  PROVE  FounderFirst'
<1>1. Telling(Acquainted \X Nat, Pairs, known_peers, inbox)
  BY DEF FounderFirst
<1>2. /\ Telling(Acquainted \X Nat, Pairs, known_peers', inbox')
      /\ \A d \in Conn, m \in Node :
           inbox'[d][m] = IF a \in Ends(d) /\ m = a THEN << >> ELSE inbox[d][m]
  BY <1>1, StopTells
<1>3. /\ status' = [status EXCEPT ![a] = "off"] /\ connecting' = [connecting EXCEPT ![a] = {}]
      /\ up' = up \ Closed(a) /\ sampling' = sampling \ {a}
      /\ UNCHANGED <<known_peers, has_chain, disk>>
  BY DEF Stop, dir_vars, net_vars
<1>4. /\ \A n \in Node : status'[n] = "up" => status[n] = "up"
      /\ \A n \in Node : connecting'[n] \subseteq connecting[n]
      /\ Founder \in Node
  BY <1>3, DirectoryAssumption DEF Shape, DirectoryAssumption
<1>5. ASSUME NEW n \in Node \ Acquainted PROVE Waiting(n)'
  <2>1. Waiting(n) /\ <<n, Founder>> \in Conn
    BY StrangerConn DEF FounderFirst
  <2>2. /\ ~ has_chain'[n] /\ disk'[n].chain = disk[n].chain /\ n \notin sampling'
        /\ Knows(n)' = Knows(n)
    BY <1>3, <2>1 DEF Waiting, Knows
  <2>3. inbox'[<<n, Founder>>][Founder] = inbox[<<n, Founder>>][Founder]
    BY <1>2, <1>4, <2>1
  <2>4. \A d \in Conn, m \in Node : inbox'[d][m] \in {inbox[d][m], << >>}
    BY <1>2
  <2> QED BY <1>3, <1>4, <2>1, <2>2, <2>3, <2>4, WaitingStays
<1>6. \A n \in Node : connecting'[n] \subseteq Acquainted
  BY <1>4 DEF FounderFirst
<1> QED BY <1>2, <1>3, <1>5, <1>6, FounderFirstStays

\* Timers run in quiet, and then a stranger has no connection and knows nobody.
LEMMA QuietStranger ==
  ASSUME FounderFirst, Quiet, NEW n \in Node \ Acquainted
  PROVE  /\ Waiting(n)
         /\ \A d \in up : n \notin Ends(d)
         /\ status[n] = "up" => Knows(n) = {}
<1> DEFINE f == <<n, Founder>>
<1>1. Waiting(n) /\ f \in Conn /\ Founder \in Node
  BY StrangerConn, DirectoryAssumption DEF FounderFirst, DirectoryAssumption
<1>2. inbox[f][Founder] = << >>
  BY <1>1 DEF Quiet
<1> QED BY <1>1, <1>2 DEF Waiting

LEMMA DialFounderFirst ==
  ASSUME Hasty = FALSE, Shape, FounderFirst, NEW a \in Node, NEW e \in Node,
         discover_peers(a, e) \/ SamplerConnects(a, e)
  PROVE  FounderFirst'
<1>1. /\ UNCHANGED <<known_peers, inbox, up, status, has_chain, disk>> /\ sampling' \subseteq sampling
      /\ e \in Knows(a) /\ status[a] = "up"
      /\ \A n \in Node : connecting'[n] \subseteq connecting[n] \cup {e}
      /\ \A n \in Node \ {a} : connecting'[n] = connecting[n]
  BY DEF discover_peers, SamplerConnects, TimerDue, potential_peers, Shape, self_vars, dir_vars, net_vars
<1>2. Telling(Acquainted \X Nat, Pairs, known_peers, inbox)
  BY DEF FounderFirst
<1>3. e \in Acquainted
  <2>1. Lists(Acquainted \X Nat, known_peers[a])
    BY <1>2 DEF Telling
  <2> QED BY <1>1, <2>1 DEF Lists, Knows
<1>4. a \in Acquainted
  <2>1. CASE discover_peers(a, e)
    <3>1. Quiet
      BY <2>1 DEF discover_peers, TimerDue
    <3> QED BY <1>1, <3>1, QuietStranger
  <2>2. CASE SamplerConnects(a, e)
    BY <2>2 DEF SamplerConnects, FounderFirst, Waiting
  <2> QED BY <2>1, <2>2
<1>5. \A n \in Node : connecting'[n] \subseteq Acquainted
  BY <1>1, <1>3 DEF FounderFirst
<1>6. ASSUME NEW n \in Node \ Acquainted PROVE Waiting(n)'
  <2>1. Waiting(n) /\ n # a
    BY <1>4 DEF FounderFirst
  <2>2. /\ ~ has_chain'[n] /\ n \notin sampling' /\ Knows(n)' = Knows(n)
        /\ connecting'[n] = connecting[n]
    BY <1>1, <2>1 DEF Waiting, Knows
  <2> QED BY <1>1, <2>1, <2>2, WaitingStays
<1> QED BY <1>1, <1>2, <1>5, <1>6, FounderFirstStays

LEMMA DropFounderFirst ==
  ASSUME Hasty = FALSE, Shape, FounderFirst, NEW a \in Node, SamplerDrops(a)
  PROVE  FounderFirst'
<1>1. Telling(Acquainted \X Nat, Pairs, known_peers, inbox)
  BY DEF FounderFirst
<1>2. /\ Telling(Acquainted \X Nat, Pairs, known_peers', inbox') /\ Emptied(inbox, inbox')
      /\ \E e : <<a, e>> \in up /\ up' = up \ {<<a, e>>}
  BY <1>1, DropTells
<1>3. /\ Quiet /\ sampling' = sampling \cup {a}
      /\ UNCHANGED <<known_peers, status, has_chain, connecting, disk>>
  BY DEF SamplerDrops, TimerDue, self_vars, dir_vars, net_vars
<1>4. ASSUME NEW n \in Node \ Acquainted PROVE Waiting(n)'
  <2>1. Waiting(n) /\ (\A d \in up : n \notin Ends(d)) /\ <<n, Founder>> \in Conn /\ Founder \in Node
    BY <1>3, QuietStranger, StrangerConn, DirectoryAssumption DEF DirectoryAssumption
  <2>2. n # a
    BY <1>2, <2>1 DEF Ends
  <2>3. ~ has_chain'[n] /\ n \notin sampling' /\ Knows(n)' = Knows(n)
    BY <1>3, <2>1, <2>2 DEF Waiting, Knows
  <2>4. \A d \in Conn, m \in Node : inbox'[d][m] = << >> /\ inbox[d][m] = << >>
    BY <1>2, <1>3 DEF Quiet, Emptied
  <2> QED BY <1>2, <1>3, <2>1, <2>3, <2>4, WaitingStays
<1>5. \A n \in Node : connecting'[n] \subseteq Acquainted
  BY <1>3 DEF FounderFirst
<1> QED BY <1>2, <1>3, <1>4, <1>5, FounderFirstStays

LEMMA FindFounderFirst ==
  ASSUME Shape, FounderFirst, NEW a \in Node, find_longest_chain(a)
  PROVE  FounderFirst'
<1>1. Telling(Acquainted \X Nat, Pairs, known_peers, inbox)
  BY DEF FounderFirst
<1>2. /\ Telling(Acquainted \X Nat, Pairs, known_peers', inbox')
      /\ \A d \in Conn, m \in Node :
              \/ inbox'[d][m] = inbox[d][m]
              \/ /\ d \in up /\ a \in Ends(d) /\ m = Other(d, a)
                 /\ inbox'[d][m] = Append(inbox[d][m], [type |-> "chain_request"])
  BY <1>1, FindTells
<1>3. /\ UNCHANGED <<known_peers, status, has_chain, connecting, sampling, up, disk>>
      /\ \A d \in up : a \in Ends(d) => inbox[d][a] = << >> /\ inbox[d][Other(d, a)] = << >>
  BY DEF find_longest_chain, self_vars, dir_vars, net_vars, conn_vars
<1>4. ASSUME NEW n \in Node \ Acquainted PROVE Waiting(n)'
  <2> DEFINE f == <<n, Founder>>
  <2>1. /\ Waiting(n) /\ f \in Conn /\ Ends(f) = {n, Founder} /\ Other(f, n) = Founder
        /\ Founder \in Node
    BY StrangerConn, DirectoryAssumption DEF FounderFirst, DirectoryAssumption
  <2>2. f \in up => a \notin Ends(f)
    <3>1. f \in up => inbox[f][Founder] # << >>
      BY <2>1 DEF Waiting
    <3>2. f \in up /\ a \in Ends(f) => inbox[f][Founder] = << >>
      BY <1>3, <2>1
    <3> QED BY <3>1, <3>2
  <2>3. \A d \in up : n \in Ends(d) => a \notin Ends(d)
    BY <2>1, <2>2 DEF Waiting
  <2>4. \A d \in Conn, m \in Node : n \in Ends(d) => inbox'[d][m] = inbox[d][m]
    BY <1>2, <2>3
  <2>5. ~ has_chain'[n] /\ n \notin sampling' /\ Knows(n)' = Knows(n)
    BY <1>3, <2>1 DEF Waiting, Knows
  <2>6. inbox'[f][Founder] = inbox[f][Founder]
    BY <2>1, <2>4
  <2> QED BY <1>3, <2>1, <2>4, <2>5, <2>6, WaitingStays
<1>5. \A n \in Node : connecting'[n] \subseteq Acquainted
  BY <1>3 DEF FounderFirst
<1> QED BY <1>2, <1>3, <1>4, <1>5, FounderFirstStays

LEMMA ConnectFounderFirst ==
  ASSUME Shape, FounderFirst, NEW a \in Node, NEW e \in Node, connect_to_peer(a, e)
  PROVE  FounderFirst'
<1> DEFINE c == <<a, e>>
<1>1. Telling(Acquainted \X Nat, Pairs, known_peers, inbox)
  BY DEF FounderFirst
<1>2. /\ e \in connecting[a] /\ connecting' = [connecting EXCEPT ![a] = connecting[a] \ {e}]
      /\ UNCHANGED <<known_peers, status, has_chain, sampling, disk>>
      /\ <<a, node_id[a]>> \in Pairs
  BY DEF connect_to_peer, self_vars, dir_vars, net_vars, Pairs, Shape
<1>3. /\ Telling(Acquainted \X Nat, Pairs, known_peers', inbox')
      /\ c \in Conn
      /\ \/ inbox' = inbox /\ up' = up
         \/ /\ up' = up \cup {c}
            /\ \A m \in Ends(c) : inbox[c][m] = << >>
            /\ \E msg : inbox'[c][e] = Append(<< >>, msg) /\ (~ has_chain[a] => msg.type = "add_peer")
            /\ \A d \in Conn, m \in Node : <<d, m>> # <<c, e>> => inbox'[d][m] = inbox[d][m]
  <2> DEFINE G == Acquainted \X Nat
  <2> HIDE DEF G
  <2>1. Telling(G, Pairs, known_peers, inbox)
    BY <1>1 DEF G
  <2>2. /\ Telling(G, Pairs, known_peers', inbox')
        /\ c \in Conn
        /\ \/ inbox' = inbox /\ up' = up
           \/ /\ up' = up \cup {c}
              /\ \A m \in Ends(c) : inbox[c][m] = << >>
              /\ \E msg \in Heard(G, Pairs, c, e) :
                   inbox'[c][e] = Append(<< >>, msg) /\ (~ has_chain[a] => msg.type = "add_peer")
              /\ \A d \in Conn, m \in Node : <<d, m>> # <<c, e>> => inbox'[d][m] = inbox[d][m]
    BY <1>2, <2>1, ConnectTells
  <2> HIDE DEF c
  <2> QED BY <2>2 DEF G
<1>4. \A n \in Node : connecting'[n] \subseteq connecting[n]
  BY <1>2 DEF Shape
<1>5. ASSUME NEW n \in Node \ Acquainted PROVE Waiting(n)'
  <2> DEFINE f == <<n, Founder>>
  <2>1. /\ Waiting(n) /\ f \in Conn /\ Ends(f) = {n, Founder} /\ Founder \in Node /\ n \in Node
        /\ n # Founder
    BY StrangerConn, DirectoryAssumption DEF FounderFirst, DirectoryAssumption
  <2>2. ~ has_chain'[n] /\ n \notin sampling' /\ Knows(n)' = Knows(n) /\ ~ has_chain[n]
    BY <1>2, <2>1 DEF Waiting, Knows
  <2>3. CASE inbox' = inbox /\ up' = up
    BY <1>2, <1>4, <2>1, <2>2, <2>3, WaitingStays
  <2>4. ASSUME up' = up \cup {c}, \A m \in Ends(c) : inbox[c][m] = << >>,
               NEW msg, inbox'[c][e] = Append(<< >>, msg), ~ has_chain[a] => msg.type = "add_peer",
               \A d \in Conn, m \in Node : <<d, m>> # <<c, e>> => inbox'[d][m] = inbox[d][m]
        PROVE  Waiting(n)'
    <3>1. n # e
      BY <1>2 DEF FounderFirst
    <3>2. CASE n # a
      <4>1. n \notin Ends(c) /\ c # f
        BY <3>1, <3>2 DEF Ends
      <4>2. \A d \in Conn, m \in Node : n \in Ends(d) => inbox'[d][m] = inbox[d][m]
        BY <2>4, <4>1
      <4>3. inbox'[f][Founder] = inbox[f][Founder]
        BY <2>1, <4>2
      <4>4. \A d \in up' : n \in Ends(d) => d \in up
        BY <2>4, <4>1
      <4> QED BY <1>2, <1>4, <2>1, <2>2, <4>2, <4>3, <4>4, WaitingStays
    <3>3. CASE n = a
      <4>1. e = Founder /\ c = f
        BY <1>2, <2>1, <3>3 DEF Waiting
      <4>2. inbox'[f][Founder] = Append(<< >>, msg) /\ msg.type = "add_peer"
        BY <2>2, <2>4, <3>3, <4>1
      <4>3. inbox'[f][Founder] # << >> /\ Head(inbox'[f][Founder]).type = "add_peer"
        <5>1. Append(<< >>, msg) = <<msg>>
          OBVIOUS
        <5> QED BY <4>2, <5>1
      <4>4. inbox'[f][n] = << >>
        BY <2>1, <2>4, <4>1
      <4>5. \A d \in Conn, m \in Node : n \in Ends(d) /\ d # f => inbox'[d][m] = << >>
        BY <2>1, <2>4, <4>1 DEF Waiting
      <4>6. \A d \in up' : n \in Ends(d) => d = f
        BY <2>1, <2>4, <4>1 DEF Waiting
      <4>7. connecting'[n] \subseteq {Founder} /\ ~ disk'[n].chain
        BY <1>2, <1>4, <2>1 DEF Waiting
      <4> QED BY <2>2, <4>3, <4>4, <4>5, <4>6, <4>7 DEF Waiting
    <3> QED BY <3>2, <3>3
  <2> QED BY <1>3, <2>3, <2>4
<1>6. \A n \in Node : connecting'[n] \subseteq Acquainted
  BY <1>4 DEF FounderFirst
<1> QED BY <1>2, <1>3, <1>5, <1>6, FounderFirstStays

LEMMA FoundersRecord ==
  ASSUME Shape, NEW c \in Conn, NEW a \in Ends(c), HandleMessage(c, a), status[Founder] # "up"
  PROVE  known_peers'[Founder] = known_peers[Founder] /\ status'[Founder] # "up"
<1>1. HandlerLeaves(c, a) /\ Founder \in Node
  BY HandlerFrame, DirectoryAssumption DEF DirectoryAssumption
<1>2. status[a] = "up"
  BY HandlerReads DEF Reads
<1> QED BY <1>1, <1>2 DEF HandlerLeaves

LEMMA NamesInvStep ==
  ASSUME Hasty = FALSE, Lower[Given[Founder]] = Given[Founder]
  PROVE  NamesInv /\ [Next]_vars => NamesInv'
<1>1. SUFFICES ASSUME NamesInv, [Next]_vars PROVE NamesInv'
  OBVIOUS
<1>2. /\ Shape /\ Shape' /\ NamesDiffer /\ Founder \in Node
      /\ status \in [Node -> {"off", "up", "raised"}]
  BY <1>1, ShapeStep, DirectoryAssumption DEF NamesInv, DirectoryAssumption, Shape
<1>3. status[Founder] = "up" => FounderFirst
  BY <1>1 DEF NamesInv
<1> DEFINE Kept == NamesDiffer' /\ (status'[Founder] = "up" => FounderFirst')
<1>4. CASE UNCHANGED vars
  <2>1. FounderFirst => FounderFirst'
    BY <1>4 DEF FounderFirst, Acquainted, Knows, Telling, Lists, Boxes, Heard, Pairs, Waiting, vars,
                self_vars, dir_vars, net_vars, conn_vars
  <2>2. NamesDiffer' /\ status' = status
    BY <1>2, <1>4, NamesStay DEF vars, self_vars, dir_vars
  <2> QED BY <1>2, <1>3, <2>1, <2>2 DEF NamesInv
<1>5. ASSUME NEW c \in Conn, NEW a \in Ends(c), HandleMessage(c, a) PROVE Kept
  <2>1. CASE status[Founder] = "up"
    BY <1>2, <1>3, <1>5, <2>1, HandlerNames, HandlerFounderFirst
  <2>2. CASE status[Founder] # "up"
    BY <1>2, <1>5, <2>2, FoundersRecord, NamesStay
  <2> QED BY <2>1, <2>2
<1>6. ASSUME NEW a \in Node, NEW e \in Node,
             \/ connect_to_peer(a, e) \/ discover_peers(a, e) \/ SamplerConnects(a, e)
             \/ SamplerDrops(a) \/ find_longest_chain(a)
      PROVE  Kept
  <2>1. UNCHANGED <<status, known_peers>>
    BY <1>6 DEF connect_to_peer, discover_peers, SamplerConnects, SamplerDrops, find_longest_chain,
                self_vars, dir_vars
  <2>2. NamesDiffer'
    BY <1>2, <2>1, NamesStay
  <2>3. FounderFirst => FounderFirst'
    BY <1>2, <1>6, ConnectFounderFirst, DialFounderFirst, DropFounderFirst, FindFounderFirst
  <2> QED BY <1>3, <2>1, <2>2, <2>3
<1>7. ASSUME NEW a \in Node, Stop(a) PROVE Kept
  <2>1. UNCHANGED known_peers /\ status' = [status EXCEPT ![a] = "off"]
    BY <1>7 DEF Stop, dir_vars
  <2>2. NamesDiffer'
    BY <1>2, <2>1, NamesStay
  <2>3. CASE a = Founder
    BY <1>2, <2>1, <2>2, <2>3
  <2>4. CASE a # Founder
    <3>1. status'[Founder] = status[Founder]
      BY <1>2, <2>1, <2>4
    <3> QED BY <1>2, <1>3, <1>7, <2>2, <2>4, <3>1, StopFounderFirst
  <2> QED BY <2>3, <2>4
<1>8. ASSUME NEW a \in Node, NEW load \in Load, start(a, load) PROVE Kept
  <2>1. /\ a # Founder /\ \E s : status' = [status EXCEPT ![a] = s]
        /\ known_peers' = known_peers \/ known_peers' = [known_peers EXCEPT ![a] = Nobody]
    BY <1>8, StartParts DEF dir_vars
  <2>2. status'[Founder] = status[Founder] /\ known_peers'[Founder] = known_peers[Founder]
    BY <1>2, <2>1 DEF Shape
  <2>3. NamesDiffer'
    BY <1>2, <2>2, NamesStay
  <2>4. FounderFirst => FounderFirst'
    BY <1>2, <1>8, StartFounderFirst
  <2> QED BY <1>3, <2>2, <2>3, <2>4
<1>9. CASE Next
  <2>1. Kept
    <3> HIDE DEF Kept
    <3> QED BY <1>5, <1>6, <1>7, <1>8, <1>9, Zenon DEF Next
  <2> QED BY <1>2, <2>1 DEF NamesInv
<1> QED BY <1>1, <1>4, <1>9

LEMMA InitNames == Init => NamesInv
<1>1. SUFFICES ASSUME Init PROVE NamesInv
  OBVIOUS
<1>2. Shape /\ Founder \in Node
  BY <1>1, InitShape, DirectoryAssumption DEF DirectoryAssumption
<1>3. /\ \A n \in Node : known_peers[n] = Nobody /\ connecting[n] = {} /\ disk[n].chain = FALSE
      /\ \A n \in Node : status[n] = "up" \/ has_chain[n] => n = Founder
      /\ up = {} /\ sampling = {}
      /\ \A d \in Conn, m \in Node : inbox[d][m] = << >>
  BY <1>1 DEF Init, Empty
<1>4. \A n \in Node : Knows(n) = {}
  BY <1>3 DEF Knows, Nobody
<1>5. NamesDiffer
  BY <1>2, <1>4 DEF NamesDiffer
<1>6. Telling(Acquainted \X Nat, Pairs, known_peers, inbox)
  <2> DEFINE G == Acquainted \X Nat
  <2> HIDE DEF G
  <2>1. \A n \in Node : Lists(G, known_peers[n])
    BY <1>3 DEF Lists, Nobody
  <2>2. inbox \in Boxes(Pairs, Pairs)
    BY <1>2 DEF Shape
  <2>3. \A c \in Conn, n \in Node : inbox[c][n] \in Seq(Heard(G, Pairs, c, n))
    <3>1. \A S : << >> \in Seq(S)
      OBVIOUS
    <3> QED BY <1>3, <3>1
  <2>4. inbox \in Boxes(G, Pairs)
    BY <2>2, <2>3 DEF Boxes
  <2>5. Telling(G, Pairs, known_peers, inbox)
    BY <2>1, <2>4 DEF Telling
  <2> QED BY <2>5 DEF G
<1>7. ASSUME NEW n \in Node \ Acquainted PROVE Waiting(n)
  <2>1. n \in Node /\ n # Founder /\ <<n, Founder>> \in Conn
    BY StrangerConn
  <2>2. inbox[<<n, Founder>>][n] = << >> /\ inbox[<<n, Founder>>][Founder] = << >>
    BY <1>2, <1>3, <2>1
  <2>3. ~ has_chain[n] /\ ~ disk[n].chain /\ connecting[n] = {} /\ status[n] # "up"
    BY <1>3, <2>1
  <2> QED BY <1>3, <2>2, <2>3 DEF Waiting
<1>8. \A n \in Node : connecting[n] \subseteq Acquainted
  BY <1>3
<1>9. FounderFirst
  BY <1>6, <1>7, <1>8 DEF FounderFirst
<1> QED BY <1>2, <1>5, <1>9 DEF NamesInv

(***************************************************************************)
(* get_unique_name gives each newcomer a name that nobody the founder has  *)
(* registered has, nor the founder, however many join at once and whoever  *)
(* stops and starts again.  The founder's own name is compared as it was   *)
(* entered, so that must be in lower case; and timers expire in quiet: if  *)
(* they ran while messages are unread, a newcomer that heard an            *)
(* announcement could dial the announced peer before the founder has read  *)
(* its add_peer, and be announced under a name the founder never compared. *)
(***************************************************************************)
THEOREM DirectoryNamesDiffer ==
  ASSUME Hasty = FALSE, Lower[Given[Founder]] = Given[Founder]
  PROVE  Spec => []NamesDiffer
<1>1. Init => NamesInv
  BY InitNames
<1>2. NamesInv /\ [Next]_vars => NamesInv'
  BY NamesInvStep
<1> QED BY <1>1, <1>2, PTL DEF Spec, NamesInv

=============================================================================
