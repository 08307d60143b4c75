------------------------------ MODULE CanRouting ------------------------------
(***************************************************************************)
(* Who gets the transfers that a node receives: the handler asks its       *)
(* entries, the device of the board or a hub and the images of remote      *)
(* devices, when the first frame comes, and gives the transfer to all of   *)
(* them when the last one has come; entries come and go and addresses      *)
(* change in between.                                                      *)
(***************************************************************************)
EXTENDS Integers, FiniteSets

CONSTANTS
  Slots,         \* entries of the handler
  HubAt,         \* address of a board with a hub
  NodeAddresses  \* those of all nodes

ASSUME CanRoutingAssumption ==
  Slots \in Nat \ {0} /\ HubAt \in NodeAddresses /\ NodeAddresses \subseteq Nat \ {0}

VARIABLES
  board,      \* the board: its kind, its slaves and reloader, its address, 0: none
  nodes,      \* entry of each slot: nothing, the board, or the address of an image
  transfer,   \* that is received: what, from where and to whom, 0: all
  place,      \* of the transfer: not there, accepted, or the slot it is given to next
  handledBy,  \* history: slots and parts of the board that took the transfer
  changed,    \* history: entries or addresses changed since it was accepted
  unhashed    \* a transfer was accepted whose signature is not known

routingVars == <<board, nodes, transfer, place, handledBy, changed, unhashed>>

Messages == {"PLAZ_ALLOCATION", "ALLOCATION", "GLOBAL_TIME_SYNC", "NODE_STATUS",
             "COMPOSITE_FIELD_VALUES"}
Standard == {"GET_NODE_INFO", "GET_TRANSPORT_STATS", "RESTART_NODE"}
Plaz     == {"GET_FIELDS_SUMMARY", "GET_FIELD_INFO", "FIELD_READ", "FIELD_WRITE", "GET_FILE_INFO",
             "FILE_READ", "FILE_WRITE"}
Param    == {"PARAM_GET_SET"}

\* Others, of somebody else's protocol.
Transfers ==
  [kind : {"broadcast"}, id : Messages \union {"OTHER"}, from : NodeAddresses, to : {0}]
    \union [kind : {"request", "response"}, id : Standard \union Plaz \union Param \union {"OTHER"},
            from : NodeAddresses, to : NodeAddresses]

NoTransfer   == [kind |-> "none"]
Board        == -1
Nobody       == 0
RoutedImages == {nodes[s] : s \in 1..Slots} \ {Board, Nobody}

-----------------------------------------------------------------------------
(* onAcceptanceRequest() of the entries. *)

deviceAccepts(t) ==
  \/ t.kind = "broadcast" /\ t.id \in {"PLAZ_ALLOCATION", "ALLOCATION", "GLOBAL_TIME_SYNC"}
  \/ t.kind = "request" /\ t.to = board.address /\ t.id \in Standard \union Plaz \union Param

hubAccepts(t) ==
  \/ t.kind = "broadcast" /\ t.id \in {"PLAZ_ALLOCATION", "ALLOCATION", "NODE_STATUS"}
  \/ deviceAccepts(t)

proxyAccepts(address, t) ==
  /\ t.from = address
  /\ \/ t.kind = "broadcast" /\ t.id \in {"NODE_STATUS", "COMPOSITE_FIELD_VALUES"}
     \/ /\ t.kind = "response" /\ t.to = board.address
        /\ t.id \in {"GET_NODE_INFO", "GET_FIELD_INFO", "FIELD_READ", "FIELD_WRITE", "GET_FILE_INFO",
                     "FILE_READ", "FILE_WRITE"}

EntryAccepts(e, t) ==
  CASE e = Nobody -> FALSE
    [] e = Board  -> IF board.kind = "hub" THEN hubAccepts(t) ELSE deviceAccepts(t)
    [] OTHER      -> proxyAccepts(e, t)

shouldAccept(t) == \E s \in 1..Slots : EntryAccepts(nodes[s], t)

\* The signatures that the handler knows.
findHashById(t) ==
  IF t.kind = "broadcast"
  THEN t.id \in {"PLAZ_ALLOCATION", "ALLOCATION", "GLOBAL_TIME_SYNC", "NODE_STATUS",
                 "COMPOSITE_FIELD_VALUES"}
  ELSE t.id \in {"GET_NODE_INFO", "GET_TRANSPORT_STATS", "RESTART_NODE", "PARAM_GET_SET",
                 "GET_FIELDS_SUMMARY", "GET_FIELD_INFO", "FIELD_READ", "FIELD_WRITE",
                 "GET_FILE_INFO", "FILE_READ", "FILE_WRITE"}

-----------------------------------------------------------------------------
(* onMessageReceived() of the entries: the parts that take the transfer. *)

\* The first of the parts that knows a request; those that are left out know none.
processRequest(t) ==
  IF t.id \in Standard THEN {"standard"}
  ELSE {part \in board.slaves : t.id \in (IF part = "plaz" THEN Plaz ELSE Param)}

deviceTakes(t) ==
  IF t.kind = "request" /\ t.to = board.address THEN processRequest(t)
  ELSE IF t.kind = "broadcast" /\ t.id = "ALLOCATION" THEN {"allocatee"} ELSE {}

hubTakes(t) ==
  IF board.address = 0 \/ t.kind # "broadcast" THEN deviceTakes(t)
  ELSE CASE t.id \in {"PLAZ_ALLOCATION", "ALLOCATION"} -> {"allocator"}
         [] t.id = "NODE_STATUS" -> {"status"}
         [] OTHER -> deviceTakes(t)

MessageTaken(t) == t.id \in {"NODE_STATUS", "COMPOSITE_FIELD_VALUES"}

proxyTakes(address, t) ==
  IF t.from # address THEN {}
  ELSE IF t.kind = "response" /\ t.to = board.address THEN {"response"}
  ELSE IF t.kind = "broadcast" /\ MessageTaken(t) THEN {"message"}
  ELSE {}

EntryTakes(e, t) ==
  CASE e = Nobody -> {}
    [] e = Board  -> IF board.kind = "hub" THEN hubTakes(t) ELSE deviceTakes(t)
    [] OTHER      -> proxyTakes(e, t)

\* The first frame of a transfer; one that nobody wants is not received.
FirstFrame(t) ==
  /\ place = 0 /\ shouldAccept(t) /\ place' = 1
  /\ transfer' = t /\ handledBy' = {} /\ changed' = FALSE
  /\ unhashed' = (unhashed \/ ~findHashById(t))
  /\ UNCHANGED <<board, nodes>>

\* onReceptionCallback() gives it to the entries one after the other.
Give ==
  /\ place \in 1..Slots /\ place' = place + 1
  /\ handledBy' = handledBy \union {<<place, p>> : p \in EntryTakes(nodes[place], transfer)}
  /\ UNCHANGED <<board, nodes, transfer, changed, unhashed>>

Forget ==
  /\ place > Slots /\ place' = 0 /\ transfer' = NoTransfer
  /\ handledBy' = {} /\ changed' = FALSE
  /\ UNCHANGED <<board, nodes, unhashed>>

-----------------------------------------------------------------------------
isFree(a) == a # board.address /\ a \notin RoutedImages

\* imageAttached() takes the first slot that is free.
imageAttached(a) ==
  /\ board.kind = "hub" /\ isFree(a) /\ \E s \in 1..Slots : nodes[s] = Nobody
  /\ LET free == CHOOSE s \in 1..Slots : nodes[s] = Nobody /\ \A r \in 1..(s - 1) : nodes[r] # Nobody
     IN nodes' = [nodes EXCEPT ![free] = a]
  /\ changed' = TRUE
  /\ UNCHANGED <<board, transfer, place, handledBy, unhashed>>

imageDetached(s) ==
  /\ nodes[s] \notin {Board, Nobody}
  /\ nodes' = [nodes EXCEPT ![s] = Nobody] /\ changed' = TRUE
  /\ UNCHANGED <<board, transfer, place, handledBy, unhashed>>

\* A device without a hub is given an address.
GetsAddress(a) ==
  /\ board.kind = "device" /\ board.address # a
  /\ board' = [board EXCEPT !.address = a] /\ changed' = TRUE
  /\ UNCHANGED <<nodes, transfer, place, handledBy, unhashed>>

RoutingInit ==
  /\ board \in [kind : {"device"}, slaves : SUBSET {"plaz", "param"}, address : {0}]
       \union [kind : {"hub"}, slaves : SUBSET {"plaz", "param"}, address : {HubAt}]
  /\ nodes = [s \in 1..Slots |-> IF s = 1 THEN Board ELSE Nobody]
  /\ transfer = NoTransfer /\ place = 0 /\ handledBy = {} /\ changed = FALSE /\ unhashed = FALSE

RoutingNext ==
  \/ \E t \in Transfers : FirstFrame(t)
  \/ Give \/ Forget
  \/ \E a \in NodeAddresses : imageAttached(a) \/ GetsAddress(a)
  \/ \E s \in 1..Slots : imageDetached(s)

-----------------------------------------------------------------------------
\* Accepted, but of no use to anybody.
Ignored(t) ==
  \/ t.id = "GLOBAL_TIME_SYNC"
  \/ board.kind = "device" /\ t.id = "PLAZ_ALLOCATION"
  \/ t.id \in Plaz /\ "plaz" \notin board.slaves
  \/ t.id \in Param /\ "param" \notin board.slaves

\* Nothing is accepted whose signature the handler cannot find.  A request is answered
\* by one part of the board at most, whatever entries and addresses change meanwhile.
\* If nothing changes, a response is taken by one image at most, and what was accepted
\* is taken by somebody, but for what the code accepts and has no use for.
RequestsAreRouted ==
  /\ ~unhashed
  /\ transfer.kind = "request" => Cardinality(handledBy) <= 1
  /\ (transfer.kind = "response" /\ ~changed) => Cardinality(handledBy) <= 1
  /\ (place > Slots /\ ~changed /\ ~Ignored(transfer)) => handledBy # {}
=============================================================================
