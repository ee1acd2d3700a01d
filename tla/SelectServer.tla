---------------------------- MODULE SelectServer ----------------------------
(***************************************************************************)
(* src/8_sockets/src/inet: a TCP server that waits in pselect for new      *)
(* connections and for messages of at most MAX_CLIENTS clients and answers *)
(* each message, and its clients, which send one message and wait for the  *)
(* answer.                                                                 *)
(*                                                                         *)
(* Of TCP the model takes: what a client sends arrives, as a whole and     *)
(* before its end; a peer that ends with an answer unread resets the       *)
(* connection.  A client may be killed at any moment.  accept may fail,    *)
(* since the length it is given is not initialized.  After a reset recv    *)
(* returns -1, and the server writes before msg and sends to a connection  *)
(* that is gone: it ends there.  Texts are left out.                       *)
(*                                                                         *)
(* A definition named Faulty_X is X with a plausible bug; no specification *)
(* uses it, it serves to show that the properties notice the bug.          *)
(***************************************************************************)
EXTENDS Integers, Sequences, FiniteSets, FiniteSetsExt

CONSTANTS Clients, MAX_CLIENTS

ASSUME ServerAssumption == IsFiniteSet(Clients) /\ MAX_CLIENTS \in Nat \ {0}

\* The listening descriptor is 0, the others are those accept returns.
sfd   == 0
Fds   == 1 .. MAX_CLIENTS + 1
Slots == 1 .. MAX_CLIENTS

VARIABLES
    peer,      \* where each client stands
    inbox,     \* what its connection has for the server: subset of {"msg", "fin", "rst"}
    answered,  \* the clients an answer was sent to that they have not read
    backlog,   \* the connections not yet accepted, in order
    owner,     \* the client behind each open descriptor of the server
    clients,   \* the table: a descriptor or 0 in each slot
    readfds,
    server,    \* where the server stands, or why it ended
    slot       \* i of the loop over the clients

peerVars   == <<peer, inbox, answered>>
tableVars  == <<owner, clients, readfds>>
serverVars == <<peerVars, backlog, tableVars, server, slot>>

ServerEnds == {"no slot", "accept failed", "bad descriptor", "reset"}
Up == server \notin ServerEnds

ServerInit ==
    /\ peer = [c \in Clients |-> "new"]
    /\ inbox = [c \in Clients |-> {}] /\ answered = {}
    /\ backlog = <<>>
    /\ owner = <<>> /\ clients = [i \in Slots |-> 0] /\ readfds = {}
    /\ server = "set" /\ slot = 1

-----------------------------------------------------------------------------
\* A client: connect, send, recv and, after sleep, its end.
Step(c, from, to) == peer[c] = from /\ peer' = [peer EXCEPT ![c] = to]

Connect(c) ==
    /\ IF Up THEN Step(c, "new", "connected") /\ backlog' = Append(backlog, c)
             ELSE Step(c, "new", "gone") /\ UNCHANGED backlog
    /\ UNCHANGED <<inbox, answered, tableVars, server, slot>>

ClientSend(c) ==
    /\ Step(c, "connected", "waiting")
    /\ inbox' = [inbox EXCEPT ![c] = IF Up THEN @ \union {"msg"} ELSE @]
    /\ UNCHANGED <<answered, backlog, tableVars, server, slot>>

\* recv returns the answer, or 0 or an error when the server is gone.
ClientRecv(c) ==
    /\ c \in answered \/ ~Up
    /\ Step(c, "waiting", "done")
    /\ answered' = answered \ {c}
    /\ UNCHANGED <<inbox, backlog, tableVars, server, slot>>

\* The end of the client, after its last statement or by a signal.
ClientEnd(c) ==
    /\ peer[c] \in {"connected", "waiting", "done"}
    /\ peer' = [peer EXCEPT ![c] = "gone"]
    /\ inbox' = [inbox EXCEPT ![c] = @ \union {IF c \in answered THEN "rst" ELSE "fin"}]
    /\ answered' = answered \ {c}
    /\ UNCHANGED <<backlog, tableVars, server, slot>>

-----------------------------------------------------------------------------
\* FD_SET of the listening socket and of every client; what pselect left in the
\* set is still there.
SetDescriptors ==
    /\ server = "set" /\ server' = "select"
    /\ readfds' = readfds \union {sfd} \union {clients[i] : i \in Slots}   \* 0 is sfd
    /\ UNCHANGED <<peerVars, backlog, owner, clients, slot>>

Open == DOMAIN owner
Ready(fd) == IF fd = sfd THEN backlog # <<>> ELSE inbox[owner[fd]] # {}

\* pselect looks at the descriptors up to max_sd and fails when one is not open.
Examined == {fd \in readfds : fd <= Max({sfd} \union {clients[i] : i \in Slots})}

Pselect ==
    /\ server = "select"
    /\ IF Examined \subseteq Open \union {sfd}
       THEN /\ \E fd \in Examined : Ready(fd)
            /\ readfds' = {fd \in Examined : Ready(fd)} \union (readfds \ Examined)
            /\ server' = "accept"
       ELSE server' = "bad descriptor" /\ UNCHANGED readfds
    /\ UNCHANGED <<peerVars, backlog, owner, clients, slot>>

\* The connection goes to the first free slot; without one the server exits.
Put(fd) ==
    LET free == {i \in Slots : clients[i] = 0}
    IN  IF free = {} THEN server' = "no slot" /\ UNCHANGED clients
                     ELSE server' = "slots" /\ clients' = [clients EXCEPT ![Min(free)] = fd]

Accept ==
    /\ server = "accept" /\ slot' = 1
    /\ IF sfd \notin readfds
       THEN server' = "slots" /\ UNCHANGED <<backlog, owner, clients>>
       ELSE \/ server' = "accept failed" /\ UNCHANGED <<backlog, owner, clients>>
            \/ LET fd == Min(Fds \ Open)
               IN  /\ owner' = [f \in Open \union {fd} |->
                                   IF f = fd THEN Head(backlog) ELSE owner[f]]
                   /\ backlog' = Tail(backlog)
                   /\ Put(fd)
    /\ UNCHANGED <<peerVars, readfds>>

-----------------------------------------------------------------------------
Selected(i) == clients[i] # 0 /\ clients[i] \in readfds

Faulty_NextSlot ==                         \* one slot too many
    /\ slot' = IF slot <= MAX_CLIENTS THEN slot + 1 ELSE 1
    /\ server' = IF slot <= MAX_CLIENTS THEN "slots" ELSE "set"

NextSlot ==
    /\ slot' = IF slot < MAX_CLIENTS THEN slot + 1 ELSE 1
    /\ server' = IF slot < MAX_CLIENTS THEN "slots" ELSE "set"

SkipSlot ==
    /\ server = "slots" /\ ~Selected(slot)
    /\ NextSlot
    /\ UNCHANGED <<peerVars, backlog, tableVars>>

\* recv returns a message, which is answered.
Faulty_Answer ==                           \* the answer is kept for those still there
    /\ server = "slots" /\ Selected(slot)
    /\ LET c == owner[clients[slot]]
       IN  /\ "msg" \in inbox[c]
           /\ inbox' = [inbox EXCEPT ![c] = @ \ {"msg"}]
    /\ NextSlot
    /\ UNCHANGED <<peer, answered, backlog, tableVars>>

Answer ==
    /\ server = "slots" /\ Selected(slot)
    /\ LET c == owner[clients[slot]]
       IN  /\ "msg" \in inbox[c]
           /\ inbox' = [inbox EXCEPT ![c] = @ \ {"msg"}]
           /\ answered' = IF peer[c] = "gone" THEN answered ELSE answered \union {c}
    /\ NextSlot
    /\ UNCHANGED <<peer, backlog, tableVars>>

\* recv returns 0: FD_CLR, close and the slot is free again.
Faulty_Hangup ==                           \* the bit stays in readfds
    /\ server = "slots" /\ Selected(slot)
    /\ inbox[owner[clients[slot]]] = {"fin"}
    /\ owner' = [f \in Open \ {clients[slot]} |-> owner[f]]
    /\ clients' = [clients EXCEPT ![slot] = 0]
    /\ NextSlot
    /\ UNCHANGED <<peerVars, backlog, readfds>>

Hangup ==
    /\ server = "slots" /\ Selected(slot)
    /\ inbox[owner[clients[slot]]] = {"fin"}
    /\ readfds' = readfds \ {clients[slot]}
    /\ owner' = [f \in Open \ {clients[slot]} |-> owner[f]]
    /\ clients' = [clients EXCEPT ![slot] = 0]
    /\ NextSlot
    /\ UNCHANGED <<peerVars, backlog>>

\* recv returns -1.
Reset ==
    /\ server = "slots" /\ Selected(slot)
    /\ "rst" \in inbox[owner[clients[slot]]]
    /\ server' = "reset"
    /\ UNCHANGED <<peerVars, backlog, tableVars, slot>>

ServerStep ==
    \/ SetDescriptors \/ Pselect \/ Accept
    \/ SkipSlot \/ Answer \/ Hangup \/ Reset

ClientStep(c) == Connect(c) \/ ClientSend(c) \/ ClientRecv(c)

ServerNext == ServerStep \/ \E c \in Clients : ClientStep(c) \/ ClientEnd(c)

ServerSpec == ServerInit /\ [][ServerNext]_serverVars

\* The server and the clients run on; nobody has to kill a client.
ServerFairSpec ==
    /\ ServerSpec
    /\ WF_serverVars(ServerStep)
    /\ \A c \in Clients : WF_serverVars(ClientStep(c))

-----------------------------------------------------------------------------
\* Every open descriptor is in one slot of the table, the table holds no other, and
\* no bit of readfds outlives its descriptor: pselect never fails for a descriptor
\* that was closed, although the set is never cleared, and none leaks.  When recv is
\* called there is something to receive, though the slots were filled and cleared
\* since pselect: the server, which has one thread, does not wait for one client.
TableIsExact ==
    Up => /\ readfds \subseteq Open \union {sfd}
          /\ {clients[i] : i \in Slots} \ {0} = Open
          /\ \A i, j \in Slots : clients[i] = clients[j] => i = j \/ clients[i] = 0
          /\ server = "slots" /\ Selected(slot) => inbox[owner[clients[slot]]] # {}

\* A client that waits for its answer does not wait for ever, whatever other
\* clients come, go or are killed.
WaitEnds == \A c \in Clients : peer[c] = "waiting" ~> peer[c] # "waiting"

\* The type of the state.
ServerTypeOK ==
    /\ peer \in [Clients -> {"new", "connected", "waiting", "done", "gone"}]
    /\ inbox \in [Clients -> SUBSET {"msg", "fin", "rst"}] /\ answered \subseteq Clients
    /\ backlog \in Seq(Clients)
    /\ Open \subseteq Fds /\ \A fd \in Open : owner[fd] \in Clients
    /\ clients \in [Slots -> {0} \union Fds] /\ readfds \subseteq {sfd} \union Fds
    /\ server \in {"set", "select", "accept", "slots"} \union ServerEnds
    /\ slot \in Slots
=============================================================================
