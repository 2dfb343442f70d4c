------------------------------- MODULE Fanout -------------------------------
(***************************************************************************)
(* WebSocketManager.broadcast, sent by several tasks at once (quotes,      *)
(* alerts, news) to a set of clients that connect, break and leave while   *)
(* it is being iterated.                                                   *)
(*                                                                         *)
(* Iterating a Python set raises RuntimeError at the first step that finds *)
(* the set with another size than at the start.  A set that changed and    *)
(* has its old size again is iterated on: where the iterator then stands   *)
(* depends on the hash table, so any clients may be left for it to visit.  *)
(***************************************************************************)
EXTENDS Naturals, FiniteSets

CONSTANTS
  Clients,  \* WebSocket objects; a browser that reconnects gets another one
  Senders,  \* broadcast calls that can be in progress at once
  None,
  MaxCasts  \* bound: broadcasts

ASSUME ClientsAssumption == IsFiniteSet(Clients) /\ None \notin Clients
ASSUME SendersAssumption == None \notin Senders
ASSUME CastsAssumption == MaxCasts \in Nat

VARIABLES
  clients, \* _clients
  conn,    \* conn[c]: the connection of c, as its endpoint and its peer see it
  cast,    \* cast[s]: the broadcast in progress
  raised,  \* how many broadcasts have raised
  casts    \* how many have been made

fanoutVars == <<clients, conn, cast, raised, casts>>

\* now: the client send_json is waiting for; size, left: the iterator; moved: the set
\* changed since the iterator last looked.  Remembered for the properties: got, who
\* received the message; members, whom the set held at the start; calm, it has not changed.
Idle == [now |-> None, size |-> 0, left |-> {}, dead |-> {}, moved |-> FALSE,
         got |-> {}, members |-> {}, calm |-> TRUE]
Casts == [now : Clients \cup {None}, size : 0..Cardinality(Clients), left : SUBSET Clients,
          dead : SUBSET Clients, moved : BOOLEAN,
          got : SUBSET Clients, members : SUBSET Clients, calm : BOOLEAN]

Sending(s) == cast[s].now # None

FanoutInit == /\ clients = {}
        /\ conn = [c \in Clients |-> "new"]
        /\ cast = [s \in Senders |-> Idle]
        /\ raised = 0 /\ casts = 0

\* What every iterator but that of s (None: all of them) will find once the set is `new`.
Disturb(table, new, s) ==
  [q \in Senders |-> IF q = s \/ new = clients \/ table[q].now = None THEN table[q]
                     ELSE [table[q] EXCEPT !.moved = TRUE, !.calm = FALSE]]

-----------------------------------------------------------------------------
(* The endpoint                                                            *)

\* connect: accept has returned; the endpoint adds the client, and waits for it to go.
Accept(c) ==
  /\ conn[c] = "new"
  /\ conn' = [conn EXCEPT ![c] = "open"]
  /\ clients' = clients \cup {c}
  /\ cast' = Disturb(cast, clients', None)
  /\ UNCHANGED <<raised, casts>>

\* The peer closes or disappears; sends may fail from now on.
Break(c) ==
  /\ conn[c] = "open"
  /\ conn' = [conn EXCEPT ![c] = "broken"]
  /\ UNCHANGED <<clients, cast, raised, casts>>

DisconnectWithoutDiscard(c) ==
  /\ conn[c] = "broken"
  /\ conn' = [conn EXCEPT ![c] = "gone"]
  /\ UNCHANGED <<clients, cast, raised, casts>>

\* receive_text raises WebSocketDisconnect, and the endpoint's finally takes c out.
Disconnect(c) ==
  /\ conn[c] = "broken"
  /\ conn' = [conn EXCEPT ![c] = "gone"]
  /\ clients' = clients \ {c}
  /\ cast' = Disturb(cast, clients', None)
  /\ UNCHANGED <<raised, casts>>

-----------------------------------------------------------------------------
(* broadcast                                                               *)

Begin(s) ==
  /\ ~Sending(s)
  /\ casts < MaxCasts
  /\ casts' = casts + 1
  /\ IF clients = {} THEN UNCHANGED cast
     ELSE \E c \in clients :
            cast' = [cast EXCEPT ![s] = [Idle EXCEPT !.now = c, !.size = Cardinality(clients),
                                          !.left = clients \ {c}, !.members = clients]]
  /\ UNCHANGED <<clients, conn, raised>>

\* The rest of one turn of the loop: b is the broadcast with the outcome of the last send
\* in it.  Either the iterator raises, or it gives the next client, or it is done and the
\* clients that failed are disconnected.
Remaining(b) == IF b.moved THEN SUBSET clients ELSE {b.left}

Proceed(s, b) ==
  \/ /\ b.size # Cardinality(clients)
     /\ raised' = raised + 1
     /\ cast' = [cast EXCEPT ![s] = Idle]
     /\ UNCHANGED clients
  \/ /\ b.size = Cardinality(clients)
     /\ UNCHANGED raised
     /\ \E left \in Remaining(b) :
          IF left = {}
          THEN /\ clients' = clients \ b.dead
               /\ cast' = [Disturb(cast, clients', s) EXCEPT ![s] = Idle]
          ELSE /\ UNCHANGED clients
               /\ \E c \in left :
                    cast' = [cast EXCEPT ![s] = [b EXCEPT !.now = c, !.left = left \ {c},
                                                          !.moved = FALSE]]

SendOK(s) ==
  /\ Sending(s)
  /\ conn[cast[s].now] # "gone"
  /\ Proceed(s, [cast[s] EXCEPT !.got = @ \cup {cast[s].now}])
  /\ UNCHANGED <<conn, casts>>

SendFailsAndStops(s) ==
  /\ Sending(s)
  /\ conn[cast[s].now] # "open"
  /\ Proceed(s, [cast[s] EXCEPT !.dead = @ \cup {cast[s].now}, !.left = {}])
  /\ UNCHANGED <<conn, casts>>

SendFails(s) ==
  /\ Sending(s)
  /\ conn[cast[s].now] # "open"
  /\ Proceed(s, [cast[s] EXCEPT !.dead = @ \cup {cast[s].now}])
  /\ UNCHANGED <<conn, casts>>

-----------------------------------------------------------------------------
Send(s) == SendOK(s) \/ SendFails(s)

FanoutNext == \/ \E c \in Clients : Accept(c) \/ Break(c) \/ Disconnect(c)
        \/ \E s \in Senders : Begin(s) \/ Send(s)

FanoutSpec == FanoutInit /\ [][FanoutNext]_fanoutVars

-----------------------------------------------------------------------------
(* Properties                                                              *)

\* Every variable keeps to its values; an iterator does not stand on a client it has yet
\* to visit.
FanoutTypeOK == /\ clients \subseteq Clients
          /\ conn \in [Clients -> {"new", "open", "broken", "gone"}]
          /\ cast \in [Senders -> Casts]
          /\ \A s \in Senders : cast[s].now \notin cast[s].left
          /\ raised \in 0..MaxCasts /\ casts \in 0..MaxCasts

\* No broadcast takes a working connection out of the set, and no connection that is
\* over stays in it: what is broadcast reaches whoever is there.
MembersAreConnected ==
  /\ \A c \in Clients : conn[c] = "open" => c \in clients
  /\ \A c \in clients : conn[c] \in {"open", "broken"}

\* A broadcast that ends while the set was left alone has reached every client whose
\* connection works, however many sends failed on the way.
CalmCastsReachAll ==
  [][\A s \in Senders : Sending(s) /\ cast'[s].now = None /\ cast[s].calm /\ raised' = raised =>
       \A c \in cast[s].members : \/ c \in cast[s].got \cup {cast[s].now}
                                  \/ conn[c] # "open"]_fanoutVars
=============================================================================
