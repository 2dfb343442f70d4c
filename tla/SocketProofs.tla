---------------------------- MODULE SocketProofs -----------------------------
(***************************************************************************)
(* Proofs about the connections.  The broadcast never takes a working one  *)
(* out of the set of clients, and reaches everybody if nobody disturbs it, *)
(* for any number of clients and senders; the browser's hook leaves at most *)
(* one connection per url behind, for any number of sockets and urls; the  *)
(* server's price stream, whenever it runs, quotes what is subscribed, for *)
(* any number of tickers, worker threads and restarts.                     *)
(***************************************************************************)
EXTENDS Fanout, WsHook, AlpacaStream, FiniteSetTheorems, TLAPS

-----------------------------------------------------------------------------
(* The broadcast                                                           *)

Active == {s \in Senders : Sending(s)}

\* Each broadcast in progress has been counted, and can raise once.
CountInv == IsFiniteSet(Active) /\ raised + Cardinality(Active) <= casts
TypeInv == FanoutTypeOK /\ CountInv

\* What makes MembersAreConnected inductive: a broadcast will take out only clients whose
\* connection has gone down, and sends only to clients that have had one.
DeadInv == \A s \in Senders :
  /\ \A c \in cast[s].dead : conn[c] \in {"broken", "gone"}
  /\ \A c \in cast[s].left \cup {cast[s].now} : c = None \/ conn[c] # "new"

\* While the set is left alone, each member has been sent to, has failed, or is to come.
CalmInv == \A s \in Senders : Sending(s) /\ cast[s].calm =>
  /\ ~cast[s].moved
  /\ cast[s].members = clients
  /\ clients \subseteq cast[s].left \cup cast[s].got \cup cast[s].dead \cup {cast[s].now}

CastInv == TypeInv /\ MembersAreConnected /\ DeadInv /\ CalmInv

-----------------------------------------------------------------------------
(* Changes of the set                                                      *)

\* d, a record of q's broadcast, has kept its place; it is calm only if nothing changed.
SamePlace(d, q) ==
  /\ d \in Casts
  /\ d.now = cast[q].now /\ d.left = cast[q].left /\ d.dead = cast[q].dead
  /\ d.got = cast[q].got /\ d.members = cast[q].members
  /\ d = cast[q] \/ ~d.calm
  /\ clients' # clients /\ Sending(q) => ~d.calm

\* The iterators that Disturb tells of a change keep their place.
LEMMA DisturbSame ==
  ASSUME FanoutTypeOK, NEW s \in Senders \cup {None}, NEW q \in Senders, q # s
  PROVE  SamePlace(Disturb(cast, clients', s)[q], q)
<1>1. cast[q] \in Casts
  BY DEF FanoutTypeOK
<1>2. /\ [cast[q] EXCEPT !.moved = TRUE, !.calm = FALSE] \in Casts
      /\ ~[cast[q] EXCEPT !.moved = TRUE, !.calm = FALSE].calm
  BY <1>1 DEF Casts
<1> QED
  BY <1>1, <1>2 DEF Disturb, Sending, Casts, SamePlace

\* Broadcasts that keep their place keep what they have of the invariant.
LEMMA SameKeeps ==
  ASSUME CastInv, NEW q \in Senders, SamePlace(cast'[q], q),
         \A c \in Clients : /\ conn[c] \in {"broken", "gone"} => conn'[c] \in {"broken", "gone"}
                            /\ conn[c] # "new" => conn'[c] # "new"
  PROVE  /\ cast'[q] \in Casts /\ cast'[q].now \notin cast'[q].left
         /\ Sending(q)' <=> Sending(q)
         /\ \A c \in cast'[q].dead : conn'[c] \in {"broken", "gone"}
         /\ \A c \in cast'[q].left \cup {cast'[q].now} : c = None \/ conn'[c] # "new"
         /\ Sending(q)' /\ cast'[q].calm =>
              /\ ~cast'[q].moved
              /\ cast'[q].members = clients'
              /\ clients' \subseteq cast'[q].left \cup cast'[q].got \cup cast'[q].dead
                                    \cup {cast'[q].now}
<1>1. cast[q] \in Casts /\ cast[q].now \notin cast[q].left
  BY DEF CastInv, TypeInv, FanoutTypeOK
<1> QED
  BY <1>1 DEF SamePlace, CastInv, DeadInv, CalmInv, Sending, Casts

\* Connections that come, break and go keep the invariant.
LEMMA ClientKeeps ==
  ASSUME CastInv, NEW c \in Clients, Accept(c) \/ Break(c) \/ Disconnect(c)
  PROVE  CastInv' /\ \A s \in Senders : cast'[s].now = cast[s].now
<1>1. /\ clients' \subseteq Clients
      /\ conn' \in [Clients -> {"new", "open", "broken", "gone"}]
      /\ \A d \in Clients : /\ conn[d] \in {"broken", "gone"} => conn'[d] \in {"broken", "gone"}
                            /\ conn[d] # "new" => conn'[d] # "new"
      /\ MembersAreConnected'
      /\ UNCHANGED <<raised, casts>>
  BY DEF Accept, Break, Disconnect, CastInv, TypeInv, FanoutTypeOK, MembersAreConnected
<1>2. cast' = Disturb(cast, clients', None) \/ UNCHANGED <<cast, clients>>
  BY DEF Accept, Break, Disconnect
<1>3. \A q \in Senders : SamePlace(cast'[q], q)
  <2>1. FanoutTypeOK
    BY DEF CastInv, TypeInv
  <2>2. CASE cast' = Disturb(cast, clients', None)
    BY <2>1, <2>2, DisturbSame, SendersAssumption
  <2>3. CASE UNCHANGED <<cast, clients>>
    BY <2>1, <2>3 DEF SamePlace, FanoutTypeOK
  <2> QED
    BY <1>2, <2>2, <2>3
<1>4. cast' \in [Senders -> Casts]
  BY <1>2, <1>3 DEF SamePlace, Disturb, CastInv, TypeInv, FanoutTypeOK
<1>5. Active' = Active
  BY <1>3 DEF Active, Sending, SamePlace
<1>6. TypeInv'
  BY <1>1, <1>3, <1>4, <1>5, SameKeeps DEF CastInv, TypeInv, FanoutTypeOK, CountInv
<1>7. DeadInv' /\ CalmInv'
  BY <1>1, <1>3, SameKeeps DEF DeadInv, CalmInv
<1> QED
  BY <1>1, <1>3, <1>6, <1>7 DEF CastInv, SamePlace

-----------------------------------------------------------------------------
(* A broadcast                                                             *)

\* A broadcast that begins has all of the set before it.
LEMMA BeginKeeps ==
  ASSUME CastInv, NEW s \in Senders, Begin(s)
  PROVE  CastInv' /\ \A q \in Senders : Sending(q) => cast'[q].now = cast[q].now
<1>1. CASE clients = {}
  <2>1. UNCHANGED <<clients, conn, cast, raised>> /\ casts' = casts + 1 /\ casts < MaxCasts
    BY <1>1 DEF Begin
  <2>2. Active' = Active
    BY <2>1 DEF Active, Sending
  <2>3. TypeInv'
    BY <2>1, <2>2, CastsAssumption, FS_CardinalityType
    DEF CastInv, TypeInv, FanoutTypeOK, CountInv
  <2> QED
    BY <2>1, <2>3 DEF CastInv, MembersAreConnected, DeadInv, CalmInv, Sending
<1>2. CASE clients # {}
  <2> DEFINE new(c) == [Idle EXCEPT !.now = c, !.size = Cardinality(clients),
                                    !.left = clients \ {c}, !.members = clients]
  <2>1. PICK c \in clients : cast' = [cast EXCEPT ![s] = new(c)]
    BY <1>2 DEF Begin
  <2>0. ~Sending(s) /\ casts < MaxCasts /\ casts' = casts + 1 /\ UNCHANGED <<clients, conn, raised>>
    BY DEF Begin
  <2>2. c \in Clients /\ c # None /\ Cardinality(clients) \in 0..Cardinality(Clients)
    BY ClientsAssumption, FS_Subset, FS_CardinalityType DEF CastInv, TypeInv, FanoutTypeOK
  <2>3. /\ new(c) \in Casts /\ new(c).now = c /\ new(c).left = clients \ {c}
        /\ new(c).dead = {} /\ new(c).moved = FALSE /\ new(c).members = clients
    BY <2>2 DEF Casts, Idle, CastInv, TypeInv, FanoutTypeOK
  <2> HIDE DEF new
  <2>4. cast'[s] = new(c) /\ \A q \in Senders \ {s} : cast'[q] = cast[q]
    BY <2>1 DEF CastInv, TypeInv, FanoutTypeOK
  <2>5. Active' = Active \cup {s} /\ s \notin Active
    BY <2>0, <2>2, <2>3, <2>4 DEF Active, Sending
  <2>6. CountInv'
    <3>1. IsFiniteSet(Active) /\ raised + Cardinality(Active) <= casts
      BY DEF CastInv, TypeInv, CountInv
    <3>2. IsFiniteSet(Active') /\ Cardinality(Active') = Cardinality(Active) + 1
      BY <2>5, <3>1, FS_AddElement
    <3>3. Cardinality(Active) \in Nat /\ raised \in Nat /\ casts \in Nat
      BY <3>1, FS_CardinalityType DEF CastInv, TypeInv, FanoutTypeOK
    <3> QED
      BY <2>0, <3>1, <3>2, <3>3 DEF CountInv
  <2>7. TypeInv'
    BY <2>0, <2>1, <2>3, <2>4, <2>6, CastsAssumption DEF CastInv, TypeInv, FanoutTypeOK
  <2>8. MembersAreConnected' /\ DeadInv' /\ CalmInv'
    BY <2>0, <2>1, <2>2, <2>3, <2>4 DEF CastInv, MembersAreConnected, DeadInv, CalmInv, Sending
  <2> QED
    BY <2>0, <2>4, <2>7, <2>8 DEF CastInv
<1> QED
  BY <1>1, <1>2

\* b is the broadcast of s with the outcome of its last send in it.
Outcome(b, s) ==
  /\ b \in Casts
  /\ b.left = cast[s].left /\ b.moved = cast[s].moved
  /\ b.members = cast[s].members /\ b.calm = cast[s].calm
  /\ \A c \in b.dead : conn[c] \in {"broken", "gone"}
  /\ b.calm => clients \subseteq b.left \cup b.got \cup b.dead

\* A broadcast that ends makes room for the exception it may have raised.
LEMMA OneLess ==
  ASSUME CountInv, NEW s \in Active
  PROVE  /\ IsFiniteSet(Active \ {s})
         /\ Cardinality(Active \ {s}) = Cardinality(Active) - 1
         /\ Cardinality(Active) \in Nat
<1>1. IsFiniteSet(Active)
  BY DEF CountInv
<1> QED
  BY <1>1, FS_RemoveElement, FS_CardinalityType

\* The rest of a turn of the loop keeps the invariant, takes only broken connections out
\* of the set, and ends a calm broadcast only with everybody sent to or down.
LEMMA ProceedKeeps ==
  ASSUME CastInv, NEW s \in Senders, Sending(s), NEW b, Outcome(b, s),
         Proceed(s, b), UNCHANGED <<conn, casts>>
  PROVE  /\ CastInv'
         /\ \A q \in Senders \ {s} : cast'[q].now = cast[q].now
         /\ b.calm /\ raised' = raised /\ cast'[s].now = None =>
              b.members \subseteq b.got \cup b.dead
<1> USE SendersAssumption
<1>1. /\ FanoutTypeOK /\ Active \cap {s} = {s}
      /\ Idle \in Casts /\ Idle.now = None /\ Idle.left = {} /\ Idle.dead = {}
      /\ b.calm => ~b.moved /\ b.members = clients
  BY FS_CardinalityType, ClientsAssumption
  DEF CastInv, TypeInv, Active, Idle, Casts, CalmInv, Outcome
<1>2. CASE raised' = raised + 1 /\ cast' = [cast EXCEPT ![s] = Idle] /\ UNCHANGED clients
  <2>1. cast'[s] = Idle /\ \A q \in Senders \ {s} : cast'[q] = cast[q]
    BY <1>1, <1>2 DEF FanoutTypeOK
  <2>2. Active' = Active \ {s}
    BY <1>1, <2>1 DEF Active, Sending
  <2>3. CountInv'
    BY <1>1, <1>2, <2>2, OneLess DEF CastInv, TypeInv, CountInv, FanoutTypeOK
  <2>4. TypeInv'
    <3>1. raised' \in 0..MaxCasts
      BY <1>1, <1>2, <2>3, FS_CardinalityType, CastsAssumption DEF FanoutTypeOK, CountInv
    <3> QED
      BY <1>1, <1>2, <2>1, <2>3, <3>1 DEF TypeInv, FanoutTypeOK
  <2> QED
    BY <1>1, <1>2, <2>1, <2>4
    DEF CastInv, MembersAreConnected, DeadInv, CalmInv, Sending, FanoutTypeOK
<1>3. CASE /\ UNCHANGED raised /\ {} \in Remaining(b)
           /\ clients' = clients \ b.dead
           /\ cast' = [Disturb(cast, clients', s) EXCEPT ![s] = Idle]
  <2>1. cast'[s] = Idle /\ \A q \in Senders \ {s} : SamePlace(cast'[q], q)
    <3>1. DOMAIN Disturb(cast, clients', s) = Senders
      BY DEF Disturb
    <3>2. \A q \in Senders \ {s} : cast'[q] = Disturb(cast, clients', s)[q]
      BY <1>3, <3>1
    <3>3. cast'[s] = Idle
      BY <1>3, <3>1
    <3> QED
      BY <1>1, <3>2, <3>3, DisturbSame
  <2>2. \A q \in Senders \ {s} :
          /\ cast'[q] \in Casts /\ cast'[q].now \notin cast'[q].left
          /\ Sending(q)' <=> Sending(q)
          /\ \A c \in cast'[q].dead : conn'[c] \in {"broken", "gone"}
          /\ \A c \in cast'[q].left \cup {cast'[q].now} : c = None \/ conn'[c] # "new"
          /\ Sending(q)' /\ cast'[q].calm =>
               /\ ~cast'[q].moved
               /\ cast'[q].members = clients'
               /\ clients' \subseteq cast'[q].left \cup cast'[q].got \cup cast'[q].dead
                                     \cup {cast'[q].now}
    BY <2>1, SameKeeps
  <2>3. Active' = Active \ {s}
    BY <1>1, <2>1, <2>2 DEF Active, Sending
  <2>4. CountInv'
    BY <1>1, <1>3, <2>3, OneLess DEF CastInv, TypeInv, CountInv, FanoutTypeOK
  <2>5. cast' \in [Senders -> Casts]
    BY <1>1, <1>3, <2>1, <2>2 DEF Disturb
  <2>6. TypeInv'
    BY <1>1, <1>3, <2>1, <2>2, <2>4, <2>5 DEF TypeInv, FanoutTypeOK
  <2>7. MembersAreConnected'
    BY <1>3 DEF CastInv, MembersAreConnected, Outcome
  <2>8. DeadInv' /\ CalmInv'
    BY <1>1, <2>1, <2>2 DEF DeadInv, CalmInv, Sending
  <2>9. b.calm => b.members \subseteq b.got \cup b.dead
    BY <1>1, <1>3 DEF Remaining, Outcome
  <2> QED
    BY <2>1, <2>6, <2>7, <2>8, <2>9 DEF CastInv, SamePlace
<1>4. ASSUME NEW left \in Remaining(b), NEW c \in left, UNCHANGED <<raised, clients>>,
             cast' = [cast EXCEPT ![s] = [b EXCEPT !.now = c, !.left = left \ {c},
                                                   !.moved = FALSE]]
      PROVE  /\ CastInv' /\ \A q \in Senders \ {s} : cast'[q].now = cast[q].now
             /\ cast'[s].now # None
  <2> DEFINE d == [b EXCEPT !.now = c, !.left = left \ {c}, !.moved = FALSE]
  <2>1. left \subseteq Clients /\ c # None /\ (b.calm => left = b.left)
    BY <1>1, ClientsAssumption DEF Remaining, Outcome, Casts, FanoutTypeOK
  <2>2. /\ d \in Casts /\ d.now = c /\ d.left = left \ {c} /\ d.moved = FALSE
        /\ d.dead = b.dead /\ d.got = b.got /\ d.members = b.members /\ d.calm = b.calm
    BY <2>1 DEF Casts, Outcome
  <2> HIDE DEF d
  <2>3. cast'[s] = d /\ \A q \in Senders \ {s} : cast'[q] = cast[q]
    BY <1>1, <1>4 DEF FanoutTypeOK, d
  <2>4. Active' = Active
    BY <1>1, <2>1, <2>2, <2>3 DEF Active, Sending
  <2>5. TypeInv'
    BY <1>1, <1>4, <2>2, <2>3, <2>4 DEF CastInv, TypeInv, FanoutTypeOK, CountInv, d
  <2>6. MembersAreConnected' /\ DeadInv'
    BY <1>4, <2>2, <2>3 DEF CastInv, MembersAreConnected, DeadInv, Outcome, Remaining
  <2>7. CalmInv'
    BY <1>1, <1>4, <2>1, <2>2, <2>3 DEF CastInv, CalmInv, Outcome, Sending
  <2> QED
    BY <2>1, <2>2, <2>3, <2>5, <2>6, <2>7 DEF CastInv
<1> QED
  BY <1>1, <1>2, <1>3, <1>4 DEF Proceed, CastInv, TypeInv, FanoutTypeOK

\* So does every send: the outcome of one that failed names a connection that is not open.
LEMMA SendKeeps ==
  ASSUME CastInv, NEW s \in Senders, Send(s)
  PROVE  /\ CastInv'
         /\ \A q \in Senders \ {s} : cast'[q].now = cast[q].now
         /\ cast[s].calm /\ raised' = raised /\ cast'[s].now = None =>
              \A c \in cast[s].members : \/ c \in cast[s].got \cup {cast[s].now}
                                         \/ conn[c] # "open"
<1>1. /\ Sending(s) /\ cast[s] \in Casts /\ cast[s].now \in Clients
      /\ conn[cast[s].now] \in {"new", "open", "broken", "gone"}
  BY DEF Send, SendOK, SendFails, Sending, CastInv, TypeInv, FanoutTypeOK, Casts
<1>2. CASE SendOK(s)
  <2> DEFINE b == [cast[s] EXCEPT !.got = @ \cup {cast[s].now}]
  <2>1. b.got = cast[s].got \cup {cast[s].now} /\ b.dead = cast[s].dead
    BY <1>1 DEF Casts
  <2>2. Outcome(b, s)
    BY <1>1, <2>1 DEF Casts, Outcome, CastInv, DeadInv, CalmInv
  <2>3. Proceed(s, b) /\ UNCHANGED <<conn, casts>>
    BY <1>2 DEF SendOK
  <2> HIDE DEF b
  <2> QED
    BY <1>1, <2>1, <2>2, <2>3, ProceedKeeps DEF Outcome
<1>3. CASE SendFails(s)
  <2> DEFINE b == [cast[s] EXCEPT !.dead = @ \cup {cast[s].now}]
  <2>0. conn[cast[s].now] \in {"broken", "gone"}
    BY <1>1, <1>3 DEF SendFails, CastInv, DeadInv, Sending
  <2>1. b.dead = cast[s].dead \cup {cast[s].now} /\ b.got = cast[s].got
    BY <1>1 DEF Casts
  <2>2. Outcome(b, s)
    BY <1>1, <2>0, <2>1 DEF Casts, Outcome, CastInv, DeadInv, CalmInv
  <2>3. Proceed(s, b) /\ UNCHANGED <<conn, casts>>
    BY <1>3 DEF SendFails
  <2> HIDE DEF b
  <2> QED
    BY <1>1, <2>0, <2>1, <2>2, <2>3, ProceedKeeps DEF Outcome
<1> QED
  BY <1>2, <1>3 DEF Send

-----------------------------------------------------------------------------
(* The theorems                                                            *)

\* Every step keeps the invariant.
LEMMA CastInductive == CastInv /\ [FanoutNext]_fanoutVars => CastInv'
<1> SUFFICES ASSUME CastInv, [FanoutNext]_fanoutVars PROVE CastInv'
  OBVIOUS
<1>1. CASE UNCHANGED fanoutVars
  BY <1>1 DEF fanoutVars, CastInv, TypeInv, FanoutTypeOK, CountInv, Active, Sending, MembersAreConnected,
              DeadInv, CalmInv
<1> QED
  BY <1>1, ClientKeeps, BeginKeeps, SendKeeps DEF FanoutNext

\* The broadcast's invariant, from which the two theorems below follow: every variable
\* keeps to its values, no more broadcasts raise than were made, and what each one has
\* sent, found broken and left to do makes up the set while nothing disturbs it.
THEOREM CastInvHolds == FanoutSpec => []CastInv
<1>1. FanoutInit => CastInv
  <2> SUFFICES ASSUME FanoutInit PROVE CastInv
    OBVIOUS
  <2>1. Active = {} /\ \A s \in Senders : ~Sending(s) /\ cast[s].dead = {} /\ cast[s].left = {}
    BY DEF FanoutInit, Active, Sending, Idle
  <2>2. CountInv
    BY <2>1, FS_EmptySet DEF FanoutInit, CountInv
  <2>3. Idle \in Casts
    BY ClientsAssumption, FS_CardinalityType DEF Idle, Casts
  <2>4. FanoutTypeOK
    BY <2>1, <2>3, CastsAssumption DEF FanoutInit, FanoutTypeOK
  <2> QED
    BY <2>1, <2>2, <2>4 DEF FanoutInit, CastInv, TypeInv, MembersAreConnected, DeadInv, CalmInv, Sending
<1> QED
  BY <1>1, CastInductive, PTL DEF FanoutSpec

\* However broadcasts, arrivals and departures interleave, the set holds every working
\* connection and no connection that is over.
THEOREM MembersHold == FanoutSpec => []MembersAreConnected
<1>1. CastInv => MembersAreConnected
  BY DEF CastInv
<1> QED
  BY <1>1, CastInvHolds, PTL

\* A broadcast that nobody disturbed and that returns has reached every client whose
\* connection works, whichever sends failed.
THEOREM CalmCastsHold == FanoutSpec => CalmCastsReachAll
<1> DEFINE Reaches(s) ==
      Sending(s) /\ cast'[s].now = None /\ cast[s].calm /\ raised' = raised =>
        \A c \in cast[s].members : \/ c \in cast[s].got \cup {cast[s].now}
                                   \/ conn[c] # "open"
<1>1. CastInv /\ [FanoutNext]_fanoutVars => [\A s \in Senders : Reaches(s)]_fanoutVars
  <2> SUFFICES ASSUME CastInv, FanoutNext, NEW s \in Senders PROVE Reaches(s)
    OBVIOUS
  <2>1. ASSUME NEW q \in Senders, q # s, Begin(q) \/ Send(q) PROVE Reaches(s)
    BY <2>1, BeginKeeps, SendKeeps DEF Sending
  <2>2. CASE Begin(s)
    BY <2>2 DEF Begin
  <2>3. CASE Send(s)
    BY <2>3, SendKeeps
  <2>4. ASSUME NEW c \in Clients, Accept(c) \/ Break(c) \/ Disconnect(c) PROVE Reaches(s)
    BY <2>4, ClientKeeps DEF Sending
  <2> QED
    BY <2>1, <2>2, <2>3, <2>4 DEF FanoutNext
<1> QED
  BY <1>1, CastInvHolds, PTL DEF FanoutSpec, CalmCastsReachAll

-----------------------------------------------------------------------------
(* The browser's hook                                                      *)

\* A socket's chain goes on: it is up, going down, or about to be replaced.
Lasting(i) == sock[i] = "closing" \/ i \in Going

\* At most one chain per url, which Drops and Fires hand on: a closing socket counts,
\* because its onclose may still set a timer.
ChainInv ==
  /\ \A i \in timers : sock[i] = "closed"
  /\ \A i \in 1..made : sockUrl[i] \in 1..url
  /\ \A i, j \in Sockets : Lasting(i) /\ Lasting(j) /\ sockUrl[i] = sockUrl[j] => i = j

\* A mounted component holds in its refs something its cleanup will end, and has a chain for
\* its url; one that is gone has ended the chain of some url and sets no more timers.
RefInv ==
  /\ mounted => /\ url > 0 /\ ~unmounted /\ (wsRef \in Live \/ timerRef \in timers)
                /\ \E i \in Going : sockUrl[i] = url
  /\ ~mounted => \/ url = 0 /\ made = 0
                 \/ /\ url > 0 /\ unmounted
                    /\ \E u \in 1..url : \A i \in Going : sockUrl[i] # u

HookInv == TypeOK /\ ChainInv /\ RefInv

\* Every variable of the hook keeps to its values: no ref or timer names a socket that was
\* never made, and the delay stays between its limits however often it is doubled.
THEOREM HookTypeCorrect == Spec => []TypeOK
<1> USE HookAssumption DEF TypeOK, Sockets, Urls, InitialDelay, MaxDelay
<1>1. Init => TypeOK
  <2>1. Init => mounted \in BOOLEAN /\ unmounted \in BOOLEAN
    BY Zenon DEF Init
  <2> QED
    BY <2>1 DEF Init
<1>2. TypeOK /\ [Next]_vars => TypeOK'
  <2> SUFFICES ASSUME TypeOK, [Next]_vars PROVE TypeOK'
    OBVIOUS
  <2>1. Closed \in [Sockets -> {"none", "connecting", "open", "closing", "closed"}]
        /\ \A i \in Sockets : Closed[i] = "none" <=> sock[i] = "none"
    BY DEF Closed, Live
  <2>2. ASSUME NEW u \in 0..MaxUrls, NEW table,
               table \in [Sockets -> {"none", "connecting", "open", "closing", "closed"}],
               \A i \in Sockets : table[i] = "none" <=> sock[i] = "none",
               Connect(u, table)
        PROVE  /\ sock' \in [Sockets -> {"none", "connecting", "open", "closing", "closed"}]
               /\ sockUrl' \in [Sockets -> 0..MaxUrls]
               /\ made' = made + 1 /\ made' \in 0..MaxSockets /\ wsRef' \in 0..made'
               /\ \A i \in Sockets : i > made' <=> sock'[i] = "none"
    BY <2>2 DEF Connect
  <2>0. mounted' \in BOOLEAN /\ unmounted' \in BOOLEAN
    BY Zenon DEF Next, Mount, ChangeUrl, Unmount, Opens, Drops, Fires, vars
  <2>3. CASE Mount
    BY <2>0, <2>2, <2>3 DEF Mount
  <2>4. CASE ChangeUrl
    <3>1. url + 1 \in 0..MaxUrls /\ Connect(url + 1, Closed)
      BY <2>4 DEF ChangeUrl
    <3>2. /\ sock' \in [Sockets -> {"none", "connecting", "open", "closing", "closed"}]
          /\ sockUrl' \in [Sockets -> 0..MaxUrls]
          /\ made' = made + 1 /\ made' \in 0..MaxSockets /\ wsRef' \in 0..made'
          /\ \A i \in Sockets : i > made' <=> sock'[i] = "none"
      BY <2>1, <2>2, <3>1
    <3> QED
      BY <2>0, <2>4, <3>1, <3>2 DEF ChangeUrl
  <2>5. CASE Unmount
    BY <2>0, <2>1, <2>5 DEF Unmount
  <2>6. ASSUME NEW i \in Sockets, Opens(i) \/ Drops(i) PROVE TypeOK'
    <3>1. /\ sock' \in [Sockets -> {"none", "connecting", "open", "closing", "closed"}]
          /\ \A j \in Sockets : sock'[j] = "none" <=> sock[j] = "none"
      BY <2>6 DEF Opens, Drops
    <3>2. delay' \in 1..30
      <4>1. \/ delay' = 1 \/ delay' = delay
            \/ delay' = IF 2 * delay < 30 THEN 2 * delay ELSE 30
        BY <2>6, Zenon DEF Opens, Drops
      <4>2. delay \in 1..30
        OBVIOUS
      <4> HIDE DEF TypeOK
      <4>3. CASE delay' = 1 \/ delay' = delay
        BY <4>2, <4>3
      <4>4. CASE delay' = IF 2 * delay < 30 THEN 2 * delay ELSE 30
        BY <4>2, <4>4
      <4> QED
        BY <4>1, <4>3, <4>4
    <3>3. i \in 1..made
      BY <2>6 DEF Opens, Drops
    <3>4. timers' \subseteq 1..made /\ timerRef' \in 0..made
      <4>1. \/ timers' = timers /\ timerRef' = timerRef
            \/ timers' = timers \cup {i} /\ timerRef' = i
        BY <2>6 DEF Opens, Drops
      <4>2. made \in Nat /\ timers \subseteq 1..made /\ timerRef \in 0..made
        OBVIOUS
      <4> HIDE DEF TypeOK
      <4>3. timers' \subseteq timers \cup {i} /\ timerRef' \in {timerRef, i}
        BY <4>1
      <4>4. timers' \subseteq 1..made
        BY <3>3, <4>2, <4>3
      <4> QED
        BY <3>3, <4>2, <4>3, <4>4
    <3> QED
      BY <2>0, <2>6, <3>1, <3>2, <3>4 DEF Opens, Drops
  <2>7. ASSUME NEW i \in Sockets, Fires(i) PROVE TypeOK'
    BY <2>0, <2>2, <2>7 DEF Fires
  <2>8. CASE UNCHANGED vars
    BY <2>8 DEF vars
  <2> QED
    BY <2>3, <2>4, <2>5, <2>6, <2>7, <2>8 DEF Next
<1> QED
  BY <1>1, <1>2, PTL DEF Spec

-----------------------------------------------------------------------------
(* Chains                                                                  *)

\* A connection made for url u, which no chain that goes on afterwards is for, is a new
\* chain or takes one over.
LEMMA ConnectChains ==
  ASSUME TypeOK, ChainInv, NEW u, NEW table, Connect(u, table),
         table \in [Sockets -> {"none", "connecting", "open", "closing", "closed"}],
         \A i \in Sockets : table[i] = "none" <=> sock[i] = "none",
         timers' \subseteq timers, url \in Nat, url' \in Nat, url <= url', u \in 1..url',
         \A i \in timers' : table[i] = "closed",
         \A i \in Sockets : table[i] \in {"connecting", "open", "closing"} =>
                              sock[i] \in {"connecting", "open", "closing"},
         \A i \in 1..made : i \in timers' \/ sock[i] \in {"connecting", "open", "closing"} =>
                              sockUrl[i] # u
  PROVE  ChainInv'
<1>1. /\ made \in Nat /\ made' = made + 1 /\ made + 1 \in Sockets /\ 1..made \subseteq Sockets
      /\ sock'[made + 1] = "connecting" /\ sockUrl'[made + 1] = u
      /\ \A i \in Sockets \ {made + 1} : sock'[i] = table[i] /\ sockUrl'[i] = sockUrl[i]
      /\ made + 1 \notin timers /\ sock[made + 1] = "none"
  BY HookAssumption DEF Connect, TypeOK, Sockets
<1>2. \A i \in timers' : sock'[i] = "closed"
  BY <1>1 DEF TypeOK
<1>3. \A i \in 1..made' : sockUrl'[i] \in 1..url'
  BY <1>1 DEF ChainInv
<1>4. ASSUME NEW i \in Sockets, Lasting(i)', i # made + 1
      PROVE  i \in 1..made /\ Lasting(i) /\ sockUrl'[i] = sockUrl[i] /\ sockUrl[i] # u
  <2>1. CASE i \in 1..made
    BY <1>1, <1>4, <2>1 DEF Lasting, Going, Live
  <2>2. CASE i \notin 1..made
    <3>1. i > made /\ sock[i] = "none" /\ i \notin timers
      BY <1>1, <1>4, <2>2 DEF TypeOK, Sockets
    <3> QED
      BY <1>1, <1>4, <2>2, <3>1 DEF Lasting, Going, Live
  <2> QED
    BY <2>1, <2>2
<1>5. ASSUME NEW i \in Sockets, NEW j \in Sockets, Lasting(i)', Lasting(j)', sockUrl'[i] = sockUrl'[j]
      PROVE  i = j
  BY <1>1, <1>4, <1>5 DEF ChainInv
<1> QED
  BY <1>2, <1>3, <1>5 DEF ChainInv

\* Every step keeps the chains apart.
LEMMA StepChains ==
  ASSUME HookInv, Next
  PROVE  ChainInv'
<1> USE DEF HookInv
<1>1. /\ made \in Nat /\ url \in Nat /\ 1..made \subseteq Sockets
      /\ timers \subseteq 1..made
      /\ \A i \in Sockets : sock[i] # "none" => i \in 1..made
  BY HookAssumption DEF TypeOK, Sockets
<1>2. /\ Closed \in [Sockets -> {"none", "connecting", "open", "closing", "closed"}]
      /\ \A i \in Sockets : /\ Closed[i] = "none" <=> sock[i] = "none"
                            /\ Closed[i] = "closed" <=> sock[i] = "closed"
                            /\ Closed[i] \in {"connecting", "open", "closing"} =>
                                 sock[i] \in {"connecting", "open", "closing"}
  BY DEF Closed, Live, TypeOK
<1>3. CASE Mount
  <2>1. made = 0 /\ url = 0
    BY <1>3 DEF Mount, RefInv
  <2>2. Connect(1, sock) /\ url' = 1 /\ timers' = timers /\ timers = {}
    BY <1>1, <1>3, <2>1 DEF Mount
  <2> QED
    BY <1>1, <2>1, <2>2, ConnectChains DEF TypeOK
<1>4. CASE ChangeUrl
  <2>1. Connect(url + 1, Closed) /\ url' = url + 1 /\ timers' \subseteq timers
    BY <1>4 DEF ChangeUrl
  <2>2. /\ \A i \in timers' : Closed[i] = "closed"
        /\ \A i \in 1..made : sockUrl[i] # url + 1
    BY <1>1, <1>2, <2>1 DEF ChainInv
  <2> QED
    BY <1>1, <1>2, <2>1, <2>2, ConnectChains
<1>5. CASE Unmount
  BY <1>1, <1>2, <1>5 DEF Unmount, ChainInv, Lasting, Going, Live
<1>6. ASSUME NEW i \in Sockets, Opens(i) \/ Drops(i) PROVE ChainInv'
  <2>1. \A j \in Sockets : Lasting(j)' => Lasting(j)
    BY <1>6 DEF Opens, Drops, Lasting, Going, Live, TypeOK
  <2>2. \A j \in timers' : sock'[j] = "closed"
    BY <1>1, <1>6 DEF Opens, Drops, ChainInv, TypeOK
  <2>3. UNCHANGED <<made, sockUrl, url>>
    BY <1>6 DEF Opens, Drops
  <2> QED
    BY <2>1, <2>2, <2>3 DEF ChainInv
<1>7. ASSUME NEW i \in Sockets, Fires(i) PROVE ChainInv'
  <2>1. /\ Connect(sockUrl[i], sock) /\ timers' = timers \ {i} /\ url' = url /\ i \in timers
        /\ sock[i] = "closed" /\ sockUrl[i] \in 1..url
    BY <1>1, <1>7 DEF Fires, ChainInv
  <2>2. \A j \in 1..made : j \in timers' \/ sock[j] \in {"connecting", "open", "closing"} =>
                             sockUrl[j] # sockUrl[i]
    BY <1>1, <2>1 DEF ChainInv, Lasting, Going, Live
  <2>3. \A j \in timers' : sock[j] = "closed"
    BY <2>1 DEF ChainInv
  <2> QED
    BY <1>1, <2>1, <2>2, <2>3, ConnectChains DEF TypeOK
<1> QED
  BY <1>3, <1>4, <1>5, <1>6, <1>7 DEF Next

\* Every step keeps what the refs hold and what a component that is gone leaves behind.
LEMMA StepRefs ==
  ASSUME HookInv, Next, TypeOK', ChainInv'
  PROVE  RefInv'
<1> USE DEF HookInv
<1>1. /\ made \in Nat /\ url \in Nat /\ made + 1 \notin timers
      /\ timers \subseteq 1..made /\ Live \subseteq 1..made /\ 1..made \subseteq Sockets
  <2>1. made \in Nat /\ made <= MaxSockets /\ url \in Nat /\ timers \subseteq 1..made
    BY HookAssumption DEF TypeOK
  <2>2. \A i \in Sockets : sock[i] # "none" => i \in 1..made
    BY <2>1 DEF TypeOK, Sockets
  <2> QED
    BY <2>1, <2>2, HookAssumption DEF Live, Sockets
<1>2. \A i, j \in Going : sockUrl[i] = sockUrl[j] => i = j
  BY <1>1 DEF ChainInv, Lasting, Going
<1>3. CASE Mount \/ ChangeUrl
  <2>1. wsRef' \in Live' /\ sockUrl'[wsRef'] = url'
    BY <1>3, <1>1, HookAssumption DEF Mount, ChangeUrl, Connect, Live, TypeOK, Sockets, Closed
  <2>2. mounted' /\ url' > 0 /\ ~unmounted'
    BY <1>1, <1>3 DEF Mount, ChangeUrl
  <2> QED
    BY <2>1, <2>2 DEF RefInv, Going
<1>4. CASE Unmount
  <2>1. /\ Live' = Live \ {wsRef} /\ timers' = timers \ {timerRef}
        /\ url' = url /\ sockUrl' = sockUrl /\ url > 0 /\ ~mounted' /\ unmounted'
        /\ wsRef \in Live \/ timerRef \in timers
    BY <1>4 DEF Unmount, Live, Closed, RefInv, TypeOK
  <2>2. Live \cap timers = {}
    BY DEF ChainInv, Live
  <2>3. PICK i \in Going : i \notin Going'
    BY <2>1, <2>2 DEF Going
  <2>4. sockUrl[i] \in 1..url /\ \A j \in Going' : sockUrl'[j] # sockUrl[i]
    BY <1>1, <1>2, <2>1, <2>3 DEF ChainInv, Going
  <2> QED
    BY <2>1, <2>4 DEF RefInv
<1>5. ASSUME NEW i \in Sockets, Opens(i) PROVE RefInv'
  <2>1. /\ Live' = Live
        /\ UNCHANGED <<mounted, url, unmounted, sockUrl, made, wsRef, timers, timerRef>>
    BY <1>5 DEF Opens, Live, TypeOK
  <2> QED
    BY <1>1, <2>1 DEF RefInv, Going
<1>6. ASSUME NEW i \in Sockets, Drops(i) PROVE RefInv'
  <2>1. Live' = Live \ {i} /\ UNCHANGED <<mounted, url, unmounted, sockUrl, made, wsRef>>
    BY <1>6 DEF Drops, Live, TypeOK
  <2>2. CASE mounted
    <3>1. timers' = timers \cup {i} /\ timerRef' = i
      BY <1>6, <2>2 DEF Drops, RefInv
    <3> QED
      BY <2>1, <2>2, <3>1 DEF RefInv, Going
  <2>3. CASE ~mounted
    <3>1. /\ url > 0 /\ unmounted
          /\ \E u \in 1..url : \A j \in Going : sockUrl[j] # u
      <4>1. made # 0
        BY <1>1, <1>6, HookAssumption DEF Drops, TypeOK, Sockets
      <4> QED
        BY <2>3, <4>1 DEF RefInv
    <3>2. timers' = timers
      BY <1>6, <3>1 DEF Drops
    <3> QED
      BY <2>1, <2>3, <3>1, <3>2 DEF RefInv, Going
  <2> QED
    BY <2>2, <2>3
<1>7. ASSUME NEW i \in Sockets, Fires(i) PROVE RefInv'
  <2>1. /\ Live' = Live \cup {made + 1} /\ timers' = timers \ {i} /\ i \in timers
        /\ wsRef' = made + 1 /\ sockUrl'[made + 1] = sockUrl[i]
        /\ \A j \in 1..made : sockUrl'[j] = sockUrl[j]
        /\ UNCHANGED <<mounted, url, unmounted, timerRef>>
    BY <1>1, <1>7, HookAssumption DEF Fires, Connect, Live, TypeOK, Sockets
  <2>2. made # 0
    BY <1>1, <2>1
  <2>3. /\ \A j \in Going : \E k \in Going' : sockUrl'[k] = sockUrl[j]
        /\ \A k \in Going' : \E j \in Going : sockUrl'[k] = sockUrl[j]
    BY <1>1, <2>1 DEF Going
  <2>4. CASE mounted
    BY <2>1, <2>3, <2>4 DEF RefInv
  <2>5. CASE ~mounted
    BY <2>1, <2>2, <2>3, <2>5 DEF RefInv
  <2> QED
    BY <2>4, <2>5
<1> QED
  BY <1>3, <1>4, <1>5, <1>6, <1>7 DEF Next

\* However often the url changes and connections drop, no url has two connections or
\* attempts at one, that of a mounted component has one, and a component that is gone has
\* ended that of some url.
THEOREM OnePerUrlHolds == Spec => []OnePerUrl
<1>1. Init => ChainInv /\ RefInv
  <2> SUFFICES ASSUME Init PROVE ChainInv /\ RefInv
    OBVIOUS
  <2>1. /\ timers = {} /\ made = 0 /\ url = 0 /\ mounted = FALSE
        /\ \A i \in Sockets : ~Lasting(i)
    BY DEF Init, Lasting, Going, Live
  <2> QED
    BY <2>1 DEF ChainInv, RefInv
<1>2. HookInv /\ TypeOK' /\ [Next]_vars => ChainInv' /\ RefInv'
  <2>1. CASE UNCHANGED vars
    BY <2>1 DEF vars, HookInv, ChainInv, RefInv, Lasting, Going, Live
  <2> QED
    BY <2>1, StepChains, StepRefs
<1>3. HookInv => OnePerUrl
  <2> SUFFICES ASSUME HookInv PROVE OnePerUrl
    OBVIOUS
  <2>1. timers \subseteq Sockets /\ Live \subseteq Sockets
    BY HookAssumption DEF HookInv, TypeOK, Live, Sockets
  <2>2. \A i, j \in Going : sockUrl[i] = sockUrl[j] => i = j
    BY <2>1 DEF HookInv, ChainInv, Lasting, Going
  <2>3. /\ mounted => \E i \in Going : sockUrl[i] = url
        /\ ~mounted /\ url # 0 => \E u \in 1..url : \A i \in Going : sockUrl[i] # u
    BY DEF HookInv, RefInv
  <2> QED
    BY <2>2, <2>3 DEF OnePerUrl
<1> QED
  BY <1>1, <1>2, <1>3, HookTypeCorrect, PTL DEF Spec, HookInv

-----------------------------------------------------------------------------
(* The server's price stream                                               *)

\* What must hold for InSync to survive the next step: of a ticker that is not doubtful,
\* either no call to the newest stream is on its way and its handlers agree with
\* _subscribed, or the only call there is will make them agree.
About(k, t) == call[k].op # "none" /\ call[k].ticker = t
Reaches(k, t) == About(k, t) /\ call[k].stream = built
Settled(t) == (t \in handlers <=> t \in subscribed) /\ \A k \in Calls : ~Reaches(k, t)
Settling(t) == \E k \in Calls : /\ Reaches(k, t)
                                /\ (call[k].op = "subscribe" <=> t \in subscribed)
                                /\ \A j \in Calls \ {k} : ~About(j, t)
Fresh == thread \in {"publish", "run", "running"}

SyncInv ==
  /\ stream \in {0, built}
  /\ \A k \in Calls : call[k].op # "none" =>
       call[k].stream <= built /\ (thread = "publish" => call[k].stream < built)
  /\ Fresh => \A t \in Tickers \ doubtful : Settled(t) \/ Settling(t)

\* StreamTypeOK alone is not inductive: what is published is a stream that was built.
StreamInv == StreamTypeOK /\ (thread = "publish" => built # 0)

\* Every variable of the stream keeps to its values, and a stream is published exactly from
\* its publication until _stream is cleared.
THEOREM StreamTypeCorrect == StreamSpec => []StreamTypeOK
<1> USE StreamAssumption DEF StreamInv, StreamTypeOK
<1>1. StreamInit => StreamInv
  <2>1. StreamInit => told \in BOOLEAN /\ stopping \in BOOLEAN /\ call \in [Calls -> CallRecords]
    BY Zenon DEF StreamInit, CallRecords
  <2> QED
    BY <2>1 DEF StreamInit
<1>2. StreamInv /\ [StreamNext]_streamVars => StreamInv'
  <2> SUFFICES ASSUME StreamInv, [StreamNext]_streamVars PROVE StreamInv'
    OBVIOUS
  <2>1. ASSUME NEW k \in Calls, NEW t \in Tickers, Subscribe(k, t) \/ Unsubscribe(k, t)
        PROVE  StreamInv'
    <3>1. call' \in [Calls -> CallRecords]
      BY <2>1 DEF Subscribe, Unsubscribe, Request, CallRecords
    <3> QED
      BY <2>1, <3>1 DEF Subscribe, Unsubscribe, Request, threadVars, stopVars
  <2>2. ASSUME NEW k \in Calls, Deliver(k) PROVE StreamInv'
    BY <2>2 DEF Deliver, stopVars, CallRecords, NoCall
  <2>3. CASE Build
    <3>1. told' \in BOOLEAN
      BY <2>3, Zenon DEF Build
    <3> QED
      BY <2>3, <3>1 DEF Build, stopVars
  <2>4. CASE Exit \/ PublishStream \/ Run \/ RunEnds \/ Clear \/ Retry
    <3>1. UNCHANGED <<told, stopping>>
      BY <2>4 DEF Exit, PublishStream, Run, RunEnds, Clear, Retry, stopVars
    <3> QED
      BY <2>4, <3>1 DEF Exit, PublishStream, Run, RunEnds, Clear, Retry, loopVars, stopVars
  <2>5. CASE StopSet \/ StopStep
    BY <2>5 DEF StopSet, StopStep, StopRead, StopTell, loopVars, threadVars
  <2>6. CASE UNCHANGED streamVars
    BY <2>6 DEF streamVars
  <2> QED
    BY <2>1, <2>2, <2>3, <2>4, <2>5, <2>6 DEF StreamNext, ThreadStep
<1>3. StreamInv => StreamTypeOK
  OBVIOUS
<1> QED
  BY <1>1, <1>2, <1>3, PTL DEF StreamSpec

\* A subscribe or unsubscribe keeps SyncInv: it is the only call about its ticker, or makes
\* the ticker doubtful.
LEMMA RequestSync ==
  ASSUME StreamTypeOK, SyncInv, NEW k \in Calls, NEW t \in Tickers,
         Subscribe(k, t) \/ Unsubscribe(k, t)
  PROVE  SyncInv'
<1> PICK op \in {"subscribe", "unsubscribe"} :
      /\ Request(k, op, t)
      /\ op = "subscribe" <=> t \in subscribed'
      /\ \A u \in Tickers \ {t} : u \in subscribed' <=> u \in subscribed
  BY DEF Subscribe, Unsubscribe
<1>1. /\ call[k].op = "none" /\ \A j \in Calls \ {k} : call'[j] = call[j]
      /\ call'[k] = IF stream = 0 THEN NoCall ELSE [op |-> op, ticker |-> t, stream |-> stream]
      /\ UNCHANGED <<stream, thread, built, handlers>>
      /\ doubtful \subseteq doubtful'
  BY DEF Request, threadVars, StreamTypeOK
<1>2. /\ stream' \in {0, built'}
      /\ \A j \in Calls : call'[j].op # "none" =>
           call'[j].stream <= built' /\ (thread' = "publish" => call'[j].stream < built')
  BY <1>1 DEF SyncInv, StreamTypeOK, NoCall
<1>3. ASSUME Fresh, NEW u \in Tickers \ {t}, u \notin doubtful
      PROVE  (Settled(u) \/ Settling(u))'
  <2>1. \A j \in Calls : /\ About(j, u)' <=> About(j, u)
                         /\ Reaches(j, u)' <=> Reaches(j, u)
                         /\ About(j, u) => call'[j] = call[j]
    BY <1>1 DEF About, Reaches, NoCall
  <2>2. Settled(u) \/ Settling(u)
    BY <1>3 DEF SyncInv
  <2> QED
    BY <1>1, <2>1, <2>2 DEF Settled, Settling, Reaches
<1>4. ASSUME Fresh, t \notin doubtful'
      PROVE  Settling(t)'
  <2>1. thread # "publish" /\ ~Pending(t)
    BY <1>4 DEF Request
  <2>2. stream = built /\ stream # 0
    BY <1>4, <2>1 DEF Fresh, StreamTypeOK, SyncInv
  <2>3. Reaches(k, t)' /\ call'[k].op = op
    BY <1>1, <2>2 DEF About, Reaches
  <2>4. \A j \in Calls \ {k} : ~About(j, t)'
    BY <1>1, <2>1 DEF About, Pending
  <2> QED
    BY <2>3, <2>4 DEF Settling
<1> QED
  BY <1>1, <1>2, <1>3, <1>4 DEF SyncInv, Fresh

\* A worker thread that reaches the stream it was given settles the ticker.
LEMMA DeliverSync ==
  ASSUME StreamTypeOK, SyncInv, NEW k \in Calls, Deliver(k)
  PROVE  SyncInv'
<1>1. /\ call[k].op # "none" /\ \A j \in Calls \ {k} : call'[j] = call[j]
      /\ call'[k] = NoCall
      /\ UNCHANGED <<subscribed, doubtful, stream, thread, built>>
      /\ call[k].ticker \in Tickers /\ call[k].op \in {"subscribe", "unsubscribe"}
  BY DEF Deliver, StreamTypeOK, CallRecords, NoCall
<1>2. /\ stream' \in {0, built'}
      /\ \A j \in Calls : call'[j].op # "none" =>
           call'[j].stream <= built' /\ (thread' = "publish" => call'[j].stream < built')
  BY <1>1 DEF SyncInv, NoCall
<1>3. ASSUME Fresh, NEW u \in Tickers \ doubtful
      PROVE  (Settled(u) \/ Settling(u))'
  <2>1. Settled(u) \/ Settling(u)
    BY <1>3 DEF SyncInv
  <2>2. \A j \in Calls \ {k} : /\ About(j, u)' <=> About(j, u)
                               /\ Reaches(j, u)' <=> Reaches(j, u)
    BY <1>1 DEF About, Reaches
  <2>3. ~About(k, u)' /\ ~Reaches(k, u)'
    BY <1>1 DEF About, Reaches, NoCall
  <2>4. CASE Reaches(k, u)
    <3>1. call[k].op = "subscribe" <=> u \in subscribed
      BY <2>1, <2>4 DEF Settled, Settling, Reaches
    <3>2. thread \in {"run", "running"}
      BY <1>1, <1>3, <2>4 DEF Reaches, SyncInv, Fresh, StreamTypeOK, CallRecords, NoCall
    <3>3. u \in handlers' <=> u \in subscribed
      BY <1>1, <2>4, <3>1, <3>2 DEF Deliver, Reaches, About
    <3>4. \A j \in Calls : ~Reaches(j, u)'
      BY <2>1, <2>2, <2>3, <2>4 DEF Settled, Settling, Reaches
    <3> QED
      BY <1>1, <3>3, <3>4 DEF Settled
  <2>5. CASE ~Reaches(k, u)
    <3>1. u \in handlers' <=> u \in handlers
      BY <2>5, <1>1 DEF Deliver, Reaches, About
    <3> QED
      BY <1>1, <2>1, <2>2, <2>3, <2>5, <3>1 DEF Settled, Settling
  <2> QED
    BY <2>4, <2>5
<1> QED
  BY <1>1, <1>2, <1>3 DEF SyncInv, Fresh

\* The thread keeps SyncInv: a stream it builds agrees with _subscribed, and no call can
\* have been made to it.
LEMMA ThreadSync ==
  ASSUME StreamTypeOK, SyncInv, ThreadStep \/ RunEnds
  PROVE  SyncInv'
<1>1. UNCHANGED <<subscribed, call>>
  BY DEF ThreadStep, Exit, Build, PublishStream, Run, RunEnds, Clear, Retry, loopVars
<1>2. CASE Build
  <2>1. /\ built' = built + 1 /\ handlers' = subscribed /\ stream' = stream
        /\ thread = "check"
    BY <1>2 DEF Build
  <2>2. stream = 0 /\ built \in Nat
    BY <2>1 DEF StreamTypeOK
  <2>3. \A k \in Calls : call[k].op # "none" => call[k].stream < built'
    BY <2>1, <2>2 DEF SyncInv, StreamTypeOK, CallRecords, NoCall
  <2>4. \A t \in Tickers : Settled(t)'
    BY <1>1, <2>1, <2>2, <2>3
    DEF Settled, Reaches, About, SyncInv, StreamTypeOK, CallRecords, NoCall
  <2> QED
    BY <1>1, <2>1, <2>2, <2>3, <2>4 DEF SyncInv, StreamTypeOK, CallRecords, NoCall
<1>3. CASE PublishStream \/ Run \/ RunEnds \/ Clear \/ Retry \/ Exit
  <2>1. UNCHANGED <<built, handlers, doubtful>> /\ stream' \in {0, built}
    BY <1>3 DEF PublishStream, Run, RunEnds, Clear, Retry, Exit, loopVars, SyncInv
  <2>2. thread' # "publish" /\ (Fresh' => Fresh)
    BY <1>3 DEF PublishStream, Run, RunEnds, Clear, Retry, Exit, Fresh
  <2>3. \A t : Settled(t)' <=> Settled(t)
    BY <1>1, <2>1 DEF Settled, Reaches, About
  <2>4. \A t : Settling(t)' <=> Settling(t)
    BY <1>1, <2>1 DEF Settling, Reaches, About
  <2> QED
    BY <1>1, <2>1, <2>2, <2>3, <2>4 DEF SyncInv
<1> QED
  BY <1>2, <1>3 DEF ThreadStep

\* A running stream has a handler for exactly the subscribed tickers, but for those with a
\* call on its way and those the race of a call with a publication or with another call
\* left in doubt.
THEOREM StreamInSync == StreamSpec => []InSync
<1>1. StreamInit => SyncInv
  BY DEF StreamInit, SyncInv, Fresh, NoCall
<1>2. StreamTypeOK /\ SyncInv /\ [StreamNext]_streamVars => SyncInv'
  <2> SUFFICES ASSUME StreamTypeOK, SyncInv, [StreamNext]_streamVars PROVE SyncInv'
    OBVIOUS
  <2>1. CASE StopSet \/ StopStep \/ UNCHANGED streamVars
    <3>1. UNCHANGED <<loopVars, stream, thread, built, handlers>>
      BY <2>1 DEF StopSet, StopStep, StopRead, StopTell, threadVars, streamVars, loopVars
    <3> QED
      BY <3>1 DEF SyncInv, Settled, Settling, Reaches, About, Fresh, loopVars
  <2> QED
    BY <2>1, RequestSync, DeliverSync, ThreadSync DEF StreamNext
<1>3. SyncInv => InSync
  BY DEF SyncInv, InSync, Fresh, Settled, Settling, Reaches, About, Pending
<1> QED
  BY <1>1, <1>2, <1>3, StreamTypeCorrect, PTL DEF StreamSpec
==============================================================================
