---------------------------- MODULE FetcherProofs ----------------------------
(***************************************************************************)
(* Proofs about the fetcher, for any number of requests, any targets, any  *)
(* resolver, any scope and any limits: its type invariant, the accounting  *)
(* of the semaphore, the two promises of the guard, the safety part of the *)
(* refinement, and at the end the rate limiter in time.                    *)
(***************************************************************************)
EXTENDS Fetcher, FetchPacing, FiniteSetTheorems, SequenceTheorems, TLAPS

Inside == {"send", "connect", "wire"}

(* Whoever is connecting or connected has an address to talk to. *)
HasPeer == \A t \in Connected : peer[t] # {}

(* What is inside the block was let in by name, what it connects to and what *)
(* the pool keeps was let in by address.                                     *)
Guarded ==
  /\ \A t \in Holders : NameAllowed(cur[t])
  /\ \A t \in Task : \A addr \in peer[t] : PermittedPeer(addr)
  /\ \A conn \in idle : PermittedPeer(conn.addr)

(* Behind the batch being gathered, everything has ended. *)
Gathered ==
  /\ phase # "fetch" => \A t \in Fetches : pc[t] \in Done
  /\ phase = "closed" => idle = {} /\ \A t \in Probes : pc[t] \in Done

(* The inductive invariant. *)
IInv ==
  /\ TypeOK
  /\ PermitsConserved
  /\ HasPeer
  /\ Guarded
  /\ ProbesAnonymous
  /\ Gathered

-----------------------------------------------------------------------------
LEMMA SlotsType == Slots \in Nat \ {0}
  BY LimitsAssumption DEF Slots

LEMMA HoldersFinite == IsFiniteSet(Holders) /\ Cardinality(Holders) \in Nat
<1>1. IsFiniteSet(Task)
  BY TasksAssumption, FS_Union DEF Task
<1>2. Holders \subseteq Task
  BY DEF Holders
<1> QED
  BY <1>1, <1>2, FS_Subset, FS_CardinalityType

(* The counter stays right when one task moves and takes its permit along. *)
LEMMA CounterStep ==
  ASSUME TypeOK, PermitsConserved, NEW t \in Task, NEW label,
         pc' = [pc EXCEPT ![t] = label],
         \/ /\ pc[t] \in Inside <=> label \in Inside
            /\ permits' = permits
         \/ /\ pc[t] \in Inside /\ label \notin Inside
            /\ permits' = permits + 1
         \/ /\ pc[t] \notin Inside /\ label \in Inside
            /\ permits > 0 /\ permits' = permits - 1
  PROVE  PermitsConserved' /\ permits' \in 0..Slots
<1> USE DEF Inside
<1>1. permits \in Nat /\ permits <= Slots /\ permits = Slots - Cardinality(Holders)
  BY SlotsType DEF TypeOK, PermitsConserved
<1>2. CASE (pc[t] \in Inside <=> label \in Inside) /\ permits' = permits
  <2>1. Holders' = Holders
    BY <1>2 DEF Holders, TypeOK
  <2> QED
    BY <1>1, <1>2, <2>1, SlotsType DEF PermitsConserved, Slots
<1>3. CASE pc[t] \in Inside /\ label \notin Inside /\ permits' = permits + 1
  <2>1. t \in Holders /\ Holders' = Holders \ {t}
    BY <1>3 DEF Holders, TypeOK
  <2>2. Cardinality(Holders') = Cardinality(Holders) - 1
    BY <2>1, HoldersFinite, FS_RemoveElement
  <2>3. Cardinality(Holders) \in Nat /\ Cardinality(Holders') \in Nat
    BY <2>1, HoldersFinite, FS_RemoveElement, FS_CardinalityType
  <2> QED
    BY <1>1, <1>3, <2>2, <2>3, SlotsType DEF PermitsConserved, Slots
<1>4. CASE pc[t] \notin Inside /\ label \in Inside /\ permits > 0 /\ permits' = permits - 1
  <2>1. t \notin Holders /\ Holders' = Holders \cup {t}
    BY <1>4 DEF Holders, TypeOK
  <2>2. Cardinality(Holders') = Cardinality(Holders) + 1
    BY <2>1, HoldersFinite, FS_AddElement
  <2> QED
    BY <1>1, <1>4, <2>2, HoldersFinite, SlotsType DEF PermitsConserved, Slots
<1> QED
  BY <1>2, <1>3, <1>4

(* Every exit from the block keeps the invariant, whatever was read first. *)
LEMMA LeaveKeeps ==
  ASSUME IInv, NEW t \in Holders, NEW result \in Done,
         phase = PhaseOf(t), LeaveBlock(t, result),
         cur' \in [Task -> Url],
         \A other \in Task : other # t => cur'[other] = cur[other],
         idle' \in SUBSET Connection,
         \A conn \in idle' : PermittedPeer(conn.addr),
         jar' \in SUBSET {u.host : u \in Url},
         UNCHANGED <<hops, phase>>
  PROVE  IInv'
<1>1. /\ t \in Task /\ pc[t] \in Inside /\ result \notin Inside
      /\ pc' = [pc EXCEPT ![t] = result]
      /\ permits' = permits + 1
      /\ peer' = [peer EXCEPT ![t] = {}]
      /\ cookie' = [cookie EXCEPT ![t] = FALSE]
  BY DEF Holders, Inside, Done, LeaveBlock, Goto, Released
<1>2. PermitsConserved' /\ permits' \in 0..Slots
  BY <1>1, CounterStep DEF IInv
<1>3. TypeOK'
  BY <1>1, <1>2 DEF IInv, TypeOK, Done
<1>4. HasPeer'
  BY <1>1 DEF IInv, TypeOK, HasPeer, Connected, Done
<1>5. Guarded'
  <2>1. \A other \in Holders' : other \in Holders /\ cur'[other] = cur[other]
    BY <1>1 DEF Holders, IInv, TypeOK, Done
  <2>2. \A other \in Holders' : NameAllowed(cur'[other])
    BY <2>1 DEF IInv, Guarded
  <2>3. \A other \in Task : peer'[other] \subseteq peer[other]
    BY <1>1 DEF IInv, TypeOK
  <2> QED
    BY <2>2, <2>3 DEF IInv, Guarded
<1>6. ProbesAnonymous'
  BY <1>1 DEF IInv, TypeOK, ProbesAnonymous, Task
<1>7. Gathered'
  BY <1>1 DEF IInv, TypeOK, Gathered, PhaseOf, Task, Done
<1> QED
  BY <1>2, <1>3, <1>4, <1>5, <1>6, <1>7 DEF IInv

(* What comes back to the pool went out through it. *)
LEMMA ReadKeeps ==
  ASSUME IInv, NEW t \in Task, ReadResponse(t)
  PROVE  /\ t \in Holders /\ phase = PhaseOf(t)
         /\ idle' \in SUBSET Connection
         /\ \A conn \in idle' : PermittedPeer(conn.addr)
         /\ jar' \in SUBSET {u.host : u \in Url}
<1> DEFINE addr == CHOOSE a \in peer[t] : TRUE
           conn == [scheme |-> cur[t].scheme, host |-> cur[t].host, addr |-> addr]
<1>1. pc[t] = "wire" /\ t \in Holders /\ phase = PhaseOf(t) /\ t \in Connected
  BY DEF ReadResponse, At, Holders, Connected
<1>2. addr \in peer[t] /\ peer[t] \subseteq Address /\ cur[t] \in Url
  BY <1>1 DEF IInv, HasPeer, TypeOK
<1>3. PermittedPeer(addr) /\ addr \in Address
  BY <1>2 DEF IInv, Guarded
<1>4. conn \in Connection /\ conn.addr = addr
  BY <1>2, <1>3 DEF Connection
<1>5. idle' \in {idle, idle \cup {conn}} /\ jar' \in {jar, jar \cup {cur[t].host}}
  BY DEF ReadResponse
<1>6. idle' \in SUBSET Connection
  BY <1>4, <1>5 DEF IInv, TypeOK
<1>7. \A other \in idle' : PermittedPeer(other.addr)
  BY <1>3, <1>4, <1>5 DEF IInv, Guarded
<1>8. jar' \in SUBSET {u.host : u \in Url}
  BY <1>2, <1>5 DEF IInv, TypeOK
<1> QED
  BY <1>1, <1>6, <1>7, <1>8

-----------------------------------------------------------------------------
(* One lemma per action. *)

LEMMA InitKeeps == Init => IInv
<1> SUFFICES ASSUME Init PROVE IInv
  OBVIOUS
<1>1. TypeOK
  BY TasksAssumption, LimitsAssumption, SlotsType DEF Init, TypeOK
<1>2. Holders = {} /\ Connected = {}
  BY DEF Init, Holders, Connected
<1>3. PermitsConserved
  BY <1>2, FS_EmptySet, SlotsType DEF Init, PermitsConserved, Slots
<1>4. HasPeer /\ Guarded /\ ProbesAnonymous /\ Gathered
  BY <1>2 DEF Init, HasPeer, Guarded, ProbesAnonymous, Gathered, Task
<1> QED
  BY <1>1, <1>3, <1>4 DEF IInv

(* Waiting for the rate limit touches no request. *)
LEMMA WaitKeeps ==
  ASSUME IInv, NEW t \in Task, NEW label \in {"sleep", "slot"},
         pc[t] \in {"rate", "sleep"}, phase = PhaseOf(t), Goto(t, label),
         UNCHANGED <<permits, cur, hops, peer, cookie, idle, jar, phase>>
  PROVE  IInv'
<1>1. pc' = [pc EXCEPT ![t] = label] /\ pc[t] \notin Inside /\ label \notin Inside
  BY DEF Goto, Inside
<1>2. PermitsConserved'
  BY <1>1, CounterStep DEF IInv
<1>3. TypeOK'
  BY <1>1 DEF IInv, TypeOK
<1>4. Holders' = Holders /\ Connected' = Connected
  BY <1>1 DEF IInv, TypeOK, Holders, Connected, Inside
<1>5. HasPeer' /\ Guarded' /\ ProbesAnonymous'
  BY <1>4 DEF IInv, HasPeer, Guarded, ProbesAnonymous
<1>6. Gathered'
  BY <1>1 DEF IInv, TypeOK, Gathered, PhaseOf, Task, Done
<1> QED
  BY <1>2, <1>3, <1>5, <1>6 DEF IInv

LEMMA EnterKeeps ==
  ASSUME IInv, NEW t \in Task, EnterBlock(t)
  PROVE  IInv'
<1>1. /\ pc[t] = "slot" /\ phase = PhaseOf(t) /\ permits > 0
      /\ UNCHANGED <<cur, hops, peer, idle, jar, phase>>
  BY DEF EnterBlock, At
<1>2. PICK answer \in Answers :
        IF Validate(t, cur[t], answer)
        THEN /\ Goto(t, "send")
             /\ permits' = permits - 1
             /\ cookie' = [cookie EXCEPT ![t] = CarriesCookie(t, cur[t], jar)]
        ELSE Goto(t, "failed") /\ UNCHANGED <<permits, cookie>>
  BY DEF EnterBlock
<1>3. CASE Validate(t, cur[t], answer)
  <2>1. /\ pc' = [pc EXCEPT ![t] = "send"] /\ permits' = permits - 1
        /\ cookie' = [cookie EXCEPT ![t] = CarriesCookie(t, cur[t], jar)]
        /\ NameAllowed(cur[t])
    BY <1>2, <1>3 DEF Goto, Validate, ValidateUrl
  <2>2. PermitsConserved' /\ permits' \in 0..Slots
    BY <1>1, <2>1, CounterStep DEF IInv, Inside
  <2>3. CarriesCookie(t, cur[t], jar) \in BOOLEAN /\ (t \in Probes => ~CarriesCookie(t, cur[t], jar))
    BY TasksAssumption DEF CarriesCookie
  <2>4. TypeOK'
    BY <1>1, <2>1, <2>2, <2>3 DEF IInv, TypeOK
  <2>5. HasPeer'
    BY <1>1, <2>1 DEF IInv, TypeOK, HasPeer, Connected
  <2>6. Guarded'
    BY <1>1, <2>1 DEF IInv, TypeOK, Guarded, Holders
  <2>7. ProbesAnonymous'
    BY <2>1, <2>3 DEF IInv, TypeOK, ProbesAnonymous
  <2>8. Gathered'
    BY <1>1, <2>1 DEF IInv, TypeOK, Gathered, PhaseOf, Task, Done
  <2> QED
    BY <2>2, <2>4, <2>5, <2>6, <2>7, <2>8 DEF IInv
<1>4. CASE ~Validate(t, cur[t], answer)
  <2>1. pc' = [pc EXCEPT ![t] = "failed"] /\ UNCHANGED <<permits, cookie>>
    BY <1>2, <1>4 DEF Goto
  <2>2. PermitsConserved'
    BY <1>1, <2>1, CounterStep DEF IInv, Inside
  <2>3. TypeOK'
    BY <1>1, <2>1 DEF IInv, TypeOK, Done
  <2>4. Holders' = Holders /\ Connected' = Connected
    BY <1>1, <2>1 DEF IInv, TypeOK, Holders, Connected
  <2>5. HasPeer' /\ Guarded' /\ ProbesAnonymous'
    BY <1>1, <2>1, <2>4 DEF IInv, HasPeer, Guarded, ProbesAnonymous
  <2>6. Gathered'
    BY <1>1, <2>1 DEF IInv, TypeOK, Gathered, PhaseOf, Task, Done
  <2> QED
    BY <2>2, <2>3, <2>5, <2>6 DEF IInv
<1> QED
  BY <1>3, <1>4

LEMMA ReuseKeeps ==
  ASSUME IInv, NEW t \in Task, ReuseConnection(t)
  PROVE  IInv'
<1>1. /\ pc[t] = "send" /\ phase = PhaseOf(t) /\ t \in Holders
      /\ pc' = [pc EXCEPT ![t] = "wire"]
      /\ UNCHANGED <<permits, cur, hops, cookie, jar, phase>>
  BY DEF ReuseConnection, At, Goto, Holders
<1>2. PICK conn \in idle : /\ idle' = idle \ {conn}
                          /\ peer' = [peer EXCEPT ![t] = {conn.addr}]
  BY DEF ReuseConnection
<1>3. conn.addr \in Address /\ PermittedPeer(conn.addr)
  BY DEF IInv, TypeOK, Connection, Guarded
<1>4. PermitsConserved'
  BY <1>1, CounterStep DEF IInv, Inside
<1>5. TypeOK'
  BY <1>1, <1>2, <1>3 DEF IInv, TypeOK
<1>6. HasPeer'
  BY <1>1, <1>2 DEF IInv, TypeOK, HasPeer, Connected
<1>7. Guarded'
  <2>1. Holders' = Holders
    BY <1>1 DEF IInv, TypeOK, Holders
  <2>2. \A other \in Task : \A addr \in peer'[other] : PermittedPeer(addr)
    BY <1>2, <1>3 DEF IInv, TypeOK, Guarded
  <2> QED
    BY <1>1, <1>2, <2>1, <2>2 DEF IInv, Guarded
<1>8. ProbesAnonymous' /\ Gathered'
  BY <1>1, <1>2 DEF IInv, TypeOK, ProbesAnonymous, Gathered, PhaseOf, Task, Done
<1> QED
  BY <1>4, <1>5, <1>6, <1>7, <1>8 DEF IInv

(* The only addresses a connection is tried to have been judged by the guard. *)
LEMMA AddressesPermitted ==
  ASSUME NEW answer \in Answers
  PROVE  /\ ConnectAddresses(answer) \subseteq Address
         /\ \A addr \in ConnectAddresses(answer) : PermittedPeer(addr)
  BY DEF ConnectAddresses, UsableAddresses, ResolvesPublic, PermittedPeer, Address

LEMMA OpenKeeps ==
  ASSUME IInv, NEW t \in Task, OpenConnection(t)
  PROVE  IInv'
<1>1. /\ pc[t] = "send" /\ phase = PhaseOf(t) /\ t \in Holders
      /\ UNCHANGED <<cur, hops, jar, phase>>
  BY DEF OpenConnection, At, Holders
<1>2. idle' \subseteq idle
  BY DEF OpenConnection, MakeRoom
<1>3. /\ idle' \in SUBSET Connection
      /\ \A conn \in idle' : PermittedPeer(conn.addr)
  BY <1>2 DEF IInv, TypeOK, Guarded
<1>4. PICK answer \in Answers :
        LET addrs == ConnectAddresses(answer)
        IN  IF addrs # {}
            THEN /\ Goto(t, "connect")
                 /\ peer' = [peer EXCEPT ![t] = addrs]
                 /\ UNCHANGED <<permits, cookie>>
            ELSE LeaveBlock(t, "failed")
  BY DEF OpenConnection
<1>5. CASE ConnectAddresses(answer) = {}
  <2>1. LeaveBlock(t, "failed")
    BY <1>4, <1>5
  <2> QED
    BY <1>1, <1>3, <2>1, LeaveKeeps DEF IInv, TypeOK, Done
<1>6. CASE ConnectAddresses(answer) # {}
  <2>1. /\ pc' = [pc EXCEPT ![t] = "connect"]
        /\ peer' = [peer EXCEPT ![t] = ConnectAddresses(answer)]
        /\ UNCHANGED <<permits, cookie>>
    BY <1>4, <1>6 DEF Goto
  <2>2. PermitsConserved'
    BY <1>1, <2>1, CounterStep DEF IInv, Inside
  <2>3. TypeOK'
    BY <1>1, <1>3, <2>1, AddressesPermitted DEF IInv, TypeOK
  <2>4. HasPeer'
    BY <1>1, <1>6, <2>1 DEF IInv, TypeOK, HasPeer, Connected
  <2>5. Guarded'
    <3>1. Holders' = Holders
      BY <1>1, <2>1 DEF IInv, TypeOK, Holders
    <3>2. \A other \in Task : \A addr \in peer'[other] : PermittedPeer(addr)
      BY <2>1, AddressesPermitted DEF IInv, TypeOK, Guarded
    <3> QED
      BY <1>1, <1>3, <3>1, <3>2 DEF IInv, Guarded
  <2>6. ProbesAnonymous' /\ Gathered'
    BY <1>1, <1>2, <2>1 DEF IInv, TypeOK, ProbesAnonymous, Gathered, PhaseOf, Task, Done
  <2> QED
    BY <2>2, <2>3, <2>4, <2>5, <2>6 DEF IInv
<1> QED
  BY <1>5, <1>6

LEMMA ConnectKeeps ==
  ASSUME IInv, NEW t \in Task, Connect(t)
  PROVE  IInv'
<1>1. /\ pc[t] = "connect" /\ phase = PhaseOf(t) /\ t \in Holders
      /\ pc' = [pc EXCEPT ![t] = "wire"]
      /\ UNCHANGED <<permits, cur, hops, cookie, idle, jar, phase>>
  BY DEF Connect, At, Goto, Holders
<1>2. PICK addr \in peer[t] : peer' = [peer EXCEPT ![t] = {addr}]
  BY DEF Connect
<1>3. addr \in Address /\ PermittedPeer(addr)
  BY DEF IInv, TypeOK, Guarded
<1>4. PermitsConserved'
  BY <1>1, CounterStep DEF IInv, Inside
<1>5. TypeOK'
  BY <1>1, <1>2, <1>3 DEF IInv, TypeOK
<1>6. HasPeer'
  BY <1>1, <1>2 DEF IInv, TypeOK, HasPeer, Connected
<1>7. Guarded'
  <2>1. Holders' = Holders
    BY <1>1 DEF IInv, TypeOK, Holders
  <2>2. \A other \in Task : \A a \in peer'[other] : PermittedPeer(a)
    BY <1>2, <1>3 DEF IInv, TypeOK, Guarded
  <2> QED
    BY <1>1, <2>1, <2>2 DEF IInv, Guarded
<1>8. ProbesAnonymous' /\ Gathered'
  BY <1>1 DEF IInv, TypeOK, ProbesAnonymous, Gathered, PhaseOf, Task, Done
<1> QED
  BY <1>4, <1>5, <1>6, <1>7, <1>8 DEF IInv

LEMMA RefusedKeeps ==
  ASSUME IInv, NEW t \in Task, ConnectRefused(t)
  PROVE  IInv'
<1>1. /\ pc[t] = "connect" /\ phase = PhaseOf(t) /\ t \in Holders
      /\ UNCHANGED <<cur, hops, idle, jar, phase>>
  BY DEF ConnectRefused, At, Holders
<1>2. PICK addr \in peer[t] :
        IF peer[t] = {addr}
        THEN LeaveBlock(t, "failed")
        ELSE /\ peer' = [peer EXCEPT ![t] = peer[t] \ {addr}]
             /\ UNCHANGED <<pc, permits, cookie>>
  BY DEF ConnectRefused
<1>3. CASE peer[t] = {addr}
  <2>1. LeaveBlock(t, "failed")
    BY <1>2, <1>3
  <2> QED
    BY <1>1, <2>1, LeaveKeeps DEF IInv, TypeOK, Guarded, Done
<1>4. CASE peer[t] # {addr}
  <2>1. /\ peer' = [peer EXCEPT ![t] = peer[t] \ {addr}]
        /\ UNCHANGED <<pc, permits, cookie>>
    BY <1>2, <1>4
  <2>2. Holders' = Holders /\ Connected' = Connected
    BY <2>1 DEF Holders, Connected
  <2>3. PermitsConserved'
    BY <2>1, <2>2 DEF IInv, PermitsConserved
  <2>4. TypeOK'
    BY <1>1, <2>1 DEF IInv, TypeOK
  <2>5. HasPeer'
    BY <1>4, <2>1, <2>2 DEF IInv, TypeOK, HasPeer
  <2>6. Guarded'
    BY <1>1, <2>1, <2>2 DEF IInv, TypeOK, Guarded
  <2>7. ProbesAnonymous' /\ Gathered'
    BY <1>1, <2>1 DEF IInv, ProbesAnonymous, Gathered
  <2> QED
    BY <2>3, <2>4, <2>5, <2>6, <2>7 DEF IInv
<1> QED
  BY <1>3, <1>4

LEMMA FinishKeeps ==
  ASSUME IInv, NEW t \in Task,
         FinalResponse(t) \/ RejectRedirect(t) \/ RequestError(t)
  PROVE  IInv'
<1>1. CASE FinalResponse(t) \/ RejectRedirect(t)
  <2>1. PICK result \in Done : LeaveBlock(t, result)
    BY <1>1 DEF FinalResponse, RejectRedirect, Done
  <2>2. ReadResponse(t) /\ UNCHANGED <<cur, hops, phase>>
    BY <1>1 DEF FinalResponse, RejectRedirect
  <2> QED
    BY <2>1, <2>2, ReadKeeps, LeaveKeeps DEF IInv, TypeOK
<1>2. CASE RequestError(t)
  <2>1. /\ t \in Holders /\ phase = PhaseOf(t) /\ LeaveBlock(t, "failed")
        /\ UNCHANGED <<cur, hops, idle, jar, phase>>
    BY <1>2 DEF RequestError
  <2> QED
    BY <2>1, LeaveKeeps DEF IInv, TypeOK, Guarded, Done
<1> QED
  BY <1>1, <1>2

LEMMA FollowKeeps ==
  ASSUME IInv, NEW t \in Task, FollowRedirect(t)
  PROVE  IInv'
<1>1. ReadResponse(t) /\ MayFollow(t) /\ phase' = phase
  BY DEF FollowRedirect
<1>2. /\ pc[t] = "wire" /\ t \in Holders /\ phase = PhaseOf(t)
      /\ idle' \in SUBSET Connection
      /\ \A conn \in idle' : PermittedPeer(conn.addr)
      /\ jar' \in SUBSET {u.host : u \in Url}
  BY <1>1, ReadKeeps DEF ReadResponse, At
<1>3. PICK location \in Url, answer \in Answers :
        /\ cur' = [cur EXCEPT ![t] = location]
        /\ IF Validate(t, location, answer)
           THEN /\ Goto(t, "send")
                /\ hops' = [hops EXCEPT ![t] = NextHop(t)]
                /\ peer' = [peer EXCEPT ![t] = {}]
                /\ cookie' = [cookie EXCEPT ![t] = CarriesCookie(t, location, jar')]
                /\ UNCHANGED permits
           ELSE LeaveBlock(t, "failed") /\ UNCHANGED hops
  BY DEF FollowRedirect
<1>4. cur' \in [Task -> Url] /\ \A other \in Task : other # t => cur'[other] = cur[other]
  BY <1>3 DEF IInv, TypeOK
<1>5. CASE ~Validate(t, location, answer)
  <2>1. LeaveBlock(t, "failed") /\ UNCHANGED <<hops, phase>>
    BY <1>1, <1>3, <1>5
  <2> QED
    BY <1>2, <1>4, <2>1, LeaveKeeps DEF Done
<1>6. CASE Validate(t, location, answer)
  <2>1. /\ pc' = [pc EXCEPT ![t] = "send"]
        /\ hops' = [hops EXCEPT ![t] = NextHop(t)]
        /\ peer' = [peer EXCEPT ![t] = {}]
        /\ cookie' = [cookie EXCEPT ![t] = CarriesCookie(t, location, jar')]
        /\ permits' = permits
    BY <1>3, <1>6 DEF Goto
  <2>2. NameAllowed(location)
    BY <1>6 DEF Validate, ValidateUrl
  <2>3. NextHop(t) \in 0..MaxRedirects
    BY <1>1, LimitsAssumption DEF IInv, TypeOK, MayFollow, NextHop
  <2>4. /\ CarriesCookie(t, location, jar') \in BOOLEAN
        /\ t \in Probes => ~CarriesCookie(t, location, jar')
    BY TasksAssumption DEF CarriesCookie
  <2>5. PermitsConserved'
    BY <1>2, <2>1, CounterStep DEF IInv, Inside
  <2>6. TypeOK'
    BY <1>1, <1>2, <1>4, <2>1, <2>3, <2>4 DEF IInv, TypeOK
  <2>7. HasPeer'
    BY <1>2, <2>1 DEF IInv, TypeOK, HasPeer, Connected
  <2>8. Guarded'
    <3>1. Holders' = Holders
      BY <1>2, <2>1 DEF IInv, TypeOK, Holders
    <3>2. \A other \in Holders' : NameAllowed(cur'[other])
      BY <1>3, <2>2, <3>1 DEF IInv, TypeOK, Guarded, Holders
    <3>3. \A other \in Task : peer'[other] \subseteq peer[other]
      BY <2>1 DEF IInv, TypeOK
    <3> QED
      BY <1>2, <3>2, <3>3 DEF IInv, Guarded
  <2>9. ProbesAnonymous'
    BY <2>1, <2>4 DEF IInv, TypeOK, ProbesAnonymous
  <2>10. Gathered'
    BY <1>1, <1>2, <2>1 DEF IInv, TypeOK, Gathered, PhaseOf, Task, Done
  <2> QED
    BY <2>5, <2>6, <2>7, <2>8, <2>9, <2>10 DEF IInv
<1> QED
  BY <1>5, <1>6

LEMMA ScanKeeps ==
  ASSUME IInv, ConnectionExpires \/ GatherFetches \/ GatherProbes
  PROVE  IInv'
<1>1. UNCHANGED <<pc, permits, cur, hops, peer, cookie, jar>>
  BY DEF ConnectionExpires, GatherFetches, GatherProbes
<1>2. idle' \subseteq idle
  BY DEF ConnectionExpires, GatherFetches, GatherProbes
<1>3. Holders' = Holders /\ Connected' = Connected
  BY <1>1 DEF Holders, Connected
<1>4. TypeOK'
  BY <1>1, <1>2 DEF IInv, TypeOK, ConnectionExpires, GatherFetches, GatherProbes
<1>5. PermitsConserved' /\ HasPeer' /\ Guarded' /\ ProbesAnonymous'
  BY <1>1, <1>2, <1>3 DEF IInv, PermitsConserved, HasPeer, Guarded, ProbesAnonymous
<1>6. Gathered'
  BY <1>1, <1>2 DEF IInv, Gathered, TypeOK, Ended, ConnectionExpires, GatherFetches, GatherProbes
<1> QED
  BY <1>4, <1>5, <1>6 DEF IInv

LEMMA StepKeeps == IInv /\ [Next]_vars => IInv'
<1> SUFFICES ASSUME IInv, [Next]_vars PROVE IInv'
  OBVIOUS
<1>1. CASE UNCHANGED vars
  <2>1. Holders' = Holders /\ Connected' = Connected
    BY <1>1 DEF vars, Holders, Connected
  <2> QED
    BY <1>1, <2>1 DEF vars, IInv, TypeOK, PermitsConserved, HasPeer, Guarded,
                      ProbesAnonymous, Gathered
<1>2. CASE ConnectionExpires \/ GatherFetches \/ GatherProbes
  BY <1>2, ScanKeeps
<1>3. ASSUME NEW t \in Task, TaskStep(t) PROVE IInv'
  <2>1. CASE TakeRateLock(t)
    BY <2>1, WaitKeeps DEF TakeRateLock, At
  <2>2. CASE PassRateLimit(t)
    BY <2>2, WaitKeeps DEF PassRateLimit, At
  <2>3. CASE EnterBlock(t)
    BY <2>3, EnterKeeps
  <2>4. CASE ReuseConnection(t)
    BY <2>4, ReuseKeeps
  <2>5. CASE OpenConnection(t)
    BY <2>5, OpenKeeps
  <2>6. CASE Connect(t)
    BY <2>6, ConnectKeeps
  <2>7. CASE ConnectRefused(t)
    BY <2>7, RefusedKeeps
  <2>8. CASE FinalResponse(t) \/ RejectRedirect(t) \/ RequestError(t)
    BY <2>8, FinishKeeps
  <2>9. CASE FollowRedirect(t)
    BY <2>9, FollowKeeps
  <2> QED
    BY <1>3, <2>1, <2>2, <2>3, <2>4, <2>5, <2>6, <2>7, <2>8, <2>9 DEF TaskStep
<1> QED
  BY <1>1, <1>2, <1>3 DEF Next

LEMMA Invariance == Spec => []IInv
  BY InitKeeps, StepKeeps, PTL DEF Spec

-----------------------------------------------------------------------------
(* The variables have their types: in particular no redirect chain is longer *)
(* than limits.max_redirects.                                                *)
THEOREM TypeCorrect == Spec => []TypeOK
<1>1. IInv => TypeOK
  BY DEF IInv
<1> QED
  BY <1>1, Invariance, PTL

(* The semaphore neither leaks nor invents a permit. *)
THEOREM PermitsAddUp == Spec => []PermitsConserved
<1>1. IInv => PermitsConserved
  BY DEF IInv
<1> QED
  BY <1>1, Invariance, PTL

(* No request leaves for a URL or an address the guard rejects. *)
THEOREM TrafficGuarded == Spec => []OnlyPermittedTraffic
<1>1. IInv => OnlyPermittedTraffic
  BY DEF IInv, Guarded, OnlyPermittedTraffic, Holders
<1> QED
  BY <1>1, Invariance, PTL

(* No probe carries a cookie. *)
THEOREM ProbesStayAnonymous == Spec => []ProbesAnonymous
<1>1. IInv => ProbesAnonymous
  BY DEF IInv
<1> QED
  BY <1>1, Invariance, PTL

(* The client is closed with nothing under way. *)
THEOREM ClosedIsQuiet == Spec => []QuietOnceClosed
<1>1. IInv => QuietOnceClosed
  BY DEF IInv, Gathered, QuietOnceClosed, Holders, Done, Task
<1> QED
  BY <1>1, Invariance, PTL

-----------------------------------------------------------------------------
(* The refinement: what each action looks like from run_scan. *)

LEMMA RequestNotQuiet == \A t \in Task : RequestOf(t) # NotOut
<1> SUFFICES ASSUME NEW t \in Task PROVE RequestOf(t) # NotOut
  OBVIOUS
<1>1. DOMAIN RequestOf(t) = {"url", "peer", "cookie"} /\ DOMAIN NotOut = {"url"}
  BY DEF RequestOf, NotOut
<1> QED
  BY <1>1

(* One task moves: only its own outcome and request can change. *)
LEMMA MoveSeen ==
  ASSUME IInv, NEW t \in Task, NEW label,
         pc' = [pc EXCEPT ![t] = label],
         \A other \in Task \ {t} : /\ cur'[other] = cur[other]
                                   /\ peer'[other] = peer[other]
                                   /\ cookie'[other] = cookie[other]
  PROVE  /\ Outcome' = [Outcome EXCEPT ![t] = IF label \in Done THEN label ELSE "pending"]
         /\ Wire' = [Wire EXCEPT ![t] = IF label = "wire" THEN RequestOf(t)' ELSE NotOut]
         /\ Outcome[t] = (IF pc[t] \in Done THEN pc[t] ELSE "pending")
         /\ Wire[t] = (IF pc[t] = "wire" THEN RequestOf(t) ELSE NotOut)
<1>1. pc'[t] = label /\ \A other \in Task \ {t} : pc'[other] = pc[other]
  BY DEF IInv, TypeOK
<1>2. \A other \in Task \ {t} : RequestOf(other)' = RequestOf(other)
  BY DEF RequestOf
<1>3. Outcome' = [Outcome EXCEPT ![t] = IF label \in Done THEN label ELSE "pending"]
  BY <1>1 DEF Outcome
<1>4. Wire' = [Wire EXCEPT ![t] = IF label = "wire" THEN RequestOf(t)' ELSE NotOut]
  BY <1>1, <1>2 DEF Wire, NotOut
<1> QED
  BY <1>3, <1>4 DEF Outcome, Wire, NotOut

(* INSTANCE gives the abstract module a Cardinality of its own. *)
LEMMA SameCardinality == \A S : Promise!Cardinality(S) = Cardinality(S)
  BY DEF Promise!Cardinality, Cardinality

(* What is out is permitted, and the slots bound how much is out. *)
LEMMA OutPermitted ==
  IInv => \A t \in Task : pc[t] = "wire" => RequestOf(t) \in Scope[t]
<1> SUFFICES ASSUME IInv, NEW t \in Task, pc[t] = "wire"
             PROVE  RequestOf(t) \in Scope[t]
  OBVIOUS
<1> DEFINE addr == CHOOSE a \in peer[t] : TRUE
<1>1. t \in Holders /\ t \in Connected
  BY DEF Holders, Connected
<1>2. addr \in peer[t] /\ peer[t] \subseteq Address
  BY <1>1 DEF IInv, HasPeer, TypeOK
<1>3. cur[t] \in Url /\ cookie[t] \in BOOLEAN /\ addr \in Address
  BY <1>2 DEF IInv, TypeOK
<1>4. RequestOf(t) = [url |-> cur[t], peer |-> addr, cookie |-> cookie[t]]
  BY DEF RequestOf
<1>5. NameAllowed(cur[t]) /\ PermittedPeer(addr) /\ (t \in Probes => ~cookie[t])
  BY <1>1, <1>2 DEF IInv, Guarded, ProbesAnonymous
<1> HIDE DEF addr
<1> QED
  BY <1>3, <1>4, <1>5 DEF Scope

LEMMA OutBounded == IInv => Promise!Cardinality(Promise!Out) <= Slots
<1> SUFFICES ASSUME IInv PROVE Promise!Cardinality(Promise!Out) <= Slots
  OBVIOUS
<1>1. Promise!Out \subseteq Holders
  BY DEF Promise!Out, Promise!Task, Wire, Holders, Task
<1>2. Cardinality(Promise!Out) \in Nat /\ Cardinality(Promise!Out) <= Cardinality(Holders)
  BY <1>1, HoldersFinite, FS_Subset, FS_CardinalityType, SameCardinality
<1>3. permits \in Nat /\ permits = Slots - Cardinality(Holders)
  BY SlotsType DEF IInv, TypeOK, PermitsConserved
<1> QED
  BY <1>2, <1>3, HoldersFinite, SlotsType, SameCardinality

LEMMA OutNext ==
  IInv' => /\ \A t \in Task : pc'[t] = "wire" => RequestOf(t)' \in Scope[t]
           /\ Promise!Cardinality(Promise!Out') <= Slots
<1>1. (IInv => \A t \in Task : pc[t] = "wire" => RequestOf(t) \in Scope[t])'
  BY OutPermitted, PTL
<1>2. (IInv => Promise!Cardinality(Promise!Out) <= Slots)'
  BY OutBounded, PTL
<1> QED
  BY <1>1, <1>2

(* A task that is neither out nor at its end, before and after: a stutter. *)
LEMMA StutterSeen ==
  ASSUME IInv, NEW t \in Task, NEW label,
         pc' = [pc EXCEPT ![t] = label],
         pc[t] \notin Done \cup {"wire"}, label \notin Done \cup {"wire"},
         \A other \in Task \ {t} : /\ cur'[other] = cur[other]
                                   /\ peer'[other] = peer[other]
                                   /\ cookie'[other] = cookie[other],
         phase' = phase
  PROVE  UNCHANGED Promise!vars
<1>1. /\ Outcome' = [Outcome EXCEPT ![t] = "pending"] /\ Outcome[t] = "pending"
      /\ Wire' = [Wire EXCEPT ![t] = NotOut] /\ Wire[t] = NotOut
  BY MoveSeen
<1>2. Outcome' = Outcome
  BY <1>1 DEF Outcome
<1>3. Wire' = Wire
  BY <1>1 DEF Wire
<1> QED
  BY <1>2, <1>3 DEF Promise!vars

(* Any failure inside the gathered batch is the task's end. *)
LEMMA FailSeen ==
  ASSUME IInv, NEW t \in Task,
         pc' = [pc EXCEPT ![t] = "failed"],
         pc[t] \notin Done, phase = PhaseOf(t),
         \A other \in Task \ {t} : /\ cur'[other] = cur[other]
                                   /\ peer'[other] = peer[other]
                                   /\ cookie'[other] = cookie[other],
         phase' = phase
  PROVE  Promise!Resolve(t)
<1>1. /\ Outcome' = [Outcome EXCEPT ![t] = "failed"]
      /\ Wire' = [Wire EXCEPT ![t] = NotOut]
      /\ Outcome[t] = "pending"
  BY MoveSeen DEF Done
<1> QED
  BY <1>1 DEF Promise!Resolve, Promise!Working, Promise!PhaseOf, PhaseOf, NotOut

LEMMA ArtifactSeen ==
  ASSUME IInv, NEW t \in Task,
         pc' = [pc EXCEPT ![t] = "artifact"],
         pc[t] = "wire", phase = PhaseOf(t),
         \A other \in Task \ {t} : /\ cur'[other] = cur[other]
                                   /\ peer'[other] = peer[other]
                                   /\ cookie'[other] = cookie[other],
         phase' = phase
  PROVE  Promise!Resolve(t)
<1>1. /\ Outcome' = [Outcome EXCEPT ![t] = "artifact"]
      /\ Wire' = [Wire EXCEPT ![t] = NotOut]
      /\ Outcome[t] = "pending" /\ Wire[t] = RequestOf(t)
  BY MoveSeen DEF Done
<1>2. Wire[t] # NotOut
  BY <1>1, RequestNotQuiet
<1> QED
  BY <1>1, <1>2 DEF Promise!Resolve, Promise!Working, Promise!PhaseOf, PhaseOf, NotOut

(* A redirect is followed: the request that was out is answered. *)
LEMMA AnswerSeen ==
  ASSUME IInv, NEW t \in Task,
         pc' = [pc EXCEPT ![t] = "send"],
         pc[t] = "wire", phase = PhaseOf(t),
         \A other \in Task \ {t} : /\ cur'[other] = cur[other]
                                   /\ peer'[other] = peer[other]
                                   /\ cookie'[other] = cookie[other],
         phase' = phase
  PROVE  Promise!Exchange(t)
<1>1. /\ Outcome' = [Outcome EXCEPT ![t] = IF "send" \in Done THEN "send" ELSE "pending"]
      /\ Wire' = [Wire EXCEPT ![t] = IF "send" = "wire" THEN RequestOf(t)' ELSE NotOut]
      /\ Outcome[t] = (IF pc[t] \in Done THEN pc[t] ELSE "pending")
  BY MoveSeen
<1>2. "send" \notin Done /\ "send" # "wire" /\ pc[t] \notin Done
  BY DEF Done
<1>3. /\ Outcome' = [Outcome EXCEPT ![t] = "pending"]
      /\ Wire' = [Wire EXCEPT ![t] = NotOut]
      /\ Outcome[t] = "pending"
  BY <1>1, <1>2
<1>4. Outcome' = Outcome
  BY <1>3 DEF Outcome
<1> QED
  BY <1>3, <1>4 DEF Promise!Exchange, Promise!Working, Promise!PhaseOf, PhaseOf, NotOut

LEMMA SendSeen ==
  ASSUME IInv, IInv', NEW t \in Task,
         pc' = [pc EXCEPT ![t] = "wire"],
         pc[t] \in {"send", "connect"}, phase = PhaseOf(t),
         \A other \in Task \ {t} : /\ cur'[other] = cur[other]
                                   /\ peer'[other] = peer[other]
                                   /\ cookie'[other] = cookie[other],
         phase' = phase
  PROVE  Promise!Exchange(t)
<1>1. /\ Outcome' = [Outcome EXCEPT ![t] = "pending"]
      /\ Wire' = [Wire EXCEPT ![t] = RequestOf(t)']
      /\ Outcome[t] = "pending" /\ Wire[t] = NotOut
  BY MoveSeen DEF Done
<1>2. Outcome' = Outcome
  BY <1>1 DEF Outcome
<1>3. pc'[t] = "wire"
  BY DEF IInv, TypeOK
<1>4. RequestOf(t)' \in Scope[t] /\ Promise!Cardinality(Promise!Out') <= Slots
  BY <1>3, OutNext
<1> QED
  BY <1>1, <1>2, <1>4
     DEF Promise!Exchange, Promise!Working, Promise!PhaseOf, PhaseOf, NotOut

-----------------------------------------------------------------------------
LEMMA InitSeen == Init => Promise!Init
<1> SUFFICES ASSUME Init PROVE Promise!Init
  OBVIOUS
<1>1. Outcome = [t \in Task |-> "pending"]
  BY DEF Init, Outcome, Done
<1>2. Wire = [t \in Task |-> NotOut]
  BY DEF Init, Wire
<1> QED
  BY <1>1, <1>2 DEF Init, Promise!Init, Promise!Task, Task

LEMMA GatherSeen ==
  ASSUME IInv, GatherFetches \/ GatherProbes
  PROVE  Promise!Advance
<1>1. Outcome' = Outcome
  BY DEF GatherFetches, GatherProbes, Outcome
<1>2. Wire' = Wire
  BY DEF GatherFetches, GatherProbes, Wire, RequestOf
<1>3. phase' = Promise!NextPhase[phase] /\ phase # "closed"
  BY DEF GatherFetches, GatherProbes, Promise!NextPhase
<1>4. \A t \in Promise!Task : Promise!PhaseOf(t) = phase => Outcome[t] # "pending"
  <2> SUFFICES ASSUME NEW t \in Task, PhaseOf(t) = phase PROVE Outcome[t] # "pending"
    BY DEF Promise!Task, Task, Promise!PhaseOf, PhaseOf
  <2>1. pc[t] \in Done
    BY DEF GatherFetches, GatherProbes, Ended, PhaseOf, Task
  <2> QED
    BY <2>1 DEF Outcome, Done
<1> QED
  BY <1>1, <1>2, <1>3, <1>4 DEF Promise!Advance

(* Every step of a request is a step of the promise, or a stutter. *)
LEMMA TaskStepSeen ==
  ASSUME IInv, IInv', NEW t \in Task, TaskStep(t)
  PROVE  Promise!Exchange(t) \/ Promise!Resolve(t) \/ UNCHANGED Promise!vars
<1> DEFINE Others == \A other \in Task \ {t} : /\ cur'[other] = cur[other]
                                              /\ peer'[other] = peer[other]
                                              /\ cookie'[other] = cookie[other]
<1>1. CASE TakeRateLock(t) \/ PassRateLimit(t)
  <2>1. PICK label \in {"sleep", "slot"} : pc' = [pc EXCEPT ![t] = label]
    BY <1>1 DEF TakeRateLock, PassRateLimit, Goto
  <2>2. pc[t] \in {"rate", "sleep"} /\ Others /\ phase' = phase
    BY <1>1 DEF TakeRateLock, PassRateLimit, At
  <2> QED
    BY <2>1, <2>2, StutterSeen DEF Done
<1>2. CASE EnterBlock(t)
  <2>1. PICK label \in {"send", "failed"} : pc' = [pc EXCEPT ![t] = label]
    BY <1>2 DEF EnterBlock, Goto
  <2>2. pc[t] = "slot" /\ phase = PhaseOf(t) /\ Others /\ phase' = phase
    BY <1>2 DEF EnterBlock, At, IInv, TypeOK
  <2>3. CASE label = "send"
    BY <2>1, <2>2, <2>3, StutterSeen DEF Done
  <2>4. CASE label = "failed"
    BY <2>1, <2>2, <2>4, FailSeen DEF Done
  <2> QED
    BY <2>1, <2>3, <2>4
<1>3. CASE ReuseConnection(t) \/ Connect(t)
  <2>1. pc[t] \in {"send", "connect"} /\ phase = PhaseOf(t) /\ pc' = [pc EXCEPT ![t] = "wire"]
    BY <1>3 DEF ReuseConnection, Connect, At, Goto
  <2>2. Others /\ phase' = phase
    BY <1>3 DEF ReuseConnection, Connect, IInv, TypeOK
  <2> QED
    BY <2>1, <2>2, SendSeen
<1>4. CASE OpenConnection(t)
  <2>1. pc[t] = "send" /\ phase = PhaseOf(t) /\ Others /\ phase' = phase
    BY <1>4 DEF OpenConnection, At, LeaveBlock, IInv, TypeOK
  <2>2. PICK label \in {"connect", "failed"} : pc' = [pc EXCEPT ![t] = label]
    BY <1>4 DEF OpenConnection, Goto, LeaveBlock
  <2>3. CASE label = "connect"
    BY <2>1, <2>2, <2>3, StutterSeen DEF Done
  <2>4. CASE label = "failed"
    BY <2>1, <2>2, <2>4, FailSeen DEF Done
  <2> QED
    BY <2>2, <2>3, <2>4
<1>5. CASE ConnectRefused(t)
  <2>1. pc[t] = "connect" /\ phase = PhaseOf(t) /\ Others /\ phase' = phase
    BY <1>5 DEF ConnectRefused, At, LeaveBlock, IInv, TypeOK
  <2>2. PICK label \in {"connect", "failed"} : pc' = [pc EXCEPT ![t] = label]
    <3>1. pc' = pc \/ pc' = [pc EXCEPT ![t] = "failed"]
      BY <1>5 DEF ConnectRefused, Goto, LeaveBlock
    <3>2. pc = [pc EXCEPT ![t] = "connect"]
      BY <2>1 DEF IInv, TypeOK
    <3> QED
      BY <3>1, <3>2
  <2>3. CASE label = "connect"
    BY <2>1, <2>2, <2>3, StutterSeen DEF Done
  <2>4. CASE label = "failed"
    BY <2>1, <2>2, <2>4, FailSeen DEF Done
  <2> QED
    BY <2>2, <2>3, <2>4
<1>6. CASE FinalResponse(t)
  <2>1. /\ pc[t] = "wire" /\ phase = PhaseOf(t) /\ pc' = [pc EXCEPT ![t] = "artifact"]
        /\ Others /\ phase' = phase
    BY <1>6 DEF FinalResponse, ReadResponse, At, LeaveBlock, Goto, IInv, TypeOK
  <2> QED
    BY <2>1, ArtifactSeen
<1>7. CASE RejectRedirect(t) \/ RequestError(t)
  <2>1. /\ pc[t] \in Inside /\ phase = PhaseOf(t) /\ pc' = [pc EXCEPT ![t] = "failed"]
        /\ Others /\ phase' = phase
    BY <1>7 DEF RejectRedirect, RequestError, ReadResponse, Holders, At, LeaveBlock,
                Goto, IInv, TypeOK, Inside
  <2> QED
    BY <2>1, FailSeen DEF Inside, Done
<1>8. CASE FollowRedirect(t)
  <2>1. pc[t] = "wire" /\ phase = PhaseOf(t) /\ Others /\ phase' = phase
    BY <1>8 DEF FollowRedirect, ReadResponse, At, LeaveBlock, IInv, TypeOK
  <2>2. PICK label \in {"send", "failed"} : pc' = [pc EXCEPT ![t] = label]
    BY <1>8 DEF FollowRedirect, Goto, LeaveBlock
  <2>3. CASE label = "send"
    BY <2>1, <2>2, <2>3, AnswerSeen
  <2>4. CASE label = "failed"
    BY <2>1, <2>2, <2>4, FailSeen DEF Done
  <2> QED
    BY <2>2, <2>3, <2>4
<1> QED
  BY <1>1, <1>2, <1>3, <1>4, <1>5, <1>6, <1>7, <1>8 DEF TaskStep

LEMMA StepSeen == IInv /\ IInv' /\ [Next]_vars => [Promise!Next]_Promise!vars
<1> SUFFICES ASSUME IInv, IInv', [Next]_vars
             PROVE  Promise!Next \/ UNCHANGED Promise!vars
  OBVIOUS
<1>1. CASE UNCHANGED vars
  BY <1>1 DEF vars, Promise!vars, Outcome, Wire, RequestOf
<1>2. CASE ConnectionExpires
  BY <1>2 DEF ConnectionExpires, Promise!vars, Outcome, Wire, RequestOf
<1>3. CASE GatherFetches \/ GatherProbes
  BY <1>3, GatherSeen DEF Promise!Next
<1>4. ASSUME NEW t \in Task, TaskStep(t)
      PROVE  Promise!Next \/ UNCHANGED Promise!vars
  <2>1. t \in Promise!Task
    BY DEF Promise!Task, Task
  <2> QED
    BY <1>4, <2>1, TaskStepSeen DEF Promise!Next
<1> QED
  BY <1>1, <1>2, <1>3, <1>4 DEF Next

(* The fetcher implements the safety part of FetchPromise: whatever happens  *)
(* on the network, run_scan sees permitted requests, each resolved once, and *)
(* batches gathered only when all of their requests have ended.              *)
THEOREM PromiseKept == Spec => Promise!SafeSpec
  BY InitSeen, StepSeen, Invariance, PTL DEF Spec, Promise!SafeSpec

-----------------------------------------------------------------------------
(* The pool: its idle connections and the connected requests share PoolSize. *)
PoolInv ==
  /\ IsFiniteSet(idle)
  /\ Cardinality(Connected) + Cardinality(idle) <= PoolSize

LEMMA ConnectedFinite == IsFiniteSet(Connected) /\ Cardinality(Connected) \in Nat
<1>1. Connected \subseteq Holders
  BY DEF Connected, Holders
<1> QED
  BY <1>1, HoldersFinite, FS_Subset, FS_CardinalityType

(* A connection goes back to the pool, or is dropped, when a request ends. *)
LEMMA PoolGiveBack ==
  ASSUME PoolInv, NEW t \in Connected, Connected' = Connected \ {t},
         idle' = idle \/ \E conn : idle' = idle \cup {conn}
  PROVE  PoolInv'
<1>1. /\ Cardinality(Connected') = Cardinality(Connected) - 1
      /\ Cardinality(Connected) \in Nat /\ Cardinality(Connected') \in Nat
  BY ConnectedFinite, FS_RemoveElement, FS_CardinalityType
<1>2. /\ IsFiniteSet(idle') /\ Cardinality(idle') \in Nat /\ Cardinality(idle) \in Nat
      /\ Cardinality(idle') <= Cardinality(idle) + 1
  <2>1. IsFiniteSet(idle) /\ Cardinality(idle) \in Nat
    BY FS_CardinalityType DEF PoolInv
  <2>2. CASE idle' = idle
    BY <2>1, <2>2
  <2>3. CASE \E conn : idle' = idle \cup {conn}
    <3> PICK conn : idle' = idle \cup {conn}
      BY <2>3
    <3>1. /\ IsFiniteSet(idle \cup {conn})
          /\ Cardinality(idle \cup {conn}) \in {Cardinality(idle), Cardinality(idle) + 1}
      BY <2>1, FS_AddElement
    <3> QED
      BY <2>1, <3>1
  <2> QED
    BY <2>2, <2>3
<1> QED
  BY <1>1, <1>2, LimitsAssumption DEF PoolInv

(* Nobody connects, and the pool at most shrinks. *)
LEMMA PoolShrinks ==
  ASSUME PoolInv, Connected' \subseteq Connected, idle' \subseteq idle
  PROVE  PoolInv'
<1>1. Cardinality(Connected') \in Nat /\ Cardinality(Connected') <= Cardinality(Connected)
  BY ConnectedFinite, FS_Subset, FS_CardinalityType
<1>2. /\ IsFiniteSet(idle') /\ Cardinality(idle') \in Nat /\ Cardinality(idle) \in Nat
      /\ Cardinality(idle') <= Cardinality(idle)
  BY FS_Subset, FS_CardinalityType DEF PoolInv
<1> QED
  BY <1>1, <1>2, ConnectedFinite, LimitsAssumption DEF PoolInv

(* A request takes a connection: one of the pool, or a new one it has room for. *)
LEMMA PoolTakes ==
  ASSUME PoolInv, NEW t \in Task, t \notin Connected, Connected' = Connected \cup {t},
         (\E conn \in idle : idle' = idle \ {conn}) \/ MakeRoom
  PROVE  PoolInv'
<1>1. Cardinality(Connected') = Cardinality(Connected) + 1
  BY ConnectedFinite, FS_AddElement
<1>2. Cardinality(idle) \in Nat /\ Cardinality(Connected) \in Nat
  BY ConnectedFinite, FS_CardinalityType DEF PoolInv
<1>3. CASE \E conn \in idle : idle' = idle \ {conn}
  <2>1. PICK conn \in idle : idle' = idle \ {conn}
    BY <1>3
  <2>2. IsFiniteSet(idle') /\ Cardinality(idle') = Cardinality(idle) - 1
    BY <2>1, FS_RemoveElement DEF PoolInv
  <2> QED
    BY <1>1, <1>2, <2>2, LimitsAssumption DEF PoolInv
<1>4. CASE /\ Cardinality(Connected) + Cardinality(idle) < PoolSize
           /\ UNCHANGED idle
  BY <1>1, <1>2, <1>4, LimitsAssumption DEF PoolInv
<1> QED
  BY <1>3, <1>4 DEF MakeRoom

LEMMA PoolStep == PoolInv /\ IInv /\ [Next]_vars => PoolInv'
<1> SUFFICES ASSUME PoolInv, IInv, [Next]_vars PROVE PoolInv'
  OBVIOUS
<1> USE DEF At, Goto
<1>1. CASE UNCHANGED vars \/ ConnectionExpires \/ GatherFetches \/ GatherProbes
  BY <1>1, PoolShrinks DEF Connected, vars, ConnectionExpires, GatherFetches, GatherProbes
<1>2. ASSUME NEW t \in Task, TaskStep(t) PROVE PoolInv'
  <2>1. CASE TakeRateLock(t) \/ PassRateLimit(t) \/ EnterBlock(t)
    <3>1. Connected' \subseteq Connected /\ idle' \subseteq idle
      BY <2>1 DEF TakeRateLock, PassRateLimit, EnterBlock, Connected, IInv, TypeOK
    <3> QED
      BY <3>1, PoolShrinks
  <2>2. CASE ReuseConnection(t)
    <3>1. t \notin Connected /\ Connected' = Connected \cup {t}
      BY <2>2 DEF ReuseConnection, Connected, IInv, TypeOK
    <3> QED
      BY <2>2, <3>1, PoolTakes DEF ReuseConnection
  <2>3. CASE OpenConnection(t)
    <3>1. t \notin Connected /\ MakeRoom /\ idle' \subseteq idle
      BY <2>3 DEF OpenConnection, MakeRoom, Connected
    <3>2. PICK label \in {"connect", "failed"} : pc' = [pc EXCEPT ![t] = label]
      BY <2>3 DEF OpenConnection, LeaveBlock
    <3>3. CASE label = "connect"
      <4>1. Connected' = Connected \cup {t}
        BY <3>2, <3>3 DEF Connected, IInv, TypeOK
      <4> QED
        BY <3>1, <4>1, PoolTakes
    <3>4. CASE label = "failed"
      <4>1. Connected' \subseteq Connected
        BY <3>2, <3>4 DEF Connected, IInv, TypeOK
      <4> QED
        BY <3>1, <4>1, PoolShrinks
    <3> QED
      BY <3>2, <3>3, <3>4
  <2>4. CASE Connect(t) \/ ConnectRefused(t) \/ RequestError(t)
    <3>1. Connected' \subseteq Connected /\ idle' \subseteq idle
      BY <2>4 DEF Connect, ConnectRefused, RequestError, LeaveBlock, Connected, IInv, TypeOK
    <3> QED
      BY <3>1, PoolShrinks
  <2>5. CASE FinalResponse(t) \/ FollowRedirect(t) \/ RejectRedirect(t)
    <3>1. t \in Connected /\ (idle' = idle \/ \E conn : idle' = idle \cup {conn})
      BY <2>5 DEF FinalResponse, FollowRedirect, RejectRedirect, ReadResponse, Connected
    <3>2. PICK label \in {"send"} \cup Done : pc' = [pc EXCEPT ![t] = label]
      BY <2>5 DEF FinalResponse, FollowRedirect, RejectRedirect, LeaveBlock, Done
    <3>3. Connected' = Connected \ {t}
      BY <3>2 DEF Connected, IInv, TypeOK, Done
    <3> QED
      BY <3>1, <3>3, PoolGiveBack
  <2> QED
    BY <1>2, <2>1, <2>2, <2>3, <2>4, <2>5 DEF TaskStep
<1> QED
  BY <1>1, <1>2 DEF Next

(* max_concurrency bounds the requests inside the block, the client's pool   *)
(* the connections.                                                          *)
THEOREM InFlightStaysBounded == Spec => []InFlightBounded
<1>1. Init => PoolInv
  <2> SUFFICES ASSUME Init PROVE PoolInv
    OBVIOUS
  <2>1. Connected = {} /\ idle = {}
    BY DEF Init, Connected
  <2> QED
    BY <2>1, FS_EmptySet, LimitsAssumption DEF PoolInv
<1>2. IInv /\ PoolInv => InFlightBounded
  <2> SUFFICES ASSUME IInv, PoolInv PROVE InFlightBounded
    OBVIOUS
  <2>1. permits \in Nat /\ permits = Slots - Cardinality(Holders)
    BY SlotsType DEF IInv, TypeOK, PermitsConserved
  <2> QED
    BY <2>1, HoldersFinite, SlotsType DEF PoolInv, InFlightBounded
<1> QED
  BY <1>1, <1>2, PoolStep, Invariance, PTL DEF Spec

-----------------------------------------------------------------------------
(***************************************************************************)
(* The rate limiter, for any number of requests, any interval and any      *)
(* schedule: its passes are an interval apart, and a scan is never ahead   *)
(* of its rate.                                                            *)
(***************************************************************************)
Shape ==
  /\ now \in Nat
  /\ stage \in [Call -> {"rate", "sleep", "slot", "wire", "done"}]
  /\ wake \in [Call -> Nat]
  /\ passes \in Seq(Nat)

(* The lock: one task sleeps at a time... *)
OneSleeper == \A s, t \in Call : stage[s] = "sleep" /\ stage[t] = "sleep" => s = t

(* ... and it fell asleep after the last pass, at a time that was in pace. *)
WakesInPace ==
  \A t \in Call : stage[t] = "sleep" =>
    /\ \A i \in 1..Len(passes) : wake[t] >= passes[i] + Interval
    /\ wake[t] >= Cardinality(Passed) * Interval + Interval

PassesAreOver == \A i \in 1..Len(passes) : passes[i] <= now

(* The inductive invariant. *)
PacingInv == Shape /\ OneSleeper /\ WakesInPace /\ PassesAreOver /\ PassesSpaced /\ NeverAheadOfRate

-----------------------------------------------------------------------------
LEMMA PassedFinite == IsFiniteSet(Passed) /\ Cardinality(Passed) \in Nat
<1>1. Passed \subseteq Call /\ IsFiniteSet(Call)
  BY PacingAssumption DEF Passed
<1> QED
  BY <1>1, FS_Subset, FS_CardinalityType

LEMMA ProductType == \A n \in Nat : n * Interval \in Nat
  BY PacingAssumption

LEMMA InitEstablishes == PacingInit => PacingInv
<1> SUFFICES ASSUME PacingInit PROVE PacingInv
  OBVIOUS
<1>1. Passed = {}
  BY DEF PacingInit, Passed
<1>2. Cardinality(Passed) = 0
  BY <1>1, FS_EmptySet
<1>3. Len(passes) = 0 /\ passes \in Seq(Nat)
  BY EmptySeq DEF PacingInit
<1>4. Shape
  BY <1>3 DEF PacingInit, Shape
<1>5. OneSleeper /\ WakesInPace /\ PassesAreOver /\ PassesSpaced
  BY <1>3 DEF PacingInit, OneSleeper, WakesInPace, PassesAreOver, PassesSpaced, Spaced
<1>6. NeverAheadOfRate
  BY <1>2, PacingAssumption DEF PacingInit, NeverAheadOfRate
<1> QED
  BY <1>4, <1>5, <1>6 DEF PacingInv

LEMMA TickKeeps == ASSUME PacingInv, Tick PROVE PacingInv'
<1>1. now' = now + 1 /\ UNCHANGED <<stage, wake, passes>> /\ Passed' = Passed
  BY DEF Tick, Passed
<1>2. Shape' /\ OneSleeper' /\ WakesInPace' /\ PassesSpaced'
  BY <1>1 DEF PacingInv, Shape, OneSleeper, WakesInPace, PassesSpaced
<1>3. PassesAreOver'
  BY <1>1, ElementOfSeq DEF PacingInv, Shape, PassesAreOver
<1>4. NeverAheadOfRate'
  BY <1>1, PassedFinite, ProductType DEF PacingInv, Shape, NeverAheadOfRate
<1> QED
  BY <1>2, <1>3, <1>4 DEF PacingInv

(* The lock is taken: the sleep starts now, and now is in pace. *)
LEMMA SleepKeeps == ASSUME PacingInv, NEW t \in Call, Sleep(t) PROVE PacingInv'
<1>1. /\ stage[t] = "rate" /\ \A other \in Call : stage[other] # "sleep"
      /\ stage' = [stage EXCEPT ![t] = "sleep"]
      /\ wake' = [wake EXCEPT ![t] = now + Interval]
      /\ now' = now /\ passes' = passes
  BY DEF Sleep, Ready, LockFree
<1>2. Shape'
  BY <1>1, PacingAssumption DEF PacingInv, Shape
<1>3. Passed' = Passed
  BY <1>1 DEF PacingInv, Shape, Passed
<1>4. OneSleeper'
  BY <1>1 DEF PacingInv, Shape, OneSleeper
<1>5. WakesInPace'
  <2> SUFFICES ASSUME NEW s \in Call, stage'[s] = "sleep"
               PROVE  /\ \A i \in 1..Len(passes) : wake'[s] >= passes[i] + Interval
                      /\ wake'[s] >= Cardinality(Passed) * Interval + Interval
    BY <1>1, <1>3 DEF WakesInPace
  <2>1. s = t /\ wake'[s] = now + Interval
    BY <1>1 DEF PacingInv, Shape
  <2>2. \A i \in 1..Len(passes) : passes[i] \in Nat /\ passes[i] <= now
    BY ElementOfSeq DEF PacingInv, Shape, PassesAreOver
  <2>3. Cardinality(Passed) * Interval \in Nat /\ Cardinality(Passed) * Interval <= now
    BY PassedFinite, ProductType DEF PacingInv, NeverAheadOfRate
  <2> QED
    BY <2>1, <2>2, <2>3, PacingAssumption DEF PacingInv, Shape
<1>6. PassesAreOver' /\ PassesSpaced' /\ NeverAheadOfRate'
  BY <1>1, <1>3 DEF PacingInv, PassesAreOver, PassesSpaced, NeverAheadOfRate
<1> QED
  BY <1>2, <1>4, <1>5, <1>6 DEF PacingInv

(* The sleep ends: one more task has passed, and its wake time allows it. *)
LEMMA AwakeKeeps == ASSUME PacingInv, NEW t \in Call, Awake(t) PROVE PacingInv'
<1>1. /\ stage[t] = "sleep" /\ now >= wake[t]
      /\ stage' = [stage EXCEPT ![t] = "slot"]
      /\ passes' = Append(passes, now)
      /\ now' = now /\ wake' = wake
  BY DEF Awake, Ready
<1>2. /\ passes' \in Seq(Nat) /\ Len(passes) \in Nat /\ Len(passes') = Len(passes) + 1
      /\ \A i \in 1..Len(passes) : passes'[i] = passes[i] /\ passes[i] \in Nat
      /\ passes'[Len(passes) + 1] = now
  BY <1>1, AppendProperties, ElementOfSeq, LenProperties DEF PacingInv, Shape
<1>3. \A other \in Call : stage'[other] # "sleep"
  BY <1>1 DEF PacingInv, Shape, OneSleeper
<1>4. Cardinality(Passed') = Cardinality(Passed) + 1
  <2>1. t \notin Passed /\ Passed' = Passed \cup {t}
    BY <1>1 DEF PacingInv, Shape, Passed
  <2> QED
    BY <2>1, PassedFinite, FS_AddElement
<1>5. /\ \A i \in 1..Len(passes) : wake[t] >= passes[i] + Interval
      /\ wake[t] >= Cardinality(Passed) * Interval + Interval
      /\ wake[t] \in Nat /\ now \in Nat
  BY <1>1 DEF PacingInv, Shape, WakesInPace
<1>6. Shape'
  BY <1>1, <1>2 DEF PacingInv, Shape
<1>7. OneSleeper' /\ WakesInPace'
  BY <1>3 DEF OneSleeper, WakesInPace
<1>8. PassesAreOver'
  BY <1>1, <1>2 DEF PacingInv, Shape, PassesAreOver
<1>9. PassesSpaced'
  <2> SUFFICES ASSUME NEW i \in 2..Len(passes')
               PROVE  passes'[i] >= passes'[i - 1] + Interval
    BY DEF PassesSpaced, Spaced
  <2>1. CASE i \in 2..Len(passes)
    BY <1>2, <2>1 DEF PacingInv, PassesSpaced, Spaced
  <2>2. CASE i = Len(passes) + 1
    <3>1. i - 1 \in 1..Len(passes) /\ passes'[i - 1] = passes[i - 1] /\ passes'[i] = now
      BY <1>2, <2>2
    <3> QED
      BY <1>1, <1>2, <1>5, <3>1, PacingAssumption
  <2> QED
    BY <1>2, <2>1, <2>2
<1>10. NeverAheadOfRate'
  <2>1. (Cardinality(Passed) + 1) * Interval = Cardinality(Passed) * Interval + Interval
    BY PassedFinite, PacingAssumption
  <2>2. Cardinality(Passed) * Interval \in Nat /\ Interval \in Nat
    BY PassedFinite, ProductType, PacingAssumption
  <2> QED
    BY <1>1, <1>4, <1>5, <2>1, <2>2 DEF NeverAheadOfRate
<1> QED
  BY <1>6, <1>7, <1>8, <1>9, <1>10 DEF PacingInv

(* Behind the limiter nothing changes for it. *)
LEMMA BehindKeeps ==
  ASSUME PacingInv, NEW t \in Call, TakeSlot(t) \/ SendAgain(t) \/ GiveSlotBack(t)
  PROVE  PacingInv'
<1>1. /\ UNCHANGED <<now, wake, passes>>
      /\ \/ stage' = [stage EXCEPT ![t] = "wire"] /\ stage[t] = "slot"
         \/ stage' = stage
         \/ stage' = [stage EXCEPT ![t] = "done"] /\ stage[t] = "wire"
  BY DEF TakeSlot, SendAgain, GiveSlotBack
<1>2. /\ Shape' /\ Passed' = Passed
      /\ \A s \in Call : stage'[s] = "sleep" <=> stage[s] = "sleep"
  BY <1>1 DEF PacingInv, Shape, Passed
<1> QED
  BY <1>1, <1>2 DEF PacingInv, OneSleeper, WakesInPace, PassesAreOver, PassesSpaced, NeverAheadOfRate

(* The inductive invariant holds throughout. *)
THEOREM PacingInvariance == PacingSpec => []PacingInv
<1>1. PacingInv /\ [PacingNext]_pacingVars => PacingInv'
  <2> SUFFICES ASSUME PacingInv, [PacingNext]_pacingVars PROVE PacingInv'
    OBVIOUS
  <2>1. CASE Tick
    BY <2>1, TickKeeps
  <2>2. ASSUME NEW t \in Call,
               Sleep(t) \/ Awake(t) \/ TakeSlot(t) \/ SendAgain(t) \/ GiveSlotBack(t)
        PROVE  PacingInv'
    BY <2>2, SleepKeeps, AwakeKeeps, BehindKeeps
  <2>3. CASE UNCHANGED pacingVars
    BY <2>3 DEF pacingVars, PacingInv, Shape, OneSleeper, WakesInPace, PassesAreOver, PassesSpaced,
                NeverAheadOfRate, Passed
  <2> QED
    BY <2>1, <2>2, <2>3 DEF PacingNext
<1> QED
  BY <1>1, InitEstablishes, PTL DEF PacingSpec

-----------------------------------------------------------------------------
(* Tasks pass the limiter an interval apart, however many wait. *)
THEOREM LimiterSpaces == PacingSpec => []PassesSpaced
<1>1. PacingInv => PassesSpaced
  BY DEF PacingInv
<1> QED
  BY <1>1, PacingInvariance, PTL

(* By the time n tasks have been let through, n intervals have gone by. *)
THEOREM RateIsKept == PacingSpec => []NeverAheadOfRate
<1>1. PacingInv => NeverAheadOfRate
  BY DEF PacingInv
<1> QED
  BY <1>1, PacingInvariance, PTL
=============================================================================
