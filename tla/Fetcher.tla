------------------------------- MODULE Fetcher -------------------------------
(***************************************************************************)
(* aegisaudit/fetcher.py over the transport of aegisaudit/ssrf.py: the two  *)
(* batches of a scan (fetch_many, then probe_cors), each request waiting    *)
(* for the rate limit and for the semaphore, validated, sent on a pooled or *)
(* a fresh connection, and followed through its redirects.                  *)
(*                                                                          *)
(* One action is the code between two awaits.  The network is everything    *)
(* around it: every lookup may answer anew, every peer may refuse, time     *)
(* out, redirect, set a cookie or drop the connection.                      *)
(*                                                                          *)
(* A definition X_Slip beside X is the form X takes in the mutant named     *)
(* Slip: a slip this code guards against, which a property must notice.     *)
(***************************************************************************)
EXTENDS SsrfGuard, FiniteSets, Naturals

CONSTANTS Fetches,         \* the plain fetches: one per scan target
          Probes,          \* the CORS probes: one per target the user named
          TargetOf,        \* the URL each of them asks for
          Url,             \* URLs that targets and redirects name
          Answers,         \* what a lookup may return
          MaxConcurrency,  \* limits.max_concurrency
          MaxRedirects,    \* limits.max_redirects
          RateLimited,     \* limits.rate_per_sec > 0
          PoolSize         \* httpx.Limits(max_connections=10)

Task == Fetches \cup Probes

Address == UNION Answers

ASSUME TasksAssumption ==
  /\ IsFiniteSet(Fetches) /\ IsFiniteSet(Probes)
  /\ Fetches \cap Probes = {}
  /\ TargetOf \in [Task -> Url]

ASSUME LimitsAssumption ==
  /\ MaxConcurrency \in Int /\ MaxRedirects \in Nat /\ PoolSize \in Nat \ {0}
  /\ RateLimited \in BOOLEAN /\ AllowPrivate \in BOOLEAN
  /\ IsFiniteSet(Address)

VARIABLES
  pc,       \* where each fetch() is
  permits,  \* the semaphore's counter
  cur,      \* the URL a task is at, along its redirects
  hops,     \* redirects it has followed
  peer,     \* addresses left to try; the one connected to, once on the wire
  cookie,   \* does the request it built carry a Cookie header
  idle,     \* keep-alive connections of the client's pool
  jar,      \* hosts the client's shared cookie jar has a cookie for
  phase     \* which batch run_scan is gathering

vars == <<pc, permits, cur, hops, peer, cookie, idle, jar, phase>>

(* max(1, config.limits.max_concurrency) *)
Slots == IF MaxConcurrency > 1 THEN MaxConcurrency ELSE 1

Connection == [scheme : {u.scheme : u \in Url}, host : {u.host : u \in Url},
               addr : Address]

Done == {"artifact", "failed"}

PhaseOf(t) == IF t \in Fetches THEN "fetch" ELSE "probe"

Holders == {t \in Task : pc[t] \in {"send", "connect", "wire"}}

Connected == {t \in Task : pc[t] \in {"connect", "wire"}}

ServesOrigin(conn, url) == conn.scheme = url.scheme /\ conn.host = url.host

Init ==
  /\ pc = [t \in Task |-> "rate"]
  /\ permits = Slots
  /\ cur = TargetOf
  /\ hops = [t \in Task |-> 0]
  /\ peer = [t \in Task |-> {}]
  /\ cookie = [t \in Task |-> FALSE]
  /\ idle = {}
  /\ jar = {}
  /\ phase = "fetch"

At(t, label) == pc[t] = label /\ phase = PhaseOf(t)

Goto(t, label) == pc' = [pc EXCEPT ![t] = label]

Released_Leaked == permits

Released == permits + 1

(* The `async with self.semaphore` block is left, by return or exception. *)
LeaveBlock(t, result) ==
  /\ Goto(t, result)
  /\ permits' = Released
  /\ peer' = [peer EXCEPT ![t] = {}]
  /\ cookie' = [cookie EXCEPT ![t] = FALSE]

(* _send builds the request: the jar is merged in, a probe strips it. *)
CarriesCookie_Merged(t, url, cookies) == url.host \in cookies

CarriesCookie(t, url, cookies) == t \in Fetches /\ url.host \in cookies

(* _validate runs on the target and again on every hop. *)
Validate_TargetOnly(t, url, answer) == url # TargetOf[t] \/ ValidateUrl(url, answer)

Validate(t, url, answer) == ValidateUrl(url, answer)

(* How many redirects _get follows. *)
MayFollow_OffByOne(t) == hops[t] <= MaxRedirects

MayFollow(t) == hops[t] < MaxRedirects

NextHop_Uncounted(t) == hops[t]

NextHop(t) == hops[t] + 1

(* gather() returns when all of a batch has; fetch() never raises into it. *)
Ended_OnFailure(batch) ==
  (\A t \in batch : pc[t] \in Done) \/ \E t \in batch : pc[t] = "failed"

Ended(batch) == \A t \in batch : pc[t] \in Done

-----------------------------------------------------------------------------
(* _respect_rate_limit: the lock is held across the sleep, and only there. *)
TakeRateLock(t) ==
  /\ At(t, "rate") /\ RateLimited
  /\ \A other \in Task : pc[other] # "sleep"
  /\ Goto(t, "sleep")
  /\ UNCHANGED <<permits, cur, hops, peer, cookie, idle, jar, phase>>

PassRateLimit(t) ==
  /\ \/ At(t, "sleep")
     \/ At(t, "rate") /\ ~RateLimited
  /\ Goto(t, "slot")
  /\ UNCHANGED <<permits, cur, hops, peer, cookie, idle, jar, phase>>

(* The semaphore is acquired; the target is validated and its request built, *)
(* or rejected with the permit handed straight back.                         *)
EnterBlock(t) ==
  /\ At(t, "slot") /\ permits > 0
  /\ \E answer \in Answers :
       IF Validate(t, cur[t], answer)
       THEN /\ Goto(t, "send")
            /\ permits' = permits - 1
            /\ cookie' = [cookie EXCEPT ![t] = CarriesCookie(t, cur[t], jar)]
       ELSE Goto(t, "failed") /\ UNCHANGED <<permits, cookie>>
  /\ UNCHANGED <<cur, hops, peer, idle, jar, phase>>

-----------------------------------------------------------------------------
(* The pool hands out an idle connection to the same scheme and host. *)
ReuseConnection(t) ==
  /\ At(t, "send")
  /\ \E conn \in idle :
       /\ ServesOrigin(conn, cur[t])
       /\ idle' = idle \ {conn}
       /\ peer' = [peer EXCEPT ![t] = {conn.addr}]
  /\ Goto(t, "wire")
  /\ UNCHANGED <<permits, cur, hops, cookie, jar, phase>>

(* The pool has a place for a new connection, closing an idle one for it. *)
MakeRoom_Unbounded == UNCHANGED idle

MakeRoom ==
  IF Cardinality(Connected) + Cardinality(idle) < PoolSize
  THEN UNCHANGED idle
  ELSE \E conn \in idle : idle' = idle \ {conn}

(* connect_tcp of the pinned backend looks the host up a second time. *)
OpenConnection(t) ==
  /\ At(t, "send")
  /\ \A conn \in idle : ~ServesOrigin(conn, cur[t])
  /\ MakeRoom
  /\ \E answer \in Answers :
       LET addrs == ConnectAddresses(answer)
       IN  IF addrs # {}
           THEN /\ Goto(t, "connect")
                /\ peer' = [peer EXCEPT ![t] = addrs]
                /\ UNCHANGED <<permits, cookie>>
           ELSE LeaveBlock(t, "failed")
  /\ UNCHANGED <<cur, hops, jar, phase>>

Connect(t) ==
  /\ At(t, "connect")
  /\ \E addr \in peer[t] : peer' = [peer EXCEPT ![t] = {addr}]
  /\ Goto(t, "wire")
  /\ UNCHANGED <<permits, cur, hops, cookie, idle, jar, phase>>

(* ConnectError: the next validated address, or the last error raised. *)
ConnectRefused(t) ==
  /\ At(t, "connect")
  /\ \E addr \in peer[t] :
       IF peer[t] = {addr}
       THEN LeaveBlock(t, "failed")
       ELSE /\ peer' = [peer EXCEPT ![t] = @ \ {addr}]
            /\ UNCHANGED <<pc, permits, cookie>>
  /\ UNCHANGED <<cur, hops, idle, jar, phase>>

-----------------------------------------------------------------------------
(* A response is read: its cookies go to the jar, its connection to the pool. *)
ReadResponse(t) ==
  /\ At(t, "wire")
  /\ jar' \in {jar, jar \cup {cur[t].host}}
  /\ LET conn == [scheme |-> cur[t].scheme, host |-> cur[t].host,
                  addr |-> CHOOSE addr \in peer[t] : TRUE]
     IN  idle' \in {idle, idle \cup {conn}}

FinalResponse(t) ==
  /\ ReadResponse(t)
  /\ LeaveBlock(t, "artifact")
  /\ UNCHANGED <<cur, hops, phase>>

(* A redirect is followed: counted, validated, and the next request built.   *)
(* One without a Location leads a plain fetch back to the URL it came from.  *)
FollowRedirect(t) ==
  /\ ReadResponse(t)
  /\ MayFollow(t)
  /\ \E location \in Url, answer \in Answers :
       /\ cur' = [cur EXCEPT ![t] = location]
       /\ IF Validate(t, location, answer)
          THEN /\ Goto(t, "send")
               /\ hops' = [hops EXCEPT ![t] = NextHop(t)]
               /\ peer' = [peer EXCEPT ![t] = {}]
               /\ cookie' = [cookie EXCEPT ![t] = CarriesCookie(t, location, jar')]
               /\ UNCHANGED permits
          ELSE LeaveBlock(t, "failed") /\ UNCHANGED hops
  /\ UNCHANGED phase

(* Too many redirects, or a probe redirected without a Location. *)
RejectRedirect(t) ==
  /\ ReadResponse(t)
  /\ ~MayFollow(t) \/ t \in Probes
  /\ LeaveBlock(t, "failed")
  /\ UNCHANGED <<cur, hops, phase>>

(* httpx raises: pool or connect timeout, TLS, read or protocol error. *)
RequestError(t) ==
  /\ t \in Holders /\ phase = PhaseOf(t)
  /\ LeaveBlock(t, "failed")
  /\ UNCHANGED <<cur, hops, idle, jar, phase>>

(* A server closes a connection kept alive, or keepalive_expiry is over. *)
ConnectionExpires ==
  /\ \E conn \in idle : idle' = idle \ {conn}
  /\ UNCHANGED <<pc, permits, cur, hops, peer, cookie, jar, phase>>

-----------------------------------------------------------------------------
(* gather() returns once every request of the batch has; close() follows. *)
GatherFetches ==
  /\ phase = "fetch"
  /\ Ended(Fetches)
  /\ phase' = "probe"
  /\ UNCHANGED <<pc, permits, cur, hops, peer, cookie, idle, jar>>

GatherProbes ==
  /\ phase = "probe"
  /\ Ended(Probes)
  /\ phase' = "closed"
  /\ idle' = {}
  /\ UNCHANGED <<pc, permits, cur, hops, peer, cookie, jar>>

TaskStep(t) ==
  \/ TakeRateLock(t) \/ PassRateLimit(t) \/ EnterBlock(t)
  \/ ReuseConnection(t) \/ OpenConnection(t) \/ Connect(t) \/ ConnectRefused(t)
  \/ FinalResponse(t) \/ FollowRedirect(t) \/ RejectRedirect(t)
  \/ RequestError(t)

Next ==
  \/ \E t \in Task : TaskStep(t)
  \/ ConnectionExpires
  \/ GatherFetches
  \/ GatherProbes

(* The event loop runs every ready task; up to the wire the sleep, the       *)
(* resolver, the pool and each attempt to connect end in bounded time.  On   *)
(* the wire limits.timeout_sec bounds each read alone, and the body is read  *)
(* whole: a server that always sends a little more is owed no end.           *)
Fairness ==
  /\ \A t \in Task : WF_vars(pc[t] # "wire" /\ TaskStep(t))
  /\ WF_vars(GatherFetches) /\ WF_vars(GatherProbes)

Spec == Init /\ [][Next]_vars /\ Fairness

-----------------------------------------------------------------------------
TypeOK ==
  /\ pc \in [Task -> {"rate", "sleep", "slot", "send", "connect", "wire"} \cup Done]
  /\ permits \in 0..Slots
  /\ cur \in [Task -> Url]
  /\ hops \in [Task -> 0..MaxRedirects]
  /\ peer \in [Task -> SUBSET Address]
  /\ cookie \in [Task -> BOOLEAN]
  /\ idle \in SUBSET Connection
  /\ jar \in SUBSET {u.host : u \in Url}
  /\ phase \in {"fetch", "probe", "closed"}

(* The semaphore's counter and the requests inside its block always add up:  *)
(* no exit path of fetch() loses a permit or hands one back twice.           *)
PermitsConserved == permits = Slots - Cardinality(Holders)

(* limits.max_concurrency bounds the requests in progress, and the client's  *)
(* pool the connections they and the idle ones take.                         *)
InFlightBounded ==
  /\ Cardinality(Holders) <= Slots
  /\ Cardinality(Connected) + Cardinality(idle) <= PoolSize

PermittedPeer(addr) == AllowPrivate \/ ~IpIsBlocked(addr)

(* No request is ever out to a URL outside the scope or to an address the    *)
(* guard blocks, whatever the lookups answered in between, however many      *)
(* redirects led there, and whether its connection is fresh or from the pool. *)
OnlyPermittedTraffic ==
  \A t \in Task : pc[t] = "wire" =>
    /\ NameAllowed(cur[t])
    /\ \A addr \in peer[t] : PermittedPeer(addr)

(* A probe never presents a cookie, though the plain fetches and its own     *)
(* earlier hops fill the jar the client merges into each request.            *)
ProbesAnonymous == \A t \in Probes : ~cookie[t]

(* close() finds no request under way and leaves no connection open. *)
QuietOnceClosed == phase = "closed" => Holders = {} /\ idle = {}

(* fetch_many and probe_cors return, unless some response goes on for ever:  *)
(* neither the limiter, the resolver and the redirects nor the numbers of    *)
(* slots and connections keep a request from its end.                        *)
Termination ==
  (\A t \in Task : []<>(pc[t] # "wire")) => <>(phase = "closed")

(* What run_scan sees of it all: the requests that are out, and their ends.  *)
Outcome == [t \in Task |-> IF pc[t] \in Done THEN pc[t] ELSE "pending"]

RequestOf(t) == [url |-> cur[t], peer |-> CHOOSE addr \in peer[t] : TRUE,
                 cookie |-> cookie[t]]

NotOut == [url |-> "none"]

Wire == [t \in Task |-> IF pc[t] = "wire" THEN RequestOf(t) ELSE NotOut]

(* The requests the scope permits: a probe's carry no cookie. *)
Scope == [t \in Task |->
  {request \in [url : Url, peer : Address, cookie : BOOLEAN] :
     /\ NameAllowed(request.url) /\ PermittedPeer(request.peer)
     /\ t \in Probes => ~request.cookie}]

Promise == INSTANCE FetchPromise
  WITH Quiet <- NotOut, Limit <- Slots, outcome <- Outcome, wire <- Wire

(* The fetcher implements FetchPromise: what goes out and how it ends, and   *)
(* that endless responses, fewer than the slots, hold up no other request.   *)
ImplementsPromise == Promise!Spec
=============================================================================
