------------------------------ MODULE Gateway -------------------------------
(***************************************************************************)
(* A request's way through aperture: Proxy.ServeHTTP, the authenticator,   *)
(* the mint, the static service limiter, the free requests, the pricers    *)
(* and the secrets table, for concurrent requests, with database errors,   *)
(* restarts and the passing of time.  The invoice checker is taken as the  *)
(* atomic look that InvoiceChecker promises.  Every mint has a payment     *)
(* hash of its own, which also stands for the token id in the identifier   *)
(* and for the row of the secrets table; a preimage is written as the hash *)
(* it belongs to.                                                          *)
(***************************************************************************)
EXTENDS L402

CONSTANTS Req,        \* handler goroutines
          Hash,       \* payment hashes of the invoices that may be issued
          Path,       \* request paths, sequences of tokens
          Ip,         \* client addresses, the last byte masked
          Services,   \* the configured services, a sequence of records
          Quotes,     \* the answers of the price server
          Extra,      \* caveats a holder may add to a macaroon
          Hour,       \* L402RightExpiryDuration
          MaxTime,    \* bound: ticks of the clock
          MaxCaveats, \* bound: caveats a holder adds
          CountWidth, \* freebie.Count counts modulo this, 2^16 in the code
          MayFail     \* whether database and macaroon library may fail

\* The configuration and the price server's answers have the types of Service
\* and of PaymentDetails, after prepareServices has refused what has not.
ServiceSet ==
    [name : Text, paths : SUBSET Text, open : SUBSET Text,
     auth : {"on", "off", "freebie"}, count : Nat, dynamic : BOOLEAN,
     price : Nat, timeout : Nat, caps : Seq(Text)]
QuoteSet == [lud16 : Text, price : Nat]
Preimages == Hash \union {None}
ASSUME GatewayAssumption ==
    /\ Path \subseteq Text
    /\ Services \in Seq(ServiceSet)
    /\ Quotes \subseteq QuoteSet
    /\ Extra \subseteq CaveatSet(Preimages)
    /\ Hour \in Nat /\ MaxTime \in Nat /\ CountWidth \in Nat \ {0}

VARIABLES clock,
          started,  \* when the running process built its limiter
          invoice,  \* "none", "open" or "paid", in lnd
          cache,    \* the hashes that the challenger has cached as settled
          secrets,  \* settled_at in the row of each hash, NoRow or NullTime
          caveats,  \* the caveats of the macaroon that the buyer of a hash holds
          issued,   \* how many of them the mint has put there
          sold,     \* the resource that each handed out hash was sold for
          tally,    \* the free requests of each service and address
          free,     \* how many requests really passed for free
          pc,       \* where each request is
          q         \* its locals

vars == <<clock, started, invoice, cache, secrets, caveats, issued, sold,
          tally, free, pc, q>>

store == <<clock, started, invoice, cache, secrets>>
clients == <<caveats, issued, sold>>
tallies == <<tally, free>>

NoRow == -2
NullTime == -1
Service == 1..Len(Services)
Locals(path, ip, header, target) ==
    [path |-> path, ip |-> ip, header |-> header, target |-> target,
     quote |-> None, hash |-> None, count |-> 0]
Idle == Locals(<<>>, None, NoHeader, 0)

\* matchService: the first service whose host and path expressions match.
MatchService(path) ==
    LET M == {s \in Service : path \in Services[s].paths}
    IN  IF M = {} THEN 0 ELSE CHOOSE s \in M : \A t \in M : s <= t

ResourceName(s, path) ==
    IF Services[s].dynamic THEN Services[s].name \o path ELSE Services[s].name

AuthRequired(s, path) ==
    IF path \in Services[s].open THEN "off" ELSE Services[s].auth

\* prepareServices: no price means the default price of one satoshi, except
\* for the services with dynamic prices, which are passed over.
Price(s) == IF Services[s].price = 0 /\ ~Services[s].dynamic
            THEN 1 ELSE Services[s].price

Goto(r, label) == pc' = [pc EXCEPT ![r] = label]
Finish(r) == Goto(r, "idle") /\ q' = [q EXCEPT ![r] = Idle]
Resource(r) == ResourceName(q[r].target, q[r].path)
Level(r) == AuthRequired(q[r].target, q[r].path)

\* The free requests of a service are counted in a map of its own.
Slot(r) == <<q[r].target, q[r].ip>>

Init ==
    /\ clock = 0 /\ started = 0
    /\ invoice = [h \in Hash |-> "none"]
    /\ cache = {}
    /\ secrets = [h \in Hash |-> NoRow]
    /\ caveats = [h \in Hash |-> <<>>]
    /\ issued = [h \in Hash |-> 0]
    /\ sold = [h \in Hash |-> None]
    /\ tally = [k \in Service \X Ip |-> 0]
    /\ free = [k \in Service \X Ip |-> 0]
    /\ pc = [r \in Req |-> "idle"]
    /\ q = [r \in Req |-> Idle]

-----------------------------------------------------------------------------
(* Proxy.ServeHTTP                                                          *)

Macaroon(h) == [id |-> h, caveats |-> caveats[h]]
Issued(h) == [id |-> h, caveats |-> SubSeq(caveats[h], 1, issued[h])]

\* The authentication headers a client can send: none, or its macaroon, with
\* the preimage that paying gave it beside it or in a caveat of it.
Headers ==
    LET Paid == {h \in Hash : invoice[h] = "paid"}
    IN  {NoHeader}
        \union {[NoHeader EXCEPT !.auth = [mac |-> Macaroon(h), preimage |-> h]] :
                    h \in Paid}
        \union {[NoHeader EXCEPT !.md = Macaroon(h)] : h \in Paid}

\* A request that no service matches goes to a local service, an OPTIONS
\* request is answered at once; neither leaves a trace.
Arrive(r) ==
    /\ pc[r] = "idle"
    /\ \E path \in Path, ip \in Ip, h \in Headers :
           /\ MatchService(path) # 0
           /\ q' = [q EXCEPT ![r] =
                  Locals(path, ip, h, MatchService(path))]
           /\ Goto(r, IF AuthRequired(MatchService(path), path) = "off"
                      THEN "forward" ELSE "verify")
    /\ UNCHANGED <<store, clients, tallies>>

\* Accept said no: a free request is considered, or the price looked up.
Deny(r) == Goto(r, IF Level(r) = "freebie" THEN "canPass" ELSE "price")

\* Deviation: the secret decides, not the caveats.
VerifySecretOnly(a, resource) ==
    a # None /\ a.preimage = a.mac.id /\ secrets[a.mac.id] # NoRow

\* FromHeader and VerifyL402: the preimage fits the identifier, the secret is
\* known, and the caveats hold for the resource.
VerifyL402(a, resource) ==
    /\ a # None
    /\ a.preimage = a.mac.id
    /\ secrets[a.mac.id] # NoRow
    /\ VerifyCaveats(a.mac.caveats, {NewServicesSatisfier(resource),
                                     NewTimeoutSatisfier(resource, clock)})

\* Accept, first part.  A failing database is a denial.
AcceptVerify(r) ==
    /\ pc[r] = "verify"
    /\ \/ /\ VerifyL402(FromHeader(q[r].header), Resource(r))
          /\ Goto(r, "status")
       \/ /\ MayFail \/ ~VerifyL402(FromHeader(q[r].header), Resource(r))
          /\ Deny(r)
    /\ UNCHANGED <<store, clients, tallies, q>>

Token(r) == FromHeader(q[r].header).mac

\* Accept, second part: VerifyInvoiceStatus returns once the invoice is cached
\* as settled, or gives up when it is not.
AcceptStatus(r) ==
    /\ pc[r] = "status"
    /\ IF Token(r).id \in cache THEN Goto(r, "rights") ELSE Deny(r)
    /\ UNCHANGED <<store, clients, tallies, q>>

\* VerifyRightsWithinExpiry: a settlement time not longer ago than the expiry.
WithinExpiry(h) == secrets[h] >= 0 /\ clock <= secrets[h] + Hour

\* Accept, third part.
AcceptRights(r) ==
    /\ pc[r] = "rights"
    /\ \/ WithinExpiry(Token(r).id) /\ Goto(r, "granted")
       \/ (MayFail \/ ~WithinExpiry(Token(r).id)) /\ Deny(r)
    /\ UNCHANGED <<store, clients, tallies, q>>

\* memStore.CanPass and TallyFreebie, which reads the map and writes it back.
CanPass(r) ==
    /\ pc[r] = "canPass"
    /\ Goto(r, IF tally[Slot(r)] < Services[q[r].target].count
               THEN "tallyRead" ELSE "price")
    /\ UNCHANGED <<store, clients, tallies, q>>

TallyRead(r) ==
    /\ pc[r] = "tallyRead"
    /\ q' = [q EXCEPT ![r].count = (tally[Slot(r)] + 1) % CountWidth]
    /\ Goto(r, "tallyWrite")
    /\ UNCHANGED <<store, clients, tallies>>

TallyWrite(r) ==
    /\ pc[r] = "tallyWrite"
    /\ tally' = [tally EXCEPT ![Slot(r)] = q[r].count]
    /\ free' = [free EXCEPT ![Slot(r)] = @ + 1]
    /\ Goto(r, "forward")
    /\ UNCHANGED <<store, clients, q>>

\* DefaultPricer names no recipient; the price server is asked per path.
PaymentDetails(s) ==
    IF Services[s].dynamic THEN Quotes
    ELSE {[lud16 |-> <<>>, price |-> Price(s)]}

\* A price of zero passes.  After the free requests the challenge is for the
\* configured price, whatever the pricer said.
GetPaymentDetails(r) ==
    /\ pc[r] = "price"
    /\ \/ \E d \in PaymentDetails(q[r].target) :
              IF d.price = 0 THEN Goto(r, "forward") /\ UNCHANGED q
              ELSE /\ Goto(r, "challenge")
                   /\ q' = [q EXCEPT ![r].quote =
                          IF Level(r) = "freebie"
                          THEN [d EXCEPT !.price = Price(q[r].target)]
                          ELSE d]
       \/ Services[q[r].target].dynamic /\ Finish(r)
    /\ UNCHANGED <<store, clients, tallies>>

\* director, then the backend's answer.
Director(h) == IF FromHeader(h) = None THEN h ELSE SetHeader(h, FromHeader(h))
Forward(r) ==
    /\ pc[r] \in {"forward", "granted"}
    /\ Finish(r)
    /\ UNCHANGED <<store, clients, tallies>>

-----------------------------------------------------------------------------
(* handlePaymentRequired, FreshChallengeHeader and MintL402                 *)

\* NewChallenge: without a recipient, without an amount or when one of the
\* remote calls fails there is no invoice and the request is answered 500.
NewChallenge(r) ==
    /\ pc[r] = "challenge"
    /\ \/ /\ q[r].quote.lud16 # <<>> /\ q[r].quote.price > 0
          /\ \E h \in Hash :
                 /\ invoice[h] = "none"
                 /\ invoice' = [invoice EXCEPT ![h] = "open"]
                 /\ q' = [q EXCEPT ![r].hash = h]
          /\ Goto(r, "newSecret")
       \/ Finish(r) /\ UNCHANGED invoice
    /\ UNCHANGED <<clock, started, cache, secrets, clients, tallies>>

\* Deviation: a failing database does not end the mint.
NewSecretUnchecked(r) ==
    /\ pc[r] = "newSecret"
    /\ \/ secrets' = [secrets EXCEPT ![q[r].hash] = NullTime]
       \/ UNCHANGED secrets
    /\ Goto(r, "mint") /\ UNCHANGED q
    /\ UNCHANGED <<clock, started, invoice, cache, clients, tallies>>

\* createUniqueIdentifier and NewSecret.
NewSecret(r) ==
    /\ pc[r] = "newSecret"
    /\ \/ /\ secrets' = [secrets EXCEPT ![q[r].hash] = NullTime]
          /\ Goto(r, "mint") /\ UNCHANGED q
       \/ MayFail /\ Finish(r) /\ UNCHANGED secrets
    /\ UNCHANGED <<clock, started, invoice, cache, clients, tallies>>

\* The limiter's tables are keyed by the configured name, tier and price, with
\* no recipient, and hold a time out counted from the start of the process.
LimiterKey(s) == [name |-> Services[s].name, tier |-> BaseTier,
                  lud16 |-> <<>>, price |-> Services[s].price]

Limited(service) == {s \in Service : LimiterKey(s) = service}

Latest(S) == CHOOSE s \in S : \A t \in S : t <= s

ServiceCapabilities(service) ==
    LET L == Limited(service) IN
    IF L = {} THEN <<>>
    ELSE <<NewCapabilitiesCaveat(service.name, Services[Latest(L)].caps)>>
ServiceTimeouts(service) ==
    LET L == {s \in Limited(service) : Services[s].timeout > 0} IN
    IF L = {} THEN <<>>
    ELSE <<NewTimeoutCaveat(service.name, Services[Latest(L)].timeout, started)>>

\* Constraints are caveats that no satisfier looks at; they are left out.
CaveatsForServices(service) ==
    <<NewServicesCaveat(<<service.name>>)>>
        \o ServiceCapabilities(service) \o ServiceTimeouts(service)

Minted(r) ==
    AddFirstPartyCaveats([id |-> q[r].hash, caveats |-> <<>>],
        CaveatsForServices([name |-> Resource(r), tier |-> BaseTier,
                           lud16 |-> q[r].quote.lud16,
                           price |-> q[r].quote.price]))

\* macaroon.New and the caveats; then the 402 with macaroon and invoice.
MintL402(r) ==
    /\ pc[r] = "mint"
    /\ \/ /\ EncodesServices(<<Resource(r)>>)
          /\ caveats' = [caveats EXCEPT ![q[r].hash] = Minted(r).caveats]
          /\ issued' = [issued EXCEPT ![q[r].hash] = Len(Minted(r).caveats)]
          /\ sold' = [sold EXCEPT ![q[r].hash] = Resource(r)]
          /\ Finish(r)
       \/ /\ MayFail \/ ~EncodesServices(<<Resource(r)>>)
          /\ Goto(r, "revoke") /\ UNCHANGED <<clients, q>>
    /\ UNCHANGED <<store, tallies>>

\* RevokeSecret, whose error is ignored, and the 500.
RevokeSecret(r) ==
    /\ pc[r] = "revoke"
    /\ \/ secrets' = [secrets EXCEPT ![q[r].hash] = NoRow]
       \/ MayFail /\ UNCHANGED secrets
    /\ Finish(r)
    /\ UNCHANGED <<clock, started, invoice, cache, clients, tallies>>

-----------------------------------------------------------------------------
(* Clients, lnd, the challenger, the clock and the operating system         *)

Pay(h) ==
    /\ invoice[h] = "open" /\ sold[h] # None
    /\ invoice' = [invoice EXCEPT ![h] = "paid"]
    /\ UNCHANGED <<clock, started, cache, secrets, clients, tallies, pc, q>>

\* A holder adds a caveat to its macaroon, one of Extra or the preimage.
Attenuate(h, c) ==
    /\ issued[h] > 0 /\ Len(caveats[h]) < issued[h] + MaxCaveats
    /\ caveats' = [caveats EXCEPT ![h] =
           AddFirstPartyCaveats(Macaroon(h), <<c>>).caveats]
    /\ UNCHANGED <<store, issued, sold, tallies, pc, q>>
AddPreimage(h) ==
    /\ invoice[h] = "paid" /\ HasPreimage(Macaroon(h)) = None
    /\ Attenuate(h, NewPreimageCaveat(h))

\* readInvoiceStream: cached as settled, with the time in the database.
Settled(h) ==
    /\ invoice[h] = "paid" /\ h \notin cache
    /\ cache' = cache \union {h}
    /\ \/ secrets' = [secrets EXCEPT ![h] = IF @ = NoRow THEN @ ELSE clock]
       \/ MayFail /\ UNCHANGED secrets
    /\ UNCHANGED <<clock, started, invoice, clients, tallies, pc, q>>

Tick ==
    /\ clock < MaxTime /\ clock' = clock + 1
    /\ UNCHANGED <<started, invoice, cache, secrets, clients, tallies, pc, q>>

\* The process ends and starts again: requests, tallies and limiter are gone,
\* and the challenger's Start lists the invoices without writing settled_at.
Restart ==
    /\ started' = clock
    /\ cache' = {h \in Hash : invoice[h] = "paid"}
    /\ tally' = [k \in Service \X Ip |-> 0]
    /\ free' = [k \in Service \X Ip |-> 0]
    /\ pc' = [r \in Req |-> "idle"]
    /\ q' = [r \in Req |-> Idle]
    /\ UNCHANGED <<clock, invoice, secrets, clients>>

\* Two requests at the unlocked map, one of them writing: the Go runtime may
\* end the process with a fault that no handler can recover from.
MapFault ==
    /\ MayFail
    /\ \E r, t \in Req :
           /\ r # t /\ pc[r] = "tallyWrite"
           /\ pc[t] \in {"canPass", "tallyRead", "tallyWrite"}
           /\ q[t].target = q[r].target
    /\ Restart

Accept(r) == AcceptVerify(r) \/ AcceptStatus(r) \/ AcceptRights(r)
Mint(r) == NewChallenge(r) \/ NewSecret(r) \/ MintL402(r) \/ RevokeSecret(r)
Handle(r) ==
    \/ Accept(r) \/ CanPass(r) \/ TallyRead(r) \/ TallyWrite(r)
    \/ GetPaymentDetails(r) \/ Forward(r) \/ Mint(r)

Next ==
    \/ \E r \in Req : Arrive(r) \/ Handle(r)
    \/ \E h \in Hash : Pay(h) \/ Settled(h)
    \/ \E h \in Hash : AddPreimage(h) \/ \E c \in Extra : Attenuate(h, c)
    \/ Tick \/ MapFault \/ (MayFail /\ Restart)

Spec == Init /\ [][Next]_vars

-----------------------------------------------------------------------------
MacSet == [id : Hash, caveats : Seq(CaveatSet(Preimages))]

\* The nil that FromHeader returns with an error is no macaroon with preimage.
ASSUME NilAssumption == None \notin [mac : MacSet, preimage : Hash]

HeaderSet == [auth : {None} \union [mac : MacSet, preimage : Hash],
              md : {None} \union MacSet, plain : {None}]
Local == [path : Text, ip : Ip \union {None}, header : HeaderSet,
          target : Nat, quote : QuoteSet \union {None},
          hash : Preimages, count : 0..(CountWidth - 1)]

\* Every variable has its type.
TypeOK ==
    /\ clock \in Nat /\ started \in Nat
    /\ invoice \in [Hash -> {"none", "open", "paid"}]
    /\ cache \in SUBSET Hash
    /\ secrets \in [Hash -> Nat \union {NoRow, NullTime}]
    /\ caveats \in [Hash -> Seq(CaveatSet(Preimages))]
    /\ issued \in [Hash -> Nat]
    /\ sold \in [Hash -> Text \union {None}]
    /\ tally \in [Service \X Ip -> 0..(CountWidth - 1)]
    /\ free \in [Service \X Ip -> Nat]
    /\ pc \in [Req -> {"idle", "verify", "status", "rights", "granted",
                        "canPass", "tallyRead", "tallyWrite", "price",
                        "forward", "challenge", "newSecret", "mint", "revoke"}]
    /\ q \in [Req -> Local]

\* A request that the authenticator lets through is for the very resource that
\* its token was sold for, and that token was paid and its settlement
\* recorded, whatever caveats the holders have added and however the steps of
\* Accept interleave with mints, restarts and the clock.
GrantIsBought ==
    \A r \in Req : pc[r] = "granted" =>
        /\ invoice[Token(r).id] = "paid" /\ secrets[Token(r).id] >= 0
        /\ sold[Token(r).id] = Resource(r)

\* Whoever has paid an invoice holds a macaroon that VerifyL402 accepts for the
\* resource it was sold for, until a time out in it has passed: no failure on
\* the way through the mint leaves a client that has paid without its secret.
\* Names with a separator are another matter, see PaidWorksForAnyName.
PaidWorks ==
    \A h \in Hash : invoice[h] = "paid" /\ ~Splits(sold[h]) =>
        \/ VerifyL402([mac |-> Issued(h), preimage |-> h], sold[h])
        \/ \E i \in 1..issued[h] :
               /\ caveats[h][i].cond = CondTimeout(sold[h])
               /\ caveats[h][i].time <= clock

\* Adding a caveat only takes rights away: what a macaroon is accepted for
\* afterwards, it was accepted for before, for every service and path.
AttenuationNarrows ==
    [][\A h \in Hash, s \in Service, p \in Path :
           issued[h] > 0 /\ caveats'[h] # caveats[h] =>
               LET name == ResourceName(s, p)
                   all == {NewServicesSatisfier(name),
                           NewTimeoutSatisfier(name, clock)}
               IN  VerifyCaveats(caveats'[h], all) =>
                       VerifyCaveats(caveats[h], all)]_vars

\* The backend behind the proxy identifies the client by the token that the
\* authenticator has accepted, in whatever header field it was sent.
BackendSeesBuyer ==
    \A r \in Req : pc[r] = "granted" =>
        TokenFromContext(Director(q[r].header)) = Token(r).id

\* The comment on Service.Timeout: "if a value of 100 is set, then the timeout
\* will be 100 seconds after creation of the L402".  Every macaroon sold for a
\* service with a time out carries one.
LimitsApply ==
    \A h \in Hash, s \in Service, p \in Path :
        Services[s].timeout > 0 /\ sold[h] = ResourceName(s, p) =>
            \E i \in 1..issued[h] : caveats[h][i].time > 0

\* The comment on Service.Auth: "freebie X" stands "for X free requests per IP
\* address before authentication is required".
FreeAsConfigured ==
    \A k \in Service \X Ip : free[k] <= Services[k[1]].count

\* PaidWorks for every resource name, one with "," or ":" in its path included.
PaidWorksForAnyName ==
    \A h \in Hash : invoice[h] = "paid" =>
        VerifyL402([mac |-> Issued(h), preimage |-> h], sold[h])
=============================================================================
