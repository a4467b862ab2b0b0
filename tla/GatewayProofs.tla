--------------------------- MODULE GatewayProofs ----------------------------
(***************************************************************************)
(* What the authenticator grants and refuses, for any number of requests,  *)
(* payment hashes, services, paths, caveats and restarts.  The module has  *)
(* four parts: adding a caveat never widens what a macaroon is accepted    *)
(* for (Attenuation); what the mint and the handlers produce; the          *)
(* invariant that follows a macaroon from the mint, whose first caveat     *)
(* names the resource sold, to the copy that a request carries; and what   *)
(* the buyer gets, who can use what the mint handed out.                   *)
(***************************************************************************)
EXTENDS Gateway, TLAPS, WellFoundedInduction

\* Most steps are first-order and go to Zenon; the others name their prover.
USE Zenon

-----------------------------------------------------------------------------
(* Caveat lists of any length                                               *)

SatisfierSet == [kind : {"services", "capabilities", "timeout"},
                 cond : Text, target : Text, now : Int]

\* A caveat that may follow another one and satisfies in the end could not
\* have done so if the other one alone did not: each satisfier narrows.
LEMMA SatisfierNarrows ==
    ASSUME NEW P, NEW s \in SatisfierSet,
           NEW prev \in CaveatSet(P), NEW cur \in CaveatSet(P),
           SatisfyPrevious(s, prev, cur), SatisfyFinal(s, cur)
    PROVE  SatisfyFinal(s, prev)
<1>1. CASE s.kind = "services"
      BY <1>1 DEF SatisfyPrevious, SatisfyFinal
<1>2. CASE s.kind = "capabilities"
      BY <1>2 DEF SatisfyPrevious, SatisfyFinal
<1>3. CASE s.kind = "timeout"
      BY <1>3, SMT DEF SatisfyPrevious, SatisfyFinal, SatisfierSet, CaveatSet
<1> QED BY <1>1, <1>2, <1>3 DEF SatisfierSet

\* The places of a condition in a list with one more caveat.
LEMMA PlacesOfAppend ==
    ASSUME NEW H, NEW cs \in Seq(CaveatSet(H)), NEW c \in CaveatSet(H), NEW cond
    PROVE  /\ Places(cs, cond) \subseteq Places(Append(cs, c), cond)
           /\ Places(Append(cs, c), cond) \ {Len(cs) + 1} = Places(cs, cond)
           /\ \A i \in 1..Len(cs) : Append(cs, c)[i] = cs[i]
           /\ Append(cs, c)[Len(cs) + 1] = c
BY SMT DEF Places

\* Attenuation narrows, for one satisfier: what holds of the caveats with one
\* more at the end held of them without it.
THEOREM Attenuation ==
    ASSUME NEW H, NEW cs \in Seq(CaveatSet(H)), NEW c \in CaveatSet(H),
           NEW s \in SatisfierSet, Satisfies(Append(cs, c), s)
    PROVE  Satisfies(cs, s)
<1> DEFINE ds == Append(cs, c)
           P == Places(cs, s.cond)
           Q == Places(ds, s.cond)
           n == Len(cs) + 1
<1>1. /\ P \subseteq Q /\ Q \ {n} = P /\ ds[n] = c
      /\ \A i \in 1..Len(cs) : ds[i] = cs[i]
      BY PlacesOfAppend, SMT
<1>2. P \subseteq 1..Len(cs) /\ Len(cs) \in Nat
      BY SMT DEF Places
<1>3. \A i \in P : ds[i] = cs[i] /\ cs[i] \in CaveatSet(H)
      BY <1>1, <1>2, SMT
<1>4. \A i, j \in P : Follows(cs, s.cond, i, j) =>
          SatisfyPrevious(s, cs[i], cs[j])
  <2> SUFFICES ASSUME NEW i \in P, NEW j \in P, Follows(cs, s.cond, i, j)
               PROVE  SatisfyPrevious(s, cs[i], cs[j])
      OBVIOUS
  <2>1. Follows(ds, s.cond, i, j)
    <3>1. i < j /\ \A k \in P : k <= i \/ k >= j
          BY DEF Follows
    <3>2. \A k \in Q : k <= i \/ k >= j
          BY <1>1, <1>2, <3>1, SMT
    <3> QED BY <3>1, <3>2 DEF Follows
  <2>2. SatisfyPrevious(s, ds[i], ds[j])
        BY <1>1, <2>1 DEF Satisfies
  <2> QED BY <1>3, <2>2
<1>5. \A i \in P : (\A j \in P : j <= i) => SatisfyFinal(s, cs[i])
  <2> SUFFICES ASSUME NEW i \in P, \A j \in P : j <= i
               PROVE  SatisfyFinal(s, cs[i])
      OBVIOUS
  <2>1. CASE n \in Q
    <3>1. Follows(ds, s.cond, i, n)
          BY <1>1, <1>2, SMT DEF Follows
    <3>2. SatisfyPrevious(s, cs[i], c)
          BY <1>1, <1>3, <2>1, <3>1 DEF Satisfies
    <3>3. \A j \in Q : j <= n
          BY <1>1, <1>2, SMT
    <3>4. SatisfyFinal(s, c)
          BY <1>1, <2>1, <3>3 DEF Satisfies
    <3> QED BY <1>3, <3>2, <3>4, SatisfierNarrows
  <2>2. CASE n \notin Q
    <3>1. Q = P
          BY <1>1, <2>2
    <3> QED BY <1>1, <1>3, <3>1 DEF Satisfies
  <2> QED BY <2>1, <2>2
<1> QED BY <1>4, <1>5 DEF Satisfies

-----------------------------------------------------------------------------
(* What the mint and the handlers produce: the caveats of a new macaroon,   *)
(* the headers that clients send and the locals of a request.               *)

\* The only resource that a caveat list is accepted for is name.
Sells(cs, name) ==
    \A t \in Text : Satisfies(cs, NewServicesSatisfier(t)) => t = name

Minting == {"newSecret", "mint", "revoke"}

\* A request under way has a service and an address.
Routed == \A r \in Req : pc[r] # "idle" => q[r].target \in Service /\ q[r].ip \in Ip

-----------------------------------------------------------------------------
\* One token is a text.
LEMMA TokenIsText ==
    /\ CondServices \in Text
    /\ <<"_valid_until">> \in Text /\ <<"_capabilities">> \in Text
BY TokenAssumption, SMT DEF CondServices, Text

\* Texts are put together to texts.
LEMMA Joined ==
    ASSUME NEW a \in Text, NEW b \in Text
    PROVE  a \o b \in Text
BY SMT DEF Text

\* One caveat more sells nothing new.
LEMMA SellsAppend ==
    ASSUME NEW cs \in Seq(CaveatSet(Preimages)),
           NEW c \in CaveatSet(Preimages), NEW name, Sells(cs, name)
    PROVE  /\ cs \o <<c>> \in Seq(CaveatSet(Preimages))
           /\ Sells(cs \o <<c>>, name)
<1>1. cs \o <<c>> = Append(cs, c)
      BY SMT
<1>2. \A t \in Text : NewServicesSatisfier(t) \in SatisfierSet
      BY TokenIsText, SMT DEF NewServicesSatisfier, SatisfierSet
<1>3. ASSUME NEW t \in Text,
             Satisfies(Append(cs, c), NewServicesSatisfier(t))
      PROVE  t = name
      BY <1>2, <1>3, Attenuation DEF Sells
<1>4. Append(cs, c) \in Seq(CaveatSet(Preimages))
      BY SMT
<1>5. Sells(Append(cs, c), name)
      BY <1>3 DEF Sells
<1> QED BY <1>1, <1>4, <1>5

\* A services caveat sells the one service it names.
LEMMA SellsFirst ==
    ASSUME NEW name \in Text
    PROVE  /\ <<NewServicesCaveat(<<name>>)>> \in Seq(CaveatSet(Preimages))
           /\ Sells(<<NewServicesCaveat(<<name>>)>>, name)
<1> DEFINE c == NewServicesCaveat(<<name>>)
<1>1. c \in CaveatSet(Preimages) /\ c.cond = CondServices /\ Names(c) = {name}
  <2>1. <<name>> \in Seq(Text) /\ CondServices \in Text
        BY TokenIsText, SMT DEF Text
  <2>2. c = [cond |-> CondServices, names |-> <<name>>, time |-> 0,
             preimage |-> None]
        BY DEF NewServicesCaveat, Caveat
  <2> HIDE DEF c
  <2>3. c \in CaveatSet(Preimages) /\ c.cond = CondServices /\ c.names = <<name>>
    <3>1. None \in Preimages
          BY DEF Preimages
    <3> QED BY <2>1, <2>2, <3>1, SMT DEF CaveatSet
  <2>4. Names(c) = {name}
    <3>1. Len(c.names) = 1 /\ c.names[1] = name
          BY <2>3, SMT
    <3> QED BY <3>1, SMT DEF Names
  <2> QED BY <2>3, <2>4
<1>2. Places(<<c>>, CondServices) = {1} /\ <<c>>[1] = c
      BY <1>1, SMT DEF Places
<1>3. ASSUME NEW t \in Text, Satisfies(<<c>>, NewServicesSatisfier(t))
      PROVE  t = name
  <2>1. SatisfyFinal(NewServicesSatisfier(t), c)
        BY <1>2, <1>3, SMT DEF Satisfies, NewServicesSatisfier
  <2> QED BY <1>1, <2>1 DEF SatisfyFinal, NewServicesSatisfier
<1> QED BY <1>1, <1>3, SMT DEF Sells

\* The types of the configured services.
LEMMA ServiceTypes ==
    ASSUME NEW s \in Service
    PROVE  /\ Services[s] \in ServiceSet
           /\ \A path \in Text : ResourceName(s, path) \in Text
           /\ PaymentDetails(s) \subseteq QuoteSet /\ Price(s) \in Nat
<1>1. Services[s] \in ServiceSet
      BY GatewayAssumption, SMT DEF Service
<1>2. \A path \in Text : ResourceName(s, path) \in Text
  <2>1. Services[s].name \in Text
        BY <1>1 DEF ServiceSet
  <2> QED BY <2>1, Joined DEF ResourceName
<1>3. Price(s) \in Nat
      BY <1>1 DEF Price, ServiceSet
<1>4. PaymentDetails(s) \subseteq QuoteSet
  <2>1. [lud16 |-> <<>>, price |-> Price(s)] \in QuoteSet
        BY <1>3, SMT DEF QuoteSet, Text
  <2> QED BY <2>1, GatewayAssumption DEF PaymentDetails
<1> QED BY <1>1, <1>2, <1>3, <1>4

\* A set of services has a last one.
LEMMA LatestIn ==
    ASSUME NEW L \in SUBSET Service, L # {}
    PROVE  Latest(L) \in L
<1> DEFINE n == Len(Services)
           T == {n - s : s \in L}
<1>1. n \in Nat /\ L \subseteq 1..n
      BY GatewayAssumption, SMT DEF Service
<1>2. T \subseteq Nat /\ T # {}
  <2>1. \A s \in L : n - s \in Nat
        BY <1>1, SMT
  <2> HIDE DEF n
  <2> QED BY <2>1
<1>3. PICK x \in T : \A y \in T : ~(<<y, x>> \in OpToRel(<, Nat))
      BY <1>2, NatLessThanWellFounded, WFMin
<1>4. \A y \in T : ~(y < x)
      BY <1>2, <1>3 DEF OpToRel
<1>5. PICK m \in L : x = n - m
      OBVIOUS
<1>6. \A t \in L : t <= m
  <2> SUFFICES ASSUME NEW t \in L PROVE t <= m
      OBVIOUS
  <2>1. n - t \in T
        OBVIOUS
  <2>2. ~(n - t < n - m)
        BY <1>4, <1>5, <2>1
  <2>3. n \in Nat /\ t \in 1..n /\ m \in 1..n
        BY <1>1
  <2> HIDE DEF n
  <2> QED BY <2>2, <2>3, SMT
<1> QED BY <1>5, <1>6 DEF Latest

\* What the mint puts into a macaroon sells the service it is for.
LEMMA MintedSells ==
    ASSUME NEW service, service.name \in Text, started \in Nat
    PROVE  /\ CaveatsForServices(service) \in Seq(CaveatSet(Preimages))
           /\ Sells(CaveatsForServices(service), service.name)
<1> DEFINE C == CaveatSet(Preimages)
           first == <<NewServicesCaveat(<<service.name>>)>>
           caps == ServiceCapabilities(service)
           times == ServiceTimeouts(service)
<1>1. first \in Seq(C) /\ Sells(first, service.name)
      BY SellsFirst
<1>2. \A L \in SUBSET Limited(service) : L # {} =>
          Services[Latest(L)] \in ServiceSet
      BY LatestIn, ServiceTypes DEF Limited
<1>3. caps = <<>> \/ \E c \in C : caps = <<c>>
  <2>1. ASSUME NEW k \in Seq(Text)
        PROVE  NewCapabilitiesCaveat(service.name, k) \in C
    <3>1. CondCapabilities(service.name) \in Text
          BY TokenIsText, Joined DEF CondCapabilities
    <3>2. None \in Preimages
          BY DEF Preimages
    <3> QED BY <3>1, <3>2, SMT DEF NewCapabilitiesCaveat, Caveat, CaveatSet
  <2> QED BY <1>2, <2>1 DEF ServiceCapabilities, ServiceSet
<1>4. times = <<>> \/ \E c \in C : times = <<c>>
  <2>1. ASSUME NEW k \in Nat
        PROVE  NewTimeoutCaveat(service.name, k, started) \in C
    <3>1. CondTimeout(service.name) \in Text
          BY TokenIsText, Joined DEF CondTimeout
    <3>2. None \in Preimages /\ started + k \in Int /\ <<>> \in Seq(Text)
          BY SMT DEF Preimages
    <3> QED BY <3>1, <3>2 DEF NewTimeoutCaveat, Caveat, CaveatSet
  <2> QED BY <1>2, <2>1 DEF ServiceTimeouts, ServiceSet
<1>5. first \o caps \in Seq(C) /\ Sells(first \o caps, service.name)
  <2>1. CASE caps = <<>>
        BY <1>1, <2>1, SMT
  <2>2. CASE \E c \in C : caps = <<c>>
        BY <1>1, <2>2, SellsAppend
  <2> QED BY <1>3, <2>1, <2>2
<1>6. first \o caps \o times \in Seq(C) /\ Sells(first \o caps \o times, service.name)
  <2> HIDE DEF first, caps
  <2>1. CASE times = <<>>
        BY <1>5, <2>1, SMT
  <2>2. CASE \E c \in C : times = <<c>>
        BY <1>5, <2>2, SellsAppend
  <2> QED BY <1>4, <2>1, <2>2
<1> QED BY <1>6 DEF CaveatsForServices

-----------------------------------------------------------------------------
Label == {"idle", "verify", "status", "rights", "granted", "canPass",
          "tallyRead", "tallyWrite", "price", "forward", "challenge",
          "newSecret", "mint", "revoke"}

\* What every step of a handler keeps: its locals are locals, and it has a
\* service and an address until it is done.
Kept(r) == /\ pc' \in [Req -> Label] /\ q' \in [Req -> Local]
           /\ \A t \in Req : t # r => pc'[t] = pc[t] /\ q'[t] = q[t]
           /\ pc'[r] # "idle" => q'[r].target \in Service /\ q'[r].ip \in Ip

\* An idle request has locals.
LEMMA IdleTypes == NoHeader \in HeaderSet /\ Idle \in Local
<1>1. NoHeader \in HeaderSet
      BY DEF NoHeader, HeaderSet
<1>2. <<>> \in Text /\ None \in Preimages /\ 0 \in 0..(CountWidth - 1)
      BY GatewayAssumption, SMT DEF Text, Preimages
<1>3. Idle \in Local
      BY <1>1, <1>2 DEF Idle, Locals, Local
<1> QED BY <1>1, <1>3

\* A handler that only moves on keeps its locals.
LEMMA GotoKeeps ==
    ASSUME TypeOK, Routed, NEW r \in Req, pc[r] # "idle", NEW l \in Label,
           Goto(r, l), UNCHANGED q
    PROVE  Kept(r) /\ pc'[r] = l /\ q'[r] = q[r]
BY DEF TypeOK, Routed, Goto, Kept, Label

\* So does one that ends.
LEMMA FinishKeeps ==
    ASSUME TypeOK, NEW r \in Req, Finish(r)
    PROVE  Kept(r) /\ pc'[r] = "idle"
BY IdleTypes DEF TypeOK, Finish, Goto, Kept, Label

\* And one that is turned down by Accept.
LEMMA DenyKeeps ==
    ASSUME TypeOK, Routed, NEW r \in Req, pc[r] # "idle", Deny(r), UNCHANGED q
    PROVE  Kept(r) /\ pc'[r] \in {"canPass", "price"} /\ q'[r] = q[r]
<1>1. \E l \in {"canPass", "price"} : Goto(r, l)
      BY DEF Deny
<1> QED BY <1>1, GotoKeeps DEF Label

\* The headers that a client can send.
LEMMA HeaderTypes ==
    ASSUME TypeOK, NEW h \in Headers
    PROVE  h \in HeaderSet
<1>1. \A k \in Hash : Macaroon(k) \in MacSet
      BY DEF TypeOK, Macaroon, MacSet
<1>2. CASE h = NoHeader
      BY <1>2, IdleTypes
<1>3. ASSUME NEW k \in Hash,
             h = [NoHeader EXCEPT !.auth = [mac |-> Macaroon(k), preimage |-> k]]
      PROVE  h \in HeaderSet
  <2>1. [mac |-> Macaroon(k), preimage |-> k] \in [mac : MacSet, preimage : Hash]
        BY <1>1
  <2>2. h = [auth |-> [mac |-> Macaroon(k), preimage |-> k],
             md |-> None, plain |-> None]
        BY <1>3 DEF NoHeader
  <2> QED BY <2>1, <2>2 DEF HeaderSet
<1>4. ASSUME NEW k \in Hash, h = [NoHeader EXCEPT !.md = Macaroon(k)]
      PROVE  h \in HeaderSet
  <2>1. h = [auth |-> None, md |-> Macaroon(k), plain |-> None]
        BY <1>4 DEF NoHeader
  <2> QED BY <1>1, <2>1 DEF HeaderSet
<1> QED BY <1>2, <1>3, <1>4 DEF Headers

\* A handler's locals other than the one a step assigns.
Same(r) == /\ q'[r].path = q[r].path /\ q'[r].header = q[r].header
           /\ q'[r].target = q[r].target

\* A request that arrives.
LEMMA ArriveKeeps ==
    ASSUME TypeOK, Routed, NEW r \in Req, Arrive(r)
    PROVE  /\ Kept(r) /\ pc'[r] \in {"forward", "verify"}
           /\ q'[r].header \in Headers
<1>1. PICK path \in Path, ip \in Ip, h \in Headers :
          /\ MatchService(path) # 0
          /\ q' = [q EXCEPT ![r] =
                 Locals(path, ip, h, MatchService(path))]
          /\ \E l \in {"forward", "verify"} : Goto(r, l)
      BY DEF Arrive
<1>2. MatchService(path) \in Service
  <2> DEFINE M == {s \in Service : path \in Services[s].paths}
  <2>1. M # {}
        BY <1>1 DEF MatchService
  <2>2. \E s \in M : \A t \in M : s <= t
    <3>1. M \subseteq Nat
          BY GatewayAssumption, SMT DEF Service
    <3>2. PICK s \in M : \A t \in M : ~(<<t, s>> \in OpToRel(<, Nat))
          BY <2>1, <3>1, NatLessThanWellFounded, WFMin
    <3>3. \A t \in M : ~(t < s)
          BY <3>1, <3>2 DEF OpToRel
    <3> HIDE DEF M
    <3> QED BY <3>1, <3>3, SMT
  <2> QED BY <2>1, <2>2 DEF MatchService
<1> DEFINE new == Locals(path, ip, h, MatchService(path))
<1>3. /\ new = [path |-> path, ip |-> ip, header |-> h,
                target |-> MatchService(path), quote |-> None, hash |-> None,
                count |-> 0]
      BY DEF Locals
<1>4. new \in Local
  <2>1. path \in Text /\ h \in HeaderSet /\ None \in Preimages
        BY GatewayAssumption, HeaderTypes DEF Preimages
  <2>2. MatchService(path) \in Nat /\ 0 \in 0..(CountWidth - 1)
        BY <1>2, GatewayAssumption, SMT DEF Service
  <2> HIDE DEF new
  <2> QED BY <1>3, <2>1, <2>2 DEF Local
<1>5. q'[r] = new /\ \A t \in Req : t # r => q'[t] = q[t]
      BY <1>1 DEF TypeOK
<1>6. new.target \in Service /\ new.ip \in Ip /\ new.header \in Headers
  <2> HIDE DEF new
  <2> QED BY <1>2, <1>3
<1>7. q' \in [Req -> Local]
  <2> HIDE DEF new
  <2> QED BY <1>1, <1>4 DEF TypeOK, new
<1>8. /\ pc' \in [Req -> Label] /\ \A t \in Req : t # r => pc'[t] = pc[t]
      /\ pc'[r] \in {"forward", "verify"}
      BY <1>1 DEF Goto, TypeOK, Label
<1> QED BY <1>5, <1>6, <1>7, <1>8 DEF Kept

\* The steps of Accept.
LEMMA AcceptKeeps ==
    ASSUME TypeOK, Routed, NEW r \in Req, Accept(r)
    PROVE  /\ Kept(r) /\ q'[r] = q[r] /\ pc[r] \notin Minting \union {"idle"}
           /\ pc'[r] \in {"canPass", "price", "status", "rights", "granted"}
           /\ UNCHANGED <<store, clients, tallies>>
<1>1. CASE AcceptVerify(r)
      BY <1>1, GotoKeeps, DenyKeeps DEF AcceptVerify, Label, Minting
<1>2. CASE AcceptStatus(r)
      BY <1>2, GotoKeeps, DenyKeeps DEF AcceptStatus, Label, Minting
<1>3. CASE AcceptRights(r)
      BY <1>3, GotoKeeps, DenyKeeps DEF AcceptRights, Label, Minting
<1> QED BY <1>1, <1>2, <1>3 DEF Accept

\* The steps between Accept and the mint, and the end.
LEMMA MiddleKeeps ==
    ASSUME TypeOK, Routed, NEW r \in Req,
           \/ CanPass(r) \/ TallyRead(r) \/ TallyWrite(r)
           \/ GetPaymentDetails(r) \/ Forward(r)
    PROVE  /\ Kept(r) /\ pc[r] # "idle"
           /\ Same(r) \/ pc'[r] = "idle"
           /\ pc'[r] \notin Minting \union {"status", "rights", "granted"}
           /\ UNCHANGED <<store, clients>>
           /\ tally' \in [Service \X Ip -> 0..(CountWidth - 1)]
           /\ free' \in [Service \X Ip -> Nat]
<1>1. CASE CanPass(r)
  <2>1. \E l \in {"tallyRead", "price"} : Goto(r, l)
        BY <1>1 DEF CanPass
  <2> QED BY <1>1, <2>1, GotoKeeps
          DEF CanPass, Label, Minting, Same, TypeOK, tallies
<1>2. CASE TallyRead(r)
  <2>1. Slot(r) \in Service \X Ip
        BY <1>2 DEF TallyRead, Routed, Slot
  <2>2. (tally[Slot(r)] + 1) % CountWidth \in 0..(CountWidth - 1)
        BY <2>1, GatewayAssumption, SMT DEF TypeOK
  <2>3. q[r] \in Local
        BY DEF TypeOK
  <2>4. q' \in [Req -> Local] /\ Same(r) /\ q'[r].ip = q[r].ip
        BY <1>2, <2>2, <2>3 DEF TallyRead, TypeOK, Local, Same
  <2>5. \A t \in Req : t # r => pc'[t] = pc[t] /\ q'[t] = q[t]
        BY <1>2 DEF TallyRead, TypeOK, Goto
  <2>6. pc' \in [Req -> Label] /\ pc'[r] = "tallyWrite" /\ pc[r] = "tallyRead"
        BY <1>2 DEF TallyRead, TypeOK, Goto, Label
  <2>7. Kept(r)
        BY <2>4, <2>5, <2>6 DEF Kept, Same, Routed
  <2> QED BY <1>2, <2>4, <2>6, <2>7 DEF TallyRead, Minting, TypeOK, tallies
<1>3. CASE TallyWrite(r)
  <2>1. Slot(r) \in Service \X Ip
        BY <1>3 DEF TallyWrite, Routed, Slot
  <2>2. q[r].count \in 0..(CountWidth - 1)
        BY DEF TypeOK, Local
  <2>3. tally' \in [Service \X Ip -> 0..(CountWidth - 1)]
        BY <1>3, <2>1, <2>2 DEF TallyWrite, TypeOK
  <2>4. free' \in [Service \X Ip -> Nat]
        BY <1>3, <2>1, SMT DEF TallyWrite, TypeOK
  <2>5. Kept(r) /\ pc'[r] = "forward" /\ q'[r] = q[r]
        BY <1>3, GotoKeeps DEF TallyWrite, Label
  <2> QED BY <1>3, <2>3, <2>4, <2>5 DEF TallyWrite, Minting, Same
<1>4. CASE GetPaymentDetails(r)
  <2>1. q[r].target \in Service /\ pc[r] = "price"
        BY <1>4 DEF GetPaymentDetails, Routed
  <2>2. UNCHANGED <<store, clients, tallies>>
        BY <1>4 DEF GetPaymentDetails
  <2>3. CASE Finish(r)
        BY <2>1, <2>2, <2>3, FinishKeeps DEF Minting, TypeOK, tallies
  <2>4. CASE Goto(r, "forward") /\ UNCHANGED q
        BY <2>1, <2>2, <2>4, GotoKeeps DEF Label, Minting, Same, TypeOK, tallies
  <2>5. ASSUME NEW d \in QuoteSet, Goto(r, "challenge"),
               q' = [q EXCEPT ![r].quote = d]
        PROVE  Kept(r) /\ Same(r) /\ pc'[r] = "challenge"
    <3>1. q[r] \in Local
          BY DEF TypeOK
    <3>2. q' \in [Req -> Local] /\ Same(r) /\ q'[r].ip = q[r].ip
          BY <2>5, <3>1 DEF TypeOK, Local, Same
    <3>3. /\ \A t \in Req : t # r => pc'[t] = pc[t] /\ q'[t] = q[t]
          /\ pc' \in [Req -> Label] /\ pc'[r] = "challenge"
          BY <2>5 DEF TypeOK, Goto, Label
    <3> QED BY <2>1, <3>2, <3>3 DEF Kept, Same, Routed
  <2>6. ASSUME NEW d \in PaymentDetails(q[r].target)
        PROVE  d \in QuoteSet /\ [d EXCEPT !.price = Price(q[r].target)] \in QuoteSet
    <3>1. d \in QuoteSet /\ Price(q[r].target) \in Nat
          BY <2>1, ServiceTypes
    <3> QED BY <3>1 DEF QuoteSet
  <2>7. CASE \E d \in QuoteSet : /\ Goto(r, "challenge")
                                 /\ q' = [q EXCEPT ![r].quote = d]
        BY <2>1, <2>2, <2>5, <2>7 DEF Minting, TypeOK, tallies
  <2> QED BY <1>4, <2>3, <2>4, <2>6, <2>7 DEF GetPaymentDetails
<1>5. CASE Forward(r)
      BY <1>5, FinishKeeps DEF Forward, Minting, TypeOK, tallies
<1> QED BY <1>1, <1>2, <1>3, <1>4, <1>5

\* The types of a step of a handler.
LEMMA KeptTypes ==
    ASSUME TypeOK, Routed, NEW r \in Req, Kept(r),
           UNCHANGED <<clock, started, cache>>,
           invoice' \in [Hash -> {"none", "open", "paid"}],
           secrets' \in [Hash -> Nat \union {NoRow, NullTime}],
           caveats' \in [Hash -> Seq(CaveatSet(Preimages))],
           issued' \in [Hash -> Nat],
           sold' \in [Hash -> Text \union {None}],
           tally' \in [Service \X Ip -> 0..(CountWidth - 1)],
           free' \in [Service \X Ip -> Nat]
    PROVE  TypeOK' /\ Routed'
<1>1. TypeOK'
      BY DEF TypeOK, Kept, Label
<1>2. Routed'
      BY DEF Routed, Kept
<1> QED BY <1>1, <1>2

-----------------------------------------------------------------------------
(* The invariant                                                            *)

Sent(r) == FromHeader(q[r].header)

\* A hash in the mint belongs to one request, and nobody has its macaroon.
Private ==
    /\ \A r \in Req : pc[r] \in Minting =>
           /\ q[r].hash \in Hash /\ invoice[q[r].hash] = "open"
           /\ sold[q[r].hash] = None /\ issued[q[r].hash] = 0
    /\ \A r, t \in Req : pc[r] \in Minting /\ pc[t] \in Minting /\ r # t =>
           q[r].hash # q[t].hash
    /\ \A h \in Hash : invoice[h] = "none" => sold[h] = None /\ issued[h] = 0

\* Paid is sold, and what is sold is what the macaroon says.
Holders ==
    \A h \in Hash : /\ invoice[h] = "paid" => sold[h] # None
                    /\ sold[h] # None => Sells(caveats[h], sold[h])

\* The same of the macaroon that a request carries.
Shown(r) ==
    pc[r] # "idle" /\ Sent(r) # None =>
        /\ Sent(r).mac \in MacSet
        /\ invoice[Sent(r).mac.id] = "paid"
        /\ Sells(Sent(r).mac.caveats, sold[Sent(r).mac.id])

\* What a request has passed of the three parts of Accept.
Checked(r) ==
    /\ pc[r] \in {"status", "rights", "granted"} =>
           Sent(r) # None /\ sold[Sent(r).mac.id] = Resource(r)
    /\ pc[r] = "granted" => secrets[Sent(r).mac.id] >= 0

IInv == /\ TypeOK /\ Routed /\ Private /\ Holders
        /\ \A r \in Req : Shown(r) /\ Checked(r)

-----------------------------------------------------------------------------
\* A step of a handler that leaves invoices, secrets and macaroons alone keeps
\* the invariant if it does so for the request itself.
LEMMA HandlerFrame ==
    ASSUME IInv, NEW r \in Req, Kept(r), TypeOK', Routed',
           UNCHANGED <<invoice, secrets, clients>>,
           pc'[r] \in Minting => pc[r] \in Minting /\ q'[r].hash = q[r].hash,
           Shown(r)', Checked(r)'
    PROVE  IInv'
<1>1. Private'
  <2>1. \A t \in Req : pc'[t] \in Minting => pc[t] \in Minting /\ q'[t].hash = q[t].hash
        BY DEF Kept
  <2> QED BY <2>1, ZenonT(30) DEF IInv, Private, clients
<1>2. Holders'
      BY DEF IInv, Holders, clients
<1>3. ASSUME NEW t \in Req PROVE Shown(t)' /\ Checked(t)'
  <2>1. CASE t = r
        BY <2>1
  <2>2. CASE t # r
    <3>1. pc'[t] = pc[t] /\ q'[t] = q[t] /\ Shown(t) /\ Checked(t)
          BY <2>2 DEF Kept, IInv
    <3> QED BY <3>1 DEF Shown, Checked, Sent, Resource, clients
  <2> QED BY <2>1, <2>2
<1> QED BY <1>1, <1>2, <1>3 DEF IInv

\* What a request carries stays what it was when the macaroon itself is not
\* touched and the request goes on.
LEMMA CarriesOn ==
    ASSUME NEW r \in Req, Shown(r), pc[r] # "idle",
           Same(r) \/ pc'[r] = "idle", UNCHANGED <<invoice, sold>>
    PROVE  Shown(r)'
BY DEF Shown, Sent, Same

\* Whatever header a client sends, the macaroon in it is one that was paid for.
LEMMA HeadersShow ==
    ASSUME TypeOK, Holders, NEW h \in Headers, FromHeader(h) # None
    PROVE  /\ FromHeader(h).mac \in MacSet
           /\ invoice[FromHeader(h).mac.id] = "paid"
           /\ Sells(FromHeader(h).mac.caveats, sold[FromHeader(h).mac.id])
<1> DEFINE Fine(mac) == /\ mac \in MacSet /\ invoice[mac.id] = "paid"
                        /\ Sells(mac.caveats, sold[mac.id])
<1>1. ASSUME NEW k \in Hash, invoice[k] = "paid" PROVE Fine(Macaroon(k))
  <2>1. /\ Macaroon(k) = [id |-> k, caveats |-> caveats[k]]
        /\ caveats[k] \in Seq(CaveatSet(Preimages))
        BY DEF Macaroon, TypeOK
  <2>2. Sells(caveats[k], sold[k])
        BY <1>1 DEF Holders
  <2> QED BY <1>1, <2>1, <2>2, SMT DEF MacSet
<1>2. \E k \in Hash : invoice[k] = "paid" /\ FromHeader(h).mac = Macaroon(k)
  <2>1. h # NoHeader
        BY SMT DEF FromHeader, NoHeader
  <2>2. ASSUME NEW k \in Hash, invoice[k] = "paid",
               h = [NoHeader EXCEPT !.auth = [mac |-> Macaroon(k), preimage |-> k]]
        PROVE  FromHeader(h).mac = Macaroon(k)
    <3>1. h = [auth |-> [mac |-> Macaroon(k), preimage |-> k],
               md |-> None, plain |-> None]
          BY <2>2 DEF NoHeader
    <3> QED BY <3>1 DEF FromHeader
  <2>3. ASSUME NEW k \in Hash, invoice[k] = "paid",
               h = [NoHeader EXCEPT !.md = Macaroon(k)]
        PROVE  FromHeader(h).mac = Macaroon(k)
    <3>1. h = [auth |-> None, md |-> Macaroon(k), plain |-> None]
          BY <2>3 DEF NoHeader
    <3> QED BY <3>1 DEF FromHeader
  <2> QED BY <2>1, <2>2, <2>3 DEF Headers
<1> QED BY <1>1, <1>2

\* Arrive keeps the invariant.
LEMMA ArriveInv ==
    ASSUME IInv, NEW r \in Req, Arrive(r)
    PROVE  IInv'
<1>1. TypeOK /\ Routed /\ Holders
      BY DEF IInv
<1>2. /\ Kept(r) /\ pc'[r] \in {"forward", "verify"} /\ q'[r].header \in Headers
      BY <1>1, ArriveKeeps
<1>3. UNCHANGED <<store, clients, tallies>>
      BY DEF Arrive
<1>4. TypeOK' /\ Routed'
      BY <1>1, <1>2, <1>3, KeptTypes DEF TypeOK, store, clients, tallies
<1>5. Shown(r)'
      BY <1>1, <1>2, <1>3, HeadersShow DEF Shown, Sent, store, clients
<1>6. Checked(r)'
      BY <1>2 DEF Checked
<1> QED BY <1>2, <1>3, <1>4, <1>5, <1>6, HandlerFrame DEF Minting, store

\* The steps of Accept keep it: the first one compares the resource, the last
\* one has read a settlement time.
LEMMA AcceptInv ==
    ASSUME IInv, NEW r \in Req, Accept(r)
    PROVE  IInv'
<1>1. TypeOK /\ Routed /\ Shown(r) /\ Checked(r)
      BY DEF IInv
<1>2. /\ Kept(r) /\ q'[r] = q[r] /\ pc[r] \notin Minting \union {"idle"}
      /\ pc'[r] \in {"canPass", "price", "status", "rights", "granted"}
      /\ UNCHANGED <<store, clients, tallies>>
      BY <1>1, AcceptKeeps
<1>3. TypeOK' /\ Routed'
      BY <1>1, <1>2, KeptTypes DEF TypeOK, store, clients, tallies
<1>4. Shown(r)'
      BY <1>1, <1>2, CarriesOn DEF Same, store, clients
<1>5. Sent(r)' = Sent(r) /\ Resource(r)' = Resource(r)
      BY <1>2 DEF Sent, Resource
<1>6. CASE pc'[r] \in {"canPass", "price"}
  <2>1. Checked(r)'
        BY <1>6 DEF Checked
  <2> QED BY <1>2, <1>3, <1>4, <2>1, HandlerFrame DEF Minting, store
<1>7. CASE AcceptVerify(r) /\ pc'[r] \notin {"canPass", "price"}
  <2>1. VerifyL402(Sent(r), Resource(r)) /\ pc'[r] = "status"
    <3>1. ~Deny(r)
          BY <1>1, <1>2, <1>7, DenyKeeps DEF AcceptVerify
    <3> QED BY <1>1, <1>7, <3>1, GotoKeeps DEF AcceptVerify, Sent, Label
  <2>2. Resource(r) \in Text
    <3>1. q[r].target \in Service /\ q[r].path \in Text
          BY <1>1, <1>2 DEF Routed, TypeOK, Local
    <3> QED BY <3>1, ServiceTypes DEF Resource
  <2>3. Sent(r) # None /\ Satisfies(Sent(r).mac.caveats, NewServicesSatisfier(Resource(r)))
        BY <2>1 DEF VerifyL402, VerifyCaveats
  <2>4. sold[Sent(r).mac.id] = Resource(r)
        BY <1>1, <1>2, <2>2, <2>3 DEF Shown, Sells
  <2>5. Checked(r)'
        BY <1>2, <1>5, <2>1, <2>3, <2>4 DEF Checked, clients
  <2> QED BY <1>2, <1>3, <1>4, <2>5, HandlerFrame DEF Minting, store
<1>8. CASE AcceptStatus(r) /\ pc'[r] \notin {"canPass", "price"}
  <2>1. pc[r] = "status" /\ pc'[r] = "rights"
    <3>1. ~Deny(r)
          BY <1>1, <1>2, <1>8, DenyKeeps DEF AcceptStatus
    <3> QED BY <1>1, <1>8, <3>1, GotoKeeps DEF AcceptStatus, Label
  <2>2. Checked(r)'
        BY <1>1, <1>2, <1>5, <2>1 DEF Checked, clients
  <2> QED BY <1>2, <1>3, <1>4, <2>2, HandlerFrame DEF Minting, store
<1>9. CASE AcceptRights(r) /\ pc'[r] \notin {"canPass", "price"}
  <2>1. pc[r] = "rights" /\ pc'[r] = "granted" /\ WithinExpiry(Token(r).id)
    <3>1. ~Deny(r)
          BY <1>1, <1>2, <1>9, DenyKeeps DEF AcceptRights
    <3> QED BY <1>1, <1>9, <3>1, GotoKeeps DEF AcceptRights, Label
  <2>2. Checked(r)'
        BY <1>1, <1>2, <1>5, <2>1 DEF Checked, WithinExpiry, Token, Sent,
           clients, store
  <2> QED BY <1>2, <1>3, <1>4, <2>2, HandlerFrame DEF Minting, store
<1> QED BY <1>6, <1>7, <1>8, <1>9 DEF Accept

\* The steps after Accept keep it: they say nothing of what was accepted.
LEMMA MiddleInv ==
    ASSUME IInv, NEW r \in Req,
           \/ CanPass(r) \/ TallyRead(r) \/ TallyWrite(r)
           \/ GetPaymentDetails(r) \/ Forward(r)
    PROVE  IInv'
<1>1. TypeOK /\ Routed /\ Shown(r)
      BY DEF IInv
<1>2. /\ Kept(r) /\ pc[r] # "idle"
      /\ Same(r) \/ pc'[r] = "idle"
      /\ pc'[r] \notin Minting \union {"status", "rights", "granted"}
      /\ UNCHANGED <<store, clients>>
      /\ tally' \in [Service \X Ip -> 0..(CountWidth - 1)]
      /\ free' \in [Service \X Ip -> Nat]
      BY <1>1, MiddleKeeps
<1>3. TypeOK' /\ Routed'
      BY <1>1, <1>2, KeptTypes DEF TypeOK, store, clients
<1>4. Shown(r)'
      BY <1>1, <1>2, CarriesOn DEF store, clients
<1>5. Checked(r)'
      BY <1>2 DEF Checked
<1> QED BY <1>2, <1>3, <1>4, <1>5, HandlerFrame DEF store

\* A step in the mint changes the rows and the macaroon of its own hash only,
\* which no request carries yet.
LEMMA MintFrame ==
    ASSUME IInv, NEW r \in Req, Kept(r), TypeOK', Routed',
           pc[r] \in Minting, UNCHANGED invoice,
           \A k \in Hash : k # q[r].hash =>
               /\ secrets'[k] = secrets[k] /\ caveats'[k] = caveats[k]
               /\ issued'[k] = issued[k] /\ sold'[k] = sold[k],
           pc'[r] \in Minting => /\ q'[r].hash = q[r].hash
                                 /\ sold'[q[r].hash] = None
                                 /\ issued'[q[r].hash] = 0,
           sold'[q[r].hash] # None =>
               Sells(caveats'[q[r].hash], sold'[q[r].hash]),
           pc'[r] \notin {"status", "rights", "granted"},
           Same(r) \/ pc'[r] = "idle"
    PROVE  IInv'
<1> DEFINE h == q[r].hash
<1>1. h \in Hash /\ invoice[h] = "open" /\ sold[h] = None /\ issued[h] = 0
      BY DEF IInv, Private
<1>2. Private'
  <2>1. ASSUME NEW t \in Req, pc'[t] \in Minting
        PROVE  /\ q'[t].hash \in Hash /\ invoice'[q'[t].hash] = "open"
               /\ sold'[q'[t].hash] = None /\ issued'[q'[t].hash] = 0
    <3>1. CASE t = r
          BY <1>1, <2>1, <3>1
    <3>2. CASE t # r
          BY <1>1, <2>1, <3>2, SMT DEF IInv, Private, Kept
    <3> QED BY <3>1, <3>2
  <2>2. ASSUME NEW t \in Req, NEW u \in Req, pc'[t] \in Minting,
               pc'[u] \in Minting, t # u
        PROVE  q'[t].hash # q'[u].hash
        BY <2>2, SMT DEF IInv, Private, Kept
  <2>3. ASSUME NEW k \in Hash, invoice'[k] = "none"
        PROVE  sold'[k] = None /\ issued'[k] = 0
        BY <1>1, <2>3 DEF IInv, Private
  <2> QED BY <2>1, <2>2, <2>3 DEF Private
<1>3. Holders'
  <2> SUFFICES ASSUME NEW k \in Hash
               PROVE  /\ invoice'[k] = "paid" => sold'[k] # None
                      /\ sold'[k] # None => Sells(caveats'[k], sold'[k])
      BY DEF Holders
  <2>1. CASE k = h
        BY <1>1, <2>1
  <2>2. CASE k # h
        BY <2>2 DEF IInv, Holders
  <2> QED BY <2>1, <2>2
<1>4. ASSUME NEW t \in Req PROVE Shown(t)' /\ Checked(t)'
  <2>1. Shown(t) /\ Checked(t)
        BY DEF IInv
  <2>2. ASSUME pc[t] # "idle", Sent(t) # None
        PROVE  /\ Sent(t).mac.id \in Hash
               /\ sold'[Sent(t).mac.id] = sold[Sent(t).mac.id]
               /\ secrets'[Sent(t).mac.id] = secrets[Sent(t).mac.id]
    <3>1. Sent(t).mac.id \in Hash /\ invoice[Sent(t).mac.id] = "paid"
          BY <2>1, <2>2 DEF Shown, MacSet
    <3>2. Sent(t).mac.id # h
          BY <1>1, <3>1
    <3> QED BY <3>1, <3>2
  <2>3. CASE t = r
    <3>1. Checked(t)'
          BY <2>3 DEF Checked
    <3>2. pc[t] # "idle"
          BY <2>3 DEF Minting
    <3>3. Shown(t)'
          BY <2>1, <2>2, <2>3, <3>2 DEF Shown, Sent, Same
    <3> QED BY <3>1, <3>3
  <2>4. CASE t # r
    <3>1. pc'[t] = pc[t] /\ q'[t] = q[t]
          BY <2>4 DEF Kept
    <3>2. Sent(t)' = Sent(t) /\ Resource(t)' = Resource(t)
          BY <3>1 DEF Sent, Resource
    <3>3. Shown(t)'
          BY <2>1, <2>2, <3>1, <3>2 DEF Shown
    <3>4. Checked(t)'
          BY <2>1, <2>2, <3>1, <3>2 DEF Checked
    <3> QED BY <3>3, <3>4
  <2> QED BY <2>3, <2>4
<1> QED BY <1>2, <1>3, <1>4 DEF IInv

\* A new challenge is for a hash that nobody has seen.
LEMMA NewChallengeInv ==
    ASSUME IInv, NEW r \in Req, NewChallenge(r)
    PROVE  IInv'
<1>1. TypeOK /\ Routed /\ Shown(r) /\ pc[r] = "challenge"
      BY DEF IInv, NewChallenge
<1>2. UNCHANGED <<clock, started, cache, secrets, clients, tallies>>
      BY DEF NewChallenge
<1>3. CASE Finish(r) /\ UNCHANGED invoice
  <2>1. Kept(r) /\ pc'[r] = "idle"
        BY <1>1, <1>3, FinishKeeps
  <2>2. TypeOK' /\ Routed'
        BY <1>1, <1>2, <1>3, <2>1, KeptTypes DEF TypeOK, clients, tallies
  <2>3. Shown(r)' /\ Checked(r)'
        BY <2>1 DEF Shown, Checked
  <2> QED BY <1>2, <1>3, <2>1, <2>2, <2>3, HandlerFrame DEF Minting
<1>4. ASSUME NEW h \in Hash, invoice[h] = "none",
             invoice' = [invoice EXCEPT ![h] = "open"],
             q' = [q EXCEPT ![r].hash = h], Goto(r, "newSecret")
      PROVE  IInv'
  <2>1. q[r] \in Local /\ h \in Preimages
        BY <1>1 DEF TypeOK, Preimages
  <2>2. q' \in [Req -> Local] /\ Same(r) /\ q'[r].ip = q[r].ip /\ q'[r].hash = h
        BY <1>1, <1>4, <2>1 DEF TypeOK, Local, Same
  <2>3. /\ \A t \in Req : t # r => pc'[t] = pc[t] /\ q'[t] = q[t]
        /\ pc' \in [Req -> Label] /\ pc'[r] = "newSecret"
        BY <1>1, <1>4 DEF TypeOK, Goto, Label
  <2>4. Kept(r)
        BY <1>1, <2>2, <2>3 DEF Kept, Same, Routed
  <2>5. /\ invoice' \in [Hash -> {"none", "open", "paid"}] /\ invoice'[h] = "open"
        /\ \A k \in Hash : k # h => invoice'[k] = invoice[k]
        BY <1>1, <1>4 DEF TypeOK
  <2>6. TypeOK' /\ Routed'
        BY <1>1, <1>2, <2>4, <2>5, KeptTypes DEF TypeOK, clients, tallies
  <2>7. sold[h] = None /\ issued[h] = 0 /\ UNCHANGED <<sold, issued, caveats>>
        BY <1>2, <1>4 DEF IInv, Private, clients
  <2>8. \A t \in Req : t # r /\ pc[t] \in Minting => q[t].hash # h
        BY <1>4 DEF IInv, Private
  <2>9. Private'
    <3>1. ASSUME NEW t \in Req, pc'[t] \in Minting
          PROVE  /\ q'[t].hash \in Hash /\ invoice'[q'[t].hash] = "open"
                 /\ sold'[q'[t].hash] = None /\ issued'[q'[t].hash] = 0
      <4>1. CASE t = r
            BY <2>2, <2>5, <2>7, <4>1
      <4>2. CASE t # r
            BY <2>3, <2>5, <2>7, <2>8, <3>1, <4>2, SMT DEF IInv, Private
      <4> QED BY <4>1, <4>2
    <3>2. ASSUME NEW t \in Req, NEW u \in Req, pc'[t] \in Minting,
                 pc'[u] \in Minting, t # u
          PROVE  q'[t].hash # q'[u].hash
          BY <2>2, <2>3, <2>8, <3>2, SMT DEF IInv, Private
    <3>3. ASSUME NEW k \in Hash, invoice'[k] = "none"
          PROVE  sold'[k] = None /\ issued'[k] = 0
          BY <2>5, <2>7, <3>3 DEF IInv, Private
    <3> QED BY <3>1, <3>2, <3>3 DEF Private
  <2>10. Holders'
         BY <2>5, <2>7 DEF IInv, Holders
  <2>11. ASSUME NEW t \in Req PROVE Shown(t)' /\ Checked(t)'
    <3>1. Shown(t) /\ Checked(t) /\ pc[r] # "idle"
          BY <1>1 DEF IInv
    <3>2. pc[t] # "idle" /\ Sent(t) # None => /\ Sent(t).mac.id \in Hash
                                              /\ Sent(t).mac.id # h
          BY <1>4, <3>1 DEF Shown, MacSet
    <3>3. Sent(t)' = Sent(t) /\ Resource(t)' = Resource(t)
          BY <2>2, <2>3 DEF Sent, Resource, Same
    <3>4. pc'[t] # "idle" => pc[t] # "idle"
          BY <2>3, <3>1
    <3>5. Shown(t)'
          BY <2>5, <2>7, <3>1, <3>2, <3>3, <3>4 DEF Shown
    <3>6. pc'[t] \in {"status", "rights", "granted"} => pc'[t] = pc[t]
          BY <2>3
    <3>7. Checked(t)'
          BY <1>2, <2>7, <3>1, <3>3, <3>6 DEF Checked
    <3> QED BY <3>5, <3>7
  <2> QED BY <2>6, <2>9, <2>10, <2>11 DEF IInv
<1> QED BY <1>3, <1>4 DEF NewChallenge

\* The secret is written and taken back in a row of the request's own.
LEMMA SecretInv ==
    ASSUME IInv, NEW r \in Req, NewSecret(r) \/ RevokeSecret(r)
    PROVE  IInv'
<1>1. /\ TypeOK /\ Routed /\ pc[r] \in {"newSecret", "revoke"}
      /\ UNCHANGED <<clock, started, invoice, cache, clients, tallies>>
      BY DEF IInv, NewSecret, RevokeSecret
<1>2. q[r].hash \in Hash /\ sold[q[r].hash] = None /\ issued[q[r].hash] = 0
      BY <1>1 DEF IInv, Private, Minting
<1>3. /\ secrets' \in [Hash -> Nat \union {NoRow, NullTime}]
      /\ \A k \in Hash : k # q[r].hash => secrets'[k] = secrets[k]
      BY <1>1, <1>2 DEF TypeOK, NewSecret, RevokeSecret
<1>4. \/ Finish(r)
      \/ pc[r] = "newSecret" /\ Goto(r, "mint") /\ UNCHANGED q
      BY DEF NewSecret, RevokeSecret
<1>5. Kept(r) /\ (pc'[r] = "idle" \/ (pc'[r] = "mint" /\ q'[r] = q[r]))
      BY <1>1, <1>4, FinishKeeps, GotoKeeps DEF Label
<1>6. TypeOK' /\ Routed'
      BY <1>1, <1>3, <1>5, KeptTypes DEF TypeOK, clients, tallies
<1> QED BY <1>1, <1>2, <1>3, <1>5, <1>6, MintFrame DEF Minting, Same, clients

\* The macaroon that leaves the mint sells the resource of its request.
LEMMA MintL402Inv ==
    ASSUME IInv, NEW r \in Req, MintL402(r)
    PROVE  IInv'
<1> DEFINE h == q[r].hash
<1>1. /\ TypeOK /\ Routed /\ pc[r] = "mint"
      /\ UNCHANGED <<store, tallies>>
      BY DEF IInv, MintL402
<1>2. h \in Hash /\ sold[h] = None /\ issued[h] = 0
      BY <1>1 DEF IInv, Private, Minting
<1>3. CASE Goto(r, "revoke") /\ UNCHANGED <<clients, q>>
  <2>1. Kept(r) /\ pc'[r] = "revoke" /\ q'[r] = q[r]
        BY <1>1, <1>3, GotoKeeps DEF Label
  <2>2. TypeOK' /\ Routed'
        BY <1>1, <1>3, <2>1, KeptTypes DEF TypeOK, store, clients, tallies
  <2> QED BY <1>1, <1>2, <1>3, <2>1, <2>2, MintFrame DEF Minting, Same,
             clients, store
<1>4. CASE /\ caveats' = [caveats EXCEPT ![h] = Minted(r).caveats]
           /\ issued' = [issued EXCEPT ![h] = Len(Minted(r).caveats)]
           /\ sold' = [sold EXCEPT ![h] = Resource(r)]
           /\ Finish(r)
  <2>1. Resource(r) \in Text
    <3>1. q[r].target \in Service /\ q[r].path \in Text
          BY <1>1 DEF Routed, TypeOK, Local
    <3> QED BY <3>1, ServiceTypes DEF Resource
  <2>2. /\ Minted(r).caveats \in Seq(CaveatSet(Preimages))
        /\ Sells(Minted(r).caveats, Resource(r))
    <3> DEFINE service == [name |-> Resource(r), tier |-> BaseTier,
                           lud16 |-> q[r].quote.lud16, price |-> q[r].quote.price]
    <3>1. service.name = Resource(r) /\ started \in Nat
          BY <1>1 DEF TypeOK
    <3> HIDE DEF service
    <3>2. /\ CaveatsForServices(service) \in Seq(CaveatSet(Preimages))
          /\ Sells(CaveatsForServices(service), Resource(r))
          BY <2>1, <3>1, MintedSells
    <3>3. Minted(r).caveats = <<>> \o CaveatsForServices(service)
          BY DEF Minted, AddFirstPartyCaveats, service
    <3>4. <<>> \o CaveatsForServices(service) = CaveatsForServices(service)
          BY <3>2, SMT
    <3> QED BY <3>2, <3>3, <3>4
  <2>3. Kept(r) /\ pc'[r] = "idle"
        BY <1>1, <1>4, FinishKeeps
  <2>4. Len(Minted(r).caveats) \in Nat
        BY <2>2, SMT
  <2>5. /\ caveats' \in [Hash -> Seq(CaveatSet(Preimages))]
        /\ issued' \in [Hash -> Nat] /\ sold' \in [Hash -> Text \union {None}]
        /\ caveats'[h] = Minted(r).caveats /\ sold'[h] = Resource(r)
        /\ \A k \in Hash : k # h => /\ caveats'[k] = caveats[k]
                                    /\ issued'[k] = issued[k]
                                    /\ sold'[k] = sold[k]
        BY <1>1, <1>2, <1>4, <2>1, <2>2, <2>4 DEF TypeOK
  <2>6. TypeOK' /\ Routed'
        BY <1>1, <2>3, <2>5, KeptTypes DEF TypeOK, store, tallies
  <2>7. sold'[h] # None => Sells(caveats'[h], sold'[h])
        BY <2>2, <2>5
  <2> QED BY <1>1, <2>3, <2>5, <2>6, <2>7, MintFrame DEF Minting, store
<1> QED BY <1>3, <1>4 DEF MintL402

\* The macaroon of a hash changes only at its end, by one caveat of a holder.
LEMMA AttenuateInv ==
    ASSUME IInv, NEW h \in Hash, NEW c \in CaveatSet(Preimages), Attenuate(h, c)
    PROVE  IInv' /\ caveats' = [caveats EXCEPT ![h] = Append(caveats[h], c)]
<1>1. TypeOK /\ caveats[h] \in Seq(CaveatSet(Preimages))
      BY DEF IInv, TypeOK
<1>2. AddFirstPartyCaveats(Macaroon(h), <<c>>).caveats = Append(caveats[h], c)
  <2>1. AddFirstPartyCaveats(Macaroon(h), <<c>>).caveats = caveats[h] \o <<c>>
        BY DEF AddFirstPartyCaveats, Macaroon
  <2>2. caveats[h] \o <<c>> = Append(caveats[h], c)
        BY <1>1, SMT
  <2> QED BY <2>1, <2>2
<1>3. /\ caveats' = [caveats EXCEPT ![h] = Append(caveats[h], c)]
      /\ UNCHANGED <<store, issued, sold, tallies, pc, q>>
      BY <1>2 DEF Attenuate
<1>4. TypeOK' /\ Routed'
  <2>1. caveats' \in [Hash -> Seq(CaveatSet(Preimages))]
        BY <1>1, <1>3, SMT DEF TypeOK
  <2>2. TypeOK'
        BY <1>1, <1>3, <2>1 DEF TypeOK, store, tallies
  <2>3. Routed'
        BY <1>3 DEF IInv, Routed
  <2> QED BY <2>2, <2>3
<1>5. Private'
      BY <1>3 DEF IInv, Private, store
<1>6. Holders'
  <2> SUFFICES ASSUME NEW k \in Hash
               PROVE  /\ invoice'[k] = "paid" => sold'[k] # None
                      /\ sold'[k] # None => Sells(caveats'[k], sold'[k])
      BY DEF Holders
  <2>1. CASE k # h
        BY <1>1, <1>3, <2>1 DEF IInv, Holders, TypeOK, store
  <2>2. CASE k = h
    <3>1. caveats'[h] = caveats[h] \o <<c>>
          BY <1>1, <1>3, SMT DEF TypeOK
    <3>2. sold[h] # None => Sells(caveats[h] \o <<c>>, sold[h])
          BY <1>1, SellsAppend DEF IInv, Holders
    <3> QED BY <1>3, <2>2, <3>1, <3>2 DEF IInv, Holders, store
  <2> QED BY <2>1, <2>2
<1>7. ASSUME NEW t \in Req PROVE Shown(t)' /\ Checked(t)'
      BY <1>3 DEF IInv, Shown, Checked, Sent, Resource, store
<1> QED BY <1>3, <1>4, <1>5, <1>6, <1>7 DEF IInv

\* The caveats that holders add are caveats.
LEMMA HolderCaveats ==
    /\ Extra \subseteq CaveatSet(Preimages)
    /\ \A h \in Hash : NewPreimageCaveat(h) \in CaveatSet(Preimages)
<1>1. ASSUME NEW h \in Hash PROVE NewPreimageCaveat(h) \in CaveatSet(Preimages)
  <2>1. PreimageKey \in Text /\ <<>> \in Seq(Text) /\ h \in Preimages
        BY TokenAssumption, SMT DEF PreimageKey, Text, Preimages
  <2> QED BY <2>1, SMT DEF NewPreimageCaveat, Caveat, CaveatSet
<1> QED BY <1>1, GatewayAssumption

\* Payments, settlements and the clock: what is paid stays paid, and a
\* settlement time that is there stays there.
LEMMA OutsideInv ==
    ASSUME IInv, (\E h \in Hash : Pay(h) \/ Settled(h)) \/ Tick
    PROVE  IInv'
<1>1. TypeOK /\ UNCHANGED <<started, clients, tallies, pc, q>>
      BY DEF IInv, Pay, Settled, Tick
<1>2. /\ invoice' \in [Hash -> {"none", "open", "paid"}]
      /\ \A k \in Hash :
             \/ invoice'[k] = invoice[k]
             \/ invoice[k] = "open" /\ invoice'[k] = "paid" /\ sold[k] # None
      BY <1>1 DEF Pay, Settled, Tick, TypeOK
<1>3. /\ secrets' \in [Hash -> Nat \union {NoRow, NullTime}]
      /\ \A k \in Hash : secrets[k] >= 0 => secrets'[k] >= 0
  <2>1. secrets \in [Hash -> Nat \union {NoRow, NullTime}] /\ clock \in Nat
        BY <1>1 DEF TypeOK
  <2>2. CASE UNCHANGED secrets
        BY <2>1, <2>2
  <2>3. ASSUME NEW h \in Hash,
               secrets' = [secrets EXCEPT ![h] = IF @ = NoRow THEN @ ELSE clock]
        PROVE  /\ secrets' \in [Hash -> Nat \union {NoRow, NullTime}]
               /\ \A k \in Hash : secrets[k] >= 0 => secrets'[k] >= 0
    <3>1. secrets'[h] = IF secrets[h] = NoRow THEN NoRow ELSE clock
          BY <2>1, <2>3
    <3>2. \A k \in Hash : k # h => secrets'[k] = secrets[k]
          BY <2>1, <2>3
    <3>3. secrets' \in [Hash -> Nat \union {NoRow, NullTime}]
          BY <2>1, <2>3
    <3>4. \A k \in Hash : secrets[k] >= 0 => secrets'[k] >= 0
          BY <2>1, <3>1, <3>2, SMT DEF NoRow, NullTime
    <3> QED BY <3>3, <3>4
  <2> QED BY <2>2, <2>3 DEF Pay, Settled, Tick
<1>4. clock' \in Nat /\ cache' \in SUBSET Hash
      BY <1>1, SMT DEF Pay, Settled, Tick, TypeOK
<1>5. TypeOK' /\ Routed'
  <2>1. TypeOK'
        BY <1>1, <1>2, <1>3, <1>4 DEF TypeOK, clients, tallies
  <2>2. Routed'
        BY <1>1 DEF IInv, Routed
  <2> QED BY <2>1, <2>2
<1>6. Private'
      BY <1>1, <1>2 DEF IInv, Private, clients
<1>7. Holders'
      BY <1>1, <1>2 DEF IInv, Holders, clients
<1>8. ASSUME NEW t \in Req PROVE Shown(t)' /\ Checked(t)'
  <2>1. /\ Shown(t) /\ Checked(t) /\ UNCHANGED sold
        /\ Sent(t)' = Sent(t) /\ Resource(t)' = Resource(t)
        BY <1>1 DEF IInv, Sent, Resource, clients
  <2>2. Shown(t)'
        BY <1>1, <1>2, <2>1 DEF Shown, MacSet
  <2>3. pc[t] = "granted" => Sent(t).mac.id \in Hash
        BY <2>1 DEF Shown, Checked, MacSet
  <2>4. Checked(t)'
        BY <1>1, <1>3, <2>1, <2>3 DEF Checked
  <2> QED BY <2>2, <2>4
<1> QED BY <1>5, <1>6, <1>7, <1>8 DEF IInv

\* A restart forgets the requests and keeps what is stored.
LEMMA RestartInv ==
    ASSUME IInv, Restart
    PROVE  IInv'
<1>1. /\ TypeOK /\ \A r \in Req : pc'[r] = "idle"
      /\ UNCHANGED <<clock, invoice, secrets, clients>>
      BY DEF IInv, Restart
<1>2. TypeOK'
  <2>1. 0 \in 0..(CountWidth - 1)
        BY GatewayAssumption, SMT
  <2>2. started' \in Nat /\ cache' \in SUBSET Hash /\ q' \in [Req -> Local]
        BY <1>1, IdleTypes DEF Restart, TypeOK
  <2>3. /\ tally' \in [Service \X Ip -> 0..(CountWidth - 1)]
        /\ free' \in [Service \X Ip -> Nat]
        BY <2>1 DEF Restart
  <2> QED BY <1>1, <2>2, <2>3 DEF TypeOK, clients, Restart
<1>3. Routed' /\ \A r \in Req : Shown(r)' /\ Checked(r)'
      BY <1>1 DEF Routed, Shown, Checked
<1>4. Private' /\ Holders'
      BY <1>1 DEF IInv, Private, Holders, Minting, clients
<1> QED BY <1>2, <1>3, <1>4 DEF IInv

\* The invariant holds at the start.
LEMMA InitInv == Init => IInv
<1> SUFFICES ASSUME Init PROVE IInv
    OBVIOUS
<1>1. TypeOK
  <2>1. 0 \in 0..(CountWidth - 1)
        BY GatewayAssumption, SMT
  <2>2. /\ tally \in [Service \X Ip -> 0..(CountWidth - 1)]
        /\ free \in [Service \X Ip -> Nat] /\ q \in [Req -> Local]
        BY <2>1, IdleTypes DEF Init
  <2>3. /\ caveats \in [Hash -> Seq(CaveatSet(Preimages))]
        /\ sold \in [Hash -> Text \union {None}]
        /\ secrets \in [Hash -> Nat \union {NoRow, NullTime}]
        BY SMT DEF Init
  <2> QED BY <2>2, <2>3 DEF Init, TypeOK
<1>2. Routed /\ Private /\ Holders
      BY DEF Init, Routed, Private, Holders, Minting
<1>3. \A r \in Req : Shown(r) /\ Checked(r)
      BY DEF Init, Shown, Checked
<1> QED BY <1>1, <1>2, <1>3 DEF IInv

\* Every step keeps the invariant.
LEMMA NextInv == IInv /\ [Next]_vars => IInv'
<1> SUFFICES ASSUME IInv, [Next]_vars PROVE IInv'
    OBVIOUS
<1>1. ASSUME NEW r \in Req, Arrive(r) PROVE IInv'
      BY <1>1, ArriveInv
<1>2. ASSUME NEW r \in Req, Handle(r) PROVE IInv'
  <2>1. CASE Accept(r)
        BY <2>1, AcceptInv
  <2>2. CASE \/ CanPass(r) \/ TallyRead(r) \/ TallyWrite(r)
             \/ GetPaymentDetails(r) \/ Forward(r)
        BY <2>2, MiddleInv
  <2>3. CASE Mint(r)
        BY <2>3, NewChallengeInv, SecretInv, MintL402Inv DEF Mint
  <2> QED BY <1>2, <2>1, <2>2, <2>3 DEF Handle
<1>3. CASE (\E h \in Hash : Pay(h) \/ Settled(h)) \/ Tick
      BY <1>3, OutsideInv
<1>4. ASSUME NEW h \in Hash, AddPreimage(h) \/ \E c \in Extra : Attenuate(h, c)
      PROVE  IInv'
      BY <1>4, AttenuateInv, HolderCaveats DEF AddPreimage
<1>5. CASE MapFault \/ (MayFail /\ Restart)
      BY <1>5, RestartInv DEF MapFault
<1>6. CASE UNCHANGED vars
  <2>1. TypeOK' /\ Routed'
        BY <1>6 DEF IInv, TypeOK, Routed, vars
  <2>2. Private' /\ Holders'
        BY <1>6 DEF IInv, Private, Holders, vars
  <2>3. \A r \in Req : Shown(r)' /\ Checked(r)'
        BY <1>6 DEF IInv, Shown, Checked, Sent, Resource, vars
  <2> QED BY <2>1, <2>2, <2>3 DEF IInv
<1> QED BY <1>1, <1>2, <1>3, <1>4, <1>5, <1>6 DEF Next

\* The invariant always holds.
LEMMA AlwaysIInv == Spec => []IInv
BY InitInv, NextInv, PTL DEF Spec

-----------------------------------------------------------------------------
\* A request that Accept lets through is for the resource that its token was
\* sold for, and the token was paid and its settlement recorded.
THEOREM GrantIsBoughtHolds == Spec => []GrantIsBought
<1>1. IInv => GrantIsBought
  <2> SUFFICES ASSUME IInv, NEW r \in Req, pc[r] = "granted"
               PROVE  /\ invoice[Token(r).id] = "paid" /\ secrets[Token(r).id] >= 0
                      /\ sold[Token(r).id] = Resource(r)
      BY DEF GrantIsBought
  <2>1. Shown(r) /\ Checked(r) /\ Token(r) = Sent(r).mac
        BY DEF IInv, Token, Sent
  <2> QED BY <2>1 DEF Shown, Checked
<1> QED BY <1>1, AlwaysIInv, PTL

\* The backend finds in the Authorization field the token that Accept accepted.
THEOREM BackendSeesBuyerHolds == Spec => []BackendSeesBuyer
<1>1. IInv => BackendSeesBuyer
  <2> SUFFICES ASSUME IInv, NEW r \in Req, pc[r] = "granted"
               PROVE  TokenFromContext(Director(q[r].header)) = Token(r).id
      BY DEF BackendSeesBuyer
  <2> DEFINE a == FromHeader(q[r].header)
             h == Director(q[r].header)
  <2>1. a # None /\ Token(r) = a.mac /\ q[r].header \in HeaderSet
        BY DEF IInv, Checked, Sent, Token, TypeOK, Local
  <2>2. h.auth = a
        BY <2>1 DEF Director, SetHeader, HeaderSet
  <2> HIDE DEF a, h
  <2>3. [NoHeader EXCEPT !.auth = h.auth].auth = a
        BY <2>2 DEF NoHeader
  <2>4. FromHeader([NoHeader EXCEPT !.auth = h.auth]) = a
        BY <2>1, <2>3 DEF FromHeader
  <2>5. TokenFromContext(h) = a.mac.id
        BY <2>1, <2>4 DEF TokenFromContext
  <2> QED BY <2>1, <2>5 DEF h
<1> QED BY <1>1, AlwaysIInv, PTL

\* A macaroon that has left the mint changes by Attenuate alone.
LEMMA OnlyHoldersChange ==
    ASSUME IInv, [Next]_vars, NEW h \in Hash, issued[h] > 0,
           caveats'[h] # caveats[h]
    PROVE  \E c \in CaveatSet(Preimages) : caveats'[h] = Append(caveats[h], c)
<1>1. TypeOK
      BY DEF IInv
<1>2. ASSUME NEW r \in Req, Arrive(r) PROVE FALSE
      BY <1>2 DEF Arrive, clients
<1>3. ASSUME NEW r \in Req, Handle(r) PROVE FALSE
  <2>1. CASE MintL402(r)
    <3>1. issued[q[r].hash] = 0
          BY <2>1 DEF IInv, Private, MintL402, Minting
    <3>2. h # q[r].hash
          BY <3>1, SMT
    <3>3. \/ UNCHANGED caveats
          \/ caveats' = [caveats EXCEPT ![q[r].hash] = Minted(r).caveats]
          BY <2>1 DEF MintL402, clients
    <3>4. caveats \in [Hash -> Seq(CaveatSet(Preimages))]
          BY <1>1 DEF TypeOK
    <3> QED BY <3>2, <3>3, <3>4
  <2>2. CASE ~MintL402(r)
        BY <1>3, <2>2 DEF Handle, Accept, AcceptVerify, AcceptStatus,
           AcceptRights, CanPass, TallyRead, TallyWrite, GetPaymentDetails,
           Forward, Mint, NewChallenge, NewSecret, RevokeSecret, clients
  <2> QED BY <2>1, <2>2
<1>4. CASE \/ (\E k \in Hash : Pay(k) \/ Settled(k)) \/ Tick
           \/ MapFault \/ (MayFail /\ Restart) \/ UNCHANGED vars
      BY <1>4 DEF Pay, Settled, Tick, MapFault, Restart, clients, vars
<1>5. ASSUME NEW k \in Hash, AddPreimage(k) \/ \E c \in Extra : Attenuate(k, c)
      PROVE  \E c \in CaveatSet(Preimages) : caveats'[h] = Append(caveats[h], c)
  <2>1. PICK c \in CaveatSet(Preimages) : Attenuate(k, c)
        BY <1>5, HolderCaveats DEF AddPreimage
  <2>2. caveats' = [caveats EXCEPT ![k] = Append(caveats[k], c)]
        BY <2>1, AttenuateInv
  <2> QED BY <1>1, <2>2 DEF TypeOK
<1> QED BY <1>2, <1>3, <1>4, <1>5 DEF Next

\* A step that adds a caveat to a macaroon only takes rights away.
THEOREM AttenuationNarrowsHolds == Spec => AttenuationNarrows
<1> DEFINE Narrows ==
        \A h \in Hash, s \in Service, p \in Path :
            issued[h] > 0 /\ caveats'[h] # caveats[h] =>
                LET name == ResourceName(s, p)
                    all == {NewServicesSatisfier(name),
                            NewTimeoutSatisfier(name, clock)}
                IN  VerifyCaveats(caveats'[h], all) =>
                        VerifyCaveats(caveats[h], all)
<1>1. IInv /\ [Next]_vars => Narrows
  <2> SUFFICES ASSUME IInv, [Next]_vars, NEW h \in Hash, NEW s \in Service,
                      NEW p \in Path, issued[h] > 0, caveats'[h] # caveats[h],
                      NEW all,
                      all = {NewServicesSatisfier(ResourceName(s, p)),
                             NewTimeoutSatisfier(ResourceName(s, p), clock)},
                      VerifyCaveats(caveats'[h], all)
               PROVE  VerifyCaveats(caveats[h], all)
      OBVIOUS
  <2>1. PICK c \in CaveatSet(Preimages) : caveats'[h] = Append(caveats[h], c)
        BY OnlyHoldersChange
  <2>2. all \subseteq SatisfierSet
    <3>1. ResourceName(s, p) \in Text /\ clock \in Int /\ <<>> \in Text
          BY GatewayAssumption, ServiceTypes, SMT DEF IInv, TypeOK, Text
    <3>2. NewServicesSatisfier(ResourceName(s, p)) \in SatisfierSet
          BY <3>1, TokenIsText, SMT DEF NewServicesSatisfier, SatisfierSet
    <3>3. CondTimeout(ResourceName(s, p)) \in Text
          BY <3>1, TokenIsText, Joined DEF CondTimeout
    <3>4. NewTimeoutSatisfier(ResourceName(s, p), clock) \in SatisfierSet
          BY <3>1, <3>3 DEF NewTimeoutSatisfier, SatisfierSet
    <3> QED BY <3>2, <3>4
  <2>3. caveats[h] \in Seq(CaveatSet(Preimages))
        BY DEF IInv, TypeOK
  <2> QED BY <2>1, <2>2, <2>3, Attenuation DEF VerifyCaveats
<1>2. Spec => [][Narrows]_vars
      BY <1>1, AlwaysIInv, PTL DEF Spec
<1> QED BY <1>2 DEF AttenuationNarrows

-----------------------------------------------------------------------------
(* What the buyer gets                                                      *)

\* The mint's part of a macaroon, the first n caveats: the resource comes
\* first, no other services caveat follows it, and there is one time out of
\* the resource at most.
Whole(cs, n, name) ==
    /\ n \in 1..Len(cs) /\ name # <<>>
    /\ cs[1] = NewServicesCaveat(<<name>>)
    /\ \A i \in 2..n : cs[i].cond # CondServices
    /\ \A i, j \in 1..n :
           cs[i].cond = CondTimeout(name) /\ cs[j].cond = CondTimeout(name) =>
               i = j

\* What is sold has its secret, and so has a macaroon that is being built.
Buyers ==
    /\ \A h \in Hash : sold[h] # None =>
           secrets[h] # NoRow /\ Whole(caveats[h], issued[h], sold[h])
    /\ \A r \in Req : pc[r] = "mint" => secrets[q[r].hash] # NoRow

\* The three conditions that the mint uses differ.
LEMMA ConditionsDiffer ==
    ASSUME NEW name \in Text
    PROVE  /\ CondCapabilities(name) # CondServices
           /\ CondTimeout(name) # CondServices
           /\ CondCapabilities(name) # CondTimeout(name)
<1>1. /\ Len(CondTimeout(name)) = Len(name) + 1
      /\ CondTimeout(name)[Len(name) + 1] = "_valid_until"
      BY SMT DEF CondTimeout, Text
<1>2. /\ Len(CondCapabilities(name)) = Len(name) + 1
      /\ CondCapabilities(name)[Len(name) + 1] = "_capabilities"
      BY SMT DEF CondCapabilities, Text
<1>3. Len(CondServices) = 1 /\ CondServices[1] = "services"
      BY DEF CondServices
<1> QED BY <1>1, <1>2, <1>3

\* What a holder appends leaves the mint's part as it is.
LEMMA WholeAppend ==
    ASSUME NEW H, NEW cs \in Seq(CaveatSet(H)), NEW c \in CaveatSet(H),
           NEW n, NEW name, Whole(cs, n, name)
    PROVE  Whole(Append(cs, c), n, name)
<1>1. /\ Len(Append(cs, c)) = Len(cs) + 1
      /\ \A i \in 1..Len(cs) : Append(cs, c)[i] = cs[i]
      BY SMT
<1>2. n \in 1..Len(cs) /\ Len(cs) \in Nat
      BY SMT DEF Whole
<1> QED BY <1>1, <1>2, SMT DEF Whole

\* Lists of one element put together.
LEMMA JoinedLists ==
    ASSUME NEW a, NEW b, NEW c, NEW cs
    PROVE  /\ cs \in {<<a>> \o <<b>> \o <<>>, <<a>> \o <<>> \o <<b>>} =>
                  Len(cs) = 2 /\ cs[1] = a /\ cs[2] = b
           /\ cs = <<a>> \o <<b>> \o <<c>> =>
                  Len(cs) = 3 /\ cs[1] = a /\ cs[2] = b /\ cs[3] = c
<1> DEFINE S == {a, b, c}
<1>1. ASSUME NEW s \in Seq(S), NEW x \in S
      PROVE  /\ s \o <<>> = s /\ s \o <<x>> \in Seq(S)
             /\ Len(s \o <<x>>) = Len(s) + 1
             /\ \A i \in 1..Len(s) : (s \o <<x>>)[i] = s[i]
             /\ (s \o <<x>>)[Len(s) + 1] = x
      BY SMT
<1>2. <<a>> \in Seq(S) /\ Len(<<a>>) = 1 /\ <<a>>[1] = a
      BY SMT
<1>3. a \in S /\ b \in S /\ c \in S
      OBVIOUS
<1> HIDE DEF S
<1>4. ASSUME NEW s, s = <<a>> \o <<b>>
      PROVE  s \in Seq(S) /\ Len(s) = 2 /\ s[1] = a /\ s[2] = b /\ s \o <<>> = s
      BY <1>1, <1>2, <1>3, <1>4, SMT
<1>5. ASSUME NEW s, s = <<a>> \o <<b>>, NEW t, t = s \o <<c>>
      PROVE  Len(t) = 3 /\ t[1] = a /\ t[2] = b /\ t[3] = c
  <2>1. s \in Seq(S) /\ Len(s) = 2 /\ s[1] = a /\ s[2] = b
        BY <1>4, <1>5
  <2>2. Len(t) = Len(s) + 1 /\ t[Len(s) + 1] = c /\ \A i \in 1..2 : t[i] = s[i]
        BY <1>1, <1>3, <1>5, <2>1, SMT
  <2> QED BY <2>1, <2>2, SMT
<1>6. <<a>> \o <<>> = <<a>>
      BY <1>1, <1>2, SMT
<1> QED BY <1>4, <1>5, <1>6

\* What CaveatsForServices returns is whole.
LEMMA MintedWhole ==
    ASSUME NEW service, service.name \in Text, service.name # <<>>
    PROVE  Whole(CaveatsForServices(service), Len(CaveatsForServices(service)),
                 service.name)
<1> DEFINE name == service.name
           first == NewServicesCaveat(<<name>>)
           caps == ServiceCapabilities(service)
           times == ServiceTimeouts(service)
<1>1. first.cond = CondServices
      BY DEF NewServicesCaveat, Caveat
<1>2. caps = <<>> \/ \E c : c.cond = CondCapabilities(name) /\ caps = <<c>>
      BY DEF ServiceCapabilities, NewCapabilitiesCaveat, Caveat
<1>3. times = <<>> \/ \E c : c.cond = CondTimeout(name) /\ times = <<c>>
      BY DEF ServiceTimeouts, NewTimeoutCaveat, Caveat
<1>4. CaveatsForServices(service) = <<first>> \o caps \o times
      BY DEF CaveatsForServices
<1> HIDE DEF first, caps, times
<1>5. ASSUME NEW cs, cs = <<first>> \o caps \o times
      PROVE  Whole(cs, Len(cs), name)
  <2>1. CASE caps = <<>> /\ times = <<>>
    <3>1. cs = <<first>>
          BY <1>5, <2>1, SMT
    <3> QED BY <3>1, <1>1, SMT DEF Whole, first
  <2>2. ASSUME NEW c, c.cond = CondCapabilities(name), caps = <<c>>, times = <<>>
        PROVE  Whole(cs, Len(cs), name)
    <3>1. Len(cs) = 2 /\ cs[1] = first /\ cs[2] = c
          BY <1>5, <2>2, JoinedLists, SMT
    <3> QED BY <3>1, <2>2, <1>1, ConditionsDiffer, SMT DEF Whole, first
  <2>3. ASSUME NEW d, d.cond = CondTimeout(name), caps = <<>>, times = <<d>>
        PROVE  Whole(cs, Len(cs), name)
    <3>1. Len(cs) = 2 /\ cs[1] = first /\ cs[2] = d
          BY <1>5, <2>3, JoinedLists, SMT
    <3> QED BY <3>1, <2>3, <1>1, ConditionsDiffer, SMT DEF Whole, first
  <2>4. ASSUME NEW c, c.cond = CondCapabilities(name), caps = <<c>>,
               NEW d, d.cond = CondTimeout(name), times = <<d>>
        PROVE  Whole(cs, Len(cs), name)
    <3>1. Len(cs) = 3 /\ cs[1] = first /\ cs[2] = c /\ cs[3] = d
          BY <1>5, <2>4, JoinedLists, SMT
    <3> QED BY <3>1, <2>4, <1>1, ConditionsDiffer, SMT DEF Whole, first
  <2> QED BY <1>2, <1>3, <2>1, <2>2, <2>3, <2>4
<1> QED BY <1>4, <1>5

\* The mint's part of a macaroon satisfies both satisfiers of its resource
\* unless its time out has passed.
LEMMA WholeWorks ==
    ASSUME NEW H, NEW cs \in Seq(CaveatSet(H)), NEW n, NEW name \in Text,
           NEW now \in Nat, Whole(cs, n, name), ~Splits(name)
    PROVE  \/ VerifyCaveats(SubSeq(cs, 1, n),
                            {NewServicesSatisfier(name),
                             NewTimeoutSatisfier(name, now)})
           \/ \E i \in 1..n : cs[i].cond = CondTimeout(name) /\ cs[i].time <= now
<1> DEFINE ds == SubSeq(cs, 1, n)
           S == Places(ds, CondServices)
           T == Places(ds, CondTimeout(name))
<1>1. n \in 1..Len(cs) /\ Len(cs) \in Nat
      BY SMT DEF Whole
<1>2. Len(ds) = n /\ \A i \in 1..n : ds[i] = cs[i]
      BY <1>1, SMT
<1> HIDE DEF ds
<1>3. Satisfies(ds, NewServicesSatisfier(name))
  <2>1. S = {1}
    <3>1. cs[1].cond = CondServices
          BY SMT DEF Whole, NewServicesCaveat, Caveat
    <3> QED BY <1>1, <1>2, <3>1, SMT DEF Places, Whole
  <2>2. ds[1].names = <<name>>
        BY <1>1, <1>2, SMT DEF Whole, NewServicesCaveat, Caveat
  <2>3. Decodes(ds[1]) /\ name \in Names(ds[1])
        BY <2>2, SMT DEF Decodes, EncodesServices, Names, Whole
  <2> QED BY <2>1, <2>3, SMT DEF Satisfies, Follows, SatisfyFinal,
             NewServicesSatisfier
<1>4. ASSUME \A i \in 1..n : cs[i].cond = CondTimeout(name) => cs[i].time > now
      PROVE  Satisfies(ds, NewTimeoutSatisfier(name, now))
  <2>1. /\ T \subseteq 1..n /\ \A i \in T : ds[i].time > now
        /\ \A i, j \in T : i = j
        BY <1>2, <1>4 DEF Places, Whole
  <2> QED BY <1>1, <2>1, SMT DEF Satisfies, Follows, SatisfyFinal,
             NewTimeoutSatisfier
<1>5. \A i \in 1..n : cs[i].time \in Int
  <2>1. \A i \in 1..n : cs[i] \in CaveatSet(H)
        BY <1>1, SMT
  <2> QED BY <2>1 DEF CaveatSet
<1> QED BY <1>3, <1>4, <1>5, SMT DEF VerifyCaveats, ds

\* A step that touches neither secrets nor macaroons and lets no request into
\* the last part of the mint keeps the buyers' part of the invariant.
LEMMA BuyersFrame ==
    ASSUME Buyers, UNCHANGED <<secrets, clients>>,
           \A t \in Req : pc'[t] = "mint" =>
               pc[t] = "mint" /\ q'[t].hash = q[t].hash
    PROVE  Buyers'
BY DEF Buyers, clients

\* The secret is written before the macaroon is built, and taken back only
\* from a hash that nobody else uses.
LEMMA SecretBuyers ==
    ASSUME IInv, Buyers, NEW r \in Req, NewSecret(r) \/ RevokeSecret(r)
    PROVE  Buyers'
<1> DEFINE h == q[r].hash
<1>1. TypeOK /\ Routed /\ pc[r] \in Minting /\ pc[r] # "idle" /\ UNCHANGED clients
      BY DEF IInv, NewSecret, RevokeSecret, Minting
<1>2. /\ h \in Hash /\ sold[h] = None
      /\ \A t \in Req : t # r /\ pc[t] = "mint" => q[t].hash # h /\ q[t].hash \in Hash
      BY <1>1 DEF IInv, Private, Minting
<1>3. \/ Finish(r)
      \/ Goto(r, "mint") /\ UNCHANGED q /\ secrets' = [secrets EXCEPT ![h] = NullTime]
      BY DEF NewSecret, RevokeSecret
<1>4. /\ \A t \in Req : t # r => pc'[t] = pc[t] /\ q'[t] = q[t]
      /\ pc'[r] = "mint" => /\ q'[r] = q[r]
                            /\ secrets' = [secrets EXCEPT ![h] = NullTime]
      BY <1>1, <1>3, FinishKeeps, GotoKeeps DEF Kept, Label
<1>5. /\ \A k \in Hash : k # h => secrets'[k] = secrets[k]
      /\ pc'[r] = "mint" => secrets'[h] = NullTime
      BY <1>1, <1>2, <1>4 DEF TypeOK, NewSecret, RevokeSecret
<1>6. NullTime # NoRow
      BY SMT DEF NullTime, NoRow
<1>7. ASSUME NEW k \in Hash, sold'[k] # None
      PROVE  secrets'[k] # NoRow /\ Whole(caveats'[k], issued'[k], sold'[k])
      BY <1>1, <1>2, <1>5, <1>7 DEF Buyers, clients
<1>8. ASSUME NEW t \in Req, pc'[t] = "mint" PROVE secrets'[q'[t].hash] # NoRow
  <2>1. CASE t = r
        BY <1>4, <1>5, <1>6, <1>8, <2>1
  <2>2. CASE t # r
        BY <1>2, <1>4, <1>5, <1>8, <2>2, SMT DEF Buyers
  <2> QED BY <2>1, <2>2
<1> QED BY <1>7, <1>8 DEF Buyers

\* The mint hands out a whole macaroon, and its secret is stored.
LEMMA MintBuyers ==
    ASSUME IInv, Buyers, NEW r \in Req, MintL402(r)
    PROVE  Buyers'
<1> DEFINE h == q[r].hash
           service == [name |-> Resource(r), tier |-> BaseTier,
                       lud16 |-> q[r].quote.lud16, price |-> q[r].quote.price]
           cs == CaveatsForServices(service)
<1>1. TypeOK /\ Routed /\ pc[r] = "mint" /\ UNCHANGED secrets
      BY DEF IInv, MintL402, store
<1>2. h \in Hash /\ secrets[h] # NoRow
      BY <1>1 DEF IInv, Private, Minting, Buyers
<1>3. CASE Goto(r, "revoke") /\ UNCHANGED <<clients, q>>
  <2>1. Kept(r) /\ pc'[r] = "revoke"
        BY <1>1, <1>3, GotoKeeps DEF Label
  <2> QED BY <1>1, <1>3, <2>1, BuyersFrame DEF Kept
<1>4. CASE /\ EncodesServices(<<Resource(r)>>)
           /\ caveats' = [caveats EXCEPT ![h] = Minted(r).caveats]
           /\ issued' = [issued EXCEPT ![h] = Len(Minted(r).caveats)]
           /\ sold' = [sold EXCEPT ![h] = Resource(r)]
           /\ Finish(r)
  <2>1. Resource(r) \in Text /\ Resource(r) # <<>>
    <3>1. q[r].target \in Service /\ q[r].path \in Text
          BY <1>1 DEF Routed, TypeOK, Local
    <3>2. Resource(r) \in Text
          BY <3>1, ServiceTypes DEF Resource
    <3>3. Resource(r) # <<>>
          BY <1>4, SMT DEF EncodesServices
    <3> QED BY <3>2, <3>3
  <2>2. service.name = Resource(r) /\ started \in Nat
        BY <1>1 DEF TypeOK
  <2>3. Minted(r).caveats = <<>> \o cs
        BY DEF Minted, AddFirstPartyCaveats
  <2> HIDE DEF service
  <2>4. cs \in Seq(CaveatSet(Preimages)) /\ Whole(cs, Len(cs), Resource(r))
        BY <2>1, <2>2, MintedSells, MintedWhole
  <2> HIDE DEF cs
  <2>5. <<>> \o cs = cs
        BY <2>4, SMT
  <2>6. /\ caveats'[h] = cs /\ issued'[h] = Len(cs) /\ sold'[h] = Resource(r)
        /\ \A k \in Hash : k # h => /\ caveats'[k] = caveats[k]
                                    /\ issued'[k] = issued[k]
                                    /\ sold'[k] = sold[k]
        BY <1>1, <1>2, <1>4, <2>3, <2>5 DEF TypeOK
  <2>7. ASSUME NEW k \in Hash, sold'[k] # None
        PROVE  secrets'[k] # NoRow /\ Whole(caveats'[k], issued'[k], sold'[k])
    <3>1. CASE k = h
          BY <1>1, <1>2, <2>4, <2>6, <3>1
    <3>2. CASE k # h
          BY <1>1, <2>6, <2>7, <3>2 DEF Buyers
    <3> QED BY <3>1, <3>2
  <2>8. \A t \in Req : pc'[t] = "mint" => secrets'[q'[t].hash] # NoRow
        BY <1>1, <1>4, FinishKeeps DEF Kept, Buyers
  <2> QED BY <2>7, <2>8 DEF Buyers
<1> QED BY <1>3, <1>4 DEF MintL402

\* A holder's caveat comes after the mint's part.
LEMMA AttenuateBuyers ==
    ASSUME IInv, Buyers, NEW h \in Hash, NEW c \in CaveatSet(Preimages),
           Attenuate(h, c)
    PROVE  Buyers'
<1>1. /\ caveats' = [caveats EXCEPT ![h] = Append(caveats[h], c)]
      /\ UNCHANGED <<secrets, issued, sold, pc, q>>
      BY AttenuateInv DEF Attenuate, store
<1>2. caveats \in [Hash -> Seq(CaveatSet(Preimages))]
      BY DEF IInv, TypeOK
<1>3. ASSUME NEW k \in Hash, sold[k] # None
      PROVE  Whole(caveats'[k], issued[k], sold[k])
  <2>1. Whole(caveats[k], issued[k], sold[k]) /\ caveats[k] \in Seq(CaveatSet(Preimages))
        BY <1>2, <1>3 DEF Buyers
  <2>2. caveats'[k] \in {caveats[k], Append(caveats[k], c)}
        BY <1>1, <1>2
  <2> QED BY <2>1, <2>2, WholeAppend
<1> QED BY <1>1, <1>3 DEF Buyers

\* A settlement is stored in a row that is there.
LEMMA SettledBuyers ==
    ASSUME IInv, Buyers, NEW h \in Hash, Settled(h)
    PROVE  Buyers'
<1>1. UNCHANGED <<clients, pc, q>>
      BY DEF Settled
<1>2. /\ secrets \in [Hash -> Nat \union {NoRow, NullTime}] /\ clock \in Nat
      /\ \A r \in Req : pc[r] = "mint" => q[r].hash \in Hash
      BY DEF IInv, TypeOK, Private, Minting
<1>3. \A k \in Hash : secrets[k] # NoRow => secrets'[k] # NoRow
  <2>1. clock # NoRow
        BY <1>2, SMT DEF NoRow
  <2>2. \/ UNCHANGED secrets
        \/ secrets' = [secrets EXCEPT ![h] = IF @ = NoRow THEN @ ELSE clock]
        BY DEF Settled
  <2> QED BY <1>2, <2>1, <2>2
<1> QED BY <1>1, <1>2, <1>3 DEF Buyers, clients

\* Every step keeps the buyers' part of the invariant.
LEMMA NextBuyers == IInv /\ Buyers /\ [Next]_vars => Buyers'
<1> SUFFICES ASSUME IInv, Buyers, [Next]_vars PROVE Buyers'
    OBVIOUS
<1>1. TypeOK /\ Routed
      BY DEF IInv
<1>2. ASSUME NEW r \in Req, Arrive(r) PROVE Buyers'
  <2>1. Kept(r) /\ pc'[r] # "mint"
        BY <1>1, <1>2, ArriveKeeps
  <2> QED BY <1>2, <2>1, BuyersFrame DEF Kept, Arrive, store
<1>3. ASSUME NEW r \in Req, Handle(r) PROVE Buyers'
  <2>1. CASE Accept(r)
    <3>1. Kept(r) /\ pc'[r] # "mint" /\ UNCHANGED <<store, clients>>
          BY <1>1, <2>1, AcceptKeeps
    <3> QED BY <3>1, BuyersFrame DEF Kept, store
  <2>2. CASE \/ CanPass(r) \/ TallyRead(r) \/ TallyWrite(r)
             \/ GetPaymentDetails(r) \/ Forward(r)
    <3>1. Kept(r) /\ pc'[r] # "mint" /\ UNCHANGED <<store, clients>>
          BY <1>1, <2>2, MiddleKeeps DEF Minting
    <3> QED BY <3>1, BuyersFrame DEF Kept, store
  <2>3. CASE NewChallenge(r)
    <3>1. /\ UNCHANGED <<secrets, clients>> /\ pc'[r] # "mint"
          /\ \A t \in Req : t # r => pc'[t] = pc[t] /\ q'[t] = q[t]
          BY <1>1, <2>3 DEF NewChallenge, Goto, Finish, TypeOK
    <3> QED BY <3>1, BuyersFrame
  <2>4. CASE Mint(r) /\ ~NewChallenge(r)
        BY <2>4, SecretBuyers, MintBuyers DEF Mint
  <2> QED BY <1>3, <2>1, <2>2, <2>3, <2>4 DEF Handle
<1>4. ASSUME NEW h \in Hash, Settled(h) PROVE Buyers'
      BY <1>4, SettledBuyers
<1>5. CASE (\E h \in Hash : Pay(h)) \/ Tick \/ UNCHANGED vars
      BY <1>5, BuyersFrame DEF Pay, Tick, vars, clients
<1>6. CASE MapFault \/ (MayFail /\ Restart)
      BY <1>6, BuyersFrame DEF MapFault, Restart
<1>7. ASSUME NEW h \in Hash, AddPreimage(h) \/ \E c \in Extra : Attenuate(h, c)
      PROVE  Buyers'
      BY <1>7, AttenuateBuyers, HolderCaveats DEF AddPreimage
<1> QED BY <1>2, <1>3, <1>4, <1>5, <1>6, <1>7 DEF Next

\* Whoever has paid holds a macaroon that VerifyL402 accepts for the resource
\* it was sold for, until a time out in it has passed: the secret is stored
\* before the macaroon goes out and taken back only when it does not.
THEOREM PaidWorksHolds == Spec => []PaidWorks
<1>1. Init => Buyers
      BY DEF Init, Buyers
<1>2. IInv /\ Buyers => PaidWorks
  <2> SUFFICES ASSUME IInv, Buyers, NEW h \in Hash, invoice[h] = "paid",
                      ~Splits(sold[h])
               PROVE  \/ VerifyL402([mac |-> Issued(h), preimage |-> h], sold[h])
                      \/ \E i \in 1..issued[h] :
                             /\ caveats[h][i].cond = CondTimeout(sold[h])
                             /\ caveats[h][i].time <= clock
      BY DEF PaidWorks
  <2> DEFINE a == [mac |-> Issued(h), preimage |-> h]
  <2>1. /\ sold[h] \in Text /\ clock \in Nat
        /\ caveats[h] \in Seq(CaveatSet(Preimages))
        /\ secrets[h] # NoRow /\ Whole(caveats[h], issued[h], sold[h])
        BY DEF IInv, TypeOK, Holders, Buyers
  <2>2. /\ Issued(h) = [id |-> h, caveats |-> SubSeq(caveats[h], 1, issued[h])]
        /\ Issued(h).id = h
        /\ Issued(h).caveats = SubSeq(caveats[h], 1, issued[h])
        BY DEF Issued
  <2>3. a # None
    <3>1. issued[h] \in 1..Len(caveats[h]) /\ Len(caveats[h]) \in Nat
          BY <2>1, SMT DEF Whole
    <3>2. SubSeq(caveats[h], 1, issued[h]) \in Seq(CaveatSet(Preimages))
          BY <2>1, <3>1, SMT
    <3>3. Issued(h) \in MacSet
          BY <2>2, <3>2 DEF MacSet
    <3>4. a \in [mac : MacSet, preimage : Hash]
          BY <3>3
    <3> QED BY <3>4, NilAssumption
  <2>4. a.mac = Issued(h) /\ a.preimage = h
        OBVIOUS
  <2> HIDE DEF a
  <2>5. \/ VerifyCaveats(a.mac.caveats, {NewServicesSatisfier(sold[h]),
                                         NewTimeoutSatisfier(sold[h], clock)})
        \/ \E i \in 1..issued[h] : /\ caveats[h][i].cond = CondTimeout(sold[h])
                                   /\ caveats[h][i].time <= clock
    <3>1. a.mac.caveats = SubSeq(caveats[h], 1, issued[h])
          BY <2>2, <2>4
    <3> QED BY <2>1, <3>1, WholeWorks, SMT
  <2>6. CASE VerifyCaveats(a.mac.caveats, {NewServicesSatisfier(sold[h]),
                                           NewTimeoutSatisfier(sold[h], clock)})
        BY <2>1, <2>2, <2>3, <2>4, <2>6 DEF VerifyL402, a
  <2> QED BY <2>5, <2>6
<1> QED BY <1>1, <1>2, AlwaysIInv, NextBuyers, PTL DEF Spec
=============================================================================
