-------------------------------- MODULE L402 --------------------------------
(***************************************************************************)
(* The L402 formats of package lsat and the checks on them: service names, *)
(* caveats and their satisfiers, identifiers and authentication headers.   *)
(* A text is a sequence of tokens, so that putting texts together and the  *)
(* separators "," and ":" inside a name are what they are in the code.  A  *)
(* caveat has the fields that its kind uses, the others at their defaults. *)
(***************************************************************************)
EXTENDS Integers, Sequences

CONSTANTS None, Word

\* The tokens of the code's own conditions are among the tokens.
ASSUME TokenAssumption ==
    {"services", "preimage", "_valid_until", "_capabilities"} \subseteq Word

Text == Seq(Word)

BaseTier == 0
CondServices == <<"services">>
PreimageKey == <<"preimage">>
CondTimeout(name) == name \o <<"_valid_until">>
CondCapabilities(name) == name \o <<"_capabilities">>

Caveat(cond, names, time, preimage) ==
    [cond |-> cond, names |-> names, time |-> time, preimage |-> preimage]
CaveatSet(Preimage) ==
    [cond : Text, names : Seq(Text), time : Int,
     preimage : Preimage]

\* A list of services, or of capabilities, as a caveat's value.  The names
\* are joined by "," and followed by ":" and the tier without any quoting.
Separators == {",", ":"}
Splits(name) == \E i \in 1..Len(name) : name[i] \in Separators

\* encodeServicesCaveatValue refuses an empty list and an empty name.
EncodesServices(names) ==
    names # <<>> /\ \A i \in 1..Len(names) : names[i] # <<>>

NewServicesCaveat(names) == Caveat(CondServices, names, 0, None)
\* An empty text is the one empty capability, <<<<>>>>.
NewCapabilitiesCaveat(name, caps) ==
    Caveat(CondCapabilities(name), caps, 0, None)
NewTimeoutCaveat(name, seconds, now) ==
    Caveat(CondTimeout(name), <<>>, now + seconds, None)
NewPreimageCaveat(preimage) == Caveat(PreimageKey, <<>>, 0, preimage)

\* decodeServicesCaveatValue: a name with a separator does not come apart into
\* name and tier again.  Names with both separators are not considered.
Decodes(c) == EncodesServices(c.names)
              /\ \A i \in 1..Len(c.names) : ~Splits(c.names[i])
Names(c) == {c.names[i] : i \in 1..Len(c.names)}

-----------------------------------------------------------------------------
(* Satisfiers: which caveats one is about, when a caveat may follow an      *)
(* earlier one of its condition, and what the last one must say.            *)

NewServicesSatisfier(target) ==
    [kind |-> "services", cond |-> CondServices, target |-> target, now |-> 0]
NewCapabilitiesSatisfier(name, target) ==
    [kind |-> "capabilities", cond |-> CondCapabilities(name),
     target |-> target, now |-> 0]
NewTimeoutSatisfier(name, now) ==
    [kind |-> "timeout", cond |-> CondTimeout(name), target |-> <<>>,
     now |-> now]

SatisfyPrevious(s, prev, cur) ==
    CASE s.kind = "services" ->
             Decodes(prev) /\ Decodes(cur) /\ Names(cur) \subseteq Names(prev)
      [] s.kind = "capabilities" -> Names(cur) \subseteq Names(prev)
      [] s.kind = "timeout" -> prev.time >= cur.time

SatisfyFinal(s, c) ==
    CASE s.kind = "services" -> Decodes(c) /\ s.target \in Names(c)
      [] s.kind = "capabilities" -> s.target \in Names(c)
      [] s.kind = "timeout" -> s.now < c.time

\* The places of a caveat list that a condition picks out, and the next one.
Places(caveats, cond) == {i \in 1..Len(caveats) : caveats[i].cond = cond}
Follows(caveats, cond, i, j) ==
    i < j /\ \A k \in Places(caveats, cond) : k <= i \/ k >= j

\* Deviation: the last caveat decides, the ones before it are not looked at.
SatisfiesLast(caveats, s) ==
    LET P == Places(caveats, s.cond) IN
    \A i \in P : (\A j \in P : j <= i) => SatisfyFinal(s, caveats[i])

\* VerifyCaveats for one satisfier: along the caveats of its condition each
\* satisfies the one before it, and the last one decides.
Satisfies(caveats, s) ==
    LET P == Places(caveats, s.cond) IN
    /\ \A i, j \in P : Follows(caveats, s.cond, i, j) =>
           SatisfyPrevious(s, caveats[i], caveats[j])
    /\ \A i \in P : (\A j \in P : j <= i) => SatisfyFinal(s, caveats[i])

VerifyCaveats(caveats, satisfiers) ==
    \A s \in satisfiers : Satisfies(caveats, s)

-----------------------------------------------------------------------------
(* Macaroons are [id, caveats]; the identifier is the payment hash with the *)
(* random token id, which one hash stands for.                              *)

AddFirstPartyCaveats(mac, caveats) ==
    [mac EXCEPT !.caveats = @ \o caveats]

\* The preimage in the last preimage caveat of a macaroon, or None.
HasPreimage(mac) ==
    LET P == Places(mac.caveats, PreimageKey)
    IN  IF P = {} THEN None
        ELSE LET i == CHOOSE i \in P : \A j \in P : j <= i
             IN  mac.caveats[i].preimage

\* A request's authentication headers: Authorization holds macaroon and
\* preimage, Grpc-Metadata-Macaroon and Macaroon only a macaroon.
NoHeader == [auth |-> None, md |-> None, plain |-> None]

\* FromHeader: the macaroon and the preimage of a request, or None.
FromHeader(h) ==
    IF h.auth # None THEN h.auth
    ELSE LET mac == IF h.md # None THEN h.md ELSE h.plain
         IN  IF mac = None \/ HasPreimage(mac) = None THEN None
             ELSE [mac |-> mac, preimage |-> HasPreimage(mac)]

\* Deviation: the standard header field is only filled in when it is empty.
SetHeaderOnce(h, a) == IF h.md = None THEN [h EXCEPT !.auth = a] ELSE h

SetHeader(h, a) == [h EXCEPT !.auth = a]

\* tokenFromContext: a backend looks at the Authorization field only.
TokenFromContext(h) ==
    LET a == FromHeader([NoHeader EXCEPT !.auth = h.auth])
    IN  IF a = None THEN None ELSE a.mac.id
=============================================================================
