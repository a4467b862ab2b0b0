----------------------------- MODULE MCGateway ------------------------------
EXTENDS Gateway, TLC

\* A dynamically priced service, as in config/aperture.yaml.example, and one
\* with free requests; the second dynamic path holds a separator.
Content == <<"/content">>
Odd == <<"/content", ":">>
Open == <<"/open">>
Shop == <<"/shop">>
MCPath == {Content, Open, Shop}
MCPathOdd == {Odd, Shop}

Contents == [name |-> <<"contents">>, paths |-> {Content, Odd, Open},
             open |-> {Open}, auth |-> "on", count |-> 0, dynamic |-> TRUE,
             price |-> 0, timeout |-> 1, caps |-> <<<<"add">>>>]
Free == [name |-> <<"shop">>, paths |-> {Shop}, open |-> {}, auth |-> "freebie",
         count |-> 1, dynamic |-> FALSE, price |-> 0, timeout |-> 0,
         caps |-> <<<<>>>>]
MCServices == <<Contents, Free>>

MCQuotes == {[lud16 |-> <<"creator">>, price |-> p] : p \in {0, 1}}

\* Caveats a holder may add: one more service, and two times out.
Mine == ResourceName(1, Content)
MCExtra == {NewServicesCaveat(<<Mine, <<"shop">>>>),
            NewTimeoutCaveat(Mine, 1, 0), NewTimeoutCaveat(Mine, 2, 0)}

MCWord == {"contents", "/content", ":", "/open", "/shop", "shop", "creator",
           "add", "services", "preimage", "_valid_until", "_capabilities"}

Symmetry == Permutations(Req)
=============================================================================
