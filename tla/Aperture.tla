------------------------------ MODULE Aperture ------------------------------
(***************************************************************************)
(* The life of the aperture process: run, the steps of Start with the TLS  *)
(* files it finds, makes or renews, the two server goroutines that report  *)
(* to errChan, UpdateServices, and the steps of Stop.  The files outlive   *)
(* the process, which may be killed between any two steps.                 *)
(***************************************************************************)
EXTENDS Naturals, Sequences

CONSTANTS Configs,  \* sets of services that the proxy may be given
          MaxPairs, \* bound: pairs made
          V3        \* cfg.Tor.V3

VARIABLES pc,      \* where run is: a step of Start, "wait", "stop" or "exit"
          cert,    \* tls.cert: [by, pair, old], by "none" if it is missing
          key,     \* tls.key: the pair it belongs to, 0 if it is missing
          pairs,   \* the pairs made so far
          tls,     \* the certificate the server was configured with
          up,      \* what Start has started
          server,  \* the goroutines "https" and "tor"
          closed,  \* the servers that were closed
          quit,    \* the quit channel is closed
          stopped, \* the steps of Stop that are done
          services, pool, pricers \* the proxy's fields, and open pricers

files == <<cert, key, pairs>>
proxy == <<services, pool, pricers>>
rest == <<server, closed, quit, stopped>>
vars == <<pc, files, tls, up, rest, proxy>>

Server == {"https", "tor"}
NoCert == [by |-> "none", pair |-> 0, old |-> FALSE]
StopOrder == <<"challenger", "hashmail", "db", "pricers", "https", "tor",
               "quit">>

Fresh ==
    /\ tls = NoCert /\ up = {} /\ closed = {} /\ quit = FALSE /\ stopped = 0
    /\ server = [s \in Server |-> "none"]
    /\ services = {} /\ pool = {} /\ pricers = {}

Init == pc = "off" /\ cert = NoCert /\ key = 0 /\ pairs = 0 /\ Fresh

Reset ==
    /\ tls' = NoCert /\ up' = {} /\ closed' = {} /\ quit' = FALSE
    /\ stopped' = 0 /\ server' = [s \in Server |-> "none"]
    /\ services' = {} /\ pool' = {} /\ pricers' = {}

\* The process is killed, or it has ended.
Kill == pc # "off" /\ pc' = "off" /\ Reset /\ UNCHANGED files

\* Start has returned an error: run returns without Stop.
FailStart == pc' = "exit" /\ UNCHANGED <<files, tls, up, rest, proxy>>

-----------------------------------------------------------------------------
(* Start                                                                    *)

Run == pc = "off" /\ pc' = "db" /\ UNCHANGED <<files, tls, up, rest, proxy>>

\* A part is started and the next step is taken, or Start fails.
Starts(here, part, next) ==
    /\ pc = here
    /\ \/ FailStart
       \/ /\ pc' = next /\ up' = up \union {part}
          /\ UNCHANGED <<files, tls, rest, proxy>>

StartDB == Starts("db", "db", "challenger")
StartChallenger == Starts("challenger", "challenger", "hashmail")
createHashMailServer == Starts("hashmail", "hashmail", "proxy")

\* proxy.UpdateServices: the services are prepared, each with its pricer, and
\* the transport to the backends is made anew.
Prepare(s) == pool' = s /\ pricers' = pricers \union s

createProxy ==
    /\ pc = "proxy"
    /\ \/ FailStart
       \/ /\ pc' = "tls"
          /\ \E s \in Configs : services' = s /\ Prepare(s)
          /\ UNCHANGED <<files, tls, up, rest>>

UpdateServices ==
    /\ pc = "wait"
    /\ \E s \in Configs : Prepare(s)
    /\ UNCHANGED <<pc, files, tls, up, rest, services>>

\* The servers are started in goroutines, and Start returns.  The controller
\* of the onion service is stopped by a deferred call when it does.
StartServers ==
    /\ \/ /\ pc = "https" /\ pc' = (IF V3 THEN "tor" ELSE "wait")
          /\ server' = [server EXCEPT !["https"] = "starting"]
          /\ UNCHANGED up
       \/ /\ pc = "tor" /\ pc' = "onion"
          /\ up' = up \union {"onion"} /\ UNCHANGED server
       \/ /\ pc = "onion" /\ pc' = "wait"
          /\ server' = [server EXCEPT !["tor"] = "starting"]
          /\ up' = up \ {"onion"}
    /\ UNCHANGED <<files, tls, closed, quit, stopped, proxy>>
initTorListenerFails == pc = "tor" /\ FailStart

-----------------------------------------------------------------------------
(* getTLSConfig                                                             *)

Pair == [by |-> "own", pair |-> pairs + 1, old |-> FALSE]
File(here, next, c, k, n) ==
    /\ pc = here /\ pc' = next
    /\ cert' = c /\ key' = k /\ pairs' = n
    /\ UNCHANGED <<tls, up, rest, proxy>>

Generate ==
    /\ pc = "tls"
    /\ IF cert = NoCert /\ key = 0
       THEN pairs < MaxPairs /\ pc' = "write cert"
       ELSE pc' = "load"
    /\ UNCHANGED <<files, tls, up, rest, proxy>>

\* WriteCertPair, when the pair is made and when it is renewed.
WriteCert(here, next) == File(here, next, Pair, key, pairs)
WriteKey(here, next) == File(here, next, cert, pairs + 1, pairs + 1)

\* LoadCert refuses a missing file and a key that is not the certificate's.
Loads == cert # NoCert /\ cert.pair = key

\* Deviation: whoever issued a certificate, it is renewed.
RenewsAny == cert.old

\* Only a certificate of aperture's own that is past half of its time.
Renews == cert.by = "own" /\ cert.old

LoadCert ==
    /\ pc = "load"
    /\ \/ ~Loads /\ FailStart
       \/ /\ Loads /\ tls' = cert
          /\ pc' = (IF Renews THEN "remove cert" ELSE "https")
          /\ UNCHANGED <<files, up, rest, proxy>>
RemoveCert ==
    pairs < MaxPairs /\ File("remove cert", "remove key", NoCert, key, pairs)
RemoveKey == File("remove key", "rewrite cert", cert, 0, pairs)

\* Deviation: the certificate data that was loaded first is served.
ReloadCertNot == tls

ReloadCert == cert

Reload ==
    /\ pc = "reload"
    /\ \/ ~Loads /\ FailStart
       \/ /\ Loads /\ tls' = ReloadCert /\ pc' = "https"
          /\ UNCHANGED <<files, up, rest, proxy>>

\* Each of the file operations may fail.  WriteCertPair takes the certificate
\* back when the key cannot be written.
FileFails ==
    /\ pc \in {"write cert", "remove cert", "remove key", "rewrite cert"}
    /\ FailStart
WriteKeyFails ==
    /\ pc \in {"write key", "rewrite key"} /\ pc' = "exit"
    /\ cert' = NoCert
    /\ UNCHANGED <<key, pairs, tls, up, rest, proxy>>

getTLSConfig ==
    \/ FileFails \/ WriteKeyFails
    \/ Generate \/ LoadCert \/ RemoveCert \/ RemoveKey \/ Reload
    \/ WriteCert("write cert", "write key") \/ WriteKey("write key", "load")
    \/ WriteCert("rewrite cert", "rewrite key")
    \/ WriteKey("rewrite key", "reload")

\* Time passes, but no start takes half the validity of a certificate.  An
\* operator may put a pair of their own in place.
Age ==
    /\ pc \in {"off", "wait"} /\ cert # NoCert /\ ~cert.old
    /\ cert' = [cert EXCEPT !.old = TRUE]
    /\ UNCHANGED <<pc, key, pairs, tls, up, rest, proxy>>
Install ==
    /\ pc = "off" /\ pairs < MaxPairs
    /\ cert' = [by |-> "operator", pair |-> pairs + 1, old |-> FALSE]
    /\ key' = pairs + 1 /\ pairs' = pairs + 1
    /\ UNCHANGED <<pc, tls, up, rest, proxy>>

-----------------------------------------------------------------------------
(* The server goroutines                                                    *)

\* ListenAndServe: it serves, unless it was closed before; it returns when it
\* is closed, and may fail at any time.
Serve(s) ==
    /\ \/ server[s] = "starting" /\ s \notin closed
          /\ server' = [server EXCEPT ![s] = "serving"]
       \/ server[s] \in {"starting", "serving"}
          /\ server' = [server EXCEPT ![s] = "returned"]
    /\ UNCHANGED <<pc, files, tls, up, closed, quit, stopped, proxy>>
ReturnsOnClose(s) == s \in closed /\ Serve(s)

\* Deviation: the goroutine keeps the error to itself.
SendErrOnQuit(s) ==
    /\ server[s] = "returned" /\ quit
    /\ server' = [server EXCEPT ![s] = "done"]
    /\ UNCHANGED <<pc, files, tls, up, closed, quit, stopped, proxy>>

\* The select of the goroutine: run takes the error and goes on to Stop, or
\* quit is closed.
SendErr(s) ==
    /\ server[s] = "returned"
    /\ \/ pc = "wait" /\ pc' = "stop"
       \/ quit /\ UNCHANGED pc
    /\ server' = [server EXCEPT ![s] = "done"]
    /\ UNCHANGED <<files, tls, up, closed, quit, stopped, proxy>>

Interrupt ==
    /\ pc = "wait" /\ pc' = "stop"
    /\ UNCHANGED <<files, tls, up, rest, proxy>>

-----------------------------------------------------------------------------
(* Stop                                                                     *)

\* Deviation: the proxy is closed and its server forgotten.
CleanupForgets(part) == IF part = "tor" THEN {part} ELSE {}

\* What a step of Stop closes.
Closes(part) == IF part \in Server THEN {part} ELSE {}

\* Proxy.Close: the pricers of the services that the proxy knows.
ClosePricers == pricers \ services

StopNext ==
    LET part == StopOrder[stopped + 1] IN
    /\ pc = "stop" /\ stopped < Len(StopOrder)
    /\ stopped' = stopped + 1
    /\ up' = up \ {part}
    /\ closed' = closed \union Closes(part)
    /\ pricers' = IF part = "pricers" THEN ClosePricers ELSE pricers
    /\ quit' = (part = "quit")
    /\ UNCHANGED <<pc, files, tls, server, services, pool>>

\* wg.Wait, after which run returns and the process ends.
WgWait ==
    /\ pc = "stop" /\ stopped = Len(StopOrder)
    /\ \A s \in Server : server[s] \in {"none", "done"}
    /\ pc' = "exit"
    /\ UNCHANGED <<files, tls, up, rest, proxy>>

Start ==
    \/ Run \/ StartDB \/ StartChallenger \/ createHashMailServer \/ createProxy
    \/ getTLSConfig \/ StartServers \/ initTorListenerFails
Stop == StopNext \/ WgWait
Goroutine(s) == Serve(s) \/ SendErr(s)

Next ==
    \/ Start \/ Stop \/ UpdateServices \/ Interrupt \/ Kill \/ Age \/ Install
    \/ \E s \in Server : Goroutine(s)

Spec == Init /\ [][Next]_vars

\* The goroutines of the process run; a server that is closed returns; run's
\* select takes an error that is offered to it.
FairSpec ==
    /\ Spec /\ WF_vars(Stop)
    /\ \A s \in Server : WF_vars(ReturnsOnClose(s)) /\ WF_vars(SendErr(s))

-----------------------------------------------------------------------------
\* The comment in getTLSConfig: a certificate "that was passed to us [...] we
\* aren't going to try to replace it", old or not, whatever restarts.
ForeignCertKept ==
    [][cert.by = "operator" => cert' \in {cert, [cert EXCEPT !.old = TRUE]}
                               \/ Install]_vars

\* What a server is configured with is the pair in the files, the key is the
\* certificate's, and no certificate of aperture's own was past half of its
\* time when Start looked at it, also after a renewal and after crashes in one.
ServedIsStored ==
    pc \in {"https", "tor", "onion", "wait"} =>
        /\ tls.pair = cert.pair /\ key = cert.pair
        /\ tls.by = "own" => ~tls.old

\* Stop returns, or the process is killed: no server goroutine waits for a
\* reader of errChan that is gone, nor wg for a goroutine that serves on.
StopTerminates == pc = "stop" ~> pc \in {"exit", "off"}

\* When a server gives up, the process stops serving and ends.
ServerErrorEndsRun ==
    \A s \in Server : server[s] = "returned" /\ pc = "wait"
                          ~> pc \in {"exit", "off"}

\* "This server will only be reached through the onion services": while it
\* serves, there is one.
OnionWhileServing == pc = "wait" /\ server["tor"] = "serving" => "onion" \in up

\* "UpdateServices re-configures the proxy to use a new set of backend
\* services": the services it matches are the ones its transport is made for.
UpdateTakesEffect == pc = "wait" => services = pool

\* "Close cleans up the Proxy by closing any remaining open connections."
CloseClosesAll == pc = "exit" /\ stopped = Len(StopOrder) => pricers = {}

\* "we want to create self-signed TLS certs and save them at the specified
\* location (if they don't already exist)": a start finds a pair that it can
\* load, or none.
FilesUsable == pc = "tls" => Loads \/ (cert = NoCert /\ key = 0)
=============================================================================
