----------------------------- MODULE Transport ------------------------------
(***************************************************************************)
(* The credential-injecting http.RoundTripper (src/httpauth/transport.go): *)
(* its configuration, and what RoundTrip does with a request while the     *)
(* owner of the token truncates, rotates, seals, wipes or destroys it and  *)
(* the client above follows redirects.                                     *)
(*                                                                         *)
(* A host is a pair <<name, spelling>>: two spellings of a name differ in  *)
(* case only.  The token's bytes are its generation (CopyIn begins a new   *)
(* one) and its length.                                                    *)
(***************************************************************************)
EXTENDS Integers, FiniteSets

CONSTANTS
  Trips,            \* requests of the client, each a chain of redirects
  Hosts,            \* hosts a URL or an entry may name
  Options,          \* option lists the constructors are called with
  TokenLen,         \* the length the token is created with
  MaxGen,           \* CopyIn is called this often
  MaxHops,          \* redirects the client follows
  None

ASSUME TransportAssumption ==
  /\ TokenLen \in Nat \ {0} /\ MaxGen \in Nat /\ MaxHops \in Nat
  /\ None \notin Options
  /\ \A o \in Options :
       /\ o.hosts \subseteq [scheme : {"", "http", "https", "ftp"},
                             host : Hosts \cup {None}, path : BOOLEAN]
       /\ o.anyHost \in BOOLEAN /\ o.insecure \in BOOLEAN /\ o.token \in BOOLEAN

VARIABLES
  t,                \* None, or a Transport; token says that it has one
  given,            \* the options t was built with
  token,            \* the SecureBuffer
  trip,             \* each request's place in RoundTrip
  wire              \* what has been handed to the base transport

transportVars == <<t, given, token, trip, wire>>

Schemes == {"http", "https", "other"}
URLs == [scheme : Schemes, host : Hosts] \cup {None}
Values == [gen : 0 .. MaxGen, len : 0 .. TokenLen, pad : 0 .. TokenLen]
Credentials == Values \cup {None}

TransportInit ==
  /\ t = None /\ given = None
  /\ token = [state |-> "live", gen |-> 0, len |-> TokenLen]
  /\ trip = [r \in Trips |->
       [pc |-> "idle", url |-> None, n |-> 0, value |-> None, header |-> None,
        body |-> "none", response |-> None, hops |-> 0]]
  /\ wire = {}

-----------------------------------------------------------------------------
(* Construction *)

\* An entry is usable if its scheme is absent, http or https and what is left
\* is a bare host.
parseHostEntry(e) == e.scheme # "ftp" /\ e.host # None /\ ~e.path

\* build: one host decision, not two, and every entry valid.
build(o) ==
  IF /\ o.token
     /\ (o.hosts # {}) # o.anyHost
     /\ \A e \in o.hosts : parseHostEntry(e)
  THEN [hosts |-> {[scheme |-> e.scheme, host |-> e.host] : e \in o.hosts},
        anyHost |-> o.anyHost, insecure |-> o.insecure, token |-> TRUE]
  ELSE None

\* A transport is built, or the zero value is used as one.
New ==
  /\ t = None
  /\ \E o \in Options : t' = build(o) /\ given' = o
  /\ UNCHANGED <<token, trip, wire>>

NewZero ==
  /\ t = None
  /\ t' = [hosts |-> {}, anyHost |-> FALSE, insecure |-> FALSE, token |-> FALSE]
  /\ given' = None
  /\ UNCHANGED <<token, trip, wire>>

-----------------------------------------------------------------------------
(* The token's owner *)

TokenIs(state, next) == token.state \in state /\ token' = next /\ UNCHANGED <<t, given, trip, wire>>

\* The freed tail is wiped; to the same length it changes nothing.
Truncate == \E n \in 0 .. token.len - 1 : TokenIs({"live"}, [token EXCEPT !.len = n])
CopyIn == token.gen < MaxGen /\ TokenIs({"live"}, [token EXCEPT !.gen = @ + 1])
Seal == TokenIs({"live"}, [token EXCEPT !.state = "sealed"])
Unseal == TokenIs({"sealed"}, [token EXCEPT !.state = "live"])
WipeAllSecrets == TokenIs({"live", "sealed"}, [token EXCEPT !.state = "wiped"])
Destroy == TokenIs({"live", "sealed", "wiped"}, [token EXCEPT !.state = "destroyed", !.len = 0])

OwnToken == Truncate \/ CopyIn \/ Seal \/ Unseal \/ WipeAllSecrets \/ Destroy

-----------------------------------------------------------------------------
(* RoundTrip *)

EqualFold(a, b) == a[1] = b[1]

\* decide: inject, forward untouched, or refuse.
decide(url) ==
  LET secure == url # None /\ url.scheme = "https"
      opted == secure \/ t.insecure
      matching == {e \in t.hosts : EqualFold(url.host, e.host)}
  IN CASE t.anyHost -> IF opted THEN "inject" ELSE "refuse"
       [] ~t.anyHost /\ url = None -> "forward"
       [] ~t.anyHost /\ url # None ->
            IF \E e \in matching : e.scheme = url.scheme \/ (e.scheme = "" /\ opted)
            THEN "inject"
            ELSE IF matching # {} THEN "refuse" ELSE "forward"

\* RoundTrip returns an error with the body closed and nothing sent.
closeBody(body) == IF body = "open" THEN "closed" ELSE body
Refuse(r) ==
  trip' = [trip EXCEPT ![r].pc = "returned", ![r].body = closeBody(@),
                       ![r].response = None]

\* The client hands a request down, perhaps to the nil a constructor that
\* refused has returned; a body-less one has nothing to close.  A nil request
\* is answered with an error at once.
Call(r) ==
  /\ trip[r].pc = "idle"
  /\ \/ \E u \in URLs, b \in {"none", "open"} :
          trip' = [trip EXCEPT ![r].pc = "called", ![r].url = u, ![r].body = b]
     \/ trip' = [trip EXCEPT ![r].pc = "returned"]
  /\ UNCHANGED <<t, given, token, wire>>

\* The checks before anything is read: no Transport, no token, and the
\* filter's decision.
RoundTrip(r) ==
  /\ trip[r].pc = "called"
  /\ IF t = None \/ ~t.token \/ decide(trip[r].url) = "refuse"
     THEN Refuse(r) /\ UNCHANGED wire
     ELSE IF decide(trip[r].url) = "forward"
     THEN /\ trip' = [trip EXCEPT ![r].pc = "base"]
          /\ wire' = wire \cup {[url |-> trip[r].url, value |-> trip[r].header]}
     ELSE trip' = [trip EXCEPT ![r].pc = "measure"] /\ UNCHANGED wire
  /\ UNCHANGED <<t, given, token>>

\* headerValue and basicValue size their scratch by Len, 0 for a destroyed token.
Measure(r) ==
  /\ trip[r].pc = "measure"
  /\ trip' = [trip EXCEPT ![r].pc = "copy", ![r].n = token.len]
  /\ UNCHANGED <<t, given, token, wire>>

\* copyToken without the look at CopyOut's count: the scratch's tail is zeros.
copyTokenUncounted(r) ==
  /\ trip[r].pc = "copy"
  /\ IF trip[r].n = 0 \/ token.state # "live" \/ token.len = 0
     THEN Refuse(r)
     ELSE trip' = [trip EXCEPT ![r].pc = "send",
            ![r].value = [gen |-> token.gen, len |-> token.len,
                          pad |-> trip[r].n - token.len]]
  /\ UNCHANGED <<t, given, token, wire>>

\* copyToken: a token that is empty, not live, or no longer n bytes long is an
\* error; else the finished value outlives the wiped scratch.
copyToken(r) ==
  /\ trip[r].pc = "copy"
  /\ IF trip[r].n = 0 \/ token.state # "live" \/ token.len < trip[r].n
     THEN Refuse(r)
     ELSE trip' = [trip EXCEPT ![r].pc = "send",
            ![r].value = [gen |-> token.gen, len |-> trip[r].n, pad |-> 0]]
  /\ UNCHANGED <<t, given, token, wire>>

\* The header is set on a clone; the clone goes to the base transport.
Send(r) ==
  /\ trip[r].pc = "send"
  /\ wire' = wire \cup {[url |-> trip[r].url, value |-> trip[r].value]}
  /\ trip' = [trip EXCEPT ![r].pc = "base", ![r].value = None]
  /\ UNCHANGED <<t, given, token>>

\* The base transport has closed the body; a response names the caller's request.
BaseReturns(r) ==
  /\ trip[r].pc = "base"
  /\ \E ok \in BOOLEAN :
       trip' = [trip EXCEPT ![r].pc = "returned", ![r].body = closeBody(@),
                  ![r].response = IF ok THEN [header |-> trip[r].header] ELSE None]
  /\ UNCHANGED <<t, given, token, wire>>

\* The client follows a redirect with the headers of the request it answered.
Redirect(r) ==
  /\ trip[r].pc = "returned" /\ trip[r].response # None /\ trip[r].hops < MaxHops
  /\ \E u \in URLs \ {None} :
       trip' = [trip EXCEPT ![r].pc = "called", ![r].url = u,
                  ![r].header = trip[r].response.header,
                  ![r].body = "open", ![r].response = None,
                  ![r].hops = @ + 1]
  /\ UNCHANGED <<t, given, token, wire>>

TransportNext ==
  \/ New \/ NewZero \/ OwnToken
  \/ \E r \in Trips :
       Call(r) \/ RoundTrip(r) \/ Measure(r) \/ copyToken(r) \/ Send(r)
         \/ BaseReturns(r) \/ Redirect(r)

-----------------------------------------------------------------------------

\* What the options promise: https to a host they name (or to any), cleartext
\* only where one of them opts in.
Promised(o, url) ==
  LET named(s) == \E e \in o.hosts :
                    e.scheme = s /\ url # None /\ EqualFold(e.host, url.host)
      https == url # None /\ url.scheme = "https"
  IN \/ https /\ (o.anyHost \/ named("") \/ named("https"))
     \/ ~https /\ o.insecure /\ (o.anyHost \/ named(""))
     \/ url # None /\ url.scheme = "http" /\ named("http")

\* Whatever the client is redirected to and whatever happens to the token
\* meanwhile, a credential goes only where the options admit it, whole and
\* unpadded; no request or response the caller holds carries it; and every
\* RoundTrip that has returned has closed the body.
CredentialStaysHome ==
  /\ trip \in [Trips -> [pc : {"idle", "called", "measure", "copy", "send",
                               "base", "returned"},
                         url : URLs, n : 0 .. TokenLen, value : Credentials,
                         header : {None}, body : {"none", "open", "closed"},
                         response : {None} \cup [header : {None}],
                         hops : 0 .. MaxHops]]
  /\ \A m \in wire : m.value # None =>
       /\ given # None /\ Promised(given, m.url)
       /\ m.value.len > 0 /\ m.value.pad = 0
  /\ \A r \in Trips : trip[r].pc = "returned" => trip[r].body # "open"
=============================================================================
