--------------------------- MODULE ExposureProofs ---------------------------
(***************************************************************************)
(* Proofs about the places where a copy of a secret could come out: the    *)
(* requests of the credential-injecting transport, the records of the      *)
(* redacting log handler, the registers and the dead stack of a Scrub      *)
(* window, and the buffers and heap copies of a call that makes a key.     *)
(***************************************************************************)
EXTENDS Transport, RedactHandler, ScrubWindow, KeyCalls, WellFoundedInduction,
        SequenceTheorems, TLAPS

-----------------------------------------------------------------------------
(* Transport. *)

TransportSpec == TransportInit /\ [][TransportNext]_transportVars

TripRecords ==
  [pc : {"idle", "called", "measure", "copy", "send", "base", "returned"},
   url : URLs, n : 0 .. TokenLen, value : Credentials, header : {None},
   body : {"none", "open", "closed"}, response : {None} \cup [header : {None}],
   hops : 0 .. MaxHops]

TransportTypeOK ==
  /\ token \in [state : {"live", "sealed", "wiped", "destroyed"}, gen : 0 .. MaxGen, len : 0 .. TokenLen]
  /\ trip \in [Trips -> TripRecords]

\* A transport with a token is what build made of the options.
BuiltInv ==
  t # None /\ t.token => given \in Options /\ t = build(given)

\* A request is past the filter only if the options promise its host the credential,
\* and it carries a value only between the copy and the base transport.
TripInv ==
  \A r \in Trips :
    /\ trip[r].pc \in {"measure", "copy", "send"} => t # None /\ t.token /\ Promised(given, trip[r].url)
    /\ trip[r].pc = "send" => trip[r].value \in Values /\ trip[r].value.len > 0 /\ trip[r].value.pad = 0
    /\ trip[r].pc \in {"idle", "returned"} => trip[r].body # "open"

\* What has been sent was promised; before there is a transport nothing has.
WireInv ==
  /\ wire # {} => t # None
  /\ \A m \in wire : m.value # None =>
       /\ given # None /\ Promised(given, m.url)
       /\ m.value.len > 0 /\ m.value.pad = 0

TransportInv == TransportTypeOK /\ BuiltInv /\ TripInv /\ WireInv

\* decide lets a credential through only to where the options promise it.
LEMMA Decide ==
  ASSUME t # None, t.token, BuiltInv, NEW url \in URLs, decide(url) = "inject"
  PROVE  given # None /\ Promised(given, url)
<1>1. given \in Options /\ t = build(given) /\ given # None
  BY TransportAssumption DEF BuiltInv
<1> DEFINE o == given
<1>2. /\ o.hosts \subseteq [scheme : {"", "http", "https", "ftp"}, host : Hosts \cup {None}, path : BOOLEAN]
      /\ o.anyHost \in BOOLEAN /\ o.insecure \in BOOLEAN
  BY <1>1, TransportAssumption
<1>3. /\ \A e \in o.hosts : parseHostEntry(e)
      /\ t = [hosts |-> {[scheme |-> e.scheme, host |-> e.host] : e \in o.hosts},
              anyHost |-> o.anyHost, insecure |-> o.insecure, token |-> TRUE]
  BY <1>1 DEF build
<1>4. /\ t.hosts = {[scheme |-> e.scheme, host |-> e.host] : e \in o.hosts}
      /\ t.anyHost = o.anyHost /\ t.insecure = o.insecure
  BY <1>3
<1> HIDE DEF o
<1> DEFINE secure == url # None /\ url.scheme = "https"
<1>5. CASE o.anyHost
  <2>1. secure \/ o.insecure
    BY <1>2, <1>4, <1>5 DEF decide
  <2>2. Promised(o, url)
    BY <1>5, <2>1 DEF Promised
  <2>3. QED
    BY <1>1, <2>2 DEF o
<1>6. CASE ~o.anyHost
  <2>1. url # None /\ url \in [scheme : Schemes, host : Hosts]
    BY <1>4, <1>6 DEF decide, URLs
  <2>2. PICK x \in t.hosts : EqualFold(url.host, x.host) /\ (x.scheme = url.scheme \/ (x.scheme = "" /\ (secure \/ o.insecure)))
    BY <1>2, <1>4, <1>6, <2>1 DEF decide
  <2>3. PICK e \in o.hosts : x = [scheme |-> e.scheme, host |-> e.host]
    BY <1>4
  <2>3a. x.scheme = e.scheme /\ x.host = e.host
    BY <2>3
  <2>4. e.scheme \in {"", "http", "https"} /\ url.scheme \in {"http", "https", "other"}
    BY <1>2, <1>3, <2>1 DEF parseHostEntry, Schemes
  <2>5. EqualFold(e.host, url.host)
    BY <2>2, <2>3a DEF EqualFold
  <2>6. Promised(o, url)
    <3>1. CASE e.scheme = url.scheme
      BY <2>1, <2>4, <2>5, <3>1 DEF Promised
    <3>2. CASE e.scheme = "" /\ (secure \/ o.insecure)
      BY <2>1, <2>5, <3>2 DEF Promised
    <3>3. QED
      BY <2>2, <2>3a, <3>1, <3>2
  <2>7. QED
    BY <1>1, <2>6 DEF o
<1>7. QED
  BY <1>2, <1>5, <1>6

\* A trip's step that sends nothing.
LEMMA TripStep ==
  ASSUME TransportInv, NEW r \in Trips, NEW x \in TripRecords, trip' = [trip EXCEPT ![r] = x],
         UNCHANGED <<t, given, token, wire>>,
         x.pc \in {"measure", "copy", "send"} => t # None /\ t.token /\ Promised(given, x.url),
         x.pc = "send" => x.value \in Values /\ x.value.len > 0 /\ x.value.pad = 0,
         x.pc \in {"idle", "returned"} => x.body # "open"
  PROVE  TransportInv'
<1>1. TransportTypeOK'
  BY DEF TransportInv, TransportTypeOK
<1>2. BuiltInv' /\ WireInv'
  BY DEF TransportInv, BuiltInv, WireInv, build, parseHostEntry, Promised, EqualFold
<1>3. \A q \in Trips : trip'[q] = IF q = r THEN x ELSE trip[q]
  BY DEF TransportInv, TransportTypeOK
<1>4. TripInv'
  <2>1. \A u : Promised(given', u) = Promised(given, u)
    OBVIOUS
  <2>2. SUFFICES ASSUME NEW q \in Trips
                 PROVE  /\ trip'[q].pc \in {"measure", "copy", "send"} => t' # None /\ t'.token /\ Promised(given', trip'[q].url)
                        /\ trip'[q].pc = "send" => trip'[q].value \in Values /\ trip'[q].value.len > 0 /\ trip'[q].value.pad = 0
                        /\ trip'[q].pc \in {"idle", "returned"} => trip'[q].body # "open"
    BY <2>2 DEF TripInv, Promised, EqualFold, Values
  <2>3. CASE q = r
    BY <1>3, <2>1, <2>3
  <2>4. CASE q # r
    BY <1>3, <2>1, <2>4 DEF TransportInv, TripInv
  <2>5. QED
    BY <2>3, <2>4
<1>5. QED
  BY <1>1, <1>2, <1>4 DEF TransportInv

\* ... and one that hands m to the base transport.
LEMMA WireStep ==
  ASSUME TransportInv, NEW r \in Trips, NEW x \in TripRecords, trip' = [trip EXCEPT ![r] = x],
         UNCHANGED <<t, given, token>>, x.pc = "base", t # None,
         NEW m, wire' = wire \cup {m},
         m.value # None => /\ given # None /\ Promised(given, m.url)
                           /\ m.value.len > 0 /\ m.value.pad = 0
  PROVE  TransportInv'
<1>1. TransportTypeOK'
  BY DEF TransportInv, TransportTypeOK
<1>2. BuiltInv'
  BY DEF TransportInv, BuiltInv, build, parseHostEntry
<1>3. \A q \in Trips : trip'[q] = IF q = r THEN x ELSE trip[q]
  BY DEF TransportInv, TransportTypeOK
<1>4. TripInv'
  <2>1. \A u : Promised(given', u) = Promised(given, u)
    OBVIOUS
  <2>2. SUFFICES ASSUME NEW q \in Trips
                 PROVE  /\ trip'[q].pc \in {"measure", "copy", "send"} => t' # None /\ t'.token /\ Promised(given', trip'[q].url)
                        /\ trip'[q].pc = "send" => trip'[q].value \in Values /\ trip'[q].value.len > 0 /\ trip'[q].value.pad = 0
                        /\ trip'[q].pc \in {"idle", "returned"} => trip'[q].body # "open"
    BY <2>2 DEF TripInv, Promised, EqualFold, Values
  <2>3. CASE q = r
    BY <1>3, <2>1, <2>3
  <2>4. CASE q # r
    BY <1>3, <2>1, <2>4 DEF TransportInv, TripInv
  <2>5. QED
    BY <2>3, <2>4
<1>5. \A w \in wire' : w.value # None =>
        given # None /\ Promised(given, w.url) /\ w.value.len > 0 /\ w.value.pad = 0
  BY DEF TransportInv, WireInv
<1>6. WireInv'
  BY <1>5 DEF WireInv, Promised, EqualFold
<1>7. QED
  BY <1>1, <1>2, <1>4, <1>6 DEF TransportInv

\* Construction and the token's owner.
LEMMA OwnerStep ==
  ASSUME TransportInv
  PROVE  New \/ NewZero \/ OwnToken => TransportInv'
<1> USE DEF TransportInv
<1>1. ASSUME New \/ NewZero PROVE TransportInv'
  <2>1. t = None /\ UNCHANGED <<token, trip, wire>> /\ wire = {}
        /\ \A r \in Trips : trip[r].pc \notin {"measure", "copy", "send"}
    BY <1>1 DEF New, NewZero, WireInv, TripInv, TransportTypeOK
  <2>2. TransportTypeOK'
    BY <2>1 DEF TransportTypeOK
  <2>3. t'.token => given' \in Options /\ t' = build(given')
    <3>1. CASE New
      BY <3>1 DEF New
    <3>2. CASE NewZero
      BY <3>2 DEF NewZero
    <3>3. QED
      BY <1>1, <3>1, <3>2
  <2>4. BuiltInv'
    BY <2>3 DEF BuiltInv, build, parseHostEntry
  <2>5. QED
    BY <2>1, <2>2, <2>4 DEF TripInv, WireInv
<1>2. ASSUME OwnToken PROVE TransportInv'
  <2>1. UNCHANGED <<t, given, trip, wire>>
    BY <1>2 DEF OwnToken, Truncate, CopyIn, Seal, Unseal, WipeAllSecrets, Destroy, TokenIs
  <2>2. token' \in [state : {"live", "sealed", "wiped", "destroyed"}, gen : 0 .. MaxGen, len : 0 .. TokenLen]
    <3>0. 0 \in 0 .. TokenLen /\ token.len \in 0 .. TokenLen /\ token.gen \in 0 .. MaxGen /\ MaxGen \in Nat /\ TokenLen \in Nat
      <4>1. MaxGen \in Nat /\ TokenLen \in Nat
        BY TransportAssumption
      <4>2. token.len \in 0 .. TokenLen /\ token.gen \in 0 .. MaxGen
        BY DEF TransportTypeOK
      <4>3. QED
        BY <4>1, <4>2
    <3>1. ASSUME NEW n \in 0 .. token.len - 1, token' = [token EXCEPT !.len = n]
          PROVE  token' \in [state : {"live", "sealed", "wiped", "destroyed"}, gen : 0 .. MaxGen, len : 0 .. TokenLen]
      <4>1. n \in 0 .. TokenLen
        BY <3>0
      <4>2. QED
        BY <3>1, <4>1 DEF TransportTypeOK
    <3>2. ASSUME token.gen < MaxGen, token' = [token EXCEPT !.gen = @ + 1]
          PROVE  token' \in [state : {"live", "sealed", "wiped", "destroyed"}, gen : 0 .. MaxGen, len : 0 .. TokenLen]
      <4>1. token.gen + 1 \in 0 .. MaxGen
        BY <3>0, <3>2
      <4>2. QED
        BY <3>2, <4>1 DEF TransportTypeOK
    <3>3. QED
      BY <1>2, <3>0, <3>1, <3>2
      DEF OwnToken, Truncate, CopyIn, Seal, Unseal, WipeAllSecrets, Destroy, TokenIs, TransportTypeOK
  <2>3. QED
    BY <2>1, <2>2, ZenonT(40) DEF TransportTypeOK, BuiltInv, TripInv, WireInv, build, parseHostEntry, Promised, EqualFold
<1>3. QED
  BY <1>1, <1>2

\* Every step of a request, from the client's call to the redirect that starts it again.
LEMMA RequestStep ==
  ASSUME TransportInv, NEW r \in Trips
  PROVE  Call(r) \/ RoundTrip(r) \/ Measure(r) \/ copyToken(r) \/ Send(r)
           \/ BaseReturns(r) \/ Redirect(r) => TransportInv'
<1> USE DEF TransportInv
<1> DEFINE y == trip[r]
<1>1. /\ y \in TripRecords /\ token.len \in 0 .. TokenLen /\ token.gen \in 0 .. MaxGen
      /\ trip \in [Trips -> TripRecords]
  BY DEF TransportTypeOK
<1>2. TokenLen \in Nat /\ MaxGen \in Nat /\ MaxHops \in Nat /\ 0 \in 0 .. TokenLen
  <2>1. TokenLen \in Nat /\ MaxGen \in Nat /\ MaxHops \in Nat
    BY TransportAssumption
  <2>2. QED
    BY <2>1
<1>3. /\ y.pc \in {"measure", "copy", "send"} => t # None /\ t.token /\ Promised(given, y.url)
      /\ y.pc = "send" => y.value \in Values /\ y.value.len > 0 /\ y.value.pad = 0
  BY DEF TripInv
<1>14. y.pc = "idle" => y.body # "open"
  BY DEF TripInv
<1>4. closeBody(y.body) \in {"none", "closed"}
  BY <1>1 DEF closeBody, TripRecords
<1>5. None \in Credentials /\ None \in URLs
  BY DEF Credentials, URLs
<1>6. ASSUME Refuse(r), UNCHANGED <<t, given, token, wire>>
      PROVE  TransportInv'
  <2> DEFINE x == [y EXCEPT !.pc = "returned", !.body = closeBody(@), !.response = None]
  <2>1. x \in TripRecords /\ x.pc = "returned" /\ x.body # "open"
    BY <1>1, <1>4 DEF TripRecords
  <2>2. trip' = [trip EXCEPT ![r] = x]
    BY <1>1, <1>6 DEF Refuse
  <2> HIDE DEF x
  <2>3. QED
    BY <1>3, <1>6, <2>1, <2>2, TripStep
<1>7. ASSUME Call(r) PROVE TransportInv'
  <2>1. y.pc = "idle" /\ UNCHANGED <<t, given, token, wire>>
    BY <1>7 DEF Call
  <2>2. ASSUME NEW u \in URLs, NEW b \in {"none", "open"},
               trip' = [trip EXCEPT ![r].pc = "called", ![r].url = u, ![r].body = b]
        PROVE  TransportInv'
    <3> DEFINE x == [y EXCEPT !.pc = "called", !.url = u, !.body = b]
    <3>1. x \in TripRecords /\ x.pc = "called"
      BY <1>1 DEF TripRecords
    <3>2. trip' = [trip EXCEPT ![r] = x]
      BY <1>1, <2>2
    <3> HIDE DEF x
    <3>3. QED
      BY <2>1, <3>1, <3>2, TripStep
  <2>3. ASSUME trip' = [trip EXCEPT ![r].pc = "returned"] PROVE TransportInv'
    <3> DEFINE x == [y EXCEPT !.pc = "returned"]
    <3>1. x \in TripRecords /\ x.pc = "returned" /\ x.body # "open"
      BY <1>1, <1>14, <2>1 DEF TripRecords
    <3>2. trip' = [trip EXCEPT ![r] = x]
      BY <1>1, <2>3
    <3> HIDE DEF x
    <3>3. QED
      BY <2>1, <3>1, <3>2, TripStep
  <2>4. QED
    BY <1>7, <2>2, <2>3 DEF Call
<1>8. ASSUME RoundTrip(r) PROVE TransportInv'
  <2>1. y.pc = "called" /\ UNCHANGED <<t, given, token>>
    BY <1>8 DEF RoundTrip
  <2>2. CASE t = None \/ ~t.token \/ decide(y.url) = "refuse"
    BY <1>6, <1>8, <2>1, <2>2 DEF RoundTrip
  <2>3. CASE ~(t = None \/ ~t.token \/ decide(y.url) = "refuse") /\ decide(y.url) = "forward"
    <3> DEFINE x == [y EXCEPT !.pc = "base"]
    <3>1. x \in TripRecords /\ x.pc = "base"
      BY <1>1 DEF TripRecords
    <3>2. trip' = [trip EXCEPT ![r] = x]
      BY <1>1, <1>8, <2>3 DEF RoundTrip
    <3> HIDE DEF x
    <3> DEFINE m == [url |-> y.url, value |-> y.header]
    <3>3. wire' = wire \cup {m}
      BY <1>8, <2>3 DEF RoundTrip
    <3>4. m.value = None
      BY <1>1 DEF TripRecords
    <3> HIDE DEF m
    <3>5. QED
      BY <2>1, <2>3, <3>1, <3>2, <3>3, <3>4, WireStep
  <2>4. CASE ~(t = None \/ ~t.token \/ decide(y.url) = "refuse") /\ decide(y.url) # "forward"
    <3> DEFINE x == [y EXCEPT !.pc = "measure"]
    <3>1. x \in TripRecords /\ x.pc = "measure" /\ x.url = y.url
      BY <1>1 DEF TripRecords
    <3>2. trip' = [trip EXCEPT ![r] = x] /\ UNCHANGED wire
      BY <1>1, <1>8, <2>4 DEF RoundTrip
    <3>3. decide(y.url) = "inject"
      BY <2>4, <2>1 DEF decide
    <3>4. t.token /\ Promised(given, y.url)
      <4>1. y.url \in URLs
        BY <1>1 DEF TripRecords
      <4>2. QED
        BY <2>1, <2>4, <3>3, <4>1, Decide
    <3> HIDE DEF x
    <3>5. QED
      BY <2>1, <2>4, <3>1, <3>2, <3>4, TripStep
  <2>5. QED
    BY <2>2, <2>3, <2>4
<1>9. ASSUME Measure(r) PROVE TransportInv'
  <2> DEFINE x == [y EXCEPT !.pc = "copy", !.n = token.len]
  <2>1. x \in TripRecords /\ x.pc = "copy" /\ x.url = y.url
    BY <1>1 DEF TripRecords
  <2>2. trip' = [trip EXCEPT ![r] = x] /\ y.pc = "measure" /\ UNCHANGED <<t, given, token, wire>>
    BY <1>1, <1>9 DEF Measure
  <2> HIDE DEF x
  <2>3. QED
    BY <1>3, <2>1, <2>2, TripStep
<1>10. ASSUME copyToken(r) PROVE TransportInv'
  <2>1. y.pc = "copy" /\ UNCHANGED <<t, given, token, wire>>
    BY <1>10 DEF copyToken
  <2>2. CASE y.n = 0 \/ token.state # "live" \/ token.len < y.n
    BY <1>6, <1>10, <2>1, <2>2 DEF copyToken
  <2>3. CASE ~(y.n = 0 \/ token.state # "live" \/ token.len < y.n)
    <3> DEFINE v == [gen |-> token.gen, len |-> y.n, pad |-> 0]
               x == [y EXCEPT !.pc = "send", !.value = v]
    <3>1. y.n \in 0 .. TokenLen
      BY <1>1 DEF TripRecords
    <3>2. v \in Values /\ v.len > 0 /\ v.pad = 0
      BY <1>1, <1>2, <2>3, <3>1 DEF Values
    <3>3. trip' = [trip EXCEPT ![r] = x]
      BY <1>1, <1>10, <2>3 DEF copyToken
    <3> HIDE DEF v
    <3>4. x \in TripRecords /\ x.pc = "send" /\ x.url = y.url /\ x.value = v
      BY <1>1, <3>2 DEF TripRecords, Credentials
    <3> HIDE DEF x
    <3>5. QED
      BY <1>3, <2>1, <3>2, <3>3, <3>4, TripStep
  <2>4. QED
    BY <2>2, <2>3
<1>11. ASSUME Send(r) PROVE TransportInv'
  <2>1. y.pc = "send" /\ UNCHANGED <<t, given, token>>
    BY <1>11 DEF Send
  <2> DEFINE x == [y EXCEPT !.pc = "base", !.value = None]
             m == [url |-> y.url, value |-> y.value]
  <2>2. x \in TripRecords /\ x.pc = "base"
    BY <1>1, <1>5 DEF TripRecords
  <2>3. trip' = [trip EXCEPT ![r] = x] /\ wire' = wire \cup {m}
    BY <1>1, <1>11 DEF Send
  <2>4. m.url = y.url /\ m.value = y.value
    OBVIOUS
  <2>5. given # None
    BY <1>3, <2>1, TransportAssumption DEF BuiltInv
  <2> HIDE DEF x, m
  <2>6. QED
    BY <1>3, <2>1, <2>2, <2>3, <2>4, <2>5, WireStep
<1>12. ASSUME BaseReturns(r) PROVE TransportInv'
  <2>1. y.pc = "base" /\ UNCHANGED <<t, given, token, wire>>
    BY <1>12 DEF BaseReturns
  <2>2. PICK ok \in BOOLEAN :
          trip' = [trip EXCEPT ![r].pc = "returned", ![r].body = closeBody(@),
                     ![r].response = IF ok THEN [header |-> trip[r].header] ELSE None]
    BY <1>12 DEF BaseReturns
  <2> DEFINE s == IF ok THEN [header |-> y.header] ELSE None
             x == [y EXCEPT !.pc = "returned", !.body = closeBody(@), !.response = s]
  <2>3. trip' = [trip EXCEPT ![r] = x]
    BY <1>1, <2>2
  <2>4. s \in {None} \cup [header : {None}]
    BY <1>1 DEF TripRecords
  <2> HIDE DEF s
  <2>5. x \in TripRecords /\ x.pc = "returned" /\ x.body # "open"
    BY <1>1, <1>4, <2>4 DEF TripRecords
  <2> HIDE DEF x
  <2>6. QED
    BY <1>3, <2>1, <2>3, <2>5, TripStep
<1>13. ASSUME Redirect(r) PROVE TransportInv'
  <2>1. y.pc = "returned" /\ y.response # None /\ y.hops < MaxHops /\ UNCHANGED <<t, given, token, wire>>
    BY <1>13 DEF Redirect
  <2>2. PICK u \in URLs \ {None} :
          trip' = [trip EXCEPT ![r].pc = "called", ![r].url = u,
                     ![r].header = trip[r].response.header,
                     ![r].body = "open", ![r].response = None, ![r].hops = @ + 1]
    BY <1>13 DEF Redirect
  <2> DEFINE x == [y EXCEPT !.pc = "called", !.url = u, !.header = y.response.header,
                            !.body = "open", !.response = None, !.hops = @ + 1]
  <2>3. trip' = [trip EXCEPT ![r] = x]
    BY <1>1, <2>2
  <2>4. y.response.header = None
    BY <1>1, <2>1 DEF TripRecords
  <2>5. y.hops + 1 \in 0 .. MaxHops
    <3>1. y.hops \in 0 .. MaxHops
      BY <1>1 DEF TripRecords
    <3>2. QED
      BY <1>2, <2>1, <3>1
  <2>6. x \in TripRecords /\ x.pc = "called"
    BY <1>1, <2>4, <2>5 DEF TripRecords
  <2> HIDE DEF x
  <2>7. QED
    BY <1>3, <2>1, <2>3, <2>6, TripStep
<1>15. QED
  BY <1>7, <1>8, <1>9, <1>10, <1>11, <1>12, <1>13

\* The inductive invariant holds in every state of the transport, its owner and its clients.
THEOREM TransportInvariance == TransportSpec => []TransportInv
<1>1. TransportInit => TransportInv
  <2> SUFFICES ASSUME TransportInit PROVE TransportInv
    OBVIOUS
  <2>1. 0 \in 0 .. TokenLen /\ TokenLen \in 0 .. TokenLen /\ 0 \in 0 .. MaxGen /\ 0 \in 0 .. MaxHops
    <3>1. TokenLen \in Nat /\ MaxGen \in Nat /\ MaxHops \in Nat
      BY TransportAssumption
    <3>2. QED
      BY <3>1
  <2>2. token \in [state : {"live", "sealed", "wiped", "destroyed"}, gen : 0 .. MaxGen, len : 0 .. TokenLen]
    BY <2>1 DEF TransportInit
  <2>3. trip \in [Trips -> TripRecords]
    BY <2>1 DEF TransportInit, TripRecords, URLs, Credentials
  <2>4. \A r \in Trips : trip[r].pc = "idle" /\ trip[r].body = "none"
    BY DEF TransportInit
  <2>5. QED
    BY <2>2, <2>3, <2>4 DEF TransportInit, TransportInv, TransportTypeOK, BuiltInv, TripInv, WireInv
<1>2. TransportInv /\ [TransportNext]_transportVars => TransportInv'
  <2> SUFFICES ASSUME TransportInv, [TransportNext]_transportVars PROVE TransportInv'
    OBVIOUS
  <2>1. CASE New \/ NewZero \/ OwnToken
    BY <2>1, OwnerStep
  <2>2. CASE \E r \in Trips :
               Call(r) \/ RoundTrip(r) \/ Measure(r) \/ copyToken(r) \/ Send(r)
                 \/ BaseReturns(r) \/ Redirect(r)
    BY <2>2, RequestStep
  <2>3. CASE UNCHANGED transportVars
    BY <2>3, ZenonT(40) DEF transportVars, TransportInv, TransportTypeOK, BuiltInv, TripInv, WireInv, build,
                parseHostEntry, Promised, EqualFold
  <2>4. QED
    BY <2>1, <2>2, <2>3 DEF TransportNext
<1>3. QED
  BY <1>1, <1>2, PTL DEF TransportSpec

\* For any hosts, options, redirects and interleaving with the token's owner: RoundTrip sends a
\* credential only where the options admit it, whole and unpadded, leaves none in a request or
\* response of the caller's, and closes the body of every request it answers.
THEOREM CredentialsStayHome == TransportSpec => []CredentialStaysHome
<1>1. TransportInv => CredentialStaysHome
  BY DEF TransportInv, TransportTypeOK, TripRecords, TripInv, WireInv, CredentialStaysHome
<1>2. QED
  BY <1>1, TransportInvariance, PTL

-----------------------------------------------------------------------------
(* KeyCalls. *)

KeySpec == KeyInit /\ [][KeyNext]_keyVars

\* The buffers L a call has at p: what each later failure must destroy.
BuffersAt(p, L) ==
  /\ p \in {"start", "load"} => L = {}
  /\ p \in {"der", "route", "openssh", "pbes2", "sec1"} => L = {"blob"}
  /\ p \in {"scratch", "unpad"} => L = {"blob", "plain"}
  /\ p = "crypt" => L = {"blob", "plain", "scratch"}
  /\ p \in {"block", "key", "pkcs1"} => L \subseteq Enclosing
  /\ p = "pkcs8" => L = {"blob"} \/ L = {"plain"}
  /\ p = "construct" => "key" \in L /\ L \subseteq Undo /\ (entry = "generate" => L = {"key"})
  /\ p = "close" =>
       CASE file.alg # "rsa" -> "key" \in L /\ L \subseteq Undo
         [] file.alg = "rsa" /\ file.kind = "openssh" -> L \ Enclosing = {"der"}
         [] file.alg = "rsa" /\ file.kind # "openssh" -> L = {"blob"} \/ L = {"plain"}
  /\ p = "rsa" => \E r \in {"blob", "plain", "der", "key"} : L = {r}
  /\ p \in {"draw", "truncate"} => L = {"key"}
  /\ p = "agree" => L = {"out"}
  /\ p \in {"fill", "encode"} => L = {"cont"}
  /\ p = "encrypt" => L = {"cont", "scratch"}
  /\ p = "write" => L = {"cont", "out"}

\* The calls and files that get to p.
EntryAt(p) ==
  /\ p \in {"der", "sec1"} => entry = "plain"
  /\ p \in {"pbes2", "scratch", "crypt", "unpad"} => entry = "passphrase"
  /\ p \in {"load", "route", "openssh", "block", "pkcs8", "key", "pkcs1", "close"} =>
       entry \in {"plain", "passphrase"}
  /\ p \in {"construct", "rsa"} => entry \in {"plain", "passphrase", "generate"}
  /\ p \in {"draw", "truncate"} => entry = "generate"
  /\ p = "agree" => entry \in {"agree", "encapsulate"}
  /\ p \in {"fill", "encrypt", "encode", "write"} => entry = "marshal"
  /\ p \in {"openssh", "block", "pkcs1"} => file.kind = "openssh"
  /\ p \in {"pbes2", "unpad"} => file.kind = "encrypted"
  /\ p = "pkcs8" => file.kind # "openssh"
  /\ p = "key" => file.alg \in {"ed25519", "ecdsa"}
  /\ p = "pkcs1" => file.alg = "rsa"
  /\ p = "construct" =>
       file.alg \in IF entry = "generate" THEN {"ed25519", "mlkem"} ELSE {"ed25519", "ecdsa"}

\* Where the policy has been asked.
PolicyAt(p) ==
  /\ p \in {"draw", "truncate"} => checkHeapTransients(file.alg)
  /\ p = "construct" /\ entry = "generate" => checkHeapTransients(file.alg)
  /\ p = "close" /\ file.alg # "rsa" => checkHeapTransients(file.alg)

\* A file worth a derivation.
Earned ==
  /\ file.flaw \notin {"frame", "footer", "body", "header", "params", "cost", "type"}
  /\ file.cipher \in {"aes", "chacha"}
  /\ file.kind = "openssh" => file.alg \in SignerTypes /\ checkHeapTransients(file.alg)

\* The checks that have been passed on the way to the derivation.
PassphraseAt(p) ==
  /\ p \in {"load", "route", "openssh", "pbes2"} /\ entry = "passphrase" =>
       file.kind \in {"openssh", "encrypted"} /\ file.flaw \notin {"frame", "footer"}
  /\ p \in {"route", "openssh", "pbes2"} /\ entry = "passphrase" => file.flaw # "body"
  /\ p \in {"scratch", "crypt"} => Earned /\ file.kind \in {"openssh", "encrypted"}

DerivedAt(p) ==
  /\ Earned /\ entry = "passphrase"
  /\ p \in {"block", "unpad", "pkcs8", "key", "pkcs1", "construct", "close", "rsa", "returned"}

At(p, L) ==
  BuffersAt(p, L) /\ EntryAt(p) /\ PolicyAt(p) /\ PassphraseAt(p) /\ (derived => DerivedAt(p))

\* What a call may answer once the passphrase has been used.
Answers ==
  {"ok", "decrypt", "fault"} \cup (IF file.kind = "encrypted" THEN {"policy", "unsupported"} ELSE {})

RunningInv ==
  pc # "returned" => result = "none" /\ verdict = "none" /\ dropped = {} /\ heap = {}

ReturnedInv == pc = "returned" /\ derived => verdict \in Answers

KeyInv ==
  /\ entry \in Entries /\ file \in Files
  /\ At(pc, live) /\ RunningInv /\ ReturnedInv /\ CallLeavesNothing

\* The natural numbers are well founded.
LEMMA NatSetHasMin ==
  ASSUME NEW S \in SUBSET Nat, S # {}
  PROVE  \E n \in S : \A m \in S : n <= m
<1> DEFINE below == {pair \in Nat \X Nat : pair[1] < pair[2]}
<1>1. IsWellFoundedOn(below, Nat)
  BY NatLessThanWellFounded, Zenon DEF OpToRel
<1>2. ASSUME NEW x \in Nat, NEW y \in Nat, <<y, x>> \notin below PROVE x <= y
  BY <1>2
<1> HIDE DEF below
<1>3. PICK x \in S : \A y \in S : <<y, x>> \notin below
  BY <1>1, WFMin
<1>4. QED
  BY <1>2, <1>3

\* A list of checks answers with the error of one that holds, or "none" if none does.
LEMMA FirstHit ==
  ASSUME NEW n \in Nat, NEW checks, DOMAIN checks = 1 .. n
  PROVE  \/ First(checks) = "none" /\ \A i \in 1 .. n : ~checks[i][1]
         \/ \E i \in 1 .. n : checks[i][1] /\ First(checks) = checks[i][2]
<1> DEFINE hit == {i \in DOMAIN checks : checks[i][1]}
<1>1. First(checks) = IF hit = {} THEN "none" ELSE checks[Min(hit)][2]
  BY DEF First
<1>2. hit \subseteq 1 .. n /\ hit \in SUBSET Nat /\ \A i \in hit : checks[i][1]
  OBVIOUS
<1>3. CASE hit = {}
  BY <1>1, <1>3
<1>4. CASE hit # {}
  <2> HIDE DEF hit
  <2>1. Min(hit) \in hit
    BY <1>2, <1>4, NatSetHasMin DEF Min
  <2>2. QED
    BY <1>1, <1>2, <1>4, <2>1
<1>5. QED
  BY <1>3, <1>4

\* The same, for the lists the parsers have.
LEMMA FirstOf1 ==
  ASSUME NEW a \in BOOLEAN, NEW x
  PROVE  LET f == First(<< <<a, x>> >>)
         IN \/ f = "none" /\ ~a
            \/ a /\ f = x
<1> DEFINE checks == << <<a, x>> >>
<1>1. DOMAIN checks = 1 .. 1 /\ checks[1][1] = a /\ checks[1][2] = x
  OBVIOUS
<1> HIDE DEF checks
<1>2. \/ First(checks) = "none" /\ \A i \in 1 .. 1 : ~checks[i][1]
      \/ \E i \in 1 .. 1 : checks[i][1] /\ First(checks) = checks[i][2]
  BY <1>1, FirstHit
<1>3. \/ First(checks) = "none" /\ ~a
      \/ a /\ First(checks) = x
  BY <1>1, <1>2
<1>4. QED
  BY <1>3 DEF checks

\* Two checks.
LEMMA FirstOf2 ==
  ASSUME NEW a \in BOOLEAN, NEW b \in BOOLEAN, NEW x, NEW y
  PROVE  LET f == First(<< <<a, x>>, <<b, y>> >>)
         IN \/ f = "none" /\ ~a /\ ~b
            \/ a /\ f = x
            \/ b /\ f = y
<1> DEFINE checks == << <<a, x>>, <<b, y>> >>
<1>1. /\ DOMAIN checks = 1 .. 2
      /\ checks[1][1] = a /\ checks[1][2] = x /\ checks[2][1] = b /\ checks[2][2] = y
  OBVIOUS
<1> HIDE DEF checks
<1>2. \/ First(checks) = "none" /\ \A i \in 1 .. 2 : ~checks[i][1]
      \/ \E i \in 1 .. 2 : checks[i][1] /\ First(checks) = checks[i][2]
  BY <1>1, FirstHit
<1>3. \/ First(checks) = "none" /\ ~a /\ ~b
      \/ a /\ First(checks) = x
      \/ b /\ First(checks) = y
  BY <1>1, <1>2
<1>4. QED
  BY <1>3 DEF checks

\* Three checks.
LEMMA FirstOf3 ==
  ASSUME NEW a \in BOOLEAN, NEW b \in BOOLEAN, NEW c \in BOOLEAN, NEW x, NEW y, NEW z
  PROVE  LET f == First(<< <<a, x>>, <<b, y>>, <<c, z>> >>)
         IN \/ f = "none" /\ ~a /\ ~b /\ ~c
            \/ a /\ f = x
            \/ b /\ f = y
            \/ c /\ f = z
<1> DEFINE checks == << <<a, x>>, <<b, y>>, <<c, z>> >>
<1>1. /\ DOMAIN checks = 1 .. 3
      /\ checks[1][1] = a /\ checks[1][2] = x /\ checks[2][1] = b /\ checks[2][2] = y
      /\ checks[3][1] = c /\ checks[3][2] = z
  OBVIOUS
<1> HIDE DEF checks
<1>2. \/ First(checks) = "none" /\ \A i \in 1 .. 3 : ~checks[i][1]
      \/ \E i \in 1 .. 3 : checks[i][1] /\ First(checks) = checks[i][2]
  BY <1>1, FirstHit
<1>3. \/ First(checks) = "none" /\ ~a /\ ~b /\ ~c
      \/ a /\ First(checks) = x
      \/ b /\ First(checks) = y
      \/ c /\ First(checks) = z
  BY <1>1, <1>2
<1>4. QED
  BY <1>3 DEF checks

\* Four checks.
LEMMA FirstOf4 ==
  ASSUME NEW a \in BOOLEAN, NEW b \in BOOLEAN, NEW c \in BOOLEAN, NEW d \in BOOLEAN,
         NEW x, NEW y, NEW z, NEW w
  PROVE  LET f == First(<< <<a, x>>, <<b, y>>, <<c, z>>, <<d, w>> >>)
         IN \/ f = "none" /\ ~a /\ ~b /\ ~c /\ ~d
            \/ a /\ f = x
            \/ b /\ f = y
            \/ c /\ f = z
            \/ d /\ f = w
<1> DEFINE checks == << <<a, x>>, <<b, y>>, <<c, z>>, <<d, w>> >>
<1>1. /\ DOMAIN checks = 1 .. 4
      /\ checks[1][1] = a /\ checks[1][2] = x /\ checks[2][1] = b /\ checks[2][2] = y
      /\ checks[3][1] = c /\ checks[3][2] = z /\ checks[4][1] = d /\ checks[4][2] = w
  OBVIOUS
<1> HIDE DEF checks
<1>2. \/ First(checks) = "none" /\ \A i \in 1 .. 4 : ~checks[i][1]
      \/ \E i \in 1 .. 4 : checks[i][1] /\ First(checks) = checks[i][2]
  BY <1>1, FirstHit
<1>3. \/ First(checks) = "none" /\ ~a /\ ~b /\ ~c /\ ~d
      \/ a /\ First(checks) = x
      \/ b /\ First(checks) = y
      \/ c /\ First(checks) = z
      \/ d /\ First(checks) = w
  BY <1>1, <1>2
<1>4. QED
  BY <1>3 DEF checks

\* Six checks.
LEMMA FirstOf6 ==
  ASSUME NEW a \in BOOLEAN, NEW b \in BOOLEAN, NEW c \in BOOLEAN, NEW d \in BOOLEAN,
         NEW e \in BOOLEAN, NEW g \in BOOLEAN,
         NEW x, NEW y, NEW z, NEW w, NEW u, NEW v
  PROVE  LET f == First(<< <<a, x>>, <<b, y>>, <<c, z>>, <<d, w>>, <<e, u>>, <<g, v>> >>)
         IN \/ f = "none" /\ ~a /\ ~b /\ ~c /\ ~d /\ ~e /\ ~g
            \/ a /\ f = x
            \/ b /\ f = y
            \/ c /\ f = z
            \/ d /\ f = w
            \/ e /\ f = u
            \/ g /\ f = v
<1> DEFINE checks == << <<a, x>>, <<b, y>>, <<c, z>>, <<d, w>>, <<e, u>>, <<g, v>> >>
<1>1. /\ DOMAIN checks = 1 .. 6
      /\ checks[1][1] = a /\ checks[1][2] = x /\ checks[2][1] = b /\ checks[2][2] = y
      /\ checks[3][1] = c /\ checks[3][2] = z /\ checks[4][1] = d /\ checks[4][2] = w
      /\ checks[5][1] = e /\ checks[5][2] = u /\ checks[6][1] = g /\ checks[6][2] = v
  OBVIOUS
<1> HIDE DEF checks
<1>2. \/ First(checks) = "none" /\ \A i \in 1 .. 6 : ~checks[i][1]
      \/ \E i \in 1 .. 6 : checks[i][1] /\ First(checks) = checks[i][2]
  BY <1>1, FirstHit
<1>3. \/ First(checks) = "none" /\ ~a /\ ~b /\ ~c /\ ~d /\ ~e /\ ~g
      \/ a /\ First(checks) = x
      \/ b /\ First(checks) = y
      \/ c /\ First(checks) = z
      \/ d /\ First(checks) = w
      \/ e /\ First(checks) = u
      \/ g /\ First(checks) = v
  BY <1>1, <1>2
<1>4. QED
  BY <1>3 DEF checks

\* An error after the passphrase has been used is one of the Answers: every caller translates.
LEMMA TranslatedAnswer ==
  ASSUME NEW e, e # "ok", derived => DerivedAt(pc)
  PROVE  Translated(e) # "ok" /\ (derived => Translated(e) \in Answers)
BY DEF Translated, OpensWithPassphrase, DerivedAt, Answers

\* The call fails: it has destroyed every buffer it had.
LEMMA FailStep ==
  ASSUME KeyInv, pc # "returned", NEW e, e # "ok", derived => e \in Answers,
         NEW rs, live \subseteq rs, Fail(e, rs)
  PROVE  KeyInv'
<1> USE DEF KeyInv
<1>1. /\ pc' = "returned" /\ verdict' = e /\ live' = {} /\ result' = "none" /\ dropped' = {}
      /\ UNCHANGED <<entry, file, allow, heap, derived>>
  BY DEF Fail, RunningInv
<1>2. At(pc, live)'
  BY <1>1 DEF At, BuffersAt, EntryAt, PolicyAt, PassphraseAt, DerivedAt, Earned, checkHeapTransients
<1>3. CallLeavesNothing'
  BY <1>1 DEF CallLeavesNothing, checkHeapTransients
<1>4. RunningInv' /\ ReturnedInv'
  BY <1>1 DEF RunningInv, ReturnedInv, Answers
<1>5. QED
  BY <1>1, <1>2, <1>3, <1>4 DEF At, BuffersAt

\* ... and reports a copy it could not wipe.
LEMMA FailDirtyStep ==
  ASSUME KeyInv, pc # "returned", NEW e, e # "ok", derived => e \in Answers,
         NEW rs, live \subseteq rs, FailDirty(e, rs)
  PROVE  KeyInv'
<1> USE DEF KeyInv
<1>1. /\ pc' = "returned" /\ verdict' = e /\ live' = {} /\ result' = "none" /\ dropped' = {}
      /\ UNCHANGED <<entry, file, allow, derived>>
  BY DEF FailDirty, RunningInv
<1>2. At(pc, live)'
  BY <1>1 DEF At, BuffersAt, EntryAt, PolicyAt, PassphraseAt, DerivedAt, Earned, checkHeapTransients
<1>3. CallLeavesNothing'
  BY <1>1 DEF CallLeavesNothing, checkHeapTransients
<1>4. RunningInv' /\ ReturnedInv'
  BY <1>1 DEF RunningInv, ReturnedInv, Answers
<1>5. QED
  BY <1>1, <1>2, <1>3, <1>4

\* The call goes on, with buffers and checks as its new place demands.
LEMMA GotoStep ==
  ASSUME KeyInv, pc # "returned", NEW next, next # "returned", NEW made,
         At(next, live \cup made), Goto(next, made)
  PROVE  KeyInv'
<1> USE DEF KeyInv
<1>1. /\ pc' = next /\ live' = live \cup made
      /\ UNCHANGED <<entry, file, allow, derived, heap, dropped, verdict, result>>
  BY DEF Goto
<1>2. At(pc, live)'
  <2>1. BuffersAt(pc, live)'
    BY <1>1, ZenonT(40) DEF At, BuffersAt, Enclosing, Undo
  <2>2. EntryAt(pc)' /\ PolicyAt(pc)'
    BY <1>1 DEF At, EntryAt, PolicyAt, checkHeapTransients
  <2>3. Earned' = Earned
    BY <1>1 DEF Earned, checkHeapTransients, SignerTypes
  <2>4. PassphraseAt(pc)' /\ (derived => DerivedAt(pc))'
    BY <1>1, <2>3 DEF At, PassphraseAt, DerivedAt
  <2>5. QED
    BY <2>1, <2>2, <2>4 DEF At
<1>3. RunningInv' /\ ReturnedInv' /\ CallLeavesNothing'
  BY <1>1 DEF RunningInv, ReturnedInv, CallLeavesNothing
<1>4. QED
  BY <1>1, <1>2, <1>3

\* The call hands over the one buffer it does not destroy.
LEMMA HandOverStep ==
  ASSUME KeyInv, pc # "returned", NEW r, r # "none", NEW rs, live \ rs = {r},
         entry # "encapsulate" => checkHeapTransients(file.alg), HandOver(r, rs)
  PROVE  KeyInv'
<1> USE DEF KeyInv
<1>1. /\ pc' = "returned" /\ verdict' = "ok" /\ live' = {r} /\ result' = r /\ dropped' = {} /\ heap' = {}
      /\ UNCHANGED <<entry, file, allow, derived>>
  BY DEF HandOver, RunningInv
<1>2. At(pc, live)'
  BY <1>1 DEF At, BuffersAt, EntryAt, PolicyAt, PassphraseAt, DerivedAt, Earned, checkHeapTransients
<1>3. CallLeavesNothing'
  BY <1>1 DEF CallLeavesNothing, checkHeapTransients
<1>4. RunningInv' /\ ReturnedInv'
  BY <1>1 DEF RunningInv, ReturnedInv, Answers
<1>5. QED
  BY <1>1, <1>2, <1>3, <1>4

\* The call checks, and either fails or goes on.
LEMMA UnlessStep ==
  ASSUME KeyInv, pc # "returned", NEW e, e # "ok", derived => e \in Answers \cup {"none"},
         NEW rs, live \subseteq rs, NEW next, next # "returned", NEW made,
         e = "none" => At(next, live \cup made),
         Unless(e, rs, next, made)
  PROVE  KeyInv'
<1>1. CASE e = "none"
  BY <1>1, GotoStep DEF Unless
<1>2. CASE e # "none"
  BY <1>2, FailStep DEF Unless
<1>3. QED
  BY <1>1, <1>2

\* As UnlessStep, for the checks of the private half, whose errors are translated.
LEMMA CheckedStep ==
  ASSUME KeyInv, pc # "returned", NEW e, e # "ok",
         NEW rs, live \subseteq rs, NEW next, next # "returned", NEW made,
         e = "none" => At(next, live \cup made),
         Checked(e, rs, next, made)
  PROVE  KeyInv'
<1> DEFINE f == IF e = "none" THEN e ELSE Translated(e)
<1>1. Unless(f, rs, next, made)
  BY DEF Checked
<1>2. f # "ok" /\ (derived => f \in Answers \cup {"none"})
  BY TranslatedAnswer DEF KeyInv, At
<1>3. f = "none" => e = "none"
  BY DEF Translated
<1> HIDE DEF f
<1>4. QED
  BY <1>1, <1>2, <1>3, UnlessStep

\* Finding the container: no buffer but blob, and nothing is derived.
LEMMA LoadStep ==
  ASSUME KeyInv
  PROVE  ParsePrivateKey \/ ParsePrivateKeyWithPassphrase \/ copyToBuffer \/ decodePEMBody
           \/ parseDER \/ Route => KeyInv'
<1> USE DEF OpensWithPassphrase
<1>1. /\ At(pc, live) /\ entry \in Entries /\ file \in Files
      /\ file.shape \in {"pem", "der", "openssh", "junk", "empty"} /\ KeyFile(file)
  BY KeyCallsAssumption DEF KeyInv
<1>2. pc \in {"start", "load", "der", "route"} => ~derived /\ pc # "returned"
  BY <1>1 DEF At, DerivedAt
<1>3. /\ pc \in {"start", "load"} => live = {}
      /\ pc \in {"der", "route"} => live = {"blob"}
  BY <1>1 DEF At, BuffersAt
<1>4. \/ pemBlock = "none" /\ file.flaw \notin {"frame", "footer"} /\ file.kind \notin {"legacy", "headers"}
      \/ pemBlock \in {"malformed", "encrypted", "unsupported"}
  <2> DEFINE a == file.flaw = "frame"
             b == file.kind = "legacy"
             c == file.kind = "headers"
             d == file.flaw = "footer"
             f == First(<< <<a, "malformed">>, <<b, "encrypted">>, <<c, "unsupported">>, <<d, "malformed">> >>)
  <2>1. pemBlock = f /\ a \in BOOLEAN /\ b \in BOOLEAN /\ c \in BOOLEAN /\ d \in BOOLEAN
    BY DEF pemBlock
  <2> HIDE DEF a, b, c, d
  <2>2. (f = "none" /\ ~a /\ ~b /\ ~c /\ ~d) \/ f \in {"malformed", "encrypted", "unsupported"}
    BY <2>1, FirstOf4, SMTT(60)
  <2> HIDE DEF f
  <2>3. QED
    BY <2>1, <2>2 DEF a, b, c, d
<1>5. ASSUME ParsePrivateKey PROVE KeyInv'
  <2> DEFINE e == IF file.shape = "empty" THEN "malformed" ELSE parsePrivateKey
  <2>1. parsePrivateKey \in {"none", "malformed", "encrypted", "unsupported"}
    <3> DEFINE a == file.shape = "junk"
               b == file.shape = "pem" /\ pemBlock # "none"
               f == First(<< <<a, "malformed">>, <<b, pemBlock>> >>)
    <3>1. parsePrivateKey = f /\ a \in BOOLEAN /\ b \in BOOLEAN
      BY DEF parsePrivateKey
    <3> HIDE DEF a, b
    <3>2. f \in {"none", "malformed", pemBlock}
      BY <3>1, FirstOf2
    <3> HIDE DEF f
    <3>3. QED
      BY <1>4, <3>1, <3>2
  <2>2. e # "ok"
    BY <2>1
  <2>3. pc = "start" /\ entry = "plain" /\ Unless(e, {}, "load", {})
    BY <1>5 DEF ParsePrivateKey
  <2>4. At("load", live \cup {})
    BY <1>2, <1>3, <2>3 DEF At, BuffersAt, EntryAt, PolicyAt, PassphraseAt
  <2> HIDE DEF e
  <2>5. QED
    BY <1>2, <1>3, <2>2, <2>3, <2>4, UnlessStep
<1>6. ASSUME ParsePrivateKeyWithPassphrase PROVE KeyInv'
  <2> DEFINE e == IF file.shape = "empty" THEN "malformed" ELSE parseEncryptedPrivateKey
  <2>1. \/ derIsEncrypted = "none" /\ file.kind = "encrypted"
        \/ derIsEncrypted \in {"malformed", "notEncrypted"}
    <3> DEFINE a == file.kind = "other"
               b == file.kind # "encrypted"
               f == First(<< <<a, "malformed">>, <<b, "notEncrypted">> >>)
    <3>1. derIsEncrypted = f /\ a \in BOOLEAN /\ b \in BOOLEAN
      BY DEF derIsEncrypted
    <3> HIDE DEF a, b
    <3>2. (f = "none" /\ ~b) \/ f \in {"malformed", "notEncrypted"}
      BY <3>1, FirstOf2
    <3> HIDE DEF f
    <3>3. QED
      BY <3>1, <3>2 DEF b
  <2>2. \/ /\ parseEncryptedPrivateKey = "none" /\ file.shape # "junk"
           /\ file.kind \notin {"pkcs8", "sec1", "pkcs1", "other"}
           /\ file.shape = "pem" => pemBlock = "none"
           /\ looksLikeDER => derIsEncrypted = "none"
        \/ parseEncryptedPrivateKey \in {"malformed", "encrypted", "unsupported", "notEncrypted"}
    <3> DEFINE b1 == file.shape = "junk"
               b2 == looksLikeDER /\ derIsEncrypted # "none"
               b3 == file.shape = "pem" /\ pemBlock = "encrypted"
               b4 == file.shape = "pem" /\ pemBlock # "none"
               b5 == file.kind \in {"pkcs8", "sec1", "pkcs1"}
               b6 == file.kind = "other"
               f == First(<< <<b1, "malformed">>, <<b2, derIsEncrypted>>, <<b3, "unsupported">>,
                             <<b4, pemBlock>>, <<b5, "notEncrypted">>, <<b6, "unsupported">> >>)
    <3>1. /\ parseEncryptedPrivateKey = f /\ b1 \in BOOLEAN /\ b2 \in BOOLEAN /\ b3 \in BOOLEAN
          /\ b4 \in BOOLEAN /\ b5 \in BOOLEAN /\ b6 \in BOOLEAN
      BY DEF parseEncryptedPrivateKey
    <3> HIDE DEF b1, b2, b3, b4, b5, b6
    <3>2. \/ f = "none" /\ ~b1 /\ ~b2 /\ ~b3 /\ ~b4 /\ ~b5 /\ ~b6
          \/ b1 /\ f = "malformed"
          \/ b2 /\ f = derIsEncrypted
          \/ b3 /\ f = "unsupported"
          \/ b4 /\ f = pemBlock
          \/ b5 /\ f = "notEncrypted"
          \/ b6 /\ f = "unsupported"
      BY <3>1, FirstOf6, SMTT(60)
    <3> HIDE DEF f
    <3>3. b2 => derIsEncrypted \in {"malformed", "notEncrypted"}
      BY <2>1 DEF b2
    <3>4. QED
      BY <1>4, <3>1, <3>2, <3>3 DEF b1, b2, b4, b5, b6
  <2>3. e # "ok"
    BY <2>2
  <2>4. pc = "start" /\ entry = "passphrase" /\ Unless(e, {}, "load", {})
    BY <1>6 DEF ParsePrivateKeyWithPassphrase
  <2>5. e = "none" => file.kind \in {"openssh", "encrypted"} /\ file.flaw \notin {"frame", "footer"}
    BY <1>1, <1>4, <2>1, <2>2 DEF KeyFile, looksLikeDER
  <2>6. e = "none" => At("load", live \cup {})
    BY <1>2, <1>3, <2>4, <2>5 DEF At, BuffersAt, EntryAt, PolicyAt, PassphraseAt
  <2> HIDE DEF e
  <2>7. QED
    BY <1>2, <1>3, <2>3, <2>4, <2>6, UnlessStep
<1>7. /\ Loaded \in {"der", "route"} /\ (Loaded = "der" => entry = "plain" \/ entry # "passphrase")
  BY DEF Loaded
<1>8. pc = "load" /\ (file.shape # "pem" \/ file.flaw # "body") => At(Loaded, live \cup {"blob"})
  <2> SUFFICES ASSUME pc = "load", file.shape # "pem" \/ file.flaw # "body"
               PROVE  At(Loaded, live \cup {"blob"})
    OBVIOUS
  <2>1. /\ entry \in {"plain", "passphrase"} /\ live \cup {"blob"} = {"blob"}
        /\ entry = "passphrase" => file.kind \in {"openssh", "encrypted"} /\ file.flaw \notin {"frame", "footer"}
    BY <1>1, <1>3 DEF At, EntryAt, PassphraseAt
  <2>2. file.flaw # "body"
    BY <1>1 DEF KeyFile
  <2>3. QED
    BY <1>2, <1>7, <2>1, <2>2 DEF At, BuffersAt, EntryAt, PolicyAt, PassphraseAt
<1>9. ASSUME copyToBuffer PROVE KeyInv'
  <2>1. pc = "load" /\ file.shape # "pem" /\ (Fail("fault", {"blob"}) \/ Goto(Loaded, {"blob"}))
    BY <1>9 DEF copyToBuffer
  <2>2. CASE Fail("fault", {"blob"})
    BY <1>2, <1>3, <2>1, <2>2, FailStep
  <2>3. CASE Goto(Loaded, {"blob"})
    BY <1>2, <1>7, <1>8, <2>1, <2>3, GotoStep
  <2>4. QED
    BY <2>1, <2>2, <2>3
<1>10. ASSUME decodePEMBody PROVE KeyInv'
  <2>1. pc = "load" /\ live = {}
    BY <1>3, <1>10 DEF decodePEMBody
  <2>2. CASE Fail("fault", {}) \/ Fail("malformed", {"blob"})
    BY <1>2, <2>1, <2>2, FailStep
  <2>3. CASE file.flaw # "body" /\ Goto(Loaded, {"blob"})
    BY <1>2, <1>7, <1>8, <2>1, <2>3, GotoStep
  <2>4. QED
    BY <1>10, <2>2, <2>3 DEF decodePEMBody
<1>11. ASSUME parseDER PROVE KeyInv'
  <2> DEFINE a == file.flaw = "header" /\ file.kind = "encrypted"
             b == file.flaw = "header" \/ file.kind = "other"
             c == file.kind = "encrypted"
             e == First(<< <<a, "unsupported">>, <<b, "malformed">>, <<c, "encrypted">> >>)
  <2>1. pc = "der" /\ (Fail("fault", {"blob"}) \/ Unless(e, {"blob"}, "route", {}))
    BY <1>11 DEF parseDER
  <2>2. e # "ok"
    <3>1. a \in BOOLEAN /\ b \in BOOLEAN /\ c \in BOOLEAN
      OBVIOUS
    <3> HIDE DEF a, b, c
    <3>2. QED
      BY <3>1, FirstOf3
  <2> HIDE DEF e
  <2>3. entry = "plain"
    BY <1>1, <2>1 DEF At, EntryAt
  <2>4. At("route", live \cup {})
    BY <1>2, <1>3, <2>1, <2>3 DEF At, BuffersAt, EntryAt, PolicyAt, PassphraseAt
  <2>5. CASE Fail("fault", {"blob"})
    BY <1>2, <1>3, <2>1, <2>5, FailStep
  <2>6. CASE Unless(e, {"blob"}, "route", {})
    BY <1>2, <1>3, <2>1, <2>2, <2>4, <2>6, UnlessStep
  <2>7. QED
    BY <2>1, <2>5, <2>6
<1>12. ASSUME Route PROVE KeyInv'
  <2>1. pc = "route" /\ ~derived /\ live = {"blob"} /\ entry \in {"plain", "passphrase"}
    BY <1>1, <1>2, <1>3, <1>12 DEF Route, At, EntryAt
  <2>2. CASE entry = "passphrase"
    <3> DEFINE next == IF file.kind = "openssh" THEN "openssh" ELSE "pbes2"
    <3>1. Goto(next, {})
      BY <1>12, <2>2 DEF Route
    <3>2. file.kind \in {"openssh", "encrypted"} /\ file.flaw \notin {"frame", "footer", "body"}
      BY <1>1, <2>1, <2>2 DEF At, PassphraseAt
    <3>3. At(next, live \cup {}) /\ next # "returned"
      BY <2>1, <2>2, <3>2 DEF At, BuffersAt, EntryAt, PolicyAt, PassphraseAt
    <3> HIDE DEF next
    <3>4. QED
      BY <2>1, <3>1, <3>3, GotoStep
  <2>3. CASE entry = "plain"
    <3> DEFINE next == IF file.kind = "pkcs1" THEN "rsa" ELSE file.kind
               a == file.kind = "encrypted"
               b == file.kind = "other"
               e == First(<< <<a, "encrypted">>, <<b, "unsupported">> >>)
    <3>1. Unless(e, {"blob"}, next, {})
      BY <1>12, <2>3 DEF Route
    <3>2. e # "ok" /\ (e = "none" => ~a /\ ~b)
      <4>1. a \in BOOLEAN /\ b \in BOOLEAN
        OBVIOUS
      <4> HIDE DEF a, b
      <4>2. QED
        BY <4>1, FirstOf2
    <3> HIDE DEF e
    <3>3. file.kind \in {"openssh", "pkcs8", "sec1", "pkcs1", "encrypted", "legacy", "headers", "other"}
      BY <1>1 DEF KeyFile
    <3>4. next # "returned" /\ (e = "none" => At(next, live \cup {}))
      BY <2>1, <2>3, <3>2, <3>3 DEF At, BuffersAt, EntryAt, PolicyAt, PassphraseAt
    <3> HIDE DEF next
    <3>5. QED
      BY <2>1, <3>1, <3>2, <3>4, UnlessStep
  <2>4. QED
    BY <2>1, <2>2, <2>3
<1>13. QED
  BY <1>5, <1>6, <1>9, <1>10, <1>11, <1>12

\* Up to the KDF: a refusal that needs no passphrase comes before anything is derived.
LEMMA HeaderStep ==
  ASSUME KeyInv
  PROVE  parseOpenSSH \/ parseOpenSSHEncrypted \/ parsePKCS8Encrypted \/ withScratch => KeyInv'
<1> USE DEF OpensWithPassphrase
<1>1. /\ At(pc, live) /\ entry \in Entries /\ file \in Files
      /\ file.shape \in {"pem", "der", "openssh", "junk", "empty"} /\ KeyFile(file)
  BY KeyCallsAssumption DEF KeyInv
<1>2. pc \in {"openssh", "pbes2", "scratch"} => ~derived /\ pc # "returned"
  BY <1>1 DEF At, DerivedAt
<1>3. /\ pc \in {"openssh", "pbes2"} => live = {"blob"}
      /\ pc = "scratch" => live = {"blob", "plain"}
  BY <1>1 DEF At, BuffersAt
<1>4. (readOpenSSHHeader = "none" /\ file.flaw # "header") \/ readOpenSSHHeader = "malformed"
  <2> DEFINE a == file.flaw = "header"
             f == First(<< <<a, "malformed">> >>)
  <2>1. readOpenSSHHeader = f /\ a \in BOOLEAN
    BY DEF readOpenSSHHeader
  <2> HIDE DEF a
  <2>2. (f = "none" /\ ~a) \/ f = "malformed"
    BY <2>1, FirstOf1
  <2> HIDE DEF f
  <2>3. QED
    BY <2>1, <2>2 DEF a
<1>5. \/ /\ admitOpenSSHKeyType = "none" /\ file.flaw # "type"
         /\ file.alg \in SignerTypes /\ checkHeapTransients(file.alg)
      \/ admitOpenSSHKeyType \in {"malformed", "unsupported", "policy"}
  <2> DEFINE a == file.flaw = "type"
             b == file.alg \notin SignerTypes
             c == ~ checkHeapTransients(file.alg)
             f == First(<< <<a, "malformed">>, <<b, "unsupported">>, <<c, "policy">> >>)
  <2>1. admitOpenSSHKeyType = f /\ a \in BOOLEAN /\ b \in BOOLEAN /\ c \in BOOLEAN
    BY DEF admitOpenSSHKeyType
  <2> HIDE DEF a, b, c
  <2>2. (f = "none" /\ ~a /\ ~b /\ ~c) \/ f \in {"malformed", "unsupported", "policy"}
    BY <2>1, FirstOf3
  <2> HIDE DEF f
  <2>3. QED
    BY <2>1, <2>2 DEF a, b, c
<1>6. ASSUME parseOpenSSH PROVE KeyInv'
  <2> DEFINE a == readOpenSSHHeader # "none"
             b == file.cipher # "none"
             c == file.flaw = "cost"
             d == file.flaw = "params"
             e == First(<< <<a, readOpenSSHHeader>>, <<b, "encrypted">>, <<c, "unsupported">>,
                           <<d, "malformed">> >>)
  <2>1. pc = "openssh" /\ entry # "passphrase" /\ (Fail("fault", {"blob"}) \/ Unless(e, {"blob"}, "block", {}))
    BY <1>6 DEF parseOpenSSH
  <2>2. e # "ok"
    <3>1. a \in BOOLEAN /\ b \in BOOLEAN /\ c \in BOOLEAN /\ d \in BOOLEAN
      OBVIOUS
    <3> HIDE DEF a, b, c, d
    <3>2. e \in {"none", readOpenSSHHeader, "encrypted", "unsupported", "malformed"}
      BY <3>1, FirstOf4, SMTT(60)
    <3>3. QED
      BY <1>4, <3>2
  <2> HIDE DEF e
  <2>3. entry = "plain" /\ file.kind = "openssh"
    BY <1>1, <2>1 DEF At, EntryAt
  <2>4. At("block", live \cup {})
    BY <1>2, <1>3, <2>1, <2>3 DEF At, BuffersAt, EntryAt, PolicyAt, PassphraseAt, Enclosing
  <2>5. CASE Fail("fault", {"blob"})
    BY <1>2, <1>3, <2>1, <2>5, FailStep
  <2>6. CASE Unless(e, {"blob"}, "block", {})
    BY <1>2, <1>3, <2>1, <2>2, <2>4, <2>6, UnlessStep
  <2>7. QED
    BY <2>1, <2>5, <2>6
<1>7. ASSUME parseOpenSSHEncrypted PROVE KeyInv'
  <2> DEFINE b1 == readOpenSSHHeader # "none"
             b2 == file.cipher = "none"
             b3 == file.cipher = "unknown"
             b4 == file.flaw = "params"
             b5 == file.flaw = "cost"
             b6 == admitOpenSSHKeyType # "none"
             e == First(<< <<b1, readOpenSSHHeader>>, <<b2, "notEncrypted">>, <<b3, "unsupported">>,
                           <<b4, "malformed">>, <<b5, "unsupported">>, <<b6, admitOpenSSHKeyType>> >>)
  <2>1. /\ pc = "openssh" /\ entry = "passphrase"
        /\ Fail("fault", {"blob"}) \/ Unless(e, {"blob"}, "scratch", {"plain"})
    BY <1>7 DEF parseOpenSSHEncrypted
  <2>2. \/ e = "none" /\ ~b1 /\ ~b2 /\ ~b3 /\ ~b4 /\ ~b5 /\ ~b6
        \/ e \in {"notEncrypted", "unsupported", "malformed"}
        \/ b1 /\ e = readOpenSSHHeader
        \/ b6 /\ e = admitOpenSSHKeyType
    <3>1. /\ b1 \in BOOLEAN /\ b2 \in BOOLEAN /\ b3 \in BOOLEAN
          /\ b4 \in BOOLEAN /\ b5 \in BOOLEAN /\ b6 \in BOOLEAN
      OBVIOUS
    <3> HIDE DEF b1, b2, b3, b4, b5, b6
    <3>2. \/ e = "none" /\ ~b1 /\ ~b2 /\ ~b3 /\ ~b4 /\ ~b5 /\ ~b6
          \/ b1 /\ e = readOpenSSHHeader
          \/ b2 /\ e = "notEncrypted"
          \/ b3 /\ e = "unsupported"
          \/ b4 /\ e = "malformed"
          \/ b5 /\ e = "unsupported"
          \/ b6 /\ e = admitOpenSSHKeyType
      BY <3>1, FirstOf6, SMTT(60)
    <3> HIDE DEF e
    <3>3. QED
      BY <3>2
  <2> HIDE DEF e
  <2>3. e # "ok"
    BY <1>4, <1>5, <2>2
  <2>4. file.kind = "openssh" /\ file.flaw \notin {"frame", "footer", "body"}
    BY <1>1, <2>1 DEF At, EntryAt, PassphraseAt
  <2>5. e = "none" => Earned
    <3>1. file.cipher \in {"none", "aes", "chacha", "unknown"}
      BY <1>1, <2>4 DEF KeyFile
    <3>2. e = "none" => ~b1 /\ ~b2 /\ ~b3 /\ ~b4 /\ ~b5 /\ ~b6
      BY <1>4, <1>5, <2>2
    <3>3. QED
      BY <1>4, <1>5, <2>4, <3>1, <3>2 DEF Earned
  <2>6. e = "none" => At("scratch", live \cup {"plain"})
    BY <1>2, <1>3, <2>1, <2>4, <2>5 DEF At, BuffersAt, EntryAt, PolicyAt, PassphraseAt
  <2>7. CASE Fail("fault", {"blob"})
    BY <1>2, <1>3, <2>1, <2>7, FailStep
  <2>8. CASE Unless(e, {"blob"}, "scratch", {"plain"})
    BY <1>2, <1>3, <2>1, <2>3, <2>6, <2>8, UnlessStep
  <2>9. QED
    BY <2>1, <2>7, <2>8
<1>8. ASSUME parsePKCS8Encrypted PROVE KeyInv'
  <2>1. \/ readKDFParams = "none" /\ file.flaw # "params" /\ file.flaw # "cost"
        \/ readKDFParams \in {"malformed", "unsupported"}
    <3> DEFINE a == file.flaw = "params"
               b == file.flaw = "cost"
               f == First(<< <<a, "malformed">>, <<b, "unsupported">> >>)
    <3>1. readKDFParams = f /\ a \in BOOLEAN /\ b \in BOOLEAN
      BY DEF readKDFParams
    <3> HIDE DEF a, b
    <3>2. (f = "none" /\ ~a /\ ~b) \/ f \in {"malformed", "unsupported"}
      BY <3>1, FirstOf2
    <3> HIDE DEF f
    <3>3. QED
      BY <3>1, <3>2 DEF a, b
  <2>2. \/ /\ readPBES2 = "none" /\ readKDFParams = "none"
           /\ file.flaw # "header" /\ file.cipher # "unknown"
        \/ readPBES2 \in {"malformed", "unsupported"}
    <3> DEFINE a == file.flaw = "header"
               b == file.cipher = "unknown"
               c == readKDFParams # "none"
               f == First(<< <<a, "malformed">>, <<b, "unsupported">>, <<c, readKDFParams>> >>)
    <3>1. readPBES2 = f /\ a \in BOOLEAN /\ b \in BOOLEAN /\ c \in BOOLEAN
      BY DEF readPBES2
    <3> HIDE DEF a, b, c
    <3>2. \/ f = "none" /\ ~a /\ ~b /\ ~c
          \/ f \in {"malformed", "unsupported"}
          \/ c /\ f = readKDFParams
      BY <3>1, FirstOf3
    <3> HIDE DEF f
    <3>3. QED
      BY <2>1, <3>1, <3>2 DEF a, b, c
  <2>3. pc = "pbes2" /\ (Fail("fault", {"blob"}) \/ Unless(readPBES2, {"blob"}, "scratch", {"plain"}))
    BY <1>8 DEF parsePKCS8Encrypted
  <2>4. entry = "passphrase" /\ file.kind = "encrypted" /\ file.flaw \notin {"frame", "footer", "body"}
    BY <1>1, <2>3 DEF At, EntryAt, PassphraseAt
  <2>5. readPBES2 = "none" => Earned
    <3>1. file.cipher \in {"aes", "unknown"} /\ file.flaw # "type"
      BY <1>1, <2>4 DEF KeyFile
    <3>2. QED
      BY <2>1, <2>2, <2>4, <3>1 DEF Earned
  <2>6. readPBES2 = "none" => At("scratch", live \cup {"plain"})
    BY <1>2, <1>3, <2>3, <2>4, <2>5 DEF At, BuffersAt, EntryAt, PolicyAt, PassphraseAt
  <2>7. readPBES2 # "ok"
    BY <2>2
  <2>8. CASE Fail("fault", {"blob"})
    BY <1>2, <1>3, <2>3, <2>8, FailStep
  <2>9. CASE Unless(readPBES2, {"blob"}, "scratch", {"plain"})
    BY <1>2, <1>3, <2>3, <2>6, <2>7, <2>9, UnlessStep
  <2>10. QED
    BY <2>3, <2>8, <2>9
<1>9. ASSUME withScratch PROVE KeyInv'
  <2>1. pc = "scratch" /\ (Fail("fault", {"blob", "plain"}) \/ Goto("crypt", {"scratch"}))
    BY <1>9 DEF withScratch
  <2>2. entry = "passphrase" /\ Earned /\ file.kind \in {"openssh", "encrypted"}
    BY <1>1, <2>1 DEF At, EntryAt, PassphraseAt
  <2>3. At("crypt", live \cup {"scratch"})
    BY <1>2, <1>3, <2>1, <2>2 DEF At, BuffersAt, EntryAt, PolicyAt, PassphraseAt
  <2>4. CASE Fail("fault", {"blob", "plain"})
    BY <1>2, <1>3, <2>1, <2>4, FailStep
  <2>5. CASE Goto("crypt", {"scratch"})
    BY <1>2, <2>1, <2>3, <2>5, GotoStep
  <2>6. QED
    BY <2>1, <2>4, <2>5
<1>10. QED
  BY <1>6, <1>7, <1>8, <1>9

\* The passphrase has been used: on to the plaintext, or out with an answer that tells nothing.
LEMMA DecryptedStep ==
  ASSUME KeyInv, pc = "crypt", NEW next, NEW e, NEW rs, NEW copies, Decrypted(next, e, rs, copies),
         \/ next = "block" /\ file.kind = "openssh" /\ e = "none" /\ rs = {} /\ copies = {}
         \/ next = "unpad" /\ file.kind = "encrypted" /\ e = "none" /\ rs = {} /\ copies = {}
         \/ next = "returned" /\ e \in {"fault", "decrypt"} /\ rs = {"plain", "blob"}
  PROVE  KeyInv'
<1> USE DEF KeyInv
<1>1. /\ derived' = TRUE /\ pc' = next /\ verdict' = e /\ heap' = heap \cup copies
      /\ live' = live \ (rs \cup {"scratch"}) /\ UNCHANGED <<entry, file, allow, dropped, result>>
  BY DEF Decrypted
<1>2. /\ live = {"blob", "plain", "scratch"} /\ entry = "passphrase" /\ Earned
      /\ result = "none" /\ dropped = {} /\ heap = {}
  BY DEF At, BuffersAt, EntryAt, PassphraseAt, RunningInv
<1>3. Earned' = Earned
  BY <1>1 DEF Earned, checkHeapTransients, SignerTypes
<1>4. At(pc, live)'
  BY <1>1, <1>2, <1>3 DEF At, BuffersAt, EntryAt, PolicyAt, PassphraseAt, DerivedAt, Enclosing
<1>5. RunningInv' /\ ReturnedInv'
  BY <1>1, <1>2 DEF RunningInv, ReturnedInv, Answers
<1>6. CallLeavesNothing'
  BY <1>1, <1>2 DEF CallLeavesNothing
<1>7. QED
  BY <1>1, <1>4, <1>5, <1>6

\* Decryption and the padding.
LEMMA CryptStep ==
  ASSUME KeyInv
  PROVE  opensshCrypt \/ pbes2Decrypt \/ pkcs7Unpad => KeyInv'
<1>1. ASSUME pc = "crypt", CryptFails PROVE KeyInv'
  BY <1>1, DecryptedStep DEF CryptFails
<1>2. ASSUME opensshCrypt PROVE KeyInv'
  BY <1>1, <1>2, DecryptedStep DEF opensshCrypt
<1>3. ASSUME pbes2Decrypt PROVE KeyInv'
  BY <1>1, <1>3, DecryptedStep DEF pbes2Decrypt
<1>4. ASSUME pkcs7Unpad PROVE KeyInv'
  <2>1. pc = "unpad" /\ At(pc, live)
    BY <1>4 DEF pkcs7Unpad, KeyInv
  <2>2. live = {"blob", "plain"} /\ entry = "passphrase" /\ file.kind = "encrypted"
    BY <2>1 DEF At, BuffersAt, EntryAt
  <2>3. ASSUME NEW e \in {"fault", "decrypt"}, Fail(e, {"plain", "blob"}) PROVE KeyInv'
    BY <2>1, <2>2, <2>3, FailStep DEF Answers
  <2>4. ASSUME pc' = "pkcs8", live' = live \ {"blob"},
               UNCHANGED <<entry, file, allow, heap, derived, draws, dropped, verdict, result>>
        PROVE  KeyInv'
    <3>1. live' = {"plain"}
      BY <2>2, <2>4
    <3>2. Earned' = Earned
      BY <2>4 DEF Earned, checkHeapTransients, SignerTypes
    <3>3. At(pc, live)'
      BY <2>1, <2>2, <2>4, <3>1, <3>2 DEF At, BuffersAt, EntryAt, PolicyAt, PassphraseAt, DerivedAt
    <3>4. QED
      BY <2>1, <2>4, <3>3 DEF KeyInv, RunningInv, ReturnedInv, CallLeavesNothing
  <2>5. QED
    BY <1>4, <2>3, <2>4 DEF pkcs7Unpad
<1>5. QED
  BY <1>2, <1>3, <1>4

\* From the plaintext to a buffer for the key.
LEMMA PrivateStep ==
  ASSUME KeyInv
  PROVE  parseOpenSSHPrivateBlock \/ parsePKCS8 \/ parseSEC1 \/ ed25519FromSeed \/ ecdsaFromScalar
           \/ pkcs1DER => KeyInv'
<1>1. /\ At(pc, live) /\ entry \in Entries /\ file \in Files
  BY DEF KeyInv
<1>2. derived => DerivedAt(pc)
  BY <1>1 DEF At
<1>3. /\ pc \in {"block", "pkcs8", "key", "pkcs1"} => live \subseteq Enclosing /\ entry \in {"plain", "passphrase"}
      /\ pc = "pkcs8" => live = {"blob"} \/ live = {"plain"}
      /\ pc = "sec1" => live = {"blob"} /\ entry = "plain" /\ ~derived
  BY <1>1, <1>2 DEF At, BuffersAt, EntryAt, Enclosing, DerivedAt
<1>4. ASSUME NEW e, e # "ok", NEW rs, live \subseteq rs, pc # "returned", Fail(Translated(e), rs)
      PROVE  KeyInv'
  BY <1>2, <1>4, TranslatedAnswer, FailStep
<1>5. ASSUME parseOpenSSHPrivateBlock PROVE KeyInv'
  <2> DEFINE a == file.flaw \in {"pass", "block", "type", "halves"}
             b == file.alg \notin SignerTypes
             e == First(<< <<a, "malformed">>, <<b, "unsupported">> >>)
             next == IF file.alg = "rsa" THEN "pkcs1" ELSE "key"
  <2>1. pc = "block" /\ Checked(e, Enclosing, next, {})
    BY <1>5 DEF parseOpenSSHPrivateBlock
  <2>2. e # "ok" /\ (e = "none" => ~b)
    <3>1. a \in BOOLEAN /\ b \in BOOLEAN
      OBVIOUS
    <3> HIDE DEF a, b
    <3>2. QED
      BY <3>1, FirstOf2
  <2> HIDE DEF e
  <2>3. file.kind = "openssh"
    BY <1>1, <2>1 DEF At, EntryAt
  <2>4. next # "returned" /\ (e = "none" => At(next, live \cup {}))
    BY <1>2, <1>3, <2>1, <2>2, <2>3
       DEF At, BuffersAt, EntryAt, PolicyAt, PassphraseAt, DerivedAt, SignerTypes
  <2> HIDE DEF next
  <2>5. QED
    BY <1>3, <2>1, <2>2, <2>4, CheckedStep
<1>6. ASSUME parsePKCS8 PROVE KeyInv'
  <2> DEFINE a == file.flaw \in {"pass", "header", "block"}
             b == file.alg \notin SignerTypes
             e == First(<< <<a, "malformed">>, <<b, "unsupported">> >>)
             next == IF file.alg = "rsa" THEN "close" ELSE "key"
  <2>1. /\ pc = "pkcs8"
        /\ \/ Fail(Translated("fault"), Enclosing)
           \/ Fail(Translated("unsupported"), Enclosing)
           \/ Checked(e, Enclosing, next, {})
    BY <1>6 DEF parsePKCS8
  <2>2. e # "ok" /\ (e = "none" => ~b)
    <3>1. a \in BOOLEAN /\ b \in BOOLEAN
      OBVIOUS
    <3> HIDE DEF a, b
    <3>2. QED
      BY <3>1, FirstOf2
  <2> HIDE DEF e
  <2>3. file.kind # "openssh"
    BY <1>1, <2>1 DEF At, EntryAt
  <2>4. next # "returned" /\ (e = "none" => At(next, live \cup {}))
    BY <1>2, <1>3, <2>1, <2>2, <2>3
       DEF At, BuffersAt, EntryAt, PolicyAt, PassphraseAt, DerivedAt, SignerTypes
  <2> HIDE DEF next
  <2>5. CASE Fail(Translated("fault"), Enclosing)
    BY <1>3, <1>4, <2>1, <2>5
  <2>6. CASE Fail(Translated("unsupported"), Enclosing)
    BY <1>3, <1>4, <2>1, <2>6
  <2>7. CASE Checked(e, Enclosing, next, {})
    BY <1>3, <2>1, <2>2, <2>4, <2>7, CheckedStep
  <2>8. QED
    BY <2>1, <2>5, <2>6, <2>7
<1>7. ASSUME parseSEC1 PROVE KeyInv'
  <2>1. pc = "sec1" /\ (Fail("fault", {"blob"}) \/ Unless(ecdsaFromSEC1, {"blob"}, "key", {}))
    BY <1>7 DEF parseSEC1
  <2>2. ecdsaFromSEC1 # "ok" /\ (ecdsaFromSEC1 = "none" => file.alg = "ecdsa")
    <3> DEFINE a == file.flaw \in {"header", "block"}
               b == file.alg # "ecdsa"
               f == First(<< <<a, "malformed">>, <<b, "unsupported">> >>)
    <3>1. ecdsaFromSEC1 = f /\ a \in BOOLEAN /\ b \in BOOLEAN
      BY DEF ecdsaFromSEC1
    <3> HIDE DEF a, b
    <3>2. f # "ok" /\ (f = "none" => ~b)
      BY <3>1, FirstOf2
    <3> HIDE DEF f
    <3>3. QED
      BY <3>1, <3>2 DEF b
  <2>3. ecdsaFromSEC1 = "none" => At("key", live \cup {})
    BY <1>3, <2>1, <2>2 DEF At, BuffersAt, EntryAt, PolicyAt, PassphraseAt, Enclosing
  <2>4. CASE Fail("fault", {"blob"})
    BY <1>3, <2>1, <2>4, FailStep
  <2>5. CASE Unless(ecdsaFromSEC1, {"blob"}, "key", {})
    BY <1>3, <2>1, <2>2, <2>3, <2>5, UnlessStep
  <2>6. QED
    BY <2>1, <2>4, <2>5
<1>8. ASSUME NEW next, next # "returned", NEW made, NEW more, pc # "returned", live \subseteq Enclosing,
             At(next, live \cup made),
             \/ Fail(Translated("fault"), Enclosing \cup more)
             \/ Checked(First(<< <<file.flaw = "length", "malformed">> >>), Enclosing, next, made)
      PROVE  KeyInv'
  <2> DEFINE a == file.flaw = "length"
             e == First(<< <<a, "malformed">> >>)
  <2>1. e # "ok"
    <3>1. a \in BOOLEAN
      OBVIOUS
    <3> HIDE DEF a
    <3>2. QED
      BY <3>1, FirstOf1
  <2>2. Fail(Translated("fault"), Enclosing \cup more) \/ Checked(e, Enclosing, next, made)
    BY <1>8
  <2> HIDE DEF e
  <2>3. CASE Fail(Translated("fault"), Enclosing \cup more)
    BY <1>4, <1>8, <2>3
  <2>4. CASE Checked(e, Enclosing, next, made)
    BY <1>8, <2>1, <2>4, CheckedStep
  <2>5. QED
    BY <2>2, <2>3, <2>4
<1>9. ASSUME ed25519FromSeed \/ ecdsaFromScalar PROVE KeyInv'
  <2>1. pc = "key" /\ file.alg \in {"ed25519", "ecdsa"} /\ CopyToKey
    BY <1>9 DEF ed25519FromSeed, ecdsaFromScalar
  <2>2. At("construct", live \cup {"key"})
    BY <1>2, <1>3, <2>1 DEF At, BuffersAt, EntryAt, PolicyAt, PassphraseAt, DerivedAt, Undo
  <2>3. QED
    BY <1>3, <1>8, <2>1, <2>2 DEF CopyToKey
<1>10. ASSUME pkcs1DER PROVE KeyInv'
  <2>1. pc = "pkcs1"
    BY <1>10 DEF pkcs1DER
  <2>2. file.alg = "rsa" /\ file.kind = "openssh"
    BY <1>1, <2>1 DEF At, EntryAt
  <2>3. (live \cup {"der"}) \ Enclosing = {"der"}
    BY <1>3, <2>1 DEF Enclosing
  <2>4. At("close", live \cup {"der"})
    BY <1>2, <1>3, <2>1, <2>2, <2>3 DEF At, BuffersAt, EntryAt, PolicyAt, PassphraseAt, DerivedAt
  <2>5. QED
    BY <1>3, <1>8, <1>10, <2>1, <2>4 DEF pkcs1DER
<1>11. QED
  BY <1>5, <1>6, <1>7, <1>9, <1>10

\* The constructors, the end of the borrows, and the RSA signer on the buffer it will own.
LEMMA ConstructStep ==
  ASSUME KeyInv
  PROVE  newEd25519Signer \/ newECDSASigner \/ newMLKEM768Key \/ EndBorrows \/ rsaFromDER => KeyInv'
<1>1. /\ At(pc, live) /\ entry \in Entries /\ file \in Files
  BY DEF KeyInv
<1>2. derived => DerivedAt(pc)
  BY <1>1 DEF At
<1>3. /\ pc = "construct" => /\ "key" \in live /\ live \subseteq Undo
                             /\ entry \in {"plain", "passphrase", "generate"}
                             /\ entry = "generate" => live = {"key"} /\ checkHeapTransients(file.alg) /\ ~derived
                             /\ file.alg \in IF entry = "generate" THEN {"ed25519", "mlkem"} ELSE {"ed25519", "ecdsa"}
  BY <1>1, <1>2 DEF At, BuffersAt, EntryAt, PolicyAt, DerivedAt
<1>4. ASSUME NEW e, e # "ok", NEW rs, live \subseteq rs, pc # "returned", Fail(Translated(e), rs)
      PROVE  KeyInv'
  BY <1>2, <1>4, TranslatedAnswer, FailStep
<1>5. ASSUME pc = "construct", entry # "generate", checkHeapTransients(file.alg), Built PROVE KeyInv'
  <2>1. CASE file.flaw = "pub"
    BY <1>3, <1>4, <1>5, <2>1 DEF Built, PubMismatch
  <2>2. CASE file.flaw # "pub"
    <3>1. At("close", live \cup {})
      BY <1>2, <1>3, <1>5 DEF At, BuffersAt, EntryAt, PolicyAt, PassphraseAt, DerivedAt
    <3>2. QED
      BY <1>5, <2>2, <3>1, GotoStep DEF Built
  <2>3. QED
    BY <2>1, <2>2
<1>6. ASSUME newEd25519Signer PROVE KeyInv'
  <2>1. pc = "construct" /\ file.alg = "ed25519" /\ checkHeapTransients(file.alg)
    BY <1>6 DEF newEd25519Signer, checkHeapTransients
  <2>2. CASE entry = "generate"
    <3>1. live \ {} = {"key"} /\ live \subseteq {"key"} /\ ~derived
      BY <1>3, <2>1, <2>2
    <3>2. CASE Fail("fault", {"key"})
      BY <2>1, <3>1, <3>2, FailStep
    <3>3. CASE HandOver("key", {})
      BY <2>1, <3>1, <3>3, HandOverStep
    <3>4. QED
      BY <1>6, <2>2, <3>2, <3>3 DEF newEd25519Signer
  <2>3. CASE entry # "generate"
    <3>1. CASE Fail(Translated("fault"), Undo)
      BY <1>3, <1>4, <2>1, <3>1
    <3>2. QED
      BY <1>5, <1>6, <2>1, <2>3, <3>1 DEF newEd25519Signer
  <2>4. QED
    BY <2>2, <2>3
<1>7. ASSUME newECDSASigner PROVE KeyInv'
  <2> DEFINE a == ~ checkHeapTransients("ecdsa")
             b == file.flaw = "range"
             e == First(<< <<a, "policy">>, <<b, "malformed">> >>)
  <2>1. e # "ok" /\ (e = "none" => checkHeapTransients("ecdsa"))
    <3>1. a \in BOOLEAN /\ b \in BOOLEAN
      OBVIOUS
    <3>2. ~a => checkHeapTransients("ecdsa")
      OBVIOUS
    <3> HIDE DEF a, b
    <3>3. e # "ok" /\ (e = "none" => ~a)
      BY <3>1, FirstOf2
    <3>4. QED
      BY <3>2, <3>3
  <2>2. /\ pc = "construct" /\ file.alg = "ecdsa"
        /\ IF e # "none" THEN Fail(Translated(e), Undo)
           ELSE Fail(Translated("fault"), Undo) \/ Built
    BY <1>7 DEF newECDSASigner
  <2> HIDE DEF e
  <2>3. entry # "generate"
    BY <1>3, <2>2
  <2>4. CASE e # "none"
    BY <1>3, <1>4, <2>1, <2>2, <2>4
  <2>5. CASE e = "none" /\ Fail(Translated("fault"), Undo)
    BY <1>3, <1>4, <2>2, <2>5
  <2>6. CASE e = "none" /\ Built
    BY <1>5, <2>1, <2>2, <2>3, <2>6
  <2>7. QED
    BY <2>2, <2>4, <2>5, <2>6
<1>8. ASSUME newMLKEM768Key PROVE KeyInv'
  <2>1. pc = "construct" /\ file.alg = "mlkem"
    BY <1>8 DEF newMLKEM768Key
  <2>2. entry = "generate" /\ live = {"key"} /\ live \ {} = {"key"} /\ checkHeapTransients(file.alg) /\ ~derived
    BY <1>3, <2>1
  <2>3. CASE Fail("fault", {"key"})
    BY <2>1, <2>2, <2>3, FailStep
  <2>4. CASE FailDirty("fault", {"key"})
    BY <2>1, <2>2, <2>4, FailDirtyStep
  <2>5. CASE HandOver("key", {})
    BY <2>1, <2>2, <2>5, HandOverStep
  <2>6. QED
    BY <1>8, <2>3, <2>4, <2>5 DEF newMLKEM768Key
<1>9. ASSUME EndBorrows PROVE KeyInv'
  <2>1. pc = "close"
    BY <1>9 DEF EndBorrows
  <2>2. /\ entry \in {"plain", "passphrase"} /\ (derived => entry = "passphrase")
        /\ file.alg # "rsa" => "key" \in live /\ live \subseteq Undo /\ checkHeapTransients(file.alg)
        /\ file.alg = "rsa" /\ file.kind = "openssh" => live \ Enclosing = {"der"}
        /\ file.alg = "rsa" /\ file.kind # "openssh" => live = {"blob"} \/ live = {"plain"}
    BY <1>1, <2>1 DEF At, BuffersAt, EntryAt, PolicyAt, DerivedAt
  <2>3. live \ Enclosing = {"key", "der"} \cap live
    <3>1. CASE file.alg # "rsa"
      BY <2>2, <3>1 DEF Enclosing, Undo
    <3>2. CASE file.alg = "rsa" /\ file.kind = "openssh"
      BY <2>2, <3>2 DEF Enclosing
    <3>3. CASE file.alg = "rsa" /\ file.kind # "openssh"
      BY <2>2, <3>3 DEF Enclosing
    <3>4. QED
      BY <3>1, <3>2, <3>3
  <2>4. ASSUME NEW e, e # "ok", derived => e \in Answers, FailDropping(e, Enclosing, {"key", "der"})
        PROVE  KeyInv'
    <3>1. /\ pc' = "returned" /\ verdict' = e /\ live' = dropped' /\ result' = "none"
          /\ UNCHANGED <<entry, file, allow, heap, derived>>
      BY <2>1, <2>3, <2>4 DEF FailDropping, KeyInv, RunningInv
    <3>2. Earned' = Earned
      BY <3>1 DEF Earned, checkHeapTransients, SignerTypes
    <3>3. At(pc, live)'
      BY <1>2, <3>1, <3>2 DEF At, BuffersAt, EntryAt, PolicyAt, PassphraseAt, DerivedAt
    <3>4. CallLeavesNothing'
      BY <2>4, <3>1 DEF CallLeavesNothing
    <3>5. QED
      BY <2>4, <3>1, <3>3, <3>4 DEF KeyInv, RunningInv, ReturnedInv, Answers
  <2>5. CASE FailDropping(IF file.kind = "openssh" THEN "fault" ELSE Translated("fault"), Enclosing, {"key", "der"})
    <3> DEFINE e == IF file.kind = "openssh" THEN "fault" ELSE Translated("fault")
    <3>1. e # "ok" /\ (derived => e \in Answers)
      <4>1. Translated("fault") # "ok" /\ (derived => Translated("fault") \in Answers)
        BY <1>2, TranslatedAnswer
      <4>2. QED
        BY <4>1 DEF Answers
    <3>2. FailDropping(e, Enclosing, {"key", "der"})
      BY <2>5
    <3> HIDE DEF e
    <3>3. QED
      BY <2>4, <3>1, <3>2
  <2>6. CASE /\ file.alg = "rsa" /\ pc' = "rsa"
             /\ live' = IF file.kind = "openssh" THEN live \ Enclosing ELSE live
             /\ UNCHANGED <<entry, file, allow, heap, derived, draws, dropped, verdict, result>>
    <3>1. live' = {"der"} \/ live' = {"blob"} \/ live' = {"plain"}
      BY <2>2, <2>6
    <3>2. Earned' = Earned
      BY <2>6 DEF Earned, checkHeapTransients, SignerTypes
    <3>3. At(pc, live)'
      BY <1>2, <2>1, <2>2, <2>6, <3>1, <3>2 DEF At, BuffersAt, EntryAt, PolicyAt, PassphraseAt, DerivedAt
    <3>4. QED
      BY <2>1, <2>6, <3>3 DEF KeyInv, RunningInv, ReturnedInv, CallLeavesNothing
  <2>7. CASE file.alg # "rsa" /\ HandOver("key", Enclosing)
    <3>1. live \ Enclosing = {"key"}
      BY <2>2, <2>7 DEF Enclosing, Undo
    <3>2. QED
      BY <2>1, <2>2, <2>7, <3>1, HandOverStep
  <2>8. QED
    BY <1>9, <2>5, <2>6, <2>7 DEF EndBorrows
<1>10. ASSUME rsaFromDER PROVE KeyInv'
  <2>1. pc = "rsa"
    BY <1>10 DEF rsaFromDER
  <2>2. PICK src \in {"blob", "plain", "der", "key"} : live = {src}
    BY <1>1, <2>1 DEF At, BuffersAt
  <2>3. newRSASigner # "ok" /\ (newRSASigner = "none" => allow)
    <3> DEFINE a == ~ checkHeapTransients("rsa")
               b == file.flaw \in {"header", "block", "length", "range"}
               f == First(<< <<a, "policy">>, <<b, "malformed">> >>)
    <3>1. newRSASigner = f /\ a \in BOOLEAN /\ b \in BOOLEAN
      BY DEF newRSASigner
    <3>2. ~a => allow
      BY DEF checkHeapTransients
    <3> HIDE DEF a, b
    <3>3. f # "ok" /\ (f = "none" => ~a)
      BY <3>1, FirstOf2
    <3> HIDE DEF f
    <3>4. QED
      BY <3>1, <3>2, <3>3
  <2>4. \/ newRSASigner # "none" /\ Fail(Translated(newRSASigner), {src})
        \/ Fail(Translated("fault"), {src})
        \/ FailDirty(Translated("fault"), {src})
        \/ newRSASigner = "none" /\ HandOver(src, {})
    BY <1>10, <2>2 DEF rsaFromDER
  <2>5. CASE newRSASigner # "none" /\ Fail(Translated(newRSASigner), {src})
    BY <1>4, <2>1, <2>2, <2>3, <2>5
  <2>6. CASE Fail(Translated("fault"), {src})
    BY <1>4, <2>1, <2>2, <2>6
  <2>7. CASE FailDirty(Translated("fault"), {src})
    BY <1>2, <2>1, <2>2, <2>7, TranslatedAnswer, FailDirtyStep
  <2>8. CASE newRSASigner = "none" /\ HandOver(src, {})
    <3>1. live \ {} = {src} /\ src # "none" /\ checkHeapTransients(file.alg)
      BY <2>2, <2>3, <2>8 DEF checkHeapTransients
    <3>2. QED
      BY <2>1, <2>8, <3>1, HandOverStep
  <2>9. QED
    BY <2>4, <2>5, <2>6, <2>7, <2>8
<1>11. QED
  BY <1>6, <1>7, <1>8, <1>9, <1>10

\* Generating: the policy before the buffer, the buffer destroyed on every failure but the one
\* after RSA's key is stored, which drops it.
LEMMA GenerateStep ==
  ASSUME KeyInv
  PROVE  GenerateEd25519Signer \/ GenerateX25519Key \/ GenerateMLKEM768Key \/ GenerateECDSASigner
           \/ generateDiceware \/ GenerateRSASigner => KeyInv'
<1>1. At(pc, live)
  BY DEF KeyInv
<1>2. /\ pc = "start" => live = {} /\ ~derived
      /\ pc \in {"draw", "truncate"} => live = {"key"} /\ live \ {} = {"key"} /\ ~derived
                                        /\ entry = "generate" /\ checkHeapTransients(file.alg)
  BY <1>1 DEF At, BuffersAt, EntryAt, PolicyAt, DerivedAt
<1>3. ASSUME Refused PROVE KeyInv'
  BY <1>2, <1>3, FailStep DEF Refused
<1>4. ASSUME entry = "generate", NewKey PROVE KeyInv'
  <2>1. pc = "start" /\ checkHeapTransients(file.alg) /\ (Fail("fault", {}) \/ Goto("draw", {"key"}))
    BY <1>4 DEF NewKey
  <2>2. At("draw", live \cup {"key"})
    BY <1>2, <1>4, <2>1 DEF At, BuffersAt, EntryAt, PolicyAt, PassphraseAt
  <2>3. CASE Fail("fault", {})
    BY <1>2, <2>1, <2>3, FailStep
  <2>4. CASE Goto("draw", {"key"})
    BY <2>1, <2>2, <2>4, GotoStep
  <2>5. QED
    BY <2>1, <2>3, <2>4
<1>5. ASSUME pc \in {"draw", "truncate"}, Fail("fault", {"key"}) PROVE KeyInv'
  BY <1>2, <1>5, FailStep
<1>6. ASSUME pc \in {"draw", "truncate"}, HandOver("key", {}) PROVE KeyInv'
  BY <1>2, <1>6, HandOverStep
<1>7. ASSUME pc = "draw", file.alg \in {"ed25519", "mlkem"}, Goto("construct", {}) PROVE KeyInv'
  <2>1. At("construct", live \cup {})
    BY <1>2, <1>7 DEF At, BuffersAt, EntryAt, PolicyAt, PassphraseAt, Undo
  <2>2. QED
    BY <1>7, <2>1, GotoStep
<1>8. ASSUME GenerateEd25519Signer \/ GenerateX25519Key \/ GenerateMLKEM768Key PROVE KeyInv'
  BY <1>3, <1>4, <1>5, <1>6, <1>7, <1>8
     DEF GenerateEd25519Signer, GenerateX25519Key, GenerateMLKEM768Key, Generating, DrawFails
<1>9. ASSUME GenerateECDSASigner PROVE KeyInv'
  <2>1. CASE /\ pc = "draw" /\ draws' = draws + 1
             /\ UNCHANGED <<entry, file, allow, pc, live, heap, derived, dropped, verdict, result>>
    <3>1. KeyInv' = KeyInv
      BY <2>1 DEF KeyInv, At, BuffersAt, EntryAt, PolicyAt, PassphraseAt, DerivedAt, Earned, Answers,
                  RunningInv, ReturnedInv, CallLeavesNothing, checkHeapTransients
    <3>2. QED
      BY <3>1
  <2>2. QED
    BY <1>3, <1>4, <1>5, <1>6, <1>9, <2>1 DEF GenerateECDSASigner, Generating, DrawFails
<1>10. ASSUME generateDiceware PROVE KeyInv'
  <2>1. CASE pc = "draw" /\ Goto("truncate", {})
    <3>1. At("truncate", live \cup {})
      BY <1>2, <2>1 DEF At, BuffersAt, EntryAt, PolicyAt, PassphraseAt
    <3>2. QED
      BY <2>1, <3>1, GotoStep
  <2>2. QED
    BY <1>4, <1>5, <1>6, <1>10, <2>1 DEF generateDiceware, Generating, DrawFails
<1>11. ASSUME GenerateRSASigner PROVE KeyInv'
  <2>1. entry = "generate"
    BY <1>11 DEF GenerateRSASigner, Generating
  <2>2. CASE pc = "start" /\ Goto("rsa", {"key"})
    <3>1. live \cup {"key"} = {"key"}
      BY <1>2, <2>2
    <3>2. At("rsa", live \cup {"key"})
      BY <1>2, <2>1, <2>2, <3>1 DEF At, BuffersAt, EntryAt, PolicyAt, PassphraseAt
    <3>3. QED
      BY <2>2, <3>2, GotoStep
  <2>3. CASE /\ pc = "start" /\ pc' = "returned" /\ verdict' = "fault" /\ heap' = {"copy"}
             /\ live' = {"key"} /\ dropped' = {"key"}
             /\ UNCHANGED <<entry, file, allow, derived, draws, result>>
    <3>1. result' = "none" /\ ~derived'
      BY <1>2, <2>3 DEF KeyInv, RunningInv
    <3>2. At(pc, live)'
      BY <2>3, <3>1 DEF At, BuffersAt, EntryAt, PolicyAt, PassphraseAt
    <3>3. CallLeavesNothing'
      BY <2>3, <3>1 DEF CallLeavesNothing
    <3>4. QED
      BY <2>3, <3>1, <3>2, <3>3 DEF KeyInv, RunningInv, ReturnedInv
  <2>4. CASE pc = "start" /\ Fail("fault", {})
    BY <1>2, <2>4, FailStep
  <2>5. CASE pc = "start" /\ FailDirty("fault", {})
    BY <1>2, <2>5, FailDirtyStep
  <2>6. QED
    BY <1>3, <1>11, <2>2, <2>3, <2>4, <2>5 DEF GenerateRSASigner
<1>12. QED
  BY <1>8, <1>9, <1>10, <1>11

\* Calls that make a buffer from a key they are given.
LEMMA MakeStep ==
  ASSUME KeyInv
  PROVE  SharedSecret \/ Decapsulate \/ Encapsulate \/ marshalOpenSSH => KeyInv'
<1>1. At(pc, live)
  BY DEF KeyInv
<1>2. /\ pc = "start" => live = {} /\ ~derived
      /\ pc = "agree" => live = {"out"} /\ live \ {} = {"out"} /\ ~derived
      /\ pc \in {"fill", "encode"} => live = {"cont"} /\ ~derived
      /\ pc = "encrypt" => live = {"cont", "scratch"} /\ ~derived
      /\ pc = "write" => live = {"cont", "out"} /\ live \ {"cont"} = {"out"} /\ ~derived
  BY <1>1 DEF At, BuffersAt, DerivedAt
<1>3. ASSUME entry \in {"agree", "encapsulate"}, NewOut PROVE KeyInv'
  <2>1. pc = "start" /\ (Fail("fault", {}) \/ Goto("agree", {"out"}))
    BY <1>3 DEF NewOut
  <2>2. At("agree", live \cup {"out"})
    BY <1>2, <1>3, <2>1 DEF At, BuffersAt, EntryAt, PolicyAt, PassphraseAt
  <2>3. CASE Fail("fault", {})
    BY <1>2, <2>1, <2>3, FailStep
  <2>4. CASE Goto("agree", {"out"})
    BY <2>1, <2>2, <2>4, GotoStep
  <2>5. QED
    BY <2>1, <2>3, <2>4
<1>4. ASSUME OutFilled, entry # "encapsulate" => checkHeapTransients(file.alg) PROVE KeyInv'
  <2>1. pc = "agree" /\ (Fail("fault", {"out"}) \/ HandOver("out", {}))
    BY <1>4 DEF OutFilled
  <2>2. CASE Fail("fault", {"out"})
    BY <1>2, <2>1, <2>2, FailStep
  <2>3. CASE HandOver("out", {})
    BY <1>2, <1>4, <2>1, <2>3, HandOverStep
  <2>4. QED
    BY <2>1, <2>2, <2>3
<1>5. ASSUME SharedSecret PROVE KeyInv'
  BY <1>3, <1>4, <1>5 DEF SharedSecret, checkHeapTransients
<1>6. ASSUME Decapsulate PROVE KeyInv'
  <2>1. CASE pc = "agree" /\ FailDirty("fault", {"out"})
    BY <1>2, <2>1, FailDirtyStep
  <2>2. QED
    BY <1>3, <1>4, <1>6, <2>1 DEF Decapsulate
<1>7. ASSUME Encapsulate PROVE KeyInv'
  BY <1>3, <1>4, <1>7 DEF Encapsulate
<1>8. ASSUME marshalOpenSSH PROVE KeyInv'
  <2>1. entry = "marshal" /\ checkHeapTransients(file.alg)
    BY <1>8 DEF marshalOpenSSH, checkHeapTransients
  <2>2. ASSUME NEW rs, live \subseteq rs, ~derived, pc # "returned", Fail("fault", rs) PROVE KeyInv'
    BY <2>2, FailStep
  <2>3. CASE pc = "start" /\ (Fail("fault", {}) \/ Goto("fill", {"cont"}))
    <3>1. At("fill", live \cup {"cont"})
      BY <1>2, <2>1, <2>3 DEF At, BuffersAt, EntryAt, PolicyAt, PassphraseAt
    <3>2. CASE Goto("fill", {"cont"})
      BY <2>3, <3>1, <3>2, GotoStep
    <3>3. QED
      BY <1>2, <2>2, <2>3, <3>2
  <2>4. CASE pc = "fill" /\ Fail("fault", {"cont"})
    BY <1>2, <2>2, <2>4
  <2>5. CASE pc = "fill" /\ Goto("encode", {})
    <3>1. At("encode", live \cup {})
      BY <1>2, <2>1, <2>5 DEF At, BuffersAt, EntryAt, PolicyAt, PassphraseAt
    <3>2. QED
      BY <2>5, <3>1, GotoStep
  <2>6. CASE pc = "fill" /\ Goto("encrypt", {"scratch"})
    <3>1. At("encrypt", live \cup {"scratch"})
      BY <1>2, <2>1, <2>6 DEF At, BuffersAt, EntryAt, PolicyAt, PassphraseAt
    <3>2. QED
      BY <2>6, <3>1, GotoStep
  <2>7. CASE pc = "encrypt" /\ (Fail("fault", {"scratch", "cont"}) \/ FailDirty("fault", {"scratch", "cont"}))
    <3>1. CASE FailDirty("fault", {"scratch", "cont"})
      BY <1>2, <2>7, <3>1, FailDirtyStep
    <3>2. QED
      BY <1>2, <2>2, <2>7, <3>1
  <2>8. CASE /\ pc = "encrypt" /\ pc' = "encode" /\ live' = live \ {"scratch"}
             /\ UNCHANGED <<entry, file, allow, heap, derived, draws, dropped, verdict, result>>
    <3>1. live' = {"cont"}
      BY <1>2, <2>8
    <3>2. At(pc, live)'
      BY <1>2, <2>1, <2>8, <3>1 DEF At, BuffersAt, EntryAt, PolicyAt, PassphraseAt
    <3>3. QED
      BY <2>8, <3>2 DEF KeyInv, RunningInv, ReturnedInv, CallLeavesNothing
  <2>9. CASE pc = "encode" /\ (Fail("fault", {"cont"}) \/ Goto("write", {"out"}))
    <3>1. At("write", live \cup {"out"})
      BY <1>2, <2>1, <2>9 DEF At, BuffersAt, EntryAt, PolicyAt, PassphraseAt
    <3>2. CASE Goto("write", {"out"})
      BY <2>9, <3>1, <3>2, GotoStep
    <3>3. QED
      BY <1>2, <2>2, <2>9, <3>2
  <2>10. CASE pc = "write" /\ (Fail("fault", {"out", "cont"}) \/ HandOver("out", {"cont"}))
    <3>1. CASE HandOver("out", {"cont"})
      BY <1>2, <2>1, <2>10, <3>1, HandOverStep
    <3>2. QED
      BY <1>2, <2>2, <2>10, <3>1
  <2>11. QED
    BY <1>8, <2>3, <2>4, <2>5, <2>6, <2>7, <2>8, <2>9, <2>10 DEF marshalOpenSSH
<1>9. QED
  BY <1>5, <1>6, <1>7, <1>8

\* The inductive invariant holds at every step of every call on every file.
THEOREM KeyInvariance == KeySpec => []KeyInv
<1>1. KeyInit => KeyInv
  BY DEF KeyInit, KeyInv, At, BuffersAt, EntryAt, PolicyAt, PassphraseAt, RunningInv, ReturnedInv, CallLeavesNothing
<1>2. KeyInv /\ [KeyNext]_keyVars => KeyInv'
  <2> SUFFICES ASSUME KeyInv, [KeyNext]_keyVars PROVE KeyInv'
    OBVIOUS
  <2>1. CASE UNCHANGED keyVars
    <3>1. UNCHANGED <<entry, file, allow, pc, live, heap, derived, dropped, verdict, result>>
      BY <2>1 DEF keyVars
    <3>2. KeyInv' = KeyInv
      BY <3>1 DEF KeyInv, At, BuffersAt, EntryAt, PolicyAt, PassphraseAt, DerivedAt, Earned, Answers,
                  RunningInv, ReturnedInv, CallLeavesNothing, checkHeapTransients
    <3>3. QED
      BY <3>2
  <2>2. CASE KeyNext
    BY <2>2, LoadStep, HeaderStep, CryptStep, PrivateStep, ConstructStep, GenerateStep, MakeStep DEF KeyNext
  <2>3. QED
    BY <2>1, <2>2
<1>3. QED
  BY <1>1, <1>2, PTL DEF KeySpec

\* Whatever file is parsed, key generated, agreed on or marshalled and whichever allocation,
\* borrow or wipe fails: a call that has returned keeps only the buffer it hands over, drops one
\* only where it reports an error, and hands out no key the policy refuses.
THEOREM CallsLeaveNothing == KeySpec => []CallLeavesNothing
BY KeyInvariance, PTL DEF KeyInv

\* Whatever the file: once the passphrase has been used an error does not tell which check of
\* the plaintext failed, and no derivation is spent on a file that is refused without one.
THEOREM VerdictIsOne == KeySpec => []OneVerdict
<1>1. KeyInv => OneVerdict
  BY DEF KeyInv, ReturnedInv, Answers, At, DerivedAt, Earned, OneVerdict
<1>2. QED
  BY <1>1, KeyInvariance, PTL

-----------------------------------------------------------------------------
(* ScrubWindow. *)

Windows == [tid : Threads, prev : BOOLEAN, active : BOOLEAN]

ScrubTypeOK ==
  /\ owner \in Goroutines \cup {NoGoroutine} /\ subject \in Threads \cup {NoThread}
  /\ on \in [Goroutines -> Threads \cup {NoThread}] /\ pins \in [Goroutines -> Nat]
  /\ mask \in [Threads -> BOOLEAN] /\ home \in [Threads -> BOOLEAN]
  /\ windows \in [Goroutines -> Seq(Windows)] /\ opened \in [Goroutines -> Nat]
  /\ step \in [Goroutines -> {"out", "fn", "return", "panic", "goexit", "exited"}]
  /\ regs \subseteq Threads /\ band \subseteq Goroutines /\ wiped \subseteq Goroutines
  /\ checked \subseteq Goroutines /\ named \in BOOLEAN
  /\ unbalanced \subseteq Goroutines /\ strayed \subseteq Goroutines /\ slipped \in BOOLEAN

\* A thread runs one goroutine; one that keeps its pin stays on the thread of its windows.
PlaceInv ==
  /\ \A g, h \in Goroutines : on[g] = on[h] /\ on[g] # NoThread => g = h
  /\ \A g \in Goroutines \ unbalanced :
       /\ pins[g] = Len(windows[g])
       /\ \A i \in 1 .. Len(windows[g]) : windows[g][i].tid = on[g]

\* Where a window stands.
StepInv ==
  /\ \A g \in Goroutines : windows[g] = <<>> <=> step[g] \in {"out", "exited"}
  /\ \A g \in wiped : step[g] \in {"return", "panic", "goexit"}

\* The owner's secrets are left behind only inside a window, and not once it has been wiped.
CopyInv ==
  owner \in Goroutines \ unbalanced =>
    /\ regs \subseteq {on[owner]} /\ band \subseteq {owner}
    /\ windows[owner] = <<>> \/ owner \in wiped => regs = {} /\ band = {}

\* The owner is masked in its windows, and an inner one will leave it so.
PinnedInv ==
  owner \in Goroutines \ unbalanced =>
    \A i \in 1 .. Len(windows[owner]) : windows[owner][i].active =>
      /\ mask[on[owner]]
      /\ \A j \in i + 1 .. Len(windows[owner]) : windows[owner][j].prev

\* Window i of g masks the subject.
Masks(g, i) == i \in 1 .. Len(windows[g]) /\ windows[g][i].active /\ windows[g][i].tid = subject

\* The subject was masked already when window i of g was opened, and is when it closes.
Under(g, i) ==
  \/ \E j \in 1 .. i - 1 : Masks(g, j)
  \/ \E h \in strayed \ {g} : \E j \in 1 .. Len(windows[h]) : Masks(h, j)

Masked == \E g \in Goroutines : \E i \in 1 .. Len(windows[g]) : Masks(g, i)

\* Who masks the subject is on it, or has left it.
StrayInv == \A g \in Goroutines \ strayed : \A i \in 1 .. Len(windows[g]) : Masks(g, i) => on[g] = subject

\* The tripwire can see what happens to the subject's mask.
Watched == subject \in Threads /\ ~slipped /\ (\A g, h \in strayed : g = h)

MaskInv ==
  Watched =>
    /\ Masked => mask[subject]
    /\ mask[subject] # home[subject] => named \/ Masked
    /\ \A g \in Goroutines : \A i \in 1 .. Len(windows[g]) : Masks(g, i) =>
         /\ ~windows[g][i].prev => ~Under(g, i)
         /\ windows[g][i].prev # home[subject] => named \/ Under(g, i)

ScrubInv == ScrubTypeOK /\ PlaceInv /\ StepInv /\ CopyInv /\ PinnedInv /\ StrayInv /\ MaskInv


\* The stack of windows, popped.
LEMMA Popped ==
  ASSUME NEW S, NEW s \in Seq(S), s # <<>>
  PROVE  /\ Front(s) \in Seq(S) /\ Len(Front(s)) = Len(s) - 1 /\ Len(s) \in Nat \ {0}
         /\ \A i \in 1 .. Len(s) - 1 : Front(s)[i] = s[i]
         /\ Last(s) = s[Len(s)] /\ s[Len(s)] \in S
         /\ (Front(s) = <<>>) <=> (Len(s) = 1)
<1>1. Len(s) \in Nat \ {0}
  OBVIOUS
<1>2. Front(s) = SubSeq(s, 1, Len(s) - 1) /\ Last(s) = s[Len(s)]
  BY DEF Front, Last
<1>3. s[Len(s)] \in S
  BY <1>1
<1>4. /\ SubSeq(s, 1, Len(s) - 1) \in Seq(S) /\ Len(SubSeq(s, 1, Len(s) - 1)) = Len(s) - 1
      /\ \A i \in 1 .. Len(s) - 1 : SubSeq(s, 1, Len(s) - 1)[i] = s[i]
  <2> DEFINE m == Len(s) - 1
  <2>1. m \in Nat /\ m <= Len(s)
    BY <1>1
  <2>2. \A i \in 1 .. m : s[i] \in S
    BY <1>1, <2>1
  <2> HIDE DEF m
  <2>3. Len(SubSeq(s, 1, m)) = m
    BY <2>1
  <2>4. \A i \in 1 .. m : SubSeq(s, 1, m)[i] = s[i]
    BY <2>1
  <2>5. SubSeq(s, 1, m) \in Seq(S)
    BY <2>1, <2>2
  <2>6. QED
    BY <2>3, <2>4, <2>5 DEF m
<1>5. ASSUME NEW q \in Seq(S) PROVE (q = <<>>) <=> (Len(q) = 0)
  OBVIOUS
<1>6. (Front(s) = <<>>) <=> (Len(s) = 1)
  <2>1. Front(s) \in Seq(S) /\ Len(Front(s)) = Len(s) - 1
    BY <1>2, <1>4
  <2>2. (Front(s) = <<>>) <=> (Len(Front(s)) = 0)
    BY <1>5, <2>1
  <2>3. QED
    BY <1>1, <2>1, <2>2
<1>7. QED
  BY <1>1, <1>2, <1>3, <1>4, <1>6

\* Two goroutines that mask the subject, one of them on it: the other has strayed.
LEMMA OtherStrayed ==
  ASSUME ScrubInv, NEW g \in Goroutines, on[g] = subject, subject \in Threads,
         NEW h \in Goroutines \ {g}, NEW i, Masks(h, i)
  PROVE  h \in strayed
<1>1. subject # NoThread
  BY ScrubAssumption
<1>2. on[h] # subject
  BY <1>1 DEF ScrubInv, PlaceInv
<1>3. QED
  BY <1>2 DEF ScrubInv, StrayInv, Masks

\* suppressAsyncPreempt keeps the account of what masks the subject.
LEMMA OpenMasks ==
  ASSUME ScrubInv, NEW g \in Goroutines, on[g] # NoThread, NEW blocked \in BOOLEAN,
         suppressAsyncPreempt(g, blocked), UNCHANGED <<home, named, subject, strayed, slipped, on>>
  PROVE  StrayInv' /\ MaskInv'
<1> USE DEF ScrubInv
<1> DEFINE t0 == on[g]
           n == Len(windows[g])
           w == [tid |-> t0, prev |-> mask[t0], active |-> blocked]
<1>1. t0 \in Threads /\ n \in Nat /\ windows[g] \in Seq(Windows) /\ mask[t0] \in BOOLEAN
  BY DEF ScrubTypeOK
<1>2. /\ \A h \in Goroutines : windows'[h] = IF h = g THEN Append(windows[g], w) ELSE windows[h]
      /\ \A th \in Threads : mask'[th] = IF blocked /\ th = t0 THEN TRUE ELSE mask[th]
  BY DEF suppressAsyncPreempt, ScrubTypeOK
<1>4. w.tid = t0 /\ w.prev = mask[t0] /\ w.active = blocked
  OBVIOUS
<1>3. /\ Len(windows'[g]) = n + 1 /\ windows'[g][n + 1] = w
      /\ \A i \in 1 .. n : windows'[g][i] = windows[g][i]
  <2>1. w \in Windows
    BY <1>1 DEF Windows
  <2>2. windows'[g] = Append(windows[g], w)
    BY <1>2
  <2> HIDE DEF w
  <2>3. QED
    BY <1>1, <2>1, <2>2
<1> HIDE DEF w
<1>5. ASSUME NEW h \in Goroutines, NEW i \in Nat
      PROVE  /\ Masks(h, i)' <=> (Masks(h, i) \/ (h = g /\ i = n + 1 /\ blocked /\ subject = t0))
             /\ Masks(h, i) => windows'[h][i].prev = windows[h][i].prev
  <2>1. CASE h # g
    BY <1>2, <2>1 DEF Masks
  <2>2. CASE h = g /\ i = n + 1
    BY <1>1, <1>3, <1>4, <2>2 DEF Masks
  <2>3. CASE h = g /\ i # n + 1
    BY <1>1, <1>3, <2>3 DEF Masks
  <2>4. QED
    BY <2>1, <2>2, <2>3
<1>6. ASSUME NEW h \in Goroutines, NEW i, Masks(h, i)
      PROVE  i \in Nat /\ Len(windows[h]) \in Nat /\ i \in 1 .. Len(windows[h])
  BY <1>6 DEF Masks, ScrubTypeOK
<1>7. \A h \in Goroutines : Len(windows[h]) \in Nat /\ Len(windows'[h]) \in Nat
  BY <1>1, <1>2, <1>3 DEF ScrubTypeOK
<1>8. Masked' <=> (Masked \/ (blocked /\ subject = t0))
  <2>1. ASSUME Masked' PROVE Masked \/ (blocked /\ subject = t0)
    <3>1. PICK h \in Goroutines : \E i \in 1 .. Len(windows'[h]) : Masks(h, i)'
      BY <2>1 DEF Masked
    <3>2. PICK i \in 1 .. Len(windows'[h]) : Masks(h, i)'
      BY <3>1
    <3>3. i \in Nat
      BY <1>7, <3>2
    <3>4. QED
      BY <1>5, <1>6, <3>2, <3>3, SMTT(30) DEF Masked
  <2>2. ASSUME Masked PROVE Masked'
    <3>1. PICK h \in Goroutines : \E i \in 1 .. Len(windows[h]) : Masks(h, i)
      BY <2>2 DEF Masked
    <3>2. PICK i \in 1 .. Len(windows[h]) : Masks(h, i)
      BY <3>1
    <3>3. i \in Nat /\ Masks(h, i)'
      BY <1>5, <1>6, <3>2
    <3>4. i \in 1 .. Len(windows'[h])
      BY <3>3 DEF Masks
    <3>5. QED
      BY <3>3, <3>4 DEF Masked
  <2>3. ASSUME blocked, subject = t0 PROVE Masked'
    <3>1. PICK m \in Nat : m = n + 1
      BY <1>1
    <3>2. Masks(g, m)' /\ m \in 1 .. Len(windows'[g])
      BY <1>1, <1>3, <1>5, <2>3, <3>1
    <3>3. QED
      BY <3>2 DEF Masked
  <2>4. QED
    BY <2>1, <2>2, <2>3
<1>9. ASSUME Watched, NEW h \in Goroutines, NEW i, Masks(h, i)
      PROVE  Under(h, i)' <=> Under(h, i)
  <2>1. i \in Nat /\ i \in 1 .. Len(windows[h])
    BY <1>6, <1>9
  <2>2. \A j \in 1 .. i - 1 : Masks(h, j)' <=> Masks(h, j)
    <3> SUFFICES ASSUME NEW j \in 1 .. i - 1 PROVE Masks(h, j)' <=> Masks(h, j)
      OBVIOUS
    <3>1. j \in Nat /\ ~(h = g /\ j = n + 1)
      BY <1>1, <2>1
    <3>2. QED
      BY <1>5, <3>1
  <2>3. \A k \in strayed \ {h} : k = g => subject # t0
    <3> SUFFICES ASSUME g \in strayed, h # g, subject = t0 PROVE FALSE
      OBVIOUS
    <3>1. h \in strayed
      BY <1>1, <1>9, OtherStrayed
    <3>2. QED
      BY <1>9, <3>1 DEF Watched
  <2>4. \A k \in strayed \ {h} :
          (\E j \in 1 .. Len(windows'[k]) : Masks(k, j)') <=> (\E j \in 1 .. Len(windows[k]) : Masks(k, j))
    <3> SUFFICES ASSUME NEW k \in strayed \ {h}
                 PROVE  (\E j \in 1 .. Len(windows'[k]) : Masks(k, j)') <=> (\E j \in 1 .. Len(windows[k]) : Masks(k, j))
      OBVIOUS
    <3>1. k \in Goroutines
      BY DEF ScrubTypeOK
    <3>2. \A j \in Nat : Masks(k, j)' <=> Masks(k, j)
      BY <1>5, <2>3, <3>1
    <3>3. \A j : Masks(k, j)' => j \in 1 .. Len(windows'[k])
      BY DEF Masks
    <3>4. \A j : Masks(k, j) => j \in 1 .. Len(windows[k])
      BY DEF Masks
    <3>5. QED
      BY <1>7, <3>1, <3>2, <3>3, <3>4
  <2>5. QED
    BY <2>2, <2>4 DEF Under
<1>15. StrayInv'
  <2> SUFFICES ASSUME NEW h \in Goroutines \ strayed, NEW i \in 1 .. Len(windows'[h]), Masks(h, i)'
               PROVE  on[h] = subject
    BY DEF StrayInv
  <2>1. i \in Nat
    BY <1>7
  <2>2. CASE Masks(h, i)
    BY <1>6, <2>2 DEF StrayInv
  <2>3. CASE h = g /\ subject = t0
    BY <2>3
  <2>4. QED
    BY <1>5, <2>1, <2>2, <2>3
<1>10. SUFFICES ASSUME Watched
                PROVE  /\ Masked' => mask'[subject]
                       /\ mask'[subject] # home[subject] => named \/ Masked'
                       /\ \A h \in Goroutines : \A i \in 1 .. Len(windows'[h]) : Masks(h, i)' =>
                            /\ ~windows'[h][i].prev => ~Under(h, i)'
                            /\ windows'[h][i].prev # home[subject] => named \/ Under(h, i)'
  BY <1>10, <1>15 DEF MaskInv, Watched
<1>16. /\ subject \in Threads
       /\ Masked => mask[subject]
       /\ mask[subject] # home[subject] => named \/ Masked
  BY <1>10 DEF MaskInv, Watched
<1>11. Masked' => mask'[subject]
  BY <1>2, <1>8, <1>16
<1>12. mask'[subject] # home[subject] => named \/ Masked'
  BY <1>2, <1>8, <1>16
<1>13. ASSUME NEW h \in Goroutines, NEW i \in 1 .. Len(windows'[h]), Masks(h, i)'
       PROVE  /\ ~windows'[h][i].prev => ~Under(h, i)'
              /\ windows'[h][i].prev # home[subject] => named \/ Under(h, i)'
  <2>0. i \in Nat
    BY <1>7
  <2>1. CASE Masks(h, i)
    <3>1. /\ ~windows[h][i].prev => ~Under(h, i)
          /\ windows[h][i].prev # home[subject] => named \/ Under(h, i)
      BY <1>10, <2>1 DEF MaskInv, Masks
    <3>2. windows'[h][i].prev = windows[h][i].prev
      BY <1>5, <2>0, <2>1
    <3>3. Under(h, i)' <=> Under(h, i)
      BY <1>9, <1>10, <2>1
    <3>4. QED
      BY <3>1, <3>2, <3>3
  <2>2. CASE h = g /\ i = n + 1 /\ blocked /\ subject = t0
    <3>1. windows'[h][i].prev = mask[subject]
      BY <1>3, <1>4, <2>2
    <3>2. ASSUME Under(h, i)' PROVE Masked
      <4>1. CASE \E j \in 1 .. i - 1 : Masks(h, j)'
        <5>1. PICK j \in 1 .. n : Masks(h, j)'
          BY <1>1, <2>2, <4>1
        <5>2. j \in Nat /\ j # n + 1
          BY <1>1
        <5>3. Masks(h, j) /\ j \in 1 .. Len(windows[h])
          BY <1>5, <2>2, <5>1, <5>2
        <5>4. QED
          BY <5>3 DEF Masked
      <4>2. CASE \E k \in strayed \ {h} : \E j \in 1 .. Len(windows'[k]) : Masks(k, j)'
        <5>1. PICK k \in strayed \ {h} : \E j \in 1 .. Len(windows'[k]) : Masks(k, j)'
          BY <4>2
        <5>2. PICK j \in 1 .. Len(windows'[k]) : Masks(k, j)'
          BY <5>1
        <5>3. k \in Goroutines
          BY DEF ScrubTypeOK
        <5>4. j \in Nat
          BY <1>7, <5>3
        <5>5. Masks(k, j) /\ j \in 1 .. Len(windows[k])
          BY <1>5, <1>6, <2>2, <5>2, <5>3, <5>4
        <5>6. QED
          BY <5>3, <5>5 DEF Masked
      <4>3. QED
        BY <3>2, <4>1, <4>2 DEF Under
    <3>3. ASSUME Masked PROVE Under(h, i)'
      <4>1. PICK k \in Goroutines : \E j \in 1 .. Len(windows[k]) : Masks(k, j)
        BY <3>3 DEF Masked
      <4>2. PICK j \in 1 .. Len(windows[k]) : Masks(k, j)
        BY <4>1
      <4>3. j \in Nat /\ Masks(k, j)'
        BY <1>5, <1>6, <4>2
      <4>4. CASE k = h
        <5>1. j \in 1 .. i - 1
          BY <1>1, <2>2, <4>4
        <5>2. QED
          BY <4>3, <4>4, <5>1 DEF Under
      <4>5. CASE k # h
        <5>1. k \in strayed
          BY <1>16, <2>2, <4>2, <4>5, OtherStrayed
        <5>2. j \in 1 .. Len(windows'[k])
          BY <4>3 DEF Masks
        <5>3. QED
          BY <4>3, <4>5, <5>1, <5>2 DEF Under
      <4>6. QED
        BY <4>4, <4>5
    <3>5. QED
      BY <1>16, <3>1, <3>2, <3>3
  <2>3. QED
    BY <1>5, <1>13, <2>0, <2>1, <2>2
<1>14. QED
  BY <1>11, <1>12, <1>13


\* restore keeps it: on the right thread the mask of the last window to go is the one the thread
\* came with, and elsewhere the thread is named.
LEMMA CloseMasks ==
  ASSUME ScrubInv, NEW g \in Goroutines, Close(g), UNCHANGED subject
  PROVE  StrayInv' /\ MaskInv'
<1> USE DEF ScrubInv
<1> DEFINE n == Len(windows[g])
           w == Top(g)
<1>1. g \in wiped /\ windows[g] # <<>> /\ windows[g] \in Seq(Windows) /\ on[g] \in Threads
  BY DEF Close, StepInv, ScrubTypeOK
<1>2. /\ n \in Nat \ {0} /\ Len(Front(windows[g])) = n - 1 /\ w = windows[g][n] /\ w \in Windows
      /\ \A i \in 1 .. n - 1 : Front(windows[g])[i] = windows[g][i]
  BY <1>1, Popped DEF Top
<1>3. w.tid \in Threads /\ w.prev \in BOOLEAN /\ w.active \in BOOLEAN
  BY <1>2 DEF Windows
<1>4. /\ \A h \in Goroutines : windows'[h] = IF h = g THEN Front(windows[g]) ELSE windows[h]
      /\ UNCHANGED <<home, on, strayed>>
  BY DEF Close, ScrubTypeOK
<1>5. \/ w.active /\ named' = (named \/ w.tid = subject) /\ UNCHANGED <<mask, slipped>> /\ on[g] # w.tid
      \/ ~w.active /\ UNCHANGED <<mask, named>> /\ slipped' = slipped
      \/ w.active /\ mask' = [mask EXCEPT ![on[g]] = w.prev] /\ UNCHANGED named
          /\ slipped' = (slipped \/ (on[g] # w.tid /\ subject \in {on[g], w.tid}))
  BY <1>3 DEF Close, restore, restorePanics, ScrubTypeOK
<1> HIDE DEF w
<1>6. ASSUME NEW h \in Goroutines, NEW i \in Nat
      PROVE  /\ Masks(h, i)' <=> (Masks(h, i) /\ ~(h = g /\ i = n))
             /\ Masks(h, i)' => windows'[h][i].prev = windows[h][i].prev
  <2>1. CASE h # g
    BY <1>4, <2>1 DEF Masks
  <2>2. CASE h = g /\ i \in 1 .. n - 1
    <3>1. windows'[h][i] = windows[h][i] /\ i \in 1 .. Len(windows'[h]) /\ i \in 1 .. Len(windows[h]) /\ i # n
      BY <1>2, <1>4, <2>2
    <3>2. QED
      BY <3>1 DEF Masks
  <2>3. CASE h = g /\ i \notin 1 .. n - 1
    <3>1. i \notin 1 .. Len(windows'[h]) /\ (i \in 1 .. Len(windows[h]) => i = n)
      BY <1>2, <1>4, <2>3
    <3>2. QED
      BY <2>3, <3>1 DEF Masks
  <2>4. QED
    BY <2>1, <2>2, <2>3
<1>7. \A h \in Goroutines : Len(windows[h]) \in Nat /\ Len(windows'[h]) \in Nat
  BY <1>2, <1>4 DEF ScrubTypeOK
<1>8. ASSUME NEW h \in Goroutines, NEW i, Masks(h, i)
      PROVE  i \in Nat /\ i \in 1 .. Len(windows[h])
  BY <1>7, <1>8 DEF Masks
<1>9. ASSUME NEW h \in Goroutines, NEW i, Masks(h, i)'
      PROVE  i \in Nat /\ i \in 1 .. Len(windows'[h])
  BY <1>7, <1>9 DEF Masks
<1>10. Masks(g, n) => w.active /\ w.tid = subject
  BY <1>2 DEF Masks
<1>11. ASSUME Masked' PROVE Masked
  <2>1. PICK h \in Goroutines : \E i \in 1 .. Len(windows'[h]) : Masks(h, i)'
    BY <1>11 DEF Masked
  <2>2. PICK i \in 1 .. Len(windows'[h]) : Masks(h, i)'
    BY <2>1
  <2>3. i \in Nat
    BY <1>9, <2>2
  <2>4. Masks(h, i) /\ i \in 1 .. Len(windows[h])
    BY <1>6, <1>8, <2>2, <2>3
  <2>5. QED
    BY <2>4 DEF Masked
<1>12. ASSUME NEW h \in Goroutines, NEW i, Masks(h, i), ~(h = g /\ i = n) PROVE Masked'
  <2>1. Masks(h, i)'
    BY <1>6, <1>8, <1>12
  <2>2. i \in 1 .. Len(windows'[h])
    BY <1>9, <2>1
  <2>3. QED
    BY <2>1, <2>2 DEF Masked
<1>13. ASSUME Masked, ~Masked' PROVE w.active /\ w.tid = subject
  <2>1. PICK h \in Goroutines : \E i \in 1 .. Len(windows[h]) : Masks(h, i)
    BY <1>13 DEF Masked
  <2>2. PICK i \in 1 .. Len(windows[h]) : Masks(h, i)
    BY <2>1
  <2>3. h = g /\ i = n
    BY <1>12, <1>13, <2>2
  <2>4. QED
    BY <1>10, <2>2, <2>3
<1>15. ASSUME NEW h \in Goroutines, NEW i \in Nat, Under(h, i)' PROVE Under(h, i)
  <2>1. CASE \E j \in 1 .. i - 1 : Masks(h, j)'
    <3>1. PICK j \in 1 .. i - 1 : Masks(h, j)'
      BY <2>1
    <3>2. j \in Nat
      OBVIOUS
    <3>3. QED
      BY <1>6, <3>1, <3>2 DEF Under
  <2>2. CASE \E k \in strayed \ {h} : \E j \in 1 .. Len(windows'[k]) : Masks(k, j)'
    <3>1. PICK k \in strayed \ {h} : \E j \in 1 .. Len(windows'[k]) : Masks(k, j)'
      BY <2>2
    <3>2. PICK j \in 1 .. Len(windows'[k]) : Masks(k, j)'
      BY <3>1
    <3>3. k \in Goroutines
      BY DEF ScrubTypeOK
    <3>4. j \in Nat
      BY <1>9, <3>2, <3>3
    <3>5. Masks(k, j) /\ j \in 1 .. Len(windows[k])
      BY <1>6, <1>8, <3>2, <3>3, <3>4
    <3>6. QED
      BY <3>5 DEF Under
  <2>3. QED
    BY <1>4, <1>15, <2>1, <2>2 DEF Under
<1>16. ASSUME NEW h \in Goroutines, NEW i, Masks(h, i)', Under(h, i), ~Under(h, i)'
       PROVE  w.active /\ w.tid = subject /\ h # g /\ g \in strayed
  <2>0. i \in Nat /\ Masks(h, i) /\ ~(h = g /\ i = n) /\ i \in 1 .. Len(windows[h])
    BY <1>6, <1>8, <1>9, <1>16
  <2>1. CASE \E j \in 1 .. i - 1 : Masks(h, j)
    <3>1. PICK j \in 1 .. i - 1 : Masks(h, j)
      BY <2>1
    <3>2. j \in Nat /\ ~(h = g /\ j = n)
      BY <1>2, <2>0
    <3>3. Masks(h, j)'
      BY <1>6, <3>1, <3>2
    <3>4. QED
      BY <1>16, <3>3 DEF Under
  <2>2. CASE \E k \in strayed \ {h} : \E j \in 1 .. Len(windows[k]) : Masks(k, j)
    <3>1. PICK k \in strayed \ {h} : \E j \in 1 .. Len(windows[k]) : Masks(k, j)
      BY <2>2
    <3>2. PICK j \in 1 .. Len(windows[k]) : Masks(k, j)
      BY <3>1
    <3>3. k \in Goroutines
      BY DEF ScrubTypeOK
    <3>4. CASE k = g /\ j = n
      BY <1>10, <3>1, <3>2, <3>4
    <3>5. CASE ~(k = g /\ j = n)
      <4>1. Masks(k, j)'
        BY <1>6, <1>8, <3>2, <3>3, <3>5
      <4>2. j \in 1 .. Len(windows'[k])
        BY <1>9, <3>3, <4>1
      <4>3. QED
        BY <1>4, <1>16, <3>1, <4>1, <4>2 DEF Under
    <3>6. QED
      BY <3>4, <3>5
  <2>3. QED
    BY <1>16, <2>1, <2>2 DEF Under
<1>17. w.active /\ w.tid = subject => Masks(g, n)
  BY <1>2 DEF Masks
<1>14. StrayInv'
  <2> SUFFICES ASSUME NEW h \in Goroutines \ strayed, NEW i \in 1 .. Len(windows'[h]), Masks(h, i)'
               PROVE  on[h] = subject
    BY <1>4 DEF StrayInv
  <2>1. Masks(h, i) /\ i \in 1 .. Len(windows[h])
    BY <1>6, <1>8, <1>9
  <2>2. QED
    BY <2>1 DEF StrayInv
<1>20. SUFFICES ASSUME Watched'
                PROVE  /\ Masked' => mask'[subject]
                       /\ mask'[subject] # home[subject] => named' \/ Masked'
                       /\ \A h \in Goroutines : \A i \in 1 .. Len(windows'[h]) : Masks(h, i)' =>
                            /\ ~windows'[h][i].prev => ~Under(h, i)'
                            /\ windows'[h][i].prev # home[subject] => named' \/ Under(h, i)'
  BY <1>4, <1>14, <1>20 DEF MaskInv
<1>24. Watched /\ subject \in Threads /\ (\A k, h \in strayed : k = h) /\ ~slipped'
  <2>1. subject \in Threads /\ ~slipped' /\ \A k, h \in strayed : k = h
    BY <1>4, <1>20 DEF Watched
  <2>2. slipped => slipped'
    BY <1>5
  <2>3. QED
    BY <2>1, <2>2 DEF Watched
<1>21. /\ Masked => mask[subject]
       /\ mask[subject] # home[subject] => named \/ Masked
  BY <1>24 DEF MaskInv
<1>18. w.active /\ w.tid = subject =>
         /\ ~w.prev => ~Under(g, n)
         /\ w.prev # home[subject] => named \/ Under(g, n)
  BY <1>2, <1>3, <1>17, <1>24 DEF MaskInv
<1>19. /\ named => named'
       /\ \/ w.active /\ w.tid = subject /\ on[g] = subject /\ mask'[subject] = w.prev /\ named' = named
          \/ w.active /\ w.tid = subject /\ on[g] # subject /\ mask'[subject] = mask[subject] /\ named'
          \/ ~(w.active /\ w.tid = subject) /\ mask'[subject] = mask[subject] /\ named' = named
  <2>1. CASE w.active /\ named' = (named \/ w.tid = subject) /\ UNCHANGED <<mask, slipped>> /\ on[g] # w.tid
    BY <2>1 DEF ScrubTypeOK
  <2>2. CASE ~w.active /\ UNCHANGED <<mask, named>>
    BY <2>2
  <2>3. CASE /\ w.active /\ mask' = [mask EXCEPT ![on[g]] = w.prev] /\ UNCHANGED named
             /\ slipped' = (slipped \/ (on[g] # w.tid /\ subject \in {on[g], w.tid}))
    <3>1. on[g] = w.tid \/ subject \notin {on[g], w.tid}
      BY <1>24, <2>3
    <3>2. \A th \in Threads : mask'[th] = IF th = on[g] THEN w.prev ELSE mask[th]
      BY <1>1, <2>3 DEF ScrubTypeOK
    <3>3. QED
      BY <1>1, <1>24, <2>3, <3>1, <3>2
  <2>4. QED
    BY <1>5, <2>1, <2>2, <2>3
<1>22. /\ Masked' => mask'[subject]
       /\ mask'[subject] # home[subject] => named' \/ Masked'
  <2>1. CASE w.active /\ w.tid = subject /\ on[g] = subject /\ mask'[subject] = w.prev /\ named' = named
    <3>2. ASSUME Masked' PROVE Under(g, n)
      <4>1. PICK h \in Goroutines : \E i \in 1 .. Len(windows'[h]) : Masks(h, i)'
        BY <3>2 DEF Masked
      <4>2. PICK i \in 1 .. Len(windows'[h]) : Masks(h, i)'
        BY <4>1
      <4>3. i \in Nat /\ Masks(h, i) /\ i \in 1 .. Len(windows[h]) /\ ~(h = g /\ i = n)
        BY <1>6, <1>8, <1>9, <4>2
      <4>4. CASE h = g
        <5>1. i \in 1 .. n - 1
          BY <1>2, <4>3, <4>4
        <5>2. QED
          BY <4>3, <4>4, <5>1 DEF Under
      <4>5. CASE h # g
        <5>1. h \in strayed
          BY <1>24, <2>1, <4>3, <4>5, OtherStrayed
        <5>2. QED
          BY <4>3, <4>5, <5>1 DEF Under
      <4>6. QED
        BY <4>4, <4>5
    <3>3. ASSUME Under(g, n) PROVE Masked'
      <4>1. CASE \E j \in 1 .. n - 1 : Masks(g, j)
        BY <1>2, <1>12, <4>1
      <4>2. CASE \E h \in strayed \ {g} : \E j \in 1 .. Len(windows[h]) : Masks(h, j)
        BY <1>12, <4>2 DEF ScrubTypeOK
      <4>3. QED
        BY <3>3, <4>1, <4>2 DEF Under
    <3>4. QED
      BY <1>3, <1>18, <2>1, <3>2, <3>3
  <2>2. CASE w.active /\ w.tid = subject /\ on[g] # subject /\ mask'[subject] = mask[subject] /\ named'
    BY <1>11, <1>21, <2>2
  <2>3. CASE ~(w.active /\ w.tid = subject) /\ mask'[subject] = mask[subject] /\ named' = named
    BY <1>11, <1>13, <1>21, <2>3
  <2>4. QED
    BY <1>19, <2>1, <2>2, <2>3
<1>23. ASSUME NEW h \in Goroutines, NEW i \in 1 .. Len(windows'[h]), Masks(h, i)'
       PROVE  /\ ~windows'[h][i].prev => ~Under(h, i)'
              /\ windows'[h][i].prev # home[subject] => named' \/ Under(h, i)'
  <2>1. i \in Nat /\ Masks(h, i) /\ i \in 1 .. Len(windows[h]) /\ windows'[h][i].prev = windows[h][i].prev
    BY <1>6, <1>8, <1>9, <1>23
  <2>2. /\ ~windows[h][i].prev => ~Under(h, i)
        /\ windows[h][i].prev # home[subject] => named \/ Under(h, i)
    BY <1>24, <2>1 DEF MaskInv
  <2>3. Under(h, i)' => Under(h, i)
    BY <1>15, <2>1
  <2>4. ASSUME Under(h, i), ~Under(h, i)' PROVE named'
    <3>1. w.active /\ w.tid = subject /\ h # g /\ g \in strayed
      BY <1>16, <1>23, <2>4
    <3>2. on[g] # subject
      <4>1. ASSUME on[g] = subject PROVE FALSE
        <5>1. h \in strayed
          BY <1>24, <2>1, <3>1, <4>1, OtherStrayed
        <5>2. QED
          BY <1>24, <3>1, <5>1
      <4>2. QED
        BY <4>1
    <3>3. QED
      BY <1>19, <3>1, <3>2
  <2>5. QED
    BY <1>19, <2>1, <2>2, <2>3, <2>4
<1>25. QED
  BY <1>22, <1>23

\* A goroutine that leaves the subject joins those who have strayed: if it masks the subject
\* with another one that does, two have.
LEMMA ScheduleMasks ==
  ASSUME ScrubInv, NEW g \in Goroutines, Schedule(g), UNCHANGED subject
  PROVE  StrayInv' /\ MaskInv'
<1> USE DEF ScrubInv
<1>1. /\ UNCHANGED <<mask, home, windows, named, slipped>>
      /\ strayed' = IF on[g] = subject /\ Masking(g, subject) # {} THEN strayed \cup {g} ELSE strayed
  BY DEF Schedule
<1>2. \A h \in Goroutines \ {g} : on'[h] = on[h]
  BY DEF Schedule, ScrubTypeOK
<1>3. \A h \in Goroutines : \A i \in 1 .. Len(windows[h]) : Masks(h, i) => Masking(h, subject) # {}
  <2> SUFFICES ASSUME NEW h \in Goroutines, NEW i \in 1 .. Len(windows[h]), Masks(h, i)
               PROVE  Masking(h, subject) # {}
    OBVIOUS
  <2>1. DOMAIN windows[h] = 1 .. Len(windows[h])
    BY DEF ScrubTypeOK
  <2>2. windows[h][i] \in Range(windows[h])
    BY <2>1 DEF Range
  <2>3. windows[h][i] \in Masking(h, subject)
    BY <2>2 DEF Masking, Masks
  <2>4. QED
    BY <2>3
<1>4. \A h, i : Masks(h, i)' = Masks(h, i)
  BY <1>1 DEF Masks
<1>5. Masked' = Masked
  BY <1>1, <1>4 DEF Masked
<1>6. StrayInv'
  <2> SUFFICES ASSUME NEW h \in Goroutines \ strayed', NEW i \in 1 .. Len(windows[h]), Masks(h, i)
               PROVE  on'[h] = subject
    BY <1>1, <1>4 DEF StrayInv
  <2>1. h \notin strayed
    BY <1>1
  <2>2. on[h] = subject
    BY <2>1 DEF StrayInv
  <2>3. h # g
    BY <1>1, <1>3, <2>2
  <2>4. QED
    BY <1>2, <2>2, <2>3
<1>7. ASSUME Watched', NEW h \in Goroutines, NEW i \in 1 .. Len(windows[h]), Masks(h, i)
      PROVE  Under(h, i)' <=> Under(h, i)
  <2>1. CASE strayed' = strayed
    BY <1>1, <1>4, <2>1 DEF Under
  <2>2. CASE strayed' = strayed \cup {g} /\ on[g] = subject
    <3>1. subject \in Threads /\ \A k, l \in strayed' : k = l
      BY <1>7 DEF Watched
    <3>2. h = g
      <4>1. ASSUME h # g PROVE FALSE
        <5>1. h \in strayed
          BY <1>7, <2>2, <3>1, <4>1, OtherStrayed
        <5>2. QED
          BY <2>2, <3>1, <4>1, <5>1
      <4>2. QED
        BY <4>1
    <3>3. strayed' \ {h} = strayed \ {h}
      BY <2>2, <3>2
    <3>4. QED
      BY <1>1, <1>4, <3>3 DEF Under
  <2>3. QED
    BY <1>1, <2>1, <2>2
<1>8. Watched' => Watched
  BY <1>1 DEF Watched
<1>9. MaskInv'
  BY <1>1, <1>4, <1>5, <1>7, <1>8 DEF MaskInv
<1>10. QED
  BY <1>6, <1>9

\* Nothing else has a say in the masks.
LEMMA MaskKept ==
  ASSUME StrayInv, MaskInv, UNCHANGED <<on, mask, home, windows, named, subject, strayed, slipped>>
  PROVE  StrayInv' /\ MaskInv'
<1>1. \A g, i : Masks(g, i)' = Masks(g, i)
  BY DEF Masks
<1>2. \A g, i : Under(g, i)' = Under(g, i)
  BY <1>1 DEF Under
<1>3. Masked' = Masked
  BY <1>1 DEF Masked
<1>4. Watched' = Watched
  BY DEF Watched
<1>5. QED
  BY <1>1, <1>2, <1>3, <1>4 DEF MaskInv, StrayInv


\* The scheduler and the kernel: a pinned goroutine stays where it is, and SIGURG spills the
\* registers of the owner's thread only to the owner's stack.
LEMMA SystemStep ==
  ASSUME ScrubInv, NEW g \in Goroutines, UNCHANGED <<owner, subject>>
  PROVE  Schedule(g) \/ AsyncPreempt(g) => ScrubInv'
<1> USE DEF ScrubInv
<1>1. ASSUME Schedule(g) PROVE ScrubInv'
  <2>1. PICK th \in (Threads \cup {NoThread}) \ {on[g]} :
          /\ \A h \in Goroutines \ {g} : th = NoThread \/ on[h] # th
          /\ on' = [on EXCEPT ![g] = th]
    BY <1>1 DEF Schedule
  <2>2. /\ pins[g] = 0 /\ (strayed' = strayed \/ strayed' = strayed \cup {g})
        /\ UNCHANGED <<pins, mask, home, windows, opened, step, regs, band, wiped, checked, named,
                       unbalanced, slipped>>
    BY <1>1 DEF Schedule, residue
  <2>3. \A h \in Goroutines : on'[h] = IF h = g THEN th ELSE on[h]
    BY <2>1 DEF ScrubTypeOK
  <2>4. ScrubTypeOK'
    BY <2>1, <2>2 DEF ScrubTypeOK
  <2>5. g \notin unbalanced => windows[g] = <<>>
    <3>1. windows[g] \in Seq(Windows)
      BY DEF ScrubTypeOK
    <3>2. QED
      BY <2>2, <3>1 DEF PlaceInv
  <2>6. PlaceInv'
    <3>1. \A h, k \in Goroutines : on'[h] = on'[k] /\ on'[h] # NoThread => h = k
      BY <2>1, <2>3 DEF PlaceInv
    <3>2. ASSUME NEW h \in Goroutines \ unbalanced
          PROVE  /\ pins'[h] = Len(windows'[h])
                 /\ \A i \in 1 .. Len(windows'[h]) : windows'[h][i].tid = on'[h]
      <4>1. CASE h = g
        <5>1. windows'[h] = <<>> /\ Len(windows'[h]) = 0
          BY <2>2, <2>5, <4>1
        <5>2. QED
          BY <2>2, <4>1, <5>1
      <4>2. CASE h # g
        BY <2>2, <2>3, <4>2 DEF PlaceInv
      <4>3. QED
        BY <4>1, <4>2
    <3>3. QED
      BY <2>2, <3>1, <3>2 DEF PlaceInv
  <2>7. StepInv'
    BY <2>2 DEF StepInv
  <2>8. CopyInv' /\ PinnedInv'
    <3>1. SUFFICES ASSUME owner \in Goroutines \ unbalanced
                   PROVE  CopyInv' /\ PinnedInv'
      BY <2>2 DEF CopyInv, PinnedInv
    <3>2. CASE g = owner
      <4>1. windows[owner] = <<>> /\ Len(windows[owner]) = 0 /\ regs = {} /\ band = {}
        BY <2>5, <3>1, <3>2 DEF CopyInv
      <4>2. QED
        BY <2>2, <4>1 DEF CopyInv, PinnedInv
    <3>3. CASE g # owner
      <4>1. on'[owner] = on[owner]
        BY <2>3, <3>1, <3>3
      <4>2. CopyInv'
        BY <2>2, <4>1 DEF CopyInv
      <4>3. PinnedInv'
        BY <2>2, <4>1 DEF PinnedInv
      <4>4. QED
        BY <4>2, <4>3
    <3>4. QED
      BY <3>2, <3>3
  <2>9. QED
    BY <1>1, <2>4, <2>6, <2>7, <2>8, ScheduleMasks
<1>2. ASSUME AsyncPreempt(g) PROVE ScrubInv'
  <2>1. /\ on[g] \in regs /\ band' = band \cup {g}
        /\ UNCHANGED <<on, pins, mask, home, windows, opened, step, regs, wiped, checked, named,
                       unbalanced, strayed, slipped>>
    BY <1>2 DEF AsyncPreempt, place, misuse
  <2>2. ScrubTypeOK'
    BY <2>1 DEF ScrubTypeOK
  <2>3. PlaceInv' /\ StepInv' /\ PinnedInv'
    BY <2>1 DEF PlaceInv, StepInv, PinnedInv
  <2>4. CopyInv'
    <3>1. SUFFICES ASSUME owner \in Goroutines \ unbalanced PROVE CopyInv'
      BY <2>1 DEF CopyInv
    <3>2. on[g] = on[owner] /\ on[g] # NoThread
      BY <2>1, <3>1, ScrubAssumption DEF CopyInv, ScrubTypeOK
    <3>3. g = owner
      BY <3>1, <3>2 DEF PlaceInv
    <3>4. QED
      BY <2>1, <3>1, <3>3 DEF CopyInv
  <2>5. QED
    BY <2>1, <2>2, <2>3, <2>4, MaskKept
<1>3. QED
  BY <1>1, <1>2

\* The steps of a window that leave its stack alone.
LEMMA InsideStep ==
  ASSUME ScrubInv, NEW g \in Goroutines, UNCHANGED <<owner, subject>>
  PROVE  Compute(g) \/ Unbalance(g) \/ (\E how \in {"return", "panic", "goexit"} : FnEnds(g, how))
           \/ clearAndWipe(g) \/ restoreCheck(g) => ScrubInv'
<1> USE DEF ScrubInv
<1>1. ASSUME Compute(g) PROVE ScrubInv'
  <2>1. /\ g = owner /\ windows[g] # <<>> /\ step[g] = "fn" /\ on[g] # NoThread
        /\ regs' = regs \cup {on[g]} /\ band' = band \cup {g}
        /\ UNCHANGED <<on, pins, mask, home, windows, opened, step, wiped, checked, named,
                       unbalanced, strayed, slipped>>
    BY <1>1 DEF Compute, InFn, place, misuse
  <2>2. ScrubTypeOK'
    BY <2>1 DEF ScrubTypeOK
  <2>3. PlaceInv' /\ StepInv' /\ PinnedInv'
    BY <2>1 DEF PlaceInv, StepInv, PinnedInv
  <2>4. g \notin wiped
    BY <2>1 DEF StepInv
  <2>5. CopyInv'
    BY <2>1, <2>4 DEF CopyInv
  <2>6. QED
    BY <2>1, <2>2, <2>3, <2>5, MaskKept
<1>2. ASSUME Unbalance(g) PROVE ScrubInv'
  <2>1. /\ pins[g] > 0 /\ pins' = [pins EXCEPT ![g] = @ - 1] /\ unbalanced' = unbalanced \cup {g}
        /\ UNCHANGED <<on, mask, home, windows, opened, step, regs, band, wiped, checked, named,
                       strayed, slipped>>
    BY <1>2 DEF Unbalance, residue
  <2>2. pins[g] - 1 \in Nat
    <3>1. pins[g] \in Nat
      BY DEF ScrubTypeOK
    <3>2. QED
      BY <2>1, <3>1
  <2>3. ScrubTypeOK'
    BY <2>1, <2>2 DEF ScrubTypeOK
  <2>4. PlaceInv' /\ StepInv'
    BY <2>1 DEF PlaceInv, StepInv, ScrubTypeOK
  <2>5. CopyInv' /\ PinnedInv'
    BY <2>1 DEF CopyInv, PinnedInv
  <2>6. QED
    BY <2>1, <2>3, <2>4, <2>5, MaskKept
<1>3. ASSUME NEW how \in {"return", "panic", "goexit"}, FnEnds(g, how) PROVE ScrubInv'
  <2>1. /\ windows[g] # <<>> /\ step[g] = "fn" /\ step' = [step EXCEPT ![g] = how]
        /\ UNCHANGED <<on, pins, mask, home, windows, opened, regs, band, wiped, checked, named,
                       unbalanced, strayed, slipped>>
    BY <1>3 DEF FnEnds, InFn, place, residue, misuse
  <2>2. ScrubTypeOK'
    BY <2>1 DEF ScrubTypeOK
  <2>3. \A h \in Goroutines : step'[h] = IF h = g THEN how ELSE step[h]
    BY <2>1 DEF ScrubTypeOK
  <2>4. StepInv'
    BY <2>1, <2>3 DEF StepInv, ScrubTypeOK
  <2>5. PlaceInv' /\ CopyInv' /\ PinnedInv'
    BY <2>1 DEF PlaceInv, CopyInv, PinnedInv
  <2>6. QED
    BY <2>1, <2>2, <2>4, <2>5, MaskKept
<1>4. ASSUME clearAndWipe(g) PROVE ScrubInv'
  <2>1. /\ step[g] \in {"return", "panic", "goexit"} /\ on[g] # NoThread
        /\ regs' = regs \ {on[g]} /\ band' = band \ {g} /\ wiped' = wiped \cup {g}
        /\ UNCHANGED <<on, pins, mask, home, windows, opened, step, checked, named,
                       unbalanced, strayed, slipped>>
    BY <1>4 DEF clearAndWipe, place, misuse
  <2>2. ScrubTypeOK'
    BY <2>1 DEF ScrubTypeOK
  <2>3. PlaceInv' /\ StepInv' /\ PinnedInv'
    BY <2>1 DEF PlaceInv, StepInv, PinnedInv
  <2>4. CopyInv'
    BY <2>1 DEF CopyInv
  <2>5. QED
    BY <2>1, <2>2, <2>3, <2>4, MaskKept
<1>5. ASSUME restoreCheck(g) PROVE ScrubInv'
  <2>1. /\ checked' = checked \cup {g}
        /\ UNCHANGED <<on, pins, mask, home, windows, opened, step, regs, band, wiped, named,
                       unbalanced, strayed, slipped>>
    BY <1>5 DEF restoreCheck, place, residue, misuse
  <2>2. ScrubTypeOK'
    BY <2>1 DEF ScrubTypeOK
  <2>3. PlaceInv' /\ StepInv' /\ CopyInv' /\ PinnedInv'
    BY <2>1 DEF PlaceInv, StepInv, CopyInv, PinnedInv
  <2>4. QED
    BY <2>1, <2>2, <2>3, MaskKept
<1>6. QED
  BY <1>1, <1>2, <1>3, <1>4, <1>5

\* Scrub's entry.
LEMMA OpenStep ==
  ASSUME ScrubInv, NEW g \in Goroutines, Open(g), UNCHANGED <<owner, subject>>
  PROVE  ScrubInv'
<1> USE DEF ScrubInv
<1> DEFINE t0 == on[g]
           n == Len(windows[g])
<1>1. PICK blocked \in BOOLEAN : suppressAsyncPreempt(g, blocked)
  BY DEF Open
<1>2. /\ on[g] # NoThread /\ step[g] \in {"out", "fn"} /\ band' = band \ {g}
      /\ step' = [step EXCEPT ![g] = "fn"] /\ opened' = [opened EXCEPT ![g] = @ + 1]
      /\ UNCHANGED <<on, home, regs, wiped, checked, named, unbalanced, strayed, slipped>>
  BY DEF Open, InFn, misuse
<1>3. t0 \in Threads /\ n \in Nat /\ windows[g] \in Seq(Windows) /\ mask[t0] \in BOOLEAN /\ pins[g] \in Nat
  BY <1>2 DEF ScrubTypeOK
<1> DEFINE w == [tid |-> t0, prev |-> mask[t0], active |-> blocked]
<1>4. w \in Windows /\ w.tid = t0 /\ w.prev = mask[t0] /\ w.active = blocked
  BY <1>3 DEF Windows
<1>5. /\ pins' = [pins EXCEPT ![g] = @ + 1] /\ mask' = IF blocked THEN [mask EXCEPT ![t0] = TRUE] ELSE mask
      /\ windows' = [windows EXCEPT ![g] = Append(@, w)]
  BY <1>1 DEF suppressAsyncPreempt
<1> HIDE DEF w
<1>6. /\ Append(windows[g], w) \in Seq(Windows) /\ Len(Append(windows[g], w)) = n + 1 /\ Append(windows[g], w) # <<>>
      /\ \A i \in 1 .. n + 1 : Append(windows[g], w)[i] = IF i = n + 1 THEN w ELSE windows[g][i]
  BY <1>3, <1>4
<1>7. \A h \in Goroutines :
        /\ windows'[h] = IF h = g THEN Append(windows[g], w) ELSE windows[h]
        /\ pins'[h] = IF h = g THEN pins[g] + 1 ELSE pins[h]
        /\ step'[h] = IF h = g THEN "fn" ELSE step[h]
  BY <1>2, <1>5 DEF ScrubTypeOK
<1>8. ScrubTypeOK'
  <2>1. windows' \in [Goroutines -> Seq(Windows)]
    BY <1>5, <1>6 DEF ScrubTypeOK
  <2>2. pins[g] + 1 \in Nat /\ opened[g] + 1 \in Nat
    BY <1>3 DEF ScrubTypeOK
  <2>3. pins' \in [Goroutines -> Nat] /\ opened' \in [Goroutines -> Nat]
    BY <1>2, <1>5, <2>2 DEF ScrubTypeOK
  <2>4. mask' \in [Threads -> BOOLEAN]
    BY <1>5, Zenon DEF ScrubTypeOK
  <2>5. QED
    BY <1>2, <2>1, <2>3, <2>4 DEF ScrubTypeOK
<1>9. PlaceInv'
  <2>1. ASSUME NEW h \in Goroutines \ unbalanced
        PROVE  /\ pins'[h] = Len(windows'[h])
               /\ \A i \in 1 .. Len(windows'[h]) : windows'[h][i].tid = on'[h]
    <3>1. CASE h = g
      <4>1. pins[g] = n /\ \A i \in 1 .. n : windows[g][i].tid = t0
        BY <3>1 DEF PlaceInv
      <4>2. windows'[h] = Append(windows[g], w) /\ pins'[h] = n + 1
        BY <1>7, <3>1, <4>1
      <4>3. ASSUME NEW i \in 1 .. n + 1 PROVE Append(windows[g], w)[i].tid = t0
        BY <1>3, <1>4, <1>6, <4>1
      <4>4. QED
        BY <1>2, <1>6, <3>1, <4>2, <4>3
    <3>2. CASE h # g
      BY <1>2, <1>7, <3>2 DEF PlaceInv
    <3>3. QED
      BY <3>1, <3>2
  <2>2. QED
    BY <1>2, <2>1 DEF PlaceInv
<1>10. StepInv'
  BY <1>2, <1>6, <1>7 DEF StepInv, ScrubTypeOK
<1>11. CopyInv'
  <2>1. SUFFICES ASSUME owner \in Goroutines \ unbalanced PROVE CopyInv'
    BY <1>2 DEF CopyInv
  <2>2. windows'[owner] = <<>> => windows[owner] = <<>>
    BY <1>6, <1>7, <2>1
  <2>3. QED
    BY <1>2, <2>1, <2>2 DEF CopyInv
<1>12. PinnedInv'
  <2>1. SUFFICES ASSUME owner \in Goroutines \ unbalanced,
                        NEW i \in 1 .. Len(windows'[owner]), windows'[owner][i].active
                 PROVE  /\ mask'[on[owner]]
                        /\ \A j \in i + 1 .. Len(windows'[owner]) : windows'[owner][j].prev
    BY <1>2 DEF PinnedInv
  <2>2. \A th \in Threads : mask'[th] = IF blocked /\ th = t0 THEN TRUE ELSE mask[th]
    BY <1>3, <1>5 DEF ScrubTypeOK
  <2>3. CASE owner # g
    <3>1. windows'[owner] = windows[owner]
      BY <1>7, <2>1, <2>3
    <3>2. /\ mask[on[owner]]
          /\ \A j \in i + 1 .. Len(windows[owner]) : windows[owner][j].prev
      BY <2>1, <3>1 DEF PinnedInv
    <3>3. mask'[on[owner]]
      BY <1>5, <3>2 DEF ScrubTypeOK
    <3>4. QED
      BY <3>1, <3>2, <3>3
  <2>4. CASE owner = g
    <3>1. windows'[owner] = Append(windows[g], w) /\ i \in 1 .. n + 1
      BY <1>6, <1>7, <2>1, <2>4
    <3>2. CASE i = n + 1
      <4>1. blocked
        BY <1>3, <1>4, <1>6, <2>1, <3>1, <3>2
      <4>2. i + 1 .. Len(windows'[owner]) = {}
        BY <1>3, <1>6, <3>1, <3>2
      <4>3. QED
        BY <1>3, <2>2, <2>4, <4>1, <4>2
    <3>3. CASE i # n + 1
      <4>1. i \in 1 .. n /\ windows[owner][i].active
        BY <1>3, <1>6, <2>1, <2>4, <3>1, <3>3
      <4>2. /\ mask[on[owner]]
            /\ \A j \in i + 1 .. n : windows[owner][j].prev
        BY <2>1, <2>4, <4>1 DEF PinnedInv
      <4>3. ASSUME NEW j \in i + 1 .. n + 1 PROVE windows'[owner][j].prev
        <5>1. CASE j = n + 1
          <6>1. n + 1 \in 1 .. n + 1
            BY <1>3
          <6>2. windows'[owner][j] = w
            BY <1>6, <3>1, <5>1, <6>1
          <6>3. w.prev
            BY <1>4, <2>4, <4>2
          <6>4. QED
            BY <6>2, <6>3
        <5>2. CASE j # n + 1
          <6>1. j \in i + 1 .. n /\ j \in 1 .. n + 1
            BY <1>3, <4>1, <5>2
          <6>2. windows'[owner][j] = windows[owner][j]
            BY <1>6, <2>4, <3>1, <5>2, <6>1
          <6>3. QED
            BY <4>2, <6>1, <6>2
        <5>3. QED
          BY <5>1, <5>2
      <4>4. QED
        BY <1>3, <1>6, <2>2, <2>4, <3>1, <4>2, <4>3
    <3>4. QED
      BY <3>2, <3>3
  <2>5. QED
    BY <2>3, <2>4
<1>13. StrayInv' /\ MaskInv'
  BY <1>1, <1>2, OpenMasks
<1>14. QED
  BY <1>8, <1>9, <1>10, <1>11, <1>12, <1>13

\* Scrub's way out.
LEMMA CloseStep ==
  ASSUME ScrubInv, NEW g \in Goroutines, Close(g), UNCHANGED <<owner, subject>>
  PROVE  ScrubInv'
<1> USE DEF ScrubInv
<1> DEFINE n == Len(windows[g])
           w == Top(g)
<1>1. /\ g \in wiped /\ windows[g] # <<>> /\ windows[g] \in Seq(Windows) /\ on[g] \in Threads
      /\ step[g] \in {"return", "panic", "goexit"} /\ pins[g] \in Nat
  BY DEF Close, StepInv, ScrubTypeOK
<1>2. /\ n \in Nat \ {0} /\ Front(windows[g]) \in Seq(Windows) /\ Len(Front(windows[g])) = n - 1
      /\ w = windows[g][n] /\ w \in Windows /\ ((Front(windows[g]) = <<>>) <=> (n = 1))
      /\ \A i \in 1 .. n - 1 : Front(windows[g])[i] = windows[g][i]
  BY <1>1, Popped DEF Top
<1>3. w.tid \in Threads /\ w.prev \in BOOLEAN /\ w.active \in BOOLEAN
  BY <1>2 DEF Windows
<1>4. /\ windows' = [windows EXCEPT ![g] = Front(@)] /\ wiped' = wiped \ {g} /\ checked' = checked \ {g}
      /\ UNCHANGED <<on, home, opened, regs, band, unbalanced, strayed>>
  BY DEF Close, residue
<1>5. g \notin unbalanced => w.tid = on[g]
  BY <1>2 DEF PlaceInv
<1>6. PICK s \in {"out", "fn", "panic", "goexit", "exited"} :
        step' = [step EXCEPT ![g] = s] /\ (s \in {"out", "exited"} <=> n = 1)
  BY <1>1 DEF Close, restore, restorePanics, Outer, ScrubTypeOK
<1>7. /\ named' \in BOOLEAN /\ slipped' \in BOOLEAN
      /\ mask' = mask \/ mask' = [mask EXCEPT ![on[g]] = w.prev]
      /\ pins' = pins \/ pins' = [pins EXCEPT ![g] = IF @ = 0 THEN 0 ELSE @ - 1]
      /\ w.tid = on[g] => pins' = [pins EXCEPT ![g] = IF @ = 0 THEN 0 ELSE @ - 1]
  BY <1>3 DEF Close, restore, restorePanics, UnlockOSThread, ScrubTypeOK
<1> HIDE DEF w
<1>8. \A h \in Goroutines :
        /\ windows'[h] = IF h = g THEN Front(windows[g]) ELSE windows[h]
        /\ step'[h] = IF h = g THEN s ELSE step[h]
        /\ h # g => pins'[h] = pins[h]
  BY <1>4, <1>6, <1>7 DEF ScrubTypeOK
<1>9. ScrubTypeOK'
  <2>1. windows' \in [Goroutines -> Seq(Windows)]
    BY <1>2, <1>4 DEF ScrubTypeOK
  <2>2. (IF pins[g] = 0 THEN 0 ELSE pins[g] - 1) \in Nat
    BY <1>1
  <2>3. pins' \in [Goroutines -> Nat]
    BY <1>7, <2>2 DEF ScrubTypeOK
  <2>4. mask' \in [Threads -> BOOLEAN]
    BY <1>3, <1>7, Zenon DEF ScrubTypeOK
  <2>5. step' \in [Goroutines -> {"out", "fn", "return", "panic", "goexit", "exited"}]
    BY <1>6 DEF ScrubTypeOK
  <2>6. QED
    BY <1>4, <1>7, <2>1, <2>3, <2>4, <2>5 DEF ScrubTypeOK
<1>10. PlaceInv'
  <2>1. ASSUME NEW h \in Goroutines \ unbalanced
        PROVE  /\ pins'[h] = Len(windows'[h])
               /\ \A i \in 1 .. Len(windows'[h]) : windows'[h][i].tid = on'[h]
    <3>1. CASE h = g
      <4>1. pins[g] = n /\ \A i \in 1 .. n : windows[g][i].tid = on[g]
        BY <3>1 DEF PlaceInv
      <4>2. pins'[h] = n - 1
        BY <1>2, <1>5, <1>7, <3>1, <4>1 DEF ScrubTypeOK
      <4>3. \A i \in 1 .. n - 1 : Front(windows[g])[i].tid = on[g]
        BY <1>2, <4>1
      <4>4. QED
        BY <1>2, <1>4, <1>8, <3>1, <4>2, <4>3
    <3>2. CASE h # g
      BY <1>4, <1>8, <3>2 DEF PlaceInv
    <3>3. QED
      BY <3>1, <3>2
  <2>2. QED
    BY <1>4, <2>1 DEF PlaceInv
<1>11. StepInv'
  <2>1. \A h \in Goroutines : (windows'[h] = <<>>) <=> (step'[h] \in {"out", "exited"})
    BY <1>2, <1>6, <1>8 DEF StepInv
  <2>2. \A h \in wiped' : step'[h] \in {"return", "panic", "goexit"}
    BY <1>4, <1>8 DEF StepInv, ScrubTypeOK
  <2>3. QED
    BY <2>1, <2>2 DEF StepInv
<1>12. CopyInv'
  <2>1. SUFFICES ASSUME owner \in Goroutines \ unbalanced PROVE CopyInv'
    BY <1>4 DEF CopyInv
  <2>2. CASE owner = g
    <3>1. regs = {} /\ band = {}
      BY <1>1, <2>1, <2>2 DEF CopyInv
    <3>2. QED
      BY <1>4, <3>1 DEF CopyInv
  <2>3. CASE owner # g
    <3>1. windows'[owner] = windows[owner]
      BY <1>8, <2>1, <2>3
    <3>2. QED
      BY <1>4, <2>1, <3>1 DEF CopyInv
  <2>4. QED
    BY <2>2, <2>3
<1>13. PinnedInv'
  <2>1. SUFFICES ASSUME owner \in Goroutines \ unbalanced,
                        NEW i \in 1 .. Len(windows'[owner]), windows'[owner][i].active
                 PROVE  /\ mask'[on[owner]]
                        /\ \A j \in i + 1 .. Len(windows'[owner]) : windows'[owner][j].prev
    BY <1>4 DEF PinnedInv
  <2>2. CASE owner # g
    <3>1. windows'[owner] = windows[owner]
      BY <1>8, <2>1, <2>2
    <3>2. /\ mask[on[owner]]
          /\ \A j \in i + 1 .. Len(windows[owner]) : windows[owner][j].prev
      BY <2>1, <3>1 DEF PinnedInv
    <3>3. on[owner] # on[g]
      BY <1>1, <2>1, <2>2, ScrubAssumption DEF PlaceInv
    <3>6. windows[owner] \in Seq(Windows) /\ i \in 1 .. Len(windows[owner]) /\ windows[owner][i].tid = on[owner]
      BY <2>1, <3>1 DEF PlaceInv, ScrubTypeOK
    <3>7. on[owner] \in Threads
      <4>1. windows[owner][i] \in Windows
        BY <3>6
      <4>2. QED
        BY <3>6, <4>1 DEF Windows
    <3>4. mask'[on[owner]] = mask[on[owner]]
      BY <1>7, <3>3, <3>7 DEF ScrubTypeOK
    <3>5. QED
      BY <3>1, <3>2, <3>4
  <2>3. CASE owner = g
    <3>1. i \in 1 .. n - 1 /\ Len(windows'[owner]) = n - 1 /\ windows'[owner] = Front(windows[g])
      BY <1>2, <1>8, <2>1, <2>3
    <3>2. windows[owner][i].active /\ i \in 1 .. n /\ n \in i + 1 .. n
      BY <1>2, <2>1, <2>3, <3>1
    <3>3. /\ mask[on[owner]]
          /\ \A j \in i + 1 .. n : windows[owner][j].prev
      BY <2>1, <2>3, <3>2 DEF PinnedInv
    <3>4. w.prev
      BY <1>2, <2>3, <3>2, <3>3
    <3>5. mask'[on[owner]]
      BY <1>1, <1>7, <2>3, <3>3, <3>4 DEF ScrubTypeOK
    <3>6. ASSUME NEW j \in i + 1 .. n - 1 PROVE windows'[owner][j].prev
      <4>1. j \in 1 .. n - 1 /\ j \in i + 1 .. n
        BY <1>2, <3>2
      <4>2. QED
        BY <1>2, <2>3, <3>1, <3>3, <4>1
    <3>7. QED
      BY <3>1, <3>5, <3>6
  <2>4. QED
    BY <2>2, <2>3
<1>14. QED
  BY <1>9, <1>10, <1>11, <1>12, <1>13, CloseMasks

\* The inductive invariant holds however windows nest and end, goroutines are scheduled, and pins are given up.
THEOREM ScrubInvariance == ScrubSpec => []ScrubInv
<1>1. ScrubInit => ScrubInv
  <2> SUFFICES ASSUME ScrubInit PROVE ScrubInv
    OBVIOUS
  <2>1. \A g \in Goroutines : windows[g] = <<>> /\ Len(windows[g]) = 0 /\ windows[g] \in Seq(Windows)
    BY DEF ScrubInit
  <2>2. ScrubTypeOK
    <3>1. windows \in [Goroutines -> Seq(Windows)]
      BY <2>1 DEF ScrubInit
    <3>2. mask \in [Threads -> BOOLEAN] /\ home \in [Threads -> BOOLEAN] /\ mask = home
      BY DEF ScrubInit
    <3>3. QED
      BY <3>1, <3>2 DEF ScrubInit, ScrubTypeOK
  <2>3. PlaceInv /\ StepInv /\ CopyInv /\ PinnedInv
    BY <2>1 DEF ScrubInit, PlaceInv, StepInv, CopyInv, PinnedInv
  <2>4. \A g \in Goroutines : \A i : ~Masks(g, i)
    BY <2>1 DEF Masks
  <2>5. StrayInv /\ MaskInv
    BY <2>4 DEF ScrubInit, StrayInv, MaskInv, Masked
  <2>6. QED
    BY <2>2, <2>3, <2>5 DEF ScrubInv
<1>2. ScrubInv /\ [ScrubNext /\ UNCHANGED <<owner, subject>>]_scrubVars => ScrubInv'
  <2> SUFFICES ASSUME ScrubInv, [ScrubNext /\ UNCHANGED <<owner, subject>>]_scrubVars PROVE ScrubInv'
    OBVIOUS
  <2>1. CASE UNCHANGED scrubVars
    <3>1. UNCHANGED <<owner, subject, on, pins, mask, home, windows, opened, step, regs, band, wiped, checked,
                      named, unbalanced, strayed, slipped>>
      BY <2>1 DEF scrubVars, place, residue, misuse
    <3>2. StrayInv' /\ MaskInv'
      BY <3>1, MaskKept DEF ScrubInv
    <3>3. ScrubTypeOK'
      BY <3>1 DEF ScrubInv, ScrubTypeOK
    <3>4. PlaceInv' /\ StepInv' /\ CopyInv' /\ PinnedInv'
      BY <3>1 DEF ScrubInv, PlaceInv, StepInv, CopyInv, PinnedInv
    <3>5. QED
      BY <3>2, <3>3, <3>4 DEF ScrubInv
  <2>2. ASSUME NEW g \in Goroutines, UNCHANGED <<owner, subject>>,
               \/ Schedule(g) \/ AsyncPreempt(g) \/ Open(g) \/ Compute(g) \/ Unbalance(g)
               \/ \E how \in {"return", "panic", "goexit"} : FnEnds(g, how)
               \/ clearAndWipe(g) \/ restoreCheck(g) \/ Close(g)
        PROVE  ScrubInv'
    BY <2>2, SystemStep, InsideStep, OpenStep, CloseStep
  <2>3. QED
    BY <2>1, <2>2 DEF ScrubNext
<1>3. QED
  BY <1>1, <1>2, PTL DEF ScrubSpec

\* Whatever way fn leaves however many nested windows, wherever the scheduler puts the goroutines and whichever of
\* them give up their pin: a goroutine that keeps its pin leaves no secret in registers or dead stack outside its
\* windows and is masked in those that say so; a thread gets its mask back or is named, unless a goroutine was moved
\* between restore's check and its write or two of them left the thread in windows of their own.
THEOREM WindowsClose == ScrubSpec => []WindowsCloseClean
<1>1. ScrubInv => WindowsCloseClean
  <2> SUFFICES ASSUME ScrubInv PROVE WindowsCloseClean
    OBVIOUS
  <2>1. \A g \in Goroutines : DOMAIN windows[g] = 1 .. Len(windows[g])
    <3>1. \A g \in Goroutines : windows[g] \in Seq(Windows)
      BY DEF ScrubInv, ScrubTypeOK
    <3>2. QED
      BY <3>1
  <2>2. ASSUME NEW g \in Goroutines, NEW th, Masking(g, th) # {}
        PROVE  \E i \in 1 .. Len(windows[g]) : windows[g][i].active /\ windows[g][i].tid = th
    <3>1. PICK w \in Range(windows[g]) : w.active /\ w.tid = th
      BY <2>2 DEF Masking
    <3>2. PICK i \in DOMAIN windows[g] : w = windows[g][i]
      BY <3>1 DEF Range
    <3>3. QED
      BY <2>1, <3>1, <3>2
  <2>3. ASSUME NEW g \in Goroutines, NEW i \in 1 .. Len(windows[g]), Masks(g, i)
        PROVE  Masking(g, subject) # {}
    <3>1. windows[g][i] \in Range(windows[g])
      BY <2>1 DEF Range
    <3>2. windows[g][i] \in Masking(g, subject)
      BY <2>3, <3>1 DEF Masking, Masks
    <3>3. QED
      BY <3>2
  <2>4. (\E g \in Goroutines : Masking(g, subject) # {}) <=> Masked
    <3>1. ASSUME NEW g \in Goroutines, Masking(g, subject) # {} PROVE Masked
      <4>1. PICK i \in 1 .. Len(windows[g]) : windows[g][i].active /\ windows[g][i].tid = subject
        BY <2>2, <3>1
      <4>2. Masks(g, i)
        BY <4>1 DEF Masks
      <4>3. QED
        BY <4>2 DEF Masked
    <3>2. ASSUME Masked PROVE \E g \in Goroutines : Masking(g, subject) # {}
      BY <2>3, <3>2 DEF Masked
    <3>3. QED
      BY <3>1, <3>2
  <2>5. ASSUME owner \in Goroutines \ unbalanced
        PROVE  /\ \A th \in Threads : Masking(owner, th) # {} => on[owner] = th /\ mask[th]
               /\ regs # {} => regs = {on[owner]} /\ windows[owner] # <<>>
               /\ band # {} => band = {owner} /\ windows[owner] # <<>>
    <3>1. ASSUME NEW th \in Threads, Masking(owner, th) # {} PROVE on[owner] = th /\ mask[th]
      <4>1. PICK i \in 1 .. Len(windows[owner]) : windows[owner][i].active /\ windows[owner][i].tid = th
        BY <2>2, <2>5, <3>1
      <4>2. on[owner] = th
        BY <2>5, <4>1 DEF ScrubInv, PlaceInv
      <4>3. QED
        BY <2>5, <4>1, <4>2 DEF ScrubInv, PinnedInv
    <3>2. /\ regs # {} => regs = {on[owner]} /\ windows[owner] # <<>>
          /\ band # {} => band = {owner} /\ windows[owner] # <<>>
      BY <2>5 DEF ScrubInv, CopyInv
    <3>3. QED
      BY <3>1, <3>2
  <2>6. QED
    BY <2>4, <2>5 DEF ScrubInv, MaskInv, Watched, WindowsCloseClean
<1>2. QED
  BY <1>1, ScrubInvariance, PTL

-----------------------------------------------------------------------------
(* RedactHandler: functions defined along 0 .. n, and what splitKey and    *)
(* Components compute.                                                     *)

\* Induction, on a set.
LEMMA NatSetIsNat ==
  ASSUME NEW S \in SUBSET Nat, 0 \in S, \A n \in S : n + 1 \in S
  PROVE  S = Nat
<1> SUFFICES ASSUME Nat \ S # {} PROVE FALSE
  OBVIOUS
<1>1. PICK x \in Nat \ S : \A m \in Nat \ S : x <= m
  BY NatSetHasMin
<1>2. x - 1 \in Nat /\ ~(x <= x - 1)
  BY <1>1
<1>3. x - 1 \in S
  BY <1>1, <1>2
<1>4. QED
  BY <1>1, <1>2, <1>3

\* f is defined along 0 .. n by a first value and a next one.
Along(f, n, first, next) ==
  \A k \in 0 .. n : f[k] = IF k = 0 THEN first ELSE next[<<f[k - 1], k>>]

\* There is such a function.
LEMMA StepsExist ==
  ASSUME NEW S, NEW first \in S, NEW n \in Nat, NEW next \in [S \X (1 .. n) -> S]
  PROVE  \E f \in [0 .. n -> S] : Along(f, n, first, next)
<1> DEFINE Upto(m, f) == \A k \in 0 .. m : f[k] = IF k = 0 THEN first ELSE next[<<f[k - 1], k>>]
           T == {m \in Nat : m <= n => \E f \in [0 .. m -> S] : Upto(m, f)}
<1>1. 0 \in T
  <2> DEFINE f == [k \in 0 .. 0 |-> first]
  <2>1. f \in [0 .. 0 -> S] /\ Upto(0, f)
    OBVIOUS
  <2>2. QED
    BY <2>1
<1>2. ASSUME NEW m \in T PROVE m + 1 \in T
  <2>0. m \in Nat /\ m + 1 \in Nat
    OBVIOUS
  <2> SUFFICES ASSUME m + 1 <= n
               PROVE  \E g \in [0 .. m + 1 -> S] : Upto(m + 1, g)
    <3> HIDE DEF Upto
    <3>1. QED
      BY <2>0
  <2>1. m + 1 \in 1 .. n /\ m <= n
    BY <2>0
  <2>2. PICK f \in [0 .. m -> S] : Upto(m, f)
    BY <2>1
  <2>3. f[m] \in S /\ next[<<f[m], m + 1>>] \in S
    BY <2>0, <2>1
  <2> DEFINE g == [k \in 0 .. m + 1 |-> IF k = m + 1 THEN next[<<f[m], m + 1>>] ELSE f[k]]
  <2>4. g \in [0 .. m + 1 -> S]
    BY <2>0, <2>3
  <2>5. ASSUME NEW k \in 0 .. m + 1
        PROVE  g[k] = IF k = 0 THEN first ELSE next[<<g[k - 1], k>>]
    <3>1. CASE k = m + 1
      <4>1. m \in 0 .. m + 1 /\ m # m + 1 /\ k - 1 = m /\ k # 0
        BY <3>1, <2>0
      <4>2. g[m] = f[m] /\ g[k] = next[<<f[m], m + 1>>]
        BY <4>1, <3>1
      <4>3. QED
        BY <4>1, <4>2, <3>1
    <3>2. CASE k # m + 1
      <4>1. k \in 0 .. m /\ g[k] = f[k]
        BY <3>2, <2>0
      <4>2. f[k] = IF k = 0 THEN first ELSE next[<<f[k - 1], k>>]
        BY <4>1, <2>2
      <4>3. k # 0 => k - 1 \in 0 .. m + 1 /\ k - 1 # m + 1
        BY <4>1, <2>0
      <4>4. k # 0 => g[k - 1] = f[k - 1]
        BY <4>3
      <4>5. QED
        BY <4>1, <4>2, <4>4
    <3>3. QED
      BY <3>1, <3>2
  <2>6. QED
    <3> HIDE DEF g
    <3>1. QED
      BY <2>4, <2>5
<1>3. T = Nat
  <2> HIDE DEF T
  <2>1. T \in SUBSET Nat
    BY DEF T
  <2>2. QED
    BY <2>1, <1>1, <1>2, NatSetIsNat
<1>4. n \in T
  BY <1>3
<1>5. QED
  BY <1>4 DEF Along

-----------------------------------------------------------------------------
Comps == Seq(Runes)
Reading == [comps : Seq(Comps), cur : Comps]

LEMMA FlushType == \A s \in Reading : flush(s) \in Reading
<1> SUFFICES ASSUME NEW s \in Reading PROVE flush(s) \in Reading
  OBVIOUS
<1>1. s.comps \in Seq(Comps) /\ s.cur \in Comps /\ <<>> \in Comps
  BY DEF Reading, Comps
<1>2. Append(s.comps, s.cur) \in Seq(Comps)
  BY <1>1
<1>3. QED
  BY <1>1, <1>2 DEF flush, Reading

LEMMA ReadRuneType ==
  ASSUME NEW key \in Seq(Runes), NEW s \in Reading, NEW i \in 1 .. Len(key)
  PROVE  ReadRune(s, key, i) \in Reading
<1>1. key[i] \in Runes /\ ToLower[key[i]] \in Runes
  BY RedactAssumption
<1> DEFINE r == IF s.cur # <<>> /\ Boundary(key, i) THEN flush(s) ELSE s
<1>2. r \in Reading /\ flush(s) \in Reading
  BY FlushType
<1>3. ReadRune(s, key, i) = IF key[i] \notin Words THEN flush(s)
                            ELSE [r EXCEPT !.cur = Append(@, ToLower[key[i]])]
  BY DEF ReadRune
<1> HIDE DEF r
<1>4. r.cur \in Comps /\ r.comps \in Seq(Comps)
  BY <1>2 DEF Reading
<1>5. Append(r.cur, ToLower[key[i]]) \in Comps
  BY <1>1, <1>4 DEF Comps
<1>6. [r EXCEPT !.cur = Append(@, ToLower[key[i]])] \in Reading
  BY <1>2, <1>5 DEF Reading
<1>7. QED
  BY <1>2, <1>3, <1>6

\* A key is split into a sequence of components.
LEMMA SplitType == \A key \in Seq(Runes) : splitKey(key) \in Seq(Comps)
<1> SUFFICES ASSUME NEW key \in Seq(Runes) PROVE splitKey(key) \in Seq(Comps)
  OBVIOUS
<1> DEFINE n == Len(key)
           start == [comps |-> <<>>, cur |-> <<>>]
           Reads(f) == f = [i \in 0 .. Len(key) |-> IF i = 0 THEN start ELSE ReadRune(f[i - 1], key, i)]
           next == [p \in Reading \X (1 .. n) |-> ReadRune(p[1], key, p[2])]
<1>1. n \in Nat /\ start \in Reading
  BY DEF Reading, Comps
<1>2. next \in [Reading \X (1 .. n) -> Reading]
  BY ReadRuneType
<1>3. PICK f \in [0 .. n -> Reading] : Along(f, n, start, next)
  <2> HIDE DEF start, next, n
  <2>1. QED
    BY <1>1, <1>2, StepsExist
<1>4. Reads(f)
  <2>1. ASSUME NEW k \in 0 .. n PROVE f[k] = IF k = 0 THEN start ELSE ReadRune(f[k - 1], key, k)
    <3>1. CASE k = 0
      BY <3>1, <1>3, <1>1 DEF Along
    <3>2. CASE k # 0
      <4>1. k \in 1 .. n /\ k - 1 \in 0 .. n
        BY <3>2, <1>1
      <4>2. f[k - 1] \in Reading
        BY <4>1
      <4>3. next[<<f[k - 1], k>>] = ReadRune(f[k - 1], key, k)
        BY <4>1, <4>2
      <4>4. QED
        BY <3>2, <4>3, <1>3 DEF Along
    <3>3. QED
      BY <3>1, <3>2
  <2> HIDE DEF start
  <2>2. QED
    BY <2>1, <1>3
<1> DEFINE read == CHOOSE g : Reads(g)
<1>5. Reads(read)
  <2> HIDE DEF Reads
  <2>1. QED
    BY <1>4
<1>6. splitKey(key) = flush(read[Len(key)]).comps
  BY DEF splitKey
<1> HIDE DEF read
<1> DEFINE T == {m \in Nat : m <= n => read[m] \in Reading}
<1>7. 0 \in T
  BY <1>1, <1>5
<1>8. ASSUME NEW m \in T PROVE m + 1 \in T
  <2> SUFFICES ASSUME m + 1 <= n PROVE read[m + 1] \in Reading
    BY <1>8
  <2>1. m \in Nat /\ m + 1 \in 1 .. n /\ m + 1 \in 0 .. Len(key) /\ m + 1 # 0 /\ (m + 1) - 1 = m
    BY <1>1
  <2>2. read[m] \in Reading
    BY <2>1, <1>1
  <2>3. read[m + 1] = ReadRune(read[(m + 1) - 1], key, m + 1)
    BY <1>5, <2>1
  <2>4. QED
    BY <2>1, <2>2, <2>3, ReadRuneType
<1>9. T = Nat
  <2> HIDE DEF T
  <2>1. T \in SUBSET Nat
    BY DEF T
  <2>2. QED
    BY <2>1, <1>7, <1>8, NatSetIsNat
<1>10. read[n] \in Reading
  BY <1>1, <1>9
<1>11. QED
  BY <1>6, <1>10, FlushType DEF Reading

-----------------------------------------------------------------------------
Names == Seq(Seq(Runes))
Paths == Seq(Comps)

\* What Components has for n of the names, if f has it for fewer.
Joined(s, f, n) == IF n = 0 THEN <<>> ELSE appendPath(f[n - 1], s[n])

\* The components of a list of names are those of its names, one after the other.
LEMMA ComponentsAppend ==
  ASSUME NEW names \in Names
  PROVE  /\ Components(names) \in Paths
         /\ \A key \in Seq(Runes) : Components(Append(names, key)) = appendPath(Components(names), key)
<1> DEFINE Firsts(s, f) == \A n \in 0 .. Len(s) : f[n] = Joined(s, f, n)
<1>1. ASSUME NEW s \in Names
      PROVE  \E f : Firsts(s, f) /\ Components(s) = f[Len(s)]
  <2> DEFINE n == Len(s)
             next == [p \in Paths \X (1 .. n) |-> appendPath(p[1], s[p[2]])]
  <2>1. n \in Nat /\ <<>> \in Paths
    BY DEF Names, Paths
  <2>2. ASSUME NEW p \in Paths \X (1 .. n) PROVE appendPath(p[1], s[p[2]]) \in Paths
    <3>1. p[1] \in Paths /\ s[p[2]] \in Seq(Runes)
      BY DEF Names
    <3>2. splitKey(s[p[2]]) \in Paths
      BY <3>1, SplitType DEF Paths
    <3>3. QED
      BY <3>1, <3>2 DEF Paths, appendPath
  <2>3. next \in [Paths \X (1 .. n) -> Paths]
    BY <2>2
  <2>4. PICK f \in [0 .. n -> Paths] : Along(f, n, <<>>, next)
    <3> HIDE DEF next, n
    <3>1. QED
      BY <2>1, <2>3, StepsExist
  <2>5. ASSUME NEW k \in 0 .. n PROVE f[k] = IF k = 0 THEN <<>> ELSE appendPath(f[k - 1], s[k])
    <3>1. CASE k = 0
      BY <3>1, <2>4 DEF Along
    <3>2. CASE k # 0
      <4>1. k \in 1 .. n /\ k - 1 \in 0 .. n
        BY <3>2, <2>1
      <4>2. f[k - 1] \in Paths
        BY <4>1
      <4>3. next[<<f[k - 1], k>>] = appendPath(f[k - 1], s[k])
        BY <4>1, <4>2
      <4>4. QED
        BY <3>2, <4>3, <2>4 DEF Along
    <3>3. QED
      BY <3>1, <3>2
  <2> DEFINE Is(g) == g = [k \in 0 .. Len(s) |-> Joined(s, g, k)]
             first == CHOOSE g : Is(g)
  <2>6. Is(f)
    <3>1. f = [k \in 0 .. n |-> f[k]]
      BY <2>4
    <3>2. \A k \in 0 .. n : f[k] = Joined(s, f, k)
      BY <2>5 DEF Joined
    <3>3. QED
      BY <3>1, <3>2
  <2>7. Is(first)
    <3> HIDE DEF Is
    <3>1. QED
      BY <2>6
  <2>8. Components(s) = first[Len(s)]
    BY DEF Components, Joined
  <2>9. Firsts(s, first)
    <3> HIDE DEF first
    <3>1. QED
      BY <2>7
  <2>10. QED
    <3> HIDE DEF first, Firsts
    <3>1. QED
      BY <2>8, <2>9
<1>1a. ASSUME NEW s \in Names, NEW f, Firsts(s, f), NEW n \in Nat, n + 1 <= Len(s)
       PROVE  f[n + 1] = appendPath(f[n], s[n + 1])
  <2>1. n + 1 \in 0 .. Len(s) /\ n + 1 # 0 /\ n + 1 - 1 = n
    BY <1>1a DEF Names
  <2>2. f[n + 1] = Joined(s, f, n + 1)
    BY <1>1a, <2>1
  <2>3. Joined(s, f, n + 1) = appendPath(f[n + 1 - 1], s[n + 1])
    <3>1. n + 1 # 0
      BY <2>1
    <3>2. QED
      BY <3>1 DEF Joined
  <2>4. QED
    BY <2>1, <2>2, <2>3
<1>2. ASSUME NEW s \in Names, NEW f, Firsts(s, f), NEW m \in Nat, m <= Len(s)
      PROVE  f[m] \in Paths
  <2> DEFINE T == {n \in Nat : n <= Len(s) => f[n] \in Paths}
  <2>1. 0 \in T
    <3>1. 0 \in 0 .. Len(s)
      BY DEF Names
    <3>2. f[0] = <<>>
      BY <1>2, <3>1 DEF Joined
    <3>3. <<>> \in Paths
      BY DEF Paths
    <3>4. QED
      BY <3>2, <3>3
  <2>2. ASSUME NEW n \in T PROVE n + 1 \in T
    <3> SUFFICES ASSUME n + 1 <= Len(s) PROVE f[n + 1] \in Paths
      BY <2>2
    <3>1. /\ n \in Nat /\ n + 1 \in 0 .. Len(s) /\ n + 1 \in 1 .. Len(s) /\ n + 1 # 0
          /\ n + 1 - 1 = n /\ n <= Len(s)
      BY DEF Names
    <3>2. f[n + 1] = appendPath(f[n], s[n + 1])
      BY <1>1a, <1>2, <3>1
    <3>3. f[n] \in Paths
      BY <3>1
    <3>4. splitKey(s[n + 1]) \in Paths
      BY <3>1, SplitType DEF Names, Paths
    <3>5. QED
      BY <3>1, <3>2, <3>3, <3>4 DEF Paths, appendPath
  <2>3. T = Nat
    <3> HIDE DEF T
    <3>1. T \in SUBSET Nat
      BY DEF T
    <3>2. QED
      BY <3>1, <2>1, <2>2, NatSetIsNat
  <2>4. QED
    BY <1>2, <2>3
<1> HIDE DEF Firsts
<1>3. Len(names) \in Nat
  BY DEF Names
<1>4. PICK f : Firsts(names, f) /\ Components(names) = f[Len(names)]
  BY <1>1
<1>5. Components(names) \in Paths
  BY <1>2, <1>3, <1>4
<1>6. ASSUME NEW key \in Seq(Runes)
      PROVE  Components(Append(names, key)) = appendPath(Components(names), key)
  <2> DEFINE longer == Append(names, key)
             n == Len(names)
  <2>1. /\ longer \in Names /\ Len(longer) = n + 1 /\ n \in Nat /\ longer[n + 1] = key
        /\ \A k \in 1 .. n : longer[k] = names[k]
    BY <1>3 DEF Names
  <2>2. PICK g : Firsts(longer, g) /\ Components(longer) = g[Len(longer)]
    BY <1>1, <2>1
  <2> HIDE DEF longer
  <2> DEFINE T == {k \in Nat : k <= n => f[k] = g[k]}
  <2>3. 0 \in T
    <3>1. 0 \in 0 .. n /\ 0 \in 0 .. Len(longer)
      BY <2>1
    <3>2. f[0] = <<>> /\ g[0] = <<>>
      BY <3>1, <2>1, <2>2, <1>4 DEF Firsts, Joined
    <3>3. QED
      BY <3>2
  <2>4. ASSUME NEW k \in T PROVE k + 1 \in T
    <3> SUFFICES ASSUME k + 1 <= n PROVE f[k + 1] = g[k + 1]
      BY <2>4
    <3>1. /\ k \in Nat /\ k + 1 \in 0 .. Len(names) /\ k + 1 \in 0 .. Len(longer)
          /\ k + 1 \in 1 .. n /\ k + 1 # 0 /\ k + 1 - 1 = k
      BY <2>1
    <3>2. f[k] = g[k]
      BY <3>1
    <3>3. f[k + 1] = appendPath(f[k], names[k + 1])
      BY <1>1a, <1>4, <3>1
    <3>4. g[k + 1] = appendPath(g[k], longer[k + 1])
      BY <1>1a, <2>1, <2>2, <3>1
    <3>5. QED
      BY <2>1, <3>1, <3>2, <3>3, <3>4
  <2>5. T = Nat
    <3> HIDE DEF T
    <3>1. T \in SUBSET Nat
      BY DEF T
    <3>2. QED
      BY <3>1, <2>3, <2>4, NatSetIsNat
  <2>6. f[n] = g[n]
    BY <2>1, <2>5
  <2>7. g[n + 1] = appendPath(g[n], longer[n + 1])
    BY <1>1a, <2>1, <2>2
  <2>8. QED
    BY <1>4, <2>1, <2>2, <2>6, <2>7 DEF longer
<1>7. QED
  BY <1>5, <1>6

\* No names have no components.
LEMMA ComponentsEmpty == Components(<<>>) = <<>> /\ <<>> \in Names
<1> DEFINE Firsts(f) == f = [n \in 0 .. Len(<<>>) |-> IF n = 0 THEN <<>> ELSE appendPath(f[n - 1], <<>>[n])]
           first == CHOOSE g : Firsts(g)
           f0 == [n \in 0 .. 0 |-> <<>>]
<1>1. Firsts(f0)
  OBVIOUS
<1>2. Firsts(first)
  <2> HIDE DEF Firsts, f0
  <2>1. QED
    BY <1>1
<1>3. Components(<<>>) = first[Len(<<>>)]
  BY DEF Components
<1> HIDE DEF first
<1>4. first[0] = <<>>
  BY <1>2
<1>5. QED
  BY <1>3, <1>4 DEF Names

\* Sensitive keys are sequences of at least one component.
LEMMA KeysType == \A e \in keys : e \in Paths /\ Len(e) > 0
<1> SUFFICES ASSUME NEW e \in keys PROVE e \in Paths /\ Len(e) > 0
  OBVIOUS
<1>1. e # <<>> /\ \E n \in SensitiveKeys : e = splitKey(n)
  BY DEF keys, newKeySet
<1>2. e \in Paths
  BY <1>1, SplitType, RedactAssumption DEF Paths
<1>3. QED
  BY <1>1, <1>2 DEF Paths

\* A clean path stays clean when components that match does not find are added.
LEMMA CleanExtends ==
  ASSUME NEW path \in Paths, NEW key \in Seq(Runes), Clean(path), ~Sensitive(path, key)
  PROVE  Clean(appendPath(path, key))
<1> DEFINE comps == splitKey(key)
           full == path \o comps
<1>1. comps \in Paths
  BY SplitType DEF Paths
<1>2. ~match(full, Len(comps)) /\ appendPath(path, key) = full
  BY DEF Sensitive, appendPath
<1> HIDE DEF comps
<1>3. /\ full \in Paths /\ Len(full) = Len(path) + Len(comps) /\ Len(path) \in Nat /\ Len(comps) \in Nat
      /\ \A k \in 1 .. Len(path) : full[k] = path[k]
  BY <1>1 DEF Paths
<1> SUFFICES ASSUME NEW i \in 1 .. Len(full), NEW j \in 1 .. Len(full), SubSeq(full, i, j) \in keys
             PROVE  FALSE
  BY <1>2 DEF Clean
<1> DEFINE e == SubSeq(full, i, j)
<1>4. e \in Paths /\ Len(e) > 0
  BY KeysType
<1>5. i <= j /\ Len(e) = j - i + 1
  BY <1>3, <1>4 DEF Paths
<1>6. CASE j <= Len(path)
  <2>1. i \in 1 .. Len(path) /\ j \in 1 .. Len(path)
    BY <1>3, <1>5, <1>6
  <2>2. SubSeq(path, i, j) = e
    <3>1. SubSeq(path, i, j) = [k \in 1 .. (j - i + 1) |-> path[k + i - 1]]
      BY <2>1, <1>5 DEF Paths
    <3>2. e = [k \in 1 .. (j - i + 1) |-> full[k + i - 1]]
      BY <1>3, <1>5 DEF Paths
    <3>3. \A k \in 1 .. (j - i + 1) : k + i - 1 \in 1 .. Len(path)
      BY <2>1, <1>5, <1>3
    <3> HIDE DEF e, full
    <3>4. QED
      BY <3>1, <3>2, <3>3, <1>3
  <2>3. QED
    BY <2>1, <2>2 DEF Clean
<1>7. CASE j > Len(path)
  <2>1. Len(comps) > 0 /\ j > Len(full) - Len(comps) /\ j = i + Len(e) - 1 /\ j <= Len(full)
    BY <1>3, <1>5, <1>7
  <2>2. QED
    BY <2>1, <1>2 DEF match
<1>8. QED
  BY <1>3, <1>6, <1>7

-----------------------------------------------------------------------------
(* The invariant. *)

RedactSpec == RedactInit /\ [][RedactNext]_redactVars

Whats == {"raw", "own", "guarded", "guarded key", "key tag", "marshal_error tag", "panic tag", "unexported tag",
          "<ptr>", "..."}
Cells == [names : Names, what : Whats]
Handlers == [groups : Names, path : Paths, redactAll : BOOLEAN, preset : SUBSET Cells]
Calls ==
  [fn : {"sanitizeAttr", "renderValue", "renderField", "renderLogValue"}, names : Names,
   path : Paths, redactAll : BOOLEAN, key : Seq(Runes), value : GoValues,
   exported : BOOLEAN, inside : BOOLEAN, depth : Nat]

\* What has been written may be read by anyone.
CellOK(c) ==
  /\ c \in Cells
  /\ c.what # "guarded"
  /\ c.what \in {"raw", "own"} => Clean(Components(c.names))

\* A handler knows the components of its groups, and whether they are sensitive.
HandlerOK(h) ==
  /\ h \in Handlers
  /\ h.path = Components(h.groups)
  /\ ~h.redactAll => Clean(h.path)
  /\ \A c \in h.preset : CellOK(c)

\* A call knows the components of the names printed so far; unless it is going
\* to redact whatever it is given, no key is among them.
CallOK(i) ==
  /\ i \in Calls
  /\ ~i.inside
  /\ i.path = Components(i.names)
  /\ i.redactAll => i.fn = "sanitizeAttr"
  /\ ~i.redactAll => Clean(i.path)

RedactInv ==
  /\ \A h \in handlers : HandlerOK(h)
  /\ walk \in [op : {"none", "WithAttrs", "Handle"}, h : Handlers, todo : SUBSET Calls, out : SUBSET Cells]
  /\ HandlerOK(walk.h)
  /\ \A i \in walk.todo : CallOK(i)
  /\ \A c \in walk.out : CellOK(c)
  /\ \A c \in cells : CellOK(c)

\* A call whose own calls and text are right keeps the invariant.
LEMMA DoesStep ==
  ASSUME RedactInv, NEW i \in walk.todo, NEW calls, NEW writes,
         \A c \in calls : CallOK(c), \A c \in writes : CellOK(c), Does(i, calls, writes)
  PROVE  RedactInv'
<1>1. /\ walk.todo \in SUBSET Calls /\ walk.out \in SUBSET Cells
      /\ walk' = [walk EXCEPT !.todo = (walk.todo \ {i}) \cup calls, !.out = walk.out \cup writes]
      /\ UNCHANGED <<handlers, cells>>
  BY DEF RedactInv, Does
<1>2. calls \in SUBSET Calls /\ writes \in SUBSET Cells
  BY DEF CallOK, CellOK
<1>3. /\ walk'.op = walk.op /\ walk'.h = walk.h
      /\ walk'.todo = (walk.todo \ {i}) \cup calls /\ walk'.out = walk.out \cup writes
      /\ walk' \in [op : {"none", "WithAttrs", "Handle"}, h : Handlers, todo : SUBSET Calls, out : SUBSET Cells]
  BY <1>1, <1>2 DEF RedactInv
<1>4. /\ \A h \in handlers' : HandlerOK(h)
      /\ HandlerOK(walk'.h)
      /\ \A c \in walk'.todo : CallOK(c)
      /\ \A c \in walk'.out : CellOK(c)
      /\ \A c \in cells' : CellOK(c)
  BY <1>1, <1>3 DEF RedactInv
<1>5. QED
  BY <1>3, <1>4 DEF RedactInv, HandlerOK, CallOK, CellOK

\* A cell that holds a stand-in, and one under a clean path.
LEMMA CellType ==
  ASSUME NEW names \in Names, NEW what \in Whats, what # "guarded",
         what \in {"raw", "own"} => Clean(Components(names))
  PROVE  \A c \in Cell(names, what) : CellOK(c)
<1>1. SUFFICES ASSUME NEW c, c = [names |-> names, what |-> what] PROVE CellOK(c)
  BY DEF Cell
<1>2. c \in Cells /\ c.names = names /\ c.what = what
  BY <1>1 DEF Cells
<1>3. QED
  BY <1>2 DEF CellOK

\* A call's text, when its path is clean.
LEMMA TextType ==
  ASSUME NEW i, CallOK(i), ~i.redactAll
  PROVE  \A c \in Text(i) : CellOK(c)
<1>1. i.names \in Names /\ Clean(Components(i.names)) /\ Text(i) = Cell(i.names, "raw")
  BY DEF CallOK, Calls, Text
<1>2. QED
  BY <1>1, CellType DEF Whats

\* The tag under the call's key.
LEMMA KeyTagType ==
  ASSUME NEW i \in Calls
  PROVE  \A c \in KeyTag(i) : CellOK(c)
<1>1. i.names \in Names /\ i.key \in Seq(Runes)
  BY DEF Calls
<1>2. Append(i.names, i.key) \in Names
  BY <1>1 DEF Names
<1>3. QED
  BY <1>2, CellType DEF KeyTag, Whats

\* Under a key that is not sensitive the path is clean again.
LEMMA UnderType ==
  ASSUME NEW i, CallOK(i), ~i.redactAll, ~Sensitive(i.path, i.key)
  PROVE  /\ CallOK(UnderKey(i)) /\ UnderKey(i).redactAll = FALSE
         /\ UnderKey(i).fn = i.fn /\ UnderKey(i).key = i.key /\ UnderKey(i).value = i.value
         /\ UnderKey(i).exported = i.exported /\ UnderKey(i).depth = i.depth
<1>1. i \in Calls /\ i.names \in Names /\ i.path \in Paths /\ i.key \in Seq(Runes)
  BY DEF CallOK, Calls
<1>2. i.path = Components(i.names) /\ Clean(i.path) /\ i.redactAll = FALSE /\ i.inside = FALSE
  BY <1>1 DEF CallOK, Calls
<1>3. Append(i.names, i.key) \in Names
  BY <1>1 DEF Names
<1>4. Components(Append(i.names, i.key)) = appendPath(i.path, i.key)
  BY <1>1, <1>2, ComponentsAppend
<1>5. appendPath(i.path, i.key) \in Paths
  BY <1>1, SplitType DEF Paths, appendPath
<1>6. Clean(appendPath(i.path, i.key))
  BY <1>1, <1>2, CleanExtends
<1> DEFINE u == [i EXCEPT !.names = Append(i.names, i.key), !.path = appendPath(i.path, i.key)]
<1>7. UnderKey(i) = u
  BY DEF UnderKey
<1>8. /\ u \in Calls /\ u.names = Append(i.names, i.key) /\ u.path = appendPath(i.path, i.key)
      /\ u.redactAll = FALSE /\ u.inside = FALSE /\ u.fn = i.fn /\ u.key = i.key
      /\ u.value = i.value /\ u.exported = i.exported /\ u.depth = i.depth
  BY <1>1, <1>2, <1>3, <1>5 DEF Calls
<1> HIDE DEF u
<1>9. QED
  BY <1>4, <1>6, <1>7, <1>8 DEF CallOK

\* Another function, another value, another key, with the same names around it.
LEMMA CallChanges ==
  ASSUME NEW i, CallOK(i), ~i.redactAll, NEW j \in Calls,
         j.names = i.names, j.path = i.path, j.redactAll = i.redactAll, ~j.inside
  PROVE  CallOK(j)
BY DEF CallOK

\* renderField.
LEMMA FieldStep ==
  ASSUME RedactInv, NEW i \in walk.todo, renderField(i)
  PROVE  RedactInv'
<1>1. CallOK(i) /\ i \in Calls /\ i.fn = "renderField" /\ ~i.redactAll
  BY DEF RedactInv, renderField, CallOK
<1>2. CASE Sensitive(i.path, i.key) /\ Does(i, {}, KeyTag(i))
  BY <1>1, <1>2, DoesStep, KeyTagType
<1>3. CASE ~Sensitive(i.path, i.key) /\ Does(i, {[UnderKey(i) EXCEPT !.fn = "renderValue"]}, {})
  <2> DEFINE u == UnderKey(i)
             j == [u EXCEPT !.fn = "renderValue"]
  <2>1. CallOK(u) /\ ~u.redactAll
    BY <1>1, <1>3, UnderType
  <2> HIDE DEF u
  <2>2. j \in Calls /\ j.names = u.names /\ j.path = u.path /\ j.redactAll = u.redactAll /\ ~j.inside
    BY <2>1 DEF CallOK, Calls
  <2> HIDE DEF j
  <2>3. CallOK(j)
    BY <2>1, <2>2, CallChanges
  <2>4. Does(i, {j}, {})
    BY <1>3 DEF j, u
  <2>5. QED
    BY <2>3, <2>4, DoesStep
<1>4. QED
  BY <1>2, <1>3 DEF renderField

\* What a value holds is a value.
LEMMA HeapType ==
  ASSUME NEW x \in GoValues
  PROVE  /\ Heap[x].kind \in {"pointer", "interface"} => Heap[x].elem \in GoValues
         /\ Heap[x].kind = "struct" =>
              \A f \in Heap[x].fields : f.key \in Seq(Runes) /\ f.value \in GoValues /\ f.exported \in BOOLEAN
         /\ Heap[x].kind = "map" =>
              \A f \in Heap[x].fields : f.key \in Seq(Runes) /\ f.value \in GoValues
         /\ Heap[x].kind = "slice" => Heap[x].elems \subseteq GoValues
         /\ Heap[x].method = "LogValue" => Heap[x].logValue \in GoValues
         /\ Heap[x].kind = "group" => \A a \in Heap[x].attrs : a.key \in Seq(Runes) /\ a.value \in GoValues
         /\ Heap[x].kind = "any" => Heap[x].value \in GoValues
         /\ Heap[x].kind = "logvaluer" => Heap[x].resolved \in GoValues
BY RedactAssumption, Zenon DEF Member

\* A part of a value that may be taken apart.
LEMMA PartType ==
  ASSUME NEW i, CallOK(i), ~i.redactAll, NEW x \in GoValues,
         Heap[i.value].method = "none", Heap[i.value].kind = "pointer" => i.exported
  PROVE  /\ CallOK(Part(i, x)) /\ Part(i, x) \in Calls /\ ~Part(i, x).redactAll /\ ~Part(i, x).inside
<1>1. i \in Calls /\ i.inside = FALSE /\ i.depth + 1 \in Nat /\ i.exported \in BOOLEAN
  BY DEF CallOK, Calls
<1> DEFINE in == \/ i.inside
                 \/ Heap[i.value].method # "none"
                 \/ Heap[i.value].kind = "pointer" /\ ~i.exported
           j == [i EXCEPT !.value = x, !.depth = i.depth + 1, !.inside = FALSE]
<1>2. in = FALSE
  BY <1>1
<1>3. Part(i, x) = j
  <2>1. Part(i, x) = [i EXCEPT !.value = x, !.depth = i.depth + 1, !.inside = in]
    BY DEF Part
  <2> HIDE DEF in
  <2>2. QED
    BY <1>2, <2>1
<1>4. /\ j \in Calls /\ j.names = i.names /\ j.path = i.path /\ j.redactAll = i.redactAll
      /\ ~j.inside
  BY <1>1, <1>2 DEF Calls
<1> HIDE DEF j
<1>5. QED
  BY <1>3, <1>4, CallChanges

\* renderByMethod and renderValue.
LEMMA ValueStep ==
  ASSUME RedactInv, NEW i \in walk.todo, renderValue(i)
  PROVE  RedactInv'
<1> DEFINE v == Heap[i.value]
<1>1. /\ CallOK(i) /\ i \in Calls /\ i.fn = "renderValue" /\ ~i.redactAll /\ i.names \in Names
      /\ i.value \in GoValues /\ i.depth \in Nat /\ i.exported \in BOOLEAN /\ Clean(Components(i.names))
  BY DEF RedactInv, renderValue, CallOK, Calls
<1>2. ASSUME NEW what \in {"marshal_error tag", "panic tag", "unexported tag", "<ptr>", "..."},
             Does(i, {}, Cell(i.names, what))
      PROVE  RedactInv'
  <2>1. \A c \in Cell(i.names, what) : CellOK(c)
    BY <1>1, CellType DEF Whats
  <2> DEFINE writes == Cell(i.names, what)
             calls == {}
  <2>2. (\A c \in calls : CallOK(c)) /\ \A c \in writes : CellOK(c)
    BY <2>1
  <2>3. Does(i, calls, writes)
    BY <1>2
  <2> HIDE DEF writes, calls
  <2>4. QED
    BY <2>2, <2>3, DoesStep
<1>3. ASSUME renderByMethod(i, v) PROVE RedactInv'
  <2>1. CASE v.method \in {"text", "marshal"} /\ Does(i, {}, Cell(i.names, "own"))
    <3>1. \A c \in Cell(i.names, "own") : CellOK(c)
      BY <1>1, CellType DEF Whats
    <3>2. QED
      BY <2>1, <3>1, DoesStep
  <2>2. CASE v.method = "LogValue" /\ Does(i, {[i EXCEPT !.fn = "renderLogValue", !.value = v.logValue, !.depth = @ + 1]}, {})
    <3> DEFINE j == [i EXCEPT !.fn = "renderLogValue", !.value = v.logValue, !.depth = @ + 1]
    <3>1. v.logValue \in GoValues
      BY <1>1, <2>2, HeapType
    <3>2. i.depth + 1 \in Nat /\ ~i.inside
      BY <1>1 DEF CallOK
    <3>3. j \in Calls /\ j.names = i.names /\ j.path = i.path /\ j.redactAll = i.redactAll /\ ~j.inside
      <4> HIDE DEF v
      <4>1. QED
        BY <1>1, <3>1, <3>2 DEF Calls
    <3>4. Does(i, {j}, {})
      BY <2>2
    <3> HIDE DEF j
    <3>5. CallOK(j)
      BY <1>1, <3>3, CallChanges
    <3>6. QED
      BY <3>4, <3>5, DoesStep
  <2>3. QED
    BY <1>2, <1>3, <2>1, <2>2 DEF renderByMethod
<1>4. ASSUME v.method = "none", v.kind = "interface" \/ (v.kind = "pointer" /\ i.exported), Does(i, {Part(i, v.elem)}, {})
      PROVE  RedactInv'
  <2>1. v.elem \in GoValues
    BY <1>1, <1>4, HeapType
  <2>2. CallOK(Part(i, v.elem))
    BY <1>1, <1>4, <2>1, PartType
  <2>3. QED
    BY <1>4, <2>2, DoesStep
<1>5. ASSUME v.method = "none", v.kind = "slice", Does(i, {Part(i, e) : e \in v.elems}, {})
      PROVE  RedactInv'
  <2>1. \A e \in v.elems : e \in GoValues
    BY <1>1, <1>5, HeapType
  <2>2. \A e \in v.elems : CallOK(Part(i, e))
    BY <1>1, <1>5, <2>1, PartType
  <2> DEFINE calls == {Part(i, e) : e \in v.elems}
  <2>3. \A c \in calls : CallOK(c)
    BY <2>2
  <2> HIDE DEF calls
  <2>4. Does(i, calls, {})
    BY <1>5 DEF calls
  <2>5. QED
    BY <2>3, <2>4, DoesStep
<1>6. ASSUME v.method = "none", v.kind = "struct",
             Does(i, {[Part(i, f.value) EXCEPT !.fn = "renderField", !.key = f.key,
                                              !.exported = @ /\ f.exported] : f \in v.fields}, {})
      PROVE  RedactInv'
  <2> DEFINE field(f) == [Part(i, f.value) EXCEPT !.fn = "renderField", !.key = f.key,
                                                  !.exported = @ /\ f.exported]
             calls == {field(f) : f \in v.fields}
  <2>1. ASSUME NEW f \in v.fields PROVE CallOK(field(f))
    <3>1. f.key \in Seq(Runes) /\ f.value \in GoValues /\ f.exported \in BOOLEAN
      BY <1>1, <1>6, HeapType
    <3> DEFINE p == Part(i, f.value)
    <3>2. CallOK(p) /\ p \in Calls /\ ~p.redactAll /\ ~p.inside
      BY <1>1, <1>6, <3>1, PartType
    <3> HIDE DEF p
    <3> DEFINE e == p.exported /\ f.exported
               j == [p EXCEPT !.fn = "renderField", !.key = f.key, !.exported = e]
    <3>3. e \in BOOLEAN
      OBVIOUS
    <3>4. field(f) = j
      BY DEF p
    <3> HIDE DEF e
    <3>5. j \in Calls /\ j.names = p.names /\ j.path = p.path /\ j.redactAll = p.redactAll /\ ~j.inside
      BY <3>1, <3>2, <3>3 DEF Calls
    <3> HIDE DEF j
    <3>6. CallOK(j)
      BY <3>2, <3>5, CallChanges
    <3>7. QED
      BY <3>4, <3>6
  <2> HIDE DEF field
  <2>2. \A c \in calls : CallOK(c)
    BY <2>1
  <2>3. Does(i, calls, {})
    BY <1>6 DEF field
  <2> HIDE DEF calls
  <2>4. QED
    BY <2>2, <2>3, DoesStep
<1>7. ASSUME Does(i, {}, Text(i)) PROVE RedactInv'
  BY <1>1, <1>7, TextType, DoesStep
<1>9. ASSUME v.method = "none", v.kind = "map",
             Does(i, {[Part(i, f.value) EXCEPT !.fn = "renderField", !.key = f.key] : f \in v.fields},
                  UNION {mapKeyName(i, f.by) : f \in v.fields})
      PROVE  RedactInv'
  <2> DEFINE field(f) == [Part(i, f.value) EXCEPT !.fn = "renderField", !.key = f.key]
             calls == {field(f) : f \in v.fields}
             writes == UNION {mapKeyName(i, f.by) : f \in v.fields}
  <2>1. ASSUME NEW f \in v.fields PROVE CallOK(field(f))
    <3>1. f.key \in Seq(Runes) /\ f.value \in GoValues
      BY <1>1, <1>9, HeapType
    <3> DEFINE p == Part(i, f.value)
    <3>2. CallOK(p) /\ p \in Calls /\ ~p.redactAll /\ ~p.inside
      BY <1>1, <1>9, <3>1, PartType
    <3> HIDE DEF p
    <3> DEFINE j == [p EXCEPT !.fn = "renderField", !.key = f.key]
    <3>3. field(f) = j
      BY DEF p
    <3>4. j \in Calls /\ j.names = p.names /\ j.path = p.path /\ j.redactAll = p.redactAll /\ ~j.inside
      BY <3>1, <3>2 DEF Calls
    <3> HIDE DEF j
    <3>5. CallOK(j)
      BY <3>2, <3>4, CallChanges
    <3>6. QED
      BY <3>3, <3>5
  <2>2. ASSUME NEW by PROVE \A c \in mapKeyName(i, by) : CellOK(c)
    <3>1. /\ \A c \in Cell(i.names, "own") : CellOK(c)
          /\ \A c \in Cell(i.names, "guarded key") : CellOK(c)
      BY <1>1, CellType DEF Whats
    <3>2. \A c \in Text(i) : CellOK(c)
      BY <1>1, TextType
    <3>3. \/ mapKeyName(i, by) = Cell(i.names, "own")
          \/ mapKeyName(i, by) = Cell(i.names, "guarded key")
          \/ mapKeyName(i, by) = Text(i)
      BY Zenon DEF mapKeyName
    <3>4. QED
      BY <3>1, <3>2, <3>3, Zenon
  <2> HIDE DEF field
  <2>3. \A c \in calls : CallOK(c)
    BY <2>1
  <2>4. \A c \in writes : CellOK(c)
    BY <2>2, Zenon
  <2>5. Does(i, calls, writes)
    BY <1>9 DEF field
  <2> HIDE DEF calls, writes
  <2>6. QED
    BY <2>3, <2>4, <2>5, DoesStep
<1>8. QED
  BY <1>2, <1>3, <1>4, <1>5, <1>6, <1>7, <1>9 DEF renderValue, walkValue

\* renderLogValue.
LEMMA LogValueStep ==
  ASSUME RedactInv, NEW i \in walk.todo, renderLogValue(i)
  PROVE  RedactInv'
<1> DEFINE v == Heap[i.value]
           hit == {a \in v.attrs : Sensitive(i.path, a.key)}
           member(a) == [i EXCEPT !.key = a.key, !.value = Resolve(a.value), !.depth = @ + 1]
<1>1. /\ CallOK(i) /\ i \in Calls /\ i.fn = "renderLogValue" /\ ~i.redactAll /\ i.names \in Names
      /\ i.value \in GoValues /\ i.depth + 1 \in Nat /\ ~i.inside /\ Clean(Components(i.names))
  <2>1. CallOK(i) /\ i.fn = "renderLogValue"
    BY DEF RedactInv, renderLogValue
  <2> HIDE DEF hit, member, v
  <2>2. QED
    BY <2>1 DEF CallOK, Calls
<1>2. ASSUME Does(i, {}, Cell(i.names, "...")) PROVE RedactInv'
  <2>1. \A c \in Cell(i.names, "...") : CellOK(c)
    BY <1>1, CellType DEF Whats
  <2>2. QED
    BY <1>2, <2>1, DoesStep
<1>3. ASSUME v.kind = "group",
             Does(i, {UnderKey(member(a)) : a \in v.attrs \ hit}, UNION {KeyTag(member(a)) : a \in hit})
      PROVE  RedactInv'
  <2>1. ASSUME NEW a \in v.attrs
        PROVE  CallOK(member(a)) /\ ~member(a).redactAll /\ member(a).path = i.path /\ member(a).key = a.key
    <3>1. a.key \in Seq(Runes) /\ a.value \in GoValues
      BY <1>1, <1>3, HeapType
    <3> DEFINE x == Resolve(a.value)
    <3>2. x \in GoValues
      BY <3>1, HeapType DEF Resolve
    <3> HIDE DEF x
    <3> DEFINE j == [i EXCEPT !.key = a.key, !.value = x, !.depth = @ + 1]
    <3>3. /\ j \in Calls /\ j.names = i.names /\ j.path = i.path /\ j.redactAll = i.redactAll /\ ~j.inside
          /\ j.key = a.key
      BY <1>1, <3>1, <3>2 DEF Calls
    <3>4. member(a) = j
      BY DEF x
    <3> HIDE DEF j
    <3>5. CallOK(j)
      BY <1>1, <3>3, CallChanges
    <3> HIDE DEF member
    <3>6. QED
      BY <1>1, <3>3, <3>4, <3>5
  <2> HIDE DEF member
  <2>2. ASSUME NEW a \in v.attrs \ hit PROVE CallOK(UnderKey(member(a)))
    <3>1. ~Sensitive(member(a).path, member(a).key)
      BY <2>1
    <3>2. QED
      BY <2>1, <3>1, UnderType
  <2>3. ASSUME NEW a \in hit PROVE \A c \in KeyTag(member(a)) : CellOK(c)
    <3>1. member(a) \in Calls
      BY <2>1 DEF CallOK
    <3>2. QED
      BY <3>1, KeyTagType
  <2> DEFINE calls == {UnderKey(member(a)) : a \in v.attrs \ hit}
             writes == UNION {KeyTag(member(a)) : a \in hit}
  <2>4. (\A c \in calls : CallOK(c)) /\ \A c \in writes : CellOK(c)
    BY <2>2, <2>3
  <2>5. Does(i, calls, writes)
    BY <1>3
  <2> HIDE DEF calls, writes
  <2>6. QED
    BY <2>4, <2>5, DoesStep
<1>4. ASSUME v.kind = "any",
             Does(i, {[i EXCEPT !.fn = "renderValue", !.value = v.value, !.exported = TRUE]}, {})
      PROVE  RedactInv'
  <2> DEFINE j == [i EXCEPT !.fn = "renderValue", !.value = v.value, !.exported = TRUE]
  <2>1. v.value \in GoValues
    BY <1>1, <1>4, HeapType
  <2>2. j \in Calls /\ j.names = i.names /\ j.path = i.path /\ j.redactAll = i.redactAll /\ ~j.inside
    <3> HIDE DEF v
    <3>1. QED
      BY <1>1, <2>1 DEF Calls
  <2>3. Does(i, {j}, {})
    BY <1>4
  <2> HIDE DEF j
  <2>4. CallOK(j)
    BY <1>1, <2>2, CallChanges
  <2>5. QED
    BY <2>3, <2>4, DoesStep
<1>5. ASSUME Does(i, {}, Text(i)) PROVE RedactInv'
  BY <1>1, <1>5, TextType, DoesStep
<1>6. QED
  BY <1>2, <1>3, <1>4, <1>5 DEF renderLogValue

\* sanitizeAttr.
LEMMA AttrStep ==
  ASSUME RedactInv, NEW i \in walk.todo, sanitizeAttr(i)
  PROVE  RedactInv'
<1> DEFINE v == Heap[i.value]
           redact == i.redactAll \/ Sensitive(i.path, i.key)
<1>1. CallOK(i) /\ i \in Calls /\ i.value \in GoValues
  BY DEF RedactInv, CallOK, Calls
<1>2. ASSUME Does(i, {}, KeyTag(i)) PROVE RedactInv'
  BY <1>1, <1>2, KeyTagType, DoesStep
<1>3. ASSUME ~redact
      PROVE  /\ CallOK(UnderKey(i)) /\ ~UnderKey(i).redactAll /\ UnderKey(i) \in Calls /\ ~UnderKey(i).inside
  BY <1>1, <1>3, UnderType DEF CallOK
<1>4. ASSUME ~redact, Does(i, {}, Text(UnderKey(i))) PROVE RedactInv'
  BY <1>3, <1>4, TextType, DoesStep
<1>5. ASSUME ~redact, v.kind = "group",
             Does(i, {[UnderKey(i) EXCEPT !.key = a.key, !.value = a.value] : a \in v.attrs}, {})
      PROVE  RedactInv'
  <2> DEFINE u == UnderKey(i)
             member(a) == [u EXCEPT !.key = a.key, !.value = a.value]
             calls == {member(a) : a \in v.attrs}
  <2>1. CallOK(u) /\ ~u.redactAll /\ u \in Calls /\ ~u.inside
    BY <1>3, <1>5
  <2>2. Does(i, calls, {})
    BY <1>5
  <2> HIDE DEF u
  <2>3. ASSUME NEW a \in v.attrs PROVE CallOK(member(a))
    <3>1. a.key \in Seq(Runes) /\ a.value \in GoValues
      BY <1>1, <1>5, HeapType
    <3> DEFINE j == member(a)
    <3>2. j \in Calls /\ j.names = u.names /\ j.path = u.path /\ j.redactAll = u.redactAll /\ ~j.inside
      BY <2>1, <3>1 DEF Calls
    <3> HIDE DEF j
    <3>3. CallOK(j)
      BY <2>1, <3>2, CallChanges
    <3>4. QED
      BY <3>3 DEF j
  <2> HIDE DEF member
  <2>4. \A c \in calls : CallOK(c)
    BY <2>3
  <2> HIDE DEF calls
  <2>5. QED
    BY <2>2, <2>4, DoesStep
<1>6. ASSUME ~redact, v.kind = "logvaluer", Does(i, {[i EXCEPT !.value = v.resolved]}, {})
      PROVE  RedactInv'
  <2> DEFINE j == [i EXCEPT !.value = v.resolved]
  <2>1. v.resolved \in GoValues
    BY <1>1, <1>6, HeapType
  <2>2. j \in Calls /\ j.names = i.names /\ j.path = i.path /\ j.redactAll = i.redactAll /\ ~j.inside
    <3> HIDE DEF v
    <3>1. QED
      BY <1>1, <2>1 DEF Calls, CallOK
  <2>3. Does(i, {j}, {})
    BY <1>6
  <2> HIDE DEF j
  <2>4. CallOK(j)
    BY <1>1, <1>6, <2>2, CallChanges
  <2>5. QED
    BY <2>3, <2>4, DoesStep
<1>7. ASSUME ~redact, v.kind = "any",
             Does(i, {[UnderKey(i) EXCEPT !.fn = "renderValue", !.value = v.value]}, {})
      PROVE  RedactInv'
  <2> DEFINE u == UnderKey(i)
             j == [u EXCEPT !.fn = "renderValue", !.value = v.value]
  <2>1. CallOK(u) /\ ~u.redactAll /\ u \in Calls /\ ~u.inside
    BY <1>3, <1>7
  <2>2. Does(i, {j}, {})
    BY <1>7
  <2> HIDE DEF u
  <2>3. v.value \in GoValues
    BY <1>1, <1>7, HeapType
  <2>4. j \in Calls /\ j.names = u.names /\ j.path = u.path /\ j.redactAll = u.redactAll /\ ~j.inside
    <3> HIDE DEF v
    <3>1. QED
      BY <2>1, <2>3 DEF Calls
  <2> HIDE DEF j
  <2>5. CallOK(j)
    BY <2>1, <2>4, CallChanges
  <2>6. QED
    BY <2>2, <2>5, DoesStep
<1>8. QED
  BY <1>2, <1>4, <1>5, <1>6, <1>7 DEF sanitizeAttr

\* The start of a logging call: the attributes' calls know the handler's path.
LEMMA SanitizeStep ==
  ASSUME RedactInv, NEW h \in handlers, NEW op \in {"WithAttrs", "Handle"}, SanitizeAll(op, h)
  PROVE  RedactInv'
<1>1. HandlerOK(h) /\ h \in Handlers
  BY DEF RedactInv, HandlerOK
<1> DEFINE first(a) == [fn |-> "sanitizeAttr", names |-> h.groups, path |-> h.path,
                        redactAll |-> h.redactAll, key |-> a.key, value |-> a.value,
                        exported |-> TRUE, inside |-> FALSE, depth |-> 0]
<1>2. PICK batch \in Batches : walk' = [op |-> op, h |-> h, out |-> {}, todo |-> {first(a) : a \in batch}]
  BY DEF SanitizeAll
<1>3. ASSUME NEW a \in batch PROVE CallOK(first(a))
  <2>1. a.key \in Seq(Runes) /\ a.value \in GoValues
    BY RedactAssumption, Zenon DEF Member
  <2>2. /\ h.groups \in Names /\ h.path \in Paths /\ h.redactAll \in BOOLEAN
        /\ h.path = Components(h.groups) /\ (~h.redactAll => Clean(h.path))
    BY <1>1 DEF Handlers, HandlerOK
  <2> DEFINE j == first(a)
  <2>3. j \in Calls /\ j.names = h.groups /\ j.path = h.path /\ j.redactAll = h.redactAll /\ ~j.inside /\ j.fn = "sanitizeAttr"
    BY <2>1, <2>2 DEF Calls
  <2> HIDE DEF j
  <2>4. CallOK(j)
    BY <2>2, <2>3 DEF CallOK
  <2>5. QED
    BY <2>4 DEF j
<1> HIDE DEF first
<1> DEFINE todo == {first(a) : a \in batch}
<1>4. \A i \in todo : CallOK(i)
  BY <1>3
<1>5. todo \in SUBSET Calls
  BY <1>4 DEF CallOK
<1>6. walk' = [op |-> op, h |-> h, out |-> {}, todo |-> todo] /\ handlers' = handlers /\ cells' = {}
  BY <1>2 DEF SanitizeAll
<1> HIDE DEF todo
<1>7. /\ walk' \in [op : {"none", "WithAttrs", "Handle"}, h : Handlers, todo : SUBSET Calls, out : SUBSET Cells]
      /\ walk'.h = h /\ walk'.todo = todo /\ walk'.out = {}
  BY <1>1, <1>5, <1>6
<1>8. /\ \A g \in handlers' : HandlerOK(g)
      /\ HandlerOK(walk'.h)
      /\ \A c \in walk'.todo : CallOK(c)
      /\ \A c \in walk'.out : CellOK(c)
      /\ \A c \in cells' : CellOK(c)
  BY <1>1, <1>4, <1>6, <1>7 DEF RedactInv
<1>9. QED
  BY <1>7, <1>8 DEF RedactInv, HandlerOK, CallOK, CellOK

\* A new group: redactAll remembers a sensitive name, or the path is clean.
LEMMA GroupStep ==
  ASSUME RedactInv, NEW h \in handlers, WithGroup(h)
  PROVE  RedactInv'
<1>1. HandlerOK(h) /\ h \in Handlers
  BY DEF RedactInv, HandlerOK
<1>2. PICK name \in GroupNames :
        handlers' = handlers \cup
          {[h EXCEPT !.groups = Append(h.groups, name), !.path = appendPath(h.path, name),
                     !.redactAll = h.redactAll \/ Sensitive(h.path, name)]}
  BY DEF WithGroup
<1>3. /\ name \in Seq(Runes) /\ h.groups \in Names /\ h.path \in Paths /\ h.redactAll \in BOOLEAN
      /\ h.path = Components(h.groups) /\ (~h.redactAll => Clean(h.path))
      /\ \A c \in h.preset : CellOK(c)
  BY <1>1, RedactAssumption DEF Handlers, HandlerOK
<1>4. Append(h.groups, name) \in Names /\ appendPath(h.path, name) \in Paths
  BY <1>3, SplitType DEF Names, Paths, appendPath
<1>5. Components(Append(h.groups, name)) = appendPath(h.path, name)
  BY <1>3, ComponentsAppend
<1> DEFINE all == h.redactAll \/ Sensitive(h.path, name)
           g == [h EXCEPT !.groups = Append(h.groups, name), !.path = appendPath(h.path, name),
                          !.redactAll = all]
<1>6. all \in BOOLEAN /\ (~all => Clean(appendPath(h.path, name)))
  BY <1>3, CleanExtends
<1>7. handlers' = handlers \cup {g} /\ walk' = walk /\ cells' = cells
  BY <1>2 DEF WithGroup
<1> HIDE DEF all
<1>8. /\ g \in Handlers /\ g.groups = Append(h.groups, name) /\ g.path = appendPath(h.path, name)
      /\ g.redactAll = all /\ g.preset = h.preset
  BY <1>1, <1>4, <1>6 DEF Handlers
<1> HIDE DEF g
<1>9. HandlerOK(g)
  BY <1>3, <1>5, <1>6, <1>8 DEF HandlerOK
<1>10. \A x \in handlers' : HandlerOK(x)
  BY <1>7, <1>9 DEF RedactInv
<1>11. QED
  BY <1>7, <1>10 DEF RedactInv, HandlerOK, CallOK, CellOK

\* A logging call returns: what it wrote becomes the record, or is kept by the handler.
LEMMA ReturnStep ==
  ASSUME RedactInv, WithAttrsReturns \/ HandleReturns
  PROVE  RedactInv'
<1>1. /\ Idle \in [op : {"none", "WithAttrs", "Handle"}, h : Handlers, todo : SUBSET Calls, out : SUBSET Cells]
      /\ Idle.h = NewHandler /\ Idle.todo = {} /\ Idle.out = {} /\ HandlerOK(NewHandler)
  <2>1. NewHandler \in Handlers
    BY ComponentsEmpty DEF NewHandler, Handlers, Paths, Names
  <2>2. Clean(<<>>)
    BY DEF Clean
  <2>3. HandlerOK(NewHandler)
    BY <2>1, <2>2, ComponentsEmpty DEF NewHandler, HandlerOK
  <2> HIDE DEF NewHandler
  <2>4. QED
    BY <2>1, <2>3 DEF Idle
<1>2. HandlerOK(walk.h) /\ walk.h \in Handlers /\ walk.out \in SUBSET Cells /\ \A c \in walk.out : CellOK(c)
  BY DEF RedactInv, HandlerOK
<1>3. ASSUME walk' = Idle, \A h \in handlers' : HandlerOK(h), \A c \in cells' : CellOK(c)
      PROVE  RedactInv'
  <2>1. /\ HandlerOK(walk'.h) /\ walk'.todo = {} /\ walk'.out = {}
        /\ walk' \in [op : {"none", "WithAttrs", "Handle"}, h : Handlers, todo : SUBSET Calls, out : SUBSET Cells]
    BY <1>1, <1>3
  <2>2. QED
    BY <1>3, <2>1 DEF RedactInv, HandlerOK, CallOK, CellOK
<1>4. CASE HandleReturns
  <2>1. walk' = Idle /\ handlers' = handlers /\ cells' = walk.h.preset \cup walk.out
    BY <1>4 DEF HandleReturns
  <2>2. \A c \in cells' : CellOK(c)
    BY <1>2, <2>1 DEF HandlerOK
  <2>3. QED
    BY <1>3, <2>1, <2>2 DEF RedactInv
<1>5. CASE WithAttrsReturns
  <2> DEFINE g == [walk.h EXCEPT !.preset = walk.h.preset \cup walk.out]
  <2>1. walk' = Idle /\ handlers' = handlers \cup {g} /\ cells' = cells
    BY <1>5 DEF WithAttrsReturns
  <2>2. walk.h.preset \in SUBSET Cells
    BY <1>2 DEF Handlers
  <2>3. /\ g \in Handlers /\ g.groups = walk.h.groups /\ g.path = walk.h.path
        /\ g.redactAll = walk.h.redactAll /\ g.preset = walk.h.preset \cup walk.out
    BY <1>2, <2>2 DEF Handlers
  <2> HIDE DEF g
  <2>4. HandlerOK(g)
    BY <1>2, <2>3 DEF HandlerOK
  <2>5. (\A h \in handlers' : HandlerOK(h)) /\ \A c \in cells' : CellOK(c)
    BY <2>1, <2>4 DEF RedactInv
  <2>6. QED
    BY <1>3, <2>1, <2>5
<1>6. QED
  BY <1>4, <1>5

\* Handlers, calls in progress and what has been written agree on which names
\* are sensitive, however the values that are logged are built.
THEOREM RedactInvariance == RedactSpec => []RedactInv
<1>1. ASSUME RedactInit PROVE RedactInv
  <2>1. NewHandler \in Handlers
    BY ComponentsEmpty DEF NewHandler, Handlers, Paths, Names
  <2>2. Clean(<<>>)
    BY DEF Clean
  <2>3. HandlerOK(NewHandler)
    BY <2>1, <2>2, ComponentsEmpty DEF NewHandler, HandlerOK
  <2> HIDE DEF NewHandler
  <2>4. QED
    BY <1>1, <2>1, <2>3 DEF RedactInit, Idle, RedactInv
<1>2. ASSUME RedactInv, [RedactNext]_redactVars PROVE RedactInv'
  <2>1. CASE UNCHANGED redactVars
    BY <1>2, <2>1 DEF redactVars, RedactInv, HandlerOK, CallOK, CellOK
  <2>2. ASSUME NEW h \in handlers, WithGroup(h) \/ WithAttrs(h) \/ Handle(h) PROVE RedactInv'
    <3>1. CASE WithGroup(h)
      BY <1>2, <3>1, GroupStep
    <3>2. CASE WithAttrs(h) \/ Handle(h)
      BY <1>2, <3>2, SanitizeStep DEF WithAttrs, Handle
    <3>3. QED
      BY <2>2, <3>1, <3>2
  <2>3. ASSUME NEW i \in walk.todo,
               sanitizeAttr(i) \/ renderValue(i) \/ renderField(i) \/ renderLogValue(i)
        PROVE  RedactInv'
    BY <1>2, <2>3, AttrStep, ValueStep, FieldStep, LogValueStep
  <2>4. CASE WithAttrsReturns \/ HandleReturns
    BY <1>2, <2>4, ReturnStep
  <2>5. QED
    BY <1>2, <2>1, <2>2, <2>3, <2>4 DEF RedactNext
<1>3. QED
  BY <1>1, <1>2, PTL DEF RedactSpec

\* For every alphabet, set of sensitive keys, graph of values and way to nest
\* groups, attributes, fields, maps and log values: no text is logged under
\* names that hold a sensitive key, and none out of a type that renders itself.
THEOREM SensitiveStaysOut == RedactSpec => []SensitiveNeverLogged
<1>1. RedactInv => SensitiveNeverLogged
  BY DEF RedactInv, CellOK, SensitiveNeverLogged
<1>2. QED
  BY <1>1, RedactInvariance, PTL
=============================================================================
