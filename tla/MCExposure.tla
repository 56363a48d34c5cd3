----------------------------- MODULE MCExposure -----------------------------
(***************************************************************************)
(* The places where a copy of a secret could come out, for TLC: requests   *)
(* (Transport), log records (RedactHandler, Sanitizer), registers, dead    *)
(* stack and thread state a Scrub window leaves (ScrubWindow), buffers and *)
(* heap copies a call leaves behind and errors that tell about a plaintext *)
(* (KeyCalls).  They share no state: a behaviour exercises one.            *)
(***************************************************************************)
EXTENDS Transport, RedactHandler, Sanitizer, ScrubWindow, KeyCalls, TLC

CONSTANTS g1, g2

VARIABLE part

MCHosts == {<<"api", 1>>, <<"api", 2>>, <<"cdn", 1>>}

Opts(hosts, anyHost, insecure) ==
  [hosts |-> hosts, anyHost |-> anyHost, insecure |-> insecure, token |-> TRUE]
Entry(scheme, host) == [scheme |-> scheme, host |-> host, path |-> FALSE]
Api == <<"api", 1>>
Cdn == <<"cdn", 1>>

MCOptions ==
  { Opts({Entry("", Api)}, FALSE, FALSE), Opts({Entry("", Api)}, FALSE, TRUE),
    Opts({Entry("https", Api), Entry("http", Cdn)}, FALSE, TRUE),
    Opts({}, TRUE, FALSE), Opts({}, TRUE, TRUE),
    Opts({}, FALSE, TRUE), Opts({Entry("", Api)}, TRUE, FALSE),
    Opts({Entry("ftp", Api)}, FALSE, FALSE), Opts({Entry("", None)}, FALSE, FALSE),
    [Opts({Entry("", Api)}, FALSE, FALSE) EXCEPT !.token = FALSE] }

\* "a_k" and "p" are sensitive.
MCLowers == {"a", "k", "p"}
MCUppers == {"A", "K", "P"}
MCWords == MCLowers \cup MCUppers \cup {"1"}
MCRunes == MCWords \cup {"_"}
MCToLower == [r \in MCRunes |-> CASE r = "A" -> "a" [] r = "K" -> "k" [] r = "P" -> "p"
                                  [] r \in MCRunes \ MCUppers -> r]
MCSensitive == {<<"a", "_", "k">>, <<"P">>}
MCGroups == {<<"a">>, <<"k", "1">>, <<"P">>, <<>>}

Group(as) == [kind |-> "group", method |-> "none", attrs |-> as]
Attr(k, v) == [key |-> k, value |-> v]
AnyOf(v) == [kind |-> "any", method |-> "none", value |-> v]
Field(k, v, e) == [key |-> k, value |-> v, exported |-> e]
Value(v) == v @@ [method |-> "none"]
Leaf == Value([kind |-> "leaf"])
Struct(fs) == Value([kind |-> "struct", fields |-> fs])
Pointer(v) == Value([kind |-> "pointer", elem |-> v])
Map(fs) == Value([kind |-> "map", fields |-> fs])
Pair(k, by, v) == [key |-> k, by |-> by, value |-> v]
\* A type with a method, over a struct that holds a secret.
Self(m) == [Struct({Field(<<"1">>, "leaf", TRUE)}) EXCEPT !.method = m] @@ [logValue |-> "form"]
K == <<"k">>

\* Keys alone and nested, each kind of value, every way to a value that must
\* not be taken apart, and a list that ends in itself.
MCHeap ==
  [string |-> Value([kind |-> "string"]), leaf |-> Leaf,
   k |-> Group({Attr(K, "string")}),
   ak |-> Group({Attr(K, "string"), Attr(<<"a">>, "lazy")}),
   lazy |-> Value([kind |-> "logvaluer", resolved |-> "k"]),
   text |-> Self("text"), marshal |-> Self("marshal"), error |-> Self("error"), panic |-> Self("panic"),
   logs |-> Self("LogValue"),
   form |-> Group({Attr(<<"a">>, "lazy"), Attr(K, "plain")}),
   nested |-> Struct({Field(<<"A">>, "inner", TRUE)}),
   inner |-> Struct({Field(<<"K">>, "leaf", TRUE), Field(<<"1">>, "leaf", TRUE)}),
   map |-> Map({Pair(<<"a">>, "leaf", "slice"), Pair(<<"k">>, "text", "leaf")}),
   slice |-> Value([kind |-> "slice", elems |-> {"inner", "leaf"}]),
   keyed |-> Map({Pair(<<"1">>, "marshal", "leaf"), Pair(<<"a">>, "toinner", "leaf")}),
   hidden |-> Struct({Field(<<"a">>, "text", FALSE)}),
   private |-> Struct({Field(K, "toinner", FALSE),
                       Field(<<"1">>, "iface", FALSE), Field(<<"1">>, "keyed", FALSE)}),
   toinner |-> Pointer("inner"), tologs |-> Pointer("logs"),
   iface |-> Value([kind |-> "interface", elem |-> "panic"]),
   list |-> Struct({Field(<<"a">>, "tolist", TRUE), Field(<<"1">>, "leaf", TRUE)}),
   tolist |-> Pointer("list"),
   plain |-> AnyOf("leaf"), anynested |-> AnyOf("nested"), anymap |-> AnyOf("map"),
   anyprivate |-> AnyOf("private"), anyhidden |-> AnyOf("hidden"), anylist |-> AnyOf("list"), anykeyed |-> AnyOf("keyed"), anylogs |-> AnyOf("tologs"),
   anytext |-> AnyOf("text"), anyerror |-> AnyOf("error"), anypanic |-> AnyOf("panic")]

MCBatches ==
  { {Attr(<<"K">>, "string"), Attr(<<"A", "K", "a">>, "string")},
    {Attr(<<"a", "K">>, "plain")}, {Attr(<<"P", "1">>, "k")}, {Attr(<<>>, "ak")},
    {Attr(<<"a">>, "lazy")} }
    \cup {{Attr(<<"1">>, v)} : v \in {"anynested", "anymap", "anyprivate", "anyhidden", "anylist", "anykeyed",
                                     "anylogs", "anytext", "anyerror", "anypanic"}}

\* Alphabets of text, each about one group of rules with what can stand beside
\* it; the first ones are about what a tag can become part of.
TagAlphabets ==
  { {"x", "_", "secret", "]", ":", " ", "b"}, {"(http://", ":", "@", "x", "&code="},
    {"esc", "[", "]", "secret", ":", "x"}, {"x", "b", "commit", "=", " ", "_"} }
Alphabets ==
  { {"password", "token", "=", "quote", " ", "x"}, {"authorization", ":", "[", "b", " ", "quote"},
    {"cookie", "=", ";", " ", "_", "x"}, {"bearer", " ", "b", "=", "_", "."},
    {"ey", ".", "x", "_", "\n"}, {"api_key", "_", "x", "=", "auth"},
    {"BEGIN", "END", "b", ":", "\n", "${", "}"}, {"r", "u", "x", "_", "\n", "$(", ")"} }
Known == UNION (TagAlphabets \cup Alphabets)
Texts(A, max) == UNION {[1 .. n -> A] : n \in 1 .. max}

\* Every text of up to five or four units over one alphabet, of up to two over all,
\* and a JWT.
MCMessages ==
  UNION {Texts(A, 5) : A \in TagAlphabets} \cup UNION {Texts(A, 4) : A \in Alphabets}
    \cup Texts(Known, 2) \cup {<<"ey", ".", "ey", ".", c>> : c \in {"x", "b", "ey"}}

\* An allowlist finds something in the text, or is as good as none.
AllowlistCounts == allowlist # {} => \E i \in DOMAIN text : text[i] = "commit"

\* One goroutine nests two windows, the other opens one.
MCMaxWindows == (g1 :> 2) @@ (g2 :> 1)

\* No step looks at the owner but to leave its copies, and none at the subject
\* but to record what befalls it: each is followed in behaviours of its own,
\* with one thread that may have been masked before, the subject, and the owner
\* the one that nests its windows.
OneObserved ==
  /\ (owner = NoGoroutine) # (subject = NoThread) /\ owner # g2
  /\ \A th \in Threads : home[th] => th = subject

ThreadSymmetry == Permutations(Threads)

\* Every container with every algorithm and every flaw a check can find in it.
Flaws == {"none", "frame", "footer", "body", "type", "header", "params", "cost", "pass", "block", "halves",
          "length", "range", "pub"}
MCFiles ==
  {f \in [shape : {"pem", "der", "openssh", "junk", "empty"},
          kind : {"openssh", "pkcs8", "sec1", "pkcs1", "encrypted", "legacy", "headers", "other"},
          cipher : {"none", "aes", "chacha", "unknown"},
          alg : {"ed25519", "ecdsa", "rsa", "x25519", "mlkem", "words"}, flaw : Flaws] :
     KeyFile(f)}

\* A key's type is fixed by some kinds, and so is what can be wrong; a call
\* that reads no file is given an empty one.
Sensible ==
  /\ file.kind = "pkcs1" => file.alg = "rsa"
  /\ file.kind = "sec1" => file.alg \in {"ecdsa", "x25519"}
  /\ file.flaw \in {"params", "cost", "pass", "halves"} =>
       file.kind \in {"openssh", "encrypted"}
  /\ file.flaw = "range" => file.alg \in {"ecdsa", "rsa"}
  /\ file.flaw = "pub" => file.alg \in {"ed25519", "ecdsa"}
  /\ file.alg = "words" => entry = "generate"
  /\ entry \in {"generate", "agree", "encapsulate"} =>
       file.shape = "empty" /\ file.flaw = "none"
  /\ entry = "agree" => file.alg \in {"x25519", "mlkem"}
  /\ entry = "encapsulate" => file.alg = "mlkem"
  /\ entry = "marshal" =>
       file.shape = "openssh" /\ file.flaw = "none" /\ file.alg = "ed25519"

-----------------------------------------------------------------------------

\* A part that is not exercised has one initial state.
Init ==
  /\ part \in {"transport", "handler", "sanitizer", "scrub", "calls"}
  /\ IF part = "scrub" THEN TRUE
     ELSE owner = NoGoroutine /\ subject = NoThread /\ home = [th \in Threads |-> FALSE]
  /\ ScrubInit
  /\ part = "scrub" => OneObserved
  /\ IF part = "calls" THEN TRUE
     ELSE /\ entry = "agree" /\ allow = TRUE
          /\ file = [shape |-> "empty", kind |-> "other", cipher |-> "none",
                     alg |-> "x25519", flaw |-> "none"]
  /\ KeyInit /\ Sensible
  /\ TransportInit /\ RedactInit
  /\ IF part = "sanitizer" THEN SanitizerInit /\ AllowlistCounts
     ELSE /\ rules = InjectionOnlyRules /\ allowlist = {} /\ maxLen = 0
          /\ text = <<>> /\ pass = 0 /\ done = FALSE

Next ==
  /\ \/ /\ part = "transport" /\ TransportNext
        /\ UNCHANGED <<redactVars, sanitizerVars, scrubVars, keyVars>>
     \/ /\ part = "handler" /\ RedactNext
        /\ UNCHANGED <<transportVars, sanitizerVars, scrubVars, keyVars>>
     \/ /\ part = "sanitizer" /\ SanitizerNext
        /\ UNCHANGED <<transportVars, redactVars, scrubVars, keyVars>>
     \/ /\ part = "scrub" /\ ScrubNext
        /\ UNCHANGED <<transportVars, redactVars, sanitizerVars, owner, subject, keyVars>>
     \/ /\ part = "calls" /\ KeyNext
        /\ UNCHANGED <<transportVars, redactVars, sanitizerVars, scrubVars>>
  /\ UNCHANGED part

Spec == Init /\ [][Next]_<<part, transportVars, redactVars, sanitizerVars, scrubVars, keyVars>>
=============================================================================
