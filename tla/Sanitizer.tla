----------------------------- MODULE Sanitizer ------------------------------
(***************************************************************************)
(* Sanitizer.Sanitize (src/redact/sanitizer.go): the default rules applied *)
(* in order, pass after pass until nothing changes, over text that is cut  *)
(* to a maximal length before the first pass and again after every pass.   *)
(*                                                                         *)
(* Text is a sequence of units, a unit standing for the few characters the *)
(* rules tell apart.  "x" and "b" are some twenty characters of a random   *)
(* run, in hex and in mixed-case base64; "_" glues words together; a quote *)
(* is of any style; "password", "secret" and their like are key names and  *)
(* "commit" an allowlisted one; "ey" is how a segment of a JWT begins;     *)
(* "(http://" and "&code=" begin a URL and a query parameter; BEGIN and    *)
(* END are the header and the footer of a PEM block; "r" and "u" are the   *)
(* two bytes of a rune.  "[" is "[REDACTED:" and the first words of a      *)
(* rule's name, so that a tag is "[]", or "[secret]" where the name ends   *)
(* in a key name, as "hex_secret" does; "[" after an escape character      *)
(* begins a terminal sequence, of which "~" is the rest, "EDACTED:".       *)
(***************************************************************************)
EXTENDS Integers, Sequences, FiniteSetsExt

CONSTANTS
  Messages,         \* texts that are sanitized
  MaxLens,          \* arguments of WithMaxLen, in units; 0 disables truncation
  MinRun,           \* the units a random run is redacted from (40 characters)
  MaxPasses         \* maxSanitizePasses

Spaces == {" ", "\n"}
Keys == {"authorization", "cookie", "password", "secret", "token", "bearer", "api_key", "auth"}
Long == {"x", "b"}
\* Units of characters a base64 run may hold, which are the word characters.
WordUnits == Long \cup Keys \cup {"_", "ey", "commit", "truncated"}
Units == WordUnits \cup Spaces \cup
  {"=", ":", "quote", ";", ".", "(http://", "@", "&code=", "BEGIN", "END",
   "${", "}", "$(", ")", "esc", "r", "u", "[", "]", "~"}

ASSUME SanitizerAssumption ==
  /\ Messages \subseteq Seq(Units) /\ MaxLens \subseteq Nat /\ MinRun \in Nat \ {0}
  /\ MaxPasses \in Nat /\ MaxPasses > 1

VARIABLES
  rules,            \* names of the rules, in order
  allowlist,        \* its patterns: "label" or "field"
  maxLen,
  text,             \* prev in Sanitize
  pass,             \* passes made
  done

sanitizerVars == <<rules, allowlist, maxLen, text, pass, done>>

SecretRules ==
  <<"pem_private_key", "authorization_header", "cookie_header", "url_password",
    "password_field", "secret_field", "token_field", "api_key_field", "auth_field",
    "url_query_credential", "jwt", "bearer_token">>
InjectionOnlyRules ==
  <<"crlf_injection", "ansi_escape", "shell_variable", "shell_command">>
EntropyRules == <<"base64_secret", "hex_secret">>
DefaultRules == SecretRules \o InjectionOnlyRules \o EntropyRules

\* The key name a rule's own name ends in, inside its tag.
NameEnds ==
  [pem_private_key |-> <<"secret">>, url_password |-> <<"password">>,
   url_query_credential |-> <<"secret">>, bearer_token |-> <<"token">>,
   base64_secret |-> <<"secret">>, hex_secret |-> <<"secret">>]
tag(rule) ==
  <<"[">> \o (IF rule \in DOMAIN NameEnds THEN NameEnds[rule] ELSE <<>>) \o <<"]">>
truncatedTag == <<"[", "truncated", "]">>

-----------------------------------------------------------------------------
(* Truncation. *)

HasSuffix(m, s) == Len(m) >= Len(s) /\ SubSeq(m, Len(m) - Len(s) + 1, Len(m)) = s

\* Cut at a rune boundary and mark the cut; what is a cut already stays.
truncate(m) ==
  IF \/ maxLen = 0 \/ Len(m) <= maxLen
     \/ HasSuffix(m, truncatedTag) /\ Len(m) - Len(truncatedTag) <= maxLen
  THEN m
  ELSE LET cut == Max({c \in 0 .. maxLen : c = 0 \/ m[c + 1] # "u"})
       IN SubSeq(m, 1, cut) \o truncatedTag

-----------------------------------------------------------------------------
(* What the rules match.  End operators give the last unit of the match    *)
(* that begins at the i-th, or 0 if there is none.                         *)

At(m, i, S) == i \in DOMAIN m /\ m[i] \in S

\* The first place from i on with a unit of S, Len(m) + 1 if there is none.
Next1(m, i, S) == Min({j \in i .. Len(m) : m[j] \in S} \cup {Len(m) + 1})
\* The first place from i on that a run of units of S does not reach.
Past(m, i, S) == Next1(m, i, Units \ S)

WordBoundary(m, i) == ~(At(m, i - 1, WordUnits) /\ At(m, i, WordUnits \cup {"~"}))
\* Key names that need a boundary before them, or an underscore, which is
\* then part of the match.
Guarded == {"authorization", "cookie", "bearer", "api_key"}
KeyAt(m, i) == IF At(m, i, {"_"}) /\ At(m, i + 1, Guarded) THEN i + 1 ELSE i

\* credSep: where the value begins, 0 if there is no separator or no value.
credSep(m, i) ==
  LET closed == IF At(m, i, {"quote", "]"}) THEN i + 1 ELSE i
      sep == Past(m, closed, Spaces)
      value == Past(m, sep + 1, Spaces)
  IN IF At(m, sep, {"=", ":"}) /\ value <= Len(m) THEN value ELSE 0

\* The end of a value that begins at v: a quoted one, or the one given.
Quoted(m, v, bare) ==
  IF m[v] = "quote" /\ Next1(m, v + 1, {"quote"}) <= Len(m)
  THEN Next1(m, v + 1, {"quote"}) ELSE bare

\* A run of anything but spaces.
credValue(m, v) == Quoted(m, v, Next1(m, v, Spaces) - 1)

\* A bracketed value, or a scheme, spaces and the credential.
authorizationValue(m, v) ==
  LET scheme == IF m[v] = "quote" THEN v + 1 ELSE v
      after == Past(m, scheme, WordUnits)
      cred == Past(m, after, Spaces)
  IN Quoted(m, v,
       IF m[v] = "[" /\ Next1(m, v, {"]"}) <= Len(m) THEN Next1(m, v, {"]"})
       ELSE IF scheme < after /\ after < cred /\ cred <= Len(m)
       THEN Next1(m, cred, Spaces) - 1 ELSE Next1(m, v, Spaces) - 1)

\* Pairs with a semicolon and spaces between them.
cookieValue(m, v) ==
  LET Pairs(j) ==
        /\ m[j] \notin Spaces \cup {";"}
        /\ \A p \in v .. j :
             /\ m[p] \in Spaces => p > v /\ m[p - 1] \in Spaces \cup {";"}
             /\ m[p] = ";" => p > v /\ m[Past(m, p + 1, Spaces)] # ";"
  IN Quoted(m, v, Max({0} \cup {j \in v .. Len(m) : Pairs(j)}))

\* credRe and the two header patterns.
FieldKeys ==
  [authorization_header |-> {"authorization"}, cookie_header |-> {"cookie"},
   password_field |-> {"password"}, secret_field |-> {"secret"},
   token_field |-> {"token", "bearer"}, api_key_field |-> {"api_key"},
   auth_field |-> {"auth"}]
fieldEnd(rule, m, i) ==
  LET k == KeyAt(m, i)
      v == credSep(m, k + 1)
  IN IF \/ ~At(m, k, FieldKeys[rule]) \/ v = 0
        \/ k = i /\ m[i] \in Guarded /\ ~WordBoundary(m, i)
     THEN 0
     ELSE CASE rule = "authorization_header" -> authorizationValue(m, v)
            [] rule = "cookie_header" -> cookieValue(m, v)
            [] OTHER -> credValue(m, v)

\* A PEM block to its footer, its header alone if that is missing.
pemEnd(m, i) ==
  IF ~At(m, i, {"BEGIN"}) THEN 0
  ELSE IF Next1(m, i, {"END"}) <= Len(m) THEN Next1(m, i, {"END"}) ELSE i

\* The password in a URL, the colon before it being the first one: it may be
\* that of a tag.
Colons == {":", "[", "~"}
urlStops == Spaces \cup {"(http://", "@"}
urlColon(m, i) == Next1(m, i + 1, Colons \cup urlStops)
urlPasswordEnd(m, i) ==
  LET c == urlColon(m, i)
      end == Next1(m, c + 1, urlStops)
  IN IF /\ At(m, i, {"(http://"}) /\ At(m, c, Colons) /\ At(m, end, {"@"})
        /\ (end > c + 1 \/ m[c] = "[")
     THEN end ELSE 0

urlQueryEnd(m, i) ==
  LET past == Next1(m, i + 1, Spaces \cup {"&code=", "quote"})
  IN IF At(m, i, {"&code="}) /\ past > i + 1 THEN past - 1 ELSE 0

\* Three segments, of which two begin like a JSON object.
jwtEnd(m, i) ==
  LET dot == Past(m, i, WordUnits)
      dot2 == Past(m, dot + 1, WordUnits)
      past == Past(m, dot2 + 1, WordUnits)
  IN IF /\ At(m, i, {"ey"}) /\ WordBoundary(m, i)
        /\ At(m, dot, {"."}) /\ At(m, dot + 1, {"ey"}) /\ At(m, dot2, {"."})
        /\ \E q \in dot2 + 1 .. past - 1 : m[q] \in Long \cup {"ey"}
     THEN past - 1 ELSE 0

bearerEnd(m, i) ==
  LET v == Past(m, i + 1, Spaces)
      past == Past(m, v, WordUnits \cup {".", "="})
  IN IF /\ At(m, i, {"bearer"}) /\ WordBoundary(m, i) /\ v > i + 1
        /\ \E q \in v .. past - 1 : m[q] \in Long
     THEN past - 1 ELSE 0

\* From an opening unit to the first closing one.
shellEnd(m, i, open, close) ==
  IF At(m, i, {open}) /\ Next1(m, i, {close}) <= Len(m) THEN Next1(m, i, {close}) ELSE 0

Longs(m, i, past) == Cardinality({q \in i .. past - 1 : m[q] \in Long})

\* A run of base64 characters, with its padding; the run begins where no
\* other base64 character is before it.
base64End(m, i) ==
  LET past == Past(m, i, WordUnits)
      padded == IF At(m, past, {"="}) THEN IF At(m, past + 1, {"="}) THEN past + 1 ELSE past
                ELSE past - 1
  IN IF At(m, i, WordUnits) /\ Longs(m, i, past) >= MinRun THEN padded ELSE 0

\* A run of hex that stands as a word of its own.
hexEnd(m, i) ==
  LET past == Past(m, i, {"x"})
  IN IF WordBoundary(m, i) /\ WordBoundary(m, past) /\ past - i >= MinRun THEN past - 1 ELSE 0

\* A control character, or a byte of a rune that is not all there.
unprintableEnd(m, i) ==
  IF \/ m[i] \in {"\n", "esc"}
     \/ m[i] = "u" /\ ~At(m, i - 1, {"r"})
     \/ m[i] = "r" /\ ~At(m, i + 1, {"u"})
  THEN i ELSE 0

End(rule, m, i) ==
  CASE rule \in DOMAIN FieldKeys -> fieldEnd(rule, m, i)
    [] rule = "pem_private_key" -> pemEnd(m, i)
    [] rule = "url_password" -> urlPasswordEnd(m, i)
    [] rule = "url_query_credential" -> urlQueryEnd(m, i)
    [] rule = "jwt" -> jwtEnd(m, i)
    [] rule = "bearer_token" -> bearerEnd(m, i)
    [] rule = "crlf_injection" -> Past(m, i, {"\n"}) - 1
    [] rule = "ansi_escape" -> IF m[i] = "esc" /\ At(m, i + 1, {"["}) THEN i + 1 ELSE 0
    [] rule = "shell_variable" -> shellEnd(m, i, "${", "}")
    [] rule = "shell_command" -> shellEnd(m, i, "$(", ")")
    [] rule = "base64_secret" -> base64End(m, i)
    [] rule = "hex_secret" -> hexEnd(m, i)
    [] rule = "unprintable" -> unprintableEnd(m, i)

\* What a match is replaced by: the tag, with the part of the match that is
\* not the credential, or that the match leaves of a tag's opening.
Replacement(rule, m, i) ==
  CASE rule = "url_password" -> SubSeq(m, i, urlColon(m, i)) \o tag(rule) \o <<"@">>
    [] rule = "url_query_credential" -> <<m[i]>> \o tag(rule)
    [] rule = "ansi_escape" -> tag(rule) \o <<"~">>
    [] OTHER -> tag(rule)

-----------------------------------------------------------------------------
(* The scan. *)

\* The spans the allowlist matches: a label and what separates it from its
\* value, and with a pattern for the whole field the value too.
Allowed(m) ==
  LET past(i) == Past(m, i + 1, Spaces \cup {"=", ":"})
      at == {i \in DOMAIN m : m[i] = "commit" /\ past(i) > i + 1}
  IN (IF "label" \in allowlist THEN {<<i, past(i) - 1>> : i \in at} ELSE {})
       \cup (IF "field" \in allowlist THEN {<<i, Past(m, past(i), WordUnits) - 1>> : i \in at} ELSE {})

\* An allowlist match ends where the match begins, or contains it.
exempts(m, i, j) ==
  \E s \in Allowed(m) : s[2] = i - 1 \/ (s[1] <= i /\ j <= s[2])

\* Filter of the base64 rule.
looksLikeBase64Secret(m, i, j) == m[j] = "=" \/ \E q \in i .. j : m[q] = "b"

Kept(rule, m, i, j) ==
  \/ rule \in {"base64_secret", "hex_secret"} /\ exempts(m, i, j)
  \/ rule = "base64_secret" /\ ~looksLikeBase64Secret(m, i, j)

\* The scan comes to the i-th unit; out is the text for all units up to
\* lastEnd.
RuleStep(s, m, rule, i) ==
  LET end == End(rule, m, i)
  IN IF i <= s.lastEnd THEN s
     ELSE IF end < i THEN [out |-> Append(s.out, m[i]), lastEnd |-> i]
     ELSE [out |-> s.out \o (IF Kept(rule, m, i, end) THEN SubSeq(m, i, end)
                             ELSE Replacement(rule, m, i)),
           lastEnd |-> end]

\* Replace the matches from the left.
applyRule(m, rule) ==
  LET scan[i \in 0 .. Len(m)] ==
        IF i = 0 THEN [out |-> <<>>, lastEnd |-> 0] ELSE RuleStep(scan[i - 1], m, rule, i)
  IN scan[Len(m)].out

\* Control characters and stray bytes that are left become tags.
stripNonPrintable(m) == applyRule(m, "unprintable")

onePass(m) ==
  LET after[n \in 0 .. Len(rules)] == IF n = 0 THEN m ELSE applyRule(after[n - 1], rules[n])
  IN truncate(stripNonPrintable(after[Len(rules)]))

-----------------------------------------------------------------------------

\* NewDefaultSanitizer, NewStrictSanitizer, and one built from other parts.
SanitizerInit ==
  /\ rules \in {DefaultRules, InjectionOnlyRules}
  /\ allowlist \in IF rules = DefaultRules THEN {{"label"}, {}, {"field"}} ELSE {{}}
  /\ maxLen \in MaxLens
  /\ \E m \in Messages : text = truncate(m)
  /\ pass = 0 /\ done = FALSE

\* Sanitize in a single pass.
PassOnce ==
  /\ ~done
  /\ text' = onePass(text)
  /\ pass' = pass + 1
  /\ done' = TRUE

\* One turn of the loop: a pass that changes nothing ends it.
Pass ==
  /\ ~done
  /\ text' = onePass(text)
  /\ pass' = pass + 1
  /\ done' = (text' = text \/ pass' = MaxPasses)

SanitizerNext == Pass /\ UNCHANGED <<rules, allowlist, maxLen>>

SanitizerSpec == SanitizerInit /\ [][SanitizerNext]_sanitizerVars

-----------------------------------------------------------------------------

\* Sanitize ends at a text it would not change (sanitizer.go:194), within the passes it
\* allows itself, although its own tags can match its rules; the text is at most maxLen
\* units and the marker long and holds no line break, control character or broken rune,
\* and with the default rules no key with a value and no random run that stands as a
\* word and that the allowlist does not spare.
SanitizeIsStable ==
  done =>
    /\ truncate(text) = text /\ onePass(text) = text
    /\ maxLen > 0 => Len(text) <= maxLen + Len(truncatedTag)
    /\ \A i \in DOMAIN text :
         /\ unprintableEnd(text, i) = 0
         /\ rules = DefaultRules =>
              /\ \A rule \in DOMAIN FieldKeys : fieldEnd(rule, text, i) = 0
              /\ hexEnd(text, i) >= i => exempts(text, i, hexEnd(text, i))
=============================================================================
