--------------------------- MODULE RedactHandler ----------------------------
(***************************************************************************)
(* The redacting slog.Handler (src/redact/handler.go): handlers derived    *)
(* with WithGroup and WithAttrs, the sensitive keys matched along the path *)
(* of group names, attribute keys, struct fields and map keys, and the     *)
(* walk that turns a Go value into text without taking apart a type that   *)
(* renders itself.                                                         *)
(*                                                                         *)
(* A key is a sequence of runes, so that splitKey is modelled by what it   *)
(* does.  Values are a graph (Heap), as they are in Go: a pointer may lead *)
(* back to what holds it.  The calls of the walk that are still to be made *)
(* are kept in a set: what one of them writes does not depend on another,  *)
(* so the order they are made in is left open.                             *)
(*                                                                         *)
(* The text the inner handler is given is a set of cells: the names        *)
(* printed on the way to a piece of text, and what the text is: "raw" (a   *)
(* plain value, left to the Sanitizer), "own" (the form a type chose for   *)
(* itself), "guarded" (what is inside such a type, or behind a pointer     *)
(* whose methods cannot be called), "guarded key" (the same, printed as    *)
(* the name of a map entry), or a stand-in.                                *)
(*                                                                         *)
(* A type that renders itself has a method ("none" if it has not): "text"  *)
(* is one fmt calls, Format, Error or String; the others are those of the  *)
(* encoders and slog, which fmt does not know.                             *)
(***************************************************************************)
EXTENDS Integers, Sequences, FiniteSets

CONSTANTS
  Runes, Words,               \* characters; letters, numbers and marks
  Uppers, Lowers, Digits,
  ToLower,                    \* strings.ToLower, by rune
  SensitiveKeys,              \* the configured names
  GroupNames,                 \* arguments of WithGroup
  Heap,                       \* the Go values and slog values that are logged
  Batches,                    \* the attributes of one call: sets of [key, value]
  MaxGroups,                  \* groups opened on one handler (MaxHandlers in all)
  MaxHandlers,
  MaxRenderDepth

GoValues == DOMAIN Heap
Member(m) == m.key \in Seq(Runes) /\ m.value \in GoValues

\* Keys are strings, and what a value holds is a value.
ASSUME RedactAssumption ==
  /\ MaxGroups \in Nat /\ MaxHandlers \in Nat /\ MaxRenderDepth \in Nat
  /\ Words \subseteq Runes /\ ToLower \in [Runes -> Runes]
  /\ SensitiveKeys \subseteq Seq(Runes) /\ GroupNames \subseteq Seq(Runes)
  /\ \A batch \in Batches : \A a \in batch : Member(a)
  /\ \A x \in GoValues :
       LET v == Heap[x] IN
         /\ v.kind \in {"pointer", "interface"} => v.elem \in GoValues
         /\ v.kind = "struct" => \A f \in v.fields : Member(f) /\ f.exported \in BOOLEAN
         /\ v.kind = "map" => \A f \in v.fields : Member(f) /\ f.by \in GoValues
         /\ v.kind = "slice" => v.elems \subseteq GoValues
         /\ v.method = "LogValue" => v.logValue \in GoValues
         /\ v.kind = "group" => \A a \in v.attrs : Member(a)
         /\ v.kind = "any" => v.value \in GoValues
         /\ v.kind = "logvaluer" => v.resolved \in GoValues

VARIABLES
  handlers,         \* the handlers derived so far
  walk,             \* the logging call in progress
  cells             \* what the inner handler wrote of the last record

redactVars == <<handlers, walk, cells>>

-----------------------------------------------------------------------------
(* Keys *)

\* Does a component end before the i-th rune?
Boundary(key, i) ==
  LET r == key[i]
      prev == key[i - 1]
  IN \/ (r \in Digits) # (prev \in Digits)
     \/ r \in Uppers /\ prev \in Lowers
     \/ r \in Uppers /\ prev \in Uppers /\ i < Len(key) /\ key[i + 1] \in Lowers

\* The components found so far, and the one that is being read.
flush(s) == IF s.cur = <<>> THEN s ELSE [comps |-> Append(s.comps, s.cur), cur |-> <<>>]

ReadRune(s, key, i) ==
  LET t == IF s.cur # <<>> /\ Boundary(key, i) THEN flush(s) ELSE s
  IN IF key[i] \notin Words THEN flush(s)
     ELSE [t EXCEPT !.cur = Append(@, ToLower[key[i]])]

\* Lower-cased components, split at punctuation, digits and CamelCase.
splitKey(key) ==
  LET read[i \in 0 .. Len(key)] ==
        IF i = 0 THEN [comps |-> <<>>, cur |-> <<>>] ELSE ReadRune(read[i - 1], key, i)
  IN flush(read[Len(key)]).comps

newKeySet(names) == {splitKey(n) : n \in names} \ {<<>>}
keys == newKeySet(SensitiveKeys)

\* Some entry is a run of the path that reaches into its last n components.
match(path, n) ==
  /\ n > 0
  /\ \E e \in keys : \E i \in 1 .. Len(path) :
       LET j == i + Len(e) - 1 IN
         j <= Len(path) /\ j > Len(path) - n /\ SubSeq(path, i, j) = e

appendPath(path, key) == path \o splitKey(key)
Sensitive(path, key) == match(appendPath(path, key), Len(splitKey(key)))

-----------------------------------------------------------------------------
(* The walk: i is a call, by its function fn and its arguments.  exported  *)
(* says whether the value was reached through exported fields only (then   *)
(* its methods can be called), inside whether it is part of a value that   *)
(* must not be taken apart.                                                *)

Cell(names, what) == {[names |-> names, what |-> what]}
Text(i) == Cell(i.names, IF i.inside THEN "guarded" ELSE "raw")

\* The call i makes these calls and writes this.
Does(i, calls, writes) ==
  /\ walk' = [walk EXCEPT !.todo = (@ \ {i}) \cup calls, !.out = @ \cup writes]
  /\ UNCHANGED <<handlers, cells>>

\* What is under the call's key.
UnderKey(i) == [i EXCEPT !.names = Append(@, i.key), !.path = appendPath(@, i.key)]
KeyTag(i) == Cell(Append(i.names, i.key), "key tag")

\* A part of the call's value.
Part(i, x) ==
  [i EXCEPT !.value = x, !.depth = @ + 1,
            !.inside = \/ @
                       \/ Heap[i.value].method # "none"
                       \/ Heap[i.value].kind = "pointer" /\ ~i.exported]

\* Value.Resolve.
Resolve(x) == IF Heap[x].kind = "logvaluer" THEN Heap[x].resolved ELSE x

\* renderField that hands the enclosing path on.
renderFieldBare(i) ==
  /\ i.fn = "renderField"
  /\ \/ Sensitive(i.path, i.key) /\ Does(i, {}, KeyTag(i))
     \/ ~Sensitive(i.path, i.key) /\ Does(i, {[UnderKey(i) EXCEPT !.fn = "renderValue", !.path = i.path]}, {})

\* A named member, redacted as a whole when its name is sensitive.
renderField(i) ==
  /\ i.fn = "renderField"
  /\ \/ Sensitive(i.path, i.key) /\ Does(i, {}, KeyTag(i))
     \/ ~Sensitive(i.path, i.key) /\ Does(i, {[UnderKey(i) EXCEPT !.fn = "renderValue"]}, {})

\* A type's own method: text, a log value, an error or a panic.
renderByMethod(i, v) ==
  \/ v.method \in {"text", "marshal"} /\ Does(i, {}, Cell(i.names, "own"))
  \/ v.method = "error" /\ Does(i, {}, Cell(i.names, "marshal_error tag"))
  \/ v.method = "panic" /\ Does(i, {}, Cell(i.names, "panic tag"))
  \/ /\ v.method = "LogValue"
     /\ Does(i, {[i EXCEPT !.fn = "renderLogValue", !.value = v.logValue, !.depth = @ + 1]}, {})

\* The name of a map entry, written by fmt: it calls the methods it knows,
\* where it can, and takes any other value apart.
mapKeyName(i, by) ==
  LET k == Heap[by] IN
    IF k.method = "text" /\ i.exported THEN Cell(i.names, "own")
    ELSE IF k.method # "none" \/ (k.kind = "pointer" /\ ~i.exported)
    THEN Cell(i.names, "guarded key") ELSE Text(i)

\* A value with no method of its own is taken apart.
walkValue(i, v) ==
  \/ v.kind = "pointer" /\ ~i.exported /\ Does(i, {}, Cell(i.names, "<ptr>"))
  \/ /\ v.kind = "interface" \/ (v.kind = "pointer" /\ i.exported)
     /\ Does(i, {Part(i, v.elem)}, {})
  \/ /\ v.kind = "struct"
     /\ Does(i, {[Part(i, f.value) EXCEPT !.fn = "renderField", !.key = f.key,
                                          !.exported = @ /\ f.exported] : f \in v.fields}, {})
  \/ /\ v.kind = "map"
     /\ Does(i, {[Part(i, f.value) EXCEPT !.fn = "renderField", !.key = f.key] : f \in v.fields},
             UNION {mapKeyName(i, f.by) : f \in v.fields})
  \/ v.kind = "slice" /\ Does(i, {Part(i, e) : e \in v.elems}, {})
  \/ v.kind = "leaf" /\ Does(i, {}, Text(i))

\* renderValue that takes apart what it cannot call a method of.
renderValueAnyway(i) ==
  LET v == Heap[i.value] IN
  /\ i.fn = "renderValue"
  /\ \/ i.depth > MaxRenderDepth /\ Does(i, {}, Cell(i.names, "..."))
     \/ i.depth <= MaxRenderDepth /\ v.method # "none" /\ i.exported /\ renderByMethod(i, v)
     \/ i.depth <= MaxRenderDepth /\ (v.method = "none" \/ ~i.exported) /\ walkValue(i, v)

renderValue(i) ==
  LET v == Heap[i.value] IN
  /\ i.fn = "renderValue"
  /\ \/ i.depth > MaxRenderDepth /\ Does(i, {}, Cell(i.names, "..."))
     \/ /\ i.depth <= MaxRenderDepth
        /\ \/ v.method # "none" /\ i.exported /\ renderByMethod(i, v)
           \/ v.method # "none" /\ ~i.exported /\ Does(i, {}, Cell(i.names, "unexported tag"))
           \/ v.method = "none" /\ walkValue(i, v)

\* A resolved slog.Value inside the walk.
renderLogValue(i) ==
  LET v == Heap[i.value]
      hit == {a \in v.attrs : Sensitive(i.path, a.key)}
      member(a) == [i EXCEPT !.key = a.key, !.value = Resolve(a.value), !.depth = @ + 1]
  IN
  /\ i.fn = "renderLogValue"
  /\ \/ i.depth > MaxRenderDepth /\ Does(i, {}, Cell(i.names, "..."))
     \/ /\ i.depth <= MaxRenderDepth
        /\ \/ /\ v.kind = "group"
              /\ Does(i, {UnderKey(member(a)) : a \in v.attrs \ hit},
                         UNION {KeyTag(member(a)) : a \in hit})
           \/ /\ v.kind = "any"
              /\ Does(i, {[i EXCEPT !.fn = "renderValue", !.value = v.value,
                                    !.exported = TRUE]}, {})
           \/ v.kind = "string" /\ Does(i, {}, Text(i))

\* One attribute: its key first, whatever the value; a LogValuer is resolved.
sanitizeAttr(i) ==
  LET v == Heap[i.value]
      redact == i.redactAll \/ Sensitive(i.path, i.key)
  IN
  /\ i.fn = "sanitizeAttr"
  /\ \/ redact /\ Does(i, {}, KeyTag(i))
     \/ /\ ~redact
        /\ \/ v.kind = "string" /\ Does(i, {}, Text(UnderKey(i)))
           \/ /\ v.kind = "group"
              /\ Does(i, {[UnderKey(i) EXCEPT !.key = a.key, !.value = a.value] :
                            a \in v.attrs}, {})
           \/ v.kind = "logvaluer" /\ Does(i, {[i EXCEPT !.value = v.resolved]}, {})
           \/ /\ v.kind = "any"
              /\ Does(i, {[UnderKey(i) EXCEPT !.fn = "renderValue", !.value = v.value]}, {})

-----------------------------------------------------------------------------
(* Handlers *)

\* groups are the names the inner handler nests under, preset the attributes
\* it already holds.
NewHandler == [groups |-> <<>>, path |-> <<>>, redactAll |-> FALSE, preset |-> {}]

Idle == [op |-> "none", h |-> NewHandler, todo |-> {}, out |-> {}]

RedactInit == handlers = {NewHandler} /\ walk = Idle /\ cells = {}

WithGroup(h) ==
  /\ Len(h.groups) < MaxGroups /\ Cardinality(handlers) < MaxHandlers
  /\ \E name \in GroupNames \ {<<>>} :
       handlers' = handlers \cup
         {[h EXCEPT !.groups = Append(@, name), !.path = appendPath(@, name),
                    !.redactAll = @ \/ Sensitive(h.path, name)]}
  /\ UNCHANGED <<walk, cells>>

\* The calls of sanitizeAttr for the attributes of one call; what was written
\* before is forgotten.
SanitizeAll(op, h) ==
  /\ \E batch \in Batches :
       walk' = [op |-> op, h |-> h, out |-> {},
                todo |-> {[fn |-> "sanitizeAttr", names |-> h.groups, path |-> h.path,
                           redactAll |-> h.redactAll, key |-> a.key, value |-> a.value,
                           exported |-> TRUE, inside |-> FALSE, depth |-> 0] : a \in batch}]
  /\ cells' = {}
  /\ UNCHANGED handlers

\* The attributes are sanitized once and pinned where they were added.
WithAttrs(h) == Cardinality(handlers) < MaxHandlers /\ SanitizeAll("WithAttrs", h)

WithAttrsReturns ==
  /\ walk.op = "WithAttrs" /\ walk.todo = {}
  /\ handlers' = handlers \cup {[walk.h EXCEPT !.preset = @ \cup walk.out]}
  /\ walk' = Idle
  /\ UNCHANGED cells

Handle(h) == SanitizeAll("Handle", h)

HandleReturns ==
  /\ walk.op = "Handle" /\ walk.todo = {}
  /\ cells' = walk.h.preset \cup walk.out
  /\ walk' = Idle
  /\ UNCHANGED handlers

RedactNext ==
  \/ walk.op = "none" /\ \E h \in handlers : WithGroup(h) \/ WithAttrs(h) \/ Handle(h)
  \/ \E i \in walk.todo :
       sanitizeAttr(i) \/ renderValue(i) \/ renderField(i) \/ renderLogValue(i)
  \/ WithAttrsReturns \/ HandleReturns

-----------------------------------------------------------------------------

\* The components of all the names printed around a piece of text.
Components(names) ==
  LET first[n \in 0 .. Len(names)] ==
        IF n = 0 THEN <<>> ELSE appendPath(first[n - 1], names[n])
  IN first[Len(names)]

\* No run of the path is a sensitive key.
Clean(path) == ~\E i, j \in 1 .. Len(path) : SubSeq(path, i, j) \in keys

\* However groups, attributes, struct fields, maps and log values are nested,
\* no text stands under a run of names that is a sensitive key, and no value
\* of a type that renders itself is taken apart, nor one behind a pointer in
\* an unexported field (handler.go:74); keys of maps are another matter.
SensitiveNeverLogged ==
  \A c \in cells :
    /\ c.what # "guarded"
    /\ c.what \in {"raw", "own"} => Clean(Components(c.names))
=============================================================================
