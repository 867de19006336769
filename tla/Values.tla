------------------------------- MODULE Values -------------------------------
(***************************************************************************)
(* What becomes of a value that a script sends to a component and gets     *)
(* back, as the result of a call or in a signal.  It is converted from the *)
(* engine's value (convertObjectToJSValue of either engine) to a JSValue,  *)
(* to a plain Java object (JSValue.asSimpleJava), back to a JSValue        *)
(* (JSValue.fromJava, by way of JSON for classes it does not know) and to  *)
(* the engine's value (pushJSValue, getJSValue).  Between native code and  *)
(* Java toJVM and fromJVM rebuild the same tree.                           *)
(*                                                                         *)
(* A value of any of these worlds is a tree: a function from the addresses *)
(* of what it is made of, to its kinds and contents.  The address of an    *)
(* item is that of its container and a number: of its place in an array or *)
(* in bytes, of its key in a fixed order of the keys of a map.  So each    *)
(* recursive conversion is a change of nodes, some of which fall away with *)
(* all that is below them.  Numbers are abstract but for those that JSON   *)
(* does not have; a byte has the text of the number that Java takes it for.*)
(* Texts are told apart by what Duktape and Java disagree about: Duktape   *)
(* keeps a character outside of the basic plane as the two surrogates of   *)
(* UTF-16, each in UTF-8 (CESU-8), if a literal of the script has it.  The *)
(* texts of keys, to which the same happens, have no surrogates here.      *)
(***************************************************************************)
EXTENDS Integers, FiniteSets, Sequences, SequencesExt

CONSTANTS
  Engines,   \* "duktape", "spidermonkey" or both
  MaxKeys,   \* MAX_OBJ_KEYS
  MaxDepth,  \* for how many levels Duktape's value stack has room in any case
  Recoded,   \* of each text with a pair of surrogates in CESU-8, the same in UTF-8
  Lone,      \* texts with a surrogate that is in no pair
  Sendable   \* what scripts send

Node(kind, content) == [kind |-> kind, content |-> content]
Null == Node("null", "")
NotInJSON == {Node("number", "NaN"), Node("number", "Infinity"), Node("number", "-Infinity")}

\* What is below a place, directly.
Items(v, place) == {a \in DOMAIN v : a # <<>> /\ Front(a) = place}

Listing == {"array", "object", "function"}
Buffer == {"bytes", "buffer"}
ScriptNodes ==
  [kind : {"boolean", "number", "string", "byte"}, content : STRING]
    \cup [kind : {"undefined", "null"} \cup Listing \cup Buffer, content : {""}]

\* A value of the engine: "bytes" is a Uint8Array and "buffer" any other view or
\* buffer.  Cycles are left out.
IsScriptValue(v) ==
  /\ v \in [DOMAIN v -> ScriptNodes]
  /\ <<>> \in DOMAIN v /\ v[<<>>].kind # "byte"
  /\ DOMAIN v \subseteq Seq(Nat) /\ IsFiniteSet(DOMAIN v)
  /\ \A a \in DOMAIN v \ {<<>>} :
       /\ Front(a) \in DOMAIN v
       /\ v[Front(a)].kind \in IF v[a].kind = "byte" THEN Buffer ELSE Listing

ASSUME ValuesAssumption ==
  /\ Engines \subseteq {"duktape", "spidermonkey"}
  /\ MaxKeys \in Nat
  /\ MaxDepth \in Nat
  /\ Recoded \in [DOMAIN Recoded -> STRING \ (DOMAIN Recoded \cup Lone)]
  /\ Lone \subseteq STRING \ DOMAIN Recoded
  /\ \A v \in Sendable : IsScriptValue(v)

\* Without what is at or below the places.
Without(v, places) ==
  [a \in {a \in DOMAIN v : \A n \in 1 .. Len(a) : SubSeq(a, 1, n) \notin places} |-> v[a]]

-----------------------------------------------------------------------------
(* The engines.                                                            *)

\* convertObjectToJSValue of a node, whose objects are those kinds.
Converted(node, objects) ==
  CASE node.kind \in {"boolean", "number", "string", "byte", "array"} -> node
    [] node.kind \in Buffer -> Node("bytes", "")
    [] node.kind \in objects -> Node("map", "")
    [] OTHER -> Null

\* Where an item comes after MAX_OBJ_KEYS others.
Elders(v, a) == {b \in Items(v, Front(a)) : Last(b) < Last(a)}
Supernumerary(v) ==
  {a \in DOMAIN v \ {<<>>} : /\ v[Front(a)].kind \in Listing
                             /\ Cardinality(Elders(v, a)) >= MaxKeys}

\* JSStringValue of Duktape's bytes, if codecvt_utf8_utf16 takes them: a pair of
\* surrogates becomes their character.
Text(node) ==
  IF node.kind = "string" /\ node.content \in DOMAIN Recoded
    THEN Node("string", Recoded[node.content])
    ELSE node

\* Of Duktape: a function is an object like others.
ReadByDuktape(v) == Without(v, Supernumerary(v))

FromDuktape(v) ==
  LET read == ReadByDuktape(v)
  IN  [a \in DOMAIN read |-> Converted(Text(read[a]), {"object", "function"})]

\* Of SpiderMonkey: a function's entries are not read.
ReadBySpiderMonkey(v) ==
  Without(v, {a \in DOMAIN v \ {<<>>} : v[Front(a)].kind = "function"})

FromSpiderMonkey(v) ==
  LET read == ReadBySpiderMonkey(v)
  IN  [a \in DOMAIN read |-> Converted(read[a], {"object"})]

FromScript(engine, v) ==
  IF engine = "duktape" THEN FromDuktape(v) ELSE FromSpiderMonkey(v)

\* pushJSValue and getJSValue.
ToScript(v) ==
  [a \in DOMAIN v |-> IF v[a].kind = "map" THEN Node("object", "") ELSE v[a]]

-----------------------------------------------------------------------------
(* Java: an "array" is an Object[] or an ArrayList, a "hashmap" a HashMap, *)
(* "list" and "othermap" are lists and maps of other classes.              *)

AsSimpleJava(v) ==
  [a \in DOMAIN v |-> IF v[a].kind = "map" THEN Node("hashmap", "") ELSE v[a]]

\* Mutant: byte[] is not among the classes that fromJava knows.
KnownButBytes(node) == node.kind \notin {"list", "othermap", "bytes"}

Known(node) == node.kind \notin {"list", "othermap"}

\* What fromJava gives to gson: classes that it does not know, and all in them.
Foreign(v) ==
  {a \in DOMAIN v : \E b \in DOMAIN v : ~Known(v[b]) /\ IsPrefix(b, a)}

\* Gson leaves out a map's entries that are null and writes a byte[] as an array
\* of numbers; fromJSON reads the rest back, as fromJava does with what it knows.
FromJavaNode(node, isForeign) ==
  CASE node.kind \in {"hashmap", "othermap"} -> Node("map", "")
    [] node.kind = "list" \/ (isForeign /\ node.kind = "bytes") -> Node("array", "")
    [] isForeign /\ node.kind = "byte" -> Node("number", node.content)
    [] OTHER -> node

ThroughJSON(v, foreign) ==
  LET written == Without(v, {a \in foreign \ {<<>>} :
                               /\ Front(a) \in foreign /\ v[a] = Null
                               /\ v[Front(a)].kind \in {"hashmap", "othermap"}})
  IN  [a \in DOMAIN written |-> FromJavaNode(written[a], a \in foreign)]

FromJava(v) == ThroughJSON(v, Foreign(v))

\* Gson refuses numbers that JSON does not have.
Serializable(v, foreign) == \A a \in foreign : v[a] \notin NotInJSON

\* The array of some values, and an item of an array.
ArrayOf(values) ==
  [a \in {<<>>} \cup UNION {{<<i>> \o b : b \in DOMAIN values[i]} : i \in DOMAIN values} |->
     IF a = <<>> THEN Node("array", "") ELSE values[a[1]][Tail(a)]]
ItemOf(v, i) ==
  [a \in {Tail(b) : b \in {b \in DOMAIN v \ {<<>>} : b[1] = i}} |-> v[<<i>> \o a]]

\* Mutant: an only result that is an array of one is unwrapped too.
UnwrappedTwice(results) ==
  IF Len(results) # 1 THEN ArrayOf(results)
  ELSE IF results[1][<<>>].kind = "array" /\ Items(results[1], <<>>) = {<<1>>}
         THEN ItemOf(results[1], 1)
         ELSE results[1]

\* component.invoke returns the only result itself.
Unwrapped(results) ==
  IF Len(results) # 1 THEN ArrayOf(results) ELSE results[1]

-----------------------------------------------------------------------------
VARIABLES
  vm,        \* the script's engine
  route,     \* how the component gives the value back: as a "result" of the
             \* call, in a container of "another" class, or in a "signal"
  sent,      \* what the script sent first
  echo,      \* what it got back the first time
  at,        \* where the value is
  value

valueVars == <<vm, route, sent, echo, at, value>>

Routes == {"result", "another", "signal"}

ValueInit ==
  /\ vm \in Engines /\ route \in Routes
  /\ sent \in Sendable /\ echo = {}
  /\ at = "script" /\ value = sent

Yield ==
  /\ at = "script"
  /\ value' = FromScript(vm, value)
  /\ at' = "machine"
  /\ UNCHANGED <<vm, route, sent, echo>>

\* If the type that the library gives a null is that of typeof, an object, then
\* the conversion uses an object that is not there.
YieldNull ==
  /\ at = "script" /\ vm = "spidermonkey"
  /\ LET read == ReadBySpiderMonkey(value) IN \E a \in DOMAIN read : read[a] = Null
  /\ at' = "crash"
  /\ UNCHANGED <<vm, route, sent, echo, value>>

HasText(v, texts) == \E a \in DOMAIN v : v[a].kind = "string" /\ v[a].content \in texts

\* codecvt_utf8_utf16 throws at surrogates in UTF-8, that of libc++ at any: the
\* exception is caught nowhere.
YieldBadText ==
  /\ at = "script" /\ vm = "duktape"
  /\ HasText(ReadByDuktape(value), DOMAIN Recoded \cup Lone)
  /\ at' = "crash"
  /\ UNCHANGED <<vm, route, sent, echo, value>>

\* Duktape's value stack, of which nobody asks more than a call has, may have no
\* room for the levels: the script gets a RangeError.
Refused ==
  /\ vm = "duktape"
  /\ \E a \in DOMAIN value : Len(a) > MaxDepth
  /\ at' = "refused"
  /\ UNCHANGED <<vm, route, sent, echo, value>>

YieldTooDeep == at = "script" /\ Refused

Invoke ==
  /\ at = "machine"
  /\ value' = AsSimpleJava(value)
  /\ at' = "component"
  /\ UNCHANGED <<vm, route, sent, echo>>

\* The component returns an Object[] with the value in it, and so executeThreaded
\* answers with an array of what fromJava makes of the value; where that throws, the
\* machine crashes.
Answer(v) ==
  /\ IF Serializable(v, Foreign(v))
       THEN value' = FromJava(v) /\ at' = "answer"
       ELSE value' = v /\ at' = "crash"
  /\ UNCHANGED <<vm, route, sent, echo>>

AnswerWithValue ==
  /\ at = "component" /\ route = "result"
  /\ Answer(value)

OtherClass(v) ==
  [v EXCEPT ![<<>>].kind = CASE @ = "array" -> "list" [] @ = "hashmap" -> "othermap"
                             [] OTHER -> @]

AnswerWithOther ==
  /\ at = "component" /\ route = "another"
  /\ Answer(OtherClass(value))

\* The component, or another, signals it: a Signal is an object of a class that
\* fromJava does not know, and so is all that is in it written as JSON.
AnswerWithSignal ==
  /\ at = "component" /\ route = "signal"
  /\ IF Serializable(value, DOMAIN value)
       THEN value' = ThroughJSON(value, DOMAIN value) /\ at' = "answer"
       ELSE value' = value /\ at' = "crash"
  /\ UNCHANGED <<vm, route, sent, echo>>

\* The script takes the result, or the only argument of the signal.
Receive ==
  /\ at = "answer"
  /\ vm = "duktape" => ~HasText(value, Lone)
  /\ value' = Unwrapped(<<ToScript(value)>>)
  /\ at' = "received"
  /\ UNCHANGED <<vm, route, sent, echo>>

\* There is no UTF-8 of a surrogate alone: to_bytes throws, as from_bytes above.
ReceiveBadText ==
  /\ at = "answer" /\ vm = "duktape" /\ HasText(value, Lone)
  /\ at' = "crash"
  /\ UNCHANGED <<vm, route, sent, echo, value>>

ReceiveTooDeep == at = "answer" /\ Refused

\* The script sends what it got.
SendAgain ==
  /\ at = "received" /\ echo = {}
  /\ echo' = {value}
  /\ at' = "script"
  /\ UNCHANGED <<vm, route, sent, value>>

ValueNext == \/ Yield \/ YieldNull \/ YieldBadText \/ YieldTooDeep \/ Invoke
             \/ AnswerWithValue \/ AnswerWithOther \/ AnswerWithSignal
             \/ Receive \/ ReceiveBadText \/ ReceiveTooDeep \/ SendAgain

ValueSpec == ValueInit /\ [][ValueNext]_valueVars

-----------------------------------------------------------------------------
(* Properties.                                                             *)

Small(v, kinds) ==
  \A a \in DOMAIN v : v[a].kind \in kinds => Cardinality(Items(v, a)) =< MaxKeys

\* Made of what the engine and Java have.
Plain(v) ==
  /\ \A a \in DOMAIN v : v[a].kind \notin {"undefined", "function", "buffer"}
  /\ Small(v, Listing)
  /\ vm = "duktape" => ~HasText(v, DOMAIN Recoded)

JSONLike(v) ==
  /\ \A a \in DOMAIN v : v[a].kind # "bytes"
  /\ \A a \in DOMAIN v \ {<<>>} : v[Front(a)].kind = "object" => v[a] # Null

FirstEcho == at = "received" /\ echo = {}

\* A value made of what the engine and Java have, so for Duktape of no CESU-8, comes
\* back from a component as it was sent, if it comes back at all: bytes as bytes,
\* nulls in their places, containers whole.  So it does in containers of other
\* classes and in signals if it has no bytes in it and no entries that are null.
\* On those ways a NaN or an infinity crashes the machine, in Duktape a surrogate
\* alone kills the process, and of deep values the value stack may have no room.
PlainSurvives ==
  FirstEcho /\ Plain(sent) /\ (route = "result" \/ JSONLike(sent)) => value = sent

\* Whatever the first trip makes of a value, of functions, views, undefined, CESU-8
\* and of more than MAX_OBJ_KEYS items, the second trip leaves alone; unless bytes
\* that are more than MAX_OBJ_KEYS have become an array of as many numbers, of
\* which Duktape would keep fewer.
SecondEchoSame ==
  /\ at = "received" /\ echo # {}
  /\ vm = "duktape" => route = "result" \/ Small(sent, Buffer)
  => echo = {value}
=============================================================================
