------------------------------ MODULE Decoding ------------------------------
(***************************************************************************)
(* How a record's bytes become what the reader sees, and what a payload    *)
(* filter is matched against: kaas-ui-serde's codec.rs, lib.rs and         *)
(* registry.rs, and kaas-ui-core/src/decode.rs.                            *)
(*                                                                         *)
(* A payload is [bytes, zero, utf8, json, text, hex, value]: its length,   *)
(* whether its first byte is zero, what its bytes are, and what each       *)
(* rendering of it would be.  A rendering is [length, needle]: where the   *)
(* needle of the filter first ends in it, or 0.  A registry is             *)
(* [state, schema, body]: whether it answers, what it says of the schema   *)
(* id, and what becomes of the bytes under that schema.                    *)
(***************************************************************************)
EXTENDS Glob

CONSTANTS
  NoCodec,         \* a side that a request or an entry says nothing of
  MaxFilterChars   \* MAX_FILTER_CHARS

ASSUME FiltersHaveRoom == MaxFilterChars \in Nat \ {0}

Formats == {"avro", "protobuf", "jsonSchema"}   \* Codec::is_registry_backed
Lowered == {"hex", "string", "json"}            \* what needs no schema
Codecs  == {"auto"} \cup Formats \cup Lowered

(***************************************************************************)
(* Payload: how many characters of a rendering are kept under a ceiling,   *)
(* and what is said of it.                                                 *)
(***************************************************************************)
Smaller(a, b) == IF a < b THEN a ELSE b

Rendered(codec, encoding, whole, length) ==
  [ codec |-> codec, encoding |-> encoding, whole |-> whole, length |-> length,
    truncated |-> length < whole.length, raw |-> FALSE, note |-> "none", structured |-> FALSE ]

Noted(payload, note) == [payload EXCEPT !.note = note]

\* Cut at a character: of the bytes of one character each.
AsText(payload, codec, encoding, ceiling) ==
  Rendered(codec, encoding, payload.text, Smaller(payload.text.length, ceiling))

\* A byte is written whole while the ceiling is not reached.
AsHex(payload, ceiling) ==
  Rendered("hex", "hex", payload.hex, Smaller(payload.hex.length, ceiling + (ceiling % 2)))

AsAuto(payload, ceiling) ==
  IF payload.utf8 THEN AsText(payload, "auto", "utf8", ceiling)
  ELSE [AsHex(payload, ceiling) EXCEPT !.codec = "auto"]

AsJson(payload, ceiling) ==
  IF payload.utf8 /\ payload.json THEN AsText(payload, "json", "json", ceiling)
  ELSE Noted(AsAuto(payload, ceiling), "decodeError")

\* Payload::plain: a codec that needs a schema is refused.
AsPlain(payload, want, ceiling) ==
  CASE want = "auto"     -> AsAuto(payload, ceiling)
    [] want = "hex"      -> AsHex(payload, ceiling)
    [] want = "string"   -> AsText(payload, "string", "utf8", ceiling)
    [] want = "json"     -> AsJson(payload, ceiling)
    [] want \in Formats  -> Noted(AsAuto(payload, ceiling), "overrideRefused")

\* Decoded::of: the value as JSON, with the bytes beside it.
AsValue(payload, codec, ceiling) ==
  [Rendered(codec, "json", payload.value, Smaller(payload.value.length, ceiling))
     EXCEPT !.raw = TRUE, !.structured = TRUE]

\* Decoded::degraded, and a payload that is not what its schema says.
Degraded(payload, note, ceiling) == Noted(AsHex(payload, ceiling), note)

(***************************************************************************)
(* Decoding                                                                *)
(***************************************************************************)
\* A zero, four bytes of id, and a body that may not be empty.
Framed(payload) == payload.bytes > 4 /\ payload.zero

RegistryDecode(registry, payload, ceiling) ==
  CASE registry.state = "unreachable"   -> Degraded(payload, "registryUnavailable", ceiling)
    [] registry.state = "misconfigured" -> Degraded(payload, "registryMisconfigured", ceiling)
    [] registry.state = "ready" /\ registry.schema \notin Formats -> Degraded(payload, "decodeError", ceiling)
    [] registry.state = "ready" /\ registry.schema \in Formats ->
         CASE registry.body = "valid"         -> AsValue(payload, registry.schema, ceiling)
           [] registry.body = "nonConforming" -> Noted(AsValue(payload, registry.schema, ceiling), "nonConforming")
           [] registry.body = "invalid"       -> Degraded(payload, "decodeError", ceiling)

\* The registry says what a schema id is, and a reader who asked for another
\* format is told.
Checked(decoded, want) ==
  IF want \in Formats /\ decoded.codec \in Formats \ {want}
  THEN Noted(decoded, "overrideRefused") ELSE decoded

Decode(registry, payload, want, ceiling) ==
  IF ~Framed(payload) \/ want \in Lowered THEN AsPlain(payload, want, ceiling)
  ELSE IF registry.state = "absent" THEN Degraded(payload, "registryAbsent", ceiling)
  ELSE Checked(RegistryDecode(registry, payload, ceiling), want)

(***************************************************************************)
(* A protobuf message as JSON.  A field of the wire is [number, packed,    *)
(* values], of one value unless it is packed; a schema says of a number    *)
(* its [name, repeated].                                                   *)
(***************************************************************************)
IsKnown(schema, field) == field.number \in DOMAIN schema

FieldName(schema, field) == IF IsKnown(schema, field) THEN schema[field.number].name ELSE field.number

Repeats(schema, field) == field.packed \/ (IsKnown(schema, field) /\ schema[field.number].repeated)

\* A list, or the one value, of a name; a name that comes again becomes a list.
PutField(schema, object, field) ==
  LET name == FieldName(schema, field)
  IN  (name :> IF name \in DOMAIN object
               THEN [list |-> TRUE, values |-> object[name].values \o field.values]
               ELSE [list |-> Repeats(schema, field), values |-> field.values]) @@ object

ToJson(schema, fields) ==
  FoldLeft(LAMBDA object, field : PutField(schema, object, field), [name \in {} |-> <<>>], fields)

(***************************************************************************)
(* The codecs of a topic.  An entry is [topic, key, value].                *)
(***************************************************************************)
\* The first entry that matches and says something of the side.
Configured(codecs, topic, side) ==
  FoldLeft(LAMBDA chosen, entry :
             IF chosen = NoCodec /\ CodecMatches(entry.topic, topic) THEN entry[side] ELSE chosen,
           NoCodec, codecs)

CodecFor(asked, codecs, topic, side) ==
  IF asked # NoCodec THEN asked
  ELSE IF Configured(codecs, topic, side) # NoCodec THEN Configured(codecs, topic, side)
  ELSE "auto"

(***************************************************************************)
(* The filter                                                              *)
(***************************************************************************)
\* What a request's needle of so many characters comes to, once it is trimmed.
ParseFilter(chars) ==
  CASE chars = 0                                  -> "none"
    [] chars # 0 /\ chars <= MaxFilterChars       -> "filter"
    [] chars # 0 /\ chars > MaxFilterChars        -> "refused"

HasNeedle(rendering, length) == rendering.needle # 0 /\ rendering.needle <= length

\* Mutant of FilterFinds: the preview is searched.
FilterFindsInPreview(shown, registry, payload, want) == HasNeedle(shown.whole, shown.length)

\* PayloadDecoder::haystack: a rendering that was cut is made again whole, of the
\* value in hand if there is one, and else by decoding the bytes again.
FilterFinds(shown, registry, payload, want) ==
  LET all   == payload.text.length + payload.hex.length + payload.value.length
      again == Decode(registry, payload, want, all)
  IN  CASE ~shown.truncated                       -> HasNeedle(shown.whole, shown.length)
        [] shown.truncated /\ shown.structured    -> HasNeedle(payload.value, payload.value.length)
        [] shown.truncated /\ ~shown.structured   -> HasNeedle(again.whole, again.length)

\* PayloadDecoder::accept, of a request whose needle has so many characters: the
\* value may be decoded twice, with the registry moving on in between, and a
\* tombstone is shown to a reader without a filter only.
Accept(chars, tombstone, first, second, payload, want, ceiling) ==
  \/ ParseFilter(chars) = "none"
  \/ /\ ParseFilter(chars) = "filter"
     /\ ~tombstone
     /\ FilterFinds(Decode(first, payload, want, ceiling), second, payload, want)

(***************************************************************************)
(* What decoding promises                                                  *)
(***************************************************************************)
\* A filter finds a record if and only if the needle is in the whole of what is
\* shown of it, whatever the ceiling cut; only if the registry changes its
\* answer between the two decodes is it the second answer that is searched.
FilterIsWhole(first, second, payload, want, ceiling) ==
  LET shown    == Decode(first, payload, want, ceiling)
      later    == Decode(second, payload, want, ceiling)
      accepted == Accept(1, FALSE, first, second, payload, want, ceiling)
  IN  /\ first = second => (accepted <=> shown.whole.needle # 0)
      /\ accepted => shown.whole.needle # 0 \/ later.whole.needle # 0
      /\ ~Accept(1, TRUE, first, second, payload, want, ceiling)
      /\ Accept(0, TRUE, first, second, payload, want, ceiling)

\* The reader is never left to guess: a codec other than the one asked for, a
\* framed payload without its value, and a value that is not what its schema
\* says are all told; a schema is only claimed of a payload that carries one;
\* and what needs no schema does not depend on the registry.
CodecIsTold(first, second, payload, want, ceiling) ==
  LET shown == Decode(first, payload, want, ceiling)
  IN  /\ want # "auto" /\ shown.codec # want => shown.note # "none"
      /\ Framed(payload) /\ want \notin Lowered /\ ~shown.structured =>
           shown.note # "none" /\ shown.encoding = "hex"
      /\ shown.structured /\ first.body # "valid" => shown.note # "none"
      /\ shown.codec \in Formats => Framed(payload) /\ shown.structured /\ shown.raw
      /\ ~Framed(payload) \/ want \in Lowered => shown = Decode(second, payload, want, ceiling)
      /\ shown.length <= ceiling + 1

\* Nothing on the wire is lost: each name has all of the values of its fields, in
\* their order.  What is shown has the shape its schema gives it, whichever of
\* the two spellings a producer chose: values one by one and packed look the
\* same.  (A list of none is only seen where it was packed.)
ShapeIsTheSchemas(schema, fields) ==
  LET shown     == ToJson(schema, fields)
      one(field) == [i \in DOMAIN field.values |-> [field EXCEPT !.packed = FALSE, !.values = <<@[i]>>]]
      spelled   == ToJson(schema, FlattenSeq([i \in DOMAIN fields |-> one(fields[i])]))
      named(name) == SelectSeq(fields, LAMBDA field : FieldName(schema, field) = name)
  IN  /\ \A name \in DOMAIN shown :
           /\ shown[name].values = FlattenSeq([i \in DOMAIN named(name) |-> named(name)[i].values])
           /\ ~shown[name].list => Len(shown[name].values) = 1
           /\ name \in DOMAIN spelled => shown[name] = spelled[name]
           /\ name \notin DOMAIN spelled => shown[name].values = <<>>
      /\ \A i \in DOMAIN fields : FieldName(schema, fields[i]) \in DOMAIN shown
      /\ DOMAIN spelled \subseteq DOMAIN shown
      /\ \A number \in DOMAIN schema : schema[number].repeated /\ schema[number].name \in DOMAIN shown =>
           shown[schema[number].name].list

\* What an entry says of a side is only ever passed over for a request, or for
\* an earlier entry that is about the topic too.
CodecIsChosen(asked, codecs, topic, side) ==
  LET chosen == CodecFor(asked, codecs, topic, side)
      says(i) == CodecMatches(codecs[i].topic, topic) /\ codecs[i][side] # NoCodec
  IN  /\ asked # NoCodec => chosen = asked
      /\ asked = NoCodec => \A i \in DOMAIN codecs :
           says(i) => chosen = codecs[i][side] \/ \E j \in 1 .. i - 1 : says(j)
      /\ asked = NoCodec /\ (\A i \in DOMAIN codecs : ~says(i)) => chosen = "auto"
=============================================================================
