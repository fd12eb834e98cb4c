------------------------------ MODULE Subjects ------------------------------
(***************************************************************************)
(* What the name of a registry's subject says: the naming strategies of    *)
(* kaas-ui-serde/src/naming.rs, the columns the topic list and the subject *)
(* list read from them (routes/topics.rs, routes/schemas.rs), and the rows *)
(* and pages of subjects (schemas.rs over subjects.rs), and what the       *)
(* registry client remembers of a subject.                                 *)
(*                                                                         *)
(* A name is a sequence over a few letters, the dash, and "value" and      *)
(* "key", which are words of a suffix and are not taken apart.             *)
(***************************************************************************)
EXTENDS Integers, Sequences, FiniteSets, SequencesExt, FiniteSetsExt

CONSTANTS
  NoName,      \* no topic, no declared name, no subject
  SubjectsTtl  \* how long the versions that were listed are believed

Dash == "-"

(***************************************************************************)
(* SubjectNaming::of                                                       *)
(***************************************************************************)
Without(subject, suffix) == SubSeq(subject, 1, Len(subject) - Len(suffix))

Naming(strategy, topic, record) == [strategy |-> strategy, topic |-> topic, record |-> record]

\* Mutant of EndsWith: anything that holds the suffix will do.
HoldsAnywhere(subject, suffix) ==
  \E i \in 2 .. Len(subject) - Len(suffix) + 1 : SubSeq(subject, i, i + Len(suffix) - 1) = suffix

\* strip_suffix, of a suffix that leaves something.
EndsWith(subject, suffix) == IsSuffix(suffix, subject) /\ Len(subject) > Len(suffix)

\* The declared name is tried first: a name of a record has no dash in it.
NamingOf(subject, declared) ==
  LET record == IF declared \in {NoName, <<>>} THEN NoName ELSE declared
      sides  == {side \in {"value", "key"} : EndsWith(subject, <<Dash, side>>)}
  IN  IF record # NoName /\ subject = record THEN Naming("recordName", NoName, record)
      ELSE IF record # NoName /\ EndsWith(subject, <<Dash>> \o record)
           THEN Naming("topicRecordName", Without(subject, <<Dash>> \o record), record)
      ELSE IF sides # {}
           THEN Naming("topicName", Without(subject, <<Dash, CHOOSE side \in sides : TRUE>>), record)
      ELSE Naming("unrecognized", NoName, record)

(***************************************************************************)
(* declared_name: avro's namespace and name, and the package and the first *)
(* message of a protobuf file, which is scanned and not parsed.            *)
(***************************************************************************)
Dot == "."

\* A name with a dot is whole already.
AvroName(namespace, name) ==
  IF name \in {NoName, <<>>} THEN NoName
  ELSE IF Dot \in ToSet(name) \/ namespace \in {NoName, <<>>} THEN name
  ELSE namespace \o <<Dot>> \o name

Letters == {"m", "p", "a", "b", Dot}   \* the words of one letter are `message` and `package`
Quote   == "'"

\* without_comments, one character after the other: in tells whether the scan is in
\* "code", a "string", an "escape" of a string, a "line" or a "block" comment,
\* or has a slash, or a star in a block, that may begin or end one.
WithoutComments(text) ==
  LET put(held, in, cs) == [in |-> in, out |-> held.out \o cs]
      code(held, c) == CASE c = Quote -> put(held, "string", <<c>>)
                         [] c = "/"   -> put(held, "slash", <<>>)
                         [] OTHER     -> put(held, "code", <<c>>)
      step(held, c) ==
        CASE held.in = "code" -> code(held, c)
          [] held.in = "slash" -> CASE c = "/" -> put(held, "line", <<>>)
                                    [] c = "*" -> put(held, "block", <<>>)
                                    [] OTHER   -> code(put(held, "code", <<"/">>), c)
          [] held.in = "line" -> IF c = "\n" THEN put(held, "code", <<c>>) ELSE held
          [] held.in = "block" -> IF c = "*" THEN put(held, "star", <<>>) ELSE held
          [] held.in = "star" -> CASE c = "/" -> put(held, "code", <<" ">>)
                                   [] c = "*" -> held
                                   [] OTHER   -> put(held, "block", <<>>)
          [] held.in = "string" -> CASE c = "\\" -> put(held, "escape", <<c>>)
                                     [] c = Quote -> put(held, "code", <<c>>)
                                     [] OTHER -> put(held, "string", <<c>>)
          [] held.in = "escape" -> put(held, "string", <<c>>)
      end == FoldLeft(step, [in |-> "code", out |-> <<>>], text)
  IN  IF end.in = "slash" THEN end.out \o <<"/">> ELSE end.out

\* words: the runs of letters outside of strings, each with its depth in braces.
Words(text) ==
  LET flushed(held) == IF held.word = <<>> THEN held
                       ELSE [held EXCEPT !.words = Append(@, [depth |-> held.depth, word |-> held.word]),
                                         !.word = <<>>]
      code(held, c) ==
        CASE c \in Letters -> [held EXCEPT !.word = Append(@, c)]
          [] c = Quote     -> [flushed(held) EXCEPT !.in = "string"]
          [] c = "{"       -> [flushed(held) EXCEPT !.depth = @ + 1]
          [] c = "}"       -> [flushed(held) EXCEPT !.depth = IF @ = 0 THEN 0 ELSE @ - 1]
          [] OTHER         -> flushed(held)
      step(held, c) ==
        CASE held.in = "code" -> code(held, c)
          [] held.in = "escape" -> [held EXCEPT !.in = "string"]
          [] held.in = "string" -> CASE c = "\\" -> [held EXCEPT !.in = "escape"]
                                     [] c = Quote -> [held EXCEPT !.in = "code"]
                                     [] OTHER -> held
  IN  flushed(FoldLeft(step, [in |-> "code", depth |-> 0, word |-> <<>>, words |-> <<>>], text)).words

\* protobuf_name
ProtobufName(text) ==
  LET words      == Words(WithoutComments(text))
      after(key) == {i \in 2 .. Len(words) : words[i].depth = 0 /\ words[i - 1].word = key}
      first(key) == words[CHOOSE i \in after(key) : \A j \in after(key) : i <= j].word
  IN  IF after(<<"m">>) = {} THEN NoName
      ELSE IF after(<<"p">>) = {} THEN first(<<"m">>)
      ELSE first(<<"p">>) \o <<Dot>> \o first(<<"m">>)

(***************************************************************************)
(* The columns read from the names alone                                   *)
(***************************************************************************)
\* sides_by_topic, of one topic: the later of two subjects on one side stays.
SidesOf(topic, subjects) ==
  LET mine    == SelectSeq(subjects, LAMBDA s : NamingOf(s, NoName).topic = topic)
      keys    == SelectSeq(mine, LAMBDA s : IsSuffix(<<Dash, "key">>, s))
      values  == SelectSeq(mine, LAMBDA s : ~IsSuffix(<<Dash, "key">>, s))
      last(s) == IF s = <<>> THEN NoName ELSE Last(s)
  IN  [key |-> last(keys), value |-> last(values)]

\* live_topics: a cluster is [topics, connected, viewable], and reads this registry.
LiveTopics(readers) ==
  LET seen == {c \in readers : c.viewable}
  IN  IF seen = {} \/ \E c \in seen : ~c.connected THEN NoName ELSE UNION {c.topics : c \in seen}

Dangling(subjects, readers) ==
  LET named == SelectSeq(subjects, LAMBDA s : NamingOf(s, NoName).topic # NoName)
  IN  IF LiveTopics(readers) = NoName THEN NoName
      ELSE Len(SelectSeq(named, LAMBDA s : NamingOf(s, NoName).topic \notin LiveTopics(readers)))

(***************************************************************************)
(* Rows and pages.  versions is the declared name of each version of a     *)
(* subject, and unread the versions the registry would not hand over; own  *)
(* and global are the compatibility modes it reports, or NoName.           *)
(***************************************************************************)
SubjectRow(subject, versions, unread, own, global) ==
  LET newest == Len(versions)
  IN  [ naming |-> NamingOf(subject, IF newest = 0 \/ newest \in unread THEN NoName ELSE versions[newest]),
        compatibility |-> IF own # NoName THEN own ELSE global,
        inherited |-> own = NoName /\ global # NoName ]

SubjectPage(subject, versions, unread, own) ==
  LET handed == SelectSeq([i \in DOMAIN versions |-> i], LAMBDA i : i \notin unread)
  IN  [ naming |-> NamingOf(subject, IF handed = <<>> THEN NoName ELSE versions[Last(handed)]),
        compatibility |-> own, versions |-> handed, errors |-> unread ]

\* The search of the list, of the names as they are.
Matching(names, search) ==
  SelectSeq(names, LAMBDA s : search = <<>> \/ \E i \in DOMAIN s : IsPrefix(search, SubSeq(s, i, Len(s))))

\* list, of subjects in the order of their names: known[s] is [versions, unread,
\* own] as above, and query [search, desc, limit, offset, details].
SubjectList(names, readers, known, global, query) ==
  LET found  == Matching(names, query.search)
      placed == IF query.desc THEN Reverse(found) ELSE found
      offset == IF query.offset = NoName THEN 0 ELSE Min({query.offset, Len(placed)})
      limit  == IF query.limit = NoName THEN Len(placed) ELSE query.limit
      page   == SubSeq(placed, offset + 1, Min({offset + limit, Len(placed)}))
      bare(s)      == SubjectRow(s, <<>>, {}, NoName, NoName)
      described(s) == SubjectRow(s, known[s].versions, known[s].unread, known[s].own, global)
  IN  [ subjects      |-> page,
        rows          |-> [i \in DOMAIN page |-> IF query.details THEN described(page[i]) ELSE bare(page[i])],
        total         |-> Len(placed),
        topics        |-> Cardinality({NamingOf(s, NoName).topic : s \in ToSet(found)} \ {NoName}),
        dangling      |-> Dangling(found, readers),
        compatibility |-> IF query.details THEN global ELSE NoName ]

(***************************************************************************)
(* What the client remembers of a subject: [listed, at, held], the version *)
(* numbers, when they were asked for, and the texts by version.  registry  *)
(* is [listed, texts]: what it would answer now, NoName for a failure.     *)
(***************************************************************************)
Remembered == [listed |-> NoName, at |-> 0, held |-> <<>>]

\* versions
ListedAt(memory, registry, now) ==
  IF memory.listed # NoName /\ now - memory.at < SubjectsTtl THEN memory.listed ELSE registry.listed

\* schema: a text that was fetched is kept for good, a failure is not.
TextHeld(memory, registry, version) ==
  IF version \in DOMAIN memory.held THEN memory.held[version] ELSE registry.texts[version]

\* One reading of the page: which texts it shows, which versions it names as
\* errors, and what is remembered.
ReadPage(memory, registry, now) ==
  LET listed == ListedAt(memory, registry, now)
      all    == IF listed = NoName THEN {} ELSE listed
      shown  == [version \in {v \in all : TextHeld(memory, registry, v) # NoName} |->
                   TextHeld(memory, registry, version)]
      asked  == memory.listed = NoName \/ now - memory.at >= SubjectsTtl
  IN  [ listed |-> listed, shown |-> shown, errors |-> all \ DOMAIN shown, now |-> now,
        memory |-> [ listed |-> IF listed = NoName THEN memory.listed ELSE listed,
                     at     |-> IF asked /\ listed # NoName THEN now ELSE memory.at,
                     held   |-> shown @@ memory.held ] ]

\* A page that is read again and again: visits[i] is [registry, after].
Readings(visits) ==
  Tail(FoldLeft(LAMBDA pages, visit :
                  Append(pages, ReadPage(Last(pages).memory, visit.registry, Last(pages).now + visit.after)),
                <<[memory |-> Remembered, now |-> 0]>>, visits))

(***************************************************************************)
(* What the names promise                                                  *)
(***************************************************************************)
\* A subject that a strategy formed gives its topic back once the record's name
\* is known, and nothing else than its topic when it is not: a seam is never
\* guessed at, and a longer topic's subject never stands in a shorter one's row.
NamesReadBack(topic, record) ==
  LET byTopic(side) == topic \o <<Dash, side>>
      byBoth        == topic \o <<Dash>> \o record
  IN  /\ \A side \in {"key", "value"}, declared \in {NoName, record} :
           NamingOf(byTopic(side), declared).topic = topic
      /\ NamingOf(byBoth, record).topic = topic
      /\ NamingOf(byBoth, NoName).topic \in {topic, NoName}
      /\ NamingOf(record, record) = Naming("recordName", NoName, record)
      /\ NamingOf(record, NoName).topic = NoName

\* The two subjects of a topic's row are its own, and both are there if they are
\* registered; and a subject is called dangling only if its topic is on none of
\* the readers the caller sees, all of which are known.
ColumnsAreExact(topic, subjects, readers) ==
  LET sides == SidesOf(topic, subjects)
      of(side) == IF topic \o <<Dash, side>> \in ToSet(subjects) THEN topic \o <<Dash, side>> ELSE NoName
      seen  == {c \in readers : c.viewable}
      gone(s) == NamingOf(s, NoName).topic # NoName
                 /\ \A c \in readers : NamingOf(s, NoName).topic \notin c.topics
  IN  /\ sides = [key |-> of("key"), value |-> of("value")]
      /\ Dangling(subjects, readers) = NoName <=> (seen = {} \/ \E c \in seen : ~c.connected)
      /\ Dangling(subjects, readers) # NoName /\ seen = readers =>
           Dangling(subjects, readers) = Cardinality({i \in DOMAIN subjects : gone(subjects[i])})

\* The row and the page of a subject, whichever versions the registry hands
\* over, never name two topics, and never lose a version without a word.
RowAndPageAgree(subject, versions, unread, own, global) ==
  LET row  == SubjectRow(subject, versions, unread, own, global)
      page == SubjectPage(subject, versions, unread, own)
  IN  /\ NoName \in {row.naming.topic, page.naming.topic} \/ row.naming.topic = page.naming.topic
      /\ Len(versions) \notin unread => row.naming = page.naming
      /\ ToSet(page.versions) \cup page.errors = DOMAIN versions
      /\ row.inherited => row.compatibility = global /\ page.compatibility = NoName

\* The pages of the list are the list, cut: every matching subject is on one page
\* and in its place, and what is said of the registry beside the rows is the same
\* on every page, described or not, the page of no rows among them.  To describe
\* a row never takes its topic back or names another, and a search finds no more
\* that dangles than there is.
ListIsCut(names, readers, known, global, search, limit) ==
  LET query(of, most, desc, details) ==
        [search |-> search, desc |-> desc, limit |-> most, offset |-> of, details |-> details]
      list(q)    == SubjectList(names, readers, known, global, q)
      beside(it) == <<it.total, it.topics, it.dangling>>
  IN  \A whole \in {list(query(NoName, NoName, FALSE, TRUE))} :
        /\ FlattenSeq([i \in DOMAIN names |-> list(query((i - 1) * limit, limit, FALSE, FALSE)).subjects])
             = Matching(names, search)
        /\ list(query(0, NoName, TRUE, FALSE)).subjects = Reverse(whole.subjects)
        /\ \A most \in {0, limit}, desc, details \in BOOLEAN :
             beside(list(query(limit, most, desc, details))) = beside(whole)
        /\ \A bare \in {list(query(NoName, NoName, FALSE, FALSE))}, i \in DOMAIN whole.rows :
             LET topic == bare.rows[i].naming.topic
             IN  /\ topic # NoName => whole.rows[i].naming.topic = topic
                 /\ whole.rows[i].inherited => whole.rows[i].compatibility = whole.compatibility
        /\ whole.topics <= whole.total
        /\ whole.dangling # NoName => /\ whole.dangling <= whole.total
                                       /\ whole.dangling <= Dangling(names, readers)

\* What is remembered is never made up and never forgotten: a page shows the
\* versions that the registry listed no longer ago than the listing is believed,
\* every text it shows was handed over, a text that was shown once is never an
\* error again, and an error is one of now.  Only a page the registry would not
\* list, after the last listing went stale, is empty for want of an answer.
\* (Premise: a version's text does not change while it is registered.)
PageRemembers(visits) ==
  \A pages \in {Readings(visits)} :
    \A i \in DOMAIN pages :
      LET page    == pages[i]
          said(j) == visits[j].registry
          young   == {j \in 1 .. i : j = i \/ page.now - pages[j].now < SubjectsTtl}
      IN  /\ page.listed = NoName => /\ said(i).listed = NoName
                                     /\ \A j \in young : pages[j].memory.at < pages[j].now \/ pages[j].listed = NoName
          /\ page.listed # NoName => /\ \E j \in young : said(j).listed = page.listed
                                     /\ DOMAIN page.shown \cup page.errors = page.listed
          /\ \A v \in DOMAIN page.shown : \E j \in 1 .. i : said(j).texts[v] = page.shown[v]
          /\ \A v \in page.errors : /\ said(i).texts[v] = NoName
                                     /\ \A j \in 1 .. i - 1 : v \notin DOMAIN pages[j].shown

\* The name that a protobuf file declares does not depend on what its comments
\* and strings say.  A piece of a file is [text, words]: what it is written as,
\* and the words and braces that are really in it.
ScanReadsTheCode(pieces) ==
  LET text  == FlattenSeq([i \in DOMAIN pieces |-> pieces[i].text])
      plain == FlattenSeq([i \in DOMAIN pieces |-> pieces[i].words])
  IN  ProtobufName(text) = ProtobufName(plain)
=============================================================================
