-------------------------------- MODULE Rows --------------------------------
(***************************************************************************)
(* From a message to a row of the database: which route takes the message  *)
(* (paho's match), what mqtt-plumber makes of its payload (parse), and     *)
(* what it stores (persist, with the Parser of topic.go).  A topic is a    *)
(* sequence of characters, because match compares levels and the Parser    *)
(* counts bytes and characters.  A payload is one of a few kinds: what     *)
(* parse and the JSON decoder can tell apart.                              *)
(***************************************************************************)
EXTENDS Integers, Sequences, SequencesExt, FiniteSetsExt

CONSTANTS Letters,        \* the characters that stand for themselves everywhere
          WatchFilters,   \* the --watch filters
          RowTopics       \* the topics of messages

\* The others: of filters, of expressions, and one that takes two bytes.
Character == Letters \cup {"/", "+", "#", "$", ".", "(", "wide"}

\* The kinds of payload, explained below.
Payloads == {"object", "pretty", "braces", "number", "version", "signed", "date", "words", "quoted"}

ASSUME RowsAssumption ==
    /\ Letters \cap {"/", "+", "#", "$", ".", "(", "wide", "SINGLE", "MULTI"} = {}
    /\ WatchFilters \cup RowTopics \subseteq Seq(Character)

\* strings.Split(s, "/"): level k is what lies between the slashes k - 1 and k, the
\* characters after the first from(s, k) and up to to(s, k).
slashes(s, n) == Cardinality({i \in 1..n : s[i] = "/"})
from(s, k) == Min({n \in 0..Len(s) : slashes(s, n) = k - 1})
to(s, k) == Max({n \in 0..Len(s) : slashes(s, n) = k - 1})
Split(s) == [k \in 1..slashes(s, Len(s)) + 1 |-> SubSeq(s, from(s, k) + 1, to(s, k))]

Plus == <<"+">>
Hash == <<"#">>

-----------------------------------------------------------------------------
(* The router's side: paho's topic.go and router.go.                       *)

\* Mutant: nothing below a "#" is required to be there, but something is.
matchNeedsLevel(route, topic) ==
    LET m[i \in 1..Len(route) + 1] ==
          CASE i > Len(route) -> i > Len(topic)
            [] i <= Len(route) /\ i > Len(topic) -> FALSE
            [] OTHER -> route[i] = Hash \/ (route[i] \in {Plus, topic[i]} /\ m[i + 1])
    IN  m[1]

\* m[i] is the call with the levels from i.
match(route, topic) ==
    LET m[i \in 1..Len(route) + 1] ==
          CASE i > Len(route) -> i > Len(topic)
            [] i <= Len(route) /\ i > Len(topic) -> route[i] = Hash
            [] OTHER -> route[i] = Hash \/ (route[i] \in {Plus, topic[i]} /\ m[i + 1])
    IN  m[1]

routeMatches(filter, topic) == filter = topic \/ match(Split(filter), Split(topic))

validTopic(filter) ==
    /\ filter # <<>>
    /\ \A i \in DOMAIN Split(filter) : Split(filter)[i] = Hash => i = Len(Split(filter))

-----------------------------------------------------------------------------
(* The Parser of topic.go.                                                 *)

\* How many bytes the first n characters of s take, and where a token first is.
bytes(s, n) == n + Cardinality({i \in 1..n : s[i] = "wide"})
index(s, token) ==
    LET at == {i \in 0..Len(s) - Len(token) : SubSeq(s, i + 1, i + Len(token)) = token}
    IN  IF at = {} THEN -1 ELSE bytes(s, Min(at))

\* Parse slices a sequence of characters at byte offsets; a negative offset and one
\* past the end panic.  Where the rest starts after the last token, -1 after a panic.
slice(s) ==
    LET rest[k \in 0..Len(Split(s))] ==
          IF k = 0 THEN 0
          ELSE LET i == index(SubSeq(s, rest[k - 1] + 1, Len(s)), Split(s)[k])
               IN  IF rest[k - 1] = -1 \/ i \notin 0..Len(s) - rest[k - 1] THEN -1
                   ELSE rest[k - 1] + i
    IN  rest[Len(Split(s))]

parsePanics(filter) == slice(filter) = -1 \/ Contains(filter, "(")

\* Character i of s is a level by itself.
isLevel(s, i) == (i = 1 \/ s[i - 1] = "/") /\ (i = Len(s) \/ s[i + 1] = "/")

\* Mutant: a "#" gets the group of one level.
expressionSingle(filter) ==
    [i \in DOMAIN filter |->
       IF isLevel(filter, i) /\ filter[i] \in {"+", "#"} THEN "SINGLE" ELSE filter[i]]

\* The regular expression: a filter's wildcard levels become groups, and every
\* other character stands for itself, or for what it means in an expression.
expression(filter) ==
    [i \in DOMAIN filter |->
       CASE isLevel(filter, i) /\ filter[i] = "+" -> "SINGLE"
         [] isLevel(filter, i) /\ filter[i] = "#" -> "MULTI"
         [] OTHER -> filter[i]]

\* The class \d\w\s-_ of the groups.
Word(c) == c \in Letters

\* Where element x of an expression leaves a match that stands before character p
\* of s, or 0.  One place at most, since no group can give back what it took.
advance(x, s, p) ==
    LET stop == Min({j \in p..Len(s) + 1 : j > Len(s) \/ ~Word(s[j])})
    IN  CASE x = "SINGLE" -> IF stop = p \/ (stop <= Len(s) /\ s[stop] # "/") THEN 0
                             ELSE IF stop <= Len(s) THEN stop + 1 ELSE stop
          [] x = "MULTI" -> IF \A j \in p..Len(s) : Word(s[j]) \/ (s[j] = "/" /\ j > p /\ s[j - 1] # "/")
                            THEN Len(s) + 1 ELSE 0
          [] x = "$" -> IF p = Len(s) + 1 THEN p ELSE 0
          [] OTHER -> IF p <= Len(s) /\ x \in {s[p], "."} THEN p + 1 ELSE 0

\* A match of expression re from character i of s: where it ends, and its groups.
matchAt(re, s, i) ==
    LET m[k \in 0..Len(re)] ==
          IF k = 0 THEN [at |-> i, groups |-> <<>>]
          ELSE LET p == m[k - 1].at
                   q == IF p = 0 THEN 0 ELSE advance(re[k], s, p)
               IN  [at |-> q,
                    groups |-> IF re[k] \in {"SINGLE", "MULTI"} /\ q # 0
                               THEN Append(m[k - 1].groups, SubSeq(s, p, q - 1))
                               ELSE m[k - 1].groups]
    IN  m[Len(re)]

\* FindStringSubmatch: the leftmost match and its groups, or nil.
Params(filter, topic) ==
    LET re == expression(filter)
        starts == {i \in 1..Len(topic) + 1 : matchAt(re, topic, i).at # 0}
        m == matchAt(re, topic, Min(starts))
    IN  IF starts = {} THEN <<>> ELSE <<SubSeq(topic, Min(starts), m.at - 1)>> \o m.groups

-----------------------------------------------------------------------------
(* The payload.  The kinds:                                                *)
(*   object   a JSON object on one line      pretty   one over many lines  *)
(*   braces   {...} that is not JSON         number   an unsigned number   *)
(*   version  digits and dots, or zeros in front: no JSON number           *)
(*   signed   -5, 1e6                        date     the $SYS form        *)
(*   words    text                           quoted   text with a quote, a *)
(*                                           backslash or a line break     *)
(***************************************************************************)

\* Mutant: text is taken for a number wherever it has a digit or a dot.
parseLoosely(payload) ==
    CASE payload \in {"object", "braces"} -> "json"
      [] payload \in {"number", "version", "signed"} -> "numeric"
      [] payload = "date" -> "date"
      [] OTHER -> "string"

parse(payload) ==
    CASE payload \in {"object", "braces"} -> "json"
      [] payload \in {"number", "version"} -> "numeric"
      [] payload = "date" -> "date"
      [] OTHER -> "string"

\* What json.Unmarshal makes of it: the object, its one value, or an error.  A date
\* never parses with dateFormat, and the zero time is stored.
unmarshal(payload) ==
    CASE parse(payload) = "json" -> IF payload = "object" THEN "fields" ELSE "error"
      [] parse(payload) = "numeric" -> IF payload = "number" THEN "number" ELSE "error"
      [] parse(payload) = "date" -> "zero time"
      [] OTHER -> IF payload \in {"quoted", "pretty"} THEN "error" ELSE "text"

-----------------------------------------------------------------------------
VARIABLES filter,     \* the watched filter
          arrived,    \* the message: topic, payload, dup
          outcome,    \* what became of it
          row         \* the row stored

rowVars == <<filter, arrived, outcome, row>>

NoRow == [topic |-> <<>>, params |-> <<>>, value |-> "none"]

RowInit ==
    /\ filter \in WatchFilters
    /\ arrived \in [topic : RowTopics, payload : Payloads, dup : BOOLEAN]
    /\ outcome = "none"
    /\ row = NoRow

\* An invalid filter has a token that is never completed: main waits for ever.
Watch ==
    /\ outcome = "none"
    /\ outcome' = IF validTopic(filter) THEN "subscribed" ELSE "stuck"
    /\ UNCHANGED <<filter, arrived, row>>

\* No route: onAnyMessageReceived shows the message and does not store it.
Unwatched ==
    /\ outcome = "subscribed" /\ ~routeMatches(filter, arrived.topic)
    /\ outcome' = "shown"
    /\ UNCHANGED <<filter, arrived, row>>

\* onTopicMessageReceived: a duplicate is shown only; persist panics or writes.
Watched ==
    /\ outcome = "subscribed" /\ routeMatches(filter, arrived.topic)
    /\ outcome' = CASE arrived.dup -> "shown"
                    [] ~arrived.dup /\ (parsePanics(filter) \/ unmarshal(arrived.payload) = "error")
                         -> "panic"
                    [] OTHER -> "stored"
    /\ row' = IF outcome' = "stored"
              THEN [topic |-> arrived.topic, params |-> Params(filter, arrived.topic),
                    value |-> unmarshal(arrived.payload)]
              ELSE row
    /\ UNCHANGED <<filter, arrived>>

RowNext == Watch \/ Unwatched \/ Watched

RowSpec == RowInit /\ [][RowNext]_rowVars

-----------------------------------------------------------------------------
(* What should come out.                                                   *)

\* MQTT's rule, level by level: a valid filter covers a topic of the same length whose
\* levels it names or leaves open, and with "#" last every topic under the rest.
Covers(f, t) ==
    LET fs == Split(f)
        ts == Split(t)
        Agree(n) == \A i \in 1..n : fs[i] \in {Plus, ts[i]}
    IN  \/ Len(fs) = Len(ts) /\ Agree(Len(fs))
        \/ Last(fs) = Hash /\ Len(fs) - 1 <= Len(ts) /\ Agree(Len(fs) - 1)

\* The recursive match is MQTT's rule: exactly the messages under the watched filter
\* reach onTopicMessageReceived, the topic above "#" and empty levels included.
WatchedIsCovered ==
    /\ outcome \in {"stored", "panic"} => Covers(filter, arrived.topic)
    /\ outcome = "shown" /\ ~arrived.dup => ~Covers(filter, arrived.topic)

Plain(s) == \A i \in DOMAIN s : Word(s[i]) \/ s[i] = "/"
PlainTopic(t) == Plain(t) /\ \A i \in DOMAIN Split(t) : Split(t)[i] # <<>>

\* What a stored message's wildcards should give: the topic and what its last level
\* stands for.  The expression finds that for plain topics; it finds nothing if "+"
\* stands before the last level (the group has eaten the separator), for "$SYS" (an
\* anchor), or if "#" stands for no level at all.
WildcardsFound ==
    outcome = "stored" /\ PlainTopic(arrived.topic) =>
        LET fs == Split(filter)
            ts == Split(arrived.topic)
            above == Len(fs) - 1
        IN  IF \/ \E i \in 1..above : fs[i] = Plus
               \/ Last(fs) = Hash /\ above > 0 /\ Len(ts) = above
            THEN row.params = <<>>
            ELSE /\ row.params[1] = arrived.topic
                 /\ Len(row.params) = IF Last(fs) \in {Plus, Hash} THEN 2 ELSE 1
                 /\ Last(fs) \in {Plus, Hash} =>
                        row.params[2] =
                            SubSeq(arrived.topic, from(arrived.topic, above + 1) + 1, Len(arrived.topic))

\* A payload is stored as what it is, numbers as numbers and an object as its fields,
\* and mqtt-plumber panics for nothing but text that breaks its quotes, digits that
\* are no number, braces that are no JSON, and a filter outside ASCII or the syntax of
\* expressions: a filter of plain characters never makes Parse slice out of range.
PayloadsKept ==
    /\ outcome = "stored" =>
         /\ row.topic = arrived.topic
         /\ (row.value = "number") <=> (arrived.payload = "number")
         /\ (row.value = "fields") <=> (arrived.payload = "object")
         /\ (row.value = "text") <=> (arrived.payload \in {"words", "signed"})
    /\ outcome = "panic" =>
         \/ arrived.payload \in {"quoted", "pretty", "version", "braces"}
         \/ Contains(filter, "wide") \/ Contains(filter, "(")
=============================================================================
