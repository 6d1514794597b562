---- MODULE Retrieval ----
(***************************************************************************)
(* GetObject and HeadObject of src/s3.rs with conditional headers and a    *)
(* byte range, on one key that others overwrite and delete meanwhile.      *)
(*                                                                         *)
(* The handler reads the metadata twice: the first version decides on the  *)
(* conditions and the range, the body is taken from the second.  A version *)
(* is a content, which is its own etag, and the time it was written.  A    *)
(* Range header is the two numbers it gives: None for one that is not      *)
(* there, Bad for a text that is none.  That the data file of the second   *)
(* version may be gone when it is opened is in ObjectStore.                *)
(***************************************************************************)
EXTENDS Integers

CONSTANTS Content,   \* contents, which are their own etags
          Size,      \* the length of each content
          Time,      \* times of writes and of conditional headers
          Get,       \* requests: method, match, noneMatch, since, until, range
          Largest,   \* the largest number that parses, that of u64
          Bad,       \* what stands for a number and is none
          None       \* absence of a version, a header or a number

Version == [etag : Content, modified : Time]

\* An etag list may hold the wildcard.  A range is a pair of numbers or malformed.
Any == "*"
Header == {None} \cup SUBSET (Content \cup {Any})
Number == {None, Bad} \cup Nat
Range == {None} \cup [kind : {"one", "other"}, first : Number, last : Number]

\* What the requests have to be; assumed where this module is composed.
GetsAreWellFormed == \A g \in Get : /\ g.method \in {"GET", "HEAD"}
                                    /\ {g.match, g.noneMatch} \subseteq Header
                                    /\ {g.since, g.until} \subseteq {None} \cup Time
                                    /\ g.range \in Range

(***************************************************************************)
(* evaluate_conditions.                                                    *)
(***************************************************************************)
Lists(header, v) == Any \in header \/ v.etag \in header

PreconditionFailed(g, v) ==
  IF g.match # None THEN ~Lists(g.match, v) ELSE g.until # None /\ v.modified > g.until

\* Mutant: the date is looked at although there is an etag list.
NotModifiedByAll(g, v) ==
  /\ g.noneMatch # None => Lists(g.noneMatch, v)
  /\ g.since # None => v.modified <= g.since
  /\ g.noneMatch # None \/ g.since # None

NotModified(g, v) ==
  IF g.noneMatch # None THEN Lists(g.noneMatch, v) ELSE g.since # None /\ v.modified <= g.since

(***************************************************************************)
(* parse_range.  Without a part to send the range is ignored or invalid.   *)
(***************************************************************************)
Part(start, end) == [kind |-> "valid", start |-> start, len |-> end - start + 1]
NoPart(kind) == [kind |-> kind, start |-> 0, len |-> 0]
Parses(n) == n \in 0 .. Largest
AtMostBy(n, m) == IF n < m THEN n ELSE m
Minus(n, m) == IF n < m THEN 0 ELSE n - m

\* Mutant: the last zero bytes are a part.
SuffixOfNothing(n, size) == IF size = 0 THEN NoPart("invalid") ELSE Part(Minus(size, n), size - 1)

Suffix(n, size) == IF n = 0 \/ size = 0 THEN NoPart("invalid") ELSE Part(Minus(size, n), size - 1)

\* Mutant: the end of the range is not cut off at the end of the object.
FromUncut(range, size) ==
  LET end == IF range.last = None THEN size - 1 ELSE range.last
  IN IF range.first >= size THEN NoPart("invalid")
     ELSE IF (range.last # None /\ ~Parses(range.last)) \/ end < range.first THEN NoPart("ignored")
     ELSE Part(range.first, end)

\* A first position beyond the object is refused before the last one is looked at.
From(range, size) ==
  LET end == IF range.last = None THEN size - 1 ELSE AtMostBy(range.last, size - 1)
  IN IF range.first >= size THEN NoPart("invalid")
     ELSE IF (range.last # None /\ ~Parses(range.last)) \/ end < range.first THEN NoPart("ignored")
     ELSE Part(range.first, end)

Parsed(range, size) ==
  IF range = None \/ range.kind = "other" THEN NoPart("ignored")
  ELSE LET given == IF range.first = None THEN range.last ELSE range.first
       IN  IF ~Parses(given) THEN NoPart("ignored")
           ELSE IF range.first = None THEN Suffix(given, size) ELSE From(range, size)

----
VARIABLES current,     \* the version of the key, None without one
          get,         \* the request
          stage,       \* "head", "open" or "done"
          part,        \* the parsed range
          answer,      \* the response
          overwritten  \* history: the version has changed since the request came

vars == <<current, get, stage, part, answer, overwritten>>

\* Positions of the bytes sent, and what the headers say of them.
Answer(status, etag, first, len, body) ==
  [status |-> status, etag |-> etag, first |-> first, length |-> len, body |-> body]
NoBody(status) == Answer(status, None, 0, 0, {})

Init == /\ current \in {None} \cup Version
        /\ get \in Get
        /\ stage = "head"
        /\ part = NoPart("ignored")
        /\ answer = None
        /\ overwritten = FALSE

Overwrite == /\ stage # "done"
             /\ current' \in ({None} \cup Version) \ {current}
             /\ overwritten' = TRUE
             /\ UNCHANGED <<get, stage, part, answer>>

\* The status the first version decides on, 0 if it lets the request go on.
Decision(v, g, p) == CASE v = None -> 404
                       [] v # None /\ PreconditionFailed(g, v) -> 412
                       [] v # None /\ ~PreconditionFailed(g, v) /\ NotModified(g, v) -> 304
                       [] OTHER -> IF p.kind = "invalid" THEN 416 ELSE 0

Head == /\ stage = "head"
        /\ part' = IF current = None THEN part ELSE Parsed(get.range, Size[current.etag])
        /\ LET status == Decision(current, get, part') IN
           /\ stage' = IF status = 0 THEN "open" ELSE "done"
           /\ answer' = IF status = 0 THEN None ELSE NoBody(status)
        /\ UNCHANGED <<current, get, overwritten>>

\* Mutant: everything from the start of the range on is read.
ReadRest(size, p) == IF p.kind = "valid" THEN Minus(size, p.start) ELSE size

\* get_object_range: how many bytes of the second version are read.
ReadLen(size, p) == IF p.kind = "valid" THEN AtMostBy(p.len, Minus(size, p.start)) ELSE size

Open == /\ stage = "open"
        /\ stage' = "done"
        /\ answer' = IF current = None THEN NoBody(404)
             ELSE LET size == Size[current.etag]
                      sent == IF get.method = "HEAD" THEN {}
                              ELSE part.start .. part.start + ReadLen(size, part) - 1
                  IN IF part.kind = "valid" THEN Answer(206, current.etag, part.start, part.len, sent)
                     ELSE Answer(200, current.etag, 0, size, sent)
        /\ UNCHANGED <<current, get, part, overwritten>>

Next == Overwrite \/ Head \/ Open
Spec == Init /\ [][Next]_vars

----
Response == [status : {200, 206, 304, 404, 412, 416}, etag : {None} \cup Content,
             first : Nat, length : Nat, body : SUBSET Nat]
Positions(etag) == 0 .. Size[etag] - 1
Served == answer # None /\ answer.status \in {200, 206}

\* The bytes a range asks for, by the definition of byte ranges.
Wanted(range, size) ==
  {i \in 0 .. size - 1 : IF range.first = None THEN i >= size - range.last
                         ELSE i >= range.first /\ (range.last = None \/ i <= range.last)}

\* The types of the variables.
TypeOK == /\ current \in {None} \cup Version
          /\ get \in Get
          /\ stage \in {"head", "open", "done"}
          /\ part \in [kind : {"valid", "invalid", "ignored"}, start : Nat, len : Nat]
          /\ part.kind = "valid" => part.len > 0
          /\ answer \in {None} \cup Response
          /\ stage = "done" <=> answer # None

\* Who is served a version that was not overwritten meanwhile has asked for no other:
\* an etag it lists in If-Match, none it lists in If-None-Match, and so for the dates
\* where there is no such list; who is told 304 would not have been.
ServedMeetsConditions ==
  stage = "done" /\ ~overwritten /\ current # None =>
    /\ answer.status \in {200, 206, 416} =>
         /\ get.match # None => {Any, current.etag} \cap get.match # {}
         /\ get.noneMatch # None => {Any, current.etag} \cap get.noneMatch = {}
         /\ get.match = None /\ get.until # None => current.modified <= get.until
         /\ get.noneMatch = None /\ get.since # None => current.modified > get.since
    /\ answer.status = 304 =>
         IF get.noneMatch # None THEN {Any, current.etag} \cap get.noneMatch # {}
         ELSE current.modified <= get.since

\* A part that is served of a version that was not overwritten meanwhile is the part
\* asked for, never empty, and Content-Range and Content-Length say what it is; a
\* range is refused only if it holds no byte of the object.
PartIsAsAsked ==
  stage = "done" /\ ~overwritten =>
    /\ answer.status = 206 =>
         LET wanted == Wanted(get.range, Size[answer.etag]) IN
         /\ wanted # {}
         /\ answer.first .. answer.first + answer.length - 1 = wanted
         /\ get.method = "GET" => answer.body = wanted
    /\ answer.status = 416 => Wanted(get.range, Size[current.etag]) = {}

\* Whatever overwrites the key between the two reads of its metadata, no response has
\* bytes beyond those its Content-Length and Content-Range announce, all are bytes of
\* the version whose etag it bears, and without a range it is that version in full.
AnnouncedLengthHolds ==
  Served => /\ answer.body \subseteq Positions(answer.etag)
            /\ answer.body \subseteq answer.first .. answer.first + answer.length - 1
            /\ answer.status = 200 /\ get.method = "GET" =>
                 answer.body = Positions(answer.etag) /\ answer.length = Size[answer.etag]
====
