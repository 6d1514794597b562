---- MODULE ReadsProofs ----
(***************************************************************************)
(* Theorems about the reads.  Of the gets, for any contents and sizes, any *)
(* conditional headers and any range: what Retrieval computes of a Range   *)
(* header is what a range is defined to be, and stays true of the response *)
(* although the metadata is read twice.  Of the listings, for any keys,    *)
(* queries and writes meanwhile: nothing is missed, nothing comes twice,   *)
(* and there is an end; the steps are in ListingProofs.                    *)
(***************************************************************************)
EXTENDS Reads, ListingProofs

\* What Parsed returns.
Parts == [kind : {"valid", "invalid", "ignored"}, start : Nat, len : Nat]

\* What a get knows between its two reads: a part within the object, or none; and if
\* nobody has overwritten the key, what the version it has read decided.
Judged ==
  /\ get \in Get /\ part \in Parts /\ part.kind # "invalid"
  /\ part.kind = "valid" => part.len > 0
  /\ part.kind = "ignored" => part.start = 0
  /\ ~overwritten => /\ current # None
                     /\ part = R!Parsed(get.range, Size[current.etag])
                     /\ ~R!PreconditionFailed(get, current) /\ ~R!NotModified(get, current)
GetInv ==
  /\ current \in {None} \cup R!Version
  /\ stage \in {"head", "open", "done"}
  /\ stage # "done" => answer = None /\ get \in Get
  /\ stage = "head" => part = R!NoPart("ignored")
  /\ stage = "open" => Judged
  /\ ServedMeetsConditions /\ PartIsAsAsked /\ AnnouncedLengthHolds

(***************************************************************************)
(* Ranges.                                                                 *)
(***************************************************************************)
LEMMA SuffixIsWanted ==
  ASSUME NEW range \in [kind : {"one"}, first : R!Number, last : R!Number], NEW size \in Nat,
         range.first = None, R!Parses(range.last)
  PROVE  LET p == R!Suffix(range.last, size) IN
         /\ p \in Parts
         /\ p.kind = "valid" => /\ p.len > 0 /\ p.start + p.len <= size
                                /\ p.start .. p.start + p.len - 1 = R!Wanted(range, size)
         /\ p.kind = "invalid" => R!Wanted(range, size) = {}
         /\ p.kind # "ignored"
<1> DEFINE n == range.last
<1>1. n \in Nat
  BY LargestAssumption DEF R!Parses
<1>2. R!Wanted(range, size) = {i \in 0 .. size - 1 : i >= size - n}
  BY DEF R!Wanted
<1>3. CASE n = 0 \/ size = 0
  <2>1. R!Suffix(n, size) = [kind |-> "invalid", start |-> 0, len |-> 0]
    BY <1>3 DEF R!Suffix, R!NoPart
  <2>2. R!Wanted(range, size) = {}
    BY <1>1, <1>2, <1>3
  <2>3. QED
    BY <2>1, <2>2 DEF Parts
<1>4. CASE n > 0 /\ size > 0
  <2> DEFINE s == IF size < n THEN 0 ELSE size - n
  <2>1. R!Suffix(n, size) = [kind |-> "valid", start |-> s, len |-> size - 1 - s + 1]
    BY <1>4 DEF R!Suffix, R!Part, R!Minus
  <2>2. s \in Nat /\ size - 1 - s + 1 = size - s /\ size - s \in Nat /\ size - s > 0
    BY <1>1, <1>4
  <2>3. s .. size - 1 = R!Wanted(range, size)
    BY <1>1, <1>2, <1>4
  <2> HIDE DEF s
  <2>4. QED
    BY <2>1, <2>2, <2>3 DEF Parts
<1>5. QED
  BY <1>1, <1>3, <1>4

LEMMA FromIsWanted ==
  ASSUME NEW range \in [kind : {"one"}, first : R!Number, last : R!Number], NEW size \in Nat,
         range.first # None, R!Parses(range.first)
  PROVE  LET p == R!From(range, size) IN
         /\ p \in Parts
         /\ p.kind = "valid" => /\ p.len > 0 /\ p.start + p.len <= size
                                /\ p.start .. p.start + p.len - 1 = R!Wanted(range, size)
         /\ p.kind = "invalid" => R!Wanted(range, size) = {}
         /\ p.kind = "ignored" => p.start = 0
<1> DEFINE s == range.first
           e == IF range.last = None THEN size - 1 ELSE R!AtMostBy(range.last, size - 1)
           unread == range.last # None /\ ~R!Parses(range.last)
<1>1. s \in Nat /\ (~unread /\ range.last # None => range.last \in Nat)
  BY LargestAssumption DEF R!Parses
<1>2. R!Wanted(range, size) = {i \in 0 .. size - 1 : i >= s /\ (range.last = None \/ i <= range.last)}
  BY DEF R!Wanted
<1>3. R!From(range, size) = IF s >= size THEN R!NoPart("invalid")
                            ELSE IF unread \/ e < s THEN R!NoPart("ignored") ELSE R!Part(s, e)
  BY Zenon DEF R!From
<1>4. CASE s >= size
  <2>1. R!From(range, size) = [kind |-> "invalid", start |-> 0, len |-> 0]
    BY <1>3, <1>4 DEF R!NoPart
  <2>2. R!Wanted(range, size) = {}
    BY <1>1, <1>2, <1>4
  <2>3. QED
    BY <2>1, <2>2 DEF Parts
<1>5. CASE s < size /\ (unread \/ e < s)
  <2>1. R!From(range, size) = [kind |-> "ignored", start |-> 0, len |-> 0]
    <3>1. ~(s >= size)
      BY <1>1, <1>5
    <3> HIDE DEF s, e, unread
    <3>2. QED
      BY <1>3, <1>5, <3>1, Zenon DEF R!NoPart
  <2>2. QED
    BY <2>1 DEF Parts
<1>6. CASE s < size /\ ~unread /\ ~(e < s)
  <2>1. R!From(range, size) = [kind |-> "valid", start |-> s, len |-> e - s + 1]
    <3>1. ~(s >= size)
      BY <1>1, <1>6
    <3> HIDE DEF s, e, unread
    <3>2. QED
      BY <1>3, <1>6, <3>1, Zenon DEF R!Part
  <2>2. e \in Nat /\ e - s + 1 \in Nat /\ e - s + 1 > 0 /\ s + (e - s + 1) - 1 = e /\ s + (e - s + 1) <= size
    BY <1>1, <1>6 DEF R!AtMostBy
  <2>3. s .. e = R!Wanted(range, size)
    <3>1. ASSUME NEW i \in Int PROVE i \in s .. e <=> i \in R!Wanted(range, size)
      BY <1>1, <1>2, <1>6 DEF R!AtMostBy
    <3>2. QED
      BY <1>2, <2>2, <1>1, <3>1
  <2> HIDE DEF s, e
  <2>4. QED
    BY <1>1, <2>1, <2>2, <2>3 DEF Parts
<1>7. s >= size \/ s < size
  BY <1>1
<1> HIDE DEF s, e, unread
<1>8. QED
  BY <1>4, <1>5, <1>6, <1>7

LEMMA ParsedIsWanted ==
  ASSUME NEW range \in R!Range, NEW size \in Nat
  PROVE  LET p == R!Parsed(range, size) IN
         /\ p \in Parts
         /\ p.kind = "valid" => /\ p.len > 0 /\ p.start + p.len <= size
                                /\ p.start .. p.start + p.len - 1 = R!Wanted(range, size)
         /\ p.kind = "invalid" => R!Wanted(range, size) = {}
         /\ p.kind = "ignored" => p.start = 0
<1> DEFINE given == IF range.first = None THEN range.last ELSE range.first
<1>1. CASE range = None \/ range.kind = "other" \/ ~R!Parses(given)
  <2>1. R!Parsed(range, size) = [kind |-> "ignored", start |-> 0, len |-> 0]
    BY <1>1, Zenon DEF R!Parsed, R!NoPart
  <2>2. QED
    BY <2>1 DEF Parts
<1>2. CASE ~(range = None \/ range.kind = "other" \/ ~R!Parses(given))
  <2>1. range \in [kind : {"one"}, first : R!Number, last : R!Number]
    BY <1>2 DEF R!Range
  <2>2. CASE range.first = None
    <3>1. R!Parsed(range, size) = R!Suffix(range.last, size) /\ R!Parses(range.last)
      BY <1>2, <2>2, Zenon DEF R!Parsed
    <3>2. QED
      BY <2>1, <2>2, <3>1, SuffixIsWanted
  <2>3. CASE range.first # None
    <3>1. R!Parsed(range, size) = R!From(range, size) /\ R!Parses(range.first)
      BY <1>2, <2>3, Zenon DEF R!Parsed
    <3>2. QED
      BY <2>1, <2>3, <3>1, FromIsWanted
  <2>4. QED
    BY <2>2, <2>3
<1>3. QED
  BY <1>1, <1>2

\* The bytes that Open reads are in the object, and none but those announced.
LEMMA ReadIsWithin ==
  ASSUME NEW p \in Parts, NEW size \in Nat, p.kind # "invalid",
         p.kind = "ignored" => p.start = 0
  PROVE  LET sent == p.start .. p.start + R!ReadLen(size, p) - 1 IN
         /\ sent \subseteq 0 .. size - 1
         /\ p.kind = "valid" => sent \subseteq p.start .. p.start + p.len - 1
         /\ p.kind = "valid" /\ p.start + p.len <= size => sent = p.start .. p.start + p.len - 1
         /\ p.kind = "ignored" => sent = 0 .. size - 1
<1> DEFINE s == p.start
           n == R!ReadLen(size, p)
<1>1. s \in Nat /\ p.len \in Nat
  BY DEF Parts
<1>2. CASE p.kind = "valid"
  <2>1. n = IF p.len < (IF size < s THEN 0 ELSE size - s) THEN p.len ELSE (IF size < s THEN 0 ELSE size - s)
    BY <1>2 DEF R!ReadLen, R!AtMostBy, R!Minus
  <2>2. n \in Nat /\ n <= p.len /\ (n > 0 => s + n <= size) /\ (s + p.len <= size => n = p.len)
    BY <1>1, <2>1
  <2> HIDE DEF n
  <2>3. s .. s + n - 1 \subseteq 0 .. size - 1 /\ s .. s + n - 1 \subseteq s .. s + p.len - 1
    BY <1>1, <2>2
  <2>4. QED
    BY <1>2, <2>2, <2>3 DEF n
<1>3. CASE p.kind = "ignored"
  <2>1. n = size /\ s = 0
    BY <1>3 DEF R!ReadLen
  <2>2. 0 .. 0 + size - 1 = 0 .. size - 1
    OBVIOUS
  <2>3. QED
    BY <1>3, <2>1, <2>2
<1>4. QED
  BY <1>2, <1>3 DEF Parts

(***************************************************************************)
(* The gets.                                                               *)
(***************************************************************************)
LEMMA GetTyped ==
  ASSUME NEW g \in Get
  PROVE  g.range \in R!Range /\ g.method \in {"GET", "HEAD"}
BY GetAssumption DEF R!GetsAreWellFormed

LEMMA GetInit == ReadsInit => GetInv
<1>1. SUFFICES ASSUME ReadsInit PROVE GetInv
  OBVIOUS
<1>2. CASE R!Init
  BY <1>2 DEF R!Init, GetInv, ServedMeetsConditions, PartIsAsAsked, AnnouncedLengthHolds,
     R!ServedMeetsConditions, R!PartIsAsAsked, R!AnnouncedLengthHolds, R!Served
<1>3. CASE NoGet
  <2>1. current = None /\ stage = "done" /\ answer.status = 404
    BY <1>3 DEF NoGet, R!NoBody, R!Answer
  <2>2. QED
    BY <2>1 DEF GetInv, ServedMeetsConditions, PartIsAsAsked, AnnouncedLengthHolds,
       R!ServedMeetsConditions, R!PartIsAsAsked, R!AnnouncedLengthHolds, R!Served
<1>4. QED
  BY <1>1, <1>2, <1>3 DEF ReadsInit

\* What the first version has let through.
LEMMA LetThrough ==
  ASSUME NEW g, NEW v, ~R!PreconditionFailed(g, v), ~R!NotModified(g, v)
  PROVE  /\ g.match # None => {R!Any, v.etag} \cap g.match # {}
         /\ g.noneMatch # None => {R!Any, v.etag} \cap g.noneMatch = {}
         /\ g.match = None /\ g.until # None => ~(v.modified > g.until)
         /\ g.noneMatch = None /\ g.since # None => ~(v.modified <= g.since)
<1>1. g.match # None => {R!Any, v.etag} \cap g.match # {}
  BY DEF R!PreconditionFailed, R!Lists
<1>2. g.noneMatch # None => {R!Any, v.etag} \cap g.noneMatch = {}
  BY DEF R!NotModified, R!Lists
<1>3. QED
  BY <1>1, <1>2 DEF R!PreconditionFailed, R!NotModified

\* Times are numbers, so one is at most the other or later.
LEMMA ThroughMeets ==
  ASSUME NEW g \in Get, NEW v \in R!Version, ~R!PreconditionFailed(g, v), ~R!NotModified(g, v)
  PROVE  /\ g.match # None => {R!Any, v.etag} \cap g.match # {}
         /\ g.noneMatch # None => {R!Any, v.etag} \cap g.noneMatch = {}
         /\ g.match = None /\ g.until # None => v.modified <= g.until
         /\ g.noneMatch = None /\ g.since # None => v.modified > g.since
<1>1. /\ v.modified \in Nat
      /\ g.until # None => g.until \in Nat
      /\ g.since # None => g.since \in Nat
  BY GetAssumption, TimeAssumption DEF R!Version, R!GetsAreWellFormed
<1>2. QED
  BY <1>1, LetThrough

LEMMA HeadStep ==
  ASSUME GetInv, R!Head
  PROVE  GetInv'
<1>1. /\ stage = "head" /\ answer = None /\ get \in Get /\ current \in {None} \cup R!Version
      /\ current' = current /\ get' = get /\ overwritten' = overwritten
  BY DEF GetInv, R!Head
<1>2. CASE current = None
  <2>1. R!Decision(current, get, part') = 404
    BY <1>2 DEF R!Decision
  <2>2. stage' = "done" /\ answer' = R!NoBody(404)
    BY <2>1 DEF R!Head
  <2>3. answer'.status = 404
    BY <2>2 DEF R!NoBody, R!Answer
  <2>4. QED
    BY <1>1, <1>2, <2>2, <2>3 DEF GetInv, ServedMeetsConditions, PartIsAsAsked, AnnouncedLengthHolds,
       R!ServedMeetsConditions, R!PartIsAsAsked, R!AnnouncedLengthHolds, R!Served
<1>3. CASE current # None
  <2> DEFINE p == R!Parsed(get.range, Size[current.etag])
  <2>1. Size[current.etag] \in Nat /\ get.range \in R!Range
    BY <1>1, <1>3, SizeAssumption, GetTyped DEF R!Version
  <2>2. part' = p
    BY <1>3 DEF R!Head
  <2>3. /\ p \in Parts
        /\ p.kind = "valid" => p.len > 0
        /\ p.kind = "invalid" => R!Wanted(get.range, Size[current.etag]) = {}
        /\ p.kind = "ignored" => p.start = 0
    BY <2>1, ParsedIsWanted
  <2> HIDE DEF p
  <2>4. CASE R!PreconditionFailed(get, current)
    <3>1. stage' = "done" /\ answer' = R!NoBody(412)
      BY <1>3, <2>4 DEF R!Head, R!Decision
    <3>2. answer'.status = 412
      BY <3>1 DEF R!NoBody, R!Answer
    <3>3. QED
      BY <1>1, <3>1, <3>2 DEF GetInv, ServedMeetsConditions, PartIsAsAsked, AnnouncedLengthHolds,
         R!ServedMeetsConditions, R!PartIsAsAsked, R!AnnouncedLengthHolds, R!Served
  <2>5. CASE ~R!PreconditionFailed(get, current) /\ R!NotModified(get, current)
    <3>1. stage' = "done" /\ answer' = R!NoBody(304)
      BY <1>3, <2>5 DEF R!Head, R!Decision
    <3>2. answer'.status = 304
      BY <3>1 DEF R!NoBody, R!Answer
    <3>3. ServedMeetsConditions'
      BY <1>1, <2>5, <3>2 DEF ServedMeetsConditions, R!ServedMeetsConditions, R!NotModified, R!Lists
    <3>4. QED
      BY <1>1, <3>1, <3>2, <3>3 DEF GetInv, PartIsAsAsked, AnnouncedLengthHolds,
         R!PartIsAsAsked, R!AnnouncedLengthHolds, R!Served
  <2>6. CASE ~R!PreconditionFailed(get, current) /\ ~R!NotModified(get, current) /\ p.kind = "invalid"
    <3>1. stage' = "done" /\ answer' = R!NoBody(416)
      BY <1>3, <2>2, <2>6 DEF R!Head, R!Decision
    <3>2. answer'.status = 416
      BY <3>1 DEF R!NoBody, R!Answer
    <3>3. ServedMeetsConditions'
      BY <1>1, <1>3, <2>6, <3>2, ThroughMeets DEF ServedMeetsConditions, R!ServedMeetsConditions
    <3>4. PartIsAsAsked'
      BY <1>1, <2>3, <2>6, <3>2 DEF PartIsAsAsked, R!PartIsAsAsked, R!Wanted
    <3>5. QED
      BY <1>1, <3>1, <3>2, <3>3, <3>4 DEF GetInv, AnnouncedLengthHolds, R!AnnouncedLengthHolds, R!Served
  <2>7. CASE ~R!PreconditionFailed(get, current) /\ ~R!NotModified(get, current) /\ p.kind # "invalid"
    <3>1. stage' = "open" /\ answer' = None
      BY <1>3, <2>2, <2>7 DEF R!Head, R!Decision
    <3>2. Judged'
      BY <1>1, <1>3, <2>2, <2>3, <2>7 DEF Judged, R!PreconditionFailed, R!NotModified, R!Lists, p,
         R!Parsed, R!Suffix, R!From
    <3>3. ServedMeetsConditions' /\ PartIsAsAsked' /\ AnnouncedLengthHolds'
      BY <3>1 DEF ServedMeetsConditions, PartIsAsAsked, AnnouncedLengthHolds,
         R!ServedMeetsConditions, R!PartIsAsAsked, R!AnnouncedLengthHolds, R!Served
    <3>4. QED
      BY <1>1, <3>1, <3>2, <3>3 DEF GetInv
  <2>8. QED
    BY <2>4, <2>5, <2>6, <2>7
<1>4. QED
  BY <1>2, <1>3

LEMMA OpenStep ==
  ASSUME GetInv, R!Open
  PROVE  GetInv'
<1>1. /\ Judged /\ stage' = "done" /\ current \in {None} \cup R!Version
      /\ UNCHANGED <<current, get, part, overwritten>>
  BY DEF GetInv, R!Open
<1>2. CASE current = None
  <2>1. answer' = R!NoBody(404)
    BY <1>2 DEF R!Open
  <2>2. answer'.status = 404
    BY <2>1 DEF R!NoBody, R!Answer
  <2>3. QED
    BY <1>1, <1>2, <2>2 DEF GetInv, ServedMeetsConditions, PartIsAsAsked, AnnouncedLengthHolds,
       R!ServedMeetsConditions, R!PartIsAsAsked, R!AnnouncedLengthHolds, R!Served
<1>3. CASE current # None
  <2> DEFINE size == Size[current.etag]
             range == part.start .. part.start + R!ReadLen(size, part) - 1
             sent == IF get.method = "HEAD" THEN {} ELSE range
  <2>1. size \in Nat /\ get.range \in R!Range /\ get.method \in {"GET", "HEAD"}
    BY <1>1, <1>3, SizeAssumption, GetTyped DEF R!Version, Judged
  <2>2. /\ part \in Parts /\ part.kind # "invalid"
        /\ part.kind = "ignored" => part.start = 0
    BY <1>1 DEF Judged
  <2>3. /\ range \subseteq 0 .. size - 1
        /\ part.kind = "valid" => range \subseteq part.start .. part.start + part.len - 1
        /\ part.kind = "valid" /\ part.start + part.len <= size => range = part.start .. part.start + part.len - 1
        /\ part.kind = "ignored" => range = 0 .. size - 1
    BY <2>1, <2>2, ReadIsWithin
  <2>4. ServedMeetsConditions'
    BY <1>1, <1>3, ThroughMeets DEF ServedMeetsConditions, R!ServedMeetsConditions, Judged, R!Open, R!Answer
  <2>5. answer' = IF part.kind = "valid"
                  THEN [status |-> 206, etag |-> current.etag, first |-> part.start, length |-> part.len, body |-> sent]
                  ELSE [status |-> 200, etag |-> current.etag, first |-> 0, length |-> size, body |-> sent]
    BY <1>3 DEF R!Open, R!Answer
  <2>6. part.len \in Nat /\ part.start \in Nat /\ part.kind \in {"valid", "ignored"}
    BY <2>2 DEF Parts
  <2> HIDE DEF range
  <2>7. /\ sent \subseteq range
        /\ get.method = "GET" => sent = range
    BY <2>1
  <2>8. part.kind = "valid" /\ ~overwritten =>
          /\ R!Wanted(get.range, size) = part.start .. part.start + part.len - 1
          /\ part.len > 0 /\ part.start + part.len <= size
    BY <1>1, <2>1, ParsedIsWanted DEF Judged
  <2> HIDE DEF sent
  <2>9. PartIsAsAsked'
    <3>1. SUFFICES ASSUME ~overwritten, part.kind = "valid"
                   PROVE  LET wanted == R!Wanted(get.range, size) IN
                          /\ wanted # {}
                          /\ part.start .. part.start + part.len - 1 = wanted
                          /\ get.method = "GET" => sent = wanted
      BY <1>1, <2>5, <2>6 DEF PartIsAsAsked, R!PartIsAsAsked, R!Wanted
    <3>2. part.start \in part.start .. part.start + part.len - 1
      BY <2>6, <2>8, <3>1
    <3>3. R!Wanted(get.range, size) = part.start .. part.start + part.len - 1
      BY <2>8, <3>1
    <3>4. range = part.start .. part.start + part.len - 1
      BY <2>3, <2>8, <3>1
    <3>5. get.method = "GET" => sent = R!Wanted(get.range, size)
      BY <2>7, <3>3, <3>4
    <3>6. R!Wanted(get.range, size) # {}
      BY <3>2, <3>3
    <3>7. QED
      BY <3>3, <3>5, <3>6
  <2>10. AnnouncedLengthHolds'
    <3>1. CASE part.kind = "valid"
      <4>1. answer'.status = 206 /\ answer'.etag = current.etag /\ answer'.first = part.start
            /\ answer'.length = part.len /\ answer'.body = sent
        BY <2>5, <3>1
      <4>2. /\ answer'.body \subseteq R!Positions(answer'.etag)
            /\ answer'.body \subseteq answer'.first .. answer'.first + answer'.length - 1
        BY <2>3, <2>7, <3>1, <4>1 DEF R!Positions
      <4>3. QED
        BY <1>1, <4>1, <4>2 DEF AnnouncedLengthHolds, R!AnnouncedLengthHolds, R!Positions
    <3>2. CASE part.kind = "ignored"
      <4>1. answer'.status = 200 /\ answer'.etag = current.etag /\ answer'.first = 0
            /\ answer'.length = size /\ answer'.body = sent
        BY <2>5, <3>2
      <4>2. 0 .. 0 + size - 1 = 0 .. size - 1
        BY <2>1
      <4>3. /\ answer'.body \subseteq R!Positions(answer'.etag)
            /\ answer'.body \subseteq answer'.first .. answer'.first + answer'.length - 1
        <5>1. R!Positions(answer'.etag) = 0 .. size - 1
          BY <4>1 DEF R!Positions
        <5>2. answer'.first .. answer'.first + answer'.length - 1 = 0 .. size - 1
          BY <4>1, <4>2
        <5>3. answer'.body \subseteq 0 .. size - 1
          BY <2>3, <2>7, <4>1, Zenon
        <5>4. QED
          BY <5>1, <5>2, <5>3, Zenon
      <4>4. get'.method = "GET" => answer'.body = R!Positions(answer'.etag) /\ answer'.length = Size[answer'.etag]
        BY <1>1, <2>3, <2>7, <3>2, <4>1 DEF R!Positions
      <4>5. QED
        BY <1>1, <4>3, <4>4 DEF AnnouncedLengthHolds, R!AnnouncedLengthHolds, R!Positions
    <3>3. QED
      BY <2>6, <3>1, <3>2
  <2>11. QED
    BY <1>1, <2>4, <2>9, <2>10 DEF GetInv
<1>4. QED
  BY <1>2, <1>3

LEMMA GetStep ==
  ASSUME GetInv, [ReadsNext]_<<vars, retrieval>>
  PROVE  GetInv'
<1>1. CASE UNCHANGED retrieval
  BY <1>1 DEF GetInv, Judged, retrieval, ServedMeetsConditions, PartIsAsAsked, AnnouncedLengthHolds,
     R!ServedMeetsConditions, R!PartIsAsAsked, R!AnnouncedLengthHolds, R!Served, R!Wanted, R!Positions,
     R!Parsed, R!Suffix, R!From, R!PreconditionFailed, R!NotModified, R!Lists
<1>2. CASE R!Overwrite
  <2>1. stage # "done" /\ stage' = stage /\ answer' = None /\ get' = get /\ part' = part /\ overwritten'
        /\ current' \in {None} \cup R!Version
    BY <1>2 DEF R!Overwrite, GetInv
  <2>2. ServedMeetsConditions' /\ PartIsAsAsked' /\ AnnouncedLengthHolds'
    BY <2>1 DEF ServedMeetsConditions, PartIsAsAsked, AnnouncedLengthHolds,
       R!ServedMeetsConditions, R!PartIsAsAsked, R!AnnouncedLengthHolds, R!Served
  <2>3. QED
    BY <2>1, <2>2 DEF GetInv, Judged
<1>3. QED
  BY <1>1, <1>2, HeadStep, OpenStep DEF ReadsNext, R!Next

LEMMA GetAlways == ReadsSpec => []GetInv
<1>1. GetInv /\ [ReadsNext]_<<vars, retrieval>> => GetInv'
  BY GetStep
<1>2. QED
  BY <1>1, GetInit, PTL DEF ReadsSpec

\* Who is served a version that was not overwritten meanwhile has asked for no other
\* (evaluate_conditions of src/s3.rs).
THEOREM ConditionsHold == ReadsSpec => []ServedMeetsConditions
<1>1. GetInv => ServedMeetsConditions
  BY DEF GetInv
<1>2. QED
  BY <1>1, GetAlways, PTL

\* The part of an object that is served is the part asked for, for objects of any
\* size and every range (parse_range and get_object of src/s3.rs).
THEOREM PartsAreRight == ReadsSpec => []PartIsAsAsked
<1>1. GetInv => PartIsAsAsked
  BY DEF GetInv
<1>2. QED
  BY <1>1, GetAlways, PTL

\* Whatever overwrites the key between the two reads, a response is of one version and
\* never longer than announced (get_object_range of src/storage.rs).
THEOREM LengthsHold == ReadsSpec => []AnnouncedLengthHolds
<1>1. GetInv => AnnouncedLengthHolds
  BY DEF GetInv
<1>2. QED
  BY <1>1, GetAlways, PTL

(***************************************************************************)
(* The types of the gets.                                                  *)
(***************************************************************************)
LEMMA NoBodyTyped ==
  ASSUME NEW status \in {304, 404, 412, 416}
  PROVE  R!NoBody(status) \in R!Response /\ R!NoBody(status) # None
BY NoneAssumption DEF R!NoBody, R!Answer, R!Response

LEMMA NoGetTyped ==
  ASSUME NoGet
  PROVE  R!TypeOK
<1>1. get \in Get
  BY GetAssumption DEF NoGet
<1>2. answer \in R!Response /\ answer # None
  BY NoBodyTyped DEF NoGet
<1>3. part = [kind |-> "ignored", start |-> 0, len |-> 0]
  BY DEF NoGet, R!NoPart
<1>4. QED
  BY <1>1, <1>2, <1>3 DEF NoGet, R!TypeOK

LEMMA HeadTyped ==
  ASSUME R!TypeOK, R!Head
  PROVE  R!TypeOK'
<1> DEFINE status == R!Decision(current, get, part')
<1>1. stage = "head" /\ get \in Get /\ current \in {None} \cup R!Version
      /\ UNCHANGED <<current, get, overwritten>>
  BY DEF R!TypeOK, R!Head
<1>2. part' \in Parts /\ (part'.kind = "valid" => part'.len > 0)
  <2>1. CASE current = None
    BY <2>1 DEF R!Head, R!TypeOK, Parts
  <2>2. CASE current # None
    <3>1. Size[current.etag] \in Nat /\ get.range \in R!Range
      BY <1>1, <2>2, SizeAssumption, GetTyped DEF R!Version
    <3>2. part' = R!Parsed(get.range, Size[current.etag])
      BY <2>2 DEF R!Head
    <3>3. QED
      BY <3>1, <3>2, ParsedIsWanted
  <2>3. QED
    BY <2>1, <2>2
<1>3. status \in {0, 304, 404, 412, 416}
  BY DEF R!Decision
<1>4. /\ stage' = IF status = 0 THEN "open" ELSE "done"
      /\ answer' = IF status = 0 THEN None ELSE R!NoBody(status)
  BY DEF R!Head
<1> HIDE DEF status
<1>5. /\ stage' \in {"head", "open", "done"} /\ answer' \in {None} \cup R!Response
      /\ stage' = "done" <=> answer' # None
  BY <1>3, <1>4, NoBodyTyped
<1>6. QED
  BY <1>1, <1>2, <1>5 DEF R!TypeOK, Parts

LEMMA OpenTyped ==
  ASSUME R!TypeOK, R!Open
  PROVE  R!TypeOK'
<1>1. /\ part \in Parts /\ get \in Get /\ current \in {None} \cup R!Version
      /\ stage' = "done" /\ UNCHANGED <<current, get, part, overwritten>>
  BY DEF R!TypeOK, R!Open, Parts
<1>2. answer' \in R!Response
  <2>1. CASE current = None
    BY <2>1, NoBodyTyped DEF R!Open
  <2>2. CASE current # None
    <3> DEFINE size == Size[current.etag]
               range == part.start .. part.start + R!ReadLen(size, part) - 1
               sent == IF get.method = "HEAD" THEN {} ELSE range
    <3>1. answer' = IF part.kind = "valid"
                    THEN [status |-> 206, etag |-> current.etag, first |-> part.start, length |-> part.len, body |-> sent]
                    ELSE [status |-> 200, etag |-> current.etag, first |-> 0, length |-> size, body |-> sent]
      BY <2>2 DEF R!Open, R!Answer
    <3>2. current.etag \in Content /\ size \in Nat /\ part.start \in Nat /\ part.len \in Nat
      BY <1>1, <2>2, SizeAssumption DEF R!Version, Parts
    <3>3. sent \in SUBSET Nat
      <4>1. R!ReadLen(size, part) \in Nat
        BY <3>2 DEF R!ReadLen, R!AtMostBy, R!Minus
      <4>2. range \in SUBSET Nat
        BY <3>2, <4>1
      <4>3. QED
        BY <4>2
    <3> HIDE DEF size, sent
    <3>4. QED
      BY <3>1, <3>2, <3>3 DEF R!Response
  <2>3. QED
    BY <2>1, <2>2
<1>3. QED
  BY <1>1, <1>2, NoneAssumption DEF R!TypeOK

LEMMA GetTypes ==
  ASSUME R!TypeOK, R!Next \/ UNCHANGED retrieval
  PROVE  R!TypeOK'
<1>1. CASE R!Overwrite
  BY <1>1 DEF R!Overwrite, R!TypeOK
<1>2. CASE UNCHANGED retrieval
  BY <1>2 DEF retrieval, R!TypeOK
<1>3. QED
  BY <1>1, <1>2, HeadTyped, OpenTyped DEF R!Next

(***************************************************************************)
(* The listings.                                                           *)
(***************************************************************************)
LEMMA Assumed == ListingAssumption
BY KeyAssumption, QueryAssumption, ChangesAssumption DEF ListingAssumption

LEMMA NoListingInv ==
  ASSUME NoListing
  PROVE  ListingInv
<1>1. Cardinality(Key) \in Nat
  BY KeyAssumption, FS_CardinalityType DEF KeysAreStrings
<1>2. ask \in Query /\ received = <<>> /\ received \in Seq({"key", "group"} \X Seq(Nat))
  BY QueryAssumption DEF NoListing
<1>3. pages = 0 /\ pages \in 0 .. Cardinality(Key) + 2 /\ changed \in 0 .. Changes
  BY <1>1, ChangesAssumption DEF NoListing
<1>4. TypeOK
  BY <1>2, <1>3 DEF NoListing, TypeOK
<1>5. Gathered
  <2>1. Len(received) = 0 /\ phase = "done" /\ stable = {}
    BY <1>2 DEF NoListing
  <2>2. QED
    BY <1>3, <2>1 DEF Gathered, Increasing
<1>6. QED
  BY <1>4, <1>5 DEF ListingInv

LEMMA ReadsInvInit == ReadsInit => ListingInv /\ R!TypeOK
<1>1. ASSUME Init, NoGet PROVE ListingInv /\ R!TypeOK
  BY <1>1, Assumed, ListingInit, NoGetTyped
<1>2. ASSUME R!Init, NoListing PROVE ListingInv /\ R!TypeOK
  <2>1. part = [kind |-> "ignored", start |-> 0, len |-> 0]
    BY <1>2 DEF R!Init, R!NoPart
  <2>2. R!TypeOK
    BY <1>2, <2>1 DEF R!Init, R!TypeOK
  <2>3. QED
    BY <1>2, <2>2, NoListingInv
<1>3. QED
  BY <1>1, <1>2 DEF ReadsInit

LEMMA ReadsInvStep ==
  ListingInv /\ R!TypeOK /\ [ReadsNext]_<<vars, retrieval>> => (ListingInv /\ R!TypeOK)'
<1>1. SUFFICES ASSUME ListingInv, R!TypeOK, [ReadsNext]_<<vars, retrieval>>
               PROVE  ListingInv' /\ R!TypeOK'
  OBVIOUS
<1>2. (Next \/ UNCHANGED vars) /\ (R!Next \/ UNCHANGED retrieval)
  BY <1>1 DEF ReadsNext
<1>3. ListingInv'
  BY <1>1, <1>2, Assumed, ListingStep
<1>4. R!TypeOK'
  BY <1>1, <1>2, GetTypes
<1>5. QED
  BY <1>3, <1>4

LEMMA ReadsAlways == ReadsSpec => [](ListingInv /\ R!TypeOK)
BY ReadsInvInit, ReadsInvStep, PTL DEF ReadsSpec

\* The types of both: page positions are strings, pages are counted, every response
\* is a response.
THEOREM ReadsTyped == ReadsSpec => []ReadsTypeOK
<1>1. ListingInv /\ R!TypeOK => ReadsTypeOK
  BY DEF ListingInv, ReadsTypeOK
<1>2. QED
  BY <1>1, ReadsAlways, PTL

LEMMA ListingHolds == ListingInv => StableKeysAreListed /\ ListedInOrder /\ ListingEnds
BY Assumed, ListingProperties

\* Whatever keys come and go, a client that follows the tokens to the end has got every
\* key that it asked for and that was there all the time (list_objects of
\* src/storage.rs and its handlers in src/s3.rs).
THEOREM StableListed == ReadsSpec => []StableKeysAreListed
BY ListingHolds, ReadsAlways, PTL

\* The items of all pages together are in byte order, and none comes twice.
THEOREM InOrder == ReadsSpec => []ListedInOrder
BY ListingHolds, ReadsAlways, PTL

\* A listing takes no more pages than there are keys, and one.
THEOREM ListingComesToAnEnd == ReadsSpec => []ListingEnds
BY ListingHolds, ReadsAlways, PTL
====
