---- MODULE Listing ----
(***************************************************************************)
(* ListObjects and ListObjectsV2: list_objects of src/storage.rs under the *)
(* handlers of src/s3.rs, for a client that follows the tokens from page   *)
(* to page while others write and delete keys.                             *)
(*                                                                         *)
(* A key is the sequence of its bytes.  An item is what a page lists, a    *)
(* key or a common prefix that stands for a group of keys.  all_objects    *)
(* takes no lock and meets each key at a time of its own, in the order of  *)
(* their hashes: a key that is there all the while is met, one that comes  *)
(* or goes meanwhile may be.                                               *)
(***************************************************************************)
EXTENDS Integers, Sequences, FiniteSets

CONSTANTS Key,      \* keys of the bucket, as sequences of bytes
          Query,    \* what clients ask: api, prefix, delimiter, after, max
          Changes   \* bound: writes and deletions during one listing

\* What the constants have to be; assumed where this module is composed.
KeysAreStrings == Key \subseteq Seq(Nat) /\ <<>> \notin Key /\ IsFiniteSet(Key)
QueriesAreWellFormed == Query \subseteq [api : {"v1", "v2"}, prefix : Seq(Nat), delimiter : Seq(Nat),
                                          after : Seq(Nat), max : Nat]

(***************************************************************************)
(* Strings: byte order, starts_with, ends_with, find.                      *)
(***************************************************************************)
StartsWith(s, p) == Len(p) <= Len(s) /\ SubSeq(s, 1, Len(p)) = p
EndsWith(s, p) == Len(p) <= Len(s) /\ SubSeq(s, Len(s) - Len(p) + 1, Len(s)) = p

Less(s, t) == \/ StartsWith(t, s) /\ s # t
              \/ \E i \in 1 .. Len(s) : /\ i <= Len(t) /\ s[i] < t[i]
                                        /\ SubSeq(s, 1, i - 1) = SubSeq(t, 1, i - 1)
AtMost(s, t) == s = t \/ Less(s, t)

\* The ends of the delimiter's occurrences in a key, after the prefix.
Ends(key, q) == {j \in Len(q.prefix) + Len(q.delimiter) .. Len(key) :
                   SubSeq(key, j - Len(q.delimiter) + 1, j) = q.delimiter}
Grouped(key, q) == q.delimiter # <<>> /\ Ends(key, q) # {}
Group(key, q) == SubSeq(key, 1, CHOOSE j \in Ends(key, q) : \A i \in Ends(key, q) : j <= i)

Item(key, q) == IF Grouped(key, q) THEN <<"group", Group(key, q)>> ELSE <<"key", key>>

(***************************************************************************)
(* One page: the loop of list_objects over the keys in byte order.         *)
(***************************************************************************)
Sorted(keys) == [i \in 1 .. Cardinality(keys) |->
                   CHOOSE k \in keys : Cardinality({j \in keys : Less(j, k)}) = i - 1]

\* Mutant: only the groups of the page itself are known.
KnownHere(items, key, q, after) ==
  Grouped(key, q) /\ \E i \in 1 .. Len(items) : items[i] = Item(key, q)

\* A group that the page has, or that the token says an earlier page had.
Known(items, key, q, after) ==
  /\ Grouped(key, q)
  /\ \/ \E i \in 1 .. Len(items) : items[i] = Item(key, q)
     \/ /\ after # <<>> /\ AtMost(Group(key, q), after)
        /\ StartsWith(after, q.prefix) /\ EndsWith(after, q.delimiter)

\* Mutant: the whole group that the start position lies in is skipped.
SkippedGroup(key, q, after) ==
  \/ ~StartsWith(key, q.prefix)
  \/ after # <<>> /\ (AtMost(key, after) \/ (Grouped(key, q) /\ AtMost(Group(key, q), after)))

Skipped(key, q, after) == ~StartsWith(key, q.prefix) \/ (after # <<>> /\ AtMost(key, after))

Take(page, key, q, after) ==
  IF page.truncated \/ Skipped(key, q, after) \/ Known(page.items, key, q, after) THEN page
  ELSE IF Len(page.items) >= q.max THEN [page EXCEPT !.truncated = TRUE]
  ELSE [page EXCEPT !.items = Append(@, Item(key, q))]

Page(keys, q, after) ==
  LET all == Sorted(keys)
      scan[i \in 0 .. Len(all)] == IF i = 0 THEN [items |-> <<>>, truncated |-> FALSE]
                                   ELSE Take(scan[i - 1], all[i], q, after)
  IN scan[Len(all)]

\* Mutant: only keys make a token.
NextTokenOfKey(items) ==
  LET keys == SelectSeq(items, LAMBDA i : i[1] = "key")
  IN IF keys = <<>> THEN <<>> ELSE keys[Len(keys)][2]

\* The token of a truncated page: its last item, if it has one.
NextToken(items) == IF items = <<>> THEN <<>> ELSE items[Len(items)][2]

----
VARIABLES present,  \* keys whose meta.json is in place
          ask,      \* what the client asks for
          phase,    \* "walking" (a page is being collected) or "done"
          after,    \* the position the page starts after
          always,   \* keys present ever since the page was asked for
          ever,     \* keys present at some time since then
          received, \* items of all pages so far, in the order of the loop
          stable,   \* history: keys present ever since the listing began
          changed,  \* writes and deletions since then
          pages     \* history: pages so far, up to one more than there should be

vars == <<present, ask, phase, after, always, ever, received, stable, changed, pages>>

Init == /\ present \in SUBSET Key
        /\ ask \in Query
        /\ phase = "walking"
        /\ after = ask.after
        /\ always = present
        /\ ever = present
        /\ received = <<>>
        /\ stable = present
        /\ changed = 0
        /\ pages = 0

Change(keys) == /\ phase # "done" /\ changed < Changes
                /\ present' = keys
                /\ always' = always \cap keys
                /\ ever' = ever \cup keys
                /\ stable' = stable \cap keys
                /\ changed' = changed + 1
                /\ UNCHANGED <<ask, phase, after, received, pages>>

Put(k) == k \notin present /\ Change(present \cup {k})
Delete(k) == k \in present /\ Change(present \ {k})

\* Without a token to follow, a client of the first API goes on after the last
\* key it has got, and gives up if it got none.
Answer == /\ phase = "walking"
          /\ \E some \in SUBSET (ever \ always) :
             \E page \in {Page(always \cup some, ask, after)} :
               LET more == page.truncated /\ (ask.api = "v2" \/ page.items # <<>>) IN
               /\ received' = received \o page.items
               /\ after' = IF more THEN NextToken(page.items) ELSE after
               /\ phase' = IF more THEN "walking" ELSE "done"
          /\ always' = present /\ ever' = present
          /\ pages' = IF pages > Cardinality(Key) + 1 THEN pages ELSE pages + 1
          /\ UNCHANGED <<present, ask, stable, changed>>

Next == Answer \/ \E k \in Key : Put(k) \/ Delete(k)
Spec == Init /\ [][Next]_vars

----
\* The types of the variables.
TypeOK == /\ ask \in Query
          /\ phase \in {"walking", "done"}
          /\ after \in Seq(Nat)
          /\ stable \subseteq always /\ always \subseteq present /\ present \subseteq ever
          /\ ever \subseteq Key
          /\ received \in Seq({"key", "group"} \X Seq(Nat))
          /\ changed \in 0 .. Changes
          /\ pages \in 0 .. Cardinality(Key) + 2

\* A client that has followed the tokens to the end has got every key that it asked
\* for and that was there all the time, by itself or by its common prefix.
StableKeysAreListed ==
  phase = "done" /\ ask.max > 0 =>
    \A k \in stable : /\ StartsWith(k, ask.prefix)
                      /\ Less(ask.after, k)
                      /\ ~(Grouped(k, ask) /\ AtMost(Group(k, ask), ask.after) /\ EndsWith(ask.after, ask.delimiter))
                      => \E i \in 1 .. Len(received) : received[i] = Item(k, ask)

\* Whatever is written and deleted meanwhile, the items come in byte order and
\* none comes twice, over all pages.
ListedInOrder ==
  ask.max > 0 =>
    \A i \in 1 .. Len(received) - 1 : Less(received[i][2], received[i + 1][2])

\* A listing ends: it takes no more pages than there are keys, and one to say so,
\* if pages may hold anything at all and although keys come and go.
ListingEnds == ask.max > 0 => pages <= Cardinality(Key) + 1
====
