---- MODULE MCReads ----
EXTENDS Reads

CONSTANTS empty, one, three

\* With 2 for the delimiter: a key that is another's group, keys in a group, keys
\* after it, and a key that begins with the delimiter.
SomeKeys == {<<1>>, <<1, 2>>, <<1, 2, 3>>, <<1, 3>>, <<2, 1>>}
SomeQueries == [api : {"v1", "v2"}, prefix : {<<>>, <<1>>}, delimiter : {<<>>, <<2>>},
                after : {<<>>, <<1, 2>>, <<1, 2, 1>>}, max : 0 .. 2]

SizeOf == [c \in {empty, one, three} |-> CASE c = empty -> 0 [] c = one -> 1 [] c = three -> 3]

Lists == {None, {one}, {one, "*"}}
Ranges == {None} \cup [kind : {"one"}, first : {None, Bad} \cup 0 .. 5, last : {None, Bad} \cup 0 .. 5]
          \cup [kind : {"other"}, first : {None}, last : {None}]
SomeGets ==
  [method : {"GET"}, match : Lists, noneMatch : Lists, since : {None, 1}, until : {None, 1},
   range : {None} \cup [kind : {"one"}, first : {1}, last : {2}]]
  \cup [method : {"GET", "HEAD"}, match : {None}, noneMatch : {None}, since : {None}, until : {None},
        range : Ranges]
====
