---------------------------- MODULE MCTopicWalk ----------------------------
(* The names and tables TopicWalk is checked for.                          *)
EXTENDS TopicWalk

Bytes == {"a", "/", "+", "#"}
Strings(S, n) == UNION {[1 .. k -> S] : k \in 0 .. n}

(* All the names of up to five bytes over a letter and the separator; one  *)
(* or two subscribed filters out of all those of up to two bytes and some  *)
(* of three.                                                               *)
ShortNames == Strings({"a", "/"}, 5)
ShortFilters ==
  Strings(Bytes, 2) \cup {<<"a", "a", "a">>, <<"a", "/", "a">>, <<"a", "/", "+">>, <<"a", "/", "#">>,
                          <<"+", "/", "a">>, <<"+", "/", "+">>, <<"+", "/", "/">>}
ShortTables == {{f, g} : f, g \in ShortFilters}

(* Names with longer levels, and every set of filters of their levels.     *)
A3 == <<"a", "a", "a">>
A4 == <<"a", "a", "a", "a">>
LongNames == {<<"a", "a">>, A3, A3 \o <<"/">> \o A3, A3 \o <<"/">> \o A4}
Heads == {A3, <<"+">>}
LongFilters ==
  Heads \cup {<<"#">>} \cup {h \o <<"/">> \o t : h \in Heads, t \in {A3, <<"+">>, <<"#">>}}
LongTables == SUBSET LongFilters

A5 == A4 \o <<"a">>
A7 == A4 \o A3
Deep == A3 \o <<"/">> \o A5 \o <<"/">> \o A7
DeepFilters == {A3, <<"+">>} \cup {h \o <<"/">> \o t : h \in {A3, <<"+">>}, t \in {A5, <<"+">>}}
DeepTables == 
  {T \cup {f \o <<"/">> \o t : f \in T, t \in {A5, A7, <<"+">>, <<"#">>}} : T \in SUBSET DeepFilters}

WalkCases ==
  {[names |-> ShortNames, tables |-> ShortTables],
   [names |-> LongNames, tables |-> LongTables],
   [names |-> {Deep}, tables |-> DeepTables]}

=============================================================================
