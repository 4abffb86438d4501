----------------------------- MODULE TopicWalk -----------------------------
(***************************************************************************)
(* How a published topic name finds its subscribers (subtree.c): the name  *)
(* is cut into tokens, and insert_pub_message, calling itself for the next *)
(* token, writes filter after filter into one buffer and looks each up.    *)
(*                                                                         *)
(* The buffer is that of iotbroker_subtree_pub, a byte longer than the     *)
(* name.  It is modelled byte by byte because what earlier steps leave in  *)
(* it decides which filters later steps look up.  A write beyond the       *)
(* buffer, or a string in it without an end, has no defined result: the    *)
(* walk stops there with overrun set.                                      *)
(***************************************************************************)
EXTENDS Integers, Sequences, SequencesExt

CONSTANT
  Cases     (* records: names, a set of topic names, which are sequences  *)
            (* of bytes; tables, the sets of topic filters that may have  *)
            (* a subscriber when one of them is published                 *)

Sep == "/"
PlusByte == "+"
HashByte == "#"
NUL == "0"

VARIABLES
  name,     (* the published name                                         *)
  tokens,   (* its tokens                                                 *)
  table,    (* the filters in the hash table                              *)
  buf,      (* topic_buf: its bytes, from 0 on                            *)
  stack,    (* the active calls of insert_pub_message, innermost last     *)
  key,      (* the string looked up last                                  *)
  visited,  (* the filters found, in order: the lists that got a message  *)
  overrun   (* a step has left the buffer                                 *)

vars == <<name, tokens, table, buf, stack, key, visited, overrun>>

-----------------------------------------------------------------------------

(* get_topic_tokens: what lies between separators, empty tokens included.  *)
Tokens(s) ==
  FoldLeft(LAMBDA ts, b : IF b = Sep THEN Append(ts, <<>>)
                          ELSE [ts EXCEPT ![Len(ts)] = Append(@, b)],
           << <<>> >>, s)

(* Names and filters are strings of C, without a zero byte in them.        *)
Text == Seq(STRING \ {NUL})

ASSUME WalkAssumption ==
  \A case \in Cases : /\ \A s \in case.names : s \in Text
                      /\ \A t \in case.tables : t \subseteq Text

Terminated(b) == \E i \in DOMAIN b : b[i] = NUL
StrLen(b) == CHOOSE i \in DOMAIN b : b[i] = NUL /\ \A j \in 0 .. i - 1 : b[j] # NUL
Str(b) == [i \in 1 .. StrLen(b) |-> b[i - 1]]

Fits(b, at, s) == at + Len(s) - 1 <= Len(name)
Write(b, at, s) ==
  [i \in DOMAIN b |-> IF i \in at .. at + Len(s) - 1 THEN s[i - at + 1] ELSE b[i]]
Clear(b, at, n) == [i \in DOMAIN b |-> IF i \in at .. at + n - 1 THEN NUL ELSE b[i]]

(* Mutant: the first call is for the second token.                         *)
CallNext(i, n) == [token |-> i + 1, len |-> n, next |-> "token"]

(* A call: its token, the length of topic_buf when it began, what is next. *)
Call(i, n) == [token |-> i, len |-> n, next |-> "token"]
frame == Last(stack)
token == tokens[frame.token]
Then(step) == [stack EXCEPT ![Len(stack)].next = step]

Init ==
  /\ \E case \in Cases : name \in case.names /\ table \in case.tables
  /\ tokens = Tokens(name)
  /\ buf = [i \in 0 .. Len(name) |-> NUL]
  /\ stack = <<Call(1, 0)>>
  /\ key = <<>>
  /\ visited = <<>>
  /\ overrun = FALSE

Active(step) == stack # <<>> /\ frame.next = step

Overrun ==
  /\ overrun' = TRUE
  /\ stack' = <<>>
  /\ UNCHANGED <<name, tokens, table, buf, key, visited>>

(* insert_message_to_subtree for the string in buffer b.                   *)
LookUp(b) ==
  /\ key' = Str(b)
  /\ visited' = IF Str(b) \in table THEN Append(visited, Str(b)) ELSE visited
  /\ UNCHANGED <<name, tokens, table, overrun>>

(* Mutant: the next token goes over the separator.                         *)
DescendOverSep(b, back) ==
  /\ buf' = b
  /\ stack' = IF frame.token = Len(tokens) THEN Then(back)
              ELSE Append(Then(back), Call(frame.token + 1, frame.len + Len(token)))

(***************************************************************************)
(* The call of insert_pub_message for the next token, when buffer b ends   *)
(* in a separator: it returns at once behind the last token, before it     *)
(* takes the length of the buffer.                                         *)
(***************************************************************************)
Descend(b, back) ==
  /\ buf' = b
  /\ stack' = IF frame.token = Len(tokens) THEN Then(back)
              ELSE Append(Then(back), Call(frame.token + 1, StrLen(b)))

CanDescend(b) == frame.token = Len(tokens) \/ Terminated(b)

(* 1. find current token                                                   *)
FindToken ==
  /\ Active("token")
  /\ LET b == Write(buf, frame.len, token)
         c == Write(b, frame.len + Len(token), <<Sep>>)
     IN  \/ ~ (Fits(buf, frame.len, token) /\ Terminated(b)) /\ Overrun
         \/ /\ Fits(buf, frame.len, token) /\ Terminated(b)
            /\ \/ Str(b) \notin table /\ LookUp(b) /\ buf' = b /\ stack' = Then("clear")
               \/ Str(b) \in table /\ CanDescend(c) /\ LookUp(b) /\ Descend(c, "clear")
               \/ Str(b) \in table /\ ~ CanDescend(c) /\ Overrun

(* Mutant: the front of the buffer is cleared.                             *)
ClearFront ==
  /\ Active("clear")
  /\ buf' = Clear(buf, 0, Len(token))
  /\ stack' = Then("plus")
  /\ UNCHANGED <<name, tokens, table, key, visited, overrun>>

(* The token is cleared, a separator behind it stays.                      *)
ClearToken ==
  /\ Active("clear")
  /\ buf' = Clear(buf, frame.len, Len(token))
  /\ stack' = Then("plus")
  /\ UNCHANGED <<name, tokens, table, key, visited, overrun>>

(* 2. find +                                                               *)
FindPlus ==
  /\ Active("plus")
  /\ LET b == Write(buf, frame.len, <<PlusByte>>)
         c == Write(b, frame.len + 1, <<Sep>>)
     IN  \/ ~ (Fits(buf, frame.len, <<PlusByte>>) /\ Terminated(b)) /\ Overrun
         \/ /\ Fits(buf, frame.len, <<PlusByte>>) /\ Terminated(b)
            /\ \/ Str(b) \notin table /\ LookUp(b) /\ buf' = b /\ stack' = Then("hash")
               \/ Str(b) \in table /\ CanDescend(c) /\ LookUp(b) /\ Descend(c, "unplus")
               \/ Str(b) \in table /\ ~ CanDescend(c) /\ Overrun

(* The separator behind + is cleared.                                      *)
ClearPlus ==
  /\ Active("unplus")
  /\ buf' = Clear(buf, frame.len + 1, 1)
  /\ stack' = Then("hash")
  /\ UNCHANGED <<name, tokens, table, key, visited, overrun>>

(* 3. find #, in the place of the +, so inside the buffer, and return      *)
FindHash ==
  /\ Active("hash")
  /\ LET b == Write(buf, frame.len, <<HashByte>>)
     IN  /\ LookUp(b)
         /\ buf' = Clear(b, frame.len, 1)
         /\ stack' = Front(stack)

Next == FindToken \/ ClearToken \/ FindPlus \/ ClearPlus \/ FindHash

(* The walk runs inside one handler: nothing else runs before it ends.     *)
Spec == Init /\ [][Next]_vars

-----------------------------------------------------------------------------
(* Properties                                                              *)

Done == stack = <<>>

TypeOK ==
  /\ DOMAIN buf = 0 .. Len(name)
  /\ \A i \in DOMAIN stack :
       /\ stack[i].token \in DOMAIN tokens
       /\ stack[i].len \in 0 .. Len(name)
       /\ stack[i].next \in {"token", "clear", "plus", "unplus", "hash"}
  /\ \A i \in DOMAIN visited : visited[i] \in table
  /\ overrun \in BOOLEAN

(***************************************************************************)
(* The calls share the buffer, but a call never reaches into what its      *)
(* callers have written: in front of its own part the buffer reads as a    *)
(* filter its caller has found, and a separator.                           *)
(***************************************************************************)
CallersPrefixKept ==
  \A i \in 2 .. Len(stack) :
    LET prefix == [j \in 1 .. stack[i].len |-> buf[j - 1]]
    IN  /\ NUL \notin Range(prefix)
        /\ prefix[Len(prefix)] = Sep
        /\ stack[i].len > stack[i - 1].len

(***************************************************************************)
(* A list is reached only through its ancestors: Gated holds of a filter   *)
(* whose levels fit those of the name as far as they go and whose every    *)
(* proper prefix is in the table.                                          *)
(***************************************************************************)
Joined(ls) == FoldLeft(LAMBDA s, l : s \o <<Sep>> \o l, Head(ls), Tail(ls))

Gated(f) ==
  LET ls == Tokens(f)
      n == Len(ls)
  IN  /\ n <= Len(tokens)
      /\ \A i \in 1 .. n : \/ ls[i] \in {tokens[i], <<PlusByte>>}
                           \/ ls[i] = <<HashByte>> /\ i = n
      /\ \A i \in 1 .. n - 1 : Joined(SubSeq(ls, 1, i)) \in table

(* The filters with + for some levels, as far as one that is the name's.   *)
Variants(ts) ==
  {[i \in 1 .. Max(R) |-> IF i \in R THEN ts[i] ELSE <<PlusByte>>] :
     R \in (SUBSET DOMAIN ts) \ {{}}}

(* No separator is left right behind a filter, or a byte further: the      *)
(* levels are not too short, and the lengths of variants not too close.    *)
Regular(s) ==
  LET ts == Tokens(s)
  IN  /\ \A i \in DOMAIN ts : Len(ts[i]) >= IF i < Len(ts) THEN 3 ELSE 2
      /\ \A f, g \in Variants(ts) :
           f # g => Len(Joined(f)) - Len(Joined(g)) \notin -1 .. 1

(***************************************************************************)
(* For regular names the walk stays in the buffer and finds exactly the    *)
(* gated filters, each of them once.  For names of one level these are the *)
(* name, + and #, in this order: the operator Visited of the module        *)
(* Subtree.                                                                *)
(***************************************************************************)
FindsGated ==
  (Done /\ Regular(name)) =>
    /\ ~ overrun
    /\ Range(visited) = {f \in table : Gated(f)}
    /\ IsInjective(visited)
    /\ Len(tokens) = 1 =>
         \A i, j \in DOMAIN visited :
           i < j => visited[j] # name /\ visited[i] # <<HashByte>>

(***************************************************************************)
(* Among subscribers without wildcards, a publication reaches those of its *)
(* leading levels one after the other, up to the first that has none, when *)
(* its last level has two bytes or more.                                   *)
(***************************************************************************)
Literal(f) == \A i \in DOMAIN f : f[i] \notin {PlusByte, HashByte}

LiteralChain ==
  (Done /\ (\A f \in table : Literal(f)) /\ Len(Last(tokens)) >= 2) =>
    LET ts == tokens
        prefix(i) == Joined(SubSeq(ts, 1, i))
    IN  /\ ~ overrun
        /\ \A i \in DOMAIN visited : visited[i] = prefix(i)
        /\ Len(visited) < Len(ts) => prefix(Len(visited) + 1) \notin table

-----------------------------------------------------------------------------
(* What the comments say and the code does not do                          *)

(* subtree.c:217 "1 for '+' or '#'": the buffer has room for the wildcard. *)
NoOverrun == ~ overrun

(***************************************************************************)
(* README.md:3 names MQTT 3.1.1, by which a filter without wildcards       *)
(* matches the name equal to it and no other: among such filters, a        *)
(* publication reaches the one of its own name, if there is one.           *)
(***************************************************************************)
FindsEqual ==
  (Done /\ \A f \in table : Literal(f)) => Range(visited) = table \cap {name}

=============================================================================
