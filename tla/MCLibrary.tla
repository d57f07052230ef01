------------------------------ MODULE MCLibrary ------------------------------
(* Calls of table.sort and of the pattern functions, accesses to tables with
   metatables, the table of strings and the buffers of C functions, each in the
   states that a script can bring about. *)
EXTENDS Sort, StringFunctions, Metatables, StringTable, Buffers

CONSTANTS T1, T2,        \* two tables
          Ranks,         \* the values to sort, by the order among them
          MaxArbitrary   \* bound: the lengths for functions that are no order

VARIABLES
  pattern,   \* the items of the pattern
  news,      \* those of the replacement
  work       \* which of the five parts is at work

inputs == <<pattern, news, work>>

Ascii == <<"NUL", "!", "$", "%", "(", ")", "*", "+", "-", ".", "0", "1", "2", "?",
           "A", "D", "S", "W", "Z", "[", "]", "^", "a", "b", "d", "f", "s", "w", "z">>
M == INSTANCE PatternMeaning WITH Characters <- ToSet(Collation)

TwoTables == {T1, T2}
Hashes == [x \in Texts |-> CASE x = "and" -> 0 [] x = "x" -> 2 [] x = "y" -> 4 [] x = "z" -> 7 [] x = "k" -> 11 [] x = "v" -> 6]
Contents(tab, k) ==
  CASE k = "__index"    -> {"nil", "s", T2}
    [] k = "__newindex" -> {"nil", "f", T1}
    [] k = "__eq"       -> {"nil", "f", "g"}
    [] OTHER            -> IF tab = T1 THEN {"nil", "v"} ELSE {"nil"}

------------------------------------------------------------------------------
(* Patterns *)

All == ToSet(Collation)
Class(text, set) == [text |-> text, set |-> set]
One(c, often) == <<"one", c, often>>
Often == {<<>>, <<"?">>, <<"*">>, <<"+">>, <<"-">>}
ClassA == Class(<<"a">>, {"a"})
ClassB == Class(<<"b">>, {"b"})
AnyChar == Class(<<".">>, All)

Classes ==
  {Class(<<"%", "a">>, Lower \cup Upper), Class(<<"%", "D">>, All \ Digits),
   Class(<<"%", "%">>, {"%"}), Class(<<"*">>, {"*"}), Class(<<"%", "]">>, {"]"}),
   Class(<<"[", "a", "-", "b", "]">>, {"a", "b"}), Class(<<"[", "^", "a", "]">>, All \ {"a"}),
   Class(<<"[", "]", "a", "]">>, {"]", "a"}), Class(<<"[", "^", "]", "]">>, All \ {"]"}),
   Class(<<"[", "%", "]", "b", "]">>, {"]", "b"}), Class(<<"[", "a", "-", "]">>, {"a", "-"}),
   Class(<<"[", "%", "d", "-", "]">>, Digits \cup {"-"}), Class(<<"[", "a", "^", "]">>, {"a", "^"})}

Firsts ==
  {One(c, q) : c \in {ClassA, AnyChar}, q \in Often} \cup {One(ClassB, <<>>), One(ClassB, <<"-">>)}
  \cup {<<"open">>, <<"place">>, <<"close">>, <<"back", 1>>, <<"balanced", "a", "b">>,
        <<"frontier", Class(<<"[", "a", "]">>, {"a"})>>}

Lasts ==
  {<<"end">>, <<"bad", <<"%">>, "ends with %">>, <<"bad", <<"[", "^", "]">>, "missing ]">>,
   <<"bad", <<"%", "b", "a">>, "unbalanced pattern">>, <<"bad", <<"%", "f", "a">>, "missing [ after %f">>,
   <<"back", 0>>, <<"back", 2>>, <<"balanced", "a", "a">>,
   <<"frontier", Class(<<"[", "^", "a", "]">>, All \ {"a"})>>}
  \cup {One(c, q) : c \in Classes, q \in {<<>>, <<"*">>}}

(* The text of the items is read as these items. *)
Clear(items) ==
  \A k \in 1..Len(items) - 1 :
    /\ ~(items[k][1] = "open" /\ items[k + 1][1] = "close")
    /\ ~(items[k][1] = "one" /\ items[k][3] = <<>> /\ Head(M!Text(items[k + 1])) = "*")

Singles == {<<x>> : x \in Firsts \cup Lasts}
Pairs == {p \in Firsts \X Firsts : Clear(p)}
Short == Singles \cup {p \in Firsts \X (Firsts \cup Lasts) : Clear(p)}
Long == {p \in Firsts \X Firsts \X Firsts : Clear(p)}

Subjects == {<<>>, <<"a">>, <<"a", "b">>, <<"b", "a", "a", "b">>, <<"a", "a", "b", "b">>, <<"a", "1", "]", "-">>}
Few == {<<>>, <<"a", "b">>, <<"b", "a", "a">>}

(* Replacements: characters, captures, and both *)
Templates ==
  {<<>>, <<<<"char", "!">>>>, <<<<"capture", 0>>, <<"capture", 1>>>>, <<<<"escape", "%">>, <<"capture", 2>>>>}
TemplateText(tm) ==
  FlattenSeq([k \in DOMAIN tm |-> CASE tm[k][1] = "char"   -> <<tm[k][2]>>
                                    [] tm[k][1] = "escape" -> <<"%", tm[k][2]>>
                                    [] OTHER -> <<"%", <<"0", "1", "2">>[tm[k][2] + 1]>>])

Prefixed(items, anchor) == (IF anchor THEN <<"^">> ELSE <<>>) \o M!PatternText(items)

Asks(fn, s, items, anchor) ==
  [fn |-> fn, src |-> s, pat |-> Prefixed(items, anchor), init |-> 1, plain |-> FALSE,
   max |-> Len(s) + 1, repl |-> <<"none">>]

Requests(items, template, request) == pattern = items /\ news = template /\ call = request

Searches ==
  \/ \E items \in Short, s \in Subjects, anchor \in BOOLEAN :
       Requests(items, <<>>, Asks("find", s, items, anchor))
  \/ \E items \in Long, s \in {<<"b", "a", "a", "b">>, <<"a", "a", "b">>} :
       Requests(items, <<>>, Asks("find", s, items, FALSE))
  \/ \E items \in Singles, s \in Few, init \in {-5, -1, 0, 2, 5}, fn \in {"find", "match"}, plain \in BOOLEAN :
       Requests(items, <<>>, [Asks(fn, s, items, FALSE) EXCEPT !.init = init, !.plain = plain])
  \/ \E items \in Short, s \in Few :
       Requests(items, <<>>, Asks("gmatch", s, items, FALSE))
  \/ \E items \in Singles \cup Pairs, s \in Few, max \in {0, 1, 4}, anchor \in BOOLEAN, tm \in Templates :
       /\ anchor => max = 4
       /\ Requests(items, tm, [Asks("gsub", s, items, anchor) EXCEPT !.repl = <<"string", TemplateText(tm)>>, !.max = max])
  \/ \E items \in Singles \cup Pairs, s \in Few, kind \in {"function", "table"} :
       Requests(items, <<>>, [Asks("gsub", s, items, FALSE) EXCEPT !.repl = <<kind>>])

------------------------------------------------------------------------------
(* The five parts: one of them works, the others rest. *)

NoCall == [fn |-> "none", src |-> <<>>]
StringsRest == /\ call = NoCall /\ src = 1 /\ tried = <<>> /\ b = <<>> /\ outcome = "done"
               /\ pattern = <<>> /\ news = <<>>
SortRests == n = 0 /\ t = [k \in 0..1 |-> k] /\ stack = <<>> /\ calls = <<>> /\ i = 0 /\ j = 0
             /\ asks = "none" /\ result = "sorted" /\ order = <<>>

(* Values whose parts are as uneven as they can be, turn after turn *)
Uneven == <<1, 4, 10, 3, 9, 8, 6, 5, 7, 2>>

Rankings(len) ==
  IF len = Len(Uneven) THEN {<<Uneven>>}
  ELSE {<<r>> : r \in [1..len -> Ranks]} \cup (IF len <= MaxArbitrary THEN {<<>>} ELSE {})

Init ==
  \/ /\ work = "strings" /\ Searches
     /\ src = FirstPlace(call) /\ tried = <<>> /\ b = <<>> /\ outcome = "busy"
     /\ SortRests /\ luaH_new /\ f_luaopen /\ luaL_buffinit
  \/ /\ work = "sort" /\ sort
     /\ StringsRest /\ luaH_new /\ f_luaopen /\ luaL_buffinit
  \/ /\ work \in {"tables", "texts", "buffer"}
     /\ SortRests /\ StringsRest /\ luaH_new /\ f_luaopen /\ luaL_buffinit

Sorts == work = "sort" /\ SortNext /\ UNCHANGED <<strvars, metavars, stringvars, buffervars, inputs>>

Scans ==
  /\ work = "strings" /\ outcome = "busy"
  /\ \/ PlainFind \/ str_find_aux \/ gmatch_aux
     \/ \E answer \in {"nothing", "table", "!"} : str_gsub(answer)
  /\ UNCHANGED <<sortvars, metavars, stringvars, buffervars, inputs>>

Accesses ==
  /\ work = "tables"
  /\ MetaNext
  /\ UNCHANGED <<sortvars, strvars, stringvars, buffervars, inputs>>

Interns ==
  /\ work = "texts"
  /\ StringNext
  /\ UNCHANGED <<sortvars, strvars, metavars, buffervars, inputs>>

Collects ==
  /\ work = "buffer"
  /\ BufferNext
  /\ UNCHANGED <<sortvars, strvars, metavars, stringvars, inputs>>

Next == Sorts \/ Scans \/ Accesses \/ Interns \/ Collects
Spec == Init /\ [][Next]_<<sortvars, strvars, metavars, stringvars, buffervars, inputs>>

------------------------------------------------------------------------------
(* Patterns *)

Means(k) == M!First(pattern, Subject, tried[k].at)
Matched(k) == tried[k].ms.res # 0

AttemptsRight ==
  \A k \in DOMAIN tried :
    LET r == Means(k) IN
      /\ tried[k].ms.err = r.err /\ tried[k].ms.res = r.end
      /\ r.end # 0 => tried[k].ms.capture = r.caps

Inside(k, place) == Matched(k) /\ tried[k].at < place /\ place < tried[k].ms.res
Start ==
  CASE call.init > 0 -> Min({call.init, SrcLen + 1})
    [] call.init = 0 -> 1
    [] call.init < 0 -> Max({SrcLen + 1 + call.init, 1})

NoneSkipped ==
  tried # <<>> =>
    /\ \A k \in 1..Len(tried) - 1 : tried[k].at < tried[k + 1].at
    /\ \A place \in Start..Last(tried).at :
         (\E k \in DOMAIN tried : tried[k].at = place) # (\E k \in DOMAIN tried : Inside(k, place))
    /\ Anchored => Len(tried) = 1

Exhausted == Anchored \/ Last(tried).at = SrcLen + 1
Open(k) == M!Open(tried[k].ms.capture) # {}

(* The text that takes the place of a match, and what is wrong with it *)
PartOf(k, part) ==
  LET caps == tried[k].ms.capture
      whole == SubSeq(Subject, tried[k].at, tried[k].ms.res - 1)
  IN CASE part[1] \in {"char", "escape"} -> <<part[2]>>
       [] part[2] = 0 \/ caps = <<>> -> whole
       [] caps[part[2]].len = -2 -> <<ToString(caps[part[2]].init)>>
       [] OTHER -> M!Captured(Subject, caps[part[2]])

Unnamed(k, part) ==
  LET caps == tried[k].ms.capture IN
    /\ part[1] = "capture" /\ part[2] # 0 /\ ~(part[2] = 1 /\ caps = <<>>)
    /\ part[2] \notin DOMAIN caps \ M!Open(caps)

Refuses(k) ==
  CASE call.repl[1] = "string"   -> \E x \in DOMAIN news : Unnamed(k, news[x])
    [] call.repl[1] = "function" -> Open(k) \/ tried[k].answer = "table"
    [] call.repl[1] = "table"    -> 1 \in M!Open(tried[k].ms.capture) \/ tried[k].answer = "table"
    [] OTHER                     -> Open(k)

Replaced(k) ==
  IF call.repl[1] = "string" THEN FlattenSeq([x \in DOMAIN news |-> PartOf(k, news[x])])
  ELSE IF tried[k].answer = "nothing" THEN SubSeq(Subject, tried[k].at, tried[k].ms.res - 1)
  ELSE <<tried[k].answer>>

Covered(place) == \E k \in DOMAIN tried : Matched(k) /\ tried[k].at <= place /\ place < tried[k].ms.res
Substituted ==
  FlattenSeq([place \in 1..SrcLen + 1 |->
    FlattenSeq([k \in DOMAIN tried |-> IF Matched(k) /\ tried[k].at = place THEN Replaced(k) ELSE <<>>])
    \o IF place > SrcLen \/ Covered(place) THEN <<>> ELSE <<Subject[place]>>])

Faulty(k) == tried[k].ms.err # "none" \/ (Matched(k) /\ Refuses(k))
Hits == {k \in DOMAIN tried : Matched(k)}

(* A plain search: the first place where the text is *)
PlainAt(k) == SubSeq(Subject, k, k + Len(call.pat) - 1) = call.pat
PlainPlaces == {k \in Start..SrcLen + 1 - Len(call.pat) : PlainAt(k)}

OutcomeRight ==
  LET last == Len(tried) IN
  CASE outcome = "busy"  -> \A k \in DOMAIN tried : ~Faulty(k) /\ (Matched(k) => call.fn \in {"gmatch", "gsub"})
    [] outcome = "error" -> Faulty(last) /\ \A k \in 1..last - 1 : ~Faulty(k)
    [] Plain             -> IF PlainPlaces = {} THEN outcome = "nil"
                            ELSE outcome = "found" /\ src = Min(PlainPlaces)
    [] outcome = "found" -> Hits = {last} /\ ~Faulty(last)
    [] outcome = "nil"   -> (call.fn = "gmatch" \/ Hits = {}) /\ Exhausted /\ ~Faulty(last)
    [] outcome = "done"  -> /\ b = Substituted /\ Cardinality(Hits) <= call.max
                            /\ Cardinality(Hits) = call.max \/ Exhausted

(* Every attempt has the preferred outcome that the pattern has at that place, with
   its captures; every place is tried or lies inside a match, and none is tried
   twice; and a call gives what the attempts say: the first match, all of them in
   turn, or the subject with the matches replaced. *)
MatchesAsDefined == work = "strings" => AttemptsRight /\ NoneSkipped /\ OutcomeRight

==============================================================================
