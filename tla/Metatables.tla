------------------------------ MODULE Metatables ------------------------------
(* Access to tables through their metatables (lvm.c, ltm.c, lbaselib.c).  Each
   table has a set of flags: the events it is known to have no handler for, so
   that no access looks for one in vain.  Tables are values of each other's
   fields, of their own too; strings share the metatable of their type. *)
EXTENDS Naturals

CONSTANTS
  Tables,              \* the tables
  StringMeta,          \* the one that is the metatable of strings
  Values(_, _),        \* what the script stores under a key of a table
  MaxTagLoop           \* MAXTAGLOOP: how many handlers in a row are followed

VARIABLE heap          \* the fields, the metatable and the flags of each table

metavars == <<heap>>

Cached == {"__index", "__newindex", "__eq"}
Keys == Cached \cup {"__metatable"}
Handlers == {"f", "g"}

ASSUME MetatableAssumption ==
  /\ StringMeta \in Tables /\ MaxTagLoop \in Nat
  /\ Tables \cap ({"nil", "s"} \cup Handlers) = {}

------------------------------------------------------------------------------
(* ltm.c, and the macro fasttm of ltm.h *)

Found(h, tm) == [h |-> h, tm |-> tm]

luaT_gettm(h, events, e) ==
  IF h.field[events][e] = "nil" THEN Found([h EXCEPT !.flags[events] = @ \cup {e}], "nil")
  ELSE Found(h, h.field[events][e])

fasttm(h, et, e) ==
  IF et = "nil" THEN Found(h, "nil")
  ELSE IF e \in h.flags[et] THEN Found(h, "nil") ELSE luaT_gettm(h, et, e)

luaT_gettmbyobj(h, v, e) ==
  CASE v \in Tables -> IF h.meta[v] = "nil" THEN "nil" ELSE h.field[h.meta[v]][e]
    [] v = "s"      -> h.field[StringMeta][e]
    [] OTHER        -> "nil"

------------------------------------------------------------------------------
(* lvm.c: one turn of an access ends at the field, calls the handler, or fails; or
   the handler found is what the next turn looks into, and how it ends is "loop" if
   there are no more turns. *)

Settles(h, how, on) == [h |-> h, how |-> how, on |-> on]

Turns(Turn(_, _), h, t) ==
  LET turn[x \in 0..MaxTagLoop] ==
        IF x = 0 THEN Settles(h, "loop", t)
        ELSE LET p == turn[x - 1] IN IF p.how = "loop" THEN Turn(p.h, p.on) ELSE p
  IN turn[MaxTagLoop]

luaH_set(h, t) == [h EXCEPT !.flags[t] = {}]

Handles(h, t, e) == IF t \in Tables THEN fasttm(h, h.meta[t], e) ELSE Found(h, luaT_gettmbyobj(h, t, e))
Goes(m, t) == IF m.tm \in Handlers THEN Settles(m.h, m.tm, t) ELSE Settles(m.h, "loop", m.tm)

gettable(h, t, k) ==
  LET m == Handles(h, t, "__index")
  IN IF t \in Tables /\ h.field[t][k] # "nil" THEN Settles(h, "field", t)
     ELSE IF m.tm # "nil" THEN Goes(m, t)
     ELSE IF t \in Tables THEN Settles(m.h, "field", t) ELSE Settles(m.h, "error", t)

(* Variant: the search for __newindex may have left its flag. *)
Stored_KeepsFlags(h, t, k, v) == [h EXCEPT !.field[t][k] = v]

Stored(h, t, k, v) == [h EXCEPT !.field[t][k] = v, !.flags[t] = {}]

settable(h, t, k, v) ==
  LET s == IF t \in Tables THEN luaH_set(h, t) ELSE h
      m == Handles(s, t, "__newindex")
  IN IF t \in Tables /\ h.field[t][k] # "nil" THEN Settles(Stored(s, t, k, v), "field", t)
     ELSE IF m.tm # "nil" THEN Goes(m, t)
     ELSE IF t \in Tables THEN Settles(Stored(m.h, t, k, v), "field", t) ELSE Settles(m.h, "error", t)

luaV_gettable(h, t, k) == Turns(LAMBDA g, on : gettable(g, on, k), h, t)
luaV_settable(h, t, k, v) == Turns(LAMBDA g, on : settable(g, on, k, v), h, t)

(* Two tables are compared by a handler that both metatables have. *)
get_compTM(h, mt1, mt2) ==
  LET a == fasttm(h, mt1, "__eq")
      b == fasttm(a.h, mt2, "__eq")
  IN IF a.tm = "nil" \/ mt1 = mt2 THEN a
     ELSE IF b.tm = a.tm THEN b ELSE Found(b.h, "nil")

------------------------------------------------------------------------------
(* What a script does *)

Get(t, k) == heap' = luaV_gettable(heap, t, k).h
Set(t, k, v) == heap' = luaV_settable(heap, t, k, v).h

RawSet(t, k, v) == heap' = [luaH_set(heap, t) EXCEPT !.field[t][k] = v]

luaL_getmetafield(t, e) ==
  IF heap.meta[t] = "nil" THEN "nil" ELSE heap.field[heap.meta[t]][e]

(* A metatable with a field __metatable cannot be taken away. *)
setmetatable(t, mt) ==
  /\ luaL_getmetafield(t, "__metatable") = "nil"
  /\ heap' = [heap EXCEPT !.meta[t] = mt]

Equal(x, y) ==
  /\ x # y
  /\ heap' = get_compTM(heap, heap.meta[x], heap.meta[y]).h

luaH_new ==
  heap = [field |-> [x \in Tables |-> [k \in Keys |-> "nil"]],
          meta |-> [x \in Tables |-> "nil"], flags |-> [x \in Tables |-> Cached]]

MetaNext ==
  \/ \E x \in Tables, k \in Keys : Get(x, k) \/ \E v \in Values(x, k) : RawSet(x, k, v)
  \/ \E x \in Tables, k \in Cached : \E v \in Values(x, k) : Set(x, k, v)
  \/ \E x \in Tables, mt \in Tables \cup {"nil"} : setmetatable(x, mt)
  \/ \E x, y \in Tables : Equal(x, y)

MetaSpec == luaH_new /\ [][MetaNext]_metavars

------------------------------------------------------------------------------
(* Where an access leads if every field is looked up every time *)

Handler(h, v, e) ==
  CASE v \in Tables -> IF h.meta[v] = "nil" THEN "nil" ELSE h.field[h.meta[v]][e]
    [] v = "s"      -> h.field[StringMeta][e]
    [] OTHER        -> "nil"

Leads(h, v, k, e) ==
  LET tm == Handler(h, v, e) IN
  IF v \in Tables /\ (h.field[v][k] # "nil" \/ tm = "nil") THEN <<"field", v>>
  ELSE IF tm = "nil" THEN <<"error", v>>
  ELSE IF tm \in Handlers THEN <<tm, v>>
  ELSE <<"loop", tm>>

Way(h, v, k, e) ==
  LET way[x \in 0..MaxTagLoop] ==
        IF x = 0 THEN <<"loop", v>>
        ELSE LET p == way[x - 1] IN IF p[1] = "loop" THEN Leads(h, p[2], k, e) ELSE p
  IN way[MaxTagLoop]

SameWay(r, way) == r.how = way[1] /\ r.on = way[2]

EqualBy(h, x, y) ==
  LET f == Handler(h, x, "__eq") IN IF f = Handler(h, y, "__eq") THEN f ELSE "nil"

(* ltm.c, lvm.c: whatever the flags say, an access in any state that a script can
   bring about ends where it would without them: at the same field, with the same
   handler, or with the same error; and two tables are compared by the handler
   that both of them have. *)
HandlersFound ==
  \A x \in Tables :
    /\ \A k \in Keys :
         /\ SameWay(luaV_gettable(heap, x, k), Way(heap, x, k, "__index"))
         /\ SameWay(luaV_settable(heap, x, k, "v"), Way(heap, x, k, "__newindex"))
    /\ \A y \in Tables \ {x} : get_compTM(heap, heap.meta[x], heap.meta[y]).tm = EqualBy(heap, x, y)

==============================================================================
