------------------------------ MODULE MCLuaGC ------------------------------
(* LuaGC on small heaps.  The kinds of the addresses and the actions of the  *)
(* mutator choose which part of the runtime meets the collector in a run;    *)
(* the collector is always whole.                                            *)
EXTENDS LuaGC, TLC

CONSTANTS mt, g, a, b, c, d,
          MaxRefs    \* bound: references in the heap that the mutator makes

Refs == Cardinality({p \in Objs \X Objs : p[2] \in ptr[p[1]]})
        + Cardinality(UNION {entry[o] : o \in Objs})

(* Tables, C functions and strings: the two barriers, interning, and full
   collections. *)
TableKinds == mt :> "thread" @@ g :> "table" @@ a :> "table" @@ b :> "closure"
                @@ c :> "string"

TableMutator ==
  /\ \/ BeginFullGC
     \/ \E o \in Objs : New(o) \/ InternString(o) \/ Load(o) \/ Pop(o)
     \/ \E o \in Local : \/ \E x \in Operands : SetTable(o, x) \/ SetField(o, x)
                         \/ \E x \in ptr[o] : Clear(o, x)
  /\ Refs' <= MaxRefs

TableSpec == Init /\ [][Collector \/ TableMutator]_vars /\ Fairness

(* Coroutines and captured variables. *)
UpvalKinds == mt :> "thread" @@ g :> "table" @@ a :> "closure" @@ b :> "upval"
                @@ c :> "thread" @@ d :> "table"

UpvalMutator ==
  /\ \/ \E o \in Objs : New(o) \/ Load(o) \/ Pop(o)
     \/ \E u \in Upvals :
          \/ CloseUpval(u)
          \/ \E o \in Values : \/ CaptureAgain(o, u)
                               \/ \E x \in ptr[running] : CaptureNew(o, u, x)
          \/ \E o \in Local, x \in Operands : SetUpval(o, u, x)
     \/ \E th \in Threads : \E X \in SUBSET ptr[running] :
          Cardinality(X) <= 1 /\ Switch(th, X)
  /\ Refs' <= MaxRefs

UpvalSpec == Init /\ [][Collector \/ UpvalMutator]_vars /\ Fairness

(* Weak tables of both sorts and finalizers; the weak values are those of the
   globals. *)
WeakKinds == mt :> "thread" @@ g :> "weakvalue" @@ a :> "weakkey" @@ b :> "udata"
               @@ c :> "string"

(* Few objects for the liveness run: a userdata and what it refers to. *)
FewKinds == mt :> "thread" @@ g :> "table" @@ a :> "udata" @@ b :> "table"

WeakMutator ==
  /\ \/ BeginFullGC
     \/ \E o \in Objs : New(o) \/ Load(o) \/ Pop(o)
     \/ \E o \in Local : \/ \E x \in Operands : SetField(o, x)
                         \/ \E e \in entry[o] : ClearWeak(o, e)
                         \/ \E k, v \in Operands : SetWeak(o, k, v)
  /\ Refs' <= MaxRefs

WeakSpec == Init /\ [][Collector \/ WeakMutator]_vars /\ Fairness

=============================================================================
