-------------------------------- MODULE Chunk --------------------------------
(* ldump.c and lundump.c: a function as a sequence of items, and back.  An item
   stands for the bytes of one value: a header, a character, an integer, an
   instruction, a number or a string; none of them is cut in two.  The
   information about lines is left out. *)
EXTENDS Verifier, SequencesExt

Header == "header"
NULL == "NULL"

DumpEach(seq, n, Dumped(_)) == <<n>> \o FlattenSeq([i \in 1..n |-> Dumped(seq[i])])

DumpConstant(o) == IF o[1] = "nil" THEN <<o[1]>> ELSE o

DumpDebug(f, strip) ==
  LET kept(seq) == IF strip THEN 0 ELSE Len(seq) IN
    DumpEach(f.locvars, kept(f.locvars), LAMBDA v : <<v.name, v.startpc, v.endpc>>)
    \o DumpEach(f.ups, kept(f.ups), LAMBDA u : <<u>>)

RECURSIVE DumpFunction(_, _, _)
DumpFunction(f, source, strip) ==
  <<IF f.source = source \/ strip THEN NULL ELSE f.source,
    f.nups, f.numparams, f.is_vararg, f.maxstack>>
  \o DumpEach(f.code, Len(f.code), LAMBDA i : <<i>>)
  \o DumpEach(f.k, Len(f.k), DumpConstant)
  \o DumpEach(f.p, Len(f.p), LAMBDA g : DumpFunction(g, f.source, strip))
  \o DumpDebug(f, strip)

luaU_dump(f, strip) == <<Header>> \o DumpFunction(f, NULL, strip)

------------------------------------------------------------------------------
(* A load under way: the items, how many are read, the last one, and whether an
   error has been raised. *)
LoadItem(S) ==
  IF S.err \/ S.read = Len(S.items) THEN [S EXCEPT !.err = TRUE]
  ELSE [S EXCEPT !.read = @ + 1, !.v = S.items[S.read + 1]]

(* A vector: its length and its elements, each loaded by Load; v is the sequence. *)
LoadEach(S, Load(_)) ==
  LET n    == LoadItem(S)
      none == [n EXCEPT !.v = <<>>]
      more(T, i) ==
        LET one == Load(T) IN
          IF T.err \/ one.err THEN [T EXCEPT !.err = TRUE] ELSE [one EXCEPT !.v = Append(T.v, @)]
  IN IF n.err THEN n ELSE FoldLeft(more, none, [i \in 1..n.v |-> i])

LoadConstant(S) ==
  LET t == LoadItem(S)
      o == LoadItem(t)
  IN IF t.err THEN t
     ELSE IF t.v = "nil" THEN [t EXCEPT !.v = <<"nil", 0>>]
     ELSE [o EXCEPT !.v = <<t.v, @>>]

LoadLocVar_EndFirst(S) ==
  LET name == LoadItem(S)
      endpc == LoadItem(name)
      startpc == LoadItem(endpc)
  IN [startpc EXCEPT !.v = [name |-> name.v, startpc |-> @, endpc |-> endpc.v]]

LoadLocVar(S) ==
  LET name == LoadItem(S)
      startpc == LoadItem(name)
      endpc == LoadItem(startpc)
  IN [endpc EXCEPT !.v = [name |-> name.v, startpc |-> startpc.v, endpc |-> @]]

RECURSIVE LoadFunction(_, _)
LoadFunction(S, p) ==
  LET source == LoadItem(S)
      name   == IF source.v = NULL THEN p ELSE source.v
      nups   == LoadItem(source)
      numparams == LoadItem(nups)
      is_vararg == LoadItem(numparams)
      maxstack  == LoadItem(is_vararg)
      code == LoadEach(maxstack, LoadItem)
      k    == LoadEach(code, LoadConstant)
      fs   == LoadEach(k, LAMBDA T : LoadFunction(T, name))
      locvars == LoadEach(fs, LoadLocVar)
      ups  == LoadEach(locvars, LoadItem)
      f    == [source |-> name, nups |-> nups.v, numparams |-> numparams.v,
               is_vararg |-> is_vararg.v, maxstack |-> maxstack.v, code |-> code.v,
               k |-> k.v, p |-> fs.v, locvars |-> locvars.v, ups |-> ups.v]
  IN IF S.err \/ ups.err THEN [S EXCEPT !.err = TRUE]
     ELSE [ups EXCEPT !.v = f, !.err = ~luaG_checkcode(f)]

luaU_undump(items) ==
  LET h == LoadItem([items |-> items, read |-> 0, v |-> Header, err |-> FALSE]) IN
    IF h.v # Header THEN [h EXCEPT !.err = TRUE] ELSE LoadFunction(h, "=?")

==============================================================================
