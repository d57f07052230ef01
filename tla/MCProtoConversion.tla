------------------------- MODULE MCProtoConversion -------------------------
(* ProtoConversion for a script of four functions with two pairs of strings  *)
(* that share a hash, one of them in neighbours only; its code goes through  *)
(* every operation with every operand of small fields.                       *)
EXTENDS ProtoConversion, TLC

CONSTANTS main, f, inner, g

ProtoSet == {main, f, inner, g}

KidsOf == main :> <<f, g>> @@ f :> <<inner>> @@ inner :> <<>> @@ g :> <<>>

ConstsOf == main :> <<"number", "s">> @@ f :> <<"t", "s">> @@ inner :> <<"u">>
              @@ g :> <<"v", "u">>

StringSet == {"s", "t", "u", "v"}
ValueSet == StringSet \cup {"number"}
HashOf == "s" :> 1 @@ "t" :> 2 @@ "u" :> 2 @@ "v" :> 1

(* The operands of all widths, from a first one on. *)
Operands == 2 ^ POS_OP
CodeOf(op, first) == [p \in ProtoSet |->
  IF p = main
  THEN [n \in 1 .. Operands |-> Number(LuaOps)[op] * Operands + ((n + first) % Operands)]
  ELSE <<Number(LuaOps)["RETURN"] * Operands + 1>>]

Scripts == {CodeOf(op, 0) : op \in Ops} \cup
           {CodeOf(op, first) : op \in SpecialOps, first \in 0 .. 7}

CaseSet ==
  [code : Scripts, key : {5}] \cup
  [code : {CodeOf("CALL", 3)}, key : {1, 2, 3, Size - 3, Size - 2, Size - 1}]

=============================================================================
