----------------------- MODULE ProtoConversionProofs -----------------------
(***************************************************************************)
(* Proofs about ProtoConversion, for every tree of functions, all          *)
(* constants, every hash and every host.                                   *)
(***************************************************************************)
EXTENDS ProtoConversion, SequenceTheorems, FiniteSetTheorems, WellFoundedInduction, TLAPS

Frame == [proto : Protos, host : 1 .. Len(heap), strings : Caches]

(* A call fills the prototype it has made, with no more constants than its
   function has. *)
CallsFit ==
  /\ \A n \in 1 .. Len(calls) : heap[calls[n].host].proto = calls[n].proto
  /\ \A h \in 1 .. Len(heap) : Len(heap[h].k) <= Len(Consts[heap[h].proto])

(* A cache holds strings under their own hash, from constants already seen. *)
CachesRight ==
  \A n \in 1 .. Len(calls) : \A h \in DOMAIN calls[n].strings :
    /\ Hash[calls[n].strings[h]] = h
    /\ calls[n].strings[h] \in ConstsBefore(calls[n].proto, Len(heap[calls[n].host].k))

Inv == TypeOK /\ PausedOnlyAfterFailure /\ CallsFit /\ CachesRight /\ ConstantsRight

------------------------------------------------------------------------------
(* Lemmas about the constants a function sees. *)

(* What encloses a function encloses those nested in it, and so does the
   function itself. *)
LEMMA EnclosingNested ==
  ASSUME NEW q \in Protos, NEW p \in Protos, q \in Parents(p)
  PROVE  Enclosing(q) \cup {q} \subseteq Enclosing(p)
<1>1. q \in Enclosing(p)
  BY DEF Enclosing
<1>2. ASSUME NEW x \in Enclosing(q) PROVE x \in Enclosing(p)
  <2>1. x \in Protos
    BY <1>2 DEF Enclosing
  <2>2. ASSUME NEW S \in SUBSET Protos, Parents(p) \subseteq S,
               \A y \in S : Parents(y) \subseteq S
        PROVE  x \in S
    <3>1. Parents(q) \subseteq S
      BY <2>2
    <3>2. QED
      BY <1>2, <2>2, <3>1 DEF Enclosing
  <2>3. QED
    BY <2>1, <2>2 DEF Enclosing
<1>3. QED
  BY <1>1, <1>2

(* More constants of a function are seen as more of it is converted. *)
LEMMA ConstsBeforeGrows ==
  ASSUME NEW p \in Protos, NEW m \in Nat, NEW n \in Nat, m <= n
  PROVE  ConstsBefore(p, m) \subseteq ConstsBefore(p, n)
  BY DEF ConstsBefore

(* A nested function sees all that the one around it has seen. *)
LEMMA ConstsBeforeNested ==
  ASSUME NEW q \in Protos, NEW p \in Protos, q \in Parents(p),
         NEW n \in Nat, n <= Len(Consts[q])
  PROVE  ConstsBefore(q, n) \subseteq ConstsBefore(p, 0)
<1>1. Enclosing(q) \cup {q} \subseteq Enclosing(p)
  BY EnclosingNested
<1>2. DOMAIN Consts[q] = 1 .. Len(Consts[q]) /\ Len(Consts[q]) \in Nat
  BY ProtosAssumption
<1>3. ASSUME NEW x \in ConstsBefore(q, n) PROVE x \in ConstsBefore(p, 0)
  <2>1. CASE \E j \in 1 .. n : x = Consts[q][j]
    <3>1. PICK j \in DOMAIN Consts[q] : x = Consts[q][j]
      BY <1>2, <2>1
    <3>2. QED
      BY <1>1, <3>1 DEF ConstsBefore
  <2>2. CASE \E r \in Enclosing(q) : \E j \in DOMAIN Consts[r] : x = Consts[r][j]
    BY <1>1, <2>2 DEF ConstsBefore
  <2>3. QED
    BY <1>3, <2>1, <2>2 DEF ConstsBefore
<1>4. QED
  BY <1>3

------------------------------------------------------------------------------
(* Calls of TranspileProto *)

(* The prototype a call begins with has no constants yet. *)
LEMMA BlankTyped ==
  ASSUME NEW p \in Protos
  PROVE  Blank(p) \in HostProto /\ Blank(p).k = <<>> /\ Blank(p).proto = p
  BY DEF Blank, HostProto

LEMMA EnterKeeps ==
  ASSUME heap \in Seq(HostProto), calls \in Seq(Frame),
         CallsFit, CachesRight, ConstantsRight,
         NEW p \in Protos, NEW cache \in Caches,
         \A h \in DOMAIN cache : /\ Hash[cache[h]] = h
                                 /\ cache[h] \in ConstsBefore(p, 0),
         Enter(p, cache)
  PROVE  /\ heap' \in Seq(HostProto) /\ calls' \in Seq(Frame')
         /\ Len(heap') = Len(heap) + 1 /\ Len(calls') = Len(calls) + 1
         /\ CallsFit' /\ CachesRight' /\ ConstantsRight'
<1> DEFINE made == [proto |-> p, host |-> Len(heap) + 1, strings |-> cache]
<1>1. heap' = Append(heap, Blank(p)) /\ calls' = Append(calls, made)
  BY DEF Enter
<1>2. /\ heap' \in Seq(HostProto) /\ Len(heap) \in Nat /\ Len(heap') = Len(heap) + 1
      /\ heap'[Len(heap) + 1] = Blank(p)
      /\ \A h \in 1 .. Len(heap) : heap'[h] = heap[h]
  BY <1>1, BlankTyped
<1>3. made \in Frame'
  BY <1>2 DEF Frame
<1>4. calls \in Seq(Frame')
  <2>1. Frame \subseteq Frame'
    BY <1>2 DEF Frame
  <2>2. QED
    BY <2>1
<1>5. /\ calls' \in Seq(Frame') /\ Len(calls) \in Nat /\ Len(calls') = Len(calls) + 1
      /\ calls'[Len(calls) + 1] = made
      /\ \A n \in 1 .. Len(calls) : calls'[n] = calls[n] /\ calls[n] \in Frame
  BY <1>1, <1>3, <1>4
<1>6. \A n \in 1 .. Len(calls) : heap'[calls'[n].host] = heap[calls[n].host]
  BY <1>2, <1>5 DEF Frame
<1>7. Len(Consts[p]) \in Nat
  BY ProtosAssumption
<1>8. CallsFit'
  <2>1. \A n \in 1 .. Len(calls') : heap'[calls'[n].host].proto = calls'[n].proto
    BY <1>2, <1>5, <1>6, BlankTyped, SMTT(30) DEF CallsFit
  <2>2. ASSUME NEW h \in 1 .. Len(heap')
        PROVE  Len(heap'[h].k) <= Len(Consts[heap'[h].proto])
    <3>1. CASE h = Len(heap) + 1
      BY <1>2, <1>7, <3>1, BlankTyped
    <3>2. CASE h \in 1 .. Len(heap)
      BY <1>2, <3>2 DEF CallsFit
    <3>3. QED
      BY <1>2, <3>1, <3>2
  <2>3. QED
    BY <2>1, <2>2 DEF CallsFit
<1>9. CachesRight'
  <2>1. ASSUME NEW n \in 1 .. Len(calls'), NEW h \in DOMAIN calls'[n].strings
        PROVE  /\ Hash[calls'[n].strings[h]] = h
               /\ calls'[n].strings[h] \in
                    ConstsBefore(calls'[n].proto, Len(heap'[calls'[n].host].k))
    <3>1. CASE n = Len(calls) + 1
      BY <1>2, <1>5, <2>1, <3>1, BlankTyped
    <3>2. CASE n \in 1 .. Len(calls)
      BY <1>5, <1>6, <2>1, <3>2, SMTT(30) DEF CachesRight
    <3>3. QED
      BY <1>5, <3>1, <3>2
  <2>2. QED
    BY <2>1 DEF CachesRight
<1>10. ConstantsRight'
  <2>1. DOMAIN heap' = 1 .. Len(heap) + 1 /\ DOMAIN heap = 1 .. Len(heap)
    BY <1>2
  <2>2. ASSUME NEW h \in DOMAIN heap', NEW i \in DOMAIN heap'[h].k
        PROVE  ConstantRight(heap'[h].proto, i, heap'[h].k[i])
    <3>1. CASE h = Len(heap) + 1
      BY <1>2, <2>2, <3>1, BlankTyped
    <3>2. CASE h \in 1 .. Len(heap)
      <4>1. heap'[h] = heap[h] /\ h \in DOMAIN heap /\ i \in DOMAIN heap[h].k
        BY <1>2, <2>1, <2>2, <3>2
      <4>2. QED
        BY <4>1 DEF ConstantsRight
    <3>3. QED
      BY <1>2, <2>1, <3>1, <3>2
  <2>3. QED
    BY <2>2 DEF ConstantsRight
<1>11. QED
  BY <1>2, <1>5, <1>8, <1>9, <1>10

(* The innermost call and the prototype it fills. *)
LEMMA CallTyped ==
  ASSUME TypeOK, CallsFit, ~Idle
  PROVE  /\ Len(calls) \in Nat \ {0} /\ Call \in Frame
         /\ Target \in HostProto /\ Target.proto = Source
         /\ Len(Consts[Source]) \in Nat /\ Len(Kids[Source]) \in Nat
<1>1. Len(calls) \in Nat \ {0} /\ Call \in Frame
  <2>1. calls \in Seq(Frame)
    BY DEF TypeOK, Frame
  <2>2. Len(calls) # 0
    BY <2>1, EmptySeq DEF Idle
  <2>3. QED
    BY <2>1, <2>2 DEF Call
<1>2. Target \in HostProto /\ Target.proto = Source
  BY <1>1 DEF TypeOK, CallsFit, Frame, Target, Source, Call
<1>3. QED
  BY <1>1, <1>2, ProtosAssumption DEF Frame, Source

(* The cache with one more string. *)
LEMMA RememberTyped ==
  ASSUME NEW cache \in Caches, NEW c \in Strings
  PROVE  /\ Remember(cache, c) \in Caches
         /\ DOMAIN Remember(cache, c) = DOMAIN cache \cup {Hash[c]}
         /\ \A h \in DOMAIN Remember(cache, c) :
              Remember(cache, c)[h] = IF h \in DOMAIN cache THEN cache[h] ELSE c
<1>1. PICK known \in SUBSET Hashes : cache \in [known -> Strings]
  BY DEF Caches
<1>2. known \cup {Hash[c]} \in SUBSET Hashes
  BY DEF Hashes
<1>3. Remember(cache, c) \in [known \cup {Hash[c]} -> Strings]
  BY <1>1 DEF Remember
<1>4. QED
  BY <1>1, <1>2, <1>3 DEF Caches, Remember

LEMMA ConstantKeeps ==
  ASSUME TypeOK, CallsFit, CachesRight, ConstantsRight, TranspileConstant
  PROVE  TypeOK' /\ CallsFit' /\ CachesRight' /\ ConstantsRight'
<1> DEFINE p == Source
           top == Len(calls)
           m == Len(Target.k)
           c == Consts[p][m + 1]
           cache == Call.strings
           value == IF c \in Strings THEN Cached(cache, c) ELSE c
           grown == IF c \in Strings THEN Remember(cache, c) ELSE cache
<1>1. /\ heap' = [heap EXCEPT ![Call.host].k = Append(@, value)]
      /\ calls' = [calls EXCEPT ![top].strings = grown]
      /\ hostStrings' \subseteq hostStrings \cup Strings
      /\ ~Idle /\ m < Len(Consts[p])
      /\ UNCHANGED <<stack, paused, vTop, conversions>>
  <2>1. /\ heap' = [heap EXCEPT ![Call.host].k = Append(@, value)]
        /\ hostStrings' \subseteq hostStrings \cup Strings
        /\ ~Idle /\ m < Len(Consts[p])
        /\ UNCHANGED <<stack, paused, vTop, conversions>>
    BY DEF TranspileConstant
  <2>2. calls' = [calls EXCEPT ![top].strings = grown]
    BY DEF TranspileConstant, Call
  <2>3. QED
    BY <2>1, <2>2
<1>2. /\ top \in Nat \ {0} /\ Call \in Frame /\ Target \in HostProto
      /\ Target.proto = p /\ Len(Consts[p]) \in Nat /\ p \in Protos
  BY <1>1, CallTyped DEF Frame, Source
<1>3. m \in Nat /\ m + 1 \in 1 .. Len(Consts[p]) /\ c \in Values
  BY <1>1, <1>2, ProtosAssumption DEF HostProto
<1>4. cache \in Caches /\ \A h \in DOMAIN cache : cache[h] \in Strings
  BY <1>2 DEF Frame, Caches
<1>5. \A h \in DOMAIN cache : /\ Hash[cache[h]] = h
                              /\ cache[h] \in ConstsBefore(p, m)
  BY <1>2 DEF CachesRight, Call, Target, Source
<1>6. c \in ConstsBefore(p, m + 1) /\ ConstsBefore(p, m) \subseteq ConstsBefore(p, m + 1)
  <2>1. c \in ConstsBefore(p, m + 1)
    BY <1>3 DEF ConstsBefore
  <2>2. QED
    BY <1>2, <1>3, <2>1, ConstsBeforeGrows
<1>7. value \in Values /\ ConstantRight(p, m + 1, value)
  <2>1. CASE c \in Strings /\ Hash[c] \in DOMAIN cache
    <3>1. value = cache[Hash[c]]
      BY <2>1 DEF Cached
    <3>2. value \in Strings /\ Hash[value] = Hash[c] /\ value \in ConstsBefore(p, m)
      BY <1>4, <1>5, <2>1, <3>1
    <3>3. QED
      BY <1>3, <2>1, <3>2, ProtosAssumption DEF ConstantRight
  <2>2. CASE ~(c \in Strings /\ Hash[c] \in DOMAIN cache)
    BY <1>3, <2>2, ZenonT(30) DEF Cached, ConstantRight
  <2>3. QED
    BY <2>1, <2>2
<1>8. /\ grown \in Caches
      /\ \A h \in DOMAIN grown : /\ Hash[grown[h]] = h
                                 /\ grown[h] \in ConstsBefore(p, m + 1)
  <2>1. CASE c \in Strings
    <3>1. grown = Remember(cache, c)
      BY <2>1
    <3>2. /\ Remember(cache, c) \in Caches
          /\ DOMAIN Remember(cache, c) = DOMAIN cache \cup {Hash[c]}
          /\ \A h \in DOMAIN Remember(cache, c) :
               Remember(cache, c)[h] = IF h \in DOMAIN cache THEN cache[h] ELSE c
      BY <1>4, <2>1, RememberTyped
    <3>3. ASSUME NEW h \in DOMAIN Remember(cache, c)
          PROVE  /\ Hash[Remember(cache, c)[h]] = h
                 /\ Remember(cache, c)[h] \in ConstsBefore(p, m + 1)
      BY <1>5, <1>6, <3>2
    <3>4. QED
      BY <3>1, <3>2, <3>3
  <2>2. CASE c \notin Strings
    BY <1>4, <1>5, <1>6, <2>2
  <2>3. QED
    BY <2>1, <2>2, SMTT(30)
<1>9. /\ heap' \in Seq(HostProto) /\ Len(heap') = Len(heap) /\ Len(heap) \in Nat
      /\ Call.host \in 1 .. Len(heap)
      /\ \A h \in 1 .. Len(heap) :
           /\ heap'[h].proto = heap[h].proto
           /\ h # Call.host => heap'[h] = heap[h]
      /\ heap'[Call.host].k = Append(Target.k, value)
  <2>1. /\ Call.host \in 1 .. Len(heap) /\ heap \in Seq(HostProto)
        /\ heap[Call.host] = Target
    BY <1>2 DEF Frame, Target, TypeOK
  <2>2. Append(Target.k, value) \in Seq(Values)
    BY <1>2, <1>7 DEF HostProto
  <2>3. [Target EXCEPT !.k = Append(@, value)] \in HostProto
    BY <1>2, <2>2 DEF HostProto
  <2>4. heap' = [heap EXCEPT ![Call.host] = [Target EXCEPT !.k = Append(@, value)]]
    BY <1>1, <2>1
  <2>5. [Target EXCEPT !.k = Append(@, value)].proto = Target.proto
    BY <1>2 DEF HostProto
  <2>6. [Target EXCEPT !.k = Append(@, value)].k = Append(Target.k, value)
    BY <1>2 DEF HostProto
  <2>7. QED
    BY <2>1, <2>3, <2>4, <2>5, <2>6
<1>10. /\ calls \in Seq(Frame) /\ calls' \in Seq(Frame') /\ Len(calls') = top
       /\ \A n \in 1 .. top : /\ calls'[n].proto = calls[n].proto
                              /\ calls'[n].host = calls[n].host
                              /\ n # top => calls'[n] = calls[n]
       /\ calls'[top].strings = grown
  <2>1. calls \in Seq(Frame) /\ Frame' = Frame
    BY <1>9 DEF TypeOK, Frame
  <2>2. [Call EXCEPT !.strings = grown] \in Frame
    BY <1>2, <1>8 DEF Frame
  <2>3. calls' = [calls EXCEPT ![top] = [Call EXCEPT !.strings = grown]]
    BY <1>1, <1>2, <2>1 DEF Call
  <2>4. /\ [Call EXCEPT !.strings = grown].proto = Call.proto
        /\ [Call EXCEPT !.strings = grown].host = Call.host
        /\ [Call EXCEPT !.strings = grown].strings = grown
    BY <1>2 DEF Frame
  <2>5. QED
    BY <1>2, <2>1, <2>2, <2>3, <2>4 DEF Call
<1> HIDE DEF value, grown
<1>11. Len(heap'[Call.host].k) = m + 1
  BY <1>2, <1>3, <1>7, <1>9 DEF HostProto
<1>12. TypeOK'
  <2>1. calls' \in Seq([proto : Protos, host : 1 .. Len(heap'), strings : Caches])
    BY <1>10 DEF Frame
  <2>2. QED
    BY <1>1, <1>9, <2>1 DEF TypeOK
<1>13. CallsFit'
  <2>1. ASSUME NEW n \in 1 .. Len(calls')
        PROVE  heap'[calls'[n].host].proto = calls'[n].proto
    <3>1. n \in 1 .. top /\ calls[n] \in Frame
      BY <1>2, <1>10
    <3>2. calls[n].host \in 1 .. Len(heap) /\ heap[calls[n].host].proto = calls[n].proto
      BY <3>1 DEF CallsFit, Frame
    <3>3. QED
      BY <1>9, <1>10, <3>1, <3>2
  <2>2. ASSUME NEW h \in 1 .. Len(heap')
        PROVE  Len(heap'[h].k) <= Len(Consts[heap'[h].proto])
    <3>1. CASE h = Call.host
      <4>1. heap'[h].proto = p
        BY <1>2, <1>9, <3>1 DEF Target
      <4>2. QED
        BY <1>2, <1>3, <1>11, <3>1, <4>1
    <3>2. CASE h # Call.host
      BY <1>9, <3>2 DEF CallsFit
    <3>3. QED
      BY <3>1, <3>2
  <2>3. QED
    BY <2>1, <2>2 DEF CallsFit
<1>14. CachesRight'
  <2>1. ASSUME NEW n \in 1 .. Len(calls'), NEW h \in DOMAIN calls'[n].strings
        PROVE  /\ Hash[calls'[n].strings[h]] = h
               /\ calls'[n].strings[h] \in
                    ConstsBefore(calls'[n].proto, Len(heap'[calls'[n].host].k))
    <3>1. CASE n = top
      BY <1>2, <1>8, <1>10, <1>11, <2>1, <3>1 DEF Call, Source
    <3>2. CASE n # top
      <4>1. /\ n \in 1 .. top /\ calls'[n] = calls[n] /\ calls[n] \in Frame
            /\ h \in DOMAIN calls[n].strings
        BY <1>2, <1>10, <2>1, <3>2
      <4>2. /\ Hash[calls[n].strings[h]] = h
            /\ calls[n].strings[h] \in
                 ConstsBefore(calls[n].proto, Len(heap[calls[n].host].k))
        BY <4>1 DEF CachesRight
      <4>3. /\ calls[n].proto \in Protos /\ calls[n].host \in 1 .. Len(heap)
        BY <4>1 DEF Frame
      <4>4. /\ Len(heap[calls[n].host].k) \in Nat /\ Len(heap'[calls[n].host].k) \in Nat
            /\ Len(heap[calls[n].host].k) <= Len(heap'[calls[n].host].k)
        <5>1. heap[calls[n].host] \in HostProto
          BY <4>3 DEF TypeOK
        <5>2. Len(heap[calls[n].host].k) \in Nat
          BY <5>1 DEF HostProto
        <5>3. CASE calls[n].host = Call.host
          BY <1>3, <1>11, <5>2, <5>3, SMTT(30) DEF Target
        <5>4. CASE calls[n].host # Call.host
          BY <1>9, <4>3, <5>2, <5>4
        <5>5. QED
          BY <5>3, <5>4
      <4>5. ConstsBefore(calls[n].proto, Len(heap[calls[n].host].k)) \subseteq
              ConstsBefore(calls[n].proto, Len(heap'[calls[n].host].k))
        BY <4>3, <4>4, ConstsBeforeGrows
      <4>6. QED
        BY <4>1, <4>2, <4>5
    <3>3. QED
      BY <3>1, <3>2
  <2>2. QED
    BY <2>1 DEF CachesRight
<1>15. ConstantsRight'
  <2>1. ASSUME NEW h \in DOMAIN heap', NEW i \in DOMAIN heap'[h].k
        PROVE  ConstantRight(heap'[h].proto, i, heap'[h].k[i])
    <3>1. h \in 1 .. Len(heap) /\ DOMAIN heap = 1 .. Len(heap)
      BY <1>9 DEF TypeOK
    <3>2. CASE h # Call.host
      BY <1>9, <2>1, <3>1, <3>2 DEF ConstantsRight
    <3>3. CASE h = Call.host
      <4>1. /\ Target.k \in Seq(Values) /\ heap'[h].k = Append(Target.k, value)
            /\ heap'[h].proto = p
        BY <1>2, <1>9, <3>3 DEF HostProto, Target
      <4>2. CASE i = m + 1
        BY <1>3, <1>7, <4>1, <4>2
      <4>3. CASE i \in DOMAIN Target.k
        <5>1. heap'[h].k[i] = Target.k[i]
          BY <4>1, <4>3
        <5>2. ConstantRight(Target.proto, i, Target.k[i])
          BY <1>9, <3>1, <3>3, <4>3 DEF ConstantsRight, Target
        <5>3. QED
          BY <1>2, <4>1, <5>1, <5>2
      <4>4. i = m + 1 \/ i \in DOMAIN Target.k
        BY <1>3, <1>7, <2>1, <4>1
      <4>5. QED
        BY <4>2, <4>3, <4>4
    <3>4. QED
      BY <3>2, <3>3
  <2>2. QED
    BY <2>1 DEF ConstantsRight
<1>16. QED
  BY <1>12, <1>13, <1>14, <1>15

(* A finished call leaves its prototype with its caller. *)
LEMMA ReturnKeeps ==
  ASSUME TypeOK, CallsFit, CachesRight, ConstantsRight, ReturnChild
  PROVE  TypeOK' /\ CallsFit' /\ CachesRight' /\ ConstantsRight'
<1> DEFINE caller == Len(calls) - 1
           table == calls[caller].host
<1>1. /\ ~Idle /\ Len(calls) > 1
      /\ heap' = [heap EXCEPT ![table].kids = Append(@, Call.host)]
      /\ calls' = SubSeq(calls, 1, caller)
      /\ UNCHANGED <<hostStrings, stack, paused, vTop, conversions>>
  BY DEF ReturnChild, Done
<1>2. /\ Len(calls) \in Nat /\ Call \in Frame /\ calls \in Seq(Frame)
      /\ caller \in 1 .. Len(calls) /\ calls[caller] \in Frame
  <2>1. calls \in Seq(Frame)
    BY DEF TypeOK, Frame
  <2>2. Len(calls) \in Nat /\ Call \in Frame
    BY <1>1, CallTyped
  <2>3. QED
    BY <1>1, <2>1, <2>2
<1>3. /\ table \in 1 .. Len(heap) /\ Call.host \in Nat /\ heap \in Seq(HostProto)
      /\ heap[table] \in HostProto
  BY <1>2, SMTT(30) DEF Frame, TypeOK
<1>4. /\ heap' \in Seq(HostProto) /\ Len(heap') = Len(heap) /\ Len(heap) \in Nat
      /\ \A h \in 1 .. Len(heap) : heap'[h].proto = heap[h].proto /\ heap'[h].k = heap[h].k
  <2> DEFINE filled == [heap[table] EXCEPT !.kids = Append(@, Call.host)]
  <2>1. /\ filled \in HostProto /\ filled.proto = heap[table].proto
        /\ filled.k = heap[table].k
    <3>1. Append(heap[table].kids, Call.host) \in Seq(Nat)
      BY <1>3 DEF HostProto
    <3>2. QED
      BY <1>3, <3>1 DEF HostProto
  <2>2. heap' = [heap EXCEPT ![table] = filled]
    BY <1>1, <1>3
  <2>3. QED
    BY <1>3, <2>1, <2>2
<1>5. /\ calls' \in Seq(Frame) /\ Len(calls') = caller
      /\ \A n \in 1 .. caller : /\ calls'[n] = calls[n] /\ n \in 1 .. Len(calls)
                               /\ calls[n].host \in 1 .. Len(heap)
  <2>1. /\ calls' \in Seq(Frame) /\ Len(calls') = caller
        /\ \A n \in 1 .. caller : calls'[n] = calls[n] /\ n \in 1 .. Len(calls)
    BY <1>1, <1>2
  <2>2. \A n \in 1 .. Len(calls) : calls[n].host \in 1 .. Len(heap)
    <3>1. \A n \in 1 .. Len(calls) : calls[n] \in Frame
      BY <1>2
    <3>2. QED
      BY <3>1 DEF Frame
  <2>3. QED
    BY <2>1, <2>2
<1>6. Frame' = Frame
  BY <1>4 DEF Frame
<1>7. TypeOK'
  BY <1>1, <1>4, <1>5, <1>6 DEF TypeOK, Frame
<1>8. CallsFit'
  <2>1. \A n \in 1 .. Len(calls') : heap'[calls'[n].host].proto = calls'[n].proto
    BY <1>4, <1>5 DEF CallsFit
  <2>2. \A h \in 1 .. Len(heap') : Len(heap'[h].k) <= Len(Consts[heap'[h].proto])
    BY <1>4 DEF CallsFit
  <2>3. QED
    BY <2>1, <2>2 DEF CallsFit
<1>9. CachesRight'
  <2>1. ASSUME NEW n \in 1 .. Len(calls'), NEW h \in DOMAIN calls'[n].strings
        PROVE  /\ Hash[calls'[n].strings[h]] = h
               /\ calls'[n].strings[h] \in
                    ConstsBefore(calls'[n].proto, Len(heap'[calls'[n].host].k))
    <3>1. n \in 1 .. Len(calls) /\ calls'[n] = calls[n] /\ calls[n].host \in 1 .. Len(heap)
      BY <1>5
    <3>2. heap'[calls[n].host].k = heap[calls[n].host].k
      BY <1>4, <3>1
    <3>3. QED
      BY <2>1, <3>1, <3>2 DEF CachesRight
  <2>2. QED
    BY <2>1 DEF CachesRight
<1>10. ConstantsRight'
  <2>1. DOMAIN heap' = 1 .. Len(heap) /\ DOMAIN heap = 1 .. Len(heap)
    BY <1>3, <1>4
  <2>2. ASSUME NEW h \in DOMAIN heap', NEW i \in DOMAIN heap'[h].k
        PROVE  ConstantRight(heap'[h].proto, i, heap'[h].k[i])
    BY <1>4, <2>1, <2>2 DEF ConstantsRight
  <2>3. QED
    BY <2>2 DEF ConstantsRight
<1>11. QED
  BY <1>7, <1>8, <1>9, <1>10

(* A nested function begins with what its caller knows. *)
LEMMA ChildEnters ==
  ASSUME TypeOK, CallsFit, CachesRight, ConstantsRight, TranspileChild
  PROVE  /\ heap' \in Seq(HostProto) /\ calls' \in Seq(Frame')
         /\ Len(heap') = Len(heap) + 1 /\ Len(calls') = Len(calls) + 1
         /\ CallsFit' /\ CachesRight' /\ ConstantsRight'
<1> DEFINE child == Kids[Source][Len(Target.kids) + 1]
<1>1. ~Idle /\ Len(Target.kids) < Len(Kids[Source]) /\ Enter(child, Call.strings)
  BY DEF TranspileChild
<1>2. /\ Len(calls) \in Nat \ {0} /\ Call \in Frame /\ Target \in HostProto
      /\ Target.proto = Source /\ Source \in Protos
      /\ Call.host \in 1 .. Len(heap)
  BY <1>1, CallTyped DEF Frame, Source
<1>3. child \in Protos /\ Source \in Parents(child)
  <2>1. Kids[Source] \in Seq(Protos) /\ Len(Target.kids) \in Nat
    BY <1>2, ProtosAssumption DEF HostProto
  <2>2. Len(Target.kids) + 1 \in DOMAIN Kids[Source]
    BY <1>1, <2>1
  <2>3. QED
    BY <1>2, <2>1, <2>2 DEF Parents
<1>4. Len(Target.k) \in Nat /\ Len(Target.k) <= Len(Consts[Source])
  BY <1>2, SMTT(30) DEF CallsFit, Target, HostProto
<1>5. ConstsBefore(Source, Len(Target.k)) \subseteq ConstsBefore(child, 0)
  BY <1>2, <1>3, <1>4, ConstsBeforeNested
<1>6. \A h \in DOMAIN Call.strings : /\ Hash[Call.strings[h]] = h
                                     /\ Call.strings[h] \in ConstsBefore(child, 0)
  BY <1>2, <1>5 DEF CachesRight, Call, Target, Source
<1>7. heap \in Seq(HostProto) /\ calls \in Seq(Frame) /\ Call.strings \in Caches
  BY <1>2 DEF TypeOK, Frame
<1>8. QED
  BY <1>1, <1>3, <1>6, <1>7, EnterKeeps

------------------------------------------------------------------------------
(* The invariant *)

LEMMA Initially == Init => Inv
<1> SUFFICES ASSUME Init PROVE Inv
  OBVIOUS
<1>1. heap = <<>> /\ calls = <<>> /\ stack = {} /\ hostStrings = {} /\ ~paused
      /\ paused \in BOOLEAN /\ vTop = 0 /\ conversions = 0
  BY DEF Init
<1>2. TypeOK
  BY <1>1, ProtosAssumption DEF TypeOK
<1>3. QED
  BY <1>1, <1>2 DEF Inv, PausedOnlyAfterFailure, Idle, CallsFit, CachesRight, ConstantsRight

(* A step that changes neither calls nor prototypes. *)
LEMMA SameCalls ==
  ASSUME CallsFit, CachesRight, ConstantsRight, heap' = heap, calls' = calls
  PROVE  CallsFit' /\ CachesRight' /\ ConstantsRight'
  BY DEF CallsFit, CachesRight, ConstantsRight

(* Errors and collections leave no call behind. *)
LEMMA NoCalls ==
  ASSUME calls' = <<>>, heap' \in Seq(HostProto), Len(heap') = Len(heap),
         heap \in Seq(HostProto), CallsFit, ConstantsRight,
         \A h \in 1 .. Len(heap) : heap'[h] \in {heap[h], Freed}
  PROVE  CallsFit' /\ CachesRight' /\ ConstantsRight'
<1>1. Freed.k = <<>> /\ Freed.proto = Root /\ Len(Consts[Root]) \in Nat
  BY ProtosAssumption DEF Freed, Blank
<1>2. CallsFit'
  <2>1. \A h \in 1 .. Len(heap') : Len(heap'[h].k) <= Len(Consts[heap'[h].proto])
    BY <1>1, SMTT(30) DEF CallsFit
  <2>2. QED
    BY <2>1 DEF CallsFit
<1>3. CachesRight'
  BY DEF CachesRight
<1>4. ConstantsRight'
  <2>1. DOMAIN heap' = 1 .. Len(heap) /\ DOMAIN heap = 1 .. Len(heap)
    OBVIOUS
  <2>2. DOMAIN Freed.k = {}
    BY <1>1
  <2>3. ASSUME NEW h \in DOMAIN heap', NEW i \in DOMAIN heap'[h].k
        PROVE  ConstantRight(heap'[h].proto, i, heap'[h].k[i])
    <3>1. heap'[h] = heap[h]
      BY <2>1, <2>2, <2>3
    <3>2. QED
      BY <2>1, <2>3, <3>1 DEF ConstantsRight
  <2>4. QED
    BY <2>3 DEF ConstantsRight
<1>5. QED
  BY <1>2, <1>3, <1>4

LEMMA Step == Inv /\ [Next]_vars => Inv'
<1> SUFFICES ASSUME Inv, [Next]_vars PROVE Inv'
  OBVIOUS
<1> USE DEF Inv
<1>1. CASE ProtoConversionRejects
  <2>1. TypeOK'
    BY <1>1, ProtosAssumption DEF ProtoConversionRejects, TypeOK
  <2>2. PausedOnlyAfterFailure'
    BY <1>1 DEF ProtoConversionRejects, PausedOnlyAfterFailure, Idle
  <2>3. QED
    BY <1>1, <2>1, <2>2, SameCalls DEF ProtoConversionRejects
<1>2. CASE ProtoConversionBegins
  <2>1. NoCache \in Caches /\ DOMAIN NoCache = {}
    BY ZenonT(30) DEF NoCache, Caches
  <2>2. Root \in Protos /\ heap \in Seq(HostProto) /\ calls \in Seq(Frame)
    BY ProtosAssumption DEF TypeOK, Frame
  <2>3. /\ heap' \in Seq(HostProto) /\ calls' \in Seq(Frame')
        /\ Len(heap') = Len(heap) + 1 /\ CallsFit' /\ CachesRight' /\ ConstantsRight'
    BY <1>2, <2>1, <2>2, EnterKeeps DEF ProtoConversionBegins
  <2>4. TypeOK'
    BY <1>2, <2>2, <2>3, ProtosAssumption DEF ProtoConversionBegins, TypeOK, Frame
  <2>5. PausedOnlyAfterFailure'
    BY <1>2 DEF ProtoConversionBegins, PausedOnlyAfterFailure, TypeOK
  <2>6. QED
    BY <2>3, <2>4, <2>5
<1>3. CASE TranspileConstant
  <2>1. PausedOnlyAfterFailure'
    BY <1>3 DEF TranspileConstant, PausedOnlyAfterFailure, Idle
  <2>2. QED
    BY <1>3, <2>1, ConstantKeeps
<1>4. CASE TranspileCode
  <2>1. TypeOK'
    BY <1>4 DEF TranspileCode, TypeOK
  <2>2. PausedOnlyAfterFailure'
    BY <1>4 DEF TranspileCode, PausedOnlyAfterFailure, Idle
  <2>3. QED
    BY <1>4, <2>1, <2>2, SameCalls DEF TranspileCode
<1>5. CASE TranspileChild
  <2>1. /\ heap' \in Seq(HostProto) /\ calls' \in Seq(Frame')
        /\ Len(heap') = Len(heap) + 1 /\ CallsFit' /\ CachesRight' /\ ConstantsRight'
    BY <1>5, ChildEnters
  <2>2. Len(heap) \in Nat
    BY DEF TypeOK
  <2>3. TypeOK'
    BY <1>5, <2>1, <2>2 DEF TranspileChild, TypeOK, Frame
  <2>4. PausedOnlyAfterFailure'
    BY <1>5 DEF TranspileChild, PausedOnlyAfterFailure
  <2>5. QED
    BY <2>1, <2>3, <2>4
<1>6. CASE ReturnChild
  <2>1. PausedOnlyAfterFailure'
    BY <1>6 DEF ReturnChild, Done, PausedOnlyAfterFailure
  <2>2. QED
    BY <1>6, <2>1, ReturnKeeps
<1>7. CASE ProtoConversionEnds
  <2>1. /\ ~Idle /\ calls' = <<>> /\ heap' = heap /\ stack' = stack \cup {Call.host}
        /\ vTop' = vTop - 1 /\ paused' = FALSE
        /\ UNCHANGED <<hostStrings, conversions>>
    BY <1>7 DEF ProtoConversionEnds, Done
  <2>2. Call.host \in 1 .. Len(heap)
    BY <2>1, CallTyped DEF Frame
  <2>3. vTop' \in Nat
    BY <2>1 DEF PausedOnlyAfterFailure, TypeOK
  <2>4. TypeOK'
    <3>1. calls' \in Seq([proto : Protos, host : 1 .. Len(heap'), strings : Caches])
      BY <2>1
    <3>2. stack' \subseteq 1 .. Len(heap') /\ heap' \in Seq(HostProto)
      BY <2>1, <2>2 DEF TypeOK
    <3>3. hostStrings' \subseteq Strings /\ conversions' \in 0 .. MaxConversions
      BY <2>1 DEF TypeOK
    <3>4. QED
      BY <2>1, <2>3, <3>1, <3>2, <3>3 DEF TypeOK
  <2>5. CallsFit' /\ CachesRight' /\ ConstantsRight'
    BY <2>1, NoCalls DEF TypeOK
  <2>6. PausedOnlyAfterFailure'
    BY <2>1 DEF PausedOnlyAfterFailure, Idle
  <2>7. QED
    BY <2>4, <2>5, <2>6
<1>8. CASE HostRaises
  <2>1. TypeOK'
    BY <1>8 DEF HostRaises, TypeOK
  <2>2. CallsFit' /\ CachesRight' /\ ConstantsRight'
    BY <1>8, NoCalls DEF HostRaises, TypeOK
  <2>3. PausedOnlyAfterFailure'
    BY <1>8 DEF HostRaises, PausedOnlyAfterFailure, Idle
  <2>4. QED
    BY <2>1, <2>2, <2>3
<1>9. CASE HostCollects
  <2>1. PICK kept : heap' = [h \in DOMAIN heap |-> IF h \in kept THEN heap[h] ELSE Freed]
    BY <1>9 DEF HostCollects
  <2>2. Freed \in HostProto
    BY BlankTyped, ProtosAssumption DEF Freed, Blank, HostProto
  <2>3. /\ heap' \in Seq(HostProto) /\ Len(heap') = Len(heap)
        /\ \A h \in 1 .. Len(heap) : heap'[h] \in {heap[h], Freed}
    <3>1. heap \in Seq(HostProto) /\ DOMAIN heap = 1 .. Len(heap) /\ Len(heap) \in Nat
      BY DEF TypeOK
    <3>2. heap' \in [1 .. Len(heap) -> HostProto]
      BY <2>1, <2>2, <3>1
    <3>3. heap' \in Seq(HostProto) /\ Len(heap') = Len(heap)
      BY <3>1, <3>2
    <3>4. QED
      BY <2>1, <3>1, <3>3
  <2>4. calls = <<>> /\ UNCHANGED <<calls, stack, paused, vTop, conversions>>
    BY <1>9 DEF HostCollects, PausedOnlyAfterFailure, Idle
  <2>5. hostStrings' \subseteq Strings
    BY <1>9 DEF HostCollects, StringsOf
  <2>6. TypeOK'
    BY <2>3, <2>4, <2>5 DEF TypeOK
  <2>7. CallsFit' /\ CachesRight' /\ ConstantsRight'
    BY <2>3, <2>4, NoCalls DEF TypeOK
  <2>8. PausedOnlyAfterFailure'
    BY <2>4 DEF PausedOnlyAfterFailure, Idle
  <2>9. QED
    BY <2>6, <2>7, <2>8
<1>10. CASE \E h \in stack : HostDrops(h)
  <2>1. TypeOK'
    BY <1>10 DEF HostDrops, TypeOK
  <2>2. PausedOnlyAfterFailure'
    BY <1>10 DEF HostDrops, PausedOnlyAfterFailure, Idle
  <2>3. QED
    BY <1>10, <2>1, <2>2, SameCalls DEF HostDrops
<1>11. CASE UNCHANGED vars
  <2>1. TypeOK' /\ PausedOnlyAfterFailure'
    BY <1>11 DEF vars, TypeOK, PausedOnlyAfterFailure, Idle
  <2>2. QED
    BY <1>11, <2>1, SameCalls DEF vars
<1>12. QED
  BY <1>1, <1>2, <1>3, <1>4, <1>5, <1>6, <1>7, <1>8, <1>9, <1>10, <1>11
     DEF Next, Conversion, Host

(* conversion.cpp: the state of a conversion is well typed. *)
THEOREM TypeCorrect == Spec => []TypeOK
<1>1. Spec => []Inv
  BY Initially, Step, PTL DEF Spec
<1>2. Inv => TypeOK
  BY DEF Inv
<1>3. QED
  BY <1>1, <1>2, PTL

(* conversion.cpp:64: a constant of the converted script is the source's, or a
   string of the same hash that was converted before it in the same function or
   in one around it, whatever the hash does. *)
THEOREM ConstantsAreRight == Spec => []ConstantsRight
<1>1. Spec => []Inv
  BY Initially, Step, PTL DEF Spec
<1>2. Inv => ConstantsRight
  BY DEF Inv
<1>3. QED
  BY <1>1, <1>2, PTL

(* conversion.cpp:373, 395: the host's collector is paused throughout every
   conversion, and stays so only after one that an error has cut short. *)
THEOREM PausedOnlyThen == Spec => []PausedOnlyAfterFailure
<1>1. Spec => []Inv
  BY Initially, Step, PTL DEF Spec
<1>2. Inv => PausedOnlyAfterFailure
  BY DEF Inv
<1>3. QED
  BY <1>1, <1>2, PTL

------------------------------------------------------------------------------
(* What is made is whole *)

(* All of a function has been converted. *)
Whole(h) ==
  LET made == heap[h] IN
    /\ made.live
    /\ Len(made.k) = Len(Consts[made.proto])
    /\ Len(instructions[h]) = Len(code[made.proto])
    /\ Len(made.kids) = Len(Kids[made.proto])

(* What a prototype refers to is whole, in the order of the source and without
   repetition. *)
KidsFit(h) ==
  LET kids == heap[h].kids IN
    /\ Len(kids) <= Len(Kids[heap[h].proto])
    /\ \A i \in DOMAIN kids :
         /\ kids[i] \in 1 .. Len(heap) /\ Whole(kids[i])
         /\ heap[kids[i]].proto = Kids[heap[h].proto][i]
    /\ \A i, j \in DOMAIN kids : kids[i] = kids[j] => i = j

(* The host has its strings; the code comes after all constants. *)
DataFit(h) ==
  /\ StringsOf(h) \subseteq hostStrings
  /\ instructions[h] # <<>> =>
       /\ Len(heap[h].k) = Len(Consts[heap[h].proto])
       /\ Len(instructions[h]) = Len(code[heap[h].proto])

HeapFits ==
  \A h \in 1 .. Len(heap) : KidsFit(h) /\ DataFit(h)

(* A call waits for the call of its next nested function. *)
Waits(n) ==
  LET made == heap[calls[n].host]
      kids == Kids[calls[n].proto]
  IN /\ Len(made.kids) < Len(kids)
     /\ calls[n + 1].proto = kids[Len(made.kids) + 1]

CallsRun ==
  \A n \in 1 .. Len(calls) :
    /\ n = 1 => calls[n].proto = Root
    /\ n < Len(calls) => Waits(n)
    /\ heap[calls[n].host].live
    /\ \A h \in DOMAIN calls[n].strings : calls[n].strings[h] \in hostStrings

(* Nothing refers yet to what a running call makes. *)
RunningApart ==
  \A n \in 1 .. Len(calls) :
    /\ calls[n].host \notin stack
    /\ \A m \in 1 .. Len(calls) : calls[m].host = calls[n].host => m = n
    /\ \A h \in 1 .. Len(heap) : \A i \in DOMAIN heap[h].kids :
         heap[h].kids[i] # calls[n].host

StackWhole == \A h \in stack : Whole(h) /\ heap[h].proto = Root

Codes ==
  /\ code \in [Protos -> Seq(Instruction)]
  /\ instructions \in Seq({instructions[h] : h \in DOMAIN instructions})
  /\ Len(instructions) = Len(heap)

Made == Codes /\ HeapFits /\ CallsRun /\ RunningApart /\ StackWhole

------------------------------------------------------------------------------
(* Lemmas for what a step leaves alone. *)

LEMMA SeqOfItsOwn ==
  ASSUME NEW T, NEW s \in Seq(T)
  PROVE  s \in Seq({s[i] : i \in DOMAIN s})
<1>1. s \in [1 .. Len(s) -> {s[i] : i \in DOMAIN s}] /\ Len(s) \in Nat
  OBVIOUS
<1>2. QED
  BY <1>1, SeqDef, SMTT(30)

LEMMA SeqOf ==
  ASSUME NEW n \in Nat, NEW f, f = [i \in 1 .. n |-> f[i]]
  PROVE  f \in Seq({f[i] : i \in DOMAIN f}) /\ Len(f) = n
<1>1. f \in [1 .. n -> {f[i] : i \in DOMAIN f}]
  OBVIOUS
<1>2. f \in Seq({f[i] : i \in DOMAIN f})
  BY <1>1, SeqDef
<1>3. QED
  BY <1>1, <1>2

LEMMA SeqGrows ==
  ASSUME NEW S, NEW T, S \subseteq T, NEW s \in Seq(S)
  PROVE  s \in Seq(T)
OBVIOUS

LEMMA WholeStays ==
  ASSUME NEW h, Whole(h), heap'[h] = heap[h], instructions'[h] = instructions[h], code' = code
  PROVE  Whole(h)'
BY DEF Whole

(* Everything but x is as before; what x is known by is, too. *)
Spares(x) ==
  /\ Len(heap) \in Nat /\ Len(heap') \in Nat /\ Len(heap) <= Len(heap')
  /\ code' = code /\ hostStrings \subseteq hostStrings'
  /\ \A h \in 1 .. Len(heap) :
       /\ heap'[h].proto = heap[h].proto /\ heap'[h].live = heap[h].live
       /\ h # x => heap'[h] = heap[h] /\ instructions'[h] = instructions[h]

(* What does not refer to x fits as it did. *)
LEMMA KidsStay ==
  ASSUME NEW x, Spares(x), NEW h \in 1 .. Len(heap), KidsFit(h),
         heap'[h].kids = heap[h].kids, \A i \in DOMAIN heap[h].kids : heap[h].kids[i] # x
  PROVE  KidsFit(h)'
<1>1. ASSUME NEW i \in DOMAIN heap[h].kids
      PROVE  /\ heap[h].kids[i] \in 1 .. Len(heap')
             /\ Whole(heap[h].kids[i])'
             /\ heap'[heap[h].kids[i]].proto = Kids[heap[h].proto][i]
  <2> DEFINE y == heap[h].kids[i]
  <2>1. y \in 1 .. Len(heap) /\ Whole(y) /\ heap[y].proto = Kids[heap[h].proto][i] /\ y # x
    BY <1>1 DEF KidsFit
  <2>2. heap'[y] = heap[y] /\ instructions'[y] = instructions[y] /\ code' = code
    BY <2>1 DEF Spares
  <2>3. Whole(y)'
    BY <2>1, <2>2, WholeStays
  <2>4. y \in 1 .. Len(heap')
    BY <2>1 DEF Spares
  <2>5. QED
    BY <2>1, <2>2, <2>3, <2>4
<1>2. heap'[h].proto = heap[h].proto
  BY DEF Spares
<1>3. Len(heap[h].kids) <= Len(Kids[heap[h].proto])
      /\ \A i, j \in DOMAIN heap[h].kids : heap[h].kids[i] = heap[h].kids[j] => i = j
  BY DEF KidsFit
<1>4. QED
  BY <1>1, <1>2, <1>3 DEF KidsFit

LEMMA DataStay ==
  ASSUME NEW x, Spares(x), NEW h \in 1 .. Len(heap), h # x, DataFit(h)
  PROVE  DataFit(h)'
<1>1. /\ heap'[h] = heap[h] /\ instructions'[h] = instructions[h] /\ code' = code
      /\ hostStrings \subseteq hostStrings'
  BY DEF Spares
<1>2. QED
  BY <1>1 DEF DataFit, StringsOf

(* What the host's stack holds. *)
LEMMA StackStays ==
  ASSUME NEW x, Spares(x), stack \subseteq 1 .. Len(heap), x \notin stack, StackWhole
  PROVE  \A h \in stack : Whole(h)' /\ heap'[h].proto = Root
<1>1. ASSUME NEW h \in stack PROVE Whole(h)' /\ heap'[h].proto = Root
  <2>1. heap'[h] = heap[h] /\ instructions'[h] = instructions[h] /\ code' = code
    BY <1>1 DEF Spares
  <2>2. QED
    BY <1>1, <2>1, WholeStays DEF StackWhole
<1>2. QED
  BY <1>1

------------------------------------------------------------------------------
(* The steps of a conversion *)

(* The innermost call makes its own prototype. *)
LEMMA InnermostApart ==
  ASSUME TypeOK, CallsFit, Made, ~Idle
  PROVE  /\ Len(calls) \in Nat \ {0} /\ Call \in Frame /\ Call.host \in 1 .. Len(heap)
         /\ heap[Call.host] = Target /\ Target.live /\ Call.host \notin stack
         /\ \A n \in 1 .. Len(calls) : n # Len(calls) => calls[n].host # Call.host
         /\ \A h \in 1 .. Len(heap) : \A i \in DOMAIN heap[h].kids :
              heap[h].kids[i] # Call.host
         /\ DOMAIN instructions = 1 .. Len(heap)
<1>1. Len(calls) \in Nat \ {0} /\ Call \in Frame
  BY CallTyped
<1>2. Len(calls) \in 1 .. Len(calls) /\ Call = calls[Len(calls)]
  BY <1>1 DEF Call
<1>3. Call.host \in 1 .. Len(heap) /\ heap[Call.host] = Target
  BY <1>1 DEF Frame, Target
<1>4. Target.live
  BY <1>2, <1>3 DEF Made, CallsRun
<1>5. /\ Call.host \notin stack
      /\ \A n \in 1 .. Len(calls) : n # Len(calls) => calls[n].host # Call.host
      /\ \A h \in 1 .. Len(heap) : \A i \in DOMAIN heap[h].kids :
           heap[h].kids[i] # Call.host
  BY <1>2 DEF Made, RunningApart
<1>6. DOMAIN instructions = 1 .. Len(heap)
  BY DEF Made, Codes
<1>7. QED
  BY <1>1, <1>3, <1>4, <1>5, <1>6

(* A call of TranspileProto begins. *)
LEMMA EnterMakes ==
  ASSUME TypeOK, CallsFit, Made, NEW p \in Protos, NEW cache \in Caches, Enter(p, cache),
         \A h \in DOMAIN cache : cache[h] \in hostStrings,
         calls = <<>> => p = Root,
         calls # <<>> => /\ Len(Target.kids) < Len(Kids[Source])
                         /\ p = Kids[Source][Len(Target.kids) + 1],
         UNCHANGED <<code, stack, hostStrings>>
  PROVE  Made'
<1> DEFINE x == Len(heap) + 1
           made == [proto |-> p, host |-> x, strings |-> cache]
           top == Len(calls)
<1>1. /\ heap' = Append(heap, Blank(p)) /\ instructions' = Append(instructions, <<>>)
      /\ calls' = Append(calls, made)
  BY DEF Enter
<1>2. /\ heap \in Seq(HostProto) /\ Len(heap) \in Nat /\ Blank(p) \in HostProto
      /\ calls \in Seq(Frame) /\ top \in Nat
      /\ \A n \in 1 .. top : calls[n] \in Frame /\ calls[n].host \in 1 .. Len(heap)
  <2>1. heap \in Seq(HostProto) /\ calls \in Seq(Frame)
    BY DEF TypeOK, Frame
  <2>2. Blank(p) \in HostProto
    BY BlankTyped
  <2>3. \A n \in 1 .. top : calls[n] \in Frame
    BY <2>1
  <2>4. \A n \in 1 .. top : calls[n].host \in 1 .. Len(heap)
    BY <2>3 DEF Frame
  <2>5. QED
    BY <2>1, <2>2, <2>3, <2>4
<1>3. /\ Len(heap') = x /\ heap'[x] = Blank(p)
      /\ \A h \in 1 .. Len(heap) : heap'[h] = heap[h]
  BY <1>1, <1>2
<1>4. /\ Len(calls') = top + 1 /\ calls'[top + 1] = made
      /\ \A n \in 1 .. top : calls'[n] = calls[n]
  <2>1. made \in [proto : Protos, host : Nat, strings : Caches]
    BY <1>2
  <2>2. calls \in Seq([proto : Protos, host : Nat, strings : Caches])
    <3>1. Frame \subseteq [proto : Protos, host : Nat, strings : Caches]
      BY <1>2 DEF Frame
    <3>2. QED
      BY <1>2, <3>1, SeqGrows
  <2>3. QED
    BY <1>1, <2>1, <2>2
<1>5. /\ code' = code /\ stack' = stack /\ hostStrings' = hostStrings
  OBVIOUS
<1>6. Codes'
  <2> DEFINE T == {instructions[h] : h \in DOMAIN instructions} \cup {<<>>}
  <2>1. instructions \in Seq(T) /\ Len(instructions) = Len(heap)
    BY DEF Made, Codes
  <2> HIDE DEF T
  <2>2. <<>> \in T
    BY DEF T
  <2>3. instructions' \in Seq(T) /\ Len(instructions') = x
    BY <1>1, <2>1, <2>2
  <2>4. instructions' \in Seq({instructions'[h] : h \in DOMAIN instructions'})
    BY <2>3, SeqOfItsOwn
  <2>5. QED
    BY <1>3, <1>5, <2>3, <2>4 DEF Made, Codes
<1>7. /\ instructions'[x] = <<>>
      /\ \A h \in 1 .. Len(heap) : instructions'[h] = instructions[h]
  <2> DEFINE T == {instructions[h] : h \in DOMAIN instructions} \cup {<<>>}
  <2>1. instructions \in Seq(T) /\ Len(instructions) = Len(heap)
    BY DEF Made, Codes
  <2>2. <<>> \in T
    OBVIOUS
  <2> HIDE DEF T
  <2>3. QED
    BY <1>1, <1>2, <2>1, <2>2
<1>8. Spares(x)
  BY <1>2, <1>3, <1>5, <1>7 DEF Spares
<1>9. Blank(p).live /\ Blank(p).kids = <<>> /\ Blank(p).k = <<>> /\ Blank(p).proto = p
  BY DEF Blank
<1> HIDE DEF x, made
<1>10. \A h \in 1 .. Len(heap) : \A i \in DOMAIN heap[h].kids :
         heap[h].kids[i] \in 1 .. Len(heap)
  BY DEF Made, HeapFits, KidsFit
<1>11. HeapFits'
  <2>1. ASSUME NEW h \in 1 .. Len(heap') PROVE KidsFit(h)' /\ DataFit(h)'
    <3>1. CASE h = x
      <4>1. heap'[h] = Blank(p) /\ instructions'[h] = <<>>
        BY <1>3, <1>7, <3>1
      <4>2. DOMAIN Blank(p).kids = {} /\ Len(Blank(p).kids) = 0 /\ DOMAIN Blank(p).k = {}
        BY <1>9
      <4>3. Len(Kids[p]) \in Nat
        BY ProtosAssumption
      <4>4. KidsFit(h)'
        BY <1>9, <4>1, <4>2, <4>3 DEF KidsFit
      <4>5. DataFit(h)'
        BY <4>1, <4>2 DEF DataFit, StringsOf
      <4>6. QED
        BY <4>4, <4>5
    <3>2. CASE h # x
      <4>1. h \in 1 .. Len(heap) /\ heap'[h] = heap[h]
        BY <1>2, <1>3, <2>1, <3>2 DEF x
      <4>2. KidsFit(h) /\ DataFit(h)
        BY <4>1 DEF Made, HeapFits
      <4>3. \A i \in DOMAIN heap[h].kids : heap[h].kids[i] # x
        BY <1>2, <1>10, <4>1 DEF x
      <4>4. KidsFit(h)'
        BY <1>8, <4>1, <4>2, <4>3, KidsStay
      <4>5. DataFit(h)'
        BY <1>8, <3>2, <4>1, <4>2, DataStay
      <4>6. QED
        BY <4>4, <4>5
    <3>3. QED
      BY <3>1, <3>2
  <2>2. QED
    BY <2>1 DEF HeapFits
<1>12. made.proto = p /\ made.host = x /\ made.strings = cache
  BY DEF made
<1>13. CallsRun'
  <2>1. ASSUME NEW n \in 1 .. Len(calls')
        PROVE  /\ n = 1 => calls'[n].proto = Root
               /\ n < Len(calls') => Waits(n)'
               /\ heap'[calls'[n].host].live
               /\ \A h \in DOMAIN calls'[n].strings : calls'[n].strings[h] \in hostStrings'
    <3>1. CASE n = top + 1
      <4>1. n = 1 => calls = <<>>
        BY <1>2, <3>1, EmptySeq
      <4>2. QED
        BY <1>2, <1>3, <1>4, <1>5, <1>9, <1>12, <3>1, <4>1
    <3>2. CASE n # top + 1
      <4>1. n \in 1 .. top /\ calls'[n] = calls[n]
        BY <1>2, <1>4, <2>1, <3>2
      <4>2. heap'[calls[n].host] = heap[calls[n].host]
        BY <1>2, <1>3, <4>1
      <4>3. /\ n = 1 => calls[n].proto = Root
            /\ n < top => Waits(n)
            /\ heap[calls[n].host].live
            /\ \A h \in DOMAIN calls[n].strings : calls[n].strings[h] \in hostStrings
        BY <4>1 DEF Made, CallsRun
      <4>4. Waits(n)'
        <5>1. CASE n = top
          <6>1. calls # <<>> /\ Call = calls[n] /\ calls'[n + 1].proto = p
            BY <1>4, <1>12, <4>1, <5>1 DEF Call
          <6>2. QED
            BY <4>1, <4>2, <6>1 DEF Waits, Target, Source
        <5>2. CASE n # top
          <6>1. n < top /\ n + 1 \in 1 .. top
            BY <1>2, <4>1, <5>2
          <6>2. calls'[n + 1] = calls[n + 1]
            BY <1>4, <6>1
          <6>3. QED
            BY <4>1, <4>2, <4>3, <6>1, <6>2 DEF Waits
        <5>3. QED
          BY <5>1, <5>2
      <4>5. QED
        BY <1>5, <4>1, <4>2, <4>3, <4>4
    <3>3. QED
      BY <3>1, <3>2
  <2>2. QED
    BY <2>1 DEF CallsRun
<1>14. RunningApart'
  <2>1. ASSUME NEW n \in 1 .. Len(calls')
        PROVE  /\ calls'[n].host \notin stack'
               /\ \A m \in 1 .. Len(calls') : calls'[m].host = calls'[n].host => m = n
               /\ \A h \in 1 .. Len(heap') : \A i \in DOMAIN heap'[h].kids :
                    heap'[h].kids[i] # calls'[n].host
    <3>1. \A m \in 1 .. Len(calls') :
            \/ m = top + 1 /\ calls'[m].host = x
            \/ m \in 1 .. top /\ calls'[m] = calls[m] /\ calls'[m].host \in 1 .. Len(heap)
      BY <1>2, <1>4, <1>12, SMTT(30)
    <3>2. x \notin 1 .. Len(heap) /\ stack \subseteq 1 .. Len(heap)
      BY <1>2 DEF x, TypeOK
    <3>3. \A h \in 1 .. Len(heap') : \A i \in DOMAIN heap'[h].kids :
            h \in 1 .. Len(heap) /\ heap'[h] = heap[h]
      <4>1. ASSUME NEW h \in 1 .. Len(heap'), NEW i \in DOMAIN heap'[h].kids
            PROVE  h \in 1 .. Len(heap)
        BY <1>2, <1>3, <1>9, <4>1 DEF x
      <4>2. QED
        BY <1>3, <4>1
    <3>4. CASE n = top + 1
      <4>1. \A h \in 1 .. Len(heap') : \A i \in DOMAIN heap'[h].kids : heap'[h].kids[i] # x
        BY <1>10, <3>2, <3>3
      <4>2. calls'[n].host = x
        BY <1>4, <1>12, <3>4
      <4>3. \A m \in 1 .. Len(calls') : calls'[m].host = x => m = n
        BY <3>1, <3>2, <3>4
      <4>4. QED
        BY <1>5, <3>2, <4>1, <4>2, <4>3
    <3>5. CASE n \in 1 .. top
      <4>1. /\ calls[n].host \notin stack
            /\ \A m \in 1 .. top : calls[m].host = calls[n].host => m = n
            /\ \A h \in 1 .. Len(heap) : \A i \in DOMAIN heap[h].kids :
                 heap[h].kids[i] # calls[n].host
        BY <3>5 DEF Made, RunningApart
      <4>2. calls'[n] = calls[n] /\ calls[n].host \in 1 .. Len(heap)
        BY <1>2, <1>4, <3>5
      <4>3. \A m \in 1 .. Len(calls') : calls'[m].host = calls[n].host => m = n
        BY <3>1, <3>2, <4>1, <4>2
      <4>4. \A h \in 1 .. Len(heap') : \A i \in DOMAIN heap'[h].kids :
              heap'[h].kids[i] # calls[n].host
        BY <3>3, <4>1
      <4>5. QED
        BY <1>5, <4>1, <4>2, <4>3, <4>4
    <3>6. QED
      BY <1>2, <1>4, <2>1, <3>4, <3>5
  <2>2. QED
    BY <2>1 DEF RunningApart
<1>15. StackWhole'
  <2>1. stack \subseteq 1 .. Len(heap) /\ x \notin stack
    BY <1>2 DEF TypeOK, x
  <2>2. QED
    BY <1>5, <1>8, <2>1, StackStays DEF Made, StackWhole
<1>16. QED
  BY <1>6, <1>11, <1>13, <1>14, <1>15 DEF Made

LEMMA ConstantMakes ==
  ASSUME TypeOK, CallsFit, Made, TranspileConstant
  PROVE  Made'
<1> DEFINE x == Call.host
           top == Len(calls)
           c == Consts[Source][Len(Target.k) + 1]
           value == IF c \in Strings THEN Cached(Call.strings, c) ELSE c
           grown == IF c \in Strings THEN Remember(Call.strings, c) ELSE Call.strings
<1>1. /\ heap' = [heap EXCEPT ![x].k = Append(@, value)]
      /\ hostStrings' = hostStrings \cup
           (IF c \in Strings /\ Hash[c] \notin DOMAIN Call.strings THEN {c} ELSE {})
      /\ ~Idle /\ Len(Target.k) < Len(Consts[Source])
      /\ UNCHANGED <<code, instructions, stack>>
  BY DEF TranspileConstant, source
<1>2. calls' = [calls EXCEPT ![top].strings = grown]
  BY DEF TranspileConstant, Call
<1>3. /\ top \in Nat \ {0} /\ Call \in Frame /\ x \in 1 .. Len(heap)
      /\ heap[x] = Target /\ Target.live /\ x \notin stack
      /\ \A n \in 1 .. top : n # top => calls[n].host # x
      /\ \A h \in 1 .. Len(heap) : \A i \in DOMAIN heap[h].kids : heap[h].kids[i] # x
      /\ DOMAIN instructions = 1 .. Len(heap)
  BY <1>1, InnermostApart
<1>4. /\ heap \in Seq(HostProto) /\ Len(heap) \in Nat /\ Target \in HostProto
      /\ Target.proto = Source /\ Source \in Protos
      /\ calls \in Seq(Frame) /\ \A n \in 1 .. top : calls[n] \in Frame
  <2>1. heap \in Seq(HostProto) /\ Len(heap) \in Nat /\ calls \in Seq(Frame)
    BY DEF TypeOK, Frame
  <2>2. Target \in HostProto /\ Target.proto = Source
    BY <1>1, CallTyped
  <2>3. Source \in Protos
    BY <2>2 DEF HostProto
  <2>4. QED
    BY <2>1, <2>2, <2>3
<1>5. /\ Len(Consts[Source]) \in Nat /\ Len(Target.k) \in Nat /\ c \in Values
      /\ Len(Target.k) + 1 \in 1 .. Len(Consts[Source])
  BY <1>1, <1>4, ProtosAssumption, SMTT(30) DEF HostProto
<1>6. \A h \in DOMAIN Call.strings : Call.strings[h] \in hostStrings
  BY <1>3 DEF Made, CallsRun, Call
<1>7. value \in Strings => value \in hostStrings'
  <2>1. CASE c \in Strings /\ Hash[c] \in DOMAIN Call.strings
    BY <1>1, <1>6, <2>1 DEF Cached
  <2>2. CASE c \in Strings /\ Hash[c] \notin DOMAIN Call.strings
    BY <1>1, <2>2 DEF Cached
  <2>3. CASE c \notin Strings
    BY <2>3
  <2>4. QED
    BY <2>1, <2>2, <2>3
<1>8. \A h \in DOMAIN grown : grown[h] \in hostStrings'
  <2>1. CASE c \in Strings
    <3>1. Call.strings \in Caches
      BY <1>3 DEF Frame
    <3>2. /\ DOMAIN Remember(Call.strings, c) = DOMAIN Call.strings \cup {Hash[c]}
          /\ \A h \in DOMAIN Remember(Call.strings, c) :
               Remember(Call.strings, c)[h] =
                 IF h \in DOMAIN Call.strings THEN Call.strings[h] ELSE c
      BY <2>1, <3>1, RememberTyped, ZenonT(30)
    <3>3. \A h \in DOMAIN Remember(Call.strings, c) :
            Remember(Call.strings, c)[h] \in hostStrings'
      BY <1>1, <1>6, <2>1, <3>2
    <3>4. QED
      BY <2>1, <3>3
  <2>2. CASE c \notin Strings
    BY <1>1, <1>6, <2>2
  <2>3. QED
    BY <2>1, <2>2
<1> HIDE DEF c, value, grown
<1> DEFINE filled == [Target EXCEPT !.k = Append(@, value)]
<1>9. /\ filled.proto = Target.proto /\ filled.kids = Target.kids
      /\ filled.live = Target.live /\ filled.k = Append(Target.k, value)
  BY <1>4 DEF HostProto
<1>10. /\ heap' = [heap EXCEPT ![x] = filled] /\ Len(heap') = Len(heap)
       /\ heap'[x] = filled
       /\ \A h \in 1 .. Len(heap) : h # x => heap'[h] = heap[h]
  <2>1. heap' = [heap EXCEPT ![x] = filled]
    BY <1>1, <1>3, <1>4
  <2> HIDE DEF filled
  <2>2. QED
    BY <1>3, <1>4, <2>1
<1> HIDE DEF filled
<1>11. /\ Len(calls') = top
       /\ \A n \in 1 .. top : /\ calls'[n].proto = calls[n].proto
                              /\ calls'[n].host = calls[n].host
                              /\ n # top => calls'[n] = calls[n]
       /\ calls'[top].strings = grown
  <2> DEFINE now == [Call EXCEPT !.strings = grown]
  <2>1. now.proto = Call.proto /\ now.host = Call.host /\ now.strings = grown
    BY <1>3 DEF Frame
  <2>2. calls' = [calls EXCEPT ![top] = now]
    BY <1>2, <1>3, <1>4 DEF Call
  <2> HIDE DEF now
  <2>3. QED
    BY <1>3, <1>4, <2>1, <2>2 DEF Call
<1>12. code' = code /\ instructions' = instructions /\ stack' = stack
       /\ hostStrings \subseteq hostStrings'
  BY <1>1
<1>13. Spares(x)
  <2>1. \A h \in 1 .. Len(heap) : heap'[h].proto = heap[h].proto /\ heap'[h].live = heap[h].live
    BY <1>3, <1>9, <1>10
  <2>2. QED
    BY <1>4, <1>10, <1>12, <2>1 DEF Spares
<1>14. Codes'
  BY <1>10, <1>12 DEF Made, Codes
<1>15. HeapFits'
  <2>1. ASSUME NEW h \in 1 .. Len(heap') PROVE KidsFit(h)' /\ DataFit(h)'
    <3>1. h \in 1 .. Len(heap) /\ KidsFit(h) /\ DataFit(h)
      BY <1>10 DEF Made, HeapFits
    <3>2. heap'[h].kids = heap[h].kids
      BY <1>3, <1>9, <1>10, <3>1
    <3>3. KidsFit(h)'
      BY <1>3, <1>13, <3>1, <3>2, KidsStay
    <3>4. DataFit(h)'
      <4>1. CASE h # x
        BY <1>13, <3>1, <4>1, DataStay
      <4>2. CASE h = x
        <5>1. instructions[x] = <<>>
          BY <1>1, <1>3, <1>4, <1>5, <3>1, <4>2 DEF DataFit
        <5>2. heap'[h].k = Append(Target.k, value) /\ Target.k \in Seq(Values)
              /\ instructions'[h] = <<>>
          BY <1>4, <1>9, <1>10, <1>12, <4>2, <5>1 DEF HostProto
        <5>3. \A i \in DOMAIN Append(Target.k, value) :
                \/ Append(Target.k, value)[i] = value
                \/ i \in DOMAIN Target.k /\ Append(Target.k, value)[i] = Target.k[i]
          BY <1>5, <5>2
        <5>4. \A i \in DOMAIN Target.k : Target.k[i] \in Strings => Target.k[i] \in hostStrings
          BY <1>3, <3>1, <4>2 DEF DataFit, StringsOf
        <5>5. \A i \in DOMAIN heap'[h].k : heap'[h].k[i] \in Strings => heap'[h].k[i] \in hostStrings'
          BY <1>7, <1>12, <5>2, <5>3, <5>4
        <5>6. QED
          BY <5>2, <5>5 DEF DataFit, StringsOf
      <4>3. QED
        BY <4>1, <4>2
    <3>5. QED
      BY <3>3, <3>4
  <2>2. QED
    BY <2>1 DEF HeapFits
<1>16. CallsRun'
  <2>1. ASSUME NEW n \in 1 .. Len(calls')
        PROVE  /\ n = 1 => calls'[n].proto = Root
               /\ n < Len(calls') => Waits(n)'
               /\ heap'[calls'[n].host].live
               /\ \A h \in DOMAIN calls'[n].strings : calls'[n].strings[h] \in hostStrings'
    <3>1. /\ n \in 1 .. top /\ calls[n].host \in 1 .. Len(heap)
          /\ calls'[n].host = calls[n].host /\ calls'[n].proto = calls[n].proto
      BY <1>4, <1>11 DEF Frame
    <3>2. /\ n = 1 => calls[n].proto = Root
          /\ n < top => Waits(n)
          /\ heap[calls[n].host].live
          /\ \A h \in DOMAIN calls[n].strings : calls[n].strings[h] \in hostStrings
      BY <3>1 DEF Made, CallsRun
    <3>3. heap'[calls[n].host].live
      BY <1>13, <3>1, <3>2 DEF Spares
    <3>4. ASSUME n < top PROVE Waits(n)'
      <4>1. n + 1 \in 1 .. top /\ n # top
        BY <1>3, <3>1, <3>4
      <4>2. calls'[n + 1].proto = calls[n + 1].proto /\ heap'[calls[n].host] = heap[calls[n].host]
        BY <1>3, <1>10, <1>11, <3>1, <4>1
      <4>3. QED
        BY <3>1, <3>2, <3>4, <4>2 DEF Waits
    <3>5. \A h \in DOMAIN calls'[n].strings : calls'[n].strings[h] \in hostStrings'
      <4>1. CASE n = top
        BY <1>8, <1>11, <4>1
      <4>2. CASE n # top
        BY <1>11, <1>12, <3>1, <3>2, <4>2
      <4>3. QED
        BY <4>1, <4>2
    <3>6. QED
      BY <1>11, <3>1, <3>2, <3>3, <3>4, <3>5
  <2>2. QED
    BY <2>1 DEF CallsRun
<1>17. RunningApart'
  <2>1. \A n \in 1 .. top : calls'[n].host = calls[n].host
    BY <1>11
  <2>2. \A h \in 1 .. Len(heap) : heap'[h].kids = heap[h].kids
    BY <1>3, <1>9, <1>10
  <2>3. QED
    BY <1>10, <1>11, <1>12, <2>1, <2>2 DEF Made, RunningApart
<1>18. StackWhole'
  BY <1>3, <1>12, <1>13, StackStays DEF Made, StackWhole, TypeOK
<1>19. QED
  BY <1>14, <1>15, <1>16, <1>17, <1>18 DEF Made

LEMMA CodeMakes ==
  ASSUME TypeOK, CallsFit, Made, TranspileCode
  PROVE  Made'
<1> DEFINE x == Call.host
           word(n) == Transpiled(code[Source][n], n - 1, Key)
           made == [n \in 1 .. Len(code[Source]) |-> word(n)]
<1>1. /\ instructions' = [instructions EXCEPT ![x] = made]
      /\ ~Idle /\ Len(Target.k) = Len(Consts[Source])
      /\ UNCHANGED <<code, calls, heap, hostStrings, stack>>
  BY DEF TranspileCode, source
<1>2. /\ x \in 1 .. Len(heap) /\ heap[x] = Target /\ x \notin stack
      /\ \A h \in 1 .. Len(heap) : \A i \in DOMAIN heap[h].kids : heap[h].kids[i] # x
      /\ DOMAIN instructions = 1 .. Len(heap)
  BY <1>1, InnermostApart
<1>3. Target.proto = Source /\ Source \in Protos /\ Len(heap) \in Nat
  BY <1>1, CallTyped DEF TypeOK, Frame, Source
<1>4. Len(made) = Len(code[Source])
  <2>1. Len(code[Source]) \in Nat
    BY <1>3 DEF Made, Codes
  <2> HIDE DEF word
  <2>2. made = [i \in 1 .. Len(code[Source]) |-> made[i]]
    OBVIOUS
  <2> HIDE DEF made
  <2>3. QED
    BY <2>1, <2>2, SeqOf
<1> HIDE DEF made
<1>5. /\ instructions'[x] = made
      /\ \A h \in 1 .. Len(heap) : h # x => instructions'[h] = instructions[h]
  BY <1>1, <1>2
<1>6. Codes'
  <2> DEFINE T == {instructions[h] : h \in DOMAIN instructions} \cup {made}
  <2>1. instructions \in Seq(T) /\ Len(instructions) = Len(heap)
    BY DEF Made, Codes
  <2>2. made \in T
    OBVIOUS
  <2> HIDE DEF T
  <2>3. instructions' \in Seq(T) /\ Len(instructions') = Len(heap)
    BY <1>1, <1>2, <2>1, <2>2
  <2>4. instructions' \in Seq({instructions'[h] : h \in DOMAIN instructions'})
    BY <2>3, SeqOfItsOwn
  <2>5. QED
    BY <1>1, <2>3, <2>4 DEF Made, Codes
<1>7. Spares(x)
  BY <1>1, <1>3, <1>5 DEF Spares
<1>8. HeapFits'
  <2>1. ASSUME NEW h \in 1 .. Len(heap') PROVE KidsFit(h)' /\ DataFit(h)'
    <3>1. h \in 1 .. Len(heap) /\ KidsFit(h) /\ DataFit(h) /\ heap'[h] = heap[h]
      BY <1>1 DEF Made, HeapFits
    <3>2. KidsFit(h)'
      BY <1>2, <1>7, <3>1, KidsStay
    <3>3. DataFit(h)'
      <4>1. CASE h # x
        BY <1>7, <3>1, <4>1, DataStay
      <4>2. CASE h = x
        BY <1>1, <1>2, <1>3, <1>4, <1>5, <3>1, <4>2 DEF DataFit, StringsOf
      <4>3. QED
        BY <4>1, <4>2
    <3>4. QED
      BY <3>2, <3>3
  <2>2. QED
    BY <2>1 DEF HeapFits
<1>9. CallsRun' /\ RunningApart'
  BY <1>1 DEF Made, CallsRun, RunningApart, Waits
<1>10. StackWhole'
  BY <1>1, <1>2, <1>7, StackStays DEF Made, StackWhole, TypeOK
<1>11. QED
  BY <1>6, <1>8, <1>9, <1>10 DEF Made

LEMMA ChildMakes ==
  ASSUME TypeOK, CallsFit, Made, TranspileChild
  PROVE  Made'
<1> DEFINE p == Kids[Source][Len(Target.kids) + 1]
<1>1. /\ ~Idle /\ Len(Target.kids) < Len(Kids[Source]) /\ Enter(p, Call.strings)
      /\ UNCHANGED <<code, stack, hostStrings>>
  BY DEF TranspileChild, source
<1>2. /\ Len(calls) \in Nat \ {0} /\ Call \in Frame /\ Target \in HostProto
      /\ Source \in Protos
  BY <1>1, CallTyped DEF Frame, Source
<1>3. p \in Protos
  <2>1. Kids[Source] \in Seq(Protos) /\ Len(Target.kids) \in Nat
    BY <1>2, ProtosAssumption DEF HostProto
  <2>2. QED
    BY <1>1, <2>1
<1>4. Call.strings \in Caches /\ \A h \in DOMAIN Call.strings : Call.strings[h] \in hostStrings
  BY <1>2 DEF Made, CallsRun, Call, Frame
<1>5. calls # <<>>
  BY <1>1 DEF Idle
<1> HIDE DEF p
<1>6. /\ calls = <<>> => p = Root
      /\ calls # <<>> => Len(Target.kids) < Len(Kids[Source]) /\ p = Kids[Source][Len(Target.kids) + 1]
  BY <1>1, <1>5 DEF p
<1>7. QED
  BY <1>1, <1>3, <1>4, <1>6, EnterMakes

(* A finished call has made all of its function. *)
LEMMA DoneIsWhole ==
  ASSUME TypeOK, CallsFit, Made, Done
  PROVE  Whole(Call.host) /\ heap[Call.host].proto = Source
<1>1. /\ ~Idle /\ instructions[Call.host] # <<>> /\ Len(Target.kids) = Len(Kids[Source])
  BY DEF Done, TranspiledCode
<1>2. Call.host \in 1 .. Len(heap) /\ heap[Call.host] = Target /\ Target.live
  BY <1>1, InnermostApart
<1>3. Target.proto = Source
  BY <1>1, CallTyped
<1>4. DataFit(Call.host)
  BY <1>2 DEF Made, HeapFits
<1>5. QED
  BY <1>1, <1>2, <1>3, <1>4 DEF Whole, DataFit

LEMMA ReturnMakes ==
  ASSUME TypeOK, CallsFit, Made, ReturnChild
  PROVE  Made'
<1> DEFINE top == Len(calls)
           caller == Len(calls) - 1
<1> SUFFICES ASSUME NEW x, x = calls[caller].host, NEW y, y = Call.host
             PROVE  Made'
  OBVIOUS
<1>1. /\ Done /\ ~Idle /\ top > 1
      /\ heap' = [heap EXCEPT ![x].kids = Append(@, y)]
      /\ calls' = SubSeq(calls, 1, caller)
      /\ UNCHANGED <<code, instructions, hostStrings, stack>>
  BY DEF ReturnChild, Done, source
<1>2. /\ top \in Nat \ {0} /\ Call \in Frame /\ y \in 1 .. Len(heap)
      /\ y \notin stack
      /\ \A n \in 1 .. top : n # top => calls[n].host # y
      /\ \A h \in 1 .. Len(heap) : \A i \in DOMAIN heap[h].kids : heap[h].kids[i] # y
  BY <1>1, InnermostApart
<1>3. /\ heap \in Seq(HostProto) /\ Len(heap) \in Nat /\ calls \in Seq(Frame)
      /\ \A n \in 1 .. top : calls[n] \in Frame /\ calls[n].host \in 1 .. Len(heap)
  <2>1. heap \in Seq(HostProto) /\ calls \in Seq(Frame)
    BY DEF TypeOK, Frame
  <2>2. \A n \in 1 .. top : calls[n] \in Frame
    BY <2>1, SMTT(30)
  <2>3. QED
    BY <2>1, <2>2, SMTT(30) DEF Frame
<1>4. /\ caller \in 1 .. top /\ caller # top /\ caller < top /\ caller + 1 = top
      /\ x \in 1 .. Len(heap) /\ x # y
      /\ heap[x] \in HostProto /\ heap[x].kids \in Seq(Nat)
  <2>1. caller \in 1 .. top /\ caller # top /\ caller < top /\ caller + 1 = top
    BY <1>1, <1>2, SMTT(30)
  <2>2. x \in 1 .. Len(heap) /\ x # y
    BY <1>2, <1>3, <2>1, ZenonT(30)
  <2>3. heap[x] \in HostProto
    BY <1>3, <2>2, SMTT(30)
  <2>4. QED
    BY <2>1, <2>2, <2>3, ZenonT(30) DEF HostProto
<1>5. /\ x \notin stack
      /\ \A n \in 1 .. top : calls[n].host = x => n = caller
      /\ \A h \in 1 .. Len(heap) : \A i \in DOMAIN heap[h].kids : heap[h].kids[i] # x
  BY <1>4, ZenonT(30) DEF Made, RunningApart
<1>6. Waits(caller)
  BY <1>4, ZenonT(30) DEF Made, CallsRun
<1>7. heap[x].proto = calls[caller].proto
  BY <1>4, ZenonT(30) DEF CallsFit
<1>8. Whole(y) /\ heap[y].proto = Kids[heap[x].proto][Len(heap[x].kids) + 1]
      /\ Len(heap[x].kids) < Len(Kids[heap[x].proto])
  <2>1. Whole(y) /\ heap[y].proto = Source
    BY <1>1, DoneIsWhole, SMTT(30)
  <2>2. Source = calls[caller + 1].proto
    BY <1>4, ZenonT(30) DEF Source, Call
  <2>3. QED
    BY <1>6, <1>7, <2>1, <2>2 DEF Waits
<1> HIDE DEF top, caller
<1> DEFINE filled == [heap[x] EXCEPT !.kids = Append(@, y)]
<1>9. /\ filled.proto = heap[x].proto /\ filled.k = heap[x].k
      /\ filled.live = heap[x].live /\ filled.kids = Append(heap[x].kids, y)
  BY <1>4 DEF HostProto
<1>10. heap' = [heap EXCEPT ![x] = filled]
  BY <1>1, <1>3, <1>4
<1> HIDE DEF filled
<1>11. /\ Len(heap') = Len(heap) /\ heap'[x] = filled
       /\ \A h \in 1 .. Len(heap) : h # x => heap'[h] = heap[h]
  BY <1>3, <1>4, <1>10
<1>12. /\ Len(calls') = caller /\ caller \in Nat
       /\ \A n \in 1 .. caller : calls'[n] = calls[n] /\ n \in 1 .. top
  BY <1>1, <1>3, <1>4, SMTT(30)
<1>13. code' = code /\ instructions' = instructions /\ stack' = stack
       /\ hostStrings' = hostStrings
  BY <1>1
<1>14. Spares(x)
  BY <1>3, <1>9, <1>11, <1>13, SMTT(30) DEF Spares
<1>15. Codes'
  BY <1>11, <1>13 DEF Made, Codes
<1>16. HeapFits'
  <2>1. ASSUME NEW h \in 1 .. Len(heap') PROVE KidsFit(h)' /\ DataFit(h)'
    <3>1. h \in 1 .. Len(heap) /\ KidsFit(h) /\ DataFit(h)
      BY <1>11 DEF Made, HeapFits
    <3>2. CASE h # x
      <4>1. heap'[h].kids = heap[h].kids
        BY <1>11, <3>1, <3>2
      <4>2. QED
        BY <1>5, <1>14, <3>1, <3>2, <4>1, KidsStay, DataStay
    <3>3. CASE h = x
      <4> DEFINE kids == heap[x].kids
                 more == Append(kids, y)
      <4>1. /\ Len(kids) \in Nat /\ Len(more) = Len(kids) + 1 /\ more[Len(kids) + 1] = y
            /\ \A i \in DOMAIN kids : more[i] = kids[i] /\ i \in 1 .. Len(kids)
            /\ \A i \in DOMAIN more : i = Len(kids) + 1 \/ i \in DOMAIN kids
        <5>1. y \in Nat /\ kids \in Seq(Nat)
          BY <1>2, <1>3, <1>4, SMTT(30)
        <5> HIDE DEF kids
        <5>2. QED
          BY <5>1, SMTT(30)
      <4>2. /\ Len(kids) <= Len(Kids[heap[x].proto])
            /\ \A i \in DOMAIN kids :
                 /\ kids[i] \in 1 .. Len(heap) /\ Whole(kids[i])
                 /\ heap[kids[i]].proto = Kids[heap[x].proto][i]
            /\ \A i, j \in DOMAIN kids : kids[i] = kids[j] => i = j
        <5>1. KidsFit(x) BY <3>1, <3>3, Zenon
        <5> QED BY <5>1, Zenon DEF KidsFit
      <4>3. heap'[x].kids = more /\ heap'[x].proto = heap[x].proto /\ heap'[x].k = heap[x].k
        BY <1>9, <1>11
      <4>4. Len(Kids[heap[x].proto]) \in Nat
        BY <1>4, ProtosAssumption, SMTT(30) DEF HostProto
      <4>5. \A i \in DOMAIN kids : kids[i] # x /\ kids[i] # y
        BY <1>2, <1>4, <1>5
      <4> HIDE DEF more, kids
      <4>6. \A z \in 1 .. Len(heap) : z # x /\ Whole(z) => Whole(z)' /\ heap'[z] = heap[z]
        BY <1>11, <1>13, WholeStays
      <4>7. ASSUME NEW i \in DOMAIN more, NEW z, z = more[i]
            PROVE  /\ z \in 1 .. Len(heap) /\ Whole(z)'
                   /\ heap'[z].proto = Kids[heap[x].proto][i]
        <5>1. CASE i \in DOMAIN kids
          BY <4>1, <4>2, <4>5, <4>6, <4>7, <5>1, SMTT(30)
        <5>2. CASE i = Len(kids) + 1
          BY <1>2, <1>4, <1>8, <4>1, <4>6, <4>7, <5>2, SMTT(30) DEF kids
        <5>3. QED
          BY <4>1, <4>7, <5>1, <5>2
      <4>8. \A i, j \in DOMAIN more : more[i] = more[j] => i = j
        BY <4>1, <4>2, <4>5, SMTT(30)
      <4>9. Len(more) <= Len(Kids[heap[x].proto])
        BY <1>8, <4>1, <4>4, SMTT(30) DEF kids
      <4>10. KidsFit(h)'
        <5>1. ASSUME NEW i \in DOMAIN heap'[x].kids
              PROVE  /\ heap'[x].kids[i] \in 1 .. Len(heap') /\ Whole(heap[x].kids[i])'
                     /\ heap'[heap'[x].kids[i]].proto = Kids[heap[x].proto][i]
          <6>1. PICK z : z = heap'[x].kids[i]
            OBVIOUS
          <6>2. i \in DOMAIN more /\ z = more[i]
            BY <4>3, <5>1, <6>1
          <6>3. z \in 1 .. Len(heap) /\ Whole(z)' /\ heap'[z].proto = Kids[heap[x].proto][i]
            BY <4>7, <6>2, SMTT(30)
          <6>4. Whole(heap[x].kids[i])'
            BY <6>1, <6>3 DEF Whole
          <6>5. QED
            BY <1>11, <6>1, <6>3, <6>4
        <5>2. KidsFit(x)'
          BY <4>3, <4>8, <4>9, <5>1 DEF KidsFit
        <5>3. QED
          BY <3>3, <5>2
      <4>11. DataFit(h)'
        BY <1>13, <3>1, <3>3, <4>3 DEF DataFit, StringsOf
      <4>12. QED
        BY <4>10, <4>11
    <3>4. QED
      BY <3>2, <3>3
  <2>2. QED
    BY <2>1 DEF HeapFits
<1>17. CallsRun'
  <2>1. ASSUME NEW n \in 1 .. Len(calls')
        PROVE  /\ n = 1 => calls'[n].proto = Root
               /\ n < Len(calls') => Waits(n)'
               /\ heap'[calls'[n].host].live
               /\ \A h \in DOMAIN calls'[n].strings : calls'[n].strings[h] \in hostStrings'
    <3>1. n \in 1 .. top /\ n < top /\ calls'[n] = calls[n] /\ calls[n].host \in 1 .. Len(heap)
      BY <1>2, <1>3, <1>4, <1>12
    <3>2. /\ n = 1 => calls[n].proto = Root
          /\ Waits(n)
          /\ heap[calls[n].host].live
          /\ \A h \in DOMAIN calls[n].strings : calls[n].strings[h] \in hostStrings
      BY <3>1 DEF Made, CallsRun, top
    <3>3. heap'[calls[n].host].live
      BY <1>14, <3>1, <3>2 DEF Spares
    <3>4. ASSUME n < Len(calls') PROVE Waits(n)'
      <4>1. n + 1 \in 1 .. caller /\ n # caller
        BY <1>12, <3>1, <3>4
      <4>2. calls'[n + 1] = calls[n + 1] /\ heap'[calls[n].host] = heap[calls[n].host]
        BY <1>5, <1>11, <1>12, <3>1, <4>1
      <4>3. QED
        BY <3>1, <3>2, <4>2 DEF Waits
    <3>5. QED
      BY <1>13, <3>1, <3>2, <3>3, <3>4
  <2>2. QED
    BY <2>1 DEF CallsRun
<1>18. RunningApart'
  <2>1. ASSUME NEW n \in 1 .. Len(calls')
        PROVE  /\ calls'[n].host \notin stack'
               /\ \A m \in 1 .. Len(calls') : calls'[m].host = calls'[n].host => m = n
               /\ \A h \in 1 .. Len(heap') : \A i \in DOMAIN heap'[h].kids :
                    heap'[h].kids[i] # calls'[n].host
    <3>1. n \in 1 .. top /\ n # top /\ calls'[n] = calls[n]
      BY <1>2, <1>4, <1>12, SMTT(30)
    <3>2. /\ calls[n].host \notin stack
          /\ \A m \in 1 .. top : calls[m].host = calls[n].host => m = n
          /\ \A h \in 1 .. Len(heap) : \A i \in DOMAIN heap[h].kids :
               heap[h].kids[i] # calls[n].host
      BY <3>1 DEF Made, RunningApart, top
    <3>3. calls[n].host # y
      BY <1>2, <3>1, SMTT(30)
    <3>4. \A i \in DOMAIN heap'[x].kids :
            \/ heap'[x].kids[i] = y
            \/ i \in DOMAIN heap[x].kids /\ heap'[x].kids[i] = heap[x].kids[i]
      <4>1. y \in Nat /\ heap[x].kids \in Seq(Nat)
        BY <1>2, <1>3, <1>4, SMTT(30)
      <4>2. heap'[x].kids = Append(heap[x].kids, y)
        BY <1>9, <1>11
      <4>3. QED
        BY <4>1, <4>2, SMTT(30)
    <3>5. ASSUME NEW h \in 1 .. Len(heap'), NEW i \in DOMAIN heap'[h].kids
          PROVE  heap'[h].kids[i] # calls[n].host
      <4>1. CASE h = x
        BY <1>4, <3>2, <3>3, <3>4, <3>5, <4>1, SMTT(30)
      <4>2. CASE h # x
        BY <1>11, <3>2, <3>5, <4>2
      <4>3. QED
        BY <4>1, <4>2
    <3>6. QED
      BY <1>12, <1>13, <3>1, <3>2, <3>5
  <2>2. QED
    BY <2>1 DEF RunningApart
<1>19. StackWhole'
  BY <1>5, <1>13, <1>14, StackStays, SMTT(30) DEF Made, StackWhole, TypeOK
<1>20. QED
  BY <1>15, <1>16, <1>17, <1>18, <1>19 DEF Made

LEMMA EndMakes ==
  ASSUME TypeOK, CallsFit, Made, ProtoConversionEnds
  PROVE  Made'
<1>1. /\ Done /\ ~Idle /\ Len(calls) = 1 /\ calls' = <<>>
      /\ stack' = stack \cup {Call.host}
      /\ UNCHANGED <<code, instructions, heap, hostStrings>>
  BY DEF ProtoConversionEnds, Done, source
<1>2. Source = Root
  BY <1>1 DEF Made, CallsRun, Source, Call
<1>3. Whole(Call.host) /\ heap[Call.host].proto = Root
  BY <1>1, <1>2, DoneIsWhole, SMTT(30)
<1>4. Codes' /\ HeapFits'
  BY <1>1, SMTT(30) DEF Made, Codes, HeapFits, KidsFit, DataFit, Whole, StringsOf
<1>5. StackWhole'
  <2>1. \A h : Whole(h) => Whole(h)'
    BY <1>1 DEF Whole
  <2>2. QED
    BY <1>1, <1>3, <2>1 DEF Made, StackWhole
<1>6. CallsRun' /\ RunningApart'
  BY <1>1 DEF CallsRun, RunningApart
<1>7. QED
  BY <1>4, <1>5, <1>6 DEF Made

------------------------------------------------------------------------------
(* The host *)

(* What can be reached is the least set that holds X and what its members
   refer to. *)
LEMMA ReachClosed ==
  ASSUME heap \in Seq(HostProto), NEW X \in SUBSET (1 .. Len(heap)),
         \A h \in 1 .. Len(heap) : References(h) \subseteq 1 .. Len(heap)
  PROVE  /\ Reach(X) \subseteq 1 .. Len(heap) /\ X \subseteq Reach(X)
         /\ \A h \in Reach(X) : References(h) \subseteq Reach(X)
<1>1. DOMAIN heap = 1 .. Len(heap)
  OBVIOUS
<1>2. Reach(X) \subseteq 1 .. Len(heap) /\ X \subseteq Reach(X)
  BY <1>1 DEF Reach
<1>3. ASSUME NEW h \in Reach(X), NEW r \in References(h) PROVE r \in Reach(X)
  <2>1. r \in DOMAIN heap
    BY <1>1, <1>2, <1>3
  <2>2. ASSUME NEW S \in SUBSET DOMAIN heap, X \subseteq S,
               \A s \in S : References(s) \subseteq S
        PROVE  r \in S
    BY <1>3, <2>2 DEF Reach
  <2>3. QED
    BY <2>1, <2>2 DEF Reach
<1>4. QED
  BY <1>2, <1>3

LEMMA ReachLeast ==
  ASSUME NEW X, NEW S \in SUBSET DOMAIN heap, X \subseteq S,
         \A s \in S : References(s) \subseteq S
  PROVE  Reach(X) \subseteq S
BY DEF Reach

LEMMA ReferencesFit ==
  ASSUME HeapFits, NEW h \in 1 .. Len(heap)
  PROVE  \A r \in References(h) : r \in 1 .. Len(heap) /\ Whole(r)
BY DEF HeapFits, KidsFit, References

LEMMA CollectMakes ==
  ASSUME TypeOK, Made, calls = <<>>, HostCollects
  PROVE  Made'
<1> DEFINE kept == Reach(stack)
<1>1. /\ heap' = [h \in DOMAIN heap |-> IF h \in kept THEN heap[h] ELSE Freed]
      /\ instructions' = [h \in DOMAIN heap |-> IF h \in kept THEN instructions[h] ELSE <<>>]
      /\ hostStrings' = UNION {StringsOf(h) : h \in kept}
      /\ UNCHANGED <<code, calls, stack>>
  BY DEF HostCollects, source
<1>2. heap \in Seq(HostProto) /\ DOMAIN heap = 1 .. Len(heap) /\ Len(heap) \in Nat
      /\ stack \subseteq 1 .. Len(heap)
  BY DEF TypeOK
<1>3. /\ kept \subseteq 1 .. Len(heap) /\ stack \subseteq kept
      /\ \A h \in kept : References(h) \subseteq kept
  <2>1. \A h \in 1 .. Len(heap) : References(h) \subseteq 1 .. Len(heap)
    BY ReferencesFit DEF Made
  <2>2. QED
    BY <1>2, <2>1, ReachClosed
<1> HIDE DEF kept
<1>4. /\ DOMAIN heap' = 1 .. Len(heap) /\ Len(heap') = Len(heap)
      /\ \A h \in 1 .. Len(heap) :
           /\ h \in kept => heap'[h] = heap[h] /\ instructions'[h] = instructions[h]
           /\ h \notin kept => heap'[h] = Freed /\ instructions'[h] = <<>>
  <2>1. /\ DOMAIN heap' = 1 .. Len(heap)
        /\ \A h \in 1 .. Len(heap) :
             /\ h \in kept => heap'[h] = heap[h] /\ instructions'[h] = instructions[h]
             /\ h \notin kept => heap'[h] = Freed /\ instructions'[h] = <<>>
    BY <1>1, <1>2
  <2>2. heap' = [h \in 1 .. Len(heap) |-> heap'[h]]
    BY <1>1, <1>2
  <2>3. QED
    BY <1>2, <2>1, <2>2, SeqOf
<1>5. Codes'
  <2>1. instructions' = [h \in 1 .. Len(heap) |-> instructions'[h]]
    BY <1>1, <1>2
  <2>2. /\ instructions' \in Seq({instructions'[h] : h \in DOMAIN instructions'})
        /\ Len(instructions') = Len(heap)
    BY <1>2, <2>1, SeqOf
  <2>3. QED
    BY <1>1, <1>4, <2>2 DEF Made, Codes
<1>6. \A h \in kept : Whole(h) => Whole(h)'
  BY <1>1, <1>3, <1>4, WholeStays
<1>7. HeapFits'
  <2>1. ASSUME NEW h \in 1 .. Len(heap') PROVE KidsFit(h)' /\ DataFit(h)'
    <3>1. CASE h \in kept
      <4>1. heap'[h] = heap[h] /\ instructions'[h] = instructions[h] /\ code' = code
        BY <1>1, <1>4, <2>1, <3>1
      <4>2. KidsFit(h) /\ DataFit(h)
        BY <1>4, <2>1 DEF Made, HeapFits
      <4>3. ASSUME NEW i \in DOMAIN heap[h].kids
            PROVE  /\ heap[h].kids[i] \in 1 .. Len(heap') /\ Whole(heap[h].kids[i])'
                   /\ heap'[heap[h].kids[i]].proto = Kids[heap[h].proto][i]
        <5>1. heap[h].kids[i] \in kept
          BY <1>3, <3>1, <4>3 DEF References
        <5>2. Whole(heap[h].kids[i]) /\ heap[heap[h].kids[i]].proto = Kids[heap[h].proto][i]
          BY <4>2, <4>3 DEF KidsFit
        <5>3. heap'[heap[h].kids[i]] = heap[heap[h].kids[i]]
          BY <1>3, <1>4, <5>1
        <5>4. QED
          BY <1>3, <1>4, <1>6, <4>1, <5>1, <5>2, <5>3
      <4>4. KidsFit(h)'
        <5>1. /\ Len(heap[h].kids) <= Len(Kids[heap[h].proto])
              /\ \A i, j \in DOMAIN heap[h].kids : heap[h].kids[i] = heap[h].kids[j] => i = j
          BY <4>2 DEF KidsFit
        <5>2. QED
          BY <4>1, <4>3, <5>1 DEF KidsFit
      <4>5. DataFit(h)'
        BY <1>1, <3>1, <4>1, <4>2 DEF DataFit, StringsOf
      <4>6. QED
        BY <4>4, <4>5
    <3>2. CASE h \notin kept
      <4>1. heap'[h] = Freed /\ instructions'[h] = <<>>
        BY <1>4, <2>1, <3>2
      <4>2. Freed.kids = <<>> /\ Freed.k = <<>> /\ Freed.proto = Root
        BY DEF Freed, Blank
      <4>3. Len(Kids[Root]) \in Nat /\ DOMAIN Freed.kids = {} /\ Len(Freed.kids) = 0
            /\ DOMAIN Freed.k = {}
        BY <4>2, ProtosAssumption
      <4>4. KidsFit(h)'
        BY <4>1, <4>2, <4>3 DEF KidsFit
      <4>5. DataFit(h)'
        BY <4>1, <4>3 DEF DataFit, StringsOf
      <4>6. QED
        BY <4>4, <4>5
    <3>3. QED
      BY <3>1, <3>2
  <2>2. QED
    BY <2>1 DEF HeapFits
<1>8. StackWhole'
  <2>1. ASSUME NEW h \in stack PROVE Whole(h)' /\ heap'[h].proto = Root
    BY <1>2, <1>3, <1>4, <1>6, <2>1 DEF Made, StackWhole
  <2>2. QED
    BY <1>1, <2>1 DEF StackWhole
<1>9. CallsRun' /\ RunningApart'
  <2>1. Len(calls') = 0
    BY <1>1
  <2>2. QED
    BY <2>1 DEF CallsRun, RunningApart
<1>10. QED
  BY <1>5, <1>7, <1>8, <1>9 DEF Made

(* A step that changes none of this. *)
LEMMA SameMade ==
  ASSUME Made, UNCHANGED <<code, calls, heap, instructions, hostStrings, stack>>
  PROVE  Made'
<1>1. Codes'
  BY SMTT(30) DEF Made, Codes
<1>2. HeapFits' /\ StackWhole'
  BY DEF Made, HeapFits, KidsFit, DataFit, StackWhole, Whole, StringsOf
<1>3. CallsRun' /\ RunningApart'
  BY DEF Made, CallsRun, RunningApart, Waits
<1>4. QED
  BY <1>1, <1>2, <1>3, SMTT(30) DEF Made

(* Calls that are gone, and closures that the host has dropped. *)
LEMMA FewerMade ==
  ASSUME Made, UNCHANGED <<code, heap, instructions, hostStrings>>,
         calls' = <<>>, stack' \subseteq stack
  PROVE  Made'
<1>1. Codes'
  BY SMTT(30) DEF Made, Codes
<1>2. HeapFits' /\ StackWhole'
  BY DEF Made, HeapFits, KidsFit, DataFit, StackWhole, Whole, StringsOf
<1>3. CallsRun' /\ RunningApart'
  BY DEF CallsRun, RunningApart
<1>4. QED
  BY <1>1, <1>2, <1>3 DEF Made

LEMMA InitiallyMade == Init => Made
<1> SUFFICES ASSUME Init PROVE Made
  OBVIOUS
<1>1. /\ heap = <<>> /\ calls = <<>> /\ stack = {} /\ instructions = <<>>
      /\ code \in [Protos -> Seq(Instruction)]
  BY ProtosAssumption DEF Init
<1>2. Codes
  BY <1>1 DEF Codes
<1>3. HeapFits /\ CallsRun /\ RunningApart /\ StackWhole
  BY <1>1 DEF HeapFits, CallsRun, RunningApart, StackWhole
<1>4. QED
  BY <1>2, <1>3 DEF Made

LEMMA StepMakes == Inv /\ Made /\ [Next]_vars => Made'
<1> SUFFICES ASSUME TypeOK, PausedOnlyAfterFailure, CallsFit, Made, [Next]_vars PROVE Made'
  BY DEF Inv
<1>1. CASE ProtoConversionRejects
  BY <1>1, SameMade DEF ProtoConversionRejects, source
<1>2. CASE ProtoConversionBegins
  <2>1. NoCache \in Caches /\ DOMAIN NoCache = {}
    BY SMTT(30) DEF NoCache, Caches
  <2>2. Enter(Root, NoCache) /\ calls = <<>> /\ UNCHANGED <<code, stack, hostStrings>>
    BY <1>2 DEF ProtoConversionBegins, source, Idle
  <2>3. Root \in Protos
    BY ProtosAssumption
  <2>4. QED
    BY <2>1, <2>2, <2>3, EnterMakes
<1>3. CASE TranspileConstant
  BY <1>3, ConstantMakes
<1>4. CASE TranspileCode
  BY <1>4, CodeMakes
<1>5. CASE TranspileChild
  BY <1>5, ChildMakes
<1>6. CASE ReturnChild
  BY <1>6, ReturnMakes
<1>7. CASE ProtoConversionEnds
  BY <1>7, EndMakes
<1>8. CASE HostRaises
  BY <1>8, FewerMade DEF HostRaises, source
<1>9. CASE HostCollects
  <2>1. calls = <<>>
    BY <1>9 DEF HostCollects, PausedOnlyAfterFailure, Idle
  <2>2. QED
    BY <1>9, <2>1, CollectMakes
<1>10. CASE \E h \in stack : HostDrops(h)
  BY <1>10, FewerMade DEF HostDrops, source, Idle
<1>11. CASE UNCHANGED vars
  BY <1>11, SameMade DEF vars, source
<1>12. QED
  BY <1>1, <1>2, <1>3, <1>4, <1>5, <1>6, <1>7, <1>8, <1>9, <1>10, <1>11
     DEF Next, Conversion, Host

LEMMA MadeIsWhole == TypeOK /\ CallsFit /\ Made => ClosureIsTheScript
<1> SUFFICES ASSUME TypeOK, Made PROVE ClosureIsTheScript
  OBVIOUS
<1> DEFINE hosts == {calls[n].host : n \in DOMAIN calls}
           held == {h \in DOMAIN heap : heap[h].live}
           done == {h \in DOMAIN heap : Whole(h)}
<1>1. /\ DOMAIN heap = 1 .. Len(heap) /\ DOMAIN calls = 1 .. Len(calls)
      /\ stack \subseteq 1 .. Len(heap) /\ hosts \subseteq 1 .. Len(heap)
  <2>1. heap \in Seq(HostProto) /\ calls \in Seq(Frame) /\ stack \subseteq 1 .. Len(heap)
    BY DEF TypeOK, Frame
  <2>2. \A n \in 1 .. Len(calls) : calls[n] \in Frame
    BY <2>1
  <2>3. \A n \in 1 .. Len(calls) : calls[n].host \in 1 .. Len(heap)
    BY <2>2 DEF Frame
  <2>4. QED
    BY <2>1, <2>3
<1>2. \A h \in DOMAIN heap : KidsFit(h) /\ DataFit(h) /\ \A r \in References(h) : r \in done
  BY <1>1, ReferencesFit DEF Made, HeapFits
<1>3. done \subseteq held
  BY DEF Whole
<1>4. stack \subseteq done /\ hosts \subseteq held
  BY <1>1 DEF Made, StackWhole, CallsRun
<1>5. Reach(stack) \subseteq done
  BY <1>2, <1>4, ReachLeast
<1>6. Reach(stack \cup hosts) \subseteq held
  BY <1>2, <1>3, <1>4, ReachLeast
<1>7. NothingLost
  <2>1. \A n \in DOMAIN calls :
          {calls[n].strings[h] : h \in DOMAIN calls[n].strings} \subseteq hostStrings
    BY <1>1 DEF Made, CallsRun
  <2>2. \A h \in Reach(stack \cup hosts) : heap[h].live /\ StringsOf(h) \subseteq hostStrings
    BY <1>2, <1>6 DEF DataFit
  <2>3. QED
    BY <2>1, <2>2 DEF NothingLost
<1>8. \A h \in stack : heap[h].proto = Root
  BY DEF Made, StackWhole
<1>9. ASSUME NEW h \in Reach(stack)
      PROVE  LET made == heap[h] IN
               /\ Len(made.k) = Len(Consts[made.proto])
               /\ Len(instructions[h]) = Len(code[made.proto])
               /\ [i \in DOMAIN made.kids |-> heap[made.kids[i]].proto] = Kids[made.proto]
               /\ \A i, j \in DOMAIN made.kids : made.kids[i] = made.kids[j] => i = j
  <2>1. h \in DOMAIN heap /\ Whole(h) /\ KidsFit(h)
    BY <1>2, <1>5, <1>9
  <2>2. heap[h] \in HostProto
    BY <2>1 DEF TypeOK
  <2>3. heap[h].kids \in Seq(Nat) /\ Kids[heap[h].proto] \in Seq(Protos)
    BY <2>2, ProtosAssumption DEF HostProto
  <2>4. Len(heap[h].kids) = Len(Kids[heap[h].proto])
        /\ \A i \in DOMAIN heap[h].kids :
             heap[heap[h].kids[i]].proto = Kids[heap[h].proto][i]
    BY <2>1 DEF Whole, KidsFit
  <2>5. [i \in DOMAIN heap[h].kids |-> heap[heap[h].kids[i]].proto] = Kids[heap[h].proto]
    BY <2>3, <2>4, SMTT(30)
  <2>6. QED
    BY <2>1, <2>5 DEF Whole, KidsFit
<1>10. QED
  BY <1>7, <1>8, <1>9 DEF ClosureIsTheScript

(* conversion.cpp:52, 371: the closure on the host's stack is the whole script,
   each function with all its constants and code and its nested functions in
   their order, and the host's collector takes nothing of it, nor of what a
   conversion has made so far; whatever errors of the host come between. *)
THEOREM ClosuresAreScripts == Spec => []ClosureIsTheScript
<1>1. Init => Inv /\ Made
  BY Initially, InitiallyMade
<1>2. Inv /\ Made /\ [Next]_vars => (Inv /\ Made)'
  BY Step, StepMakes
<1>3. Inv /\ Made => ClosureIsTheScript
  BY MadeIsWhole DEF Inv
<1>4. QED
  BY <1>1, <1>2, <1>3, PTL DEF Spec

------------------------------------------------------------------------------
(* The code.  Powers of two first: there are twice as many subsets of one element
   more. *)

LEMMA Least ==
  ASSUME NEW S \in SUBSET Nat, S # {}
  PROVE  \E m \in S : \A k \in S : m <= k
<1> DEFINE R == OpToRel(<, Nat)
<1>1. IsWellFoundedOn(R, Nat) BY NatLessThanWellFounded
<1> HIDE DEF R
<1>2. PICK m \in S : \A k \in S : ~(<<k, m>> \in R) BY <1>1, WFMin
<1>3. \A k \in S : ~(k < m)
  <2> TAKE k \in S
  <2>1. k \in Nat /\ m \in Nat OBVIOUS
  <2>2. k < m => <<k, m>> \in R BY <2>1 DEF R, OpToRel
  <2> QED BY <1>2, <2>2
<1> QED BY <1>3

(* What holds at 0 and goes on by one holds up to a bound. *)
LEMMA Climb ==
  ASSUME NEW bound \in Nat, NEW P, 0 \in P, \A x \in 0..bound : x # 0 /\ x - 1 \in P => x \in P
  PROVE  bound \in P
<1> SUFFICES ASSUME bound \notin P PROVE FALSE OBVIOUS
<1> DEFINE S == {x \in 0..bound : x \notin P}
<1>1. S \in SUBSET Nat /\ S # {} OBVIOUS
<1>2. PICK m \in S : \A k \in S : m <= k BY <1>1, Least
<1>3. m \in 0..bound /\ m \notin P /\ m # 0 OBVIOUS
<1>4. m - 1 \in 0..bound /\ ~(m <= m - 1) BY <1>3
<1>5. m - 1 \in P BY <1>2, <1>4
<1> QED BY <1>3, <1>5

LEMMA Doubles ==
  /\ 2 ^ 0 = 1
  /\ \A k \in Nat : 2 ^ k \in Nat /\ 2 ^ (k + 1) = 2 * 2 ^ k
<1>1. 2 ^ 0 = 1
  <2>1. Cardinality(SUBSET {}) = 2 ^ Cardinality({}) BY FS_EmptySet, FS_SUBSET
  <2>2. Cardinality({{}}) = 1
    <3>1. Cardinality({} \cup {{}}) = Cardinality({}) + 1 BY FS_EmptySet, FS_AddElement
    <3>2. {} \cup {{}} = {{}} OBVIOUS
    <3> QED BY <3>1, <3>2, FS_EmptySet
  <2>3. SUBSET {} = {{}} OBVIOUS
  <2> QED BY <2>1, <2>2, <2>3, FS_EmptySet
<1>2. \A k \in Nat : IsFiniteSet(SUBSET (1..k)) /\ Cardinality(SUBSET (1..k)) = 2 ^ k
  <2> SUFFICES ASSUME NEW k \in Nat
      PROVE  IsFiniteSet(SUBSET (1..k)) /\ Cardinality(SUBSET (1..k)) = 2 ^ k
    OBVIOUS
  <2>1. IsFiniteSet(1..k) /\ Cardinality(1..k) = k
    <3>1. 1 \in Int /\ k \in Int OBVIOUS
    <3>2. IsFiniteSet(1..k) /\ Cardinality(1..k) = IF 1 > k THEN 0 ELSE k - 1 + 1
      BY <3>1, FS_Interval
    <3> QED BY <3>2
  <2> QED BY <2>1, FS_SUBSET
<1>3. ASSUME NEW k \in Nat PROVE 2 ^ k \in Nat /\ 2 ^ (k + 1) = 2 * 2 ^ k
  <2> DEFINE old == SUBSET (1..k)
             new == {s \cup {k + 1} : s \in old}
             f == [s \in old |-> s \cup {k + 1}]
  <2>1. IsFiniteSet(old) /\ Cardinality(old) = 2 ^ k BY <1>2
  <2>2. f \in Bijection(old, new)
    <3>1. f \in [old -> new] OBVIOUS
    <3>2. \A x, y \in old : f[x] = f[y] => x = y
      <4> SUFFICES ASSUME NEW x \in old, NEW y \in old, f[x] = f[y] PROVE x = y OBVIOUS
      <4>1. x \cup {k + 1} = y \cup {k + 1} OBVIOUS
      <4>2. k + 1 \notin x /\ k + 1 \notin y OBVIOUS
      <4> QED BY <4>1, <4>2
    <3>3. \A z \in new : \E x \in old : f[x] = z OBVIOUS
    <3> QED BY <3>1, <3>2, <3>3 DEF Bijection, Injection, Surjection, IsInjective
  <2>3. IsFiniteSet(new) /\ Cardinality(new) = 2 ^ k
    BY <2>1, <2>2, FS_Bijection DEF ExistsBijection
  <2>4. SUBSET (1..k + 1) = old \cup new
    <3>1. \A s \in SUBSET (1..k + 1) : s \in old \cup new
      <4> SUFFICES ASSUME NEW s \in SUBSET (1..k + 1) PROVE s \in old \cup new OBVIOUS
      <4>1. s \ {k + 1} \in old OBVIOUS
      <4>2. CASE k + 1 \in s
        <5>1. s = (s \ {k + 1}) \cup {k + 1} BY <4>2
        <5> QED BY <4>1, <5>1
      <4>3. CASE k + 1 \notin s BY <4>1, <4>3
      <4> QED BY <4>2, <4>3
    <3>2. \A s \in old \cup new : s \in SUBSET (1..k + 1) OBVIOUS
    <3> QED BY <3>1, <3>2
  <2>5. old \cap new = {}
    <3>1. \A s \in new : k + 1 \in s OBVIOUS
    <3>2. \A s \in old : k + 1 \notin s OBVIOUS
    <3> QED BY <3>1, <3>2
  <2>6. 2 ^ k \in Nat BY <2>1, FS_CardinalityType
  <2>7. Cardinality(SUBSET (1..k + 1)) = 2 ^ (k + 1)
    <3>1. k + 1 \in Nat OBVIOUS
    <3> QED BY <1>2, <3>1, Zenon
  <2> HIDE DEF old, new, f
  <2>8. Cardinality(old \cup new) = 2 ^ k + 2 ^ k - Cardinality({})
    BY <2>1, <2>3, <2>5, FS_Union
  <2>9. Cardinality({}) = 0 BY FS_EmptySet
  <2>10. 2 ^ (k + 1) = 2 ^ k + 2 ^ k - 0 BY <2>4, <2>7, <2>8, <2>9, Zenon
  <2>11. \A p \in Nat : p + p - 0 = 2 * p OBVIOUS
  <2> QED BY <2>6, <2>10, <2>11, Zenon
<1> QED BY <1>1, <1>3

LEMMA Powers ==
  /\ 2 ^ 0 = 1 /\ 2 ^ 1 = 2
  /\ \A k \in Nat : 2 ^ k \in Nat \ {0} /\ 2 ^ (k + 1) = 2 * 2 ^ k
<1>1. \A k \in Nat : 2 ^ k \in Nat \ {0}
  <2> SUFFICES ASSUME NEW k \in Nat PROVE 2 ^ k \in Nat \ {0} OBVIOUS
  <2> DEFINE P == {x \in 0..k : 2 ^ x # 0}
  <2>1. 0 \in P BY Doubles
  <2>2. ASSUME NEW x \in 0..k, x # 0, x - 1 \in P PROVE x \in P
    <3>1. x - 1 \in Nat /\ (x - 1) + 1 = x BY <2>2
    <3>2. 2 ^ (x - 1) \in Nat /\ 2 ^ (x - 1) # 0 /\ 2 ^ x = 2 * 2 ^ (x - 1) BY <2>2, <3>1, Doubles
    <3> QED BY <2>2, <3>2
  <2>3. k \in P
    <3> HIDE DEF P
    <3> QED BY <2>1, <2>2, Climb
  <2> QED BY <2>3, Doubles
<1>2. 2 ^ 1 = 2
  <2>1. 0 + 1 = 1 /\ 0 \in Nat OBVIOUS
  <2> QED BY <2>1, Doubles
<1> QED BY <1>1, <1>2, Doubles

LEMMA PowerSum ==
  ASSUME NEW a \in Nat, NEW b \in Nat
  PROVE  2 ^ (a + b) = 2 ^ a * 2 ^ b
<1> DEFINE P == {x \in 0..b : 2 ^ (a + x) = 2 ^ a * 2 ^ x}
<1>1. 0 \in P
  <2>1. a + 0 = a /\ 2 ^ 0 = 1 /\ 2 ^ a \in Nat BY Powers
  <2> QED BY <2>1
<1>2. ASSUME NEW x \in 0..b, x # 0, x - 1 \in P PROVE x \in P
  <2> DEFINE y == x - 1
  <2>1. y \in Nat /\ y + 1 = x /\ a + y \in Nat /\ (a + y) + 1 = a + x BY <1>2
  <2>2. 2 ^ (a + y) = 2 ^ a * 2 ^ y BY <1>2
  <2> HIDE DEF y
  <2>3. 2 ^ (a + x) = 2 * 2 ^ (a + y) /\ 2 ^ x = 2 * 2 ^ y BY <2>1, Powers
  <2>4. 2 ^ a \in Nat /\ 2 ^ y \in Nat BY <2>1, Powers
  <2>5. 2 * (2 ^ a * 2 ^ y) = 2 ^ a * (2 * 2 ^ y)
    <3> DEFINE u == 2 ^ a  v == 2 ^ y
    <3>1. u \in Nat /\ v \in Nat BY <2>4
    <3> HIDE DEF u, v
    <3>2. 2 * (u * v) = u * (2 * v) BY <3>1
    <3> QED BY <3>2 DEF u, v
  <2> QED BY <1>2, <2>2, <2>3, <2>5
<1>3. b \in P
  <2> HIDE DEF P
  <2> QED BY <1>1, <1>2, Climb
<1> QED BY <1>3

(* Remainders, and numbers that are the same modulo m *)
Same(a, b, m) == \E k \in Int : a = b + k * m

LEMMA Division ==
  ASSUME NEW a \in Int, NEW m \in Nat \ {0}
  PROVE  a % m \in 0..m - 1 /\ a \div m \in Int /\ a = (a % m) + (a \div m) * m
OBVIOUS

LEMMA Remainder ==
  ASSUME NEW m \in Nat \ {0}, NEW r \in 0..m - 1, NEW k \in Int
  PROVE  (r + k * m) % m = r /\ (r + k * m) \div m = k
<1> DEFINE a == r + k * m
<1>1. a \in Int OBVIOUS
<1>2. a % m \in 0..m - 1 /\ a \div m \in Int /\ a = (a % m) + (a \div m) * m BY <1>1, Division
<1> DEFINE s == a % m  l == a \div m
<1>3. s \in Int /\ l \in Int /\ 0 <= s /\ s < m /\ r + k * m = s + l * m BY <1>2
<1>4. r \in Int /\ 0 <= r /\ r < m OBVIOUS
<1> HIDE DEF s, l, a
<1>5. r = s /\ k = l BY <1>3, <1>4
<1> QED BY <1>5 DEF s, l, a

LEMMA SameRest ==
  ASSUME NEW a \in Int, NEW b \in Int, NEW m \in Nat \ {0}, Same(a, b, m)
  PROVE  a % m = b % m
<1>1. PICK k \in Int : a = b + k * m BY DEF Same
<1>2. b % m \in 0..m - 1 /\ b \div m \in Int /\ b = (b % m) + (b \div m) * m BY Division
<1> DEFINE r == b % m  q == b \div m
<1>3. r \in 0..m - 1 /\ q \in Int /\ b = r + q * m BY <1>2
<1> HIDE DEF r, q
<1>4. a = r + (q + k) * m BY <1>1, <1>3
<1>5. q + k \in Int BY <1>3
<1>6. a % m = r BY <1>3, <1>4, <1>5, Remainder
<1> QED BY <1>6 DEF r

(* A number is the same as what is cut off from it, modulo the smaller power. *)
LEMMA CutSame ==
  ASSUME NEW a \in Int, NEW w \in Nat, NEW n \in 0..w
  PROVE  Same(a % 2 ^ w, a, 2 ^ n)
<1>1. w - n \in Nat /\ n \in Nat /\ (w - n) + n = w OBVIOUS
<1>2. 2 ^ w = 2 ^ (w - n) * 2 ^ n BY <1>1, PowerSum
<1> DEFINE m == 2 ^ w  u == 2 ^ (w - n)  v == 2 ^ n  r == a % m  q == a \div m
<1>3. m \in Nat \ {0} /\ u \in Nat /\ v \in Nat BY <1>1, Powers
<1>4. r \in Int /\ q \in Int /\ a = r + q * m
  <2>1. m \in Nat \ {0} BY <1>3
  <2> HIDE DEF m
  <2>2. a % m \in 0..m - 1 /\ a \div m \in Int /\ a = (a % m) + (a \div m) * m BY <2>1, Division
  <2> QED BY <2>1, <2>2
<1>5. m = u * v BY <1>2
<1> HIDE DEF m, u, v, r, q
<1>6. r = a + (-(q * u)) * v BY <1>3, <1>4, <1>5
<1>7. -(q * u) \in Int BY <1>3, <1>4
<1>8. Same(r, a, v) BY <1>6, <1>7 DEF Same
<1> QED BY <1>8 DEF r, m, v

LEMMA SameSym ==
  ASSUME NEW a \in Int, NEW b \in Int, NEW m \in Int, Same(a, b, m)
  PROVE  Same(b, a, m)
<1>1. PICK k \in Int : a = b + k * m BY DEF Same
<1>2. b = a + (-k) * m /\ -k \in Int BY <1>1
<1> QED BY <1>2 DEF Same

LEMMA SameTrans ==
  ASSUME NEW a \in Int, NEW b \in Int, NEW c \in Int, NEW m \in Int, Same(a, b, m), Same(b, c, m)
  PROVE  Same(a, c, m)
<1>1. PICK k \in Int : a = b + k * m BY DEF Same
<1>2. PICK l \in Int : b = c + l * m BY DEF Same
<1>3. a = c + (k + l) * m /\ k + l \in Int BY <1>1, <1>2
<1> QED BY <1>3 DEF Same

------------------------------------------------------------------------------
(* Bits *)

LEMMA Widths ==
  /\ POS_OP \in Nat /\ OpBits \in Nat /\ OpBits = 6
  /\ Size = 2 ^ (OpBits + POS_OP) /\ Size \in Nat \ {0}
  /\ ABits \in Nat /\ BBits \in Nat /\ POS_B \in Nat /\ POS_A \in Nat /\ POS_A = BBits + POS_B
  /\ POS_B = BBits /\ POS_OP = ABits + POS_A /\ SIZE_Bx = POS_A
<1>1. ABits \in Nat /\ BBits \in Nat /\ CBits = BBits BY WidthAssumption
<1>2. POS_OP = ABits + BBits + BBits /\ OpBits = 6 /\ POS_B = BBits /\ POS_A = BBits + BBits
      /\ SIZE_Bx = BBits + BBits
  BY <1>1 DEF POS_OP, OpBits, POS_B, POS_A, SIZE_Bx
<1>3. POS_OP \in Nat /\ OpBits \in Nat /\ OpBits + POS_OP \in Nat BY <1>1, <1>2
<1>4. Size = 2 ^ (OpBits + POS_OP) BY DEF Size
<1>5. Size \in Nat \ {0} BY <1>3, <1>4, Powers
<1> QED BY <1>1, <1>2, <1>3, <1>4, <1>5

LEMMA SizeIs ==
  /\ 2 ^ OpBits \in Nat \ {0} /\ 2 ^ POS_OP \in Nat \ {0}
  /\ Size = 2 ^ OpBits * 2 ^ POS_OP
<1>1. OpBits \in Nat /\ POS_OP \in Nat /\ Size = 2 ^ (OpBits + POS_OP) BY Widths
<1>2. 2 ^ OpBits \in Nat \ {0} /\ 2 ^ POS_OP \in Nat \ {0} BY <1>1, Powers
<1>3. 2 ^ (OpBits + POS_OP) = 2 ^ OpBits * 2 ^ POS_OP BY <1>1, PowerSum
<1> QED BY <1>1, <1>2, <1>3, Zenon

LEMMA BitIs ==
  ASSUME NEW n \in Nat, NEW h \in Int, NEW d \in 0..1, NEW l \in 0..2 ^ n - 1
  PROVE  Bit(h * (2 * 2 ^ n) + d * 2 ^ n + l, n) = d
<1> DEFINE v == 2 ^ n
           x == h * (2 * v) + d * v + l
           q == d + h * 2
<1>1. v \in Nat \ {0} /\ l \in 0..v - 1 BY Powers
<1>2. q \in Int /\ x = l + q * v
  <2> HIDE DEF v
  <2> QED BY <1>1
<1>3. x \div v = q
  <2> HIDE DEF v, x, q
  <2>1. (l + q * v) \div v = q BY <1>1, <1>2, Remainder
  <2> QED BY <1>2, <2>1
<1>4. q % 2 = d
  <2>1. 2 \in Nat \ {0} /\ d \in 0..2 - 1 OBVIOUS
  <2> QED BY <2>1, Remainder
<1>5. 2 ^ 1 = 2 BY Powers
<1> HIDE DEF v, x, q
<1>6. Bit(x, n) = (x \div v) % 2 BY <1>5 DEF Bit, Field, v
<1>7. Bit(x, n) = d BY <1>3, <1>4, <1>6
<1> QED BY <1>7 DEF x, v

LEMMA BitOf ==
  ASSUME NEW x \in Int, NEW n \in Nat
  PROVE  /\ Bit(x, n) \in 0..1
         /\ \E h \in Int, l \in 0..2 ^ n - 1 : x = h * (2 * 2 ^ n) + Bit(x, n) * 2 ^ n + l
<1> DEFINE v == 2 ^ n
           q == x \div v
           l == x % v
           d == q % 2
           h == q \div 2
<1>1. v \in Nat \ {0} BY Powers
<1>2. q \in Int /\ l \in 0..v - 1 /\ x = l + q * v
  <2> HIDE DEF v
  <2> QED BY <1>1, Division
<1>3. d \in 0..1 /\ h \in Int /\ q = d + h * 2
  <2> HIDE DEF q
  <2>1. 2 \in Nat \ {0} OBVIOUS
  <2>2. q % 2 \in 0..2 - 1 /\ q \div 2 \in Int /\ q = (q % 2) + (q \div 2) * 2 BY <1>2, <2>1, Division
  <2> QED BY <2>2
<1>4. 2 ^ 1 = 2 BY Powers
<1>5. Bit(x, n) = d BY <1>4 DEF Bit, Field
<1> HIDE DEF v, q, l, d, h
<1>6. x = h * (2 * v) + d * v + l BY <1>1, <1>2, <1>3
<1> QED BY <1>2, <1>3, <1>5, <1>6 DEF v

LEMMA BitSame ==
  ASSUME NEW x \in Int, NEW y \in Int, NEW n \in Nat, Same(x, y, 2 ^ (n + 1))
  PROVE  Bit(x, n) = Bit(y, n)
<1> DEFINE v == 2 ^ n
           d == Bit(y, n)
<1>1. PICK k \in Int : x = y + k * 2 ^ (n + 1) BY DEF Same
<1>2. 2 ^ (n + 1) = 2 * v /\ v \in Nat \ {0} BY Powers
<1>3. d \in 0..1 BY BitOf
<1>4. PICK h \in Int, l \in 0..v - 1 : y = h * (2 * v) + d * v + l BY BitOf
<1> HIDE DEF d, v
<1>5. x = (h + k) * (2 * v) + d * v + l /\ h + k \in Int BY <1>1, <1>2, <1>3, <1>4
<1>6. Bit((h + k) * (2 * v) + d * v + l, n) = d BY <1>3, <1>4, <1>5, BitIs DEF v
<1> QED BY <1>5, <1>6 DEF d

LEMMA BitTurns ==
  ASSUME NEW x \in Int, NEW y \in Int, NEW n \in Nat, Same(x, y + 2 ^ n, 2 ^ (n + 1))
  PROVE  Bit(x, n) = 1 - Bit(y, n)
<1> DEFINE v == 2 ^ n
           d == Bit(y, n)
<1>1. PICK k \in Int : x = y + v + k * 2 ^ (n + 1) BY DEF Same
<1>2. 2 ^ (n + 1) = 2 * v /\ v \in Nat \ {0} BY Powers
<1>3. d \in 0..1 BY BitOf
<1>4. PICK h \in Int, l \in 0..v - 1 : y = h * (2 * v) + d * v + l BY BitOf
<1> HIDE DEF d, v
<1>5. \E g \in Int : x = g * (2 * v) + (1 - d) * v + l
  <2>1. CASE d = 0
    <3>1. x = (h + k) * (2 * v) + (1 - d) * v + l /\ h + k \in Int BY <1>1, <1>2, <1>4, <2>1
    <3> QED BY <3>1
  <2>2. CASE d = 1
    <3>1. x = (h + k + 1) * (2 * v) + (1 - d) * v + l /\ h + k + 1 \in Int
      BY <1>1, <1>2, <1>4, <2>2
    <3> QED BY <3>1
  <2> QED BY <1>3, <2>1, <2>2
<1>6. PICK g \in Int : x = g * (2 * v) + (1 - d) * v + l BY <1>5
<1>7. 1 - d \in 0..1 BY <1>3
<1>8. Bit(g * (2 * v) + (1 - d) * v + l, n) = 1 - d BY <1>4, <1>7, BitIs DEF v
<1> QED BY <1>6, <1>8 DEF d


(* Bit n of the one word turns with bit n of x, that of the other does not; neither
   depends on the bits above. *)
LEMMA Factors ==
  /\ \E q \in Int : 21306107 % Size = 2 * q + 1
  /\ \E q \in Int : 29799480 % Size = 2 * q
  /\ 27776373 % Size \in Int
<1> DEFINE half == 2 ^ (5 + POS_OP)
<1>1. Size \in Nat \ {0} /\ Size = 2 * half /\ half \in Nat
  <2>1. 5 + POS_OP \in Nat /\ (5 + POS_OP) + 1 = OpBits + POS_OP BY Widths
  <2> QED BY <2>1, Widths, Powers
<1> DEFINE c1 == 21306107 % Size  k1 == 21306107 \div Size
           c2 == 29799480 % Size  k2 == 29799480 \div Size
<1>0. \A a \in Int : a % Size \in Int /\ a \div Size \in Int /\ a = (a % Size) + (a \div Size) * Size
  <2> SUFFICES ASSUME NEW a \in Int
               PROVE  a % Size \in Int /\ a \div Size \in Int /\ a = (a % Size) + (a \div Size) * Size
    OBVIOUS
  <2>1. Size \in Nat \ {0} BY Widths
  <2>2. a % Size \in 0..Size - 1 /\ a \div Size \in Int /\ a = (a % Size) + (a \div Size) * Size
    BY <2>1, Division
  <2> QED BY <2>2
<1>2. c1 \in Int /\ k1 \in Int /\ 21306107 = c1 + k1 * Size BY <1>0
<1>3. c2 \in Int /\ k2 \in Int /\ 29799480 = c2 + k2 * Size BY <1>0
<1>4. 27776373 % Size \in Int BY <1>0
<1> HIDE DEF half, c1, c2, k1, k2
<1>5. c1 = 2 * (10653053 - k1 * half) + 1 /\ 10653053 - k1 * half \in Int BY <1>1, <1>2
<1>6. c2 = 2 * (14899740 - k2 * half) /\ 14899740 - k2 * half \in Int BY <1>1, <1>3
<1> QED BY <1>4, <1>5, <1>6 DEF c1, c2

LEMMA T1Turns ==
  ASSUME NEW x \in Int, NEW y \in Int, NEW n \in Nat, n < OpBits + POS_OP
  PROVE  /\ T1(x) \in Int
         /\ Same(x, y, 2 ^ (n + 1)) => Same(T1(x), T1(y), 2 ^ (n + 1))
         /\ Same(x, y + 2 ^ n, 2 ^ (n + 1)) => Same(T1(x), T1(y) + 2 ^ n, 2 ^ (n + 1))
<1> DEFINE f == 21306107 % Size  g == 27776373 % Size  w == OpBits + POS_OP
           v == 2 ^ n  m == 2 ^ (n + 1)
           a == f * x - g  b == f * y - g
<1>1. PICK q \in Int : f = 2 * q + 1 BY Factors
<1>2. f \in Int /\ g \in Int BY <1>1, Factors
<1>3. w \in Nat /\ n + 1 \in 0..w /\ Size = 2 ^ w /\ Size \in Nat \ {0} BY Widths
<1>4. v \in Nat /\ m = 2 * v /\ m \in Nat BY Powers
<1>5. a \in Int /\ b \in Int
  <2> HIDE DEF f, g
  <2> QED BY <1>2
<1>6. T1(x) = a % Size /\ T1(y) = b % Size BY DEF T1
<1> HIDE DEF f, g, w, v, a, b
<1>7. Same(a % Size, a, m) /\ Same(b % Size, b, m) BY <1>3, <1>5, CutSame DEF m
<1>8. a % Size \in Int /\ b % Size \in Int BY <1>3, <1>5, Division
<1> HIDE DEF m
<1>9. Same(b, b % Size, m) BY <1>4, <1>5, <1>7, <1>8, SameSym
<1>10. ASSUME Same(x, y, m) PROVE Same(T1(x), T1(y), m)
  <2>1. PICK k \in Int : x = y + k * m BY <1>10 DEF Same
  <2>2. a = b + (f * k) * m /\ f * k \in Int BY <1>2, <1>4, <2>1 DEF a, b
  <2>3. Same(a, b, m) BY <2>2 DEF Same
  <2>4. Same(a % Size, b, m) BY <1>4, <1>5, <1>7, <1>8, <2>3, SameTrans
  <2>5. Same(a % Size, b % Size, m) BY <1>4, <1>5, <1>8, <1>9, <2>4, SameTrans
  <2> QED BY <1>6, <2>5
<1>11. ASSUME Same(x, y + v, m) PROVE Same(T1(x), T1(y) + v, m)
  <2>1. PICK k \in Int : x = y + v + k * m BY <1>11 DEF Same
  <2>2. a = (b + v) + (q + f * k) * m /\ q + f * k \in Int
    <3>1. f * k \in Int /\ f * y \in Int /\ f * v = q * m + v BY <1>1, <1>2, <1>4
    <3>2. f * x = f * y + f * v + (f * k) * m BY <1>2, <1>4, <2>1
    <3> QED BY <1>2, <1>4, <3>1, <3>2 DEF a, b
  <2>3. Same(a, b + v, m) BY <2>2 DEF Same
  <2>4. Same(a % Size, b + v, m) BY <1>4, <1>5, <1>7, <1>8, <2>3, SameTrans
  <2>5. Same(b + v, (b % Size) + v, m)
    <3>1. PICK l \in Int : b = (b % Size) + l * m BY <1>9 DEF Same
    <3>2. b + v = ((b % Size) + v) + l * m BY <1>4, <1>5, <1>8, <3>1
    <3> QED BY <3>2 DEF Same
  <2>6. Same(a % Size, (b % Size) + v, m) BY <1>4, <1>5, <1>8, <2>4, <2>5, SameTrans
  <2> QED BY <1>6, <2>6
<1> QED BY <1>6, <1>8, <1>10, <1>11 DEF v, m

LEMMA T2Stays ==
  ASSUME NEW x \in Int, NEW y \in Int, NEW index \in Int, NEW n \in Nat, n < OpBits + POS_OP,
         Same(x, y, 2 ^ (n + 1)) \/ Same(x, y + 2 ^ n, 2 ^ (n + 1))
  PROVE  T2(x, index) \in Int /\ Same(T2(x, index), T2(y, index), 2 ^ (n + 1))
<1> DEFINE f == 29799480 % Size  w == OpBits + POS_OP
           v == 2 ^ n  m == 2 ^ (n + 1)
           a == index - f * x  b == index - f * y
<1>1. PICK q \in Int : f = 2 * q BY Factors
<1>2. f \in Int BY <1>1
<1>3. w \in Nat /\ n + 1 \in 0..w /\ Size = 2 ^ w /\ Size \in Nat \ {0} BY Widths
<1>4. v \in Nat /\ m = 2 * v /\ m \in Nat BY Powers
<1>5. a \in Int /\ b \in Int
  <2> HIDE DEF f
  <2> QED BY <1>2
<1>6. T2(x, index) = a % Size /\ T2(y, index) = b % Size BY DEF T2
<1>7. Same(x, y, m) \/ Same(x, y + v, m) OBVIOUS
<1> HIDE DEF f, w, v, a, b
<1>8. Same(a % Size, a, m) /\ Same(b % Size, b, m) BY <1>3, <1>5, CutSame DEF m
<1>9. a % Size \in Int /\ b % Size \in Int BY <1>3, <1>5, Division
<1> HIDE DEF m
<1>10. Same(b, b % Size, m) BY <1>4, <1>5, <1>8, <1>9, SameSym
<1>11. \E k \in Int : a = b + k * m
  <2>1. CASE Same(x, y, m)
    <3>1. PICK k \in Int : x = y + k * m BY <2>1 DEF Same
    <3>2. a = b + (-(f * k)) * m /\ -(f * k) \in Int BY <1>2, <1>4, <3>1 DEF a, b
    <3> QED BY <3>2
  <2>2. CASE Same(x, y + v, m)
    <3>1. PICK k \in Int : x = y + v + k * m BY <2>2 DEF Same
    <3>2. f * k \in Int /\ f * y \in Int /\ f * v = q * m BY <1>1, <1>2, <1>4
    <3>3. f * x = f * y + f * v + (f * k) * m BY <1>2, <1>4, <3>1
    <3>4. a = b + (-(q + f * k)) * m /\ -(q + f * k) \in Int
      BY <1>2, <1>4, <3>2, <3>3 DEF a, b
    <3> QED BY <3>4
  <2> QED BY <1>7, <2>1, <2>2
<1>12. Same(a, b, m) BY <1>11 DEF Same
<1>13. Same(a % Size, b, m) BY <1>4, <1>5, <1>8, <1>9, <1>12, SameTrans
<1>14. Same(a % Size, b % Size, m) BY <1>4, <1>5, <1>9, <1>10, <1>13, SameTrans
<1> QED BY <1>6, <1>9, <1>14 DEF m

LEMMA XorTurns ==
  ASSUME NEW x \in Int, NEW y \in Int, NEW index \in Int, NEW n \in Nat, n < OpBits + POS_OP
  PROVE  /\ XorBit(x, index, n) \in 0..1
         /\ Same(x, y, 2 ^ (n + 1)) => XorBit(x, index, n) = XorBit(y, index, n)
         /\ Same(x, y + 2 ^ n, 2 ^ (n + 1)) => XorBit(x, index, n) = 1 - XorBit(y, index, n)
<1> DEFINE a == Bit(T1(x), n)  b == Bit(T2(x, index), n)
           c == Bit(T1(y), n)  d == Bit(T2(y, index), n)
<1>0. x = x + 0 * 2 ^ (n + 1) /\ y = y + 0 * 2 ^ (n + 1)
  <2>1. 2 ^ (n + 1) \in Int BY Powers
  <2> QED BY <2>1
<1>1. T1(x) \in Int /\ T1(y) \in Int /\ T2(x, index) \in Int /\ T2(y, index) \in Int
  <2>1. Same(x, x, 2 ^ (n + 1)) /\ Same(y, y, 2 ^ (n + 1)) BY <1>0 DEF Same
  <2> QED BY <2>1, T1Turns, T2Stays
<1>2. a \in 0..1 /\ b \in 0..1 /\ c \in 0..1 /\ d \in 0..1 BY <1>1, BitOf
<1>3. ASSUME Same(x, y, 2 ^ (n + 1)) PROVE a = c /\ b = d
  <2>1. Same(T1(x), T1(y), 2 ^ (n + 1)) BY <1>3, T1Turns
  <2>2. Same(T2(x, index), T2(y, index), 2 ^ (n + 1)) BY <1>3, T2Stays
  <2>3. Bit(T1(x), n) = Bit(T1(y), n) BY <1>1, <2>1, BitSame
  <2>4. Bit(T2(x, index), n) = Bit(T2(y, index), n) BY <1>1, <2>2, BitSame
  <2> QED BY <2>3, <2>4
<1>4. ASSUME Same(x, y + 2 ^ n, 2 ^ (n + 1)) PROVE a = 1 - c /\ b = d
  <2>1. Same(T1(x), T1(y) + 2 ^ n, 2 ^ (n + 1)) BY <1>4, T1Turns
  <2>2. Same(T2(x, index), T2(y, index), 2 ^ (n + 1)) BY <1>4, T2Stays
  <2>3. Bit(T1(x), n) = 1 - Bit(T1(y), n) BY <1>1, <2>1, BitTurns
  <2>4. Bit(T2(x, index), n) = Bit(T2(y, index), n) BY <1>1, <2>2, BitSame
  <2> QED BY <2>3, <2>4
<1>5. XorBit(x, index, n) = (a + b) % 2 /\ XorBit(y, index, n) = (c + d) % 2 BY DEF XorBit
<1> HIDE DEF a, b, c, d
<1>6. /\ (a + b) % 2 \in 0..1
      /\ a = c /\ b = d => (a + b) % 2 = (c + d) % 2
      /\ a = 1 - c /\ b = d => (a + b) % 2 = 1 - ((c + d) % 2)
  BY <1>2
<1>7. XorBit(x, index, n) \in 0..1 BY <1>5, <1>6
<1>8. Same(x, y, 2 ^ (n + 1)) => XorBit(x, index, n) = XorBit(y, index, n)
  <2> HAVE Same(x, y, 2 ^ (n + 1))
  <2>1. a = c /\ b = d BY <1>3
  <2> QED BY <1>5, <1>6, <2>1
<1>9. Same(x, y + 2 ^ n, 2 ^ (n + 1)) => XorBit(x, index, n) = 1 - XorBit(y, index, n)
  <2> HAVE Same(x, y + 2 ^ n, 2 ^ (n + 1))
  <2>1. a = 1 - c /\ b = d BY <1>4
  <2>2. (a + b) % 2 = 1 - ((c + d) % 2) BY <1>6, <2>1
  <2> QED BY <1>5, <2>2
<1> QED BY <1>7, <1>8, <1>9

(* What a loop runs through: b, and one step after the other. *)
Loop(f, bound, b, step) == f = [n \in 0..bound |-> IF n = 0 THEN b ELSE step[<<n, f[n - 1]>>]]

LEMMA Iterated ==
  ASSUME NEW bound \in Nat, NEW S, NEW b \in S, NEW step \in [(1..bound) \X S -> S]
  PROVE  \E f \in [0..bound -> S] : Loop(f, bound, b, step)
<1> DEFINE P == {m \in 0..bound : \E f \in [0..m -> S] : Loop(f, m, b, step)}
<1>1. 0 \in P
  <2>1. Loop([n \in 0..0 |-> b], 0, b, step) BY DEF Loop
  <2>2. [n \in 0..0 |-> b] \in [0..0 -> S] OBVIOUS
  <2> QED BY <2>1, <2>2
<1>2. ASSUME NEW m \in 0..bound, m # 0, m - 1 \in P PROVE m \in P
  <2>1. PICK f \in [0..m - 1 -> S] : Loop(f, m - 1, b, step) BY <1>2
  <2>2. m - 1 \in 0..m - 1 /\ f[m - 1] \in S BY <1>2, <2>1
  <2> DEFINE last == step[<<m, f[m - 1]>>]
             g == [n \in 0..m |-> IF n = m THEN last ELSE f[n]]
  <2>3. last \in S
    <3>1. <<m, f[m - 1]>> \in (1..bound) \X S BY <1>2, <2>2
    <3> QED BY <3>1
  <2>4. \A n \in 0..m : n # m => n \in 0..m - 1 /\ (n # 0 => n - 1 \in 0..m - 1) BY <1>2
  <2>5. g \in [0..m -> S] /\ \A n \in 0..m - 1 : n \in 0..m /\ n # m /\ g[n] = f[n]
    <3> HIDE DEF last
    <3>1. \A n \in 0..m - 1 : n \in 0..m /\ n # m /\ g[n] = f[n] BY <1>2
    <3>2. \A n \in 0..m : (IF n = m THEN last ELSE f[n]) \in S BY <2>3, <2>4
    <3>3. g \in [0..m -> S] BY <3>2
    <3> QED BY <3>1, <3>3
  <2>6. g[m] = last OBVIOUS
  <2>7. \A n \in 0..m - 1 : f[n] = IF n = 0 THEN b ELSE step[<<n, f[n - 1]>>] BY <2>1 DEF Loop
  <2>8. g = [n \in 0..m |-> g[n]] OBVIOUS
  <2> HIDE DEF g
  <2>9. \A n \in 0..m : g[n] = IF n = 0 THEN b ELSE step[<<n, g[n - 1]>>]
    <3> SUFFICES ASSUME NEW n \in 0..m PROVE g[n] = IF n = 0 THEN b ELSE step[<<n, g[n - 1]>>]
      OBVIOUS
    <3>1. CASE n = m
      <4>1. g[m - 1] = f[m - 1] BY <2>2, <2>5
      <4> QED BY <1>2, <2>6, <3>1, <4>1
    <3>2. CASE n # m
      <4>1. n \in 0..m - 1 /\ (n # 0 => n - 1 \in 0..m - 1) BY <2>4, <3>2
      <4>2. g[n] = f[n] /\ (n # 0 => g[n - 1] = f[n - 1]) BY <2>5, <4>1
      <4> QED BY <2>7, <4>1, <4>2
    <3> QED BY <3>1, <3>2
  <2>10. Loop(g, m, b, step) BY <2>8, <2>9 DEF Loop
  <2> QED BY <2>5, <2>10
<1>3. bound \in P
  <2> HIDE DEF P
  <2> QED BY <1>1, <1>2, Climb
<1> QED BY <1>3

(* Encoding a bit sets it and leaves those below it. *)
LEMMA NextBit ==
  ASSUME NEW o \in Int, NEW p \in Int, NEW index \in Int, NEW n \in Nat, n < POS_OP, NEW b \in 0..1,
         p = IF XorBit(o, index, n) = b THEN o ELSE o + 2 ^ n
  PROVE  /\ XorBit(p, index, n) = b
         /\ \A m \in 0..n - 1 : XorBit(p, index, m) = XorBit(o, index, m)
<1>1. n < OpBits + POS_OP BY Widths
<1>2. XorBit(o, index, n) \in 0..1 BY <1>1, XorTurns
<1>3. CASE XorBit(o, index, n) = b BY <1>3
<1>4. CASE XorBit(o, index, n) # b
  <2>1. p = o + 2 ^ n BY <1>4
  <2>2. 2 ^ n \in Int /\ 2 ^ (n + 1) \in Int BY Powers
  <2>3. Same(p, o + 2 ^ n, 2 ^ (n + 1))
    <3>1. p = (o + 2 ^ n) + 0 * 2 ^ (n + 1) BY <2>1, <2>2
    <3> QED BY <3>1 DEF Same
  <2>4. XorBit(p, index, n) = 1 - XorBit(o, index, n) BY <1>1, <2>3, XorTurns
  <2>5. XorBit(p, index, n) = b BY <1>2, <1>4, <2>4
  <2>6. ASSUME NEW m \in 0..n - 1 PROVE XorBit(p, index, m) = XorBit(o, index, m)
    <3>1. m \in Nat /\ m + 1 \in Nat /\ n - (m + 1) \in Nat /\ (n - (m + 1)) + (m + 1) = n
          /\ m < OpBits + POS_OP
      BY <1>1, Widths
    <3>2. 2 ^ n = 2 ^ (n - (m + 1)) * 2 ^ (m + 1) BY <3>1, PowerSum
    <3>3. 2 ^ (n - (m + 1)) \in Int BY <3>1, Powers
    <3>4. Same(p, o, 2 ^ (m + 1)) BY <2>1, <3>2, <3>3 DEF Same
    <3> QED BY <3>1, <3>4, XorTurns
  <2> QED BY <2>5, <2>6
<1> QED BY <1>3, <1>4

(* A field of a word *)
LEMMA FieldIs ==
  ASSUME NEW pos \in Nat, NEW width \in Nat, NEW h \in Int, NEW v \in 0..2 ^ width - 1,
         NEW low \in 0..2 ^ pos - 1, NEW x, x = (h * 2 ^ width + v) * 2 ^ pos + low
  PROVE  Field(x, pos, width) = v
<1> DEFINE s == 2 ^ width  t == 2 ^ pos  q == h * s + v
<1>0. x = q * t + low OBVIOUS
<1>1. s \in Nat \ {0} /\ t \in Nat \ {0} /\ v \in 0..s - 1 /\ low \in 0..t - 1 BY Powers
<1>2. q \in Int
  <2> HIDE DEF s
  <2> QED BY <1>1
<1>3. x \div t = q
  <2> HIDE DEF s, t, q
  <2>1. x = low + q * t /\ q \in Int BY <1>0, <1>1, <1>2
  <2> QED BY <1>1, <2>1, Remainder
<1>4. q % s = v
  <2>1. q = v + h * s
    <3> HIDE DEF s
    <3> QED BY <1>1
  <2> HIDE DEF s, q
  <2> QED BY <1>1, <2>1, Remainder
<1> HIDE DEF q
<1> QED BY <1>3, <1>4 DEF Field

LEMMA TopOf ==
  ASSUME NEW t \in 0..2 ^ OpBits - 1, NEW r \in 0..2 ^ POS_OP - 1
  PROVE  Field(t * 2 ^ POS_OP + r, POS_OP, OpBits) = t
<1>1. POS_OP \in Nat /\ OpBits \in Nat BY Widths
<1> DEFINE x == t * 2 ^ POS_OP + r
           none == 0
<1>2. x = (none * 2 ^ OpBits + t) * 2 ^ POS_OP + r
  <2>1. 2 ^ OpBits \in Nat BY <1>1, Powers
  <2> QED BY <2>1
<1>3. none \in Int OBVIOUS
<1> HIDE DEF x, none
<1>4. Field(x, POS_OP, OpBits) = t BY <1>1, <1>2, <1>3, FieldIs
<1> QED BY <1>4 DEF x

(* A word is its operation and what is below. *)
LEMMA WordSplits ==
  ASSUME NEW x \in Word
  PROVE  /\ Field(x, POS_OP, OpBits) \in 0..2 ^ OpBits - 1
         /\ x % 2 ^ POS_OP \in 0..2 ^ POS_OP - 1
         /\ x = Field(x, POS_OP, OpBits) * 2 ^ POS_OP + (x % 2 ^ POS_OP)
<1> DEFINE s == 2 ^ OpBits  t == 2 ^ POS_OP  q == x \div t  r == x % t
<1>1. s \in Nat \ {0} /\ t \in Nat \ {0} /\ Size = s * t BY SizeIs
<1>2. x \in 0..s * t - 1 BY <1>1 DEF Word
<1>3. r \in 0..t - 1 /\ q \in Int /\ x = r + q * t
  <2> HIDE DEF s, t
  <2> QED BY <1>1, <1>2, Division
<1>4. q \in 0..s - 1
  <2> HIDE DEF s, t, q, r
  <2>1. 0 <= r + q * t /\ r + q * t < s * t BY <1>1, <1>2, <1>3
  <2>2. 0 <= q
    <3>1. SUFFICES ASSUME q <= -1 PROVE FALSE BY <1>3
    <3>2. q * t <= -t BY <1>1, <1>3, <3>1
    <3> QED BY <1>1, <1>3, <2>1, <3>2
  <2>3. q < s
    <3>1. SUFFICES ASSUME s <= q PROVE FALSE BY <1>1, <1>3
    <3>2. s * t <= q * t BY <1>1, <1>3, <3>1
    <3> QED BY <1>1, <1>3, <2>1, <3>2
  <2> QED BY <1>1, <1>3, <2>2, <2>3
<1>5. q % s = q
  <2> HIDE DEF s, q
  <2>1. q = q + 0 * s BY <1>1, <1>4
  <2>2. 0 \in Int OBVIOUS
  <2>3. (q + 0 * s) % s = q BY <1>1, <1>4, <2>2, Remainder
  <2> QED BY <2>1, <2>3
<1>6. Field(x, POS_OP, OpBits) = q BY <1>5 DEF Field
<1>7. x = q * t + r
  <2> HIDE DEF t, q, r, s
  <2> QED BY <1>1, <1>3, <1>4
<1> QED BY <1>3, <1>4, <1>6, <1>7

LEMMA LowBits ==
  ASSUME NEW x \in Int, NEW n \in Nat
  PROVE  x % 2 ^ (n + 1) = (x % 2 ^ n) + Bit(x, n) * 2 ^ n
<1> DEFINE v == 2 ^ n  d == Bit(x, n)
<1>1. v \in Nat \ {0} /\ 2 ^ (n + 1) = 2 * v BY Powers
<1>2. d \in 0..1 BY BitOf
<1>3. PICK h \in Int, l \in 0..v - 1 : x = h * (2 * v) + d * v + l BY BitOf
<1> HIDE DEF v, d
<1>4. x % v = l
  <2>1. x = l + (2 * h + d) * v /\ 2 * h + d \in Int BY <1>1, <1>2, <1>3
  <2> QED BY <1>1, <1>3, <2>1, Remainder, ZenonT(30)
<1>5. x % (2 * v) = d * v + l
  <2>1. d * v + l \in 0..2 * v - 1
    <3>1. CASE d = 0 BY <1>1, <1>3, <3>1
    <3>2. CASE d = 1 BY <1>1, <1>3, <3>2
    <3> QED BY <1>2, <3>1, <3>2
  <2>2. x = (d * v + l) + h * (2 * v) BY <1>1, <1>2, <1>3
  <2>3. 2 * v \in Nat \ {0} BY <1>1
  <2> QED BY <1>3, <2>1, <2>2, <2>3, Remainder
<1>6. x % (2 * v) = (x % v) + d * v BY <1>1, <1>2, <1>3, <1>4, <1>5
<1>7. x % 2 ^ (n + 1) = (x % v) + d * v BY <1>1, <1>6, Zenon
<1> QED BY <1>7 DEF v, d

(* What the two recursions of obfuscateInstructionFast and deobfuscateInstruction
   run through *)
Encodes(f, x, index) ==
  f = [n \in 0..POS_OP |->
         IF n = 0 THEN Field(x, POS_OP, OpBits) * 2 ^ POS_OP
         ELSE LET o == f[n - 1] IN
              IF XorBit(o, index, n - 1) = Bit(x, n - 1) THEN o ELSE o + 2 ^ (n - 1)]

Decodes(f, x, index) ==
  f = [n \in 0..POS_OP |->
         IF n = 0 THEN Field(x, POS_OP, OpBits) * 2 ^ POS_OP
         ELSE f[n - 1] + XorBit(x, index, n - 1) * 2 ^ (n - 1)]

LEMMA EncodesSome ==
  ASSUME NEW x \in Word, NEW index \in Int
  PROVE  \E f \in [0..POS_OP -> Int] : Encodes(f, x, index)
<1> DEFINE b == Field(x, POS_OP, OpBits) * 2 ^ POS_OP
           Next1(n, o) == IF XorBit(o, index, n - 1) = Bit(x, n - 1) THEN o ELSE o + 2 ^ (n - 1)
           step == [a \in (1..POS_OP) \X Int |-> Next1(a[1], a[2])]
<1>1. POS_OP \in Nat BY Widths
<1>2. b \in Int BY <1>1, WordSplits, Powers
<1>3. \A n \in 1..POS_OP, o \in Int : Next1(n, o) \in Int
  <2> TAKE n \in 1..POS_OP, o \in Int
  <2>1. n - 1 \in Nat BY <1>1
  <2>2. 2 ^ (n - 1) \in Int BY <2>1, Powers
  <2> QED BY <2>2
<1> HIDE DEF b, Next1
<1>4. step \in [(1..POS_OP) \X Int -> Int]
  <2>1. \A a \in (1..POS_OP) \X Int : Next1(a[1], a[2]) \in Int BY <1>3
  <2> QED BY <2>1
<1>5. \A n \in 1..POS_OP, o \in Int : step[<<n, o>>] = Next1(n, o) OBVIOUS
<1> HIDE DEF step
<1>6. PICK f \in [0..POS_OP -> Int] : Loop(f, POS_OP, b, step) BY <1>1, <1>2, <1>4, Iterated
<1>7. \A n \in 0..POS_OP : f[n] = IF n = 0 THEN b ELSE Next1(n, f[n - 1])
  <2> TAKE n \in 0..POS_OP
  <2>1. f[n] = IF n = 0 THEN b ELSE step[<<n, f[n - 1]>>] BY <1>6 DEF Loop
  <2>2. n # 0 => n \in 1..POS_OP /\ f[n - 1] \in Int BY <1>1, <1>6
  <2> QED BY <1>5, <2>1, <2>2
<1>8. f = [n \in 0..POS_OP |-> IF n = 0 THEN b ELSE Next1(n, f[n - 1])] BY <1>6, <1>7
<1>9. Encodes(f, x, index) BY <1>8 DEF Encodes, b, Next1
<1> QED BY <1>9

LEMMA DecodesSome ==
  ASSUME NEW x \in Word, NEW index \in Int
  PROVE  \E f \in [0..POS_OP -> Int] : Decodes(f, x, index)
<1> DEFINE b == Field(x, POS_OP, OpBits) * 2 ^ POS_OP
           Next1(n, o) == o + XorBit(x, index, n - 1) * 2 ^ (n - 1)
           step == [a \in (1..POS_OP) \X Int |-> Next1(a[1], a[2])]
<1>1. POS_OP \in Nat /\ x \in Int BY Widths DEF Word
<1>2. b \in Int BY <1>1, WordSplits, Powers
<1>3. \A n \in 1..POS_OP, o \in Int : Next1(n, o) \in Int
  <2> TAKE n \in 1..POS_OP, o \in Int
  <2>1. n - 1 \in Nat /\ n - 1 < OpBits + POS_OP BY <1>1, Widths
  <2>2. 2 ^ (n - 1) \in Int BY <2>1, Powers
  <2>3. XorBit(x, index, n - 1) \in 0..1 BY <1>1, <2>1, XorTurns
  <2> QED BY <2>2, <2>3
<1> HIDE DEF b, Next1
<1>4. step \in [(1..POS_OP) \X Int -> Int]
  <2>1. \A a \in (1..POS_OP) \X Int : Next1(a[1], a[2]) \in Int BY <1>3
  <2> QED BY <2>1
<1>5. \A n \in 1..POS_OP, o \in Int : step[<<n, o>>] = Next1(n, o) OBVIOUS
<1> HIDE DEF step
<1>6. PICK f \in [0..POS_OP -> Int] : Loop(f, POS_OP, b, step) BY <1>1, <1>2, <1>4, Iterated
<1>7. \A n \in 0..POS_OP : f[n] = IF n = 0 THEN b ELSE Next1(n, f[n - 1])
  <2> TAKE n \in 0..POS_OP
  <2>1. f[n] = IF n = 0 THEN b ELSE step[<<n, f[n - 1]>>] BY <1>6 DEF Loop
  <2>2. n # 0 => n \in 1..POS_OP /\ f[n - 1] \in Int BY <1>1, <1>6
  <2> QED BY <1>5, <2>1, <2>2
<1>8. f = [n \in 0..POS_OP |-> IF n = 0 THEN b ELSE Next1(n, f[n - 1])] BY <1>6, <1>7
<1>9. Decodes(f, x, index) BY <1>8 DEF Decodes, b, Next1
<1> QED BY <1>9

(* The encoded word keeps its operation, and its bits turn out as those of x. *)
LEMMA Encoded ==
  ASSUME NEW x \in Word, NEW index \in Int
  PROVE  LET y == obfuscateInstructionFast(x, index) IN
           /\ \E r \in 0..2 ^ POS_OP - 1 : y = Field(x, POS_OP, OpBits) * 2 ^ POS_OP + r
           /\ \A n \in 0..POS_OP - 1 : XorBit(y, index, n) = Bit(x, n)
<1> DEFINE b == Field(x, POS_OP, OpBits) * 2 ^ POS_OP
           f == CHOOSE g : Encodes(g, x, index)
           Right(n) == /\ \E r \in 0..2 ^ n - 1 : f[n] = b + r
                       /\ \A m \in 0..n - 1 : XorBit(f[n], index, m) = Bit(x, m)
           P == {n \in 0..POS_OP : Right(n)}
<1>1. POS_OP \in Nat /\ x \in Int BY Widths DEF Word
<1>2. b \in Int BY <1>1, WordSplits, Powers
<1>3. Encodes(f, x, index) BY EncodesSome
<1>4. obfuscateInstructionFast(x, index) = f[POS_OP] BY DEF obfuscateInstructionFast, Encodes
<1> HIDE DEF f
<1>5. 0 \in P
  <2>1. f[0] = b BY <1>1, <1>3 DEF Encodes
  <2>2. 2 ^ 0 = 1 BY Powers
  <2> HIDE DEF b
  <2>3. \E r \in 0..2 ^ 0 - 1 : f[0] = b + r BY <1>2, <2>1, <2>2
  <2> QED BY <1>1, <2>3
<1>6. ASSUME NEW n \in 0..POS_OP, n # 0, n - 1 \in P PROVE n \in P
  <2> DEFINE k == n - 1
             o == f[k]
             w == Bit(x, k)
  <2>1. k \in Nat /\ k < POS_OP /\ k + 1 = n BY <1>1, <1>6
  <2>2. Right(k) BY <1>6
  <2>3. f[n] = IF XorBit(o, index, k) = w THEN o ELSE o + 2 ^ k BY <1>3, <1>6 DEF Encodes
  <2>4. w \in 0..1 BY <1>1, <2>1, BitOf
  <2>5. 2 ^ k \in Nat \ {0} /\ 2 ^ n = 2 * 2 ^ k BY <2>1, Powers
  <2> HIDE DEF b
  <2>6. PICK r \in 0..2 ^ k - 1 : o = b + r BY <2>2
  <2> DEFINE v == 2 ^ k
  <2>7. v \in Nat \ {0} /\ r \in 0..v - 1 /\ 2 ^ n = 2 * v BY <2>5
  <2>8. o \in Int BY <1>2, <2>6, <2>7
  <2>9. f[n] = IF XorBit(o, index, k) = w THEN o ELSE o + v BY <2>3
  <2> HIDE DEF v, k, o
  <2>10. f[n] \in Int BY <2>7, <2>8, <2>9
  <2>11. XorBit(f[n], index, k) = w
         /\ \A m \in 0..k - 1 : XorBit(f[n], index, m) = XorBit(o, index, m)
    BY <2>1, <2>4, <2>8, <2>9, <2>10, NextBit DEF v
  <2>12. \A m \in 0..k - 1 : XorBit(o, index, m) = Bit(x, m) BY <2>2 DEF o
  <2>13. \A m \in 0..n - 1 : XorBit(f[n], index, m) = Bit(x, m)
    <3> TAKE m \in 0..n - 1
    <3>1. m = k \/ m \in 0..k - 1 BY <2>1
    <3> QED BY <2>11, <2>12, <3>1
  <2>14. \E q \in 0..2 ^ n - 1 : f[n] = b + q
    <3>1. f[n] = b + r \/ f[n] = b + (r + v) BY <1>2, <2>6, <2>7, <2>9
    <3>2. r \in 0..2 ^ n - 1 /\ r + v \in 0..2 ^ n - 1 BY <2>7
    <3> QED BY <3>1, <3>2
  <2> QED BY <2>13, <2>14
<1>7. POS_OP \in P
  <2> HIDE DEF P
  <2> QED BY <1>1, <1>5, <1>6, Climb
<1> QED BY <1>4, <1>7

(* Decoding undoes encoding. *)
LEMMA RoundTrip ==
  ASSUME NEW x \in Word, NEW index \in Int
  PROVE  /\ obfuscateInstructionFast(x, index) \in Word
         /\ Field(obfuscateInstructionFast(x, index), POS_OP, OpBits) = Field(x, POS_OP, OpBits)
         /\ deobfuscateInstruction(obfuscateInstructionFast(x, index), index) = x
<1> DEFINE y == obfuscateInstructionFast(x, index)
           t == Field(x, POS_OP, OpBits)
           f == CHOOSE g : Decodes(g, y, index)
           P == {n \in 0..POS_OP : f[n] = t * 2 ^ POS_OP + (x % 2 ^ n)}
<1>1. POS_OP \in Nat /\ x \in Int BY Widths DEF Word
<1>2. t \in 0..2 ^ OpBits - 1 BY WordSplits
<1>3. /\ \E r \in 0..2 ^ POS_OP - 1 : y = t * 2 ^ POS_OP + r
      /\ \A n \in 0..POS_OP - 1 : XorBit(y, index, n) = Bit(x, n)
  BY Encoded
<1> HIDE DEF y, t
<1>4. PICK r \in 0..2 ^ POS_OP - 1 : y = t * 2 ^ POS_OP + r BY <1>3
<1>5. Field(y, POS_OP, OpBits) = t BY <1>2, <1>4, TopOf
<1>6. y \in Word
  <2> DEFINE u == 2 ^ OpBits  v == 2 ^ POS_OP
  <2>1. u \in Nat /\ v \in Nat \ {0} /\ Size = u * v BY SizeIs
  <2>2. t \in 0..u - 1 /\ r \in 0..v - 1 /\ y = t * v + r BY <1>2, <1>4
  <2> HIDE DEF u, v
  <2>3. t * v >= 0 /\ t * v <= (u - 1) * v BY <2>1, <2>2
  <2>4. y \in 0..u * v - 1 BY <2>1, <2>2, <2>3
  <2> QED BY <2>1, <2>4 DEF Word
<1>7. Decodes(f, y, index) BY <1>6, DecodesSome
<1>8. deobfuscateInstruction(y, index) = f[POS_OP] BY DEF deobfuscateInstruction, Decodes
<1> HIDE DEF f
<1>9. t * 2 ^ POS_OP \in Int BY <1>1, <1>2, Widths, Powers
<1>10. 0 \in P
  <2>1. f[0] = t * 2 ^ POS_OP BY <1>1, <1>5, <1>7 DEF Decodes
  <2>2. x % 2 ^ 0 = 0 BY <1>1, Powers
  <2> QED BY <1>1, <1>9, <2>1, <2>2
<1>11. ASSUME NEW n \in 0..POS_OP, n # 0, n - 1 \in P PROVE n \in P
  <2> DEFINE k == n - 1
             b == t * 2 ^ POS_OP
  <2>1. k \in Nat /\ k \in 0..POS_OP - 1 /\ k + 1 = n BY <1>1, <1>11
  <2>2. f[n] = f[k] + XorBit(y, index, k) * 2 ^ k BY <1>7, <1>11 DEF Decodes
  <2>3. f[k] = b + (x % 2 ^ k) BY <1>11
  <2>4. XorBit(y, index, k) = Bit(x, k) /\ Bit(x, k) \in 0..1 BY <1>1, <1>3, <2>1, BitOf
  <2>5. x % 2 ^ n = (x % 2 ^ k) + Bit(x, k) * 2 ^ k BY <1>1, <2>1, LowBits
  <2> DEFINE v == 2 ^ k  d == Bit(x, k)  q == x % 2 ^ k
  <2>6. v \in Nat \ {0} BY <2>1, Powers
  <2>7. q \in Int
    <3> HIDE DEF v
    <3>1. x % v \in Int BY <1>1, <2>6
    <3> QED BY <3>1 DEF v
  <2> HIDE DEF b, k
  <2>8. f[n] = (b + q) + d * v /\ x % 2 ^ n = q + d * v BY <2>2, <2>3, <2>4, <2>5
  <2>9. b \in Int /\ d * v \in Int
    <3> HIDE DEF v, d
    <3>1. b \in Int BY <1>9 DEF b
    <3>2. d \in 0..1 BY <2>4 DEF d
    <3> QED BY <2>6, <3>1, <3>2
  <2> HIDE DEF v, d, q
  <2>10. f[n] = b + (q + d * v) BY <2>7, <2>8, <2>9
  <2>11. f[n] = b + (x % 2 ^ n) BY <2>8, <2>10
  <2> QED BY <1>11, <2>11 DEF b
<1>12. POS_OP \in P
  <2> HIDE DEF P
  <2> QED BY <1>1, <1>10, <1>11, Climb
<1>13. x = t * 2 ^ POS_OP + (x % 2 ^ POS_OP) BY WordSplits DEF t
<1>14. deobfuscateInstruction(y, index) = x BY <1>8, <1>12, <1>13
<1> QED BY <1>5, <1>6, <1>14 DEF y, t

------------------------------------------------------------------------------
(* The key *)

(* An odd key has an inverse modulo every power of two. *)
LEMMA Inverses ==
  ASSUME NEW key \in Int, key % 2 = 1, NEW w \in Nat
  PROVE  \E i \in 0..2 ^ w - 1 : Same(i * key, 1, 2 ^ w)
<1> DEFINE P == {n \in 0..w : \E i \in 0..2 ^ n - 1 : Same(i * key, 1, 2 ^ n)}
<1>1. PICK q \in Int : key = 2 * q + 1
  <2>1. 2 \in Nat \ {0} OBVIOUS
  <2>2. key \div 2 \in Int /\ key = (key % 2) + (key \div 2) * 2 BY <2>1, Division
  <2> DEFINE h == key \div 2
  <2>3. h \in Int /\ key = 1 + h * 2 BY <2>2
  <2> HIDE DEF h
  <2>4. key = 2 * h + 1 BY <2>3
  <2> QED BY <2>3, <2>4
<1>2. 0 \in P
  <2>1. 2 ^ 0 = 1 BY Powers
  <2>2. 0 * key = 1 + (-1) * 1 OBVIOUS
  <2>3. -1 \in Int OBVIOUS
  <2>4. Same(0 * key, 1, 1) BY <2>2, <2>3 DEF Same
  <2>5. 0 \in 0..2 ^ 0 - 1 BY <2>1
  <2> QED BY <2>1, <2>4, <2>5
<1>3. ASSUME NEW n \in 0..w, n # 0, n - 1 \in P PROVE n \in P
  <2> DEFINE v == 2 ^ (n - 1)
  <2>1. n - 1 \in Nat /\ (n - 1) + 1 = n BY <1>3
  <2>2. v \in Nat \ {0} /\ 2 ^ n = 2 * v BY <2>1, Powers
  <2>3. PICK i \in 0..v - 1 : Same(i * key, 1, v) BY <1>3
  <2> HIDE DEF v
  <2>4. PICK k \in Int : i * key = 1 + k * v BY <2>3 DEF Same
  <2>5. i \in Int BY <2>2, <2>3
  <2>6. \E j \in 0..2 * v - 1 : Same(j * key, 1, 2 * v)
    <3>1. PICK l \in Int : k = 2 * l \/ k = 2 * l + 1
      <4>1. k % 2 \in 0..1 /\ k \div 2 \in Int /\ k = (k % 2) + (k \div 2) * 2
        <5>1. 2 \in Nat \ {0} OBVIOUS
        <5>2. k % 2 \in 0..2 - 1 /\ k \div 2 \in Int /\ k = (k % 2) + (k \div 2) * 2 BY <5>1, Division
        <5> QED BY <5>2
      <4> QED BY <4>1
    <3>2. CASE k = 2 * l
      <4>1. i * key = 1 + l * (2 * v) BY <2>2, <2>4, <3>2
      <4>2. i \in 0..2 * v - 1 BY <2>2, <2>3
      <4> QED BY <4>1, <4>2 DEF Same
    <3>3. CASE k = 2 * l + 1
      <4>1. (i + v) * key = i * key + v * (2 * q + 1) BY <1>1, <2>2, <2>5
      <4>2. (i + v) * key = 1 + (l + q + 1) * (2 * v) BY <2>2, <2>4, <3>3, <4>1
      <4>3. i + v \in 0..2 * v - 1 /\ l + q + 1 \in Int BY <2>2, <2>3
      <4> QED BY <4>2, <4>3 DEF Same
    <3> QED BY <3>1, <3>2, <3>3
  <2> QED BY <2>2, <2>6
<1>4. w \in P
  <2> HIDE DEF P
  <2> QED BY <1>2, <1>3, Climb
<1> QED BY <1>4

(* The search finds it: only the last word of all is its own inverse there. *)
LEMMA Cracked ==
  ASSUME NEW key \in Word, key % 2 = 1, key # Size - 1
  PROVE  CrackEncodeKey(key) \in Word /\ (CrackEncodeKey(key) * key) % Size = 1
<1> DEFINE found == {i \in 0..Size - 2 : (i * key) % Size = 1}
<1>1. Size \in Nat \ {0} /\ Size = 2 ^ (OpBits + POS_OP) /\ OpBits + POS_OP \in Nat BY Widths
<1>2. key \in Int /\ key \in 0..Size - 1 BY <1>1 DEF Word
<1>3. Size >= 2
  <2>1. CASE Size = 1
    <3>1. key = 0 BY <1>2, <2>1
    <3> QED BY <3>1
  <2> QED BY <1>1, <2>1
<1>4. PICK i \in 0..Size - 1 : Same(i * key, 1, Size) BY <1>1, <1>2, Inverses
<1>5. i \in Int /\ i * key \in Int BY <1>1, <1>2, <1>4
<1>6. (i * key) % Size = 1
  <2>1. PICK k \in Int : i * key = 1 + k * Size BY <1>4 DEF Same
  <2>2. 1 \in 0..Size - 1 BY <1>1, <1>3
  <2> DEFINE one == 1
  <2>3. one \in 0..Size - 1 /\ i * key = one + k * Size BY <2>1, <2>2
  <2> HIDE DEF one
  <2>4. (one + k * Size) % Size = one BY <1>1, <2>3, Remainder
  <2>5. (i * key) % Size = one BY <2>3, <2>4, Zenon
  <2> QED BY <2>5 DEF one
<1>7. i # Size - 1
  <2> SUFFICES ASSUME i = Size - 1 PROVE FALSE OBVIOUS
  <2>1. PICK k \in Int : i * key = 1 + k * Size BY <1>4 DEF Same
  <2> DEFINE l == key - k
  <2>2. key + 1 = l * Size /\ l \in Int
    <3>0. \A s, m, n \in Int : (s - 1) * m = s * m - m /\ (m - n) * s = s * m - n * s OBVIOUS
    <3>1. (Size - 1) * key = Size * key - key
      <4>1. Size \in Int /\ key \in Int /\ k \in Int BY <1>1, <1>2
      <4> QED BY <3>0, <4>1, Zenon
    <3>2. Size * key - key = 1 + k * Size BY <2>1, <3>1
    <3>3. (key - k) * Size = Size * key - k * Size
      <4>1. Size \in Int /\ key \in Int /\ k \in Int BY <1>1, <1>2
      <4> QED BY <3>0, <4>1, ZenonT(30)
    <3>4. key + 1 = (key - k) * Size BY <1>1, <1>2, <3>2, <3>3
    <3> QED BY <1>2, <3>4
  <2> HIDE DEF l
  <2>3. key + 1 >= 1 /\ key + 1 < Size BY <1>1, <1>2
  <2>4. l >= 1 \/ l <= 0 BY <2>2
  <2>5. CASE l >= 1
    <3>1. l * Size >= Size BY <1>1, <2>2, <2>5
    <3> QED BY <1>1, <2>2, <2>3, <3>1
  <2>6. CASE l <= 0
    <3>1. l * Size <= 0 BY <1>1, <2>2, <2>6
    <3> QED BY <1>1, <2>2, <2>3, <3>1
  <2> QED BY <2>4, <2>5, <2>6
<1>8. i \in found BY <1>1, <1>4, <1>6, <1>7
<1>9. found \in SUBSET Nat BY <1>1
<1>10. \E a \in found : \A b \in found : a <= b
  <2> HIDE DEF found
  <2>1. found # {} BY <1>8
  <2> QED BY <1>9, <2>1, Least
<1>11. CrackEncodeKey(key) = CHOOSE a \in found : \A b \in found : a <= b
  BY <1>8 DEF CrackEncodeKey
<1>12. CrackEncodeKey(key) \in found
  <2> HIDE DEF found
  <2> QED BY <1>10, <1>11
<1> QED BY <1>1, <1>12 DEF Word

LEMMA MultipliedBack ==
  ASSUME NEW w \in Word, NEW e \in Int, NEW d \in Int, (e * d) % Size = 1
  PROVE  (((w * e) % Size) * d) % Size = w
<1> DEFINE a == w * e  b == e * d
           r == a % Size  q == a \div Size  p == b \div Size
<1>1. Size \in Nat \ {0} /\ w \in Int /\ w \in 0..Size - 1 BY Widths DEF Word
<1>2. a \in Int /\ b \in Int BY <1>1
<1>3. r \in Int /\ q \in Int /\ a = r + q * Size
  <2> HIDE DEF a
  <2> QED BY <1>1, <1>2, Division
<1>4. p \in Int /\ b = 1 + p * Size
  <2>1. b % Size = 1 OBVIOUS
  <2> HIDE DEF b
  <2>2. b = (b % Size) + p * Size /\ p \in Int BY <1>1, <1>2, Division
  <2> QED BY <2>1, <2>2
<1> HIDE DEF r, q, p
<1> DEFINE n == w * p - q * d
<1>5. n \in Int BY <1>1, <1>3, <1>4
<1>6. r * d = w + n * Size
  <2>1. w * e = r + q * Size /\ e * d = 1 + p * Size BY <1>3, <1>4
  <2>2. (w * e) * d = w * (e * d) BY <1>1
  <2>3. (r + q * Size) * d = w * (1 + p * Size) BY <2>1, <2>2
  <2>4. r * d + (q * d) * Size = w + (w * p) * Size BY <1>1, <1>3, <1>4, <2>3
  <2> QED BY <1>1, <1>3, <1>4, <2>4
<1> HIDE DEF n
<1>7. (r * d) % Size = w
  <2>1. (w + n * Size) % Size = w BY <1>1, <1>5, Remainder
  <2> QED BY <1>6, <2>1
<1> QED BY <1>7 DEF r

------------------------------------------------------------------------------
(* The host's word *)

(* Every operation has a number of the host, and no two the same. *)
LEMMA Numbered ==
  /\ \A x \in Instruction : GET_OPCODE(x) \in Ops
  /\ \A op \in Ops : RbxNumber[op] \in 0..37 /\ RbxOps[RbxNumber[op] + 1] = op
<1>1. Len(LuaOps) = 38 /\ Len(RbxOps) = 38 BY DEF LuaOps, RbxOps
<1>2. ASSUME NEW x \in Instruction PROVE GET_OPCODE(x) \in Ops
  <2> DEFINE f == Field(x, POS_OP, OpBits)
  <2>1. x \in Word /\ f < 38 BY <1>1 DEF Instruction
  <2>2. f \in Int /\ 0 <= f
    <3>1. f \in 0..2 ^ OpBits - 1 BY <2>1, WordSplits
    <3> HIDE DEF f
    <3> QED BY <3>1
  <2> HIDE DEF f
  <2>3. f + 1 \in 1..Len(LuaOps) BY <1>1, <2>1, <2>2
  <2>4. GET_OPCODE(x) = LuaOps[f + 1] BY DEF GET_OPCODE, f
  <2> QED BY <2>3, <2>4 DEF Ops
<1>3. \A n \in 1..38 : \E m \in 1..38 : RbxOps[m] = LuaOps[n]
  BY SMTT(60) DEF LuaOps, RbxOps
<1>4. ASSUME NEW op \in Ops PROVE RbxNumber[op] \in 0..37 /\ RbxOps[RbxNumber[op] + 1] = op
  <2>1. PICK n \in 1..38 : op = LuaOps[n] BY <1>1 DEF Ops
  <2>2. \E m \in 1..38 : RbxOps[m] = op BY <1>3, <2>1, ZenonT(40)
  <2> DEFINE c == CHOOSE m \in 1..Len(RbxOps) : RbxOps[m] = op
  <2>3. c \in 1..38 /\ RbxOps[c] = op
    <3>1. \E m \in 1..Len(RbxOps) : RbxOps[m] = op BY <1>1, <2>2
    <3>2. c \in 1..Len(RbxOps) /\ RbxOps[c] = op BY <3>1
    <3> QED BY <1>1, <3>2, ZenonT(30)
  <2>4. RbxNumber[op] = c - 1 BY DEF RbxNumber, Number
  <2> HIDE DEF c
  <2>5. (c - 1) + 1 = c /\ c - 1 \in 0..37 BY <2>3
  <2> QED BY <2>3, <2>4, <2>5
<1> QED BY <1>2, <1>4

LEMMA FieldBound ==
  ASSUME NEW x \in Int, NEW pos \in Nat, NEW width \in Nat
  PROVE  Field(x, pos, width) \in 0..2 ^ width - 1
<1> DEFINE t == 2 ^ pos  s == 2 ^ width  q == x \div t
<1>1. t \in Nat \ {0} /\ s \in Nat \ {0} BY Powers
<1>2. q \in Int
  <2> HIDE DEF t
  <2> QED BY <1>1, Division
<1>3. q % s \in 0..s - 1
  <2> HIDE DEF q, s
  <2> QED BY <1>1, <1>2, Division
<1> HIDE DEF q
<1>4. Field(x, pos, width) = q % s BY DEF Field, q
<1> QED BY <1>3, <1>4

(* What CreateBx puts together can be taken apart. *)
LEMMA Created ==
  ASSUME NEW op \in Ops, NEW a \in 0..2 ^ ABits - 1, NEW bx \in 0..2 ^ SIZE_Bx - 1
  PROVE  LET y == CreateBx(op, a, bx) IN
           /\ y \in Word
           /\ Field(y, POS_OP, OpBits) = RbxNumber[op]
           /\ GETARG_A(y) = a /\ GETARG_Bx(y) = bx
           /\ \A b \in 0..2 ^ BBits - 1, c \in 0..2 ^ BBits - 1 :
                bx = b * 2 ^ POS_B + c => GETARG_B(y) = b /\ GETARG_C(y) = c
<1> DEFINE R == RbxNumber[op]
           y == CreateBx(op, a, bx)
           ta == 2 ^ ABits  tb == 2 ^ BBits  t == 2 ^ SIZE_Bx  tp == 2 ^ POS_OP  s == 2 ^ OpBits
           low == a * t + bx
<1>1. /\ ABits \in Nat /\ BBits \in Nat /\ SIZE_Bx \in Nat /\ POS_OP \in Nat /\ OpBits \in Nat
      /\ POS_A = SIZE_Bx /\ POS_B = BBits /\ CBits = BBits
      /\ POS_OP = ABits + SIZE_Bx /\ SIZE_Bx = BBits + BBits
  BY Widths, WidthAssumption
<1>2. /\ ta \in Nat \ {0} /\ tb \in Nat \ {0} /\ t \in Nat \ {0} /\ tp \in Nat \ {0}
      /\ s \in Nat \ {0}
  BY <1>1, Powers
<1>3. tp = ta * t /\ t = tb * tb /\ Size = s * tp BY <1>1, Widths, PowerSum, ZenonT(30)
<1>4. s = 64
  <2>1. 2 ^ 2 = 4
    <3>1. 1 \in Nat /\ 1 + 1 = 2 OBVIOUS
    <3>2. 2 ^ (1 + 1) = 2 * 2 ^ 1 /\ 2 ^ 1 = 2 BY <3>1, Powers
    <3> QED BY <3>1, <3>2
  <2>2. 2 ^ 4 = 16
    <3>1. 2 \in Nat /\ 2 + 2 = 4 OBVIOUS
    <3>2. 2 ^ (2 + 2) = 2 ^ 2 * 2 ^ 2 BY <3>1, PowerSum
    <3> QED BY <2>1, <3>1, <3>2
  <2>3. 2 ^ 6 = 64
    <3>1. 4 \in Nat /\ 2 \in Nat /\ 4 + 2 = 6 OBVIOUS
    <3>2. 2 ^ (4 + 2) = 2 ^ 4 * 2 ^ 2 BY <3>1, PowerSum
    <3> QED BY <2>1, <2>2, <3>1, <3>2
  <2> QED BY <2>3 DEF OpBits
<1>5. R \in 0..s - 1
  <2>1. R \in 0..37 BY Numbered
  <2> QED BY <1>4, <2>1
<1>6. y = R * tp + a * t + bx BY <1>1 DEF CreateBx
<1>7. a \in 0..ta - 1 /\ bx \in 0..t - 1 OBVIOUS
<1> HIDE DEF R, y
<1>8. low \in 0..tp - 1 /\ y = R * tp + low
  <2> HIDE DEF ta, tb, t, tp, s
  <2>1. a * t \in Int /\ a * t >= 0 /\ a * t <= (ta - 1) * t BY <1>2, <1>7
  <2>2. (ta - 1) * t = ta * t - t BY <1>2
  <2>3. R * tp \in Int BY <1>2, <1>5
  <2> QED BY <1>2, <1>3, <1>6, <1>7, <2>1, <2>2, <2>3
<1>9. Field(y, POS_OP, OpBits) = R BY <1>5, <1>8, TopOf
<1>10. y \in Word
  <2> HIDE DEF ta, tb, t, tp, s, low
  <2>1. R * tp >= 0 /\ R * tp <= (s - 1) * tp BY <1>2, <1>5
  <2>2. (s - 1) * tp = s * tp - tp BY <1>2
  <2>3. y \in 0..s * tp - 1 BY <1>2, <1>5, <1>8, <2>1, <2>2
  <2> QED BY <1>3, <2>3 DEF Word
<1>11. y = (R * ta + a) * t + bx
  <2> HIDE DEF ta, tb, t, tp, s, low
  <2>1. (R * ta + a) * t = R * (ta * t) + a * t BY <1>2, <1>5, <1>7
  <2> QED BY <1>2, <1>3, <1>5, <1>6, <1>7, <2>1
<1>12. R \in Int BY <1>5
<1>13. GETARG_A(y) = a
  <2>1. Field(y, SIZE_Bx, ABits) = a BY <1>1, <1>7, <1>11, <1>12, FieldIs
  <2> QED BY <1>1, <2>1 DEF GETARG_A
<1>14. GETARG_Bx(y) = bx
  <2> DEFINE h == R * ta + a
             none == 0
             x == y
  <2>1. 2 ^ 0 = 1 BY Powers
  <2>2. h \in Int /\ none \in Int /\ none \in 0..2 ^ none - 1
    <3>1. h \in Int BY <1>2, <1>7, <1>12
    <3> QED BY <2>1, <3>1
  <2>3. y = (h * t + bx) * 2 ^ none + none
    <3>1. h * t + bx \in Int
      <4> HIDE DEF h, t
      <4> QED BY <1>2, <1>7, <2>2
    <3>2. y = h * t + bx BY <1>11
    <3> HIDE DEF h, t
    <3> QED BY <2>1, <3>1, <3>2
  <2>4. none \in Nat BY <2>2
  <2> HIDE DEF h, none
  <2>5. Field(y, none, SIZE_Bx) = bx BY <1>1, <1>7, <2>2, <2>3, <2>4, FieldIs
  <2> QED BY <2>5 DEF GETARG_Bx, none
<1>15. ASSUME NEW b \in 0..tb - 1, NEW c \in 0..tb - 1, bx = b * tb + c
       PROVE  GETARG_B(y) = b /\ GETARG_C(y) = c
  <2> DEFINE h == (R * ta + a) * tb
             g == R * ta + a
  <2>1. g \in Int BY <1>2, <1>7, <1>12
  <2> HIDE DEF g
  <2>2. y = (g * tb + b) * tb + c /\ g * tb + b \in Int
    <3>1. y = g * t + bx BY <1>11 DEF g
    <3> HIDE DEF t, tb
    <3>2. g * (tb * tb) = (g * tb) * tb BY <1>2, <2>1
    <3>3. (g * tb + b) * tb = (g * tb) * tb + b * tb BY <1>2, <1>15, <2>1
    <3>4. g * tb \in Int /\ (g * tb) * tb \in Int /\ b * tb \in Int BY <1>2, <1>15, <2>1
    <3> QED BY <1>2, <1>3, <1>15, <3>1, <3>2, <3>3, <3>4
  <2>3. GETARG_B(y) = b
    <3>1. Field(y, BBits, BBits) = b BY <1>1, <1>15, <2>1, <2>2, FieldIs
    <3> QED BY <1>1, <3>1 DEF GETARG_B
  <2>4. GETARG_C(y) = c
    <3> DEFINE k == g * tb + b
               none == 0
    <3>1. 2 ^ 0 = 1 BY Powers
    <3>2. none \in Nat /\ none \in 0..2 ^ none - 1 BY <3>1
    <3>3. k \in Int /\ y = k * tb + c BY <2>2
    <3>4. k * tb + c \in Int
      <4> HIDE DEF k, tb
      <4> QED BY <1>2, <1>15, <3>3
    <3> HIDE DEF k
    <3>5. y = (k * tb + c) * 2 ^ none + none
      <4> HIDE DEF tb
      <4> QED BY <3>1, <3>3, <3>4
    <3> HIDE DEF none
    <3>6. BBits \in Nat /\ c \in 0..2 ^ BBits - 1 /\ y = (k * 2 ^ BBits + c) * 2 ^ none + none
      BY <1>1, <1>15, <3>5
    <3>7. k \in Int BY <3>3
    <3> HIDE DEF tb
    <3>8. Field(y, none, BBits) = c BY <3>2, <3>6, <3>7, FieldIs
    <3> QED BY <1>1, <3>8 DEF GETARG_C, none
  <2> QED BY <2>3, <2>4
<1>16. /\ y \in Word /\ Field(y, POS_OP, OpBits) = R /\ GETARG_A(y) = a /\ GETARG_Bx(y) = bx
       /\ \A b \in 0..2 ^ BBits - 1, c \in 0..2 ^ BBits - 1 :
            bx = b * 2 ^ POS_B + c => GETARG_B(y) = b /\ GETARG_C(y) = c
  BY <1>1, <1>9, <1>10, <1>13, <1>14, <1>15
<1> QED BY <1>16 DEF y, R

(* The operands of the host's word are those of the compiler's, in their places. *)
Placed(y, x) ==
  /\ Field(y, POS_OP, OpBits) = RbxNumber[GET_OPCODE(x)]
  /\ GETARG_A(y) = GETARG_A(x)
  /\ IF GET_OPCODE(x) \in WideOps THEN GETARG_Bx(y) = GETARG_Bx(x)
     ELSE /\ GETARG_C(y) = GETARG_B(x)
          /\ GETARG_B(y) = IF GET_OPCODE(x) = "MOVE" THEN 1 ELSE GETARG_C(x)

LEMMA ReorderedRight ==
  ASSUME NEW x \in Instruction
  PROVE  Reordered(x) \in Word /\ Placed(Reordered(x), x)
<1> DEFINE op == GET_OPCODE(x)
           a == GETARG_A(x)
           y == Reordered(x)
<1>1. op \in Ops BY Numbered
<1>2. x \in Int BY Widths DEF Instruction, Word
<1>3. /\ ABits \in Nat /\ BBits \in Nat /\ SIZE_Bx \in Nat /\ POS_A \in Nat /\ POS_B \in Nat
      /\ CBits = BBits /\ POS_B = BBits /\ SIZE_Bx = BBits + BBits /\ 0 \in Nat
  BY Widths, WidthAssumption
<1>4. a \in 0..2 ^ ABits - 1 BY <1>2, <1>3, FieldBound DEF GETARG_A
<1> HIDE DEF op, a
<1>5. CASE op \in WideOps
  <2> DEFINE bx == GETARG_Bx(x)
  <2>1. bx \in 0..2 ^ SIZE_Bx - 1 BY <1>2, <1>3, FieldBound DEF GETARG_Bx
  <2>2. y = CreateBx(op, a, bx) BY <1>5 DEF Reordered, op, a
  <2> HIDE DEF bx, y
  <2>3. y \in Word /\ Field(y, POS_OP, OpBits) = RbxNumber[op] /\ GETARG_A(y) = a
        /\ GETARG_Bx(y) = bx
    BY <1>1, <1>4, <2>1, <2>2, Created
  <2> QED BY <1>5, <2>3 DEF Placed, op, a, bx, y
<1>6. CASE op \notin WideOps
  <2> DEFINE b == IF op = "MOVE" THEN 1 ELSE GETARG_C(x)
             c == GETARG_B(x)
             t == 2 ^ BBits
             bx == b * t + c
  <2>1. t \in Nat \ {0} /\ t >= 2 /\ 2 ^ SIZE_Bx = t * t
    <3>1. BBits - 1 \in Nat /\ (BBits - 1) + 1 = BBits BY <1>3, WidthAssumption
    <3>2. 2 ^ (BBits - 1) \in Nat \ {0} /\ t = 2 * 2 ^ (BBits - 1) BY <3>1, Powers
    <3>3. 2 ^ SIZE_Bx = t * t BY <1>3, PowerSum
    <3> DEFINE h == 2 ^ (BBits - 1)
    <3>4. h \in Nat \ {0} /\ t = 2 * h BY <3>2
    <3> HIDE DEF t, h
    <3>5. t \in Nat \ {0} /\ t >= 2 BY <3>4
    <3> QED BY <3>3, <3>5
  <2>2. c \in 0..t - 1 BY <1>2, <1>3, FieldBound DEF GETARG_B
  <2>3. b \in 0..t - 1
    <3>1. GETARG_C(x) \in 0..t - 1 BY <1>2, <1>3, FieldBound DEF GETARG_C
    <3>2. 1 \in 0..t - 1
      <4> HIDE DEF t
      <4> QED BY <2>1
    <3> HIDE DEF t
    <3> QED BY <3>1, <3>2
  <2>4. b % t = b /\ c % t = c
    <3> DEFINE none == 0
    <3>1. none \in Int OBVIOUS
    <3>2. b + none * t = b /\ c + none * t = c
      <4> HIDE DEF b, c, t
      <4> QED BY <2>1, <2>2, <2>3
    <3> HIDE DEF b, c, t, none
    <3>3. (b + none * t) % t = b /\ (c + none * t) % t = c BY <2>1, <2>2, <2>3, <3>1, Remainder
    <3> QED BY <3>2, <3>3
  <2>5. y = CreateBC(op, a, b, c) BY <1>6 DEF Reordered, op, a
  <2>6. y = CreateBx(op, a, bx) BY <1>3, <2>4, <2>5 DEF CreateBC
  <2>7. bx \in 0..2 ^ SIZE_Bx - 1
    <3> HIDE DEF b, c, t
    <3>1. b * t >= 0 /\ b * t <= (t - 1) * t /\ b * t \in Int BY <2>1, <2>3
    <3>2. (t - 1) * t = t * t - t /\ t * t \in Int BY <2>1
    <3>3. bx \in 0..t * t - 1 BY <2>1, <2>2, <3>1, <3>2
    <3> QED BY <2>1, <3>3
  <2>8. bx = b * 2 ^ POS_B + c BY <1>3
  <2>9. b \in 0..2 ^ BBits - 1 /\ c \in 0..2 ^ BBits - 1 BY <2>2, <2>3
  <2> HIDE DEF b, c, t, bx, y
  <2>10. /\ y \in Word /\ Field(y, POS_OP, OpBits) = RbxNumber[op] /\ GETARG_A(y) = a
         /\ GETARG_B(y) = b /\ GETARG_C(y) = c
    <3>1. /\ y \in Word /\ Field(y, POS_OP, OpBits) = RbxNumber[op] /\ GETARG_A(y) = a
          /\ \A l \in 0..2 ^ BBits - 1, m \in 0..2 ^ BBits - 1 :
               bx = l * 2 ^ POS_B + m => GETARG_B(y) = l /\ GETARG_C(y) = m
      BY <1>1, <1>4, <2>6, <2>7, Created
    <3>2. GETARG_B(y) = b /\ GETARG_C(y) = c BY <2>8, <2>9, <3>1
    <3> QED BY <3>1, <3>2
  <2> QED BY <1>6, <2>10 DEF Placed, op, a, b, c, y
<1> QED BY <1>5, <1>6

(* With a key and its inverse the host sees the operation and operands meant. *)
LEMMA TranspiledRight ==
  ASSUME NEW x \in Instruction, NEW index \in Int, NEW e \in Int, NEW d \in Int, (e * d) % Size = 1
  PROVE  Means(Transpiled(x, index, e), index, d, x)
<1> DEFINE op == GET_OPCODE(x)
           w == Reordered(x)
           special == op \in SpecialOps
           sent == IF special THEN obfuscateInstructionFast(w, index) ELSE w
           y == HostWord(Transpiled(x, index, e), index, d)
<1>1. w \in Word /\ Placed(w, x) BY ReorderedRight
<1>2. Field(w, POS_OP, OpBits) = RbxNumber[op] BY <1>1 DEF Placed
<1>3. op \in Ops BY Numbered
<1>4. sent \in Word /\ Field(sent, POS_OP, OpBits) = RbxNumber[op] BY <1>1, <1>2, RoundTrip
<1>5. Transpiled(x, index, e) = (sent * e) % Size BY DEF Transpiled
<1>6. (Transpiled(x, index, e) * d) % Size = sent
  <2> HIDE DEF sent
  <2> QED BY <1>4, <1>5, MultipliedBack
<1>7. special <=> \E s \in SpecialOps : RbxNumber[s] = RbxNumber[op]
  <2>1. SpecialOps \subseteq Ops
    <3>1. LuaOps[29] = "CALL" /\ LuaOps[30] = "TAILCALL" /\ LuaOps[31] = "RETURN"
          /\ LuaOps[37] = "CLOSURE" /\ Len(LuaOps) = 38
      BY DEF LuaOps
    <3>2. \A n \in {29, 30, 31, 37} : LuaOps[n] \in Ops BY <3>1 DEF Ops
    <3> QED BY <3>1, <3>2 DEF SpecialOps
  <2>2. ASSUME NEW s \in SpecialOps, RbxNumber[s] = RbxNumber[op] PROVE s = op
    <3>1. RbxOps[RbxNumber[s] + 1] = s /\ RbxOps[RbxNumber[op] + 1] = op BY <1>3, <2>1, Numbered
    <3> QED BY <2>2, <3>1
  <2> HIDE DEF op
  <2> QED BY <2>2
<1>8. y = IF \E s \in SpecialOps : RbxNumber[s] = Field(sent, POS_OP, OpBits)
          THEN deobfuscateInstruction(sent, index) ELSE sent
  <2> HIDE DEF sent
  <2> QED BY <1>6 DEF HostWord
<1>9. y = w
  <2>1. y = IF special THEN deobfuscateInstruction(sent, index) ELSE sent BY <1>4, <1>7, <1>8
  <2>2. CASE special
    <3>1. sent = obfuscateInstructionFast(w, index) BY <2>2
    <3> HIDE DEF w, y, sent
    <3>2. deobfuscateInstruction(obfuscateInstructionFast(w, index), index) = w BY <1>1, RoundTrip
    <3> QED BY <2>1, <2>2, <3>1, <3>2
  <2>3. CASE ~special BY <2>1, <2>3
  <2> QED BY <2>2, <2>3
<1>10. Placed(y, x) BY <1>1, <1>9
<1> HIDE DEF y
<1>11. Placed(HostWord(Transpiled(x, index, e), index, d), x) BY <1>10 DEF y
<1> QED BY <1>11, Zenon DEF Placed, Means

------------------------------------------------------------------------------
(* The converted code *)

(* The key is cracked once and kept. *)
KeyKept ==
  /\ code \in [Protos -> Seq(Instruction)] /\ decodeKey \in Word
  /\ encodeKey = {} \/ encodeKey = {CrackEncodeKey(decodeKey)}

LEMMA KeyIs ==
  ASSUME KeyKept
  PROVE  Key = CrackEncodeKey(decodeKey)
<1>1. CASE encodeKey = {} BY <1>1 DEF Key
<1>2. CASE encodeKey = {CrackEncodeKey(decodeKey)} BY <1>2 DEF Key
<1> QED BY <1>1, <1>2 DEF KeyKept

LEMMA KeyFirst == Init => KeyKept
<1> SUFFICES ASSUME Init PROVE KeyKept OBVIOUS
<1>1. PICK case \in Cases : code = case.code /\ decodeKey = case.key BY DEF Init
<1>2. case \in [code : [Protos -> Seq(Instruction)], key : Word] BY ProtosAssumption
<1> QED BY <1>1, <1>2 DEF Init, KeyKept

LEMMA KeyStays == KeyKept /\ [Next]_vars => KeyKept'
<1> SUFFICES ASSUME KeyKept, [Next]_vars PROVE KeyKept' OBVIOUS
<1>1. code' = code /\ decodeKey' = decodeKey
  BY DEF Next, Conversion, Host, vars, source, ProtoConversionRejects, ProtoConversionBegins,
         TranspileConstant, TranspileCode, TranspileChild, ReturnChild, ProtoConversionEnds,
         HostRaises, HostCollects, HostDrops
<1>2. encodeKey' = encodeKey \/ encodeKey' = {Key}
  BY DEF Next, Conversion, Host, vars, ProtoConversionRejects, ProtoConversionBegins,
         TranspileConstant, TranspileCode, TranspileChild, ReturnChild, ProtoConversionEnds,
         HostRaises, HostCollects, HostDrops
<1>3. Key = CrackEncodeKey(decodeKey) BY KeyIs
<1> QED BY <1>1, <1>2, <1>3, SMTT(30) DEF KeyKept

(* A step that writes the code of a function writes what the host understands. *)
LEMMA CodeStep ==
  ASSUME TypeOK, CallsFit, Codes, KeyKept, [Next]_vars,
         decodeKey % 2 = 1, decodeKey # Size - 1,
         NEW h \in DOMAIN instructions, instructions'[h] # instructions[h],
         NEW n \in DOMAIN instructions'[h]
  PROVE  Means(instructions'[h][n], n - 1, decodeKey, code[heap[h].proto][n])
<1>1. Len(instructions) \in Nat /\ DOMAIN instructions = 1 .. Len(instructions)
      /\ Len(instructions) = Len(heap)
  BY DEF Codes
<1>2. h \in 1 .. Len(heap) BY <1>1
<1>3. ASSUME NEW p, NEW cache, Enter(p, cache) PROVE FALSE
  <2>1. instructions' = Append(instructions, <<>>) BY <1>3 DEF Enter
  <2>2. instructions'[h] = instructions[h] BY <1>1, <2>1 DEF Codes
  <2> QED BY <2>2
<1>4. CASE TranspileCode
  <2> DEFINE key == CrackEncodeKey(decodeKey)
             p == Source
             made == [m \in 1 .. Len(code[p]) |-> Transpiled(code[p][m], m - 1, key)]
  <2>1. Key = key BY KeyIs
  <2>2. instructions' = [instructions EXCEPT ![Call.host] = made] BY <1>4, <2>1 DEF TranspileCode
  <2>3. h = Call.host /\ instructions'[h] = made BY <2>2
  <2>4. Len(calls) \in 1 .. Len(calls) /\ Call \in Frame
    <3>1. calls \in Seq(Frame) BY DEF TypeOK, Frame
    <3>2. calls # <<>> BY <1>4 DEF TranspileCode, Idle
    <3> QED BY <3>1, <3>2 DEF Call
  <2>5. heap[h].proto = p BY <2>3, <2>4 DEF CallsFit, Call, Source
  <2>6. p \in Protos BY <2>4 DEF Frame, Source
  <2>7. code[p] \in Seq(Instruction) BY <2>6 DEF KeyKept
  <2>8. key \in Word /\ (key * decodeKey) % Size = 1 /\ decodeKey \in Word BY Cracked DEF KeyKept
  <2>9. key \in Int /\ decodeKey \in Int BY <2>8, Widths DEF Word
  <2> HIDE DEF key, p
  <2>10. n \in 1 .. Len(code[p]) /\ instructions'[h][n] = Transpiled(code[p][n], n - 1, key)
    BY <2>3
  <2> DEFINE x == code[p][n]
  <2>11. x \in Instruction /\ n - 1 \in Int BY <2>7, <2>10
  <2> HIDE DEF x
  <2>12. Means(Transpiled(x, n - 1, key), n - 1, decodeKey, x)
    BY <2>8, <2>9, <2>11, TranspiledRight
  <2> QED BY <2>5, <2>10, <2>12, Zenon DEF x
<1>5. CASE HostCollects
  <2>1. instructions'[h] = IF h \in Reach(stack) THEN instructions[h] ELSE <<>>
    <3>1. h \in DOMAIN heap BY <1>2 DEF TypeOK
    <3> QED BY <1>5, <3>1 DEF HostCollects
  <2>2. instructions'[h] = <<>> BY <2>1
  <2>3. DOMAIN instructions'[h] = {} BY <2>2
  <2> QED BY <2>3
<1>6. CASE ProtoConversionBegins BY <1>3, <1>6 DEF ProtoConversionBegins
<1>7. CASE TranspileChild BY <1>3, <1>7 DEF TranspileChild
<1>8. CASE UNCHANGED instructions BY <1>8
<1> QED
  BY <1>4, <1>5, <1>6, <1>7, <1>8
     DEF Next, Conversion, Host, vars, ProtoConversionRejects, TranspileConstant, ReturnChild,
         ProtoConversionEnds, HostRaises, HostDrops

(* update.hpp:60, conversion.cpp:32: whatever the widths of the operands, for every
   word of the compiler, wherever it stands, and every key that the search can
   undo, the host decodes the operation and operands that the compiler meant. *)
THEOREM CodeMeansTheSame == Spec => CodeDecodes
<1> DEFINE Meant ==
      decodeKey % 2 = 1 /\ decodeKey # Size - 1 =>
        \A h \in DOMAIN instructions : instructions'[h] # instructions[h] =>
          \A n \in DOMAIN instructions'[h] :
            Means(instructions'[h][n], n - 1, decodeKey, code[heap[h].proto][n])
           All == Inv /\ Made /\ KeyKept
<1>1. Init => All BY Initially, InitiallyMade, KeyFirst
<1>2. All /\ [Next]_vars => All' BY Step, StepMakes, KeyStays
<1>3. All /\ [Next]_vars => [Meant]_vars
  <2> SUFFICES ASSUME All, [Next]_vars PROVE Meant OBVIOUS
  <2>1. TypeOK /\ CallsFit /\ Codes /\ KeyKept BY DEF Inv, Made
  <2> HIDE DEF All
  <2> QED BY <2>1, CodeStep
<1>4. CodeDecodes <=> [][Meant]_vars BY DEF CodeDecodes
<1> HIDE DEF Meant, All
<1> QED BY <1>1, <1>2, <1>3, <1>4, PTL DEF Spec

=============================================================================
