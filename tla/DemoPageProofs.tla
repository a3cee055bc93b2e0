--------------------------- MODULE DemoPageProofs ---------------------------
(***************************************************************************)
(* Theorems about DemoPage for all forms, contents, keys and methods, and   *)
(* every number of clicks and of requests under way.                       *)
(***************************************************************************)
EXTENDS DemoPage, FiniteSetTheorems, SequenceTheorems, TLAPS

-----------------------------------------------------------------------------
(* Signatures *)

(* How often a text occurs among two does not depend on their order.        *)
LEMMA OccurrencesSwap ==
    ASSUME NEW a, NEW b, NEW p
    PROVE  Cardinality({i \in 1..2 : <<a, b>>[i] = p}) =
           Cardinality({i \in 1..2 : <<b, a>>[i] = p})
<1>1. 1..2 = {1, 2}  OBVIOUS
<1>2. CASE (a = p) = (b = p)
  <2>1. {i \in 1..2 : <<a, b>>[i] = p} = {i \in 1..2 : <<b, a>>[i] = p}
    BY <1>1, <1>2
  <2>2. QED  BY <2>1
<1>3. CASE a = p /\ b # p
  <2>1. {i \in 1..2 : <<a, b>>[i] = p} = {1} /\ {i \in 1..2 : <<b, a>>[i] = p} = {2}
    BY <1>1, <1>3
  <2>2. QED  BY <2>1, FS_Singleton
<1>4. CASE a # p /\ b = p
  <2>1. {i \in 1..2 : <<a, b>>[i] = p} = {2} /\ {i \in 1..2 : <<b, a>>[i] = p} = {1}
    BY <1>1, <1>4
  <2>2. QED  BY <2>1, FS_Singleton
<1>5. QED  BY <1>2, <1>3, <1>4

(* The signature of two texts does not depend on their order: sorting them  *)
(* is what makes the scripts that list the fields in another order right.  *)
LEMMA SignatureSwap ==
    ASSUME NEW k, NEW a, NEW b
    PROVE  Signature(k, <<a, b>>) = Signature(k, <<b, a>>)
<1> DEFINE count(x, y, p) == Cardinality({i \in 1..2 : <<x, y>>[i] = p})
           texts(x, y) == {<<p, count(x, y, p)>> : p \in {x, y}}
<1>1. ASSUME NEW x, NEW y
      PROVE  Signature(k, <<x, y>>) = [texts |-> texts(x, y), key |-> k]
  <2> DEFINE v == <<x, y>>
             occurs(p) == Cardinality({i \in DOMAIN v : v[i] = p})
  <2>1. DOMAIN v = 1..2 /\ 1..2 = {1, 2} /\ v[1] = x /\ v[2] = y  OBVIOUS
  <2>2. \A p : occurs(p) = count(x, y, p)  BY <2>1
  <2>3. Signature(k, v) =
           [texts |-> {<<p, occurs(p)>> : p \in {v[i] : i \in DOMAIN v}}, key |-> k]
    BY DEF Signature
  <2> HIDE DEF v, occurs, count
  <2>4. {v[i] : i \in DOMAIN v} = {x, y}  BY <2>1
  <2>5. {<<p, occurs(p)>> : p \in {v[i] : i \in DOMAIN v}} = texts(x, y)
    BY <2>2, <2>4
  <2>6. QED  BY <2>3, <2>5 DEF v
<1>2. texts(a, b) = texts(b, a)
  <2>1. {a, b} = {b, a}  OBVIOUS
  <2>2. \A p : count(a, b, p) = count(b, a, p)  BY OccurrencesSwap
  <2> HIDE DEF count
  <2>3. QED  BY <2>1, <2>2
<1>3. QED  BY <1>1, <1>2

(* What Get Sign makes of fields without a ';' is the signature that the    *)
(* server computes of these fields, in the order of either side.            *)
LEMMA SignsTheFields ==
    ASSUME NEW f, NEW c \in Contents, NEW k, Semicolon \notin {c[1], c[2]}
    PROVE  Signature(k, Pieces(Joined(f, c))) = Signature(k, c)
<1>1. c = <<c[1], c[2]>>  BY ConstantsAssumption
<1>2. Pieces(<<c[1], c[2]>>) = <<c[1], c[2]>> /\ Pieces(<<c[2], c[1]>>) = <<c[2], c[1]>>
  <2>1. ASSUME NEW a, NEW b, a # Semicolon, b # Semicolon
        PROVE  Pieces(<<a, b>>) = <<a, b>>
    <3>1. Pieces(<<a, b>>) = <<a>> \o <<b>>  BY <2>1 DEF Pieces
    <3>2. /\ <<a>> \in Seq({a, b}) /\ <<b>> \in Seq({a, b}) /\ <<a, b>> \in Seq({a, b})
          /\ Len(<<a>>) = 1 /\ Len(<<b>>) = 1 /\ Len(<<a, b>>) = 2
          /\ <<a>>[1] = a /\ <<b>>[1] = b /\ <<a, b>>[1] = a /\ <<a, b>>[2] = b
      OBVIOUS
    <3> DEFINE joined == <<a>> \o <<b>>
    <3>3. /\ joined \in Seq({a, b}) /\ Len(joined) = 2
          /\ joined[1] = a /\ joined[2] = b
      BY <3>2, ConcatProperties
    <3> HIDE DEF joined
    <3>4. joined = <<a, b>>  BY <3>2, <3>3, SeqEqual
    <3>5. QED  BY <3>1, <3>4 DEF joined
  <2>2. QED  BY <2>1
<1>3. CASE f \in Swapped
  BY <1>1, <1>2, <1>3, SignatureSwap DEF Joined
<1>4. CASE f \notin Swapped
  BY <1>1, <1>2, <1>4 DEF Joined
<1>5. QED  BY <1>3, <1>4
-----------------------------------------------------------------------------
(* Types *)

(* The variables that hold something for each form are functions.          *)
Shapes ==
    /\ DOMAIN sign = SignedForms /\ DOMAIN signing = SignedForms
    /\ DOMAIN asked = SignedForms /\ DOMAIN tangled = SignedForms
    /\ DOMAIN sending = Forms /\ DOMAIN sends = Forms
    /\ DOMAIN display = Forms /\ DOMAIN crossed = Forms
    /\ \A f \in SignedForms : tangled[f] \in BOOLEAN

BaseInv == TypeOK /\ Shapes

LEMMA BaseInit == Init => BaseInv
<1> SUFFICES ASSUME Init PROVE BaseInv
  OBVIOUS
<1>1. \A f \in Forms : MaxSends[f] \in Nat  BY ConstantsAssumption DEF Forms
<1>2. Shapes  BY DEF Init, Shapes
<1>3. visible \subseteq Element  BY ConstantsAssumption DEF Init, Element
<1>4. TypeOK  BY <1>1, <1>3, ConstantsAssumption DEF Init, TypeOK, Hashes
<1>5. QED  BY <1>2, <1>4 DEF BaseInv

(* What getSign answers is a hash that the form's sign field may hold.      *)
LEMMA AnswerIsHash ==
    ASSUME TypeOK, NEW f \in SignedForms, NEW request \in signing[f]
    PROVE  GetSign(request) \in Hashes(f)
<1>1. request.key \in Keys /\ \E c \in Contents : request.value = Joined(f, c)
  BY DEF TypeOK
<1>2. QED  BY <1>1 DEF GetSign, Hashes

LEMMA BaseStep == BaseInv /\ [Next]_vars => BaseInv'
<1> SUFFICES ASSUME BaseInv, [Next]_vars PROVE BaseInv'
  OBVIOUS
<1> USE DEF BaseInv, signVars, sendVars, choiceVars
<1>a. \A f \in Forms : MaxSends[f] \in Nat  BY ConstantsAssumption DEF Forms
<1>b. MaxSigns \in Nat /\ SignedForms \subseteq Forms  BY ConstantsAssumption DEF Forms
<1>1. CASE UNCHANGED vars  BY <1>1 DEF vars, TypeOK, Shapes
<1>2. CASE EditKey  BY <1>2 DEF EditKey, TypeOK, Shapes
<1>3. ASSUME NEW f \in SignedForms, Edit(f) PROVE BaseInv'
  BY <1>3 DEF Edit, TypeOK, Shapes
<1>4. ASSUME NEW f \in SignedForms, SignClick(f) PROVE BaseInv'
  <2>1. Shapes'  BY <1>4 DEF SignClick, Shapes
  <2>2. signs' \in [SignedForms -> 0..MaxSigns] /\ signs'[f] \in 1..MaxSigns
    BY <1>4, <1>b DEF SignClick, TypeOK
  <2>3. fields[f] \in Contents /\ key \in Keys  BY DEF TypeOK
  <2>4. \A g \in SignedForms : signing'[g] \subseteq
           [value : {Joined(g, c) : c \in Contents}, key : Keys, n : 1..MaxSigns]
    BY <1>4, <2>2, <2>3 DEF SignClick, TypeOK, Shapes
  <2>5. TypeOK'  BY <1>4, <2>2, <2>4 DEF SignClick, TypeOK, Hashes
  <2>6. QED  BY <2>1, <2>5
<1>5. ASSUME NEW f \in SignedForms, SignArrives(f) PROVE BaseInv'
  <2>1. PICK request \in signing[f] :
           /\ sign' = [sign EXCEPT ![f] = GetSign(request)]
           /\ signing' = [signing EXCEPT ![f] = @ \ {request}]
    BY <1>5 DEF SignArrives
  <2>2. GetSign(request) \in Hashes(f)  BY AnswerIsHash
  <2>3. \A g \in SignedForms : sign'[g] \in Hashes(g) /\ signing'[g] \subseteq signing[g]
    BY <2>1, <2>2 DEF TypeOK, Shapes
  <2>4. Shapes'  BY <1>5, <2>1 DEF SignArrives, Shapes
  <2>5. TypeOK'
    <3>1. \A g \in SignedForms : Hashes(g)' = Hashes(g)  BY DEF Hashes
    <3>2. QED  BY <1>5, <2>3, <3>1 DEF SignArrives, TypeOK
  <2>6. QED  BY <2>4, <2>5
<1>6. ASSUME NEW f \in SignedForms, SignFails(f) PROVE BaseInv'
  <2>1. PICK request \in signing[f] : signing' = [signing EXCEPT ![f] = @ \ {request}]
    BY <1>6 DEF SignFails
  <2>2. \A g \in SignedForms : signing'[g] \subseteq signing[g]  BY <2>1 DEF Shapes
  <2>3. Shapes'  BY <1>6, <2>1 DEF SignFails, Shapes
  <2>4. TypeOK'  BY <1>6, <2>2 DEF SignFails, TypeOK, Hashes
  <2>5. QED  BY <2>3, <2>4
<1>7. ASSUME NEW f \in Forms, Submit(f) PROVE BaseInv'
  <2>1. Shapes'  BY <1>7 DEF Submit, Shapes
  <2>2. /\ \A g \in Forms : sends'[g] \in 0..MaxSends[g]
        /\ sends'[f] \in 1..MaxSends[f]
    BY <1>7, <1>a DEF Submit, TypeOK, Shapes
  <2>3. \A g \in SignedForms : Unready(g) \in BOOLEAN
    BY DEF Unready, Shapes
  <2>4. \A g \in Forms : sending'[g] \subseteq Answers(g)
    <3>1. ASSUME NEW c, NEW s PROVE Verdict(f, c, s) \in Verdicts
      BY DEF Verdict, Verdicts
    <3>2. "checked" \in Verdicts  BY DEF Verdicts
    <3> DEFINE sent == IF f \in SignedForms
                       THEN [n |-> sends'[f], verdict |-> Verdict(f, fields[f], sign[f]),
                             unready |-> Unready(f)]
                       ELSE [n |-> sends'[f], verdict |-> "checked", unready |-> FALSE]
    <3>3. sent \in Answers(f)  BY <2>2, <2>3, <3>1, <3>2 DEF Answers
    <3>4. sending' = [sending EXCEPT ![f] = @ \cup {sent}]  BY <1>7 DEF Submit
    <3> HIDE DEF sent
    <3>5. QED  BY <3>3, <3>4 DEF TypeOK, Shapes
  <2>5. \A g \in Forms : display'[g] \in {None} \cup Answers(g)
    BY <1>7 DEF Submit, PanelAtClick, TypeOK, Shapes
  <2>6. \A g \in Forms : crossed'[g] \subseteq 1..MaxSends[g]
    BY <1>7 DEF Submit, TypeOK, Shapes, Answers
  <2>7. \A g \in Forms : Answers(g)' = Answers(g)  BY DEF Answers
  <2>8. TypeOK'  BY <1>7, <2>2, <2>4, <2>5, <2>6, <2>7 DEF Submit, TypeOK, Hashes
  <2>9. QED  BY <2>1, <2>8
<1>8. ASSUME NEW f \in Forms, Answered(f) \/ SendFails(f) PROVE BaseInv'
  <2>1. PICK request \in sending[f] :
           /\ sending' = [sending EXCEPT ![f] = @ \ {request}]
           /\ display' = [display EXCEPT ![f] = request] \/ UNCHANGED display
    BY <1>8 DEF Answered, SendFails
  <2>2. \A g \in Forms : /\ sending'[g] \subseteq Answers(g)
                         /\ display'[g] \in {None} \cup Answers(g)
    BY <2>1 DEF TypeOK, Shapes
  <2>3. Shapes'  BY <1>8, <2>1 DEF Answered, SendFails, Shapes
  <2>4. \A g \in Forms : Answers(g)' = Answers(g)  BY DEF Answers
  <2>5. TypeOK'  BY <1>8, <2>2, <2>4 DEF Answered, SendFails, TypeOK, Hashes
  <2>6. QED  BY <2>3, <2>5
<1>9. ASSUME NEW m, \/ m \in CustomMethods /\ ChooseMethod(m)
                    \/ m \in InvokeMethods /\ ChooseInvoke(m)
      PROVE  BaseInv'
  <2>1. visible' \subseteq Element
    BY <1>9 DEF ChooseMethod, ChooseInvoke, TypeOK, OfClass
  <2>2. QED  BY <1>9, <2>1 DEF ChooseMethod, ChooseInvoke, TypeOK, Shapes, Hashes
<1>10. ASSUME NEW f \in SignedForms, Edit(f) \/ SignClick(f) \/ SignArrives(f) \/ SignFails(f)
       PROVE  BaseInv'
  BY <1>3, <1>4, <1>5, <1>6, <1>10
<1>11. ASSUME NEW f \in Forms, Submit(f) \/ Answered(f) \/ SendFails(f) PROVE BaseInv'
  BY <1>7, <1>8, <1>11
<1>12. QED  BY <1>1, <1>2, <1>9, <1>10, <1>11 DEF Next

LEMMA Base == Spec => []BaseInv
BY BaseInit, BaseStep, PTL DEF Spec

(* Whatever is typed, clicked and answered, in any order, the fields,       *)
(* panels and requests keep their types.                                   *)
THEOREM Typing == Spec => []TypeOK
BY Base, PTL DEF BaseInv
-----------------------------------------------------------------------------
(* The selections *)

LEMMA ShownStep == BaseInv /\ SentIsShown /\ [Next]_vars => SentIsShown'
<1> SUFFICES ASSUME BaseInv, SentIsShown, [Next]_vars PROVE SentIsShown'
  OBVIOUS
<1> USE DEF SentIsShown, signVars, sendVars, choiceVars
<1>a. method \in CustomMethods /\ invoke \in InvokeMethods  BY DEF BaseInv, TypeOK
<1>1. ASSUME NEW m \in CustomMethods, ChooseMethod(m) PROVE SentIsShown'
  <2>1. <<"table", m>> \in OfClass(m) /\ <<"area", invoke>> \notin Tables
    BY DEF OfClass, Element, Tables
  <2>2. QED  BY <1>1, <2>1 DEF ChooseMethod, HiddenByMethod
<1>2. ASSUME NEW m \in InvokeMethods, ChooseInvoke(m) PROVE SentIsShown'
  <2>1. <<"area", m>> \in OfClass(m) /\ <<"table", method>> \notin Areas
    BY DEF OfClass, Element, Areas
  <2>2. QED  BY <1>2, <2>1 DEF ChooseInvoke
<1>3. CASE UNCHANGED choiceVars  BY <1>3
<1>4. UNCHANGED choiceVars \/ (\E m \in CustomMethods : ChooseMethod(m))
                           \/ (\E m \in InvokeMethods : ChooseInvoke(m))
  BY DEF Next, vars, EditKey, Edit, SignClick, SignArrives, SignFails, Submit, Answered,
         SendFails
<1>5. QED  BY <1>1, <1>2, <1>3, <1>4

(* What the next Submit reads is displayed after any choices in the two     *)
(* sections, also where both have an option of the same name.              *)
THEOREM Shown == Spec => []SentIsShown
<1>1. Init => SentIsShown  BY DEF Init, SentIsShown
<1>2. QED  BY <1>1, Base, ShownStep, PTL DEF Spec

-----------------------------------------------------------------------------
(* Requests and panels *)

(* What a step does to the requests of the forms and their panels.         *)
Sends(f, sent) ==
    /\ sends' = [sends EXCEPT ![f] = @ + 1]
    /\ crossed' = [crossed EXCEPT ![f] = @ \cup {request.n : request \in sending[f]}]
    /\ sending' = [sending EXCEPT ![f] = @ \cup {sent}]
    /\ display' = [display EXCEPT ![f] = PanelAtClick(f)]

Ends(f, request) ==
    /\ request \in sending[f]
    /\ sending' = [sending EXCEPT ![f] = @ \ {request}]
    /\ display' = [display EXCEPT ![f] = request] \/ UNCHANGED display
    /\ UNCHANGED <<sends, crossed>>

SendStep(f) ==
    \/ \E sent : /\ sent.n = sends[f] + 1
                 /\ f \in SignedForms =>
                        /\ sent.verdict = Verdict(f, fields[f], sign[f])
                        /\ sent.unready = Unready(f)
                 /\ Sends(f, sent)
    \/ \E request : Ends(f, request)

(* Every step is of one of these kinds or leaves the requests alone.       *)
LEMMA SendSteps ==
    ASSUME BaseInv, [Next]_vars
    PROVE  UNCHANGED sendVars \/ \E f \in Forms : SendStep(f)
<1> USE DEF signVars, sendVars, choiceVars
<1>1. ASSUME NEW f \in Forms, Submit(f) PROVE SendStep(f)
  <2> DEFINE sent == IF f \in SignedForms
                     THEN [n |-> sends'[f], verdict |-> Verdict(f, fields[f], sign[f]),
                           unready |-> Unready(f)]
                     ELSE [n |-> sends'[f], verdict |-> "checked", unready |-> FALSE]
  <2>1. sends'[f] = sends[f] + 1  BY <1>1 DEF Submit, BaseInv, Shapes
  <2>2. sent.n = sends'[f]
    <3>1. CASE f \in SignedForms  BY <3>1
    <3>2. CASE f \notin SignedForms  BY <3>2
    <3>3. QED  BY <3>1, <3>2
  <2>3. ASSUME f \in SignedForms
        PROVE  sent.verdict = Verdict(f, fields[f], sign[f]) /\ sent.unready = Unready(f)
    BY <2>3
  <2>4. Sends(f, sent)  BY <1>1 DEF Submit, Sends
  <2> HIDE DEF sent
  <2>5. QED  BY <2>1, <2>2, <2>3, <2>4 DEF SendStep
<1>2. ASSUME NEW f \in Forms, Answered(f) \/ SendFails(f) PROVE SendStep(f)
  BY <1>2 DEF Answered, SendFails, SendStep, Ends
<1>3. UNCHANGED sendVars \/ \E f \in Forms : Submit(f) \/ Answered(f) \/ SendFails(f)
  BY DEF Next, vars, EditKey, Edit, SignClick, SignArrives, SignFails, ChooseMethod,
         ChooseInvoke
<1>4. QED  BY <1>1, <1>2, <1>3

(* An answer that is still under way will be the last one's too, or comes   *)
(* from a request that a later one has overtaken.                          *)
CurrentOrCrossed(f, request) == request.n = sends[f] \/ request.n \in crossed[f]

PanelInv == \A f \in SignedForms :
    /\ \A request \in sending[f] : CurrentOrCrossed(f, request)
    /\ display[f] # None => CurrentOrCrossed(f, display[f])

LEMMA PanelStep == BaseInv /\ PanelInv /\ [Next]_vars => PanelInv'
<1> SUFFICES ASSUME BaseInv, PanelInv, [Next]_vars, NEW g \in SignedForms
             PROVE  /\ \A request \in sending'[g] : CurrentOrCrossed(g, request)'
                    /\ display'[g] # None => CurrentOrCrossed(g, display[g])'
  BY DEF PanelInv
<1> USE DEF CurrentOrCrossed
<1>a. g \in Forms /\ Shapes  BY DEF Forms, BaseInv
<1>b. /\ \A request \in sending[g] : CurrentOrCrossed(g, request)
      /\ display[g] # None => CurrentOrCrossed(g, display[g])
  BY DEF PanelInv
<1>1. CASE UNCHANGED sendVars  BY <1>1, <1>b DEF sendVars
<1>2. ASSUME NEW f \in Forms, NEW sent, sent.n = sends[f] + 1, Sends(f, sent)
      PROVE  /\ \A request \in sending'[g] : CurrentOrCrossed(g, request)'
             /\ display'[g] # None => CurrentOrCrossed(g, display[g])'
  <2>1. CASE f = g
    <3>1. display'[g] = None  BY <1>a, <1>2, <2>1 DEF Sends, PanelAtClick, Shapes
    <3>2. /\ sending'[g] = sending[g] \cup {sent} /\ sends'[g] = sent.n
          /\ crossed'[g] = crossed[g] \cup {request.n : request \in sending[g]}
      BY <1>a, <1>2, <2>1 DEF Sends, Shapes
    <3>3. QED  BY <3>1, <3>2
  <2>2. CASE f # g  BY <1>a, <1>b, <1>2, <2>2 DEF Sends, Shapes
  <2>3. QED  BY <2>1, <2>2
<1>3. ASSUME NEW f \in Forms, NEW answer, Ends(f, answer)
      PROVE  /\ \A request \in sending'[g] : CurrentOrCrossed(g, request)'
             /\ display'[g] # None => CurrentOrCrossed(g, display[g])'
  BY <1>a, <1>b, <1>3 DEF Ends, Shapes
<1>4. QED  BY <1>1, <1>2, <1>3, SendSteps DEF SendStep

(* Answers may come in any order and get lost: a signed form shows that of  *)
(* its last click, or one that the script let a later click overtake.      *)
THEOREM LastAnswer == Spec => []LastAnswerUnlessCrossed
<1>1. Init => PanelInv  BY DEF Init, PanelInv, Forms
<1>2. PanelInv => LastAnswerUnlessCrossed
  BY DEF PanelInv, CurrentOrCrossed, LastAnswerUnlessCrossed
<1>3. QED  BY <1>1, <1>2, Base, PanelStep, PTL DEF Spec

-----------------------------------------------------------------------------
(* Refusals *)

(* Unless requests have crossed or failed, the signature of what was asked  *)
(* last is either under way, alone, or in the form.                        *)
AskedFor(f) == [value |-> Joined(f, asked[f].fields), key |-> asked[f].key, n |-> signs[f]]
Asked(f) == asked[f] \in [fields : Contents, key : Keys]
Untangled(f) == Asked(f) /\ ~tangled[f] =>
    \/ signing[f] = {AskedFor(f)}
    \/ signing[f] = {} /\ sign[f] = GetSign(AskedFor(f))

RefusalInv ==
    /\ \A f \in SignedForms : Untangled(f)
    /\ RefusedOnlyIfUnready

(* A form that is ready is accepted: what getSign made of its fields is what *)
(* commonRequestValid makes of them.                                       *)
LEMMA ReadyIsAccepted ==
    ASSUME BaseInv, RefusalInv, NEW f \in SignedForms, ~Unready(f)
    PROVE  Verdict(f, fields[f], sign[f]) = "checked"
<1> DEFINE c == fields[f]
<1>1. c \in Contents /\ RightKey \in Keys  BY ConstantsAssumption DEF BaseInv, TypeOK
<1>2. /\ asked[f] = [fields |-> c, key |-> RightKey]
      /\ signing[f] = {} /\ ~tangled[f] /\ Semicolon \notin {c[1], c[2]}
  BY DEF Unready
<1>3. Asked(f) /\ asked[f].fields = c /\ asked[f].key = RightKey
  BY <1>1, <1>2 DEF Asked
<1>4. sign[f] = GetSign(AskedFor(f))  BY <1>2, <1>3 DEF RefusalInv, Untangled
<1>5. sign[f] = Signature(RightKey, Pieces(Joined(f, c)))
  BY <1>3, <1>4 DEF GetSign, AskedFor
<1>6. sign[f] = Signature(RightKey, c)  BY <1>1, <1>2, <1>5, SignsTheFields
<1>7. sign[f] # None
  <2>1. DOMAIN sign[f] = {"texts", "key"}  BY <1>6 DEF Signature
  <2>2. DOMAIN None = {"none"}  BY DEF None
  <2>3. "key" # "none"  OBVIOUS
  <2>4. QED  BY <2>1, <2>2, <2>3
<1>8. QED  BY <1>6, <1>7 DEF Verdict

LEMMA UntangledStep ==
    ASSUME BaseInv, [Next]_vars, NEW g \in SignedForms, Untangled(g)
    PROVE  Untangled(g)'
<1> USE DEF signVars, sendVars, choiceVars, Untangled, Asked, AskedFor
<1>a. Shapes /\ signs \in [SignedForms -> 0..MaxSigns]  BY DEF BaseInv, TypeOK
<1>1. CASE UNCHANGED signVars  BY <1>1
<1>2. ASSUME NEW f \in SignedForms, f # g, SignClick(f) \/ SignArrives(f) \/ SignFails(f)
      PROVE  Untangled(g)'
  <2>1. /\ sign'[g] = sign[g] /\ signing'[g] = signing[g] /\ signs'[g] = signs[g]
        /\ asked'[g] = asked[g] /\ tangled'[g] = tangled[g]
    BY <1>a, <1>2 DEF SignClick, SignArrives, SignFails, Shapes
  <2>2. QED  BY <2>1
<1>3. CASE SignClick(g)
  <2>1. /\ asked'[g] = [fields |-> fields[g], key |-> key]
        /\ tangled'[g] = (signing[g] # {})
        /\ signing'[g] = signing[g] \cup
               {[value |-> Joined(g, fields[g]), key |-> key, n |-> signs'[g]]}
    BY <1>a, <1>3 DEF SignClick, Shapes
  <2>2. AskedFor(g)' = [value |-> Joined(g, fields[g]), key |-> key, n |-> signs'[g]]
    BY <2>1
  <2>3. QED  BY <2>1, <2>2
<1>4. CASE SignArrives(g)
  <2>1. PICK request \in signing[g] : /\ sign'[g] = GetSign(request)
                                      /\ signing'[g] = signing[g] \ {request}
    BY <1>a, <1>4 DEF SignArrives, Shapes
  <2>2. AskedFor(g)' = AskedFor(g) /\ Asked(g)' = Asked(g) /\ tangled' = tangled
    BY <1>4 DEF SignArrives
  <2>3. GetSign(AskedFor(g))' = GetSign(AskedFor(g))  BY <2>2 DEF GetSign
  <2>4. QED  BY <2>1, <2>2, <2>3
<1>5. CASE SignFails(g)
  <2>1. tangled'[g]  BY <1>a, <1>5 DEF SignFails, Shapes
  <2>2. QED  BY <2>1
<1>6. UNCHANGED signVars \/ \E f \in SignedForms : SignClick(f) \/ SignArrives(f) \/ SignFails(f)
  BY DEF Next, vars, EditKey, Edit, Submit, Answered, SendFails, ChooseMethod, ChooseInvoke
<1>7. QED  BY <1>1, <1>2, <1>3, <1>4, <1>5, <1>6

LEMMA RefusalStep == BaseInv /\ RefusalInv /\ [Next]_vars => RefusalInv'
<1> SUFFICES ASSUME BaseInv, RefusalInv, [Next]_vars PROVE RefusalInv'
  OBVIOUS
<1>1. \A f \in SignedForms : Untangled(f)'  BY UntangledStep DEF RefusalInv
<1>2. ASSUME NEW g \in SignedForms,
             NEW a \in sending'[g] \cup ({display'[g]} \ {None}), a.verdict # "checked"
      PROVE  a.unready
  <2>a. g \in Forms /\ Shapes  BY DEF Forms, BaseInv
  <2>b. \A b \in sending[g] \cup ({display[g]} \ {None}) : b.verdict # "checked" => b.unready
    BY DEF RefusalInv, RefusedOnlyIfUnready
  <2>1. CASE UNCHANGED sendVars  BY <1>2, <2>1, <2>b DEF sendVars
  <2>2. ASSUME NEW f \in Forms, SendStep(f), f # g PROVE a.unready
    BY <1>2, <2>2, <2>a, <2>b DEF SendStep, Sends, Ends, Shapes
  <2>3. ASSUME NEW request, Ends(g, request) PROVE a.unready
    BY <1>2, <2>3, <2>a, <2>b DEF Ends, Shapes
  <2>4. ASSUME NEW sent, Sends(g, sent), sent.verdict = Verdict(g, fields[g], sign[g]),
               sent.unready = Unready(g)
        PROVE  a.unready
    <3>1. a \in sending[g] \cup {sent}
      BY <1>2, <2>4, <2>a DEF Sends, Shapes, PanelAtClick
    <3>2. CASE a = sent  BY <1>2, <2>4, <3>2, ReadyIsAccepted
    <3>3. QED  BY <1>2, <2>b, <3>1, <3>2
  <2>5. QED  BY <2>1, <2>2, <2>3, <2>4, SendSteps DEF SendStep
<1>3. QED  BY <1>1, <1>2 DEF RefusalInv, RefusedOnlyIfUnready

(* For any fields, keys, clicks and answers in any order: a form is refused *)
(* for its signature only when the script could not help it.               *)
THEOREM Refusals == Spec => []RefusedOnlyIfUnready
<1>1. ASSUME Init PROVE RefusalInv
  <2>1. ASSUME NEW f \in SignedForms PROVE ~Asked(f)
    <3>1. asked[f] = None  BY <1>1 DEF Init
    <3>2. DOMAIN None = {"none"}  BY DEF None
    <3>3. \A r \in [fields : Contents, key : Keys] : DOMAIN r = {"fields", "key"}
      OBVIOUS
    <3>4. "key" # "none"  OBVIOUS
    <3>5. QED  BY <3>1, <3>2, <3>3, <3>4 DEF Asked
  <2>2. RefusedOnlyIfUnready  BY <1>1 DEF Init, RefusedOnlyIfUnready, Forms
  <2>3. QED  BY <2>1, <2>2 DEF RefusalInv, Untangled
<1>2. RefusalInv => RefusedOnlyIfUnready  BY DEF RefusalInv
<1>3. QED  BY <1>1, <1>2, Base, RefusalStep, PTL DEF Spec
=============================================================================
