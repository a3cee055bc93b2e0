------------------------------ MODULE DemoPage ------------------------------
(***************************************************************************)
(* The test pages demo.html and adapter.html with their scripts: forms that *)
(* send the platform's requests, "Get Sign" buttons that let the server     *)
(* compute a signature (getSign), and two selections of what is sent. A     *)
(* click runs to its end; the requests it starts are answered later, in any *)
(* order, or fail, and no handler is told of a failure.                    *)
(***************************************************************************)
EXTENDS Naturals, FiniteSets, Sequences

CONSTANTS
    SignedForms,    \* verify, bindPark, customData, getLeaguerInfo, charge
    PlainForms,     \* serviceInvoke and check
    Swapped,        \* forms whose script signs the fields in another order
    Contents,       \* what the fields of a form may hold
    Semicolon,      \* a field content with a ';' in it
    Keys, RightKey, \* what the shared key field may hold; the domain's key
    CustomMethods,  \* the options of method_select, a table for each
    InvokeMethods,  \* the options of invoke_method, a text area for each
    FirstMethod, FirstInvoke,
    MaxSigns,       \* bound: clicks on Get Sign, per form
    MaxSends        \* bound: clicks on Submit, for each form

ASSUME ConstantsAssumption ==
    /\ SignedForms \cap PlainForms = {}
    /\ Swapped \subseteq SignedForms
    /\ RightKey \in Keys
    /\ FirstMethod \in CustomMethods /\ FirstInvoke \in InvokeMethods
    /\ \A c \in Contents : c = <<c[1], c[2]>>
    /\ MaxSigns \in Nat
    /\ MaxSends \in [SignedForms \cup PlainForms -> Nat]

Forms == SignedForms \cup PlainForms
None == [none |-> TRUE]

VARIABLES
    fields,         \* what the fields of a signed form hold
    key,            \* #domain_key, read by every Get Sign button of the page
    sign,           \* the sign field of a form
    signing,        \* the getSign requests of a form under way
    signs,          \* clicks on Get Sign, per form
    sending,        \* the requests of a form under way
    sends,          \* clicks on Submit, per form
    display,        \* what stands in the form's return panel
    method, invoke, \* the two selections
    visible,        \* the tables and text areas that are displayed
    asked,          \* history: what the last Get Sign of a form was asked for
    tangled,        \* history: that request crossed another, or one has failed
    crossed         \* history: the sends that a later one has overtaken

signVars == <<sign, signing, signs, asked, tangled>>
sendVars == <<sending, sends, display, crossed>>
choiceVars == <<method, invoke, visible>>
vars == <<fields, key, signVars, sendVars, choiceVars>>

-----------------------------------------------------------------------------
(* Signatures *)

(* Mutated form of Signature: the texts are hashed as they come. *)
Unsorted(k, params) == [texts |-> params, key |-> k]

(* SignatureUtil.sign sorts what it is given and hashes it with the key: the *)
(* hash depends on which texts there are, not on their order.              *)
Signature(k, params) ==
    [texts |-> {<<p, Cardinality({i \in DOMAIN params : params[i] = p})>> :
                    p \in {params[i] : i \in DOMAIN params}},
     key |-> k]

(* The value a Get Sign button sends: the fields joined by ';'. *)
Joined(f, c) == IF f \in Swapped THEN <<c[2], c[1]>> ELSE c

(* getSign splits at every ';', those inside a field included. *)
Pieces(v) ==
    LET Split(p) == IF p = Semicolon THEN <<"before", "after">> ELSE <<p>>
    IN  Split(v[1]) \o Split(v[2])

GetSign(request) == Signature(request.key, Pieces(request.value))

(* commonRequestValid on the parameters that arrive with a request. *)
Verdict(f, c, s) ==
    IF s = None THEN "incomplete"
    ELSE IF s = Signature(RightKey, c) THEN "checked" ELSE "sign error"

Verdicts == {"checked", "incomplete", "sign error"}

-----------------------------------------------------------------------------
Element == {<<"table", m>> : m \in CustomMethods} \cup {<<"area", m>> : m \in InvokeMethods}
Tables == {e \in Element : e[1] = "table"}
Areas == {e \in Element : e[1] = "area"}

Init ==
    /\ fields \in [SignedForms -> Contents]
    /\ key = RightKey
    /\ sign = [f \in SignedForms |-> None]
    /\ signing = [f \in SignedForms |-> {}]
    /\ signs = [f \in SignedForms |-> 0]
    /\ sending = [f \in Forms |-> {}]
    /\ sends = [f \in Forms |-> 0]
    /\ display = [f \in Forms |-> None]
    /\ method = FirstMethod /\ invoke = FirstInvoke
    /\ visible = {<<"table", FirstMethod>>, <<"area", FirstInvoke>>}
    /\ asked = [f \in SignedForms |-> None]
    /\ tangled = [f \in SignedForms |-> FALSE]
    /\ crossed = [f \in Forms |-> {}]

-----------------------------------------------------------------------------
(* Typing *)

Edit(f) ==
    /\ \E c \in Contents : fields' = [fields EXCEPT ![f] = c]
    /\ UNCHANGED <<key, signVars, sendVars, choiceVars>>

EditKey ==
    /\ key' \in Keys
    /\ UNCHANGED <<fields, signVars, sendVars, choiceVars>>

-----------------------------------------------------------------------------
(* The Get Sign buttons *)

SignClick(f) ==
    /\ signs[f] < MaxSigns
    /\ signs' = [signs EXCEPT ![f] = @ + 1]
    /\ signing' = [signing EXCEPT ![f] = @ \cup
           {[value |-> Joined(f, fields[f]), key |-> key, n |-> signs'[f]]}]
    /\ asked' = [asked EXCEPT ![f] = [fields |-> fields[f], key |-> key]]
    /\ tangled' = [tangled EXCEPT ![f] = signing[f] # {}]
    /\ UNCHANGED <<fields, key, sign, sendVars, choiceVars>>

(* Mutated form of SignArrives: the field is given what was to be signed. *)
SignArrivesUnhashed(f) == \E request \in signing[f] :
    /\ sign' = [sign EXCEPT ![f] = request]
    /\ signing' = [signing EXCEPT ![f] = @ \ {request}]
    /\ UNCHANGED <<fields, key, signs, asked, tangled, sendVars, choiceVars>>

SignArrives(f) == \E request \in signing[f] :
    /\ sign' = [sign EXCEPT ![f] = GetSign(request)]
    /\ signing' = [signing EXCEPT ![f] = @ \ {request}]
    /\ UNCHANGED <<fields, key, signs, asked, tangled, sendVars, choiceVars>>

SignFails(f) == \E request \in signing[f] :
    /\ signing' = [signing EXCEPT ![f] = @ \ {request}]
    /\ tangled' = [tangled EXCEPT ![f] = TRUE]
    /\ UNCHANGED <<fields, key, sign, signs, asked, sendVars, choiceVars>>

-----------------------------------------------------------------------------
(* The Submit buttons *)

(* history: nothing the script does would make the server accept the form. *)
Unready(f) ==
    \/ asked[f] # [fields |-> fields[f], key |-> RightKey]
    \/ signing[f] # {} \/ tangled[f]
    \/ Semicolon \in {fields[f][1], fields[f][2]}

(* Mutated form of PanelAtClick: no panel is emptied. *)
PanelAsItWas(f) == display[f]

(* A signed form's panel is emptied by the click; the other two keep theirs. *)
PanelAtClick(f) == IF f \in SignedForms THEN None ELSE display[f]

(* The request carries the fields and the signature of this moment. What    *)
(* serviceInvoke sends is parsed first: of a text that is no JSON nothing    *)
(* is sent and the click has no effect.                                     *)
Submit(f) ==
    /\ sends[f] < MaxSends[f]
    /\ sends' = [sends EXCEPT ![f] = @ + 1]
    /\ crossed' = [crossed EXCEPT ![f] = @ \cup {request.n : request \in sending[f]}]
    /\ sending' = [sending EXCEPT ![f] = @ \cup
           {IF f \in SignedForms
            THEN [n |-> sends'[f], verdict |-> Verdict(f, fields[f], sign[f]),
                  unready |-> Unready(f)]
            ELSE [n |-> sends'[f], verdict |-> "checked", unready |-> FALSE]}]
    /\ display' = [display EXCEPT ![f] = PanelAtClick(f)]
    /\ UNCHANGED <<fields, key, signVars, choiceVars>>

Answered(f) == \E request \in sending[f] :
    /\ display' = [display EXCEPT ![f] = request]
    /\ sending' = [sending EXCEPT ![f] = @ \ {request}]
    /\ UNCHANGED <<fields, key, signVars, sends, crossed, choiceVars>>

SendFails(f) == \E request \in sending[f] :
    /\ sending' = [sending EXCEPT ![f] = @ \ {request}]
    /\ UNCHANGED <<fields, key, signVars, sends, display, crossed, choiceVars>>

-----------------------------------------------------------------------------
(* The selections *)

(* $("." + name): every element of that class, wherever on the page it is. *)
OfClass(name) == {e \in Element : e[2] = name}

(* Mutated form of HiddenByMethod: the selector catches the text areas too. *)
EverythingHidden == Element

(* What a change of method_select hides. *)
HiddenByMethod == Tables

ChooseMethod(m) ==
    /\ m # method /\ method' = m
    /\ visible' = (visible \ HiddenByMethod) \cup OfClass(m)
    /\ UNCHANGED <<invoke, fields, key, signVars, sendVars>>

ChooseInvoke(m) ==
    /\ m # invoke /\ invoke' = m
    /\ visible' = (visible \ Areas) \cup OfClass(m)
    /\ UNCHANGED <<method, fields, key, signVars, sendVars>>

-----------------------------------------------------------------------------
Next ==
    \/ EditKey
    \/ \E f \in SignedForms : Edit(f) \/ SignClick(f) \/ SignArrives(f) \/ SignFails(f)
    \/ \E f \in Forms : Submit(f) \/ Answered(f) \/ SendFails(f)
    \/ \E m \in CustomMethods : ChooseMethod(m)
    \/ \E m \in InvokeMethods : ChooseInvoke(m)

Spec == Init /\ [][Next]_vars

-----------------------------------------------------------------------------
(* Properties *)

Hashes(f) == {None} \cup {Signature(k, Pieces(Joined(f, c))) : k \in Keys, c \in Contents}
Answers(f) == [n : 1..MaxSends[f], verdict : Verdicts, unready : BOOLEAN]

(* What the page's fields, panels and requests under way may hold: a sign   *)
(* field holds nothing or a hash that getSign made of what the form held.  *)
TypeOK ==
    /\ fields \in [SignedForms -> Contents]
    /\ key \in Keys
    /\ \A f \in SignedForms : sign[f] \in Hashes(f)
    /\ \A f \in SignedForms : signing[f] \subseteq
           [value : {Joined(f, c) : c \in Contents}, key : Keys, n : 1..MaxSigns]
    /\ signs \in [SignedForms -> 0..MaxSigns]
    /\ \A f \in Forms : /\ sends[f] \in 0..MaxSends[f]
                        /\ sending[f] \subseteq Answers(f)
                        /\ display[f] \in {None} \cup Answers(f)
                        /\ crossed[f] \subseteq 1..MaxSends[f]
    /\ method \in CustomMethods /\ invoke \in InvokeMethods
    /\ visible \subseteq Element

(* The answer a signed form shows is that of its last Submit, except when    *)
(* the answered request was still under way at a later Submit: then an old *)
(* answer may stand as the new one's (demo.js:4 and the like).              *)
LastAnswerUnlessCrossed == \A f \in SignedForms :
    display[f] # None => display[f].n = sends[f] \/ display[f].n \in crossed[f]

(* A form is refused for its signature only when the script could not help  *)
(* it: no signature was asked for what the fields hold with the right key, *)
(* that request is still under way, crossed another or failed, or a field  *)
(* holds a ';'. The pages list the fields in another order than the server *)
(* does for the member forms (adapter.js:36 and 45).                       *)
RefusedOnlyIfUnready == \A f \in SignedForms :
    \A a \in sending[f] \cup ({display[f]} \ {None}) :
        a.verdict # "checked" => a.unready

(* The table and the text area that the next Submit reads are displayed,   *)
(* whatever was selected in the other section before.                      *)
SentIsShown == {<<"table", method>>, <<"area", invoke>>} \subseteq visible
=============================================================================
