----------------------------- MODULE MCDemoPage -----------------------------
(* A member form, whose fields are signed in another order, one of the forms *)
(* without a signature, and the methods of demo.html that matter here.       *)
EXTENDS DemoPage

CONSTANTS a, b

MCContents == {<<a, b>>, <<b, b>>, <<a, Semicolon>>}
MCMaxSends == [f \in Forms |-> IF f \in SignedForms THEN 2 ELSE 1]
=============================================================================
