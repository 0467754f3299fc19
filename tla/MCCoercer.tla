----------------------------- MODULE MCCoercer -----------------------------
(* Types of every form, some that QtDBus cannot be told of, and one malformed. *)
EXTENDS Coercer

MCDeclared ==
    {<<"s">>, <<"i">>, <<"v">>, <<"a", "s">>, <<"a", "i">>, <<"a", "v">>, AnyMap,
     <<"a", "{", "i", "s", "}">>, <<"a", "{", "h", "s", "}">>, <<"(", "i", "v", ")">>,
     <<"a", "(", "i", "i", ")">>, <<"a", "(", "i", "v", ")">>, <<"(", "i">>}
=============================================================================
