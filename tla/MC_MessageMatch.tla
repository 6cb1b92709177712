--------------------------- MODULE MC_MessageMatch ---------------------------
(* Two Subscriptions in namespace "b" whose names and packages are each
   other's prefix: "a" and "a-b".                                          *)
EXTENDS MessageMatch

CONSTANTS KS, KP

MCSubs == {[name |-> <<"a">>, pkg |-> <<"a", "-", "b">>, ns |-> <<"b">>],
           [name |-> <<"a", "-", "b">>, pkg |-> <<"a">>, ns |-> <<"b">>]}
=============================================================================
