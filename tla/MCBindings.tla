---------------------------- MODULE MCBindings ----------------------------
(* TLC instance of Bindings: a listed keyboard with a dual interface reader *)
(* and no CCID class, or a reader that claims more slots than d_slot has.   *)
EXTENDS Bindings, TLC

Iface(alts, desc, slots, pipes) == [alts |-> alts, desc |-> desc, slots |-> slots, pipes |-> pipes]

Omnikey == [listed |-> "omni",
            configs |-> << <<Iface(<<"other">>, "none", 0, {"intr"}),
                             Iface(<<"other", "vendor">>, "good", 1, Pipes)>> >>]
Claims == [listed |-> "no", configs |-> << <<Iface(<<"ccid">>, "good", 2, Pipes)>> >>]
TheDevices == {Omnikey, Claims}
TheWants == {Optional, {"stdout"}}

\* Bound: at most one of them is attached.
OneDevice == BindInit /\ Cardinality(plugged) <= 1
MCSpec == OneDevice /\ [][Next]_vars

Symmetry == Permutations(Handles)
=============================================================================
