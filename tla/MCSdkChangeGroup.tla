-------------------------- MODULE MCSdkChangeGroup --------------------------
(* Two concurrent builders of one wallet whose account holds 2 of token 0. *)
EXTENDS SdkChangeGroup

CONSTANTS b1, b2, addr0, key0, key1, keyDefault, noSigner, unset

MCAddressOf == [a \in {0} |-> addr0]
MCInitBalance == [a \in {0} |-> [t \in {0} |-> 2]]
MCInitKey == [a \in {0} |-> key0]
=============================================================================
