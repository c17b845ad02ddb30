------------------------ MODULE MCChangeGroupHandler ------------------------
(* Model of the ChangeGroup handlers: two accounts in the tree (one of    *)
(* them still locked with the default key), a third id that names no     *)
(* account, one address with no account, tokens 0 (processable),        *)
(* 1 (fungible, not processable) and 2 (NFT range).                       *)
EXTENDS ChangeGroupHandler

CONSTANTS addr0, addr1, addr2, key0, key1, keyDefault

MCAccountIds == {0, 1}
MCTxAccountIds == {0, 1, 2}
MCAddressOf == [a \in MCAccountIds |-> IF a = 0 THEN addr0 ELSE addr1]
MCInitBalance == [a \in MCAccountIds |-> [t \in 0..2 |-> 2]]
MCInitKey == [a \in MCAccountIds |-> IF a = 0 THEN key0 ELSE keyDefault]
=============================================================================
