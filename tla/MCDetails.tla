------------------------------ MODULE MCDetails ------------------------------
(* Two files in a store, looked at one after the other. *)
EXTENDS Details

CONSTANTS pear, plum, html, tag, cold, alice, number

TheHeads ==
    [f \in {pear, plum} |->
        [type |-> html, etag |-> tag, class |-> IF f = pear THEN cold ELSE None, version |-> None]]
TheAttributes ==
    [f \in {pear, plum} |->
        [user |-> IF f = pear THEN alice ELSE None, uid |-> number,
         group |-> None, gid |-> number, link |-> None]]
=============================================================================
