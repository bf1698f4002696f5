------------------------------ MODULE MCStores ------------------------------
(***************************************************************************)
(* A folder of two files beside room for another folder of that shape; one *)
(* task renames, deletes or moves it, another writes, reads, lists,        *)
(* renames, creates or deletes in or beside it.                            *)
(***************************************************************************)
EXTENDS Stores, TLC

CONSTANTS t1, t2, a, b, x, y, m, cx, cy, h1, h2, none, amp

InOrder == <<File(<<a>>), Folder(<<a>>), File(<<a, x>>), File(<<a, y>>),
             File(<<b>>), Folder(<<b>>), File(<<b, x>>), File(<<b, y>>)>>
AllKeys == {InOrder[i] : i \in DOMAIN InOrder}
AllContents == {m, cx, cy, t1, t2, h1, h2}

HalfWritten == t1 :> h1 @@ t2 :> h2
KeptAtFirst ==
    [k \in AllKeys |-> IF k = Folder(<<a>>) THEN m
                       ELSE IF k = File(<<a, x>>) THEN cx
                       ELSE IF k = File(<<a, y>>) THEN cy ELSE none]

Op(do, at, to) == [do |-> do, at |-> at, to |-> to]
TheWishes ==
    t1 :> {Op("rename", <<a>>, <<b>>), Op("delete", <<a>>, <<a>>), Op("rename", <<a>>, <<a, x>>)}
    @@ t2 :> {Op("write", <<a, x>>, <<a>>), Op("create", <<b>>, <<a>>), Op("rename", <<b>>, <<a>>),
              Op("rename", <<a, y>>, <<b>>), Op("delete", <<a, x>>, <<a>>),
              Op("list", <<>>, <<a>>), Op("list", <<a>>, <<a>>), Op("read", <<a, x>>, <<a>>)}

(* A name with a reference in it, of which what is behind it is a name of  *)
(* its own: both readers take it for that.                                 *)
Referenced == File(<<amp>>) :> File(<<b>>)

ASSUME ReferencesAreLost ==
    /\ parse_listing(EnumerationOf([blobs |-> {File(<<amp>>)}, folders |-> {}, next |-> <<>>])).blobs
         = {File(<<b>>)}
    /\ parse_multistatus(MultistatusOf({File(<<amp>>)}, TRUE))
         = <<[href |-> File(<<b>>), isCollection |-> FALSE]>>
=============================================================================
