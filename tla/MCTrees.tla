------------------------------ MODULE MCTrees ------------------------------
(***************************************************************************)
(* A folder with a file and a folder with a file in it, and an empty       *)
(* folder, dragged while one of its folders is being deleted; two files of *)
(* one name uploaded to the folder they are dropped into.                  *)
(***************************************************************************)
EXTENDS Trees, TLC

CONSTANTS d1, d2, x1, a, b, c, f, g, here, home, remote

Files == {<<<<f>>>>, <<<<a>>, <<f>>>>, <<<<a>>, <<b>>, <<f>>>>, <<<<here>>, <<g>>>>, <<<<home>>, <<g>>>>}
FolderPaths == {<<<<a>>>>, <<<<a>>, <<b>>>>, <<<<a>>, <<c>>>>}
AllNodes == Files \cup FolderPaths

WhatTheyAre == d1 :> {"carry", "download"} @@ d2 :> {"upload"}
WhereTo == d1 :> remote @@ d2 :> remote
TheDragged == d1 :> <<<<<<a>>>>, <<<<f>>>>>> @@ d2 :> <<<<<<home>>, <<g>>>>, <<<<here>>, <<g>>>>>>
HeldAtFirst == remote :> {<<f>>}
TheDoomed == x1 :> <<<<<<a>>, <<b>>>>>>
=============================================================================
