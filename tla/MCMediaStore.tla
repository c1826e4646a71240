---------------------------- MODULE MCMediaStore -----------------------------
(* Bodies with images that are too small, alike, loose or broken. *)
EXTENDS MediaStore

A == Data("A")
B == Data("B")

BrokenThenSame ==
  <<Image("png"), Stray, A, Text, Image("png"), A, B, Text, Image("png"), A, B>>
SmallThenLoose == <<Image("jpeg"), B, Text, Image("jpeg"), B, Loose("A")>>
SoundBodies == {BrokenThenSame, SmallThenLoose}

\* A broken image that begins like the one after it.
BrokenAlike == <<Image("png"), B, A, Stray, Text, Image("png"), B, A>>
AlikeBodies == {<<Text>>, BrokenAlike}

Alike == Permutations(Requests)
=============================================================================
