------------------------------ MODULE MCCodecs ------------------------------
(***************************************************************************)
(* Keys: names of one, two and four bytes ("a", "ba", "bbaa"), whose       *)
(* encodings take a part of a segment of three characters, exactly one and *)
(* exactly two; a deployment, one inside its manifest namespace, and one   *)
(* under one of its digests.  Bodies: all up to one byte more than the     *)
(* largest manifest.                                                       *)
(***************************************************************************)
EXTENDS Codecs

MCNames == {<<97>>, <<98, 97>>, <<98, 98, 97, 97>>}

MCDeployments ==
  LET a == << <<28>> >> IN
  {a, a \o ManifestNamespace, a \o ManifestNamespace \o <<Digest(<<98, 97>>)>>}
=============================================================================
