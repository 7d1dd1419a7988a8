------------------------------- MODULE Codecs -------------------------------
(***************************************************************************)
(* The two codecs, one at a time: the keys of objects (ObjectKeys) and the *)
(* body of a manifest (ManifestCodec).                                     *)
(***************************************************************************)
EXTENDS ObjectKeys

CONSTANTS MaxLogical, MaxKey, MaxManifest, MaxLength, MaxInt, MaxBody

VARIABLES body, wrote, declared, silent, answer
bodyVars == <<body, wrote, declared, silent, answer>>

Manifest == INSTANCE ManifestCodec WITH MaxName <- MaxLogical

ASSUME ManifestInstance == Manifest!CodecAssumption

CodecsInit == Init /\ Manifest!Init

CodecsNext ==
  \/ body = Manifest!NoRow /\ Next /\ UNCHANGED bodyVars
  \/ row = NoRow /\ Manifest!Next /\ UNCHANGED vars

CodecsSpec == CodecsInit /\ [][CodecsNext]_<<vars, bodyVars>>

(* ManifestCodec: the row publishManifest writes reads back as its manifest. *)
PublishedReadsBack == Manifest!PublishedReadsBack

(* ManifestCodec: decodeManifest accepts exactly the encoder's images. *)
AcceptedIsCanonical == Manifest!AcceptedIsCanonical

(* ManifestCodec: validInternalObjectKey's scan is what it is for. *)
ScanIsExact == Manifest!ScanIsExact
=============================================================================
