-------------------------- MODULE MCConfiguration --------------------------
(***************************************************************************)
(* The code's own numbers in MiB, and requests with one group of fields    *)
(* away from one that opens: sizes and counts below, at and above their    *)
(* limits, and at exactly the memory budget for one and two transfers.     *)
(***************************************************************************)
EXTENDS Configuration, TLC

Good ==
  [endpoint |-> "root", scheme |-> "https", loopback |-> FALSE, allowInsecure |-> FALSE,
   region |-> "ok", bucket |-> "ok", prefix |-> 22, prefixCanonical |-> TRUE,
   addressing |-> "path", encryption |-> "aes256", kms |-> "empty", required |-> FALSE,
   threshold |-> 0, partSize |-> 0, concurrency |-> 0, transfers |-> 0, timeout |-> "default"]

Fields ==
  {[Good EXCEPT !.endpoint = e, !.scheme = s, !.loopback = l, !.allowInsecure = a] :
     e \in {"root", "blank", "malformed", "userinfo", "query", "fragment", "path"},
     s \in {"http", "https", "ftp"}, l \in BOOLEAN, a \in BOOLEAN}
  \cup {[Good EXCEPT !.region = x, !.bucket = y] : x, y \in {"ok", "blank", "bad"}}
  \cup {[Good EXCEPT !.prefix = n, !.prefixCanonical = b] :
          n \in {0, 1, 256, 257, 512, 513}, b \in BOOLEAN}
  \cup {[Good EXCEPT !.encryption = e, !.kms = k, !.required = b, !.addressing = x] :
          e \in {"unspecified", "bucket-default", "aes256", "kms", "unknown"},
          k \in {"empty", "ok", "long", "control"}, b \in BOOLEAN,
          x \in {"virtual", "path", "unknown"}}
  \cup {[Good EXCEPT !.timeout = x] : x \in {"default", "negative", "below minimum", "set"}}
  \cup {[Good EXCEPT !.threshold = t, !.partSize = p, !.concurrency = c, !.transfers = m] :
          t \in {0, 4, 5, 64, 256, 5120, 5121}, p \in {0, 5, 16, 64},
          c \in {-1, 0, 1, 11, 12, 27, 28, 64, 65}, m \in {-1, 0, 1, 2, 32, 33}}

(* A bucket without default encryption: nothing makes up for a header. *)
PlainBucket == NoHeaders

Symmetric == Permutations(Callers)
=============================================================================
