----------------------------- MODULE BlobReader -----------------------------
(***************************************************************************)
(* The reader Get returns (blob_reader.go) over its verifier (blob_io.go): *)
(* one goroutine reads, any number of goroutines close, and they share no  *)
(* lock, only an atomic flag and two sync.Onces.  A step is one access to  *)
(* the shared state; the verifier's fields belong to the reading goroutine *)
(* and are updated with the body read they follow.                         *)
(*                                                                         *)
(* A definition preceded by a faulty variant (BodyProbeSkipped before      *)
(* BodyProbe) names a slip that one of the properties is known to catch.   *)
(***************************************************************************)
EXTENDS Naturals

CONSTANTS
  Closers,    \* goroutines that may call Close, each once
  Size,       \* the manifest's size, in units of delivery
  MaxBuffer   \* largest buffer a Read is called with

ASSUME ReaderAssumption ==
  /\ Size \in Nat
  /\ MaxBuffer \in Nat \ {0}

VARIABLES
  body,      \* what the service sends: its length, and whether its first Size
             \* bytes have the manifest's digest
  failed,    \* the response body has failed; every later read of it fails too
  expired,   \* the deadline of Get's context has passed
  closed,    \* blobReader.closed
  aborted,   \* abort() was called: the request's context is cancelled
  shut,      \* the response body was closed
  once,      \* closeOnce: "new", "running" or "done"
  releases,  \* how often the release function ran
  cpc,       \* program counter of each closing goroutine
  rpc,       \* program counter of the reading goroutine
  ret,       \* its Read's buffer size and result n, err
  late,      \* history: this Read was called after a Close had returned
  count,     \* verifyingBlobReader.read
  terminal,  \* verifyingBlobReader.terminal
  silent     \* history: the probe was answered with neither a byte nor an error

stream   == <<body, failed, expired>>
shutdown == <<closed, aborted, shut, once>>
verifier == <<count, terminal, silent>>
vars == <<body, failed, expired, closed, aborted, shut, once, releases,
          cpc, rpc, ret, late, count, terminal, silent>>

Errors == {"nil", "eof", "integrity", "transport", "closed"}

Init ==
  /\ body \in [total: 0..(Size + 1), good: BOOLEAN]
  /\ failed = FALSE /\ expired = FALSE
  /\ closed = FALSE /\ aborted = FALSE /\ shut = FALSE
  /\ once = "new" /\ releases = 0
  /\ cpc = [k \in Closers |-> "idle"]
  /\ rpc = "idle" /\ late = FALSE
  /\ ret = [want |-> 0, n |-> 0, err |-> "nil"]
  /\ count = 0 /\ terminal = "nil" /\ silent = FALSE

-----------------------------------------------------------------------------
(* Read. *)

ReadCall ==
  /\ rpc = "idle"
  /\ \E w \in 0..MaxBuffer : ret' = [want |-> w, n |-> 0, err |-> "nil"]
  /\ rpc' = "load1"
  /\ late' = (\E k \in Closers : cpc[k] = "returned")
  /\ UNCHANGED <<stream, shutdown, verifier, releases, cpc>>

ReadReturns(n, err) ==
  /\ ret' = [ret EXCEPT !.n = n, !.err = err]
  /\ rpc' = "return"

(* The first look at the latch. *)
LoadFirst ==
  /\ rpc = "load1"
  /\ \/ closed /\ ReadReturns(0, "closed")
     \/ ~closed /\ rpc' = "verify" /\ UNCHANGED ret
  /\ UNCHANGED <<late, stream, shutdown, verifier, releases, cpc>>

(* verifier.Read ends with n bytes and err; its caller looks at the latch again. *)
Verified(n, err) ==
  /\ ret' = [ret EXCEPT !.n = n, !.err = err]
  /\ rpc' = "load2"

(* A latched end is repeated; an empty buffer reads nothing. *)
VerifyLatched ==
  /\ rpc = "verify"
  /\ \/ terminal # "nil" /\ Verified(0, terminal)
     \/ terminal = "nil" /\ ret.want = 0 /\ Verified(0, "nil")
  /\ UNCHANGED <<late, stream, shutdown, verifier, releases, cpc>>

BodyWanted == rpc = "verify" /\ terminal = "nil" /\ ret.want > 0

(* finish(): EOF is latched only when the digest matches. *)
Finish(n) ==
  /\ terminal' = IF body.good THEN "eof" ELSE "integrity"
  /\ Verified(n, IF body.good THEN "eof" ELSE "integrity")

(* The body delivers n bytes, none included, never more than are still *)
(* expected, with io.EOF or without.                                    *)
BodyBytes ==
  /\ BodyWanted /\ count < Size
  /\ ~shut /\ ~failed
  /\ \E n \in 0..MaxBuffer :
       /\ n <= ret.want
       /\ n <= Size - count
       /\ n <= body.total - count
       /\ count' = count + n
       /\ \/ Verified(n, "nil") /\ UNCHANGED terminal
          \/ /\ count + n = body.total
             /\ IF count + n = Size THEN Finish(n)
                ELSE terminal' = "integrity" /\ Verified(n, "integrity")
  /\ UNCHANGED <<silent, late, stream, shutdown, releases, cpc>>

(* At the manifest's size one more byte is probed for: there is one, the   *)
(* body ends, or it answers (0, nil), which the code takes for the end.    *)
BodyProbeSkipped ==
  /\ BodyWanted /\ count = Size
  /\ Finish(0)
  /\ UNCHANGED <<silent, count, late, stream, shutdown, releases, cpc>>
BodyProbe ==
  /\ BodyWanted /\ count = Size
  /\ ~shut /\ ~failed
  /\ \/ body.total > Size /\ terminal' = "integrity" /\ Verified(0, "integrity") /\ UNCHANGED silent
     \/ body.total = Size /\ Finish(0) /\ UNCHANGED silent
     \/ Finish(0) /\ silent' = TRUE
  /\ UNCHANGED <<count, late, stream, shutdown, releases, cpc>>

(* The connection breaks, or the deadline, abort or Close interrupts the *)
(* socket read; the error is returned and not latched.                   *)
Interrupted == expired \/ aborted \/ shut \/ failed

BodyFails ==
  /\ BodyWanted
  /\ failed' = TRUE
  /\ \E n \in 0..MaxBuffer :  \* bytes may come with the error
       /\ \/ n = 0
          \/ ~shut /\ ~failed /\ n <= ret.want /\ n <= Size - count /\ n <= body.total - count
       /\ count' = count + n
       /\ Verified(n, "transport")
  /\ UNCHANGED <<terminal, silent, body, expired, late, shutdown, releases, cpc>>

(* The second look at the latch discards whatever the body produced. *)
LoadSecond ==
  /\ rpc = "load2"
  /\ \/ closed /\ ReadReturns(0, "closed")
     \/ /\ ~closed
        /\ rpc' = IF ret.err = "nil" THEN "return" ELSE "release"
        /\ UNCHANGED ret
  /\ UNCHANGED <<late, stream, shutdown, verifier, releases, cpc>>

(* releaseOnce.Do(release): the slot goes back and the bound is cancelled. *)
ReleaseTwice ==
  /\ releases' = releases + 1
  /\ expired' = TRUE
ReleaseOnce ==
  /\ releases' = IF releases = 0 THEN 1 ELSE releases
  /\ expired' = IF releases = 0 THEN TRUE ELSE expired

ReadReleases ==
  /\ rpc = "release"
  /\ ReleaseOnce
  /\ rpc' = "return"
  /\ UNCHANGED <<body, failed, ret, late, shutdown, verifier, cpc>>

ReadDone ==
  /\ rpc = "return"
  /\ rpc' = "idle"
  /\ UNCHANGED <<stream, shutdown, verifier, releases, cpc, ret, late>>

-----------------------------------------------------------------------------
(* Close, under closeOnce: a second caller waits for the first. *)

CloseCall(k) ==
  /\ cpc[k] = "idle"
  /\ cpc' = [cpc EXCEPT ![k] = "enter"]
  /\ UNCHANGED <<stream, shutdown, verifier, releases, rpc, ret, late>>

CloseEnterNoWait(k) ==
  /\ cpc[k] = "enter"
  /\ \/ once = "new" /\ once' = "running" /\ cpc' = [cpc EXCEPT ![k] = "store"]
     \/ once # "new" /\ UNCHANGED once /\ cpc' = [cpc EXCEPT ![k] = "returned"]
  /\ UNCHANGED <<stream, closed, aborted, shut, verifier, releases, rpc, ret, late>>
CloseEnter(k) ==
  /\ cpc[k] = "enter"
  /\ \/ once = "new" /\ once' = "running" /\ cpc' = [cpc EXCEPT ![k] = "store"]
     \/ once = "done" /\ UNCHANGED once /\ cpc' = [cpc EXCEPT ![k] = "returned"]
  /\ UNCHANGED <<stream, closed, aborted, shut, verifier, releases, rpc, ret, late>>

CloseAwaitsRead(k) ==
  /\ cpc[k] = "store" /\ rpc = "idle"
  /\ closed' = TRUE
  /\ cpc' = [cpc EXCEPT ![k] = "abort"]
  /\ UNCHANGED <<stream, aborted, shut, once, verifier, releases, rpc, ret, late>>
CloseFlagsOnly(k) ==
  /\ cpc[k] = "store"
  /\ closed' = TRUE /\ once' = "done"
  /\ cpc' = [cpc EXCEPT ![k] = "returned"]
  /\ UNCHANGED <<stream, aborted, shut, verifier, releases, rpc, ret, late>>
CloseStore(k) ==
  /\ cpc[k] = "store"
  /\ closed' = TRUE
  /\ cpc' = [cpc EXCEPT ![k] = "abort"]
  /\ UNCHANGED <<stream, aborted, shut, once, verifier, releases, rpc, ret, late>>

(* abort() cancels the request and the bound. *)
CloseAbort(k) ==
  /\ cpc[k] = "abort"
  /\ aborted' = TRUE /\ expired' = TRUE
  /\ cpc' = [cpc EXCEPT ![k] = "shut"]
  /\ UNCHANGED <<body, failed, closed, shut, once, verifier, releases, rpc, ret, late>>

CloseBody(k) ==
  /\ cpc[k] = "shut"
  /\ shut' = TRUE
  /\ cpc' = [cpc EXCEPT ![k] = "release"]
  /\ UNCHANGED <<stream, closed, aborted, once, verifier, releases, rpc, ret, late>>

CloseReleases(k) ==
  /\ cpc[k] = "release"
  /\ ReleaseOnce
  /\ once' = "done"
  /\ cpc' = [cpc EXCEPT ![k] = "returned"]
  /\ UNCHANGED <<body, failed, closed, aborted, shut, verifier, rpc, ret, late>>

(* The deadline of Get's context passes. *)
Expire ==
  /\ ~expired
  /\ expired' = TRUE
  /\ UNCHANGED <<body, failed, shutdown, verifier, releases, cpc, rpc, ret, late>>

-----------------------------------------------------------------------------
BodyAnswers == BodyBytes \/ BodyProbe

ReadProceeds ==
  \/ LoadFirst \/ VerifyLatched \/ LoadSecond \/ ReadReleases \/ ReadDone
  \/ Interrupted /\ BodyFails

CloseProceeds(k) ==
  CloseEnter(k) \/ CloseStore(k) \/ CloseAbort(k) \/ CloseBody(k) \/ CloseReleases(k)

Next ==
  \/ ReadCall \/ ReadProceeds \/ BodyAnswers
  \/ ~Interrupted /\ BodyFails
  \/ Expire
  \/ \E k \in Closers : CloseCall(k) \/ CloseProceeds(k)

(* Goroutines are scheduled, and an interrupted socket read returns; that   *)
(* the service ever answers, or that anyone calls Close, is not assumed.    *)
Spec ==
  /\ Init /\ [][Next]_vars
  /\ WF_vars(ReadProceeds)
  /\ \A k \in Closers : WF_vars(CloseProceeds(k))

-----------------------------------------------------------------------------
TypeOK ==
  /\ body \in [total: 0..(Size + 1), good: BOOLEAN]
  /\ failed \in BOOLEAN /\ expired \in BOOLEAN /\ closed \in BOOLEAN
  /\ aborted \in BOOLEAN /\ shut \in BOOLEAN /\ late \in BOOLEAN /\ silent \in BOOLEAN
  /\ once \in {"new", "running", "done"}
  /\ releases \in Nat
  /\ cpc \in [Closers -> {"idle", "enter", "store", "abort", "shut", "release", "returned"}]
  /\ rpc \in {"idle", "load1", "verify", "load2", "release", "return"}
  /\ ret \in [want: 0..MaxBuffer, n: 0..MaxBuffer, err: Errors]
  /\ count \in 0..Size
  /\ terminal \in {"nil", "eof", "integrity"}

(***************************************************************************)
(* "After Close returns every Read yields zero bytes and an error matching *)
(* fs.ErrClosed, never io.EOF" (Store.Get), also when the verifier had     *)
(* already latched EOF and whichever closer returned.                      *)
(***************************************************************************)
NothingAfterClose ==
  rpc = "return" /\ late => ret.n = 0 /\ ret.err = "closed"

(***************************************************************************)
(* "EOF is conditional on exact length and digest" (Store.Get): EOF means  *)
(* that as many bytes as the manifest says were delivered and have its     *)
(* digest, whatever the chunking, an interrupted Read or a later one; and  *)
(* that the body ended there, unless it answered the probe with neither a  *)
(* byte nor an error, which io.Reader discourages and the code takes for   *)
(* the end.                                                                *)
(***************************************************************************)
EofIsVerified ==
  rpc = "return" /\ ret.err = "eof" =>
    /\ count = Size /\ body.good
    /\ body.total = Size \/ silent

(***************************************************************************)
(* The slot is given back exactly once however Reads and Closes race: never*)
(* twice (a second receive from the gate would free another call's slot),  *)
(* and by the time a Close or a failing Read returns.                      *)
(***************************************************************************)
SlotReleasedOnce ==
  /\ releases <= 1
  /\ (\E k \in Closers : cpc[k] = "returned") => releases = 1
  /\ rpc = "return" /\ ret.err \notin {"nil", "closed"} => releases = 1

(***************************************************************************)
(* Close returns even while a Read is blocked on the network.              *)
(***************************************************************************)
CloseReturns == \A k \in Closers : cpc[k] = "enter" ~> cpc[k] = "returned"

(***************************************************************************)
(* A Read blocked on the network returns once Close has begun.             *)
(***************************************************************************)
CloseUnblocksRead == closed /\ rpc # "idle" ~> rpc = "idle"
=============================================================================
