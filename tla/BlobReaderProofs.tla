-------------------------- MODULE BlobReaderProofs --------------------------
(***************************************************************************)
(* Proofs about BlobReader, for every number of closing goroutines, every  *)
(* manifest size, every buffer and every body: what the reader promises    *)
(* holds however Read and Close interleave.                                *)
(***************************************************************************)
EXTENDS BlobReader, TLAPS

Closing == {"store", "abort", "shut", "release"}

(* closeOnce: one goroutine runs it, later ones return only after it. *)
OnceInv ==
  /\ \A k \in Closers : cpc[k] \in Closing => once = "running"
  /\ \A j, k \in Closers : cpc[j] \in Closing /\ cpc[k] \in Closing => j = k
  /\ \A k \in Closers : cpc[k] = "returned" => once = "done"

(* The latch is set before anything else Close does. *)
LatchInv ==
  /\ \A k \in Closers : cpc[k] \in {"abort", "shut", "release"} => closed
  /\ once = "done" => closed

(* A Read called after a Close has returned gets no further than the latch. *)
LateInv ==
  late => /\ closed
          /\ rpc \in {"idle", "load1", "return"}
          /\ rpc = "return" => ret.n = 0 /\ ret.err = "closed"

(* The verifier's end is EOF only for the manifest's bytes, and a Read that *)
(* reports EOF has got it from there.                                       *)
Complete == count = Size /\ body.good /\ (body.total = Size \/ silent)

VerifierInv ==
  /\ terminal = "eof" => Complete
  /\ rpc \in {"load2", "release", "return"} /\ ret.err = "eof" => terminal = "eof"

(* releaseOnce: a Close and a Read that ends the stream go past it. *)
ReleaseInv ==
  /\ releases \in {0, 1}
  /\ once = "done" => releases = 1
  /\ rpc = "return" /\ ret.err \notin {"nil", "closed"} => releases = 1

(* The Boolean part of TypeOK, and the rest of it. *)
Bools ==
  /\ failed \in BOOLEAN /\ expired \in BOOLEAN /\ closed \in BOOLEAN
  /\ aborted \in BOOLEAN /\ shut \in BOOLEAN /\ late \in BOOLEAN /\ silent \in BOOLEAN

Types ==
  /\ body \in [total: 0..(Size + 1), good: BOOLEAN]
  /\ once \in {"new", "running", "done"}
  /\ releases \in Nat
  /\ cpc \in [Closers -> {"idle", "enter", "store", "abort", "shut", "release", "returned"}]
  /\ rpc \in {"idle", "load1", "verify", "load2", "release", "return"}
  /\ ret \in [want: 0..MaxBuffer, n: 0..MaxBuffer, err: Errors]
  /\ count \in 0..Size
  /\ terminal \in {"nil", "eof", "integrity"}

ReaderInv == TypeOK /\ OnceInv /\ LatchInv /\ LateInv /\ VerifierInv /\ ReleaseInv

-----------------------------------------------------------------------------
(* The result of a Read, as a step to n and err leaves it. *)
Result == [want: 0..MaxBuffer, n: 0..MaxBuffer, err: Errors]

(* A Read's result keeps its type when its count and error are set. *)
LEMMA ResultType ==
  ASSUME NEW r \in Result, NEW m \in 0..MaxBuffer, NEW e \in Errors
  PROVE  [r EXCEPT !.n = m, !.err = e] \in Result
BY DEF Result

(* A new reader: nothing read, nobody closing, the slot held. *)
LEMMA InitReader == Init => ReaderInv
<1> SUFFICES ASSUME Init PROVE ReaderInv
  OBVIOUS
<1>1. Bools
  BY Zenon DEF Init, Bools
<1>2. Types
  BY ReaderAssumption DEF Init, Types, Errors
<1>3. OnceInv /\ LatchInv /\ LateInv /\ VerifierInv /\ ReleaseInv
  BY DEF Init, OnceInv, LatchInv, LateInv, VerifierInv, Complete, ReleaseInv, Closing
<1> QED BY <1>1, <1>2, <1>3, Zenon DEF ReaderInv, TypeOK, Bools, Types

(* Where the reading goroutine stands and what it returns; the closing *)
(* goroutines, the latch and their Once are left alone.                *)
LEMMA ReadPreserves ==
  ASSUME ReaderInv, ReadCall \/ LoadFirst \/ VerifyLatched \/ LoadSecond \/ ReadDone
  PROVE  ReaderInv'
<1>00. Types
  BY Zenon DEF ReaderInv, TypeOK, Types
<1> USE DEF ReaderInv, stream, shutdown, verifier
<1>1. TypeOK'
  <2>1. Bools'
    BY Zenon DEF TypeOK, Bools, ReadCall, LoadFirst, VerifyLatched, LoadSecond, ReadDone
  <2>2. Types'
    <3>1. /\ body' = body /\ once' = once /\ releases' = releases /\ cpc' = cpc
          /\ count' = count /\ terminal' = terminal
      BY DEF ReadCall, LoadFirst, VerifyLatched, LoadSecond, ReadDone
    <3>2. rpc' \in {"idle", "load1", "verify", "load2", "release", "return"}
      BY DEF ReadCall, LoadFirst, VerifyLatched, LoadSecond, ReadDone, ReadReturns, Verified
    <3>3. ret' \in [want: 0..MaxBuffer, n: 0..MaxBuffer, err: Errors]
      <4>1. CASE ReadCall
        BY <4>1, ReaderAssumption DEF ReadCall, Errors
      <4>2. CASE ~ReadCall
        <5>1. \/ ret' = ret
              \/ \E e \in Errors : ret' = [ret EXCEPT !.n = 0, !.err = e]
          BY <1>00, <4>2, Zenon
             DEF Types, LoadFirst, VerifyLatched, LoadSecond, ReadDone, ReadReturns, Verified, Errors
        <5>2. 0 \in 0..MaxBuffer /\ ret \in Result
          BY <1>00, ReaderAssumption DEF Types, Result
        <5> QED BY <5>1, <5>2, ResultType DEF Result
      <4> QED BY <4>1, <4>2
    <3> QED BY <1>00, <3>1, <3>2, <3>3, Zenon DEF Types
  <2> QED BY <2>1, <2>2, Zenon DEF TypeOK, Bools, Types
<1>2. OnceInv' /\ LatchInv'
  BY DEF OnceInv, LatchInv, ReadCall, LoadFirst, VerifyLatched, LoadSecond, ReadDone
<1>3. LateInv'
  BY DEF LateInv, OnceInv, LatchInv, TypeOK, ReadCall, LoadFirst, VerifyLatched, LoadSecond,
         ReadDone, ReadReturns, Verified
<1>4. VerifierInv'
  BY DEF VerifierInv, Complete, TypeOK, ReadCall, LoadFirst, VerifyLatched, LoadSecond, ReadDone,
         ReadReturns, Verified
<1>5. ReleaseInv'
  BY DEF ReleaseInv, TypeOK, ReadCall, LoadFirst, VerifyLatched, LoadSecond, ReadDone,
         ReadReturns, Verified
<1> QED BY <1>1, <1>2, <1>3, <1>4, <1>5

(* The body answers or fails: the verifier counts and latches its end. *)
LEMMA BodyPreserves ==
  ASSUME ReaderInv, BodyAnswers \/ BodyFails
  PROVE  ReaderInv'
<1>00. Types
  BY Zenon DEF ReaderInv, TypeOK, Types
<1> USE DEF ReaderInv, stream, shutdown, BodyAnswers, BodyWanted
<1>0. count \in Nat /\ Size \in Nat /\ MaxBuffer \in Nat /\ body.total \in Nat /\ ret.want \in Nat
  BY ReaderAssumption DEF TypeOK
<1>1. TypeOK'
  <2>1. Bools'
    BY Zenon DEF TypeOK, Bools, BodyBytes, BodyProbe, BodyFails
  <2>2. Types'
    <3>1. /\ body' = body /\ once' = once /\ releases' = releases /\ cpc' = cpc
          /\ rpc' = "load2" /\ terminal' \in {"nil", "eof", "integrity"}
      BY <1>00 DEF Types, BodyBytes, BodyProbe, BodyFails, Verified, Finish
    <3>2. PICK m \in 0..MaxBuffer, e \in Errors :
            /\ ret' = [ret EXCEPT !.n = m, !.err = e]
            /\ count' = count + m
            /\ m <= Size - count
      <4>1. 0 \in 0..MaxBuffer /\ count + 0 = count /\ 0 <= Size - count
        BY <1>00, <1>0 DEF Types
      <4>2. CASE BodyBytes
        <5>1. PICK m \in 0..MaxBuffer :
                /\ m <= Size - count /\ count' = count + m
                /\ \E e \in {"nil", "eof", "integrity"} : ret' = [ret EXCEPT !.n = m, !.err = e]
          BY <4>2, Zenon DEF BodyBytes, Verified, Finish
        <5> QED BY <5>1 DEF Errors
      <4>3. CASE BodyProbe
        <5>1. /\ count' = count
              /\ \E e \in {"eof", "integrity"} : ret' = [ret EXCEPT !.n = 0, !.err = e]
          BY <4>3, Zenon DEF BodyProbe, Verified, Finish
        <5> QED BY <4>1, <5>1 DEF Errors
      <4>4. CASE BodyFails
        <5>1. PICK m \in 0..MaxBuffer :
                /\ m = 0 \/ m <= Size - count
                /\ count' = count + m
                /\ ret' = [ret EXCEPT !.n = m, !.err = "transport"]
          BY <4>4, Zenon DEF BodyFails, Verified
        <5> QED BY <4>1, <5>1 DEF Errors
      <4> QED BY <4>2, <4>3, <4>4
    <3>3. ret' \in [want: 0..MaxBuffer, n: 0..MaxBuffer, err: Errors]
      BY <1>00, <3>2, ResultType DEF Types, Result
    <3>4. count' \in 0..Size
      BY <1>00, <1>0, <3>2 DEF Types
    <3>5. rpc' \in {"idle", "load1", "verify", "load2", "release", "return"}
      BY <3>1
    <3> QED BY <1>00, <3>1, <3>3, <3>4, <3>5, Zenon DEF Types
  <2> QED BY <2>1, <2>2, Zenon DEF TypeOK, Bools, Types
<1>2. OnceInv' /\ LatchInv'
  BY DEF OnceInv, LatchInv, BodyBytes, BodyProbe, BodyFails
<1>3. LateInv'
  BY DEF LateInv, BodyBytes, BodyProbe, BodyFails, Verified, Finish
<1>4. VerifierInv'
  <2>1. terminal = "nil" /\ body' = body
    BY DEF BodyBytes, BodyProbe, BodyFails
  <2>2. ret'.err = "eof" => terminal' = "eof"
    <3>1. PICK m \in Nat, e \in Errors :
            ret' = [ret EXCEPT !.n = m, !.err = e] /\ (e = "eof" => terminal' = "eof")
      <4>1. \A m \in 0..MaxBuffer : m \in Nat
        BY <1>0
      <4> QED BY <1>00, <4>1 DEF BodyBytes, BodyProbe, BodyFails, Verified, Finish, Errors
    <3> QED BY <1>00, <3>1 DEF Types
  <2>3. ASSUME terminal' = "eof"
        PROVE  Complete'
    <3>1. body.good
      BY <2>1, <2>3, Zenon DEF BodyBytes, BodyProbe, BodyFails, Finish
    <3>2. count' = Size
      BY <1>0, <2>1, <2>3 DEF BodyBytes, BodyProbe, BodyFails, Finish
    <3>3. CASE BodyBytes
      <4>1. body.total = Size
        BY <1>0, <2>1, <2>3, <3>3 DEF BodyBytes, Finish
      <4> QED BY <2>1, <3>1, <3>2, <4>1, Zenon DEF Complete
    <3>4. CASE BodyProbe
      <4>1. body.total = Size \/ silent'
        BY <2>1, <2>3, <3>4, Zenon DEF BodyProbe
      <4> QED BY <2>1, <3>1, <3>2, <4>1, Zenon DEF Complete
    <3>5. CASE BodyFails
      BY <2>1, <2>3, <3>5 DEF BodyFails
    <3> QED BY <3>3, <3>4, <3>5
  <2> QED BY <2>2, <2>3, Zenon DEF VerifierInv
<1>5. ReleaseInv'
  BY DEF ReleaseInv, BodyBytes, BodyProbe, BodyFails, Verified, Finish
<1> QED BY <1>1, <1>2, <1>3, <1>4, <1>5

(* A Read that ends the stream gives the slot back if nobody has. *)
LEMMA ReadReleasesPreserves ==
  ASSUME ReaderInv, ReadReleases
  PROVE  ReaderInv'
<1>00. Types /\ Bools
  BY Zenon DEF ReaderInv, TypeOK, Types, Bools
<1> USE DEF ReaderInv, shutdown, verifier, ReadReleases
<1>1. TypeOK'
  <2>1. Bools'
    BY <1>00, Zenon DEF Bools, ReleaseOnce
  <2>2. Types'
    <3>1. /\ body' = body /\ once' = once /\ cpc' = cpc /\ ret' = ret /\ count' = count
          /\ terminal' = terminal /\ releases' \in {releases, 1}
      BY Zenon DEF ReleaseOnce
    <3>2. releases' \in Nat
      BY <1>00, <3>1 DEF Types
    <3>3. rpc' \in {"idle", "load1", "verify", "load2", "release", "return"}
      OBVIOUS
    <3> QED BY <1>00, <3>1, <3>2, <3>3, Zenon DEF Types
  <2> QED BY <2>1, <2>2, Zenon DEF TypeOK, Bools, Types
<1>2. OnceInv' /\ LatchInv'
  BY DEF OnceInv, LatchInv
<1>3. LateInv'
  BY DEF LateInv
<1>4. VerifierInv'
  BY DEF VerifierInv, Complete
<1>5. ReleaseInv'
  BY DEF ReleaseInv, ReleaseOnce
<1> QED BY <1>1, <1>2, <1>3, <1>4, <1>5

(* The steps of Close, of whichever goroutine. *)
LEMMA ClosePreserves ==
  ASSUME ReaderInv, NEW k \in Closers, CloseCall(k) \/ CloseProceeds(k)
  PROVE  ReaderInv'
<1>00. Types
  BY Zenon DEF ReaderInv, TypeOK, Types
<1> USE DEF ReaderInv, stream, shutdown, verifier, CloseProceeds
<1>1. TypeOK'
  <2>1. Bools'
    BY Zenon DEF TypeOK, Bools, CloseCall, CloseEnter, CloseStore, CloseAbort, CloseBody,
                 CloseReleases, ReleaseOnce
  <2>2. Types'
    <3>1. body' = body /\ rpc' = rpc /\ ret' = ret /\ count' = count /\ terminal' = terminal
      BY DEF CloseCall, CloseEnter, CloseStore, CloseAbort, CloseBody, CloseReleases, ReleaseOnce
    <3>2. once' \in {"new", "running", "done"}
      BY <1>00 DEF Types, CloseCall, CloseEnter, CloseStore, CloseAbort, CloseBody, CloseReleases, ReleaseOnce
    <3>3. releases' \in {releases, 1}
      BY Zenon DEF CloseCall, CloseEnter, CloseStore, CloseAbort, CloseBody, CloseReleases, ReleaseOnce
    <3>4. cpc' \in [Closers -> {"idle", "enter", "store", "abort", "shut", "release", "returned"}]
      BY <1>00 DEF Types, CloseCall, CloseEnter, CloseStore, CloseAbort, CloseBody, CloseReleases, ReleaseOnce
    <3>5. releases' \in Nat
      BY <1>00, <3>3 DEF Types
    <3> QED BY <1>00, <3>1, <3>2, <3>4, <3>5, Zenon DEF Types
  <2> QED BY <2>1, <2>2, Zenon DEF TypeOK, Bools, Types
<1>2. OnceInv' /\ LatchInv'
  <2>1. CASE CloseCall(k)
    BY <2>1 DEF TypeOK, OnceInv, LatchInv, Closing, CloseCall
  <2>2. CASE CloseEnter(k)
    BY <2>2 DEF TypeOK, OnceInv, LatchInv, Closing, CloseEnter
  <2>3. CASE CloseStore(k)
    BY <2>3 DEF TypeOK, OnceInv, LatchInv, Closing, CloseStore
  <2>4. CASE CloseAbort(k)
    BY <2>4 DEF TypeOK, OnceInv, LatchInv, Closing, CloseAbort
  <2>5. CASE CloseBody(k)
    BY <2>5 DEF TypeOK, OnceInv, LatchInv, Closing, CloseBody
  <2>6. CASE CloseReleases(k)
    BY <2>6 DEF TypeOK, OnceInv, LatchInv, Closing, CloseReleases
  <2> QED BY <2>1, <2>2, <2>3, <2>4, <2>5, <2>6
<1>3. LateInv' /\ VerifierInv'
  BY DEF LateInv, VerifierInv, Complete, CloseCall, CloseEnter, CloseStore, CloseAbort, CloseBody,
         CloseReleases
<1>4. ReleaseInv'
  BY DEF ReleaseInv, CloseCall, CloseEnter, CloseStore, CloseAbort, CloseBody, CloseReleases,
         ReleaseOnce
<1> QED BY <1>1, <1>2, <1>3, <1>4

(* Every step of a reader. *)
LEMMA NextReader ==
  ASSUME ReaderInv, [Next]_vars
  PROVE  ReaderInv'
<1>1. CASE UNCHANGED vars
  BY <1>1 DEF vars, ReaderInv, TypeOK, OnceInv, LatchInv, LateInv, VerifierInv, Complete, ReleaseInv
<1>2. CASE Expire
  <2> USE DEF Expire, shutdown, verifier, ReaderInv
  <2>1. TypeOK'
    <3>1. Bools /\ Types
      BY Zenon DEF TypeOK, Bools, Types
    <3>2. Bools'
      BY <1>2, <3>1, Zenon DEF Bools
    <3>3. Types'
      BY <1>2, <3>1 DEF Types
    <3> QED BY <3>2, <3>3, Zenon DEF TypeOK, Bools, Types
  <2>2. OnceInv' /\ LatchInv'
    BY <1>2 DEF OnceInv, LatchInv
  <2>3. LateInv' /\ VerifierInv' /\ ReleaseInv'
    BY <1>2 DEF LateInv, VerifierInv, Complete, ReleaseInv
  <2> QED BY <2>1, <2>2, <2>3
<1>3. CASE \E k \in Closers : CloseCall(k) \/ CloseProceeds(k)
  BY <1>3, ClosePreserves
<1>4. CASE ReadCall \/ ReadProceeds \/ BodyAnswers \/ BodyFails
  BY <1>4, ReadPreserves, BodyPreserves, ReadReleasesPreserves DEF ReadProceeds
<1> QED BY <1>1, <1>2, <1>3, <1>4 DEF Next

(***************************************************************************)
(* The invariant of the reader: Close's Once and latch, the verifier's end *)
(* and the release are in step with one another at every moment.           *)
(***************************************************************************)
THEOREM ReaderInvariant == Spec => []ReaderInv
<1>1. Init => ReaderInv
  BY InitReader
<1>2. ReaderInv /\ [Next]_vars => ReaderInv'
  BY NextReader
<1> QED BY <1>1, <1>2, PTL DEF Spec

(***************************************************************************)
(* After Close returns every Read yields zero bytes and fs.ErrClosed       *)
(* (blob_reader.go, Read), whoever closed and whatever was latched.        *)
(***************************************************************************)
THEOREM ClosedReaderSilent == Spec => []NothingAfterClose
<1>1. ReaderInv => NothingAfterClose
  BY DEF ReaderInv, LateInv, NothingAfterClose
<1> QED BY <1>1, ReaderInvariant, PTL

(***************************************************************************)
(* EOF is reported only after the manifest's number of bytes with its      *)
(* digest (blob_io.go, Read and finish), for every chunking and every      *)
(* failure, and only for a body that ended there or left the probe without *)
(* an answer.                                                              *)
(***************************************************************************)
THEOREM EofOnlyVerified == Spec => []EofIsVerified
<1>1. ReaderInv => EofIsVerified
  BY DEF ReaderInv, VerifierInv, Complete, EofIsVerified
<1> QED BY <1>1, ReaderInvariant, PTL

(***************************************************************************)
(* The transfer slot of a stream is given back exactly once (releaseOnce), *)
(* by the time a Close or an ending Read returns.                          *)
(***************************************************************************)
THEOREM SlotGivenBackOnce == Spec => []SlotReleasedOnce
<1>1. ReaderInv => SlotReleasedOnce
  BY DEF ReaderInv, OnceInv, ReleaseInv, SlotReleasedOnce
<1> QED BY <1>1, ReaderInvariant, PTL
=============================================================================
