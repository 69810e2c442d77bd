----------------------------- MODULE StoreFile -----------------------------
(***************************************************************************)
(* The store file of src/src/persistence.cpp: a header, records linked by  *)
(* a digest chain, and a trailer; StoreWriter, which appends to it through *)
(* a buffered stream, and load_store, which reads as much as it trusts.    *)
(*                                                                         *)
(* A record on disk is a chunk: its body, the chain digest stored behind   *)
(* it, and its state.  A digest determines what it digests, so the chain   *)
(* is the sequence of the bodies before it.  A process that dies, and a    *)
(* write the disk refuses, leave a prefix of what was written, perhaps     *)
(* with a torn record at its end.  Between two processes the file may be   *)
(* tampered with.                                                          *)
(***************************************************************************)
EXTENDS Integers, Sequences, SequencesExt

CONSTANTS
  Payloads,      (* payloads of records                                    *)
  NoPayload,     (* in place of the payload of a trailer                   *)
  MaxRecords,    (* Limits::kMaxStoreRecords                               *)
  MaxTampers     (* bound: alterations of the file in a behaviour          *)

ASSUME StoreAssumption ==
  /\ NoPayload \notin Payloads
  /\ MaxRecords \in Nat /\ MaxTampers \in Nat

VARIABLES
  header,    (* the file: "none", "short" (less than a header), "damaged"  *)
             (* or "whole"                                                 *)
  file,      (* the chunks on disk behind the header                       *)
  pending,   (* chunks in the stream's buffer                              *)
  isOpen,    (* a StoreWriter has the file open                            *)
  chain,     (* chain_ of that writer                                      *)
  count,     (* record_count_ of that writer                               *)
  log,       (* history: the payloads the file was given, and kept by the  *)
             (* last reopen                                                *)
  acked,     (* history: how many of them a successful flush covered       *)
  tampers    (* history: alterations so far                                *)

vars == <<header, file, pending, isOpen, chain, count, log, acked, tampers>>
writerVars == <<isOpen, chain, count>>

----------------------------------------------------------------------------
(* Records. *)

Data(v) == [kind |-> "data", payload |-> v, count |-> 0, root |-> <<>>]
Trailer == [kind |-> "trailer", payload |-> NoPayload, count |-> count, root |-> chain]

(* A whole chunk: chain_step links its body to the chain before it.          *)
Chunk(body) == [body |-> body, chain |-> Append(chain, body), state |-> "whole"]

(* The last record of the chain is the trailer. *)
Sealed == chain # <<>> /\ Last(chain).kind = "trailer"

----------------------------------------------------------------------------
(* load_store *)

(* decode_header: the magic, the checksum, the version, the size and the     *)
(* reserved field; a header that is all there but fails any is "damaged".    *)
HeaderDecodes == header \notin {"short", "damaged"}

(* load_store returns anything at all. *)
Loads == header # "none" /\ HeaderDecodes

Before(i) == IF i = 1 THEN <<>> ELSE file[i - 1].chain

(* Plausible fault, for the mutation runs: only the checksums are compared.  *)
ReadableByChecksum(i) == file[i].state = "whole"

(* The record is complete, and its checksums and its link hold.              *)
Readable(i) ==
  /\ file[i].state = "whole"
  /\ file[i].chain = Append(Before(i), file[i].body)

(* How many records load_store recovers: it stops at the first it cannot     *)
(* trust, and behind a trailer.                                              *)
Valid ==
  LET good == {n \in 0..Len(file) :
                 /\ \A i \in 1..n : Readable(i)
                 /\ \A i \in 1..(n - 1) : file[i].body.kind = "data"}
  IN CHOOSE n \in good : \A m \in good : m <= n

TrailerPresent == Valid > 0 /\ file[Valid].body.kind = "trailer"

(* The records the caller gets, without the trailer. *)
Kept == IF TrailerPresent THEN Valid - 1 ELSE Valid
Recovered == [i \in 1..Kept |-> file[i].body.payload]

(* The record at which load_store gave up, if it did. *)
GivenUp == IF TrailerPresent \/ Valid = Len(file) THEN {} ELSE {Valid + 1}

(* A record longer than what is left of the file: torn, or with a length     *)
(* field that was altered, wherever it is.  A length beyond the payload      *)
(* bound is told apart only by name (corrupt_tail_record).                   *)
TruncatedTail == \E i \in GivenUp : file[i].state \in {"torn", "overlong"}
Mistrusted == {i \in GivenUp : file[i].state \notin {"torn", "overlong"}}
CorruptTailRecord == Len(file) \in Mistrusted
MidFileCorruption == \E i \in Mistrusted : i < Len(file)
TrailerMismatch ==
  TrailerPresent /\ LET t == file[Valid].body IN t.count # Kept \/ t.root # Before(Valid)

Clean == ~(TruncatedTail \/ CorruptTailRecord \/ MidFileCorruption \/ TrailerMismatch)

----------------------------------------------------------------------------
TypeOK ==
  /\ header \in {"none", "short", "damaged", "whole"}
  /\ isOpen \in BOOLEAN
  /\ Len(log) <= MaxRecords /\ acked \in 0..Len(log)
  /\ count \in 0..MaxRecords /\ tampers \in 0..MaxTampers
  /\ \A i \in DOMAIN file : file[i].state \in {"whole", "torn", "damaged", "overlong"}
  /\ \A i \in DOMAIN pending : pending[i].state = "whole"
  /\ header \in {"none", "short"} => file = <<>>

Init ==
  /\ header = "none" /\ file = <<>> /\ pending = <<>>
  /\ isOpen = FALSE /\ chain = <<>> /\ count = 0
  /\ log = <<>> /\ acked = 0 /\ tampers = 0

(* Plausible fault: the old contents are not removed. *)
CreateOver ==
  /\ ~isOpen
  /\ header' = (IF header = "none" THEN "short" ELSE header)
  /\ isOpen' = TRUE /\ chain' = <<>> /\ count' = 0
  /\ log' = <<>> /\ acked' = 0
  /\ UNCHANGED <<file, pending, tampers>>

(* StoreWriter::create of a new file, or with truncate_existing: what was    *)
(* there is gone at once, the new header waits in the buffer.                *)
Create ==
  /\ ~isOpen
  /\ header' = "short" /\ file' = <<>> /\ pending' = <<>>
  /\ isOpen' = TRUE /\ chain' = <<>> /\ count' = 0
  /\ log' = <<>> /\ acked' = 0
  /\ UNCHANGED tampers

(* StoreWriter::append.  A writer is closed after its trailer, as save does. *)
AppendRecord(v) ==
  /\ isOpen /\ ~Sealed /\ count < MaxRecords
  /\ pending' = Append(pending, Chunk(Data(v)))
  /\ chain' = Append(chain, Data(v))
  /\ count' = count + 1
  /\ log' = Append(log, v)
  /\ UNCHANGED <<header, file, isOpen, acked, tampers>>

(* Everything written reaches the file. *)
Flushed(chunks) ==
  /\ header' = "whole"
  /\ file' = file \o chunks
  /\ pending' = <<>>
  /\ acked' = Len(log)

(* StoreWriter::append_trailer, which flushes. *)
AppendTrailer ==
  /\ isOpen /\ ~Sealed
  /\ Flushed(Append(pending, Chunk(Trailer)))
  /\ chain' = Append(chain, Trailer)
  /\ UNCHANGED <<isOpen, count, log, tampers>>

Flush ==
  /\ isOpen
  /\ Flushed(pending)
  /\ UNCHANGED <<writerVars, log, tampers>>

(* StoreWriter::close, also run by the destructor when a save fails. *)
Close ==
  /\ isOpen
  /\ Flushed(pending)
  /\ isOpen' = FALSE
  /\ UNCHANGED <<chain, count, log, tampers>>

(* The stream writes some of its buffer on its own. *)
Spill ==
  /\ isOpen
  /\ \/ header = "short" /\ header' = "whole" /\ UNCHANGED <<file, pending>>
     \/ /\ header = "whole" /\ pending # <<>> /\ UNCHANGED header
        /\ file' = Append(file, Head(pending)) /\ pending' = Tail(pending)
  /\ UNCHANGED <<writerVars, log, acked, tampers>>

(* The process dies, or a write fails: the rest of the buffer is lost.       *)
Crash ==
  /\ isOpen
  /\ isOpen' = FALSE /\ pending' = <<>>
  /\ \/ UNCHANGED file
     \/ /\ header = "whole" /\ pending # <<>>
        /\ file' = Append(file, [Head(pending) EXCEPT !.state = "torn"])
  /\ UNCHANGED <<header, chain, count, log, acked, tampers>>

(* Plausible faults: the chain starts anew; the removed trailer is counted.  *)
ReopenWithNewChain(repair) ==
  /\ ~isOpen /\ Loads /\ ~MidFileCorruption
  /\ Valid < Len(file) => repair
  /\ file' = SubSeq(file, 1, Kept)
  /\ isOpen' = TRUE
  /\ chain' = <<>>
  /\ count' = Kept
  /\ log' = Recovered /\ acked' = Kept
  /\ UNCHANGED <<header, pending, tampers>>

ReopenCountingTrailer(repair) ==
  /\ ~isOpen /\ Loads /\ ~MidFileCorruption
  /\ Valid < Len(file) => repair
  /\ file' = SubSeq(file, 1, Kept)
  /\ isOpen' = TRUE
  /\ chain' = (IF Kept = 0 THEN <<>> ELSE file[Kept].chain)
  /\ count' = Valid
  /\ log' = Recovered /\ acked' = Kept
  /\ UNCHANGED <<header, pending, tampers>>

(* StoreWriter::reopen: refused when the header does not decode, when a      *)
(* record fails before the end, or, with no authority to repair, when        *)
(* anything is left unread; otherwise the file is cut back to its last       *)
(* record, the trailer removed.                                              *)
Reopen(repair) ==
  /\ ~isOpen /\ Loads /\ ~MidFileCorruption
  /\ Valid < Len(file) => repair
  /\ file' = SubSeq(file, 1, Kept)
  /\ isOpen' = TRUE
  /\ chain' = (IF Kept = 0 THEN <<>> ELSE file[Kept].chain)
  /\ count' = Kept
  /\ log' = Recovered /\ acked' = Kept
  /\ UNCHANGED <<header, pending, tampers>>

(* A file altered in one place: its header or a record damaged, a length     *)
(* raised past the end of the file, a record removed, repeated, or exchanged *)
(* with the next.                                                            *)
Altered ==
  LET whole == {i \in DOMAIN file : file[i].state = "whole"}
  IN {[file EXCEPT ![i].state = how] : i \in whole, how \in {"damaged", "overlong"}}
     \cup {RemoveAt(file, i) : i \in whole}
     \cup {InsertAt(file, i, file[i]) : i \in whole}
     \cup {[file EXCEPT ![i] = file[i + 1], ![i + 1] = file[i]]
             : i \in {j \in whole : j + 1 \in whole}}

Tamper ==
  /\ ~isOpen /\ tampers < MaxTampers
  /\ \/ file' \in Altered /\ UNCHANGED header
     \/ header = "whole" /\ header' = "damaged" /\ UNCHANGED file
  /\ tampers' = tampers + 1
  /\ UNCHANGED <<pending, writerVars, log, acked>>

Next ==
  \/ Create \/ AppendTrailer \/ Flush \/ Close \/ Spill \/ Crash \/ Tamper
  \/ \E v \in Payloads : AppendRecord(v)
  \/ \E repair \in BOOLEAN : Reopen(repair)

Spec == Init /\ [][Next]_vars

----------------------------------------------------------------------------
(* Whatever happens to the file, load_store returns records that were        *)
(* written to it, in the order in which they were written, from the first    *)
(* one on: an alteration never adds, exchanges or skips a record.            *)
RecoveredIsPrefix == Loads => IsPrefix(Recovered, log)

(* What a flush, a trailer or a close covered survives every crash and every *)
(* reopening of a file nobody altered.                                       *)
FlushedSurvives ==
  tampers = 0 =>
    IF Loads THEN acked <= Len(Recovered) ELSE acked = 0

(* A clean file with a trailer is complete: nothing appended is missing.     *)
TrailerMeansComplete ==
  Loads /\ Clean /\ TrailerPresent => Recovered = log

(* A crash is never taken for corruption: in a file nobody altered nothing   *)
(* but the end can be incomplete, so it can always be reopened.              *)
CrashIsNotCorruption ==
  tampers = 0 /\ Loads =>
    ~(MidFileCorruption \/ CorruptTailRecord \/ TrailerMismatch)
=============================================================================
