---------------------------- MODULE Bzip2Assembly ----------------------------
(***************************************************************************)
(* The parallel bzip2 decoder of src/decode.rs: run_ordered decodes every  *)
(* candidate block that the scan found, true or false, and `assemble`      *)
(* follows the chain of markers through the results, skipping and giving   *)
(* back the candidates that turn out to lie inside a block.                *)
(*                                                                         *)
(* When the input begins with a block and no index is wanted, that block   *)
(* is decoded and written before the scan, has no job of its own, and      *)
(* assemble takes it, emptied, from the prefetched slot.                   *)
(*                                                                         *)
(* Markers, inputs and the chain are those of MarkerChain.  Jobs are the   *)
(* block markers in order, without the prefetched one.                     *)
(***************************************************************************)
EXTENDS OrderedPipeline

CONSTANTS
    LastMarker, \* see MarkerChain
    Blocks,
    Inputs,
    Prefetch    \* the first block is decoded before the scan

Markers == 1..LastMarker

prefetchedJobs == IF Prefetch THEN 1 ELSE 0

\* The first job whose candidate lies at or behind marker m.
JobAt(m) == Cardinality({b \in Blocks : b < m}) + 1 - prefetchedJobs

ASSUME AssemblyAssumption ==
    /\ Prefetch \in BOOLEAN
    /\ LastMarker \in Nat
    /\ Blocks \subseteq Markers
    /\ N = Cardinality(Blocks) - prefetchedJobs
    /\ N <= MaxActive
    /\ Prefetch => 1 \in Blocks
    /\ \A input \in Inputs :
          /\ input.bad \subseteq Blocks
          /\ input.leads \in [0..LastMarker -> 0..(LastMarker + 1)]
          /\ \A m \in 0..LastMarker : input.leads[m] # 0 => m < input.leads[m]
          /\ \A m \in Blocks \cup {0} : input.leads[m] <= LastMarker
          /\ Prefetch => input.leads[0] = 1

VARIABLES
    input,    \* the input, see MarkerChain
    stage,    \* "first block", "scan", then "assembly", or "over" without one
    at,       \* the marker that comes next
    held,     \* the candidate at `at`: "none", "taken", or "cleared" when what
              \* it makes obsolete has been discarded
    written,  \* the blocks written to the output, oldest first
    outcome   \* what the call answers, "none" while it runs

assembly == <<input, stage, at, held, written, outcome>>
assemblyVars == <<vars, assembly>>

AssemblyTypeOK ==
    /\ input \in Inputs
    /\ stage \in {"first block", "scan", "assembly", "over"}
    /\ at \in 0..(LastMarker + 1)
    /\ held \in {"none", "taken", "cleared"}
    /\ held # "none" => at \in Blocks /\ input.leads[at] \in Markers
    /\ written \in Seq(Blocks)
    /\ outcome \in {"none", "ok", "data error", "aborted", "panicked"}

AssemblyInit ==
    /\ Init
    /\ input \in Inputs
    /\ stage = IF Prefetch THEN "first block" ELSE "scan"
    /\ at = input.leads[0]
    /\ held = "none"
    /\ written = <<>>
    /\ outcome = "none"

------------------------------------------------------------------------------
(* Before run_ordered. *)

GiveUp(error) ==
    /\ stage' = "over"
    /\ outcome' = error
    /\ UNCHANGED <<vars, input, at, held, written>>

\* decode_first_candidate, and the write of what it decoded.
FirstBlock ==
    /\ stage = "first block"
    /\ 1 \notin input.bad
    /\ written' = Append(written, 1)
    /\ stage' = "scan"
    /\ UNCHANGED <<vars, input, at, held, outcome>>

\* It does not decode, or is too large for the level of its stream, in which
\* case the chain ends before it.
FirstBlockRefused ==
    /\ stage = "first block"
    /\ 1 \in input.bad \/ input.leads[1] = 0
    /\ GiveUp("data error")

FirstBlockAborted == stage = "first block" /\ GiveUp("aborted")

Scan ==
    /\ stage = "scan"
    /\ stage' = "assembly"
    /\ UNCHANGED <<vars, input, at, held, written, outcome>>

\* The reader of the output is gone, or there are too many markers.
ScanAborted == stage = "scan" /\ GiveUp("aborted")

------------------------------------------------------------------------------
(* assemble *)

Assembling == stage = "assembly" /\ outcome = "none"

Prefetched(m) == Prefetch /\ m = 1

\* What follows the header or the block is no marker.
NoMarker ==
    /\ Assembling
    /\ phase = "working"
    /\ held = "none"
    /\ at = 0
    /\ outcome' = "data error"
    /\ UNCHANGED <<vars, input, stage, at, held, written>>

\* The marker of the end of a stream: the checksum is compared, and the next
\* header, if any, is read.
PassEnd ==
    /\ Assembling
    /\ phase = "working"
    /\ held = "none"
    /\ at \in Markers \ Blocks
    /\ at' = input.leads[at]
    /\ UNCHANGED <<vars, input, stage, held, written, outcome>>

\* A block marker: its candidate is asked for.
AskCandidate ==
    /\ Assembling
    /\ held = "none"
    /\ at \in Blocks /\ ~Prefetched(at)
    /\ CallTake(JobAt(at))
    /\ UNCHANGED assembly

\* take answers a candidate that ends at a marker ...
Candidate ==
    /\ Take
    /\ at \notin input.bad
    /\ input.leads[at] # 0
    /\ held' = "taken"
    /\ UNCHANGED <<input, stage, at, written, outcome>>

\* ... or an error, or one that is too large or ends at no marker.
CandidateRefused ==
    /\ Take
    /\ at \in input.bad \/ input.leads[at] = 0
    /\ outcome' = "data error"
    /\ UNCHANGED <<input, stage, at, held, written>>

\* The same for the prefetched candidate.
PrefetchedCandidate ==
    /\ Assembling
    /\ phase = "working"
    /\ held = "none"
    /\ at \in Blocks /\ Prefetched(at)
    /\ IF input.leads[at] = 0
       THEN outcome' = "data error" /\ UNCHANGED held
       ELSE held' = "taken" /\ UNCHANGED outcome
    /\ UNCHANGED <<vars, input, stage, at, written>>

\* discard_before(end_index): the candidates inside the block are obsolete.
DiscardInside ==
    /\ held = "taken"
    /\ CallDiscard(JobAt(input.leads[at]))
    /\ UNCHANGED assembly

Discarded ==
    /\ DiscardDone
    /\ held' = "cleared"
    /\ UNCHANGED <<input, stage, at, written, outcome>>

\* Mutant of WriteCandidate: the prefetched block is written again.
WriteAgain ==
    /\ Assembling
    /\ phase = "working"
    /\ held = "cleared"
    /\ held' = "none"
    /\ written' = Append(written, at)
    /\ at' = input.leads[at]
    /\ UNCHANGED <<vars, input, stage, outcome>>

\* The block is written; the prefetched one has been, and is empty now.
WriteCandidate ==
    /\ Assembling
    /\ phase = "working"
    /\ held = "cleared"
    /\ held' = "none"
    /\ written' = IF Prefetched(at) THEN written ELSE Append(written, at)
    /\ at' = input.leads[at]
    /\ UNCHANGED <<vars, input, stage, outcome>>

WriteFails ==
    /\ Assembling
    /\ phase = "working"
    /\ held = "cleared"
    /\ held' = "none"
    /\ outcome' = "aborted"
    /\ UNCHANGED <<vars, input, stage, at, written>>

\* The input is exhausted: the output is flushed.
EndOfInput ==
    /\ Assembling
    /\ phase = "working"
    /\ at = LastMarker + 1
    /\ outcome' \in {"ok", "aborted"}
    /\ UNCHANGED <<vars, input, stage, at, held, written>>

\* The end of run_ordered, see OrderedPipeline.
ReturnOutcome ==
    /\ outcome # "none"
    /\ stage = "assembly"
    /\ Return
    /\ UNCHANGED assembly

JoinOutcome ==
    /\ Join
    /\ outcome' = IF \E w \in Workers : pc[w] = "panicked"
                  THEN "panicked" ELSE outcome
    /\ UNCHANGED <<input, stage, at, held, written>>

\* candidate_len: a candidate that did not decode retains nothing.
DecodeCandidate(w) ==
    /\ Worker(w)
    /\ \A m \in input.bad :
          (pc[w] = "executing" /\ pc'[w] = "sending" /\ job[w] = JobAt(m))
              => lease'[job[w]] = 0
    /\ UNCHANGED assembly

Assemble ==
    \/ NoMarker
    \/ PassEnd
    \/ AskCandidate
    \/ Receive /\ UNCHANGED assembly
    \/ Candidate
    \/ CandidateRefused
    \/ PrefetchedCandidate
    \/ DiscardInside
    \/ \E k \in Jobs : DiscardStale(k) /\ UNCHANGED assembly
    \/ Discarded
    \/ WriteCandidate
    \/ WriteFails
    \/ EndOfInput
    \/ ReturnOutcome
    \/ Cancel /\ UNCHANGED assembly
    \/ JoinOutcome

AssemblyNext ==
    \/ FirstBlock
    \/ FirstBlockRefused
    \/ FirstBlockAborted
    \/ Scan
    \/ ScanAborted
    \/ Assemble
    \/ stage = "assembly" /\ \E w \in Workers : DecodeCandidate(w)

AssemblySpec == AssemblyInit /\ [][AssemblyNext]_assemblyVars

------------------------------------------------------------------------------
(* Properties. *)

Ended == phase = "joined" \/ stage = "over"

\* The call writes the blocks of the chain and nothing else, each once and in
\* order, and answers Ok only at the end of the input: whatever false markers
\* the scan found, in whatever order the candidates were decoded, and although
\* the first block was written before the others were known.
Chain == INSTANCE MarkerChain
    WITH at <- IF written # <<>> /\ Prefetched(at) THEN input.leads[at] ELSE at,
         answer <- IF Ended THEN outcome ELSE "pending"

FollowsTheChain == Chain!Spec

\* assemble waits for a candidate, and every worker sleeps or has gone home.
Stalled ==
    /\ phase = "taking"
    /\ front \notin ready
    /\ channel = <<>>
    /\ \A w \in Workers : pc[w] \in {"waiting", "returned"}

\* One thing alone can stall the decoder: results of rejected candidates that
\* arrived after discard_before had looked for them.  Candidates still ahead of
\* the chain never do.
OnlyRejectedStall == Stalled => \E k \in ready : k < front /\ lease[k] > 0

\* A candidate is charged "until ordered validation consumes or rejects it": no
\* rejected candidate's bytes keep the one that is asked for from being decoded.
RejectedGiveBack == Stalled => \A k \in ready : k < front => lease[k] = 0
==============================================================================
