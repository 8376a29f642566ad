--------------------------- MODULE CoordinatorProofs ---------------------------
(***************************************************************************)
(* The two coordinators of run_ordered, for any number of jobs and workers *)
(* and any budget that holds the largest job.                              *)
(*                                                                         *)
(* The parallel bzip2 decoder, for any set of markers and any inputs: it   *)
(* is one of the coordinators of OrderedPipeline, it can be stalled by     *)
(* rejected candidates only, and it writes and answers what the chain of   *)
(* markers says.                                                           *)
(*                                                                         *)
(* The scan for those markers, for bytes, markers, chunks and waves of any *)
(* size: it lists the places where one stands.                             *)
(*                                                                         *)
(* The in-order batch: a coordinator that asks for the results in order is *)
(* never left waiting for a job that the budget keeps out, and the call    *)
(* answers what the sequential loop answers.                               *)
(***************************************************************************)
EXTENDS Bzip2Assembly, InOrderBatch, MarkerScan, OrderedPipelineProofs, SequenceTheorems

------------------------------------------------------------------------------
(* Markers and jobs. *)

LEMMA MarkerTypes ==
    /\ LastMarker \in Nat
    /\ 0 \in 0..LastMarker
    /\ Markers \subseteq 0..LastMarker
    /\ Blocks \subseteq Markers
    /\ Prefetch => 1 \in Blocks
BY AssemblyAssumption DEF Markers

LEMMA MarkerBounds == \A m \in Markers : m \in Nat /\ 1 <= m /\ m <= LastMarker
BY AssemblyAssumption DEF Markers

LEMMA BlocksFinite ==
    /\ IsFiniteSet(Blocks)
    /\ \A S \in SUBSET Blocks : /\ IsFiniteSet(S)
                                /\ Cardinality(S) \in Nat
                                /\ Cardinality(S) <= Cardinality(Blocks)
<1>1. IsFiniteSet(1..LastMarker)
  BY AssemblyAssumption, FS_Interval
<1>2. IsFiniteSet(Blocks)
  BY <1>1, FS_Subset, AssemblyAssumption DEF Markers
<1> QED BY <1>2, FS_Subset, FS_CardinalityType

\* The job of a block, and the first job behind any marker, exist.
LEMMA JobAtLemma ==
    ASSUME NEW m \in Markers, Prefetch => 1 < m
    PROVE  /\ JobAt(m) \in 1..(N + 1)
           /\ m \in Blocks => JobAt(m) \in Jobs
<1> DEFINE before == {b \in Blocks : b < m}
<1>1. /\ IsFiniteSet(before)
      /\ Cardinality(before) \in Nat
      /\ Cardinality(before) <= Cardinality(Blocks)
      /\ Cardinality(Blocks) \in Nat
  BY BlocksFinite
<1>2. Prefetch => 1 <= Cardinality(before)
  <2>1. SUFFICES ASSUME Prefetch PROVE 1 <= Cardinality(before)
    OBVIOUS
  <2>2. 1 \in before
    BY <2>1, AssemblyAssumption
  <2>3. Cardinality(before) # 0
    BY <1>1, <2>2, FS_EmptySet
  <2> QED BY <1>1, <2>3
<1>3. m \in Blocks => Cardinality(before) < Cardinality(Blocks)
  <2>1. SUFFICES ASSUME m \in Blocks PROVE Cardinality(before) < Cardinality(Blocks)
    OBVIOUS
  <2>2. m \in Nat
    BY MarkerBounds
  <2>3. m \notin before
    BY <2>2
  <2>4. before \subseteq Blocks /\ before # Blocks
    BY <2>1, <2>3
  <2>5. Cardinality(before) # Cardinality(Blocks)
    BY <2>4, BlocksFinite, FS_Subset
  <2> QED BY <1>1, <2>5
<1>4. JobAt(m) = Cardinality(before) + 1 - prefetchedJobs
  BY DEF JobAt
<1>5. N = Cardinality(Blocks) - prefetchedJobs /\ N \in Nat
  BY AssemblyAssumption, PipelineAssumption
<1>6. CASE Prefetch
  BY <1>1, <1>2, <1>3, <1>4, <1>5, <1>6 DEF prefetchedJobs, Jobs
<1>7. CASE ~Prefetch
  BY <1>1, <1>3, <1>4, <1>5, <1>7 DEF prefetchedJobs, Jobs
<1> QED BY <1>6, <1>7

LEMMA LeadsLemma ==
    ASSUME NEW i \in Inputs, NEW m \in 0..LastMarker
    PROVE  /\ i.leads[m] \in 0..(LastMarker + 1)
           /\ i.leads[m] # 0 => m < i.leads[m]
           /\ m \in Blocks \cup {0} /\ i.leads[m] # 0 => i.leads[m] \in Markers
           /\ Prefetch => i.leads[0] = 1
BY AssemblyAssumption DEF Markers

------------------------------------------------------------------------------
(* The invariant of assemble. *)

\* The marker the chain has reached: a block that was prefetched is written
\* before assemble comes to it.
reached == IF written # <<>> /\ Prefetched(at) THEN input.leads[at] ELSE at

Broken == \/ reached = 0
          \/ reached \in input.bad
          \/ reached \in Blocks /\ input.leads[reached] = 0

\* Where the coordinator can be while it holds a candidate or waits for one.
Handling ==
    /\ held # "none" => /\ at \notin input.bad
                        /\ phase \in {"working", "discarding"}
                        /\ stage = "assembly"
                        /\ outcome = "none"
    /\ phase \in {"taking", "discarding"} => stage = "assembly" /\ outcome = "none"
    /\ phase = "taking" => held = "none" /\ at \in Blocks /\ ~Prefetched(at)
    /\ phase = "discarding" => held = "taken"

\* What has happened before assemble begins.
Beginning ==
    /\ stage # "assembly" => phase = "working" /\ at = input.leads[0]
    /\ stage = "first block" =>
          Prefetched(at) /\ at = 1 /\ at \in Blocks /\ written = <<>>
    /\ stage \in {"scan", "assembly"} /\ Prefetched(at) =>
          written # <<>> /\ 1 \notin input.bad

\* What the answer means and when there is one.
Answering ==
    /\ stage \in {"first block", "scan"} => outcome = "none"
    /\ stage = "over" => outcome \in {"data error", "aborted"}
    /\ ReceiverAlive => outcome \in {"none", "ok", "data error", "aborted"}
    /\ ~ReceiverAlive => outcome # "none" /\ stage = "assembly"
    /\ outcome = "data error" => Broken
    /\ outcome = "ok" => at = LastMarker + 1
    /\ outcome = "panicked" => phase = "joined"

AInv ==
    /\ AssemblyTypeOK
    /\ Handling
    /\ Beginning
    /\ Answering

USE DEF AInv, Flow

LEMMA AssemblyInitLemma == AssemblyInit => AInv
<1> SUFFICES ASSUME AssemblyInit PROVE AInv
  OBVIOUS
<1>1. /\ input.leads[0] \in 0..(LastMarker + 1)
      /\ Prefetch => input.leads[0] = 1
  <2>1. input \in Inputs
    BY DEF AssemblyInit
  <2> QED BY <2>1, MarkerTypes, LeadsLemma
<1>2. /\ phase = "working" /\ input \in Inputs /\ at = input.leads[0]
      /\ held = "none" /\ written = <<>> /\ outcome = "none"
  BY DEF AssemblyInit, Init
<1>3. \/ stage = "first block" /\ at = 1 /\ at \in Blocks /\ Prefetched(at)
      \/ stage = "scan" /\ ~Prefetched(at)
  <2>1. CASE Prefetch
    BY <1>1, <1>2, <2>1, MarkerTypes DEF AssemblyInit, Prefetched
  <2>2. CASE ~Prefetch
    BY <2>2 DEF AssemblyInit, Prefetched
  <2> QED BY <2>1, <2>2
<1>4. AssemblyTypeOK
  <2>1. at \in 0..(LastMarker + 1)
    BY <1>1, <1>2
  <2>2. stage \in {"first block", "scan", "assembly", "over"}
    BY <1>3
  <2>3. written \in Seq(Blocks)
    BY <1>2
  <2>4. /\ input \in Inputs
        /\ held \in {"none", "taken", "cleared"} /\ held = "none"
        /\ outcome \in {"none", "ok", "data error", "aborted", "panicked"}
    BY <1>2
  <2> QED BY <2>1, <2>2, <2>3, <2>4 DEF AssemblyTypeOK
<1>5. Handling
  BY <1>2 DEF Handling
<1>6. Beginning
  BY <1>2, <1>3 DEF Beginning
<1>7. Answering
  BY <1>2, <1>3 DEF Answering, ReceiverAlive
<1> QED BY <1>4, <1>5, <1>6, <1>7

\* What happens before run_ordered.
LEMMA BeforeKeeps ==
    ASSUME AInv, FirstBlock \/ FirstBlockRefused \/ FirstBlockAborted \/ Scan \/ ScanAborted
    PROVE  AInv'
<1>1. UNCHANGED <<phase, input, at, held>>
  BY DEF FirstBlock, FirstBlockRefused, FirstBlockAborted, Scan, ScanAborted, GiveUp,
         vars, coordinator
<1>2. CASE FirstBlock
  <2>1. 1 \in Blocks
    BY <1>2 DEF FirstBlock, Beginning
  <2>2. written' = <<1>> /\ written' \in Seq(Blocks) /\ written' # <<>>
    <3>1. written' = Append(<<>>, 1)
      BY <1>2 DEF FirstBlock, Beginning
    <3> QED BY <2>1, <3>1
  <2>3. /\ stage = "first block" /\ stage' = "scan" /\ outcome' = outcome
        /\ outcome = "none" /\ 1 \notin input.bad
    BY <1>2 DEF FirstBlock, Answering
  <2>4. AssemblyTypeOK'
    BY <1>1, <2>2, <2>3 DEF AssemblyTypeOK
  <2>5. Handling' /\ Beginning'
    BY <1>1, <2>2, <2>3 DEF Handling, Beginning
  <2>6. Answering'
    BY <1>1, <2>3 DEF Answering, Beginning, ReceiverAlive
  <2> QED BY <2>4, <2>5, <2>6
<1>3. CASE FirstBlockRefused
  <2>1. at = 1 /\ 1 \in Blocks /\ written = <<>>
    BY <1>3 DEF FirstBlockRefused, Beginning
  <2>2. Broken'
    BY <1>1, <1>3, <2>1 DEF Broken, reached, FirstBlockRefused, GiveUp
  <2> QED BY <1>1, <1>3, <2>2 DEF FirstBlockRefused, GiveUp, AssemblyTypeOK, ReceiverAlive, Handling,
       Beginning, Answering
<1>4. CASE FirstBlockAborted \/ ScanAborted
  BY <1>1, <1>4 DEF FirstBlockAborted, ScanAborted, GiveUp, AssemblyTypeOK, ReceiverAlive, Handling,
       Beginning, Answering
<1>5. CASE Scan
  BY <1>1, <1>5 DEF Scan, AssemblyTypeOK, ReceiverAlive, Handling, Beginning, Answering
<1> QED BY <1>2, <1>3, <1>4, <1>5

\* Steps that leave the chain where it is.
LEMMA WaitingKeeps ==
    ASSUME AInv,
           \/ AskCandidate
           \/ Receive /\ UNCHANGED assembly
           \/ DiscardInside
           \/ \E k \in Jobs : DiscardStale(k) /\ UNCHANGED assembly
           \/ Discarded
           \/ Cancel /\ UNCHANGED assembly
           \/ ReturnOutcome
    PROVE  AInv'
<1>1. CASE AskCandidate
  BY <1>1 DEF AskCandidate, Assembling, CallTake, assembly, AssemblyTypeOK, ReceiverAlive, Handling, Beginning, Answering,
              Broken, reached, Prefetched
<1>2. CASE \/ Receive /\ UNCHANGED assembly
           \/ \E k \in Jobs : DiscardStale(k) /\ UNCHANGED assembly
  <2>1. UNCHANGED <<phase, assembly>>
    BY <1>2 DEF Receive, DiscardStale, coordinator
  <2> QED BY <2>1 DEF assembly, AssemblyTypeOK, ReceiverAlive, Handling, Beginning, Answering, Broken, reached, Prefetched
<1>3. CASE DiscardInside
  <2>1. /\ phase = "working" /\ phase' = "discarding" /\ held = "taken"
        /\ UNCHANGED assembly
    BY <1>3 DEF DiscardInside, CallDiscard
  <2> QED BY <2>1 DEF assembly, AssemblyTypeOK, ReceiverAlive, Handling, Beginning, Answering, Broken, reached, Prefetched
<1>4. CASE Discarded
  <2>1. /\ phase = "discarding" /\ phase' = "working" /\ held' = "cleared"
        /\ UNCHANGED <<input, stage, at, written, outcome>>
    BY <1>4 DEF Discarded, DiscardDone
  <2> QED BY <2>1 DEF AssemblyTypeOK, ReceiverAlive, Handling, Beginning, Answering, Broken, reached, Prefetched
<1>5. CASE Cancel /\ UNCHANGED assembly
  <2>1. /\ phase = "dropped" /\ phase' = "cancelled"
        /\ UNCHANGED assembly
    BY <1>5 DEF Cancel
  <2> QED BY <2>1 DEF assembly, AssemblyTypeOK, ReceiverAlive, Handling, Beginning, Answering, Broken, reached, Prefetched
<1>6. CASE ReturnOutcome
  <2>1. /\ phase = "working" /\ phase' = "dropped" /\ outcome # "none"
        /\ stage = "assembly" /\ UNCHANGED assembly
    BY <1>6 DEF ReturnOutcome, Return
  <2> QED BY <2>1 DEF assembly, AssemblyTypeOK, ReceiverAlive, Handling, Beginning, Answering, Broken, reached, Prefetched
<1> QED BY <1>1, <1>2, <1>3, <1>4, <1>5, <1>6

\* A candidate is taken, or found in the prefetched slot.
LEMMA TakenKeeps ==
    ASSUME AInv, Candidate \/ CandidateRefused \/ PrefetchedCandidate
    PROVE  AInv'
<1>1. /\ at \in Blocks
      /\ stage = "assembly" /\ outcome = "none" /\ phase' = "working"
      /\ held = "none"
      /\ UNCHANGED <<input, stage, at, written>>
  BY DEF Candidate, CandidateRefused, PrefetchedCandidate, Take, Assembling, vars,
         coordinator, Handling
<1>0. at \in 0..LastMarker /\ input \in Inputs
  BY <1>1, MarkerTypes DEF AssemblyTypeOK
<1>2. input.leads[at] # 0 => input.leads[at] \in Markers
  BY <1>0, <1>1, LeadsLemma
<1>3. CASE Candidate
  BY <1>1, <1>2, <1>3 DEF Candidate, AssemblyTypeOK, ReceiverAlive, Handling, Beginning, Answering, Broken, reached,
                          Prefetched
<1>4. CASE CandidateRefused
  <2>1. ~Prefetched(at) /\ outcome' = "data error" /\ held' = held
    BY <1>4 DEF CandidateRefused, Take, Handling
  <2>2. Broken'
    BY <1>1, <1>4, <2>1 DEF CandidateRefused, Broken, reached, Prefetched
  <2> QED BY <1>1, <2>1, <2>2 DEF AssemblyTypeOK, ReceiverAlive, Handling, Beginning, Answering, Prefetched
<1>5. CASE PrefetchedCandidate
  <2>1. /\ Prefetched(at) /\ at = 1 /\ at \notin input.bad /\ written # <<>>
        /\ IF input.leads[at] = 0
           THEN outcome' = "data error" /\ UNCHANGED held
           ELSE held' = "taken" /\ UNCHANGED outcome
    BY <1>1, <1>5 DEF PrefetchedCandidate, Prefetched, Beginning
  <2>2. CASE input.leads[at] = 0
    <3>1. Broken'
      BY <1>1, <2>1, <2>2 DEF Broken, reached, Prefetched
    <3> QED BY <1>1, <2>1, <2>2, <3>1 DEF AssemblyTypeOK, ReceiverAlive, Handling, Beginning, Answering, Prefetched
  <2>3. CASE input.leads[at] # 0
    BY <1>1, <1>2, <2>1, <2>3 DEF AssemblyTypeOK, ReceiverAlive, Handling, Beginning, Answering, Prefetched, Broken, reached
  <2> QED BY <2>2, <2>3
<1> QED BY <1>3, <1>4, <1>5

\* The chain moves on, or ends.
LEMMA AdvanceKeeps ==
    ASSUME AInv, NoMarker \/ PassEnd \/ WriteCandidate \/ WriteFails \/ EndOfInput
    PROVE  AInv'
<1>1. /\ phase = "working" /\ stage = "assembly" /\ outcome = "none"
      /\ UNCHANGED <<phase, input, stage>>
  BY DEF NoMarker, PassEnd, WriteCandidate, WriteFails, EndOfInput, Assembling, vars,
         coordinator
<1>2. CASE NoMarker
  <2>1. Broken'
    <3>1. at' = 0
      BY <1>2 DEF NoMarker
    <3>2. reached' = 0
      BY <3>1 DEF reached, Prefetched
    <3> QED BY <3>2 DEF Broken
  <2>2. /\ outcome' = "data error"
        /\ UNCHANGED <<at, held, written>> /\ held = "none"
    BY <1>2 DEF NoMarker
  <2>3. AssemblyTypeOK'
    BY <1>1, <2>2 DEF AssemblyTypeOK
  <2>4. Handling' /\ Beginning'
    BY <1>1, <2>2 DEF Handling, Beginning
  <2>5. Answering'
    BY <1>1, <2>1, <2>2 DEF Answering, ReceiverAlive
  <2> QED BY <2>3, <2>4, <2>5
<1>3. CASE WriteFails \/ EndOfInput
  <2>1. /\ held' = "none" \/ (held' = held /\ at = LastMarker + 1)
        /\ outcome' \in {"aborted", "ok"}
        /\ outcome' = "ok" => at = LastMarker + 1
        /\ UNCHANGED <<at, written>>
    <3>1. CASE WriteFails
      <4>1. held' = "none" /\ outcome' = "aborted" /\ at' = at /\ written' = written
        BY <3>1 DEF WriteFails
      <4> QED BY ONLY <4>1
    <3>2. CASE EndOfInput
      BY <3>2 DEF EndOfInput
    <3> QED BY <1>3, <3>1, <3>2
  <2>2. held' = "none"
    <3>1. LastMarker + 1 \notin Blocks
      BY MarkerBounds, MarkerTypes
    <3> QED BY <2>1, <3>1 DEF AssemblyTypeOK
  <2>3. AssemblyTypeOK'
    BY <1>1, <2>1, <2>2 DEF AssemblyTypeOK
  <2>4. Handling' /\ Beginning'
    BY <1>1, <2>1, <2>2 DEF Handling, Beginning
  <2>5. Answering'
    BY <1>1, <2>1 DEF Answering, ReceiverAlive
  <2> QED BY <2>3, <2>4, <2>5
<1>4. CASE PassEnd \/ WriteCandidate
  <2>1. /\ at \in Markers /\ at \in 0..LastMarker /\ input \in Inputs
        /\ at' = input.leads[at] /\ held' = "none" /\ UNCHANGED outcome
    BY <1>4, MarkerBounds, MarkerTypes DEF PassEnd, WriteCandidate, AssemblyTypeOK, Markers
  <2>2. at' \in 0..(LastMarker + 1) /\ ~Prefetched(at')
    BY <2>1, LeadsLemma, MarkerBounds DEF Prefetched
  <2>3. written' \in Seq(Blocks)
    <3>1. CASE PassEnd
      BY <3>1 DEF PassEnd, AssemblyTypeOK
    <3>2. CASE WriteCandidate
      <4>1. at \in Blocks /\ written \in Seq(Blocks)
        BY <3>2 DEF WriteCandidate, AssemblyTypeOK
      <4>2. written' \in {written, Append(written, at)}
        BY <3>2 DEF WriteCandidate
      <4> QED BY <4>1, <4>2
    <3> QED BY <1>4, <3>1, <3>2
  <2>4. AssemblyTypeOK'
    BY <1>1, <2>1, <2>2, <2>3 DEF AssemblyTypeOK
  <2>5. Handling' /\ Beginning'
    BY <1>1, <2>1, <2>2 DEF Handling, Beginning
  <2>6. Answering'
    BY <1>1, <2>1 DEF Answering, ReceiverAlive
  <2> QED BY <2>4, <2>5, <2>6
<1> QED BY <1>2, <1>3, <1>4

LEMMA JoinKeeps ==
    ASSUME AInv, JoinOutcome
    PROVE  AInv'
<1>1. /\ phase = "cancelled" /\ phase' = "joined"
      /\ outcome' \in {"panicked", outcome}
      /\ UNCHANGED <<input, stage, at, held, written>>
  BY DEF JoinOutcome, Join
<1> QED BY <1>1 DEF AssemblyTypeOK, ReceiverAlive, Handling, Beginning, Answering, Broken, reached, Prefetched

LEMMA DecodeKeeps ==
    ASSUME AInv, NEW w \in Workers, DecodeCandidate(w)
    PROVE  AInv'
<1>1. UNCHANGED <<phase, assembly>>
  BY DEF DecodeCandidate, Worker, NoMoreJobs, Admit, Wait, Complete, Panic, Send,
         SendFails, coordinator
<1> QED BY <1>1 DEF assembly, AssemblyTypeOK, ReceiverAlive, Handling, Beginning, Answering, Broken, reached, Prefetched

LEMMA AssemblyKeeps == AInv /\ [AssemblyNext]_assemblyVars => AInv'
<1> SUFFICES ASSUME AInv, [AssemblyNext]_assemblyVars PROVE AInv'
  OBVIOUS
<1>1. CASE UNCHANGED assemblyVars
  BY <1>1 DEF assemblyVars, vars, coordinator, assembly, AssemblyTypeOK, ReceiverAlive, Handling, Beginning, Answering,
              Broken, reached, Prefetched
<1>2. CASE AssemblyNext
  BY <1>2, BeforeKeeps, WaitingKeeps, TakenKeeps, AdvanceKeeps, JoinKeeps, DecodeKeeps
     DEF AssemblyNext, Assemble
<1> QED BY <1>1, <1>2

\* A step of assemble is a step of the pipeline.
LEMMA AssemblyStep == AInv /\ [AssemblyNext]_assemblyVars => [Next]_vars
<1> SUFFICES ASSUME AInv, [AssemblyNext]_assemblyVars PROVE [Next]_vars
  OBVIOUS
<1>1. AskCandidate => \E k \in Jobs : CallTake(k)
  <2>1. SUFFICES ASSUME AskCandidate PROVE \E k \in Jobs : CallTake(k)
    OBVIOUS
  <2>2. at \in Blocks /\ at \in Markers /\ (Prefetch => 1 < at)
    BY <2>1, MarkerBounds, MarkerTypes DEF AskCandidate, Prefetched
  <2> QED BY <2>1, <2>2, JobAtLemma DEF AskCandidate
<1>2. DiscardInside => \E k \in 1..(N + 1) : CallDiscard(k)
  <2>1. SUFFICES ASSUME DiscardInside PROVE \E k \in 1..(N + 1) : CallDiscard(k)
    OBVIOUS
  <2>2. /\ at \in Markers /\ at \in 0..LastMarker /\ input \in Inputs
        /\ input.leads[at] \in Markers
    BY <2>1, MarkerBounds, MarkerTypes DEF DiscardInside, AssemblyTypeOK, Markers
  <2>3. 1 < input.leads[at]
    BY <2>2, MarkerBounds, LeadsLemma
  <2> QED BY <2>1, <2>2, <2>3, JobAtLemma DEF DiscardInside
<1>3. CASE Assemble
  BY <1>1, <1>2, <1>3
     DEF Assemble, NoMarker, PassEnd, Candidate, CandidateRefused, PrefetchedCandidate,
         Discarded, WriteCandidate, WriteFails, EndOfInput, ReturnOutcome, JoinOutcome,
         Next, Coordinator
<1>4. CASE \E w \in Workers : DecodeCandidate(w)
  BY <1>4 DEF DecodeCandidate, Next
<1> QED
BY <1>3, <1>4 DEF AssemblyNext, FirstBlock, FirstBlockRefused, FirstBlockAborted, Scan,
       ScanAborted, GiveUp, assemblyVars

LEMMA AssemblyInvariant == AssemblySpec => [](IInv /\ Flow /\ AInv)
<1>1. AssemblyInit => IInv /\ Flow /\ AInv
  BY InitLemma, FlowInit, AssemblyInitLemma DEF AssemblyInit
<1>2. IInv /\ Flow /\ AInv /\ [AssemblyNext]_assemblyVars => (IInv /\ Flow /\ AInv)'
  BY AssemblyStep, AssemblyKeeps, NextStep, FlowStep
<1> QED BY <1>1, <1>2, PTL DEF AssemblySpec

\* A parallel decode is one of the coordinators OrderedPipeline allows: it asks
\* for existing jobs, never behind the one it asked for last, and so everything
\* proved of run_ordered holds of it.
THEOREM AssemblyIsPipeline == AssemblySpec => Spec
<1>1. AssemblyInit => Init
  BY DEF AssemblyInit
<1> QED BY <1>1, AssemblyStep, AssemblyInvariant, PTL DEF AssemblySpec, Spec

\* The state of the assembly keeps its types: what it holds is a block of the
\* chain, and it never asks to discard up to a place that is no marker.
THEOREM AssemblyTypes == AssemblySpec => []AssemblyTypeOK
<1>1. AInv => AssemblyTypeOK
  OBVIOUS
<1> QED BY <1>1, AssemblyInvariant, PTL

------------------------------------------------------------------------------
(* What can stall it. *)

LEMMA NextJobBounds ==
    ASSUME TypeOK, next < N
    PROVE  /\ next + 1 \in Jobs
           /\ Reservation[next + 1] \in Nat
           /\ Reservation[next + 1] <= Limit
<1>1. next \in Nat /\ N \in Nat /\ next + 1 \in Jobs
  BY PipelineAssumption DEF TypeOK, Jobs
<1> QED BY <1>1, PipelineAssumption

\* Fewer jobs than MaxActive are unretired while one is not admitted yet.
LEMMA RoomForAJob ==
    ASSUME IInv, next < N
    PROVE  active < MaxActive
<1>0. N <= MaxActive
  BY AssemblyAssumption
<1>1. /\ next \in Nat /\ N \in Nat /\ N <= MaxActive /\ MaxActive \in Nat
      /\ DOMAIN lease \subseteq 1..next
  <2>1. next \in Nat /\ N \in Nat /\ MaxActive \in Nat
    BY PipelineAssumption DEF IInv, TypeOK
  <2>2. DOMAIN lease \subseteq 1..next
    BY <2>1 DEF IInv, TypeOK, Leases, Jobs
  <2> QED BY <1>0, <2>1, <2>2
<1>2. IsFiniteSet(1..next) /\ Cardinality(1..next) = next
  <2>1. Cardinality(1..next) = IF 1 > next THEN 0 ELSE next - 1 + 1
    BY <1>1, FS_Interval
  <2> QED BY <1>1, <2>1, FS_Interval
<1>3. Cardinality(DOMAIN lease) <= next
  BY <1>1, <1>2, FS_Subset
<1>4. active \in Nat /\ active = Cardinality(DOMAIN lease)
  BY DEF IInv, TypeOK, Accounting
<1> QED BY <1>1, <1>3, <1>4

\* Some unretired job holds a byte, when a byte is reserved.
LEMMA SomebodyHolds ==
    ASSUME IInv, reserved # 0
    PROVE  \E k \in DOMAIN lease : lease[k] > 0
<1>1. SUFFICES ASSUME \A k \in DOMAIN lease : ~(lease[k] > 0)
               PROVE  FALSE
  OBVIOUS
<1>2. \A k \in DOMAIN lease : 1..lease[k] = {}
  BY <1>1 DEF IInv, TypeOK
<1>3. Bytes(lease) = {}
  BY <1>2 DEF Bytes, BytesOf
<1> QED BY <1>3, FS_EmptySet DEF Total, IInv, Accounting

LEMMA StalledByRejected ==
    ASSUME IInv, Flow, AInv, Stalled
    PROVE  \E k \in ready : k < front /\ lease[k] > 0
<1>1. /\ ReceiverAlive /\ Pending /\ Placed /\ Exhausted /\ ~cancelled
      /\ front <= N /\ front \in Nat /\ front \in Jobs /\ next \in Nat /\ N \in Nat
  <2>1. phase = "taking"
    BY DEF Stalled
  <2>2. front <= N /\ ReceiverAlive
    BY <2>1 DEF ReceiverAlive
  <2>3. front \in Nat /\ 1 <= front /\ next \in Nat /\ N \in Nat
    BY PipelineAssumption DEF IInv, TypeOK
  <2>4. front \in Jobs
    BY <2>2, <2>3 DEF Jobs
  <2> QED BY <2>2, <2>3, <2>4
<1>2. \A w \in Workers : ~Holding(w)
  BY DEF Stalled, Holding
<1>3. InChannel = {}
  BY DEF Stalled, InChannel
<1>4. DOMAIN lease \subseteq ready
  BY <1>1, <1>2, <1>3 DEF Placed
<1>5. next < front
  BY <1>1, <1>4 DEF Pending, Stalled
<1>6. \E w \in Workers : pc[w] = "waiting"
  <2>1. PICK w \in Workers : TRUE
    BY PipelineAssumption
  <2>2. pc[w] # "returned"
    BY <1>1, <1>5 DEF Exhausted
  <2> QED BY <2>2 DEF Stalled
<1>7. next < N /\ ~Admissible(next + 1)
  BY <1>6 DEF IInv, NoLostWakeup
<1>8. ~(Reservation[next + 1] <= Monus(Limit, reserved))
  BY <1>7, RoomForAJob DEF Admissible
<1>9. reserved # 0
  <2>1. SUFFICES ASSUME reserved = 0 PROVE FALSE
    OBVIOUS
  <2>2. Monus(Limit, 0) = Limit
    BY PipelineAssumption DEF Monus
  <2>3. Reservation[next + 1] <= Limit
    BY <1>7, NextJobBounds DEF IInv
  <2> QED BY <1>8, <2>1, <2>2, <2>3
<1>10. PICK k \in DOMAIN lease : lease[k] > 0
  BY <1>9, SomebodyHolds
<1>11. k \in ready /\ k \in Nat /\ k <= next
  <2>1. k \in ready /\ k <= next
    BY <1>4, <1>10 DEF IInv, Leases
  <2>2. k \in Jobs
    BY <1>10 DEF IInv, TypeOK
  <2> QED BY <2>1, <2>2 DEF Jobs
<1> QED BY <1>1, <1>5, <1>10, <1>11

\* assemble waits in vain only when bytes of candidates that it has already
\* rejected are still charged; the candidates ahead of the chain, decoded
\* before they are wanted, never keep the wanted one out.
THEOREM StallsOnlyByRejected == AssemblySpec => []OnlyRejectedStall
<1>1. IInv /\ Flow /\ AInv => OnlyRejectedStall
  BY StalledByRejected DEF OnlyRejectedStall
<1> QED BY <1>1, AssemblyInvariant, PTL

------------------------------------------------------------------------------
(* The refinement. *)

LEMMA ChainInit == AssemblyInit => Chain!Init
BY DEF AssemblyInit, Init, Chain!Init, Ended

\* The marker that the chain has reached is never a block already written.
LEMMA ReachedLemma ==
    ASSUME AInv
    PROVE  /\ stage = "first block" => reached = at
           /\ at \in Markers \ Blocks => reached = at
           /\ ~Prefetched(at) => reached = at
           /\ stage = "assembly" /\ Prefetched(at) => reached = input.leads[at]
           /\ at = LastMarker + 1 => reached = at
<1>1. Prefetched(at) => at = 1 /\ at \in Blocks
  <2>1. SUFFICES ASSUME Prefetched(at) PROVE at = 1 /\ at \in Blocks
    OBVIOUS
  <2>2. Prefetch /\ at = 1
    BY <2>1 DEF Prefetched
  <2> QED BY <2>2, MarkerTypes
<1>2. at \in Blocks => at # LastMarker + 1
  BY MarkerTypes, MarkerBounds
<1>3. stage = "assembly" /\ Prefetched(at) => written # <<>>
  BY DEF Beginning
<1>4. stage = "first block" => written = <<>>
  BY DEF Beginning
<1> QED BY <1>1, <1>2, <1>3, <1>4 DEF reached

\* A step of the chain's walk, as the mapped variables see it.
LEMMA ChainAdvances ==
    ASSUME AInv, AInv', FirstBlock \/ PassEnd \/ WriteCandidate
    PROVE  [Chain!Next]_(Chain!vars)
<1>1. /\ ~Ended /\ ~Ended' /\ input' = input
  BY DEF FirstBlock, PassEnd, WriteCandidate, Assembling, Ended, Beginning, vars,
         coordinator
<1>2. CASE FirstBlock
  <2>1. /\ at = 1 /\ at \in Blocks /\ at \notin input.bad /\ reached = at
        /\ written' = Append(written, at) /\ written' # <<>>
        /\ at' = at /\ Prefetched(at')
    <3>1. /\ at = 1 /\ at \in Blocks /\ written = <<>> /\ reached = at /\ Prefetched(at)
      BY <1>2, ReachedLemma DEF FirstBlock, Beginning
    <3>2. at' = at /\ 1 \notin input.bad /\ written' = Append(written, 1)
      BY <1>2 DEF FirstBlock
    <3>3. written' = <<1>>
      BY <3>1, <3>2
    <3> QED BY <3>1, <3>2, <3>3 DEF Prefetched
  <2>2. reached' = input.leads[at]
    BY <1>1, <2>1 DEF reached
  <2>3. Chain!WriteBlock
    BY <1>1, <2>1, <2>2 DEF Chain!WriteBlock, reached
  <2> QED BY <2>3 DEF Chain!Next
<1>3. CASE PassEnd \/ WriteCandidate
  <2>1. /\ at \in Markers /\ at \in 0..LastMarker /\ input \in Inputs
        /\ at' = input.leads[at] /\ stage = "assembly"
    BY <1>3, MarkerBounds, MarkerTypes
       DEF PassEnd, WriteCandidate, Assembling, AssemblyTypeOK, Markers
  <2>2. ~Prefetched(at') /\ reached' = input.leads[at]
    <3>1. ~Prefetched(at')
      BY <2>1, LeadsLemma, MarkerBounds DEF Prefetched
    <3> QED BY <2>1, <3>1 DEF reached
  <2>3. CASE PassEnd
    <3>1. /\ at \in Markers \ Blocks /\ reached = at /\ written' = written
      BY <2>3, ReachedLemma DEF PassEnd
    <3>2. Chain!PassEnd
      BY <1>1, <2>1, <2>2, <3>1 DEF Chain!PassEnd, Chain!Markers, Markers, reached
    <3> QED BY <3>2 DEF Chain!Next
  <2>4. CASE WriteCandidate /\ ~Prefetched(at)
    <3>1. /\ at \in Blocks \ input.bad /\ reached = at
          /\ written' = Append(written, at)
      BY <2>4, ReachedLemma DEF WriteCandidate, AssemblyTypeOK, Handling
    <3>2. Chain!WriteBlock
      BY <1>1, <2>1, <2>2, <3>1 DEF Chain!WriteBlock, reached
    <3> QED BY <3>2 DEF Chain!Next
  <2>5. CASE WriteCandidate /\ Prefetched(at)
    <3>1. reached = input.leads[at] /\ written' = written
      BY <2>1, <2>5, ReachedLemma DEF WriteCandidate
    <3>2. reached' = reached
      BY <2>2, <3>1
    <3> QED BY <1>1, <3>1, <3>2 DEF Chain!vars, reached
  <2> QED BY <1>3, <2>3, <2>4, <2>5
<1> QED BY <1>2, <1>3

\* The call answers: before the pipeline is started, or after it is joined.
LEMMA ChainAnswers ==
    ASSUME Panicking = {}, Flow, AInv, AInv',
           FirstBlockRefused \/ FirstBlockAborted \/ ScanAborted \/ JoinOutcome
    PROVE  Chain!Next
<1>1. /\ ~Ended /\ Ended'
      /\ UNCHANGED <<input, at, written>>
      /\ outcome' \in {"ok", "data error", "aborted"}
      /\ outcome' = "data error" => Broken'
      /\ outcome' = "ok" => at' = LastMarker + 1
  <2>1. CASE FirstBlockRefused \/ FirstBlockAborted \/ ScanAborted
    BY <2>1 DEF FirstBlockRefused, FirstBlockAborted, ScanAborted, GiveUp, Ended,
                Beginning, Answering
  <2>2. CASE JoinOutcome
    <3>1. \A w \in Workers : pc[w] # "panicked"
      OBVIOUS
    <3>2. /\ phase = "cancelled" /\ phase' = "joined" /\ outcome' = outcome
          /\ UNCHANGED <<input, stage, at, written>>
      BY <2>2, <3>1 DEF JoinOutcome, Join
    <3>3. /\ stage = "assembly" /\ outcome \in {"ok", "data error", "aborted"}
      BY <3>2 DEF Answering, ReceiverAlive, AssemblyTypeOK
    <3> QED BY <3>2, <3>3 DEF Ended, Answering
  <2> QED BY <2>1, <2>2
<1>2. reached' = reached
  BY <1>1 DEF reached, Prefetched
<1>3. CASE outcome' = "aborted"
  <2>1. Chain!Abort
    BY <1>1, <1>2, <1>3 DEF Chain!Abort, reached
  <2> QED BY <2>1 DEF Chain!Next
<1>4. CASE outcome' = "data error"
  <2>1. Chain!Refuse
    BY <1>1, <1>2, <1>4 DEF Chain!Refuse, Broken, reached
  <2> QED BY <2>1 DEF Chain!Next
<1>5. CASE outcome' = "ok"
  <2>1. reached = LastMarker + 1
    BY <1>1, <1>5, ReachedLemma
  <2>2. Chain!Finish
    BY <1>1, <1>2, <1>5, <2>1 DEF Chain!Finish, reached
  <2> QED BY <2>2 DEF Chain!Next
<1> QED BY <1>1, <1>3, <1>4, <1>5

\* Nothing else shows.
LEMMA ChainStep ==
    ASSUME Panicking = {}, Flow, AInv, AInv', [AssemblyNext]_assemblyVars
    PROVE  [Chain!Next]_(Chain!vars)
<1>1. CASE FirstBlock \/ PassEnd \/ WriteCandidate
  BY <1>1, ChainAdvances
<1>2. CASE FirstBlockRefused \/ FirstBlockAborted \/ ScanAborted \/ JoinOutcome
  BY <1>2, ChainAnswers
<1>3. CASE /\ ~(FirstBlock \/ PassEnd \/ WriteCandidate)
           /\ ~(FirstBlockRefused \/ FirstBlockAborted \/ ScanAborted \/ JoinOutcome)
  <2>1. ASSUME NEW w \in Workers, DecodeCandidate(w)
        PROVE  UNCHANGED <<phase, assembly>>
    BY <2>1 DEF DecodeCandidate, Worker, NoMoreJobs, Admit, Wait, Complete, Panic, Send,
                SendFails, coordinator
  <2>2. UNCHANGED <<input, at, written>>
    BY <1>3, <2>1 DEF AssemblyNext, Scan, Assemble, NoMarker, AskCandidate, Candidate,
         CandidateRefused, PrefetchedCandidate, DiscardInside, Discarded, WriteFails,
         EndOfInput, ReturnOutcome, assembly, assemblyVars
  <2>3. \/ ~Ended /\ ~Ended'
        \/ UNCHANGED <<phase, stage, outcome>>
    <3>1. CASE Scan
      BY <3>1 DEF Scan, Ended, Beginning, vars, coordinator
    <3>2. CASE NoMarker \/ PrefetchedCandidate \/ WriteFails \/ EndOfInput
      BY <3>2 DEF NoMarker, PrefetchedCandidate, WriteFails, EndOfInput, Assembling,
                  Ended, vars, coordinator
    <3>3. CASE AskCandidate \/ Candidate \/ CandidateRefused
      BY <3>3 DEF AskCandidate, CallTake, Assembling, Candidate, CandidateRefused, Take,
                  Ended, Handling, assembly
    <3>4. CASE \/ DiscardInside
               \/ Discarded
               \/ ReturnOutcome
      BY <3>4 DEF DiscardInside, CallDiscard, Discarded, DiscardDone, ReturnOutcome, Return,
                  Ended, Handling, assembly
    <3>5. CASE \/ Receive /\ UNCHANGED assembly
               \/ \E k \in Jobs : DiscardStale(k) /\ UNCHANGED assembly
      BY <3>5 DEF Receive, DiscardStale, coordinator, assembly
    <3>6. CASE Cancel /\ UNCHANGED assembly
      BY <3>6 DEF Cancel, Ended, Answering, ReceiverAlive, assembly
    <3>7. CASE UNCHANGED assemblyVars
      BY <3>7 DEF assemblyVars, vars, coordinator, assembly
    <3> QED BY <1>3, <2>1, <3>1, <3>2, <3>3, <3>4, <3>5, <3>6, <3>7
            DEF AssemblyNext, Assemble, assembly
  <2>4. reached' = reached
    BY <2>2 DEF reached, Prefetched
  <2>5. (IF Ended THEN outcome ELSE "pending")' = IF Ended THEN outcome ELSE "pending"
    BY <2>3 DEF Ended
  <2> QED BY <2>2, <2>4, <2>5 DEF Chain!vars, reached
<1> QED BY <1>1, <1>2, <1>3

\* Without panics, what the parallel decoder writes and answers is what
\* following the chain of markers one block at a time writes and answers, for
\* any false candidates, workers and limits and any order of completion.
THEOREM ParallelFollowsTheChain ==
    ASSUME Panicking = {}
    PROVE  AssemblySpec => FollowsTheChain
<1>1. /\ IInv /\ Flow /\ AInv
      /\ (IInv /\ Flow /\ AInv)'
      /\ [AssemblyNext]_assemblyVars
      => [Chain!Next]_(Chain!vars)
  BY ChainStep
<1> QED BY <1>1, ChainInit, AssemblyInvariant, PTL
        DEF AssemblySpec, FollowsTheChain, Chain!Spec

------------------------------------------------------------------------------
(* The in-order batch. *)

\* The unretired jobs are exactly those from the one the coordinator asks for
\* to the last one admitted: nothing is skipped.
Window ==
    /\ front <= next + 1
    /\ \A k \in DOMAIN lease : front <= k

SInv == ReceiverAlive => Window

USE DEF SInv, Flow

LEMMA BatchInitLemma == BatchInit => Init /\ SInv
BY DEF BatchInit, Init, Window

\* A step of the batch is a step of the pipeline.
LEMMA BatchStep == TypeOK /\ [BatchNext]_batchVars => [Next]_vars
<1> SUFFICES ASSUME TypeOK, [BatchNext]_batchVars PROVE [Next]_vars
  OBVIOUS
<1>1. AskNext => \E k \in Jobs : CallTake(k)
  BY DEF AskNext, TypeOK, Jobs
<1> QED
BY <1>1 DEF BatchNext, BatchCoordinator, CommitTaken, CommitTakenFails,
       TakeError, ReturnAnswer, JoinAnswer, Next, Coordinator, batchVars, batch

\* A worker admits a job behind the window, or retires one when the
\* coordinator is gone.
LEMMA WorkersKeep ==
    ASSUME IInv, Flow, SInv, NEW w \in Workers, Worker(w)
    PROVE  SInv'
<1>1. UNCHANGED <<phase, front>>
  BY DEF Worker, NoMoreJobs, Admit, Wait, Complete, Panic, Send, SendFails, coordinator
<1>2. CASE Admit(w)
  <2>1. next' = next + 1 /\ \A k : k \in DOMAIN lease' <=> k \in DOMAIN lease \/ k = next + 1
    BY <1>2 DEF Admit, Charged
  <2> QED BY <1>1, <2>1 DEF Window, ReceiverAlive, IInv, TypeOK
<1>3. CASE Complete(w)
  <2>1. job[w] \in DOMAIN lease
    BY <1>3 DEF Complete, IInv, OnePlace, Holding
  <2>2. next' = next /\ \A k : k \in DOMAIN lease' <=> k \in DOMAIN lease
    BY <1>3, <2>1 DEF Complete, Charged
  <2> QED BY <1>1, <2>2 DEF Window, ReceiverAlive
<1>4. CASE SendFails(w)
  BY <1>1, <1>4 DEF SendFails, ReceiverAlive
<1>5. CASE NoMoreJobs(w) \/ Wait(w) \/ Panic(w) \/ Send(w)
  BY <1>1, <1>5 DEF NoMoreJobs, Wait, Panic, Send, budget, Window, ReceiverAlive
<1> QED BY <1>2, <1>3, <1>4, <1>5 DEF Worker

LEMMA TakeKeeps ==
    ASSUME IInv, Flow, SInv, Take
    PROVE  SInv'
<1>1. /\ front \in ready /\ front' = front + 1
      /\ phase = "taking" /\ UNCHANGED next
  BY DEF Take
<1>2. \A k : k \in DOMAIN lease' <=> k \in DOMAIN lease /\ k # front
  BY DEF Take, Retire, Uncharged
<1>3. front \in DOMAIN lease
  BY <1>1 DEF IInv, OnePlace
<1>4. front <= next
  BY <1>3 DEF IInv, Leases
<1>5. \A k \in DOMAIN lease : k \in Nat
  BY PipelineAssumption DEF IInv, TypeOK, Jobs
<1> QED BY <1>1, <1>2, <1>4, <1>5 DEF Window, ReceiverAlive, IInv, TypeOK

LEMMA BatchKeeps == IInv /\ Flow /\ SInv /\ [BatchNext]_batchVars => SInv'
<1> SUFFICES ASSUME IInv, Flow, SInv, [BatchNext]_batchVars PROVE SInv'
  OBVIOUS
<1>1. ASSUME NEW w \in Workers, Worker(w)
      PROVE  SInv'
  BY <1>1, WorkersKeep
<1>2. CASE BatchCoordinator
  <2>1. CASE AskNext \/ Receive
    BY <2>1 DEF AskNext, CallTake, Receive, Window, ReceiverAlive, budget, coordinator
  <2>2. CASE Take
    BY <2>2, TakeKeeps
  <2>3. CASE Return \/ Cancel \/ Join
    BY <2>3 DEF Return, Cancel, Join, ReceiverAlive
  <2> QED BY <1>2, <2>1, <2>2, <2>3
        DEF BatchCoordinator, CommitTaken, CommitTakenFails, TakeError,
            ReturnAnswer, JoinAnswer
<1>3. CASE UNCHANGED batchVars
  BY <1>3 DEF batchVars, vars, budget, coordinator, Window, ReceiverAlive
<1> QED BY <1>1, <1>2, <1>3 DEF BatchNext

\* The pipeline's invariants and the batch's own hold together.
LEMMA BatchInvariant == BatchSpec => [](IInv /\ Flow /\ SInv)
<1>1. BatchInit => IInv /\ Flow /\ SInv
  BY BatchInitLemma, InitLemma, FlowInit
<1>2. IInv /\ Flow /\ SInv /\ [BatchNext]_batchVars => (IInv /\ Flow /\ SInv)'
  BY BatchStep, NextStep, FlowStep, BatchKeeps DEF IInv
<1> QED BY <1>1, <1>2, PTL DEF BatchSpec

------------------------------------------------------------------------------
(* No stall. *)

\* The head of the line always fits: when the job asked for is not admitted,
\* every earlier one is retired, so nothing is charged.
LEMMA NothingCharged ==
    ASSUME IInv, Flow, SInv, phase = "taking", front > next
    PROVE  /\ DOMAIN lease = {}
           /\ reserved = 0
           /\ active = 0
           /\ next < N
           /\ ~cancelled
           /\ Admissible(next + 1)
<1>1. /\ front = next + 1 /\ front <= N /\ ~cancelled
      /\ \A k \in DOMAIN lease : front <= k /\ k <= next
  BY DEF ReceiverAlive, Window, IInv, TypeOK, Leases
<1>2. DOMAIN lease = {}
  <2>1. \A k \in DOMAIN lease : k \in Nat
    BY PipelineAssumption DEF IInv, TypeOK, Jobs
  <2>2. next \in Nat /\ front = next + 1
    BY <1>1, PipelineAssumption DEF IInv, TypeOK
  <2>3. \A k \in DOMAIN lease : FALSE
    BY <1>1, <2>1, <2>2
  <2> QED BY <2>3
<1>3. reserved = 0
  BY <1>2, TotalEmpty DEF IInv, Accounting
<1>4. active = 0
  BY <1>2, FS_EmptySet DEF IInv, Accounting
<1>5. next < N /\ next + 1 \in Jobs
  BY <1>1, PipelineAssumption DEF IInv, TypeOK, Jobs
<1>6. Admissible(next + 1)
  BY <1>3, <1>4, <1>5, PipelineAssumption DEF Admissible, Monus
<1> QED BY <1>1, <1>2, <1>3, <1>4, <1>5, <1>6

LEMMA NoStall == IInv /\ Flow /\ SInv => NeverStalls
<1> SUFFICES ASSUME IInv, Flow, SInv, phase = "taking", front \notin ready, channel = <<>>,
                    front \notin Panicking
             PROVE  \E w \in Workers : pc[w] \in {"admitting", "executing", "sending"}
  BY DEF NeverStalls
<1>1. CASE front <= next
  <2>1. front \in DOMAIN lease
    BY <1>1, PipelineAssumption DEF ReceiverAlive, Pending, IInv, TypeOK, Jobs
  <2>2. InChannel = {}
    BY DEF InChannel
  <2>3. PICK w \in Workers : Holding(w) /\ job[w] = front
    BY <2>1, <2>2 DEF ReceiverAlive, Placed
  <2>4. pc[w] # "panicked"
    BY <2>3
  <2> QED BY <2>3, <2>4 DEF Holding
<1>2. CASE front > next
  <2>1. PICK w \in Workers : TRUE
    BY PipelineAssumption
  <2>2. pc[w] # "waiting"
    BY <1>2, <2>1, NothingCharged DEF IInv, NoLostWakeup
  <2>3. pc[w] # "returned"
    BY <1>2, <2>1, NothingCharged, PipelineAssumption
       DEF ReceiverAlive, Exhausted, IInv, TypeOK
  <2>4. pc[w] # "panicked"
    BY <1>2, <2>1, NothingCharged DEF IInv, OnePlace, Holding
  <2> QED BY <2>2, <2>3, <2>4 DEF IInv, TypeOK
<1> QED BY <1>1, <1>2, PipelineAssumption DEF IInv, TypeOK

\* A coordinator that asks in order never waits for a job that the budget
\* keeps out: some worker can go on until the result is sent.
THEOREM InOrderNeverStalls == BatchSpec => []NeverStalls
BY BatchInvariant, NoStall, PTL

------------------------------------------------------------------------------
(* The answer. *)

\* How the answer so far, what is committed and the next key belong together.
Ledger ==
    /\ BatchTypeOK
    /\ reply = "none" => front = Len(committed) + 1
    /\ reply = "job error" => Len(committed) + 1 \in failing
    /\ reply = "commit error" => Len(committed) + 1 \in Jobs \ failing
    /\ reply = "ok" => Len(committed) = N
    /\ ReceiverAlive => reply \in {"none", "job error", "commit error"}
    /\ ~ReceiverAlive => reply # "none"
    /\ phase = "taking" => reply = "none"
    /\ reply = "panicked" => phase = "joined"

LEMMA WrittenLength == BatchTypeOK => Len(committed) \in Nat
BY LenProperties DEF BatchTypeOK

LEMMA JobBounds == \A k \in Jobs : k \in Nat /\ 1 <= k /\ k <= N
BY PipelineAssumption DEF Jobs

LEMMA LedgerInit == BatchInit => Ledger
BY PipelineAssumption
   DEF BatchInit, Init, Ledger, BatchTypeOK, ReceiverAlive, Jobs

\* Workers do not touch it, and no worker moves the coordinator.
LEMMA WorkersKeepLedger ==
    ASSUME Ledger, NEW w \in Workers, Worker(w), UNCHANGED batch
    PROVE  Ledger'
<1>1. UNCHANGED <<phase, front>>
  BY DEF Worker, NoMoreJobs, Admit, Wait, Complete, Panic, Send, SendFails, coordinator
<1> QED BY <1>1 DEF Ledger, BatchTypeOK, batch, ReceiverAlive

LEMMA CommitTakenLedger ==
    ASSUME IInv, Flow, SInv, Ledger, CommitTaken
    PROVE  Ledger'
<1>1. /\ phase = "taking" /\ phase' = "working" /\ front' = front + 1
      /\ committed' = Append(committed, front) /\ UNCHANGED <<failing, reply>>
  BY DEF CommitTaken, Take
<1>2. reply = "none" /\ front = Len(committed) + 1 /\ front \in Jobs
  BY <1>1, PipelineAssumption DEF Ledger, IInv, TypeOK, Jobs
<1>3. committed' \in Seq(Jobs) /\ Len(committed') = Len(committed) + 1
  BY <1>1, <1>2 DEF Ledger, BatchTypeOK
<1> QED BY <1>1, <1>2, <1>3 DEF Ledger, BatchTypeOK, ReceiverAlive

LEMMA ErrorLedger ==
    ASSUME IInv, Flow, SInv, Ledger, CommitTakenFails \/ TakeError
    PROVE  Ledger'
<1>1. /\ phase = "taking" /\ phase' = "working"
      /\ UNCHANGED <<failing, committed>>
  BY DEF CommitTakenFails, TakeError, Take
<1>2. reply = "none" /\ front = Len(committed) + 1 /\ front \in Jobs
  BY <1>1, PipelineAssumption DEF Ledger, IInv, TypeOK, Jobs
<1>3. CASE CommitTakenFails
  BY <1>1, <1>2, <1>3 DEF CommitTakenFails, Ledger, BatchTypeOK, ReceiverAlive
<1>4. CASE TakeError
  BY <1>1, <1>2, <1>4 DEF TakeError, Ledger, BatchTypeOK, ReceiverAlive
<1> QED BY <1>3, <1>4

LEMMA ReturnLedger ==
    ASSUME IInv, Ledger, ReturnAnswer \/ JoinAnswer
    PROVE  Ledger'
<1>1. CASE ReturnAnswer
  <2>1. /\ phase = "working" /\ phase' = "dropped"
        /\ reply # "none" \/ front = N + 1
        /\ reply' = IF reply = "none" THEN "ok" ELSE reply
        /\ UNCHANGED <<failing, committed, front>>
    BY <1>1 DEF ReturnAnswer, Return
  <2>2. Len(committed) \in Nat
    BY WrittenLength DEF Ledger
  <2>3. BatchTypeOK'
    BY <2>1 DEF Ledger, BatchTypeOK
  <2>4. CASE reply = "none"
    <3>1. reply' = "ok" /\ Len(committed') = N
      BY <2>1, <2>2, <2>4, PipelineAssumption DEF Ledger
    <3> QED BY <2>1, <2>3, <3>1 DEF Ledger, ReceiverAlive
  <2>5. CASE reply # "none"
    BY <2>1, <2>3, <2>5 DEF Ledger, ReceiverAlive
  <2> QED BY <2>4, <2>5
<1>2. CASE JoinAnswer
  <2>1. /\ phase = "cancelled" /\ phase' = "joined"
        /\ reply' \in {"panicked", reply}
        /\ UNCHANGED <<failing, committed, front>>
    BY <1>2 DEF JoinAnswer, Join
  <2> QED BY <2>1 DEF Ledger, BatchTypeOK, ReceiverAlive
<1> QED BY <1>1, <1>2

LEMMA LedgerKeeps ==
    IInv /\ Flow /\ SInv /\ Ledger /\ [BatchNext]_batchVars => Ledger'
<1> SUFFICES ASSUME IInv, Flow, SInv, Ledger, [BatchNext]_batchVars PROVE Ledger'
  OBVIOUS
<1>1. ASSUME NEW w \in Workers, Worker(w), UNCHANGED batch
      PROVE  Ledger'
  BY <1>1, WorkersKeepLedger
<1>2. CASE AskNext
  BY <1>2 DEF AskNext, CallTake, batch, Ledger, BatchTypeOK, ReceiverAlive
<1>3. CASE Receive /\ UNCHANGED batch
  BY <1>3 DEF Receive, coordinator, batch, Ledger, BatchTypeOK, ReceiverAlive
<1>4. CASE CommitTaken
  BY <1>4, CommitTakenLedger
<1>5. CASE CommitTakenFails \/ TakeError
  BY <1>5, ErrorLedger
<1>6. CASE ReturnAnswer \/ JoinAnswer
  BY <1>6, ReturnLedger
<1>7. CASE Cancel /\ UNCHANGED batch
  BY <1>7 DEF Cancel, batch, Ledger, BatchTypeOK, ReceiverAlive
<1>8. CASE UNCHANGED batchVars
  BY <1>8 DEF batchVars, vars, coordinator, batch, Ledger, BatchTypeOK, ReceiverAlive
<1> QED BY <1>1, <1>2, <1>3, <1>4, <1>5, <1>6, <1>7, <1>8
        DEF BatchNext, BatchCoordinator

\* Everything the answer rests on.
LEMMA BatchLedger == BatchSpec => [](IInv /\ Flow /\ SInv /\ Ledger)
<1>1. BatchSpec => Ledger
  BY LedgerInit DEF BatchSpec
<1>2. IInv /\ Flow /\ SInv /\ Ledger /\ [BatchNext]_batchVars => Ledger'
  BY LedgerKeeps
<1> QED BY <1>1, <1>2, BatchInvariant, PTL DEF BatchSpec

\* The batch is one of the coordinators OrderedPipeline allows: what is proved
\* of run_ordered with any coordinator holds of it.
THEOREM BatchIsPipeline == BatchSpec => Spec
<1>1. BatchInit => Init
  BY DEF BatchInit
<1>2. IInv /\ [BatchNext]_batchVars => [Next]_vars
  BY BatchStep DEF IInv
<1> QED BY <1>1, <1>2, BatchInvariant, PTL DEF BatchSpec, Spec

\* The state of the batch keeps its types.
THEOREM BatchTypes == BatchSpec => []BatchTypeOK
<1>1. Ledger => BatchTypeOK
  BY DEF Ledger
<1> QED BY <1>1, BatchLedger, PTL

------------------------------------------------------------------------------
(* The refinement. *)

LEMMA SerialInit == BatchInit => Serial!Init
BY DEF BatchInit, Init, Serial!Init, Jobs

\* Only two steps of the batch show: a commit, and the end of the join.
LEMMA SerialStep ==
    ASSUME Panicking = {}, IInv, Flow, SInv, Ledger, [BatchNext]_batchVars
    PROVE  [Serial!Next]_(Serial!vars)
<1>1. CASE CommitTaken
  <2>1. /\ phase = "taking" /\ phase' = "working" /\ front \notin failing
        /\ committed' = Append(committed, front) /\ UNCHANGED <<failing, reply>>
    BY <1>1 DEF CommitTaken, Take
  <2>2. front = Len(committed) + 1 /\ front <= N
    BY <2>1 DEF Ledger
  <2>3. Serial!Commit
    BY <2>1, <2>2 DEF Serial!Commit, Serial!Running, Serial!current
  <2> QED BY <2>3 DEF Serial!Next
<1>2. CASE JoinAnswer
  <2>1. /\ phase = "cancelled" /\ phase' = "joined"
        /\ UNCHANGED <<failing, committed>>
    BY <1>2 DEF JoinAnswer, Join
  <2>2. reply' = reply
    BY <1>2 DEF JoinAnswer
  <2>3. /\ reply \in {"ok", "job error", "commit error"}
        /\ Len(committed) \in Nat
    BY <2>1, WrittenLength DEF Ledger, BatchTypeOK, ReceiverAlive
  <2>4. CASE reply = "ok"
    <3>1. Serial!Finish
      BY <2>1, <2>2, <2>4 DEF Serial!Finish, Serial!current, Ledger
    <3> QED BY <3>1 DEF Serial!Next
  <2>5. CASE reply = "job error"
    <3>0. Len(committed) + 1 \in failing /\ Len(committed) + 1 \in Jobs
      BY <2>5 DEF Ledger, BatchTypeOK
    <3>1. Len(committed) + 1 <= N
      BY <3>0, JobBounds
    <3>2. Serial!JobFails
      BY <2>1, <2>2, <2>5, <3>0, <3>1
         DEF Serial!JobFails, Serial!Running, Serial!current
    <3> QED BY <3>2 DEF Serial!Next
  <2>6. CASE reply = "commit error"
    <3>0. Len(committed) + 1 \notin failing /\ Len(committed) + 1 \in Jobs
      BY <2>6 DEF Ledger
    <3>1. Len(committed) + 1 <= N
      BY <3>0, JobBounds
    <3>2. Serial!CommitFails
      BY <2>1, <2>2, <2>6, <3>0, <3>1
         DEF Serial!CommitFails, Serial!Running, Serial!current
    <3> QED BY <3>2 DEF Serial!Next
  <2> QED BY <2>3, <2>4, <2>5, <2>6
<1>3. CASE ~CommitTaken /\ ~JoinAnswer
  <2>1. UNCHANGED <<failing, committed>>
    BY <1>3 DEF BatchNext, BatchCoordinator, AskNext, CommitTakenFails, TakeError,
                ReturnAnswer, batch, batchVars
  <2>2. \/ phase' # "joined" /\ phase # "joined"
        \/ UNCHANGED <<phase, reply>>
    <3>1. ASSUME NEW w \in Workers, Worker(w)
          PROVE  UNCHANGED phase
      BY <3>1 DEF Worker, NoMoreJobs, Admit, Wait, Complete, Panic, Send, SendFails,
                  coordinator
    <3> QED
      BY <1>3, <3>1 DEF BatchNext, BatchCoordinator, AskNext, CallTake, Receive,
             CommitTakenFails, TakeError, Take, ReturnAnswer, Return, Cancel, batch,
             batchVars, vars, coordinator
  <2> QED BY <2>1, <2>2 DEF Serial!vars
<1> QED BY <1>1, <1>2, <1>3

\* Without panics the parallel batch implements the sequential loop, for any
\* number of workers, any limits and any order in which jobs finish.
THEOREM ParallelIsSerial ==
    ASSUME Panicking = {}
    PROVE  BatchSpec => AnswersLikeSerial
<1>1. IInv /\ Flow /\ SInv /\ Ledger /\ [BatchNext]_batchVars => [Serial!Next]_(Serial!vars)
  BY SerialStep
<1> QED BY <1>1, SerialInit, BatchLedger, PTL
        DEF BatchSpec, AnswersLikeSerial, Serial!Spec

------------------------------------------------------------------------------
(* The scan for markers: powers of two. *)

\* Pow2 is what its recursion says.
LEMMA Pow2Rec ==
    /\ \A n \in Nat : Pow2[n] \in Nat
    /\ Pow2[0] = 1
    /\ \A n \in Nat : Pow2[n + 1] = 2 * Pow2[n]
<1> DEFINE step == [p \in Nat \X Nat |-> 2 * p[2]]
<1>1. \A n, a \in Nat : step[<<n, a>>] = 2 * a
  OBVIOUS
<1> HIDE DEF step
<1>2. Steadily(step, Nat)
  <2>1. \A a \in Nat : 2 * a \in Nat
    OBVIOUS
  <2> QED BY <1>1, <2>1 DEF Steadily
<1>3. PICK f : RunsFrom(f, Nat, 1, step)
  BY <1>2, RecursionExists
<1>4. f = [n \in Nat |-> IF n = 0 THEN 1 ELSE 2 * f[n - 1]]
  <2>1. ASSUME NEW n \in Nat, n # 0 PROVE f[n] = 2 * f[n - 1]
    <3>1. n - 1 \in Nat /\ f[n - 1] \in Nat
      BY <1>3, <2>1 DEF RunsFrom
    <3> QED BY <1>1, <1>3, <2>1, <3>1 DEF RunsFrom
  <2> QED BY <1>3, <2>1 DEF RunsFrom
<1>5. Pow2 = [n \in Nat |-> IF n = 0 THEN 1 ELSE 2 * Pow2[n - 1]]
  BY <1>4 DEF Pow2
<1>6. Pow2[0] = 1 /\ \A n \in Nat : Pow2[n + 1] = 2 * Pow2[n]
  BY <1>5
<1>7. \A n \in Nat : Pow2[n] \in Nat
  <2>1. \A n \in Nat : Pow2[n] \in Nat => Pow2[n + 1] \in Nat
    BY <1>6
  <2>2. Pow2[0] \in Nat
    BY <1>6
  <2> QED BY <2>1, <2>2, AllValues
<1> QED BY <1>6, <1>7

\* Shifting by a sum is shifting twice.
LEMMA Pow2Laws ==
    /\ \A n \in Nat : Pow2[n] \in Nat \ {0}
    /\ \A m, n \in Nat : Pow2[m + n] = Pow2[m] * Pow2[n]
<1>1. \A n \in Nat : Pow2[n] \in Nat \ {0}
  <2>1. \A n \in Nat : Pow2[n] \in Nat \ {0} => Pow2[n + 1] \in Nat \ {0}
    BY Pow2Rec
  <2>2. Pow2[0] \in Nat \ {0}
    BY Pow2Rec
  <2> QED BY <2>1, <2>2, AllValues
<1>2. ASSUME NEW m \in Nat, NEW n \in Nat PROVE Pow2[m + n] = Pow2[m] * Pow2[n]
  <2> DEFINE Good == {k \in Nat : Pow2[m + k] = Pow2[m] * Pow2[k]}
  <2>1. 0 \in Good
    BY Pow2Rec
  <2>2. ASSUME NEW k \in 1..n, k - 1 \in Good PROVE k \in Good
    <3>1. k - 1 \in Nat /\ (k - 1) + 1 = k /\ k \in Nat
          /\ m + (k - 1) \in Nat /\ (m + (k - 1)) + 1 = m + k
      OBVIOUS
    <3>2. Pow2[m + (k - 1)] = Pow2[m] * Pow2[k - 1]
      BY <2>2
    <3>3. Pow2[k] = 2 * Pow2[k - 1] /\ Pow2[m + k] = 2 * Pow2[m + (k - 1)]
      BY <3>1, Pow2Rec
    <3>4. Pow2[m] \in Nat /\ Pow2[k - 1] \in Nat
      BY <3>1, Pow2Rec
    <3>5. \A a, b \in Nat : 2 * (a * b) = a * (2 * b)
      OBVIOUS
    <3>6. Pow2[m + k] = Pow2[m] * Pow2[k]
      BY <3>2, <3>3, <3>4, <3>5
    <3> QED BY <3>1, <3>6
  <2> HIDE DEF Good
  <2>3. n \in Good
    BY <2>1, <2>2, Climb
  <2> QED BY <2>3 DEF Good
<1> QED BY <1>1, <1>2

------------------------------------------------------------------------------
(* The bits of a word, the first one the highest. *)

BitOf(x, n, i) == (x \div Pow2[n - 1 - i]) % 2
SameBits(x, y, n) == \A i \in 0..(n - 1) : BitOf(x, n, i) = BitOf(y, n, i)

\* Words of the same bits are the same.
LEMMA BitsTell ==
    ASSUME NEW n \in Nat, NEW x \in 0..(Pow2[n] - 1), NEW y \in 0..(Pow2[n] - 1),
           SameBits(x, y, n)
    PROVE  x = y
<1> DEFINE Tells(k) == \A v, w \in 0..(Pow2[k] - 1) : SameBits(v, w, k) => v = w
           Good == {k \in Nat : Tells(k)}
<1>1. 0 \in Good
  BY Pow2Rec
<1>2. ASSUME NEW k \in 1..n, k - 1 \in Good PROVE k \in Good
  <2>1. k \in Nat /\ k - 1 \in Nat /\ (k - 1) + 1 = k /\ Tells(k - 1)
    BY <1>2
  <2>2. ASSUME NEW v \in 0..(Pow2[k] - 1), NEW w \in 0..(Pow2[k] - 1), SameBits(v, w, k)
        PROVE  v = w
    <3>1. Pow2[k] = 2 * Pow2[k - 1] /\ Pow2[k - 1] \in Nat \ {0} /\ Pow2[k] \in Nat
      BY <2>1, Pow2Rec, Pow2Laws
    <3>2. v \in Nat /\ w \in Nat /\ v < 2 * Pow2[k - 1] /\ w < 2 * Pow2[k - 1]
      BY <3>1
    <3>3. v \div 2 \in 0..(Pow2[k - 1] - 1) /\ w \div 2 \in 0..(Pow2[k - 1] - 1)
      BY <3>1, <3>2
    <3>4. ASSUME NEW i \in 0..((k - 1) - 1)
          PROVE  BitOf(v \div 2, k - 1, i) = BitOf(w \div 2, k - 1, i)
      <4> DEFINE e == (k - 1) - 1 - i
      <4>1. e \in Nat /\ k - 1 - i = e + 1 /\ i \in 0..(k - 1)
        BY <2>1
      <4>2. Pow2[e] \in Nat \ {0} /\ Pow2[e + 1] = 2 * Pow2[e]
        BY <4>1, Pow2Rec, Pow2Laws
      <4>3. \A z \in Nat : (z \div 2) \div Pow2[e] = z \div Pow2[e + 1]
        BY <4>2, DivTwice
      <4>4. BitOf(v, k, i) = BitOf(w, k, i)
        BY <2>2, <4>1 DEF SameBits
      <4>5. BitOf(v, k, i) = (v \div Pow2[e + 1]) % 2 /\ BitOf(w, k, i) = (w \div Pow2[e + 1]) % 2
        BY <4>1 DEF BitOf
      <4>6. BitOf(v \div 2, k - 1, i) = (v \div Pow2[e + 1]) % 2
        BY <3>2, <4>3 DEF BitOf
      <4>7. BitOf(w \div 2, k - 1, i) = (w \div Pow2[e + 1]) % 2
        BY <3>2, <4>3 DEF BitOf
      <4> QED BY <4>4, <4>5, <4>6, <4>7
    <3>5. v \div 2 = w \div 2
      BY <2>1, <3>3, <3>4 DEF SameBits
    <3>6. v % 2 = w % 2
      <4>1. k - 1 \in 0..(k - 1) /\ k - 1 - (k - 1) = 0
        BY <2>1
      <4>2. BitOf(v, k, k - 1) = BitOf(w, k, k - 1)
        BY <2>2, <4>1 DEF SameBits
      <4>3. v \div Pow2[0] = v /\ w \div Pow2[0] = w
        BY <3>2, Pow2Rec
      <4> QED BY <4>1, <4>2, <4>3 DEF BitOf
    <3> QED BY <3>2, <3>5, <3>6
  <2> QED BY <2>1, <2>2
<1> HIDE DEF Good
<1>3. n \in Good
  BY <1>1, <1>2, Climb
<1> QED BY <1>3 DEF Good

\* The low bits that a remainder keeps.
LEMMA BitsOfMod ==
    ASSUME NEW x \in Nat, NEW n \in Nat, NEW i \in 0..(n - 1)
    PROVE  BitOf(x % Pow2[n], n, i) = (x \div Pow2[n - 1 - i]) % 2
<1> DEFINE k == n - 1 - i
<1>1. k \in Nat /\ i \in Nat /\ k + (i + 1) = n
  OBVIOUS
<1>2. Pow2[n] = Pow2[k] * Pow2[i + 1] /\ Pow2[i + 1] = Pow2[i] * 2
      /\ Pow2[k] \in Nat \ {0} /\ Pow2[i] \in Nat \ {0} /\ Pow2[i + 1] \in Nat \ {0}
  <2>1. Pow2[k + (i + 1)] = Pow2[k] * Pow2[i + 1]
    BY <1>1, Pow2Laws
  <2>2. Pow2[i + 1] = 2 * Pow2[i] /\ Pow2[i] \in Nat
    BY <1>1, Pow2Rec
  <2>3. Pow2[k] \in Nat \ {0} /\ Pow2[i] \in Nat \ {0} /\ Pow2[i + 1] \in Nat \ {0}
    <3>1. i + 1 \in Nat
      BY <1>1
    <3> HIDE DEF k
    <3> QED BY <1>1, <3>1, Pow2Laws, Zenon
  <2>4. 2 * Pow2[i] = Pow2[i] * 2
    BY <2>2
  <2> QED BY <1>1, <2>1, <2>2, <2>3, <2>4
<1>3. (x % (Pow2[k] * Pow2[i + 1])) \div Pow2[k] = (x \div Pow2[k]) % Pow2[i + 1]
  BY <1>2, ModDiv
<1>4. x \div Pow2[k] \in Nat
  BY <1>2, Division
<1>5. ((x \div Pow2[k]) % (Pow2[i] * 2)) % 2 = (x \div Pow2[k]) % 2
  BY <1>2, <1>4, ModTwo
<1>6. BitOf(x % Pow2[n], n, i) = ((x % Pow2[n]) \div Pow2[k]) % 2
  BY DEF BitOf
<1> HIDE DEF k
<1>7. BitOf(x % Pow2[n], n, i) = (x \div Pow2[k]) % 2
  BY <1>2, <1>3, <1>5, <1>6
<1> QED BY <1>7 DEF k

------------------------------------------------------------------------------
(* Words and windows. *)

ByteSize == Pow2[ByteBits]
ScanData == data \in Seq(0..(ByteSize - 1))

\* The sizes of the constants.
LEMMA SizesType ==
    /\ ByteBits \in Nat \ {0} /\ MagicBytes \in Nat \ {0} /\ ScanChunk \in Nat \ {0}
    /\ BlockBits \in Nat \ {0} /\ ChecksumBits \in Nat \ {0} /\ Pool \in Nat
    /\ ByteSize \in Nat \ {0}
    /\ BlockMagic \in 0..(Pow2[MagicBytes * ByteBits] - 1)
    /\ EndMagic \in 0..(Pow2[MagicBytes * ByteBits] - 1)
<1>1. /\ ByteBits \in Nat \ {0} /\ MagicBytes \in Nat \ {0} /\ ScanChunk \in Nat \ {0}
      /\ BlockBits \in Nat \ {0} /\ ChecksumBits \in Nat \ {0} /\ Pool \in Nat
      /\ BlockMagic \in 0..(Pow2[MagicBytes * ByteBits] - 1)
      /\ EndMagic \in 0..(Pow2[MagicBytes * ByteBits] - 1)
  BY ScanAssumption
<1> QED BY <1>1, Pow2Laws DEF ByteSize

\* Every byte read is one, behind the data too.
LEMMA ByteAtType ==
    ASSUME ScanData, NEW offset \in Nat
    PROVE  ByteAt(offset) \in Nat /\ ByteAt(offset) < ByteSize
<1>1. CASE offset < Len(data)
  <2> DEFINE i == offset + 1
             T == 0..(ByteSize - 1)
  <2>1. i \in 1..Len(data) /\ data \in Seq(T)
    BY <1>1 DEF ScanData
  <2> HIDE DEF i, T
  <2>3. data[i] \in T
    BY <2>1
  <2>2. data[offset + 1] \in 0..(ByteSize - 1)
    BY <2>3 DEF i, T
  <2> QED BY <1>1, <2>2, SizesType DEF ByteAt
<1>2. CASE ~(offset < Len(data))
  BY <1>2, SizesType DEF ByteAt
<1> QED BY <1>1, <1>2

\* A word is built byte by byte.
LEMMA WordRec ==
    ASSUME ScanData, NEW offset \in Nat
    PROVE  /\ \A n \in Nat : WordAt(offset, n) \in Nat
           /\ WordAt(offset, 0) = 0
           /\ \A n \in Nat :
                WordAt(offset, n + 1) = WordAt(offset, n) * ByteSize + ByteAt(offset + n)
<1> DEFINE step == [p \in Nat \X Nat |-> p[2] * ByteSize + ByteAt(offset + p[1])]
           word == CHOOSE g : g = [n \in Nat |->
                      IF n = 0 THEN 0
                      ELSE g[n - 1] * Pow2[ByteBits] + ByteAt(offset + n - 1)]
<1>1. \A n, a \in Nat : step[<<n, a>>] = a * ByteSize + ByteAt(offset + n)
  OBVIOUS
<1> HIDE DEF step
<1>2. Steadily(step, Nat)
  <2>1. ASSUME NEW n \in Nat, NEW a \in Nat PROVE a * ByteSize + ByteAt(offset + n) \in Nat
    <3>1. ByteAt(offset + n) \in Nat /\ a * ByteSize \in Nat
      BY ByteAtType, SizesType
    <3> QED BY <3>1
  <2> QED BY <1>1, <2>1 DEF Steadily
<1>3. PICK f : RunsFrom(f, Nat, 0, step)
  BY <1>2, RecursionExists
<1>4. f = [n \in Nat |-> IF n = 0 THEN 0
                         ELSE f[n - 1] * Pow2[ByteBits] + ByteAt(offset + n - 1)]
  <2>1. ASSUME NEW n \in Nat, n # 0
        PROVE  f[n] = f[n - 1] * Pow2[ByteBits] + ByteAt(offset + n - 1)
    <3>1. n - 1 \in Nat /\ f[n - 1] \in Nat /\ offset + (n - 1) = offset + n - 1
      BY <1>3, <2>1 DEF RunsFrom
    <3> QED BY <1>1, <1>3, <2>1, <3>1 DEF RunsFrom, ByteSize
  <2> QED BY <1>3, <2>1 DEF RunsFrom
<1>5. word = [n \in Nat |-> IF n = 0 THEN 0
                            ELSE word[n - 1] * Pow2[ByteBits] + ByteAt(offset + n - 1)]
  BY <1>4
<1>6. \A n : WordAt(offset, n) = word[n]
  BY DEF WordAt
<1> HIDE DEF word
<1>7. word[0] = 0 /\ \A n \in Nat : word[n + 1] = word[n] * ByteSize + ByteAt(offset + n)
  <2>1. ASSUME NEW n \in Nat PROVE word[n + 1] = word[n] * ByteSize + ByteAt(offset + n)
    <3>1. n + 1 \in Nat /\ n + 1 # 0 /\ (n + 1) - 1 = n /\ offset + (n + 1) - 1 = offset + n
      OBVIOUS
    <3> QED BY <1>5, <3>1 DEF ByteSize
  <2> QED BY <1>5, <2>1
<1>8. \A n \in Nat : word[n] \in Nat
  <2>1. ASSUME NEW n \in Nat, word[n] \in Nat PROVE word[n + 1] \in Nat
    <3>1. ByteAt(offset + n) \in Nat /\ word[n] * ByteSize \in Nat
      BY <2>1, ByteAtType, SizesType
    <3> QED BY <1>7, <3>1
  <2>2. word[0] \in Nat
    BY <1>7
  <2> QED BY <2>1, <2>2, AllValues
<1> QED BY <1>6, <1>7, <1>8

\* A word has as many bits as its bytes.
LEMMA WordBelow ==
    ASSUME ScanData, NEW offset \in Nat, NEW n \in Nat
    PROVE  WordAt(offset, n) < Pow2[n * ByteBits]
<1> DEFINE Good == {k \in Nat : WordAt(offset, k) < Pow2[k * ByteBits]}
<1>1. 0 \in Good
  <2>1. 0 * ByteBits = 0
    BY SizesType
  <2>2. WordAt(offset, 0) = 0 /\ Pow2[0] = 1
    BY WordRec, Pow2Rec
  <2>3. WordAt(offset, 0) < Pow2[0]
    BY <2>2
  <2>4. WordAt(offset, 0) < Pow2[0 * ByteBits]
    BY <2>1, <2>3, Zenon
  <2> QED BY <2>4
<1>2. ASSUME NEW k \in 1..n, k - 1 \in Good PROVE k \in Good
  <2> DEFINE j == k - 1
  <2>1. k \in Nat /\ j \in Nat /\ j + 1 = k
    OBVIOUS
  <2>2. WordAt(offset, j) < Pow2[j * ByteBits]
    BY <1>2
  <2> HIDE DEF j
  <2>3. j * ByteBits \in Nat /\ k * ByteBits = j * ByteBits + ByteBits
    BY <2>1, SizesType
  <2>4. Pow2[k * ByteBits] = Pow2[j * ByteBits] * ByteSize
    BY <2>3, SizesType, Pow2Laws DEF ByteSize
  <2>5. WordAt(offset, k) = WordAt(offset, j) * ByteSize + ByteAt(offset + j)
        /\ WordAt(offset, j) \in Nat
    BY <2>1, WordRec
  <2>6. ByteAt(offset + j) \in Nat /\ ByteAt(offset + j) < ByteSize
    BY <2>1, ByteAtType
  <2>7. Pow2[j * ByteBits] \in Nat
    BY <2>3, Pow2Laws
  <2>8. WordAt(offset, j) * ByteSize + ByteSize <= Pow2[j * ByteBits] * ByteSize
    BY <2>2, <2>5, <2>7, SizesType
  <2>9. WordAt(offset, k) < Pow2[k * ByteBits]
    <3> DEFINE x == WordAt(offset, j) * ByteSize
               y == Pow2[j * ByteBits] * ByteSize
    <3>1. x \in Nat /\ y \in Nat
      BY <2>5, <2>7, SizesType
    <3>2. /\ x + ByteSize <= y
          /\ WordAt(offset, k) = x + ByteAt(offset + j)
          /\ Pow2[k * ByteBits] = y
      BY <2>4, <2>5, <2>8
    <3> HIDE DEF x, y
    <3>3. x + ByteAt(offset + j) < y
      BY <2>6, <3>1, <3>2, SizesType
    <3> QED BY <3>2, <3>3
  <2> QED BY <2>1, <2>9
<1> HIDE DEF Good
<1>3. n \in Good
  BY <1>1, <1>2, Climb
<1> QED BY <1>3 DEF Good

\* A word begins with its first byte.
LEMMA WordFirst ==
    ASSUME ScanData, NEW offset \in Nat, NEW n \in Nat
    PROVE  WordAt(offset, n + 1) = ByteAt(offset) * Pow2[n * ByteBits] + WordAt(offset + 1, n)
<1> DEFINE Good == {k \in Nat :
             WordAt(offset, k + 1) =
                ByteAt(offset) * Pow2[k * ByteBits] + WordAt(offset + 1, k)}
<1>1. 0 \in Good
  <2>1. 0 * ByteBits = 0 /\ offset + 0 = offset /\ 0 + 1 = 1 /\ offset + 1 \in Nat
    BY SizesType
  <2>2. WordAt(offset, 0) = 0 /\ WordAt(offset + 1, 0) = 0
        /\ WordAt(offset, 1) = WordAt(offset, 0) * ByteSize + ByteAt(offset)
    <3>1. \A i \in Nat :
             WordAt(offset, i + 1) = WordAt(offset, i) * ByteSize + ByteAt(offset + i)
      BY WordRec
    <3>2. WordAt(offset, 0 + 1) = WordAt(offset, 0) * ByteSize + ByteAt(offset + 0)
      BY <3>1
    <3> DEFINE o == offset + 1
    <3>3. o \in Nat
      BY <2>1
    <3> HIDE DEF o
    <3>4. WordAt(offset, 0) = 0 /\ WordAt(o, 0) = 0
      BY <3>3, WordRec
    <3> QED BY <2>1, <3>2, <3>4 DEF o
  <2>3. WordAt(offset, 1) = ByteAt(offset) * Pow2[0] + WordAt(offset + 1, 0)
    <3>1. ByteAt(offset) \in Nat /\ ByteSize \in Nat /\ Pow2[0] = 1
      BY Pow2Rec, ByteAtType, SizesType
    <3> DEFINE b == ByteAt(offset)
               w == WordAt(offset, 0)
    <3>2. b * Pow2[0] = b /\ w * ByteSize = 0 /\ b \in Nat
      <4>1. w = 0
        BY <2>2
      <4> HIDE DEF b, w
      <4> QED BY <3>1, <4>1 DEF b
    <3>3. WordAt(offset, 1) = b
      BY <2>2, <3>2
    <3> QED BY <2>2, <3>2, <3>3
  <2> QED BY <2>1, <2>3
<1>2. ASSUME NEW k \in 1..n, k - 1 \in Good PROVE k \in Good
  <2> DEFINE j == k - 1
  <2>1. k \in Nat /\ j \in Nat /\ j + 1 = k
    OBVIOUS
  <2>2. WordAt(offset, j + 1) = ByteAt(offset) * Pow2[j * ByteBits] + WordAt(offset + 1, j)
    BY <1>2
  <2> HIDE DEF j
  <2>3. j * ByteBits \in Nat /\ k * ByteBits = j * ByteBits + ByteBits
    BY <2>1, SizesType
  <2>4. Pow2[k * ByteBits] = Pow2[j * ByteBits] * ByteSize
    BY <2>3, SizesType, Pow2Laws DEF ByteSize
  <2>5. WordAt(offset, k + 1) = WordAt(offset, k) * ByteSize + ByteAt(offset + k)
    BY <2>1, WordRec
  <2>6. WordAt(offset + 1, k) = WordAt(offset + 1, j) * ByteSize + ByteAt((offset + 1) + j)
        /\ WordAt(offset + 1, j) \in Nat
    BY <2>1, WordRec
  <2>7. (offset + 1) + j = offset + k /\ offset + k \in Nat
    BY <2>1
  <2>8. Pow2[j * ByteBits] \in Nat /\ ByteAt(offset) \in Nat /\ ByteAt(offset + k) \in Nat
    BY <2>3, <2>7, Pow2Laws, ByteAtType
  <2>9. \A a, p, w, s, b \in Nat : (a * p + w) * s + b = a * (p * s) + (w * s + b)
    OBVIOUS
  <2>10. (ByteAt(offset) * Pow2[j * ByteBits] + WordAt(offset + 1, j)) * ByteSize
            + ByteAt(offset + k)
         = ByteAt(offset) * (Pow2[j * ByteBits] * ByteSize)
            + (WordAt(offset + 1, j) * ByteSize + ByteAt(offset + k))
    BY <2>6, <2>8, <2>9, SizesType
  <2>11. WordAt(offset, k + 1) = ByteAt(offset) * Pow2[k * ByteBits] + WordAt(offset + 1, k)
    BY <2>1, <2>2, <2>4, <2>5, <2>6, <2>7, <2>10
  <2> QED BY <2>1, <2>11
<1> HIDE DEF Good
<1>3. n \in Good
  BY <1>1, <1>2, Climb
<1> QED BY <1>3 DEF Good

\* The window slid to a byte is the word that begins there.
LEMMA WindowIs ==
    ASSUME ScanData, NEW start \in Nat, NEW offset \in Nat, start <= offset
    PROVE  WindowAt(start, offset) = WordAt(offset, MagicBytes + 1)
<1> DEFINE mask == Pow2[ByteBits * (MagicBytes + 1)]
           step == [p \in Nat \X Nat |->
                      ((p[2] * ByteSize) % mask) + ByteAt(start + (p[1] + 1) + MagicBytes)]
           base == WordAt(start, MagicBytes + 1)
           window == CHOOSE g : g = [n \in Nat |->
                      IF n = 0 THEN WordAt(start, MagicBytes + 1)
                      ELSE ((g[n - 1] * Pow2[ByteBits]) % Pow2[ByteBits * (MagicBytes + 1)])
                           + ByteAt(start + n + MagicBytes)]
<1>0. mask \in Nat \ {0} /\ base \in Nat /\ MagicBytes + 1 \in Nat
      /\ ByteBits * (MagicBytes + 1) = ByteBits + MagicBytes * ByteBits
      /\ mask = ByteSize * Pow2[MagicBytes * ByteBits]
      /\ Pow2[MagicBytes * ByteBits] \in Nat \ {0}
  <2>1. ByteBits * (MagicBytes + 1) \in Nat /\ MagicBytes + 1 \in Nat
        /\ ByteBits * (MagicBytes + 1) = ByteBits + MagicBytes * ByteBits
        /\ MagicBytes * ByteBits \in Nat
    BY SizesType
  <2>2. Pow2[ByteBits * (MagicBytes + 1)] \in Nat \ {0}
        /\ Pow2[MagicBytes * ByteBits] \in Nat \ {0}
    BY <2>1, Pow2Laws, Zenon
  <2>3. Pow2[ByteBits + MagicBytes * ByteBits] = Pow2[ByteBits] * Pow2[MagicBytes * ByteBits]
    BY <2>1, SizesType, Pow2Laws
  <2>4. base \in Nat
    BY <2>1, WordRec
  <2> QED BY <2>1, <2>2, <2>3, <2>4 DEF ByteSize
<1>1. \A n, a \in Nat :
         step[<<n, a>>] = ((a * ByteSize) % mask) + ByteAt(start + (n + 1) + MagicBytes)
  OBVIOUS
<1>2. \A n, a \in Nat : ((a * ByteSize) % mask) + ByteAt(start + (n + 1) + MagicBytes) \in Nat
  <2>1. ASSUME NEW n \in Nat, NEW a \in Nat
        PROVE  ((a * ByteSize) % mask) + ByteAt(start + (n + 1) + MagicBytes) \in Nat
    <3>1. a * ByteSize \in Nat /\ start + (n + 1) + MagicBytes \in Nat
      BY SizesType
    <3>2. (a * ByteSize) % mask \in Nat
      BY <1>0, <3>1, Division
    <3>3. ByteAt(start + (n + 1) + MagicBytes) \in Nat
      BY <3>1, ByteAtType
    <3> QED BY <3>2, <3>3
  <2> QED BY <2>1
<1> HIDE DEF step
<1>3. Steadily(step, Nat)
  BY <1>1, <1>2 DEF Steadily
<1>4. PICK f : RunsFrom(f, Nat, base, step)
  BY <1>0, <1>3, RecursionExists
<1>5. f = [n \in Nat |->
              IF n = 0 THEN WordAt(start, MagicBytes + 1)
              ELSE ((f[n - 1] * Pow2[ByteBits]) % Pow2[ByteBits * (MagicBytes + 1)])
                   + ByteAt(start + n + MagicBytes)]
  <2>1. ASSUME NEW n \in Nat, n # 0
        PROVE  f[n] = ((f[n - 1] * Pow2[ByteBits]) % Pow2[ByteBits * (MagicBytes + 1)])
                      + ByteAt(start + n + MagicBytes)
    <3>1. n - 1 \in Nat /\ f[n - 1] \in Nat /\ (n - 1) + 1 = n
      BY <1>4, <2>1 DEF RunsFrom
    <3>2. f[n] = step[<<n - 1, f[n - 1]>>]
      BY <1>4, <2>1 DEF RunsFrom
    <3>3. f[n] = ((f[n - 1] * ByteSize) % mask) + ByteAt(start + ((n - 1) + 1) + MagicBytes)
      BY <1>1, <3>1, <3>2
    <3> QED BY <3>1, <3>3 DEF ByteSize
  <2> QED BY <1>4, <2>1 DEF RunsFrom
<1>6. window = [n \in Nat |->
              IF n = 0 THEN WordAt(start, MagicBytes + 1)
              ELSE ((window[n - 1] * Pow2[ByteBits]) % Pow2[ByteBits * (MagicBytes + 1)])
                   + ByteAt(start + n + MagicBytes)]
  BY <1>5
<1>7. WindowAt(start, offset) = window[offset - start]
  BY DEF WindowAt
<1> HIDE DEF window
<1>8. window[0] = base /\ \A n \in Nat :
         window[n + 1] = ((window[n] * ByteSize) % mask) + ByteAt(start + (n + 1) + MagicBytes)
  <2>1. ASSUME NEW n \in Nat
        PROVE  window[n + 1] =
                  ((window[n] * ByteSize) % mask) + ByteAt(start + (n + 1) + MagicBytes)
    <3>1. n + 1 \in Nat /\ n + 1 # 0 /\ (n + 1) - 1 = n
      OBVIOUS
    <3> QED BY <1>6, <3>1 DEF ByteSize
  <2> QED BY <1>6, <2>1
<1>9. \A n \in Nat : n <= offset - start => window[n] = WordAt(start + n, MagicBytes + 1)
  <2> DEFINE Good == {n \in Nat : window[n] = WordAt(start + n, MagicBytes + 1)}
  <2>1. 0 \in Good
    BY <1>8
  <2>2. ASSUME NEW k \in 1..(offset - start), k - 1 \in Good PROVE k \in Good
    <3> DEFINE n == k - 1
    <3>1. k \in Nat /\ n \in Nat /\ n + 1 = k
      OBVIOUS
    <3>2. window[n] = WordAt(start + n, MagicBytes + 1)
      BY <2>2
    <3> HIDE DEF n
    <3> DEFINE o == start + n
    <3>3. o \in Nat /\ o + 1 = start + k /\ start + (n + 1) + MagicBytes = (o + 1) + MagicBytes
      BY <3>1, SizesType
    <3>4. window[k] = ((window[n] * ByteSize) % mask) + ByteAt((o + 1) + MagicBytes)
      BY <1>8, <3>1, <3>3
    <3> HIDE DEF o
    <3>5. WordAt(o, MagicBytes + 1) =
             ByteAt(o) * Pow2[MagicBytes * ByteBits] + WordAt(o + 1, MagicBytes)
      BY <3>3, SizesType, WordFirst
    <3>6. /\ WordAt(o + 1, MagicBytes) \in Nat
          /\ WordAt(o + 1, MagicBytes + 1) =
                WordAt(o + 1, MagicBytes) * ByteSize + ByteAt((o + 1) + MagicBytes)
      <4> DEFINE o1 == o + 1
      <4>1. o1 \in Nat /\ MagicBytes \in Nat
        BY <3>3, SizesType
      <4> HIDE DEF o1
      <4>2. /\ WordAt(o1, MagicBytes) \in Nat
            /\ WordAt(o1, MagicBytes + 1) =
                  WordAt(o1, MagicBytes) * ByteSize + ByteAt(o1 + MagicBytes)
        BY <4>1, WordRec
      <4> QED BY <4>2 DEF o1
    <3>7. WordAt(o + 1, MagicBytes) < Pow2[MagicBytes * ByteBits]
      BY <3>3, SizesType, WordBelow
    <3>8. ByteAt(o) \in Nat
      BY <3>3, ByteAtType
    <3>9. (WordAt(o, MagicBytes + 1) * ByteSize) % mask = WordAt(o + 1, MagicBytes) * ByteSize
      <4> DEFINE p == Pow2[MagicBytes * ByteBits]
                 w == WordAt(o + 1, MagicBytes)
                 b == ByteAt(o)
      <4>1. p \in Nat \ {0} /\ w \in Nat /\ b \in Nat /\ w < p /\ mask = ByteSize * p
            /\ WordAt(o, MagicBytes + 1) = b * p + w
        BY <1>0, <3>5, <3>6, <3>7, <3>8
      <4> HIDE DEF p, w, b, mask
      <4>2. (b * p + w) * ByteSize = b * mask + w * ByteSize
        BY <4>1, SizesType
      <4>3. w * ByteSize \in Nat /\ w * ByteSize < mask
        <5>1. w * ByteSize + ByteSize <= p * ByteSize
          BY <4>1, SizesType
        <5>2. p * ByteSize = mask /\ w * ByteSize \in Nat
          BY <4>1, SizesType
        <5> DEFINE x == w * ByteSize
        <5>3. x \in Nat /\ x + ByteSize <= mask
          BY <5>1, <5>2
        <5> HIDE DEF x
        <5>4. x \in Nat /\ x < mask
          BY <1>0, <5>3, SizesType
        <5> QED BY <5>4 DEF x
      <4>4. (b * mask + w * ByteSize) % mask = w * ByteSize
        <5> DEFINE x == w * ByteSize
                   y == b * mask + x
        <5>1. x \in Nat /\ x < mask
          BY <4>3
        <5>2. y = b * mask + x
          OBVIOUS
        <5> HIDE DEF x, y
        <5>3. y % mask = x
          BY <1>0, <4>1, <5>1, <5>2, DivisionIs
        <5> QED BY <5>3, Zenon DEF x, y
      <4>5. WordAt(o, MagicBytes + 1) * ByteSize = b * mask + w * ByteSize
        BY <4>1, <4>2, Zenon
      <4>6. (WordAt(o, MagicBytes + 1) * ByteSize) % mask = w * ByteSize
        BY <4>4, <4>5, Zenon
      <4> QED BY <4>6, Zenon DEF w, mask
    <3>10. window[k] = WordAt(start + k, MagicBytes + 1)
      BY <3>2, <3>3, <3>4, <3>6, <3>9 DEF o
    <3> QED BY <3>1, <3>10
  <2> HIDE DEF Good
  <2>3. \A n \in 0..(offset - start) : n \in Good
    <3>1. offset - start \in Nat
      OBVIOUS
    <3> QED BY <2>1, <2>2, <3>1, Climb
  <2> QED BY <2>3 DEF Good
<1>10. offset - start \in Nat /\ start + (offset - start) = offset
  OBVIOUS
<1> QED BY <1>7, <1>9, <1>10

\* The bits of a word are those of the data.
LEMMA WordBits ==
    ASSUME ScanData, NEW offset \in Nat, NEW n \in Nat
    PROVE  \A i \in 0..(n * ByteBits - 1) :
              BitOf(WordAt(offset, n), n * ByteBits, i) = BitAt(offset * ByteBits + i)
<1> DEFINE Good == {k \in Nat : \A i \in 0..(k * ByteBits - 1) :
               BitOf(WordAt(offset, k), k * ByteBits, i) = BitAt(offset * ByteBits + i)}
<1>1. 0 \in Good
  <2>1. 0 * ByteBits = 0
    BY SizesType
  <2> QED BY <2>1
<1>2. ASSUME NEW k \in 1..n, k - 1 \in Good PROVE k \in Good
  <2> DEFINE j == k - 1
  <2>1. k \in Nat /\ j \in Nat /\ j + 1 = k
    OBVIOUS
  <2>2. \A i \in 0..(j * ByteBits - 1) :
           BitOf(WordAt(offset, j), j * ByteBits, i) = BitAt(offset * ByteBits + i)
    BY <1>2
  <2> HIDE DEF j
  <2> DEFINE w == WordAt(offset, j)
             b == ByteAt(offset + j)
  <2>3. WordAt(offset, k) = w * ByteSize + b /\ w \in Nat
    BY <2>1, WordRec
  <2>4. b \in Nat /\ b < ByteSize
    BY <2>1, ByteAtType
  <2>5. j * ByteBits \in Nat /\ k * ByteBits = j * ByteBits + ByteBits
    BY <2>1, SizesType
  <2> HIDE DEF w, b
  <2> DEFINE x == w * ByteSize + b
  <2>6. x \in Nat /\ x \div ByteSize = w
    <3>1. w * ByteSize \in Nat
      BY <2>3, SizesType
    <3>2. (w * ByteSize + b) \div ByteSize = w
      BY <2>3, <2>4, SizesType, DivisionIs
    <3>3. w * ByteSize + b \in Nat
      BY <2>4, <3>1
    <3> QED BY <3>2, <3>3
  <2>7. ASSUME NEW i \in 0..(k * ByteBits - 1)
        PROVE  (x \div Pow2[k * ByteBits - 1 - i]) % 2 = BitAt(offset * ByteBits + i)
    <3>1. CASE i < j * ByteBits
      <4> DEFINE e == j * ByteBits - 1 - i
      <4>1. e \in Nat /\ k * ByteBits - 1 - i = ByteBits + e /\ i \in 0..(j * ByteBits - 1)
        BY <2>5, <3>1, SizesType
      <4>2. BitOf(w, j * ByteBits, i) = BitAt(offset * ByteBits + i)
        BY <2>2, <4>1 DEF w
      <4>3. BitOf(w, j * ByteBits, i) = (w \div Pow2[e]) % 2
        BY DEF BitOf
      <4> HIDE DEF e, x
      <4>4. Pow2[ByteBits + e] = ByteSize * Pow2[e] /\ Pow2[e] \in Nat \ {0}
        BY <4>1, SizesType, Pow2Laws DEF ByteSize
      <4>5. (x \div ByteSize) \div Pow2[e] = x \div (ByteSize * Pow2[e])
        BY <2>6, <4>4, SizesType, DivTwice
      <4> QED BY <2>6, <4>1, <4>2, <4>3, <4>4, <4>5
    <3>2. CASE ~(i < j * ByteBits)
      <4> DEFINE r == i - j * ByteBits
                 e == ByteBits - 1 - r
                 d == Pow2[e]
      <4>1. r \in 0..(ByteBits - 1) /\ e \in Nat /\ r \in Nat
            /\ k * ByteBits - 1 - i = e /\ ByteBits = e + (r + 1)
            /\ i = j * ByteBits + r
        BY <2>5, <3>2, SizesType
      <4> HIDE DEF r, e
      <4>2. ByteSize = d * (Pow2[r] * 2) /\ d \in Nat \ {0} /\ Pow2[r] \in Nat
        <5>1. Pow2[e + (r + 1)] = Pow2[e] * Pow2[r + 1] /\ d \in Nat \ {0} /\ Pow2[r] \in Nat
          <6>1. r + 1 \in Nat
            BY <4>1
          <6> QED BY <4>1, <6>1, Pow2Laws, Pow2Rec, Zenon
        <5>2. Pow2[r + 1] = 2 * Pow2[r]
          BY <4>1, Pow2Rec
        <5>3. 2 * Pow2[r] = Pow2[r] * 2
          BY <5>1
        <5> QED BY <4>1, <5>1, <5>2, <5>3 DEF ByteSize
      <4> HIDE DEF d
      <4> DEFINE p == b \div d
                 s == b % d
      <4>3. p \in Nat /\ s \in Nat /\ s < d /\ b = p * d + s
        BY <2>4, <4>2, Division
      <4> HIDE DEF p, s
      <4>4. x = ((w * Pow2[r]) * 2 + p) * d + s
        <5>1. w * (d * (Pow2[r] * 2)) + (p * d + s) = ((w * Pow2[r]) * 2 + p) * d + s
          BY <2>3, <4>2, <4>3
        <5> QED BY <4>2, <4>3, <5>1
      <4>5. w * Pow2[r] \in Nat
        BY <2>3, <4>2
      <4>6. (w * Pow2[r]) * 2 + p \in Nat
        BY <4>3, <4>5
      <4>7. x \div d = (w * Pow2[r]) * 2 + p
        BY <4>2, <4>3, <4>4, <4>6, DivisionIs
      <4>8. (x \div d) % 2 = p % 2
        <5> DEFINE y == w * Pow2[r]
        <5>1. y \in Nat /\ x \div d = y * 2 + p
          BY <4>5, <4>7
        <5> HIDE DEF y, x
        <5>2. (y * 2 + p) % 2 = p % 2
          BY <4>3, <5>1
        <5> QED BY <5>1, <5>2
      <4>9. (offset * ByteBits + i) \div ByteBits = offset + j
            /\ (offset * ByteBits + i) % ByteBits = r
        <5>1. offset * ByteBits + i = (offset + j) * ByteBits + r /\ offset + j \in Nat
          BY <2>1, <4>1, SizesType
        <5>2. r < ByteBits
          BY <4>1, SizesType
        <5>3. ((offset + j) * ByteBits + r) \div ByteBits = offset + j
              /\ ((offset + j) * ByteBits + r) % ByteBits = r
          <6> DEFINE q == offset + j
          <6>1. q \in Nat
            BY <5>1
          <6> HIDE DEF q
          <6>2. (q * ByteBits + r) \div ByteBits = q /\ (q * ByteBits + r) % ByteBits = r
            BY <4>1, <5>2, <6>1, SizesType, DivisionIs
          <6> QED BY <6>2 DEF q
        <5> QED BY <5>1, <5>3
      <4>10. BitAt(offset * ByteBits + i) = (b \div Pow2[ByteBits - 1 - r]) % 2
        BY <4>9 DEF BitAt, b
      <4>11. ByteBits - 1 - r = e
        BY <4>1, SizesType
      <4> HIDE DEF x
      <4> QED BY <4>1, <4>8, <4>10, <4>11 DEF d, p
    <3> QED BY <3>1, <3>2
  <2>8. \A i \in 0..(k * ByteBits - 1) :
           BitOf(WordAt(offset, k), k * ByteBits, i) = BitAt(offset * ByteBits + i)
    BY <2>3, <2>7 DEF BitOf
  <2> QED BY <2>1, <2>8
<1> HIDE DEF Good
<1>3. n \in Good
  BY <1>1, <1>2, Climb
<1> QED BY <1>3 DEF Good

\* What the window is compared with is a marker exactly where one stands.
LEMMA MarkerStands ==
    ASSUME ScanData, NEW offset \in Nat, NEW shift \in 0..(ByteBits - 1),
           NEW magic \in 0..(Pow2[MagicBytes * ByteBits] - 1)
    PROVE  MarkerIn(WordAt(offset, MagicBytes + 1), shift) = magic
              <=> StandsAt(magic, offset * ByteBits + shift)
<1> DEFINE bits == MagicBytes * ByteBits
           w == WordAt(offset, MagicBytes + 1)
           y == w \div Pow2[ByteBits - shift]
           m == y % Pow2[bits]
<1>1. /\ bits \in Nat /\ bits = ByteBits * MagicBytes /\ MagicBytes + 1 \in Nat
      /\ (MagicBytes + 1) * ByteBits = bits + ByteBits
      /\ ByteBits - shift \in Nat /\ shift \in Nat /\ ByteBits \in Nat
  BY SizesType
<1>2. w \in Nat
  BY <1>1, WordRec
<1>3. MarkerIn(w, shift) = m
  BY <1>1 DEF MarkerIn
<1>4. Pow2[bits] \in Nat \ {0} /\ Pow2[ByteBits - shift] \in Nat \ {0}
  BY <1>1, Pow2Laws, Zenon
<1>5. \A i \in 0..(bits + ByteBits - 1) :
         (w \div Pow2[bits + ByteBits - 1 - i]) % 2 = BitAt(offset * ByteBits + i)
  <2>1. \A i \in 0..((MagicBytes + 1) * ByteBits - 1) :
           BitOf(w, (MagicBytes + 1) * ByteBits, i) = BitAt(offset * ByteBits + i)
    BY <1>1, WordBits
  <2> HIDE DEF bits, w
  <2> QED BY <1>1, <2>1 DEF BitOf
<1>6. y \in Nat
  BY <1>2, <1>4, Division
<1>7. m \in 0..(Pow2[bits] - 1)
  <2> DEFINE p == Pow2[bits]
  <2>1. p \in Nat \ {0}
    BY <1>4
  <2> HIDE DEF p, y
  <2>2. y % p \in Nat /\ y % p < p
    BY <1>6, <2>1, Division
  <2>3. y % p \in 0..(p - 1)
    BY <2>1, <2>2
  <2> QED BY <2>3 DEF p
<1> HIDE DEF w, bits, m
<1>8. ASSUME NEW i \in 0..(bits - 1)
      PROVE  BitOf(m, bits, i) = BitAt((offset * ByteBits + shift) + i)
  <2> DEFINE e == bits - 1 - i
             t == shift + i
             d == ByteBits - shift
  <2>1. e \in Nat /\ t \in 0..(bits + ByteBits - 1) /\ bits + ByteBits - 1 - t = d + e /\ d \in Nat
    BY <1>1
  <2>2. BitOf(m, bits, i) = (y \div Pow2[e]) % 2
    BY <1>1, <1>6, BitsOfMod DEF m
  <2> HIDE DEF e, t
  <2>3. Pow2[e] \in Nat \ {0} /\ Pow2[d] \in Nat \ {0} /\ Pow2[d + e] = Pow2[d] * Pow2[e]
    <3> HIDE DEF d
    <3> QED BY <2>1, Pow2Laws, Zenon
  <2>4. (w \div Pow2[d]) \div Pow2[e] = w \div (Pow2[d] * Pow2[e])
    BY <1>2, <2>3, DivTwice
  <2>5. BitOf(m, bits, i) = (w \div Pow2[d + e]) % 2
    BY <2>2, <2>3, <2>4
  <2>6. (w \div Pow2[d + e]) % 2 = BitAt(offset * ByteBits + t)
    BY <1>5, <2>1
  <2>7. offset * ByteBits + t = (offset * ByteBits + shift) + i
    BY <1>1 DEF t
  <2> QED BY <2>5, <2>6, <2>7
<1>9. \A i \in 0..(bits - 1) : (magic \div Pow2[bits - 1 - i]) % 2 = BitOf(magic, bits, i)
  BY DEF BitOf
<1>10. StandsAt(magic, offset * ByteBits + shift)
          <=> \A i \in 0..(bits - 1) :
                 BitAt((offset * ByteBits + shift) + i) = (magic \div Pow2[bits - 1 - i]) % 2
  BY DEF StandsAt, bits
<1>11. SameBits(m, magic, bits) <=> StandsAt(magic, offset * ByteBits + shift)
  BY <1>8, <1>9, <1>10 DEF SameBits
<1>12. m = magic <=> SameBits(m, magic, bits)
  <2>1. magic \in 0..(Pow2[bits] - 1)
    BY DEF bits
  <2>2. ASSUME SameBits(m, magic, bits) PROVE m = magic
    BY <1>1, <1>7, <2>1, <2>2, BitsTell
  <2> QED BY <2>2 DEF SameBits
<1> QED BY <1>3, <1>11, <1>12 DEF w

\* The table of first bytes lets no marker through.
LEMMA PrefixHolds ==
    ASSUME NEW w \in Nat, NEW shift \in 0..(ByteBits - 1), NEW magic,
           MarkerIn(w, shift) = magic
    PROVE  shift \in Shifts(magic, w \div Pow2[ByteBits * MagicBytes])
<1> DEFINE b == ByteBits - shift
           a == ByteBits * (MagicBytes - 1) + shift
           x == w \div Pow2[b]
<1>1. a \in Nat /\ b \in Nat /\ ByteBits * MagicBytes = a + b /\ a + b \in Nat
  <2>1. ByteBits * (MagicBytes - 1) \in Nat
    BY SizesType
  <2>2. ByteBits * MagicBytes = ByteBits * (MagicBytes - 1) + ByteBits
    BY SizesType
  <2> QED BY <2>1, <2>2, SizesType
<1>2. magic = x % Pow2[ByteBits * MagicBytes]
  BY DEF MarkerIn
<1> HIDE DEF a, b
<1>3. Pow2[a] \in Nat \ {0} /\ Pow2[b] \in Nat \ {0} /\ Pow2[a + b] = Pow2[a] * Pow2[b]
  BY <1>1, Pow2Laws, Zenon
<1>4. x \in Nat
  BY <1>3, Division
<1>5. (x % (Pow2[a] * Pow2[b])) \div Pow2[a] = (x \div Pow2[a]) % Pow2[b]
  BY <1>3, <1>4, ModDiv
<1>6. x \div Pow2[a] = w \div (Pow2[b] * Pow2[a])
  BY <1>3, DivTwice
<1>7. Pow2[b] * Pow2[a] = Pow2[a] * Pow2[b]
  BY <1>3
<1>8. magic \div Pow2[a] = (w \div Pow2[ByteBits * MagicBytes]) % Pow2[b]
  BY <1>1, <1>2, <1>3, <1>5, <1>6, <1>7
<1> QED BY <1>8 DEF Shifts, a, b

\* The bits of a byte at which the pass finds a marker.
LEMMA MarkersInAre ==
    ASSUME ScanData, NEW start \in Nat, NEW offset \in Nat, start <= offset,
           NEW magic \in {BlockMagic, EndMagic}, NEW count, NEW bit
    PROVE  bit \in MarkersIn(magic, count, start, offset) <=>
              /\ bit \in (offset * ByteBits)..(offset * ByteBits + ByteBits - 1)
              /\ StandsAt(magic, bit)
              /\ Parses(bit, count)
<1> DEFINE w == WordAt(offset, MagicBytes + 1)
           byte == w \div Pow2[ByteBits * MagicBytes]
           shifts == Shifts(BlockMagic, byte) \union Shifts(EndMagic, byte)
<1>1. WindowAt(start, offset) = w
  BY WindowIs
<1>2. w \in Nat
  <2>1. MagicBytes + 1 \in Nat
    BY SizesType
  <2> QED BY <2>1, WordRec
<1>3. offset * ByteBits \in Nat /\ magic \in 0..(Pow2[MagicBytes * ByteBits] - 1)
      /\ ByteBits \in Nat
  BY SizesType
<1>4. MarkersIn(magic, count, start, offset) =
         {offset * ByteBits + shift :
            shift \in {s \in shifts : /\ MarkerIn(w, s) = magic
                                      /\ Parses(offset * ByteBits + s, count)}}
  BY <1>1 DEF MarkersIn
<1>5. shifts \subseteq 0..(ByteBits - 1)
  BY DEF Shifts
<1>6. ASSUME NEW s \in 0..(ByteBits - 1), MarkerIn(w, s) = magic PROVE s \in shifts
  BY <1>2, <1>6, PrefixHolds
<1>7. ASSUME NEW s \in 0..(ByteBits - 1)
      PROVE  MarkerIn(w, s) = magic <=> StandsAt(magic, offset * ByteBits + s)
  BY <1>3, MarkerStands
<1> HIDE DEF w, byte, shifts
<1>8. ASSUME bit \in MarkersIn(magic, count, start, offset)
      PROVE  /\ bit \in (offset * ByteBits)..(offset * ByteBits + ByteBits - 1)
             /\ StandsAt(magic, bit)
             /\ Parses(bit, count)
  <2>1. PICK s \in shifts : /\ bit = offset * ByteBits + s
                            /\ MarkerIn(w, s) = magic
                            /\ Parses(offset * ByteBits + s, count)
    BY <1>4, <1>8
  <2>2. s \in 0..(ByteBits - 1)
    BY <1>5
  <2>3. StandsAt(magic, bit) /\ Parses(bit, count)
    BY <1>7, <2>1, <2>2
  <2>4. bit \in (offset * ByteBits)..(offset * ByteBits + ByteBits - 1)
    BY <1>3, <2>1, <2>2
  <2> QED BY <2>3, <2>4
<1>9. ASSUME bit \in (offset * ByteBits)..(offset * ByteBits + ByteBits - 1),
             StandsAt(magic, bit), Parses(bit, count)
      PROVE  bit \in MarkersIn(magic, count, start, offset)
  <2> DEFINE s == bit - offset * ByteBits
  <2>1. s \in 0..(ByteBits - 1) /\ bit = offset * ByteBits + s
    BY <1>3, <1>9
  <2> HIDE DEF s
  <2>2. MarkerIn(w, s) = magic
    BY <1>7, <1>9, <2>1
  <2>3. s \in shifts /\ Parses(offset * ByteBits + s, count)
    BY <1>6, <1>9, <2>1, <2>2
  <2> QED BY <1>4, <2>1, <2>2, <2>3
<1> QED BY <1>8, <1>9

------------------------------------------------------------------------------
(* What passes collect. *)

CollectsNext(S, from, to) ==
    Collected(S, from, to + 1) =
        IF to \in S THEN Append(Collected(S, from, to), to) ELSE Collected(S, from, to)

\* A pass grows by one number at a time.
LEMMA CollectedRec ==
    ASSUME NEW S, NEW from \in Nat
    PROVE  /\ Collected(S, from, from) = <<>>
           /\ \A to \in Nat : from <= to =>
                Collected(S, from, to) \in Seq(Nat) /\ CollectsNext(S, from, to)
<1> DEFINE step == [p \in Nat \X Seq(Nat) |->
                      IF from + p[1] \in S THEN Append(p[2], from + p[1]) ELSE p[2]]
           list == CHOOSE g : g = [n \in Nat |->
                      IF n = 0 THEN <<>>
                      ELSE IF from + n - 1 \in S THEN Append(g[n - 1], from + n - 1)
                      ELSE g[n - 1]]
<1>1. \A n \in Nat : \A a \in Seq(Nat) :
         step[<<n, a>>] = IF from + n \in S THEN Append(a, from + n) ELSE a
  OBVIOUS
<1> HIDE DEF step
<1>2. Steadily(step, Seq(Nat))
  <2>1. \A n \in Nat : \A a \in Seq(Nat) : Append(a, from + n) \in Seq(Nat)
    OBVIOUS
  <2> QED BY <1>1, <2>1 DEF Steadily
<1>3. PICK f : RunsFrom(f, Seq(Nat), <<>>, step)
  <2>1. <<>> \in Seq(Nat)
    OBVIOUS
  <2> QED BY <1>2, <2>1, RecursionExists
<1>4. f = [n \in Nat |-> IF n = 0 THEN <<>>
                         ELSE IF from + n - 1 \in S THEN Append(f[n - 1], from + n - 1)
                         ELSE f[n - 1]]
  <2>1. ASSUME NEW n \in Nat, n # 0
        PROVE  f[n] = IF from + n - 1 \in S THEN Append(f[n - 1], from + n - 1) ELSE f[n - 1]
    <3>1. n - 1 \in Nat /\ f[n - 1] \in Seq(Nat) /\ from + (n - 1) = from + n - 1
      BY <1>3, <2>1 DEF RunsFrom
    <3> QED BY <1>1, <1>3, <2>1, <3>1 DEF RunsFrom
  <2> QED BY <1>3, <2>1 DEF RunsFrom
<1>5. list = [n \in Nat |-> IF n = 0 THEN <<>>
                         ELSE IF from + n - 1 \in S THEN Append(list[n - 1], from + n - 1)
                         ELSE list[n - 1]]
  BY <1>4
<1>6. \A to : Collected(S, from, to) = list[to - from]
  BY DEF Collected
<1> HIDE DEF list
<1>7. list[0] = <<>> /\ \A n \in Nat :
         list[n + 1] = IF from + n \in S THEN Append(list[n], from + n) ELSE list[n]
  <2>1. ASSUME NEW n \in Nat
        PROVE  list[n + 1] = IF from + n \in S THEN Append(list[n], from + n) ELSE list[n]
    <3>1. n + 1 \in Nat /\ n + 1 # 0 /\ (n + 1) - 1 = n /\ from + (n + 1) - 1 = from + n
      OBVIOUS
    <3> QED BY <1>5, <3>1
  <2> QED BY <1>5, <2>1
<1>8. \A n \in Nat : list[n] \in Seq(Nat)
  <2>1. ASSUME NEW n \in Nat, list[n] \in Seq(Nat) PROVE list[n + 1] \in Seq(Nat)
    <3>1. from + n \in Nat
      OBVIOUS
    <3>2. Append(list[n], from + n) \in Seq(Nat)
      BY <2>1, <3>1
    <3> QED BY <1>7, <2>1, <3>2
  <2>2. list[0] \in Seq(Nat)
    BY <1>7
  <2> QED BY <2>1, <2>2, AllValues
<1>9. ASSUME NEW to \in Nat, from <= to
      PROVE  Collected(S, from, to) \in Seq(Nat) /\ CollectsNext(S, from, to)
  <2> DEFINE n == to - from
  <2>1. n \in Nat /\ from + n = to /\ (to + 1) - from = n + 1
    BY <1>9
  <2> HIDE DEF n
  <2>2. Collected(S, from, to) = list[n] /\ Collected(S, from, to + 1) = list[n + 1]
    BY <1>6, <2>1 DEF n
  <2>3. list[n + 1] = IF from + n \in S THEN Append(list[n], from + n) ELSE list[n]
    BY <1>7, <2>1
  <2>4. list[n] \in Seq(Nat)
    BY <1>8, <2>1
  <2>5. CollectsNext(S, from, to)
    BY <2>1, <2>2, <2>3 DEF CollectsNext
  <2> QED BY <2>2, <2>4, <2>5
<1>10. Collected(S, from, from) = <<>>
  <2>1. from - from = 0 /\ list[0] = <<>>
    BY <1>7
  <2>2. Collected(S, from, from) = list[from - from]
    BY <1>6
  <2> QED BY <2>1, <2>2
<1> QED BY <1>9, <1>10

\* A pass sees of a set what is in its range.
LEMMA CollectedAgree ==
    ASSUME NEW S, NEW T, NEW from \in Nat, NEW to \in Nat, from <= to,
           \A b \in from..(to - 1) : b \in S <=> b \in T
    PROVE  Collected(S, from, to) = Collected(T, from, to)
<1> DEFINE Good == {k \in Nat : Collected(S, from, from + k) = Collected(T, from, from + k)}
<1>1. 0 \in Good
  BY CollectedRec
<1>2. ASSUME NEW k \in 1..(to - from), k - 1 \in Good PROVE k \in Good
  <2> DEFINE m == from + (k - 1)
  <2>1. k \in Nat /\ m \in from..(to - 1) /\ m \in Nat /\ from <= m /\ m + 1 = from + k
    OBVIOUS
  <2>2. Collected(S, from, m) = Collected(T, from, m)
    BY <1>2
  <2> HIDE DEF m
  <2>3. CollectsNext(S, from, m) /\ CollectsNext(T, from, m)
    BY <2>1, CollectedRec
  <2>4. m \in S <=> m \in T
    BY <2>1
  <2>5. Collected(S, from, m + 1) = Collected(T, from, m + 1)
    BY <2>2, <2>3, <2>4 DEF CollectsNext
  <2> QED BY <2>1, <2>5
<1> HIDE DEF Good
<1>3. to - from \in Nat /\ from + (to - from) = to
  OBVIOUS
<1>4. to - from \in Good
  <2> DEFINE n == to - from
  <2>1. n \in Nat
    BY <1>3
  <2>2. \A k \in 1..n : k - 1 \in Good => k \in Good
    BY <1>2
  <2> HIDE DEF n
  <2>3. n \in Good
    BY <1>1, <2>1, <2>2, Climb
  <2> QED BY <2>3 DEF n
<1> QED BY <1>3, <1>4 DEF Good

\* Two passes, one from where the other ended, collect what one pass does.
LEMMA CollectedJoin ==
    ASSUME NEW S, NEW from \in Nat, NEW mid \in Nat, NEW to \in Nat, from <= mid, mid <= to
    PROVE  Collected(S, from, mid) \o Collected(S, mid, to) = Collected(S, from, to)
<1> DEFINE Good == {k \in Nat : Collected(S, from, mid) \o Collected(S, mid, mid + k)
                                   = Collected(S, from, mid + k)}
           left == Collected(S, from, mid)
<1>0. left \in Seq(Nat)
  BY CollectedRec
<1>1. 0 \in Good
  <2>1. Collected(S, mid, mid + 0) = <<>> /\ mid + 0 = mid
    BY CollectedRec
  <2>2. left \o <<>> = left
    <3> HIDE DEF left
    <3> QED BY <1>0
  <2> QED BY <2>1, <2>2
<1>2. ASSUME NEW k \in 1..(to - mid), k - 1 \in Good PROVE k \in Good
  <2> DEFINE m == mid + (k - 1)
             right == Collected(S, mid, m)
  <2>1. k \in Nat /\ m \in Nat /\ from <= m /\ mid <= m /\ m + 1 = mid + k
    OBVIOUS
  <2>2. left \o right = Collected(S, from, m)
    BY <1>2
  <2> HIDE DEF m
  <2>3. right \in Seq(Nat)
    BY <2>1, CollectedRec
  <2>4. /\ Collected(S, mid, m + 1) = IF m \in S THEN Append(right, m) ELSE right
        /\ Collected(S, from, m + 1) =
              IF m \in S THEN Append(Collected(S, from, m), m) ELSE Collected(S, from, m)
    <3>1. CollectsNext(S, mid, m) /\ CollectsNext(S, from, m)
      BY <2>1, CollectedRec
    <3> QED BY <3>1 DEF CollectsNext
  <2> HIDE DEF left, right
  <2>5. left \o Append(right, m) = Append(left \o right, m)
    BY <1>0, <2>1, <2>3
  <2>6. left \o Collected(S, mid, m + 1) = Collected(S, from, m + 1)
    BY <2>2, <2>4, <2>5
  <2> QED BY <2>1, <2>6 DEF left
<1> HIDE DEF Good
<1>3. to - mid \in Nat /\ mid + (to - mid) = to
  OBVIOUS
<1>4. to - mid \in Good
  <2> DEFINE n == to - mid
  <2>1. n \in Nat
    BY <1>3
  <2>2. \A k \in 1..n : k - 1 \in Good => k \in Good
    BY <1>2
  <2> HIDE DEF n
  <2>3. n \in Good
    BY <1>1, <2>1, <2>2, Climb
  <2> QED BY <2>3 DEF n
<1> QED BY <1>3, <1>4 DEF Good

\* A pass that meets nothing collects nothing.
LEMMA CollectedNone ==
    ASSUME NEW S, NEW from \in Nat, NEW to \in Nat, from <= to,
           \A b \in from..(to - 1) : b \notin S
    PROVE  Collected(S, from, to) = <<>>
<1> DEFINE Good == {k \in Nat : Collected(S, from, from + k) = <<>>}
<1>1. 0 \in Good
  BY CollectedRec
<1>2. ASSUME NEW k \in 1..(to - from), k - 1 \in Good PROVE k \in Good
  <2> DEFINE m == from + (k - 1)
  <2>1. k \in Nat /\ m \in from..(to - 1) /\ m \in Nat /\ from <= m /\ m + 1 = from + k
    OBVIOUS
  <2>2. Collected(S, from, m) = <<>>
    BY <1>2
  <2> HIDE DEF m
  <2>3. CollectsNext(S, from, m) /\ m \notin S
    BY <2>1, CollectedRec
  <2>4. Collected(S, from, m + 1) = <<>>
    BY <2>2, <2>3 DEF CollectsNext
  <2> QED BY <2>1, <2>4
<1> HIDE DEF Good
<1>3. to - from \in Nat /\ from + (to - from) = to
  OBVIOUS
<1>4. to - from \in Good
  <2> DEFINE n == to - from
  <2>1. n \in Nat
    BY <1>3
  <2>2. \A k \in 1..n : k - 1 \in Good => k \in Good
    BY <1>2
  <2> HIDE DEF n
  <2>3. n \in Good
    BY <1>1, <2>1, <2>2, Climb
  <2> QED BY <2>3 DEF n
<1> QED BY <1>3, <1>4 DEF Good

------------------------------------------------------------------------------
(* What a range is scanned to. *)

HeaderSet == {offset \in 0..(Len(data) - 1) : IsHeader(offset)}
PlaceSet(magic, count) ==
    {bit \in 0..(Len(data) * ByteBits - 1) : StandsAt(magic, bit) /\ Parses(bit, count)}
BlockPlaces(from, to) ==
    Collected(PlaceSet(BlockMagic, BlockBits), from * ByteBits, to * ByteBits)
EndPlaces(from, to) ==
    Collected(PlaceSet(EndMagic, ChecksumBits), from * ByteBits, to * ByteBits)
Listed(from, to) ==
    [streams |-> Collected(HeaderSet, from, to),
     blocks |-> BlockPlaces(from, to),
     ends |-> EndPlaces(from, to)]

\* Data has a length.
LEMMA DataLength == ScanData => Len(data) \in Nat
BY DEF ScanData

\* A range collects the places inside it, whatever its borders cut.
LEMMA RangeMarkers ==
    ASSUME ScanData, NEW magic \in {BlockMagic, EndMagic}, NEW count \in Nat \ {0},
           NEW from \in Nat, NEW to \in Nat, from <= to, to <= Len(data)
    PROVE  /\ AllMarkers(magic, count, from, to)
                = Collected(PlaceSet(magic, count), from * ByteBits, to * ByteBits)
           /\ Len(data) <= MagicBytes =>
                Collected(PlaceSet(magic, count), from * ByteBits, to * ByteBits) = <<>>
<1>1. /\ from * ByteBits \in Nat /\ to * ByteBits \in Nat
      /\ from * ByteBits <= to * ByteBits
      /\ to * ByteBits <= Len(data) * ByteBits
      /\ Len(data) \in Nat
  BY SizesType, DataLength
<1> DEFINE F == UNION {MarkersIn(magic, count, from, offset) : offset \in from..(to - 1)}
<1>2. ASSUME NEW bit \in (from * ByteBits)..(to * ByteBits - 1)
      PROVE  bit \in F <=> bit \in PlaceSet(magic, count)
  <2>1. bit \in 0..(Len(data) * ByteBits - 1) /\ bit \in Nat
    <3> DEFINE a == from * ByteBits
               b == to * ByteBits
               c == Len(data) * ByteBits
    <3>1. a \in Nat /\ b \in Nat /\ b <= c /\ bit \in a..(b - 1)
      BY <1>1
    <3>2. c \in Nat
      BY <1>1, SizesType
    <3> HIDE DEF a, b, c
    <3>3. bit \in 0..(c - 1) /\ bit \in Nat
      BY <3>1, <3>2
    <3> QED BY <3>3 DEF c
  <2>2. ASSUME bit \in F PROVE bit \in PlaceSet(magic, count)
    <3>1. PICK offset \in from..(to - 1) : bit \in MarkersIn(magic, count, from, offset)
      BY <2>2
    <3>2. offset \in Nat /\ from <= offset
      OBVIOUS
    <3>3. StandsAt(magic, bit) /\ Parses(bit, count)
      BY <3>1, <3>2, MarkersInAre
    <3> QED BY <2>1, <3>3 DEF PlaceSet
  <2>3. ASSUME bit \in PlaceSet(magic, count) PROVE bit \in F
    <3> DEFINE offset == bit \div ByteBits
               r == bit % ByteBits
    <3>1. offset \in Nat /\ r \in Nat /\ r < ByteBits /\ bit = offset * ByteBits + r
      BY <2>1, SizesType, Division
    <3> HIDE DEF offset, r
    <3>2. from <= offset
      <4>1. SUFFICES ASSUME offset < from PROVE FALSE
        BY <3>1
      <4>2. offset * ByteBits + ByteBits <= from * ByteBits
        BY <3>1, <4>1, SizesType
      <4> QED BY <1>1, <3>1, <4>2, SizesType
    <3>3. offset < to
      <4>1. SUFFICES ASSUME to <= offset PROVE FALSE
        BY <3>1
      <4>2. to * ByteBits <= offset * ByteBits
        BY <3>1, <4>1, SizesType
      <4> QED BY <1>1, <3>1, <4>2, SizesType
    <3>4. bit \in (offset * ByteBits)..(offset * ByteBits + ByteBits - 1)
      BY <3>1, SizesType
    <3>5. StandsAt(magic, bit) /\ Parses(bit, count)
      BY <2>3 DEF PlaceSet
    <3>6. bit \in MarkersIn(magic, count, from, offset)
      BY <3>1, <3>2, <3>4, <3>5, MarkersInAre
    <3>7. offset \in from..(to - 1)
      BY <3>1, <3>2, <3>3
    <3> QED BY <3>6, <3>7
  <2> QED BY <2>2, <2>3
<1> HIDE DEF F
<1>3. AllMarkers(magic, count, from, to)
         = Collected(PlaceSet(magic, count), from * ByteBits, to * ByteBits)
  <2>1. AllMarkers(magic, count, from, to) = Collected(F, from * ByteBits, to * ByteBits)
    BY DEF AllMarkers, F
  <2> DEFINE a == from * ByteBits
             b == to * ByteBits
             P == PlaceSet(magic, count)
  <2>2. a \in Nat /\ b \in Nat /\ a <= b /\ \A bit \in a..(b - 1) : bit \in F <=> bit \in P
    BY <1>1, <1>2
  <2> HIDE DEF a, b, P
  <2>3. Collected(F, a, b) = Collected(P, a, b)
    BY <2>2, CollectedAgree
  <2> QED BY <2>1, <2>3 DEF a, b, P
<1>4. ASSUME Len(data) <= MagicBytes
      PROVE  Collected(PlaceSet(magic, count), from * ByteBits, to * ByteBits) = <<>>
  <2>1. ASSUME NEW bit \in PlaceSet(magic, count) PROVE FALSE
    <3>1. bit \in Nat /\ bit + MagicBytes * ByteBits + count <= Len(data) * ByteBits
      BY <1>1 DEF PlaceSet, Parses
    <3>2. Len(data) * ByteBits <= MagicBytes * ByteBits
          /\ MagicBytes * ByteBits \in Nat /\ Len(data) * ByteBits \in Nat
      BY <1>1, <1>4, SizesType
    <3> DEFINE x == MagicBytes * ByteBits
               y == Len(data) * ByteBits
    <3>3. x \in Nat /\ y \in Nat /\ y <= x /\ bit + x + count <= y
      BY <3>1, <3>2
    <3> HIDE DEF x, y
    <3> QED BY <3>1, <3>3
  <2> QED BY <1>1, <2>1, CollectedNone
<1> QED BY <1>3, <1>4

\* scan_range lists its range.
LEMMA RangeListed ==
    ASSUME ScanData, NEW from \in Nat, NEW to \in Nat, from <= to, to <= Len(data)
    PROVE  ScanRange(from, to) = Listed(from, to)
<1>1. Headers(from, to) = Collected(HeaderSet, from, to)
  <2> DEFINE H == {offset \in from..(to - 1) : IsHeader(offset)}
  <2>1. \A b \in from..(to - 1) : b \in H <=> b \in HeaderSet
    BY DataLength DEF HeaderSet
  <2>2. Headers(from, to) = Collected(H, from, to)
    BY DEF Headers
  <2> HIDE DEF H
  <2> QED BY <2>1, <2>2, CollectedAgree
<1>2. /\ AllMarkers(BlockMagic, BlockBits, from, to) = BlockPlaces(from, to)
      /\ Len(data) <= MagicBytes => BlockPlaces(from, to) = <<>>
  BY SizesType, RangeMarkers DEF BlockPlaces
<1>3. /\ AllMarkers(EndMagic, ChecksumBits, from, to) = EndPlaces(from, to)
      /\ Len(data) <= MagicBytes => EndPlaces(from, to) = <<>>
  BY SizesType, RangeMarkers DEF EndPlaces
<1> QED BY <1>1, <1>2, <1>3 DEF ScanRange, Listed

\* The places of two neighbours are the places of both.
Joins(S, from, mid, to) == Collected(S, from, mid) \o Collected(S, mid, to) = Collected(S, from, to)

\* CollectedJoin, in a form the provers instantiate.
LEMMA CollectedJoins ==
    ASSUME NEW S, NEW from \in Nat, NEW mid \in Nat, NEW to \in Nat, from <= mid, mid <= to
    PROVE  Joins(S, from, mid, to)
BY CollectedJoin DEF Joins

\* Appending the lists of neighbours lists both.
LEMMA ListedJoin ==
    ASSUME ScanData, NEW from \in Nat, NEW mid \in Nat, NEW to \in Nat,
           from <= mid, mid <= to
    PROVE  Appended(Listed(from, mid), Listed(mid, to)) = Listed(from, to)
<1>1. /\ from * ByteBits \in Nat /\ mid * ByteBits \in Nat /\ to * ByteBits \in Nat
      /\ from * ByteBits <= mid * ByteBits /\ mid * ByteBits <= to * ByteBits
  BY SizesType
<1>2. Collected(HeaderSet, from, mid) \o Collected(HeaderSet, mid, to)
         = Collected(HeaderSet, from, to)
  BY CollectedJoin
<1> DEFINE f == from * ByteBits
           m == mid * ByteBits
           t == to * ByteBits
<1> DEFINE B == PlaceSet(BlockMagic, BlockBits)
           E == PlaceSet(EndMagic, ChecksumBits)
<1>3. Joins(B, f, m, t) /\ Joins(E, f, m, t)
  <2>1. f \in Nat /\ m \in Nat /\ t \in Nat /\ f <= m /\ m <= t
    BY <1>1
  <2> HIDE DEF f, m, t, B, E
  <2> QED BY <2>1, CollectedJoins
<1>5. BlockPlaces(from, mid) \o BlockPlaces(mid, to) = BlockPlaces(from, to)
  BY <1>3, Zenon DEF BlockPlaces, Joins
<1>6. EndPlaces(from, mid) \o EndPlaces(mid, to) = EndPlaces(from, to)
  BY <1>3, Zenon DEF EndPlaces, Joins
<1> QED BY <1>2, <1>5, <1>6 DEF Appended, Listed

------------------------------------------------------------------------------
(* The scan. *)

\* The waves behind it have listed the data up to here.
Reached == SmallerOf(first * ScanChunk, Len(data))
ScanInv ==
    /\ data \in ScanInputs
    /\ first \in Nat
    /\ scanned = "no" => result = Listed(0, Reached)
    /\ SeamlessScan

\* The inputs are bytes.
LEMMA ScanDataOf == data \in ScanInputs => ScanData
BY ScanAssumption DEF ScanData, ByteSize

ListsAll == scanned = "ok" => result = Listed(0, Len(data))

\* SeamlessScan says that the whole data is listed.
LEMMA SeamlessIs == SeamlessScan <=> ListsAll
<1>1. Headers(0, Len(data)) = Collected(HeaderSet, 0, Len(data))
  BY DEF Headers, HeaderSet
<1>2. 0 * ByteBits = 0
  BY SizesType
<1>3. Places(BlockMagic, BlockBits) = BlockPlaces(0, Len(data))
      /\ Places(EndMagic, ChecksumBits) = EndPlaces(0, Len(data))
  BY <1>2 DEF Places, BlockPlaces, EndPlaces, PlaceSet
<1> QED BY <1>1, <1>3 DEF SeamlessScan, Listed, ListsAll

\* Which chunks begin inside the data.
LEMMA ChunkBounds ==
    ASSUME ScanData, NEW c \in Nat
    PROVE  /\ Chunks \in Nat
           /\ c < Chunks => c * ScanChunk < Len(data)
           /\ c >= Chunks => c * ScanChunk >= Len(data)
<1> DEFINE K == ScanChunk
           n == Len(data)
           x == n + K - 1
           q == x \div K
           r == x % K
<1>1. K \in Nat \ {0} /\ n \in Nat /\ x \in Nat
  BY SizesType, DataLength
<1>2. q \in Nat /\ r \in Nat /\ r < K /\ x = q * K + r
  <2> HIDE DEF x, K
  <2> QED BY <1>1, Division
<1>3. Chunks = q
  BY DEF Chunks
<1> HIDE DEF q, r
<1>4. ASSUME c < q PROVE c * K < n
  <2>1. c * K + K <= q * K
    BY <1>1, <1>2, <1>4
  <2> DEFINE a == c * K
             b == q * K
  <2>2. a + K <= b /\ a \in Nat /\ b \in Nat /\ n + K - 1 = b + r
    BY <1>1, <1>2, <2>1
  <2> HIDE DEF a, b, n, K
  <2>3. a < n
    BY <1>1, <1>2, <2>2
  <2> QED BY <2>3 DEF a
<1>5. ASSUME c >= q PROVE c * K >= n
  <2>1. q * K <= c * K
    BY <1>1, <1>2, <1>5
  <2> DEFINE a == c * K
             b == q * K
  <2>2. b <= a /\ a \in Nat /\ b \in Nat /\ n + K - 1 = b + r
    BY <1>1, <1>2, <2>1
  <2> HIDE DEF a, b, n, K
  <2>3. a >= n
    BY <1>1, <1>2, <2>2
  <2> QED BY <2>3 DEF a
<1> QED BY <1>2, <1>3, <1>4, <1>5

\* The next chunk continues the list.
LEMMA NextChunk ==
    ASSUME ScanData, NEW c \in Nat, c < Chunks
    PROVE  /\ SmallerOf(c * ScanChunk, Len(data)) = c * ScanChunk
           /\ SmallerOf((c + 1) * ScanChunk, Len(data)) \in Nat
           /\ Appended(Listed(0, c * ScanChunk), ScanOf(c))
                = Listed(0, SmallerOf((c + 1) * ScanChunk, Len(data)))
<1> DEFINE u == c * ScanChunk
           v == SmallerOf((c + 1) * ScanChunk, Len(data))
<1>1. u \in Nat /\ u < Len(data) /\ Len(data) \in Nat
  BY SizesType, DataLength, ChunkBounds
<1>2. (c + 1) * ScanChunk \in Nat /\ u <= (c + 1) * ScanChunk
  BY SizesType
<1>3. v \in Nat /\ u <= v /\ v <= Len(data)
  <2> DEFINE w == (c + 1) * ScanChunk
  <2>1. w \in Nat /\ u <= w /\ v = SmallerOf(w, Len(data))
    BY <1>2
  <2> HIDE DEF w, v, u
  <2> QED BY <1>1, <2>1 DEF SmallerOf
<1>4. ScanOf(c) = ScanRange(u, v)
  BY DEF ScanOf
<1>5. SmallerOf(u, Len(data)) = u
  <2> HIDE DEF u
  <2> QED BY <1>1 DEF SmallerOf
<1> HIDE DEF u, v
<1>6. ScanRange(u, v) = Listed(u, v)
  BY <1>1, <1>3, RangeListed
<1>7. Appended(Listed(0, u), Listed(u, v)) = Listed(0, v)
  BY <1>1, <1>3, ListedJoin
<1> QED BY <1>3, <1>4, <1>5, <1>6, <1>7 DEF u, v

\* What a wave appends to what is listed up to its first chunk.
LEMMA WaveLists ==
    ASSUME ScanData, first \in Nat, first < Chunks, Pool > 0,
           result = Listed(0, Reached)
    PROVE  AfterWave = Listed(0, SmallerOf((first + Pool) * ScanChunk, Len(data)))
<1> DEFINE size == WaveEnd - first
           To(c) == SmallerOf(c * ScanChunk, Len(data))
           Form(g) == g = [n \in 0..size |->
                         IF n = 0 THEN result
                         ELSE Appended(g[n - 1], ScanOf(first + n - 1))]
           after == CHOOSE g : Form(g)
<1>1. size \in Nat /\ first + size = WaveEnd /\ WaveEnd \in Nat /\ WaveEnd <= Chunks
      /\ (WaveEnd = first + Pool \/ (WaveEnd = Chunks /\ Chunks <= first + Pool))
      /\ Chunks \in Nat
  <2>1. Chunks \in Nat
    BY ChunkBounds
  <2> HIDE DEF after
  <2> QED BY <2>1, SizesType DEF WaveEnd, SmallerOf
<1>2. AfterWave = after[size]
  BY DEF AfterWave
<1> HIDE DEF size
<1>3. \A n \in 0..size : n # 0 =>
         Appended(Listed(0, To(first + (n - 1))), ScanOf(first + n - 1)) = Listed(0, To(first + n))
  <2>1. ASSUME NEW n \in 0..size, n # 0
        PROVE  Appended(Listed(0, To(first + (n - 1))), ScanOf(first + n - 1))
                  = Listed(0, To(first + n))
    <3> DEFINE c == first + (n - 1)
    <3>1. c \in Nat /\ c < Chunks /\ first + n - 1 = c /\ first + n = c + 1
      BY <1>1, <2>1
    <3> HIDE DEF c
    <3>2. To(c) = c * ScanChunk
      BY <3>1, NextChunk
    <3>3. Appended(Listed(0, c * ScanChunk), ScanOf(c)) = Listed(0, To(c + 1))
      BY <3>1, NextChunk
    <3> HIDE DEF To
    <3> QED BY <3>1, <3>2, <3>3 DEF c
  <2> QED BY <2>1
<1>4. result = Listed(0, To(first))
  BY DEF Reached
<1> HIDE DEF To
<1> DEFINE f == [n \in 0..size |-> Listed(0, To(first + n))]
<1>5. Form(f)
  <2>1. ASSUME NEW n \in 0..size
        PROVE  f[n] = IF n = 0 THEN result ELSE Appended(f[n - 1], ScanOf(first + n - 1))
    <3>1. CASE n = 0
      <4>1. first + n = first
        BY <3>1
      <4> QED BY <1>4, <3>1, <4>1
    <3>2. CASE n # 0
      <4>1. n - 1 \in 0..size
        BY <1>1, <3>2
      <4>2. f[n - 1] = Listed(0, To(first + (n - 1))) /\ f[n] = Listed(0, To(first + n))
        BY <4>1
      <4> QED BY <1>3, <3>2, <4>2
    <3> QED BY <3>1, <3>2
  <2> QED BY <2>1
<1>6. Form(after)
  BY <1>5
<1> HIDE DEF after, f
<1>7. after[size] = Listed(0, To(first + size))
  <2> DEFINE Good == {n \in Nat : after[n] = Listed(0, To(first + n))}
  <2>1. 0 \in Good
    <3>1. after[0] = result
      BY <1>1, <1>6
    <3> QED BY <1>4, <3>1
  <2>2. ASSUME NEW n \in 1..size, n - 1 \in Good PROVE n \in Good
    <3>1. after[n] = Appended(after[n - 1], ScanOf(first + n - 1))
      <4>1. n \in 0..size /\ n # 0
        BY <1>1
      <4> HIDE DEF Good
      <4> QED BY <1>6, <4>1
    <3>2. after[n - 1] = Listed(0, To(first + (n - 1)))
      BY <2>2
    <3>3. Appended(Listed(0, To(first + (n - 1))), ScanOf(first + n - 1))
             = Listed(0, To(first + n))
      BY <1>3
    <3> QED BY <3>1, <3>2, <3>3
  <2> HIDE DEF Good
  <2>3. size \in Good
    BY <1>1, <2>1, <2>2, Climb
  <2> QED BY <2>3 DEF Good
<1>8. To(first + size) = To(first + Pool)
  <2>1. CASE WaveEnd = first + Pool
    BY <1>1, <2>1
  <2>2. CASE WaveEnd = Chunks /\ Chunks <= first + Pool
    <3> DEFINE d == first + Pool
    <3>1. d \in Nat /\ Chunks <= d /\ Chunks \in Nat
      BY <1>1, <2>2, SizesType
    <3> HIDE DEF d
    <3>2. d * ScanChunk >= Len(data) /\ Chunks * ScanChunk >= Len(data)
      BY <3>1, ChunkBounds
    <3>3. Len(data) \in Nat /\ d * ScanChunk \in Nat /\ Chunks * ScanChunk \in Nat
      BY <3>1, DataLength, SizesType
    <3>4. To(d) = Len(data) /\ To(Chunks) = Len(data)
      <4> DEFINE x == d * ScanChunk
                 y == Chunks * ScanChunk
      <4>1. x \in Nat /\ y \in Nat /\ x >= Len(data) /\ y >= Len(data)
            /\ To(d) = SmallerOf(x, Len(data)) /\ To(Chunks) = SmallerOf(y, Len(data))
        BY <3>2, <3>3 DEF To
      <4> HIDE DEF x, y
      <4> QED BY <3>3, <4>1 DEF SmallerOf
    <3> QED BY <1>1, <2>2, <3>4 DEF d
  <2> QED BY <1>1, <2>1, <2>2
<1> QED BY <1>2, <1>7, <1>8 DEF To

\* Nothing is listed to begin with.
LEMMA ScanInit1 == ScanInit => ScanInv
<1> SUFFICES ASSUME ScanInit PROVE ScanInv
  OBVIOUS
<1> USE DEF ScanInit
<1>1. ScanData /\ Len(data) \in Nat
  BY ScanDataOf, DataLength
<1>2. Reached = 0
  <2>1. 0 * ScanChunk = 0
    BY SizesType
  <2> QED BY <1>1, <2>1 DEF Reached, SmallerOf
<1>3. Listed(0, 0) = Nothing
  <2>1. Collected(HeaderSet, 0, 0) = <<>>
    BY CollectedRec
  <2>2. 0 * ByteBits = 0
    BY SizesType
  <2>3. BlockPlaces(0, 0) = <<>> /\ EndPlaces(0, 0) = <<>>
    BY <2>2, CollectedRec DEF BlockPlaces, EndPlaces
  <2> QED BY <2>1, <2>3 DEF Listed, Nothing
<1> QED BY <1>2, <1>3 DEF ScanInv, SeamlessScan

\* The listing is one of the data alone.
LEMMA ListedUnchanged ==
    ASSUME data' = data, NEW from, NEW to
    PROVE  Listed(from, to)' = Listed(from, to)
<1>1. \A offset : ByteAt(offset)' = ByteAt(offset)
  BY DEF ByteAt
<1>2. \A offset : IsHeader(offset)' <=> IsHeader(offset)
  BY <1>1 DEF IsHeader
<1>3. HeaderSet' = HeaderSet
  BY <1>2 DEF HeaderSet
<1>4. \A bit : BitAt(bit)' = BitAt(bit)
  BY <1>1 DEF BitAt
<1>5. \A magic, bit : StandsAt(magic, bit)' <=> StandsAt(magic, bit)
  BY <1>4 DEF StandsAt
<1>6. \A bit, count : Parses(bit, count)' <=> Parses(bit, count)
  BY DEF Parses
<1>7. \A magic, count : PlaceSet(magic, count)' = PlaceSet(magic, count)
  BY <1>5, <1>6 DEF PlaceSet
<1>8. BlockPlaces(from, to)' = BlockPlaces(from, to) /\ EndPlaces(from, to)' = EndPlaces(from, to)
  BY <1>7 DEF BlockPlaces, EndPlaces
<1> QED BY <1>3, <1>8 DEF Listed

\* Every step keeps the list complete up to where the waves are.
LEMMA ScanStep == ScanInv /\ [ScanNext]_markerScan => ScanInv'
<1> SUFFICES ASSUME ScanInv, [ScanNext]_markerScan PROVE ScanInv'
  OBVIOUS
<1>1. /\ data \in ScanInputs /\ first \in Nat /\ ScanData /\ Len(data) \in Nat
      /\ scanned = "no" => result = Listed(0, Reached)
      /\ scanned = "ok" => result = Listed(0, Len(data))
  BY ScanDataOf, DataLength, SeamlessIs DEF ScanInv, ListsAll
<1>2. data' = data
  BY DEF ScanNext, RefuseHeader, ScanCancelled, ScanWhole, ScanWave, ScanEnds, markerScan
<1>3. \A from, to : Listed(from, to)' = Listed(from, to)
  BY <1>2, ListedUnchanged
<1>4. SeamlessScan' <=> (scanned' = "ok" => result' = Listed(0, Len(data)))
  <2>1. SeamlessScan' <=> (scanned' = "ok" => result' = Listed(0, Len(data))')
    <3>1. SeamlessScan' <=> ListsAll'
      BY SeamlessIs, PTL
    <3> QED BY <3>1 DEF ListsAll
  <2> QED BY <1>2, <1>3, <2>1
<1>5. Reached' = SmallerOf(first' * ScanChunk, Len(data))
  BY <1>2 DEF Reached, SmallerOf
<1>6. ASSUME first' \in Nat,
             scanned' = "no" => result' = Listed(0, SmallerOf(first' * ScanChunk, Len(data))),
             scanned' = "ok" => result' = Listed(0, Len(data))
      PROVE  ScanInv'
  BY <1>1, <1>2, <1>3, <1>4, <1>5, <1>6 DEF ScanInv
<1>7. CASE RefuseHeader
  BY <1>1, <1>6, <1>7 DEF RefuseHeader
<1>8. CASE ScanCancelled
  BY <1>1, <1>6, <1>8 DEF ScanCancelled
<1>9. CASE ScanWhole
  <2>1. ScanRange(0, Len(data)) = Listed(0, Len(data))
    BY <1>1, RangeListed
  <2> QED BY <1>1, <1>6, <1>9, <2>1 DEF ScanWhole
<1>10. CASE ScanWave
  <2>1. AfterWave = Listed(0, SmallerOf((first + Pool) * ScanChunk, Len(data)))
    BY <1>1, <1>10, WaveLists DEF ScanWave
  <2>2. first + Pool \in Nat
    BY <1>1, SizesType
  <2> QED BY <1>1, <1>6, <1>10, <2>1, <2>2 DEF ScanWave
<1>11. CASE ScanEnds
  <2>1. first * ScanChunk >= Len(data) /\ first * ScanChunk \in Nat
    BY <1>1, <1>11, ChunkBounds, SizesType DEF ScanEnds
  <2>2. Reached = Len(data)
    <3> DEFINE x == first * ScanChunk
    <3>1. x >= Len(data) /\ x \in Nat /\ Reached = SmallerOf(x, Len(data))
      BY <2>1 DEF Reached
    <3> HIDE DEF x
    <3> QED BY <1>1, <3>1 DEF SmallerOf
  <2> QED BY <1>1, <1>6, <1>11, <2>2 DEF ScanEnds
<1>12. CASE UNCHANGED markerScan
  BY <1>1, <1>6, <1>12 DEF markerScan, Reached
<1> QED BY <1>7, <1>8, <1>9, <1>10, <1>11, <1>12 DEF ScanNext

\* scan_with_pool lists every header and every marker of the data exactly once,
\* in ascending order, whatever borders of bytes, chunks and waves they cross:
\* for bytes, markers and chunks of any size and any number of threads.
THEOREM SeamlessAlways == ScanSpec => []SeamlessScan
<1>1. ScanInv => SeamlessScan
  BY DEF ScanInv
<1> QED BY <1>1, ScanInit1, ScanStep, PTL DEF ScanSpec
==============================================================================
