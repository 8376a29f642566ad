----------------------------- MODULE MarkerChain -----------------------------
(***************************************************************************)
(* What decoding a bzip2 input means: follow the chain of markers that     *)
(* begins at the first stream header, write every block on it, and answer  *)
(* where the chain ends.  A scan for the 48-bit markers also finds bit     *)
(* patterns that only look like one; they are off the chain and must not   *)
(* be seen in the output.                                                  *)
(*                                                                         *)
(* An input is what validation can tell of it: leads[m] is the marker that *)
(* follows marker m (leads[0] the one behind the first header),            *)
(* LastMarker + 1 at the end of the input, and 0 where the chain is        *)
(* broken: no marker at the end of the block, a stream checksum that does  *)
(* not match, a bad header, a truncated input.  `bad` holds the candidates *)
(* that do not decode to a block with the right checksum.                  *)
(***************************************************************************)
EXTENDS Naturals, Sequences

CONSTANTS
    LastMarker,  \* the number of markers, which are numbered by bit offset
    Blocks,      \* the markers that look like a block, the others like an end
    Inputs       \* the inputs considered, see AssemblyAssumption in Bzip2Assembly

Markers == 1..LastMarker

VARIABLES
    input,    \* the input
    at,       \* the marker that comes next
    written,  \* the blocks written to the output, oldest first
    answer    \* "pending" until the call ends, then how it ended

vars == <<input, at, written, answer>>

Init ==
    /\ input \in Inputs
    /\ at = input.leads[0]
    /\ written = <<>>
    /\ answer = "pending"

\* The block is written as soon as it is validated, or only when the marker
\* that ends it has been found, too: see Refuse.
WriteBlock ==
    /\ answer = "pending"
    /\ at \in Blocks \ input.bad
    /\ written' = Append(written, at)
    /\ at' = input.leads[at]
    /\ UNCHANGED <<input, answer>>

PassEnd ==
    /\ answer = "pending"
    /\ at \in Markers \ Blocks
    /\ at' = input.leads[at]
    /\ UNCHANGED <<input, written, answer>>

\* The chain breaks here, or right behind the block that is here.
Refuse ==
    /\ answer = "pending"
    /\ at = 0 \/ at \in input.bad \/ (at \in Blocks /\ input.leads[at] = 0)
    /\ answer' = "data error"
    /\ UNCHANGED <<input, at, written>>

\* The output refuses a block or the flush, its reader is gone, or there are
\* too many markers to follow.
Abort ==
    /\ answer = "pending"
    /\ answer' = "aborted"
    /\ UNCHANGED <<input, at, written>>

Finish ==
    /\ answer = "pending"
    /\ at = LastMarker + 1
    /\ answer' = "ok"
    /\ UNCHANGED <<input, at, written>>

Next ==
    \/ WriteBlock
    \/ PassEnd
    \/ Refuse
    \/ Abort
    \/ Finish

Spec == Init /\ [][Next]_vars
==============================================================================
