----------------------------- MODULE Lz4Encoder ------------------------------
(***************************************************************************)
(* The LZ4 frame encoder of src/lz4_encode.rs over StreamingOrdered.       *)
(*                                                                         *)
(* A byte of the input is its position 1, 2, 3, ...; a block is the        *)
(* sequence of the bytes it was made of, whatever its encoding; the output *)
(* is the sequence of the bytes that the blocks written so far decode to.  *)
(*                                                                         *)
(* The client is any client of std::io::Write: it writes pieces of any     *)
(* length, flushes when it likes, may go on after an error, and ends by    *)
(* finish or by dropping the encoder.                                      *)
(***************************************************************************)
EXTENDS StreamingOrdered

CONSTANTS
    Reservation,  \* reservation(block_size), the same for every block
    BlockSize,    \* block_size
    MaxInput,     \* bound: bytes the client writes
    MaxWrite      \* bound: bytes of one call of write

\* selected_block_size refuses a memory limit below one reservation.
ASSUME EncoderAssumption ==
    /\ Reservation \in Reservations
    /\ Reservation <= MemoryLimit
    /\ BlockSize \in Nat \ {0}
    /\ MaxInput \in Nat
    /\ MaxWrite \in Nat

VARIABLES
    hashed,    \* bytes fed to content_hash: all that write was ever given
    todo,      \* bytes of the current write not yet copied to the buffer
    buffer,    \* Encoder::buffer
    blocks,    \* what every submitted block was made of
    output,    \* what the blocks written to the output decode to
    call,      \* the client's call, the current one or the last one
    stage,     \* where the encoder is in it
    result,    \* how the last call ended
    reported   \* a call has answered an error

frame == <<hashed, todo, buffer, blocks, output>>
control == <<call, stage, result, reported>>
encoder == <<stream, frame, control>>

Bytes1(n) == [i \in 1..n |-> i]

EncoderInit ==
    /\ StreamInit
    /\ hashed = 0
    /\ todo = 0
    /\ buffer = <<>>
    /\ blocks = <<>>
    /\ output = <<>>
    /\ call = "none"
    /\ stage = "idle"
    /\ result = "none"
    /\ reported = FALSE

------------------------------------------------------------------------------
(* The client's calls. *)

\* The content hash takes the whole slice before the loop copies any of it.
CallWrite(n) ==
    /\ stage = "idle"
    /\ hashed + n <= MaxInput
    /\ hashed' = hashed + n
    /\ todo' = n
    /\ call' = "write"
    /\ stage' = "filling"
    /\ UNCHANGED <<stream, buffer, blocks, output, result, reported>>

\* flush and finish both begin with flush_blocks.
CallFlush(name) ==
    /\ stage = "idle"
    /\ call' = name
    /\ stage' = "submitting"
    /\ UNCHANGED <<stream, frame, result, reported>>

\* The client drops the encoder without finishing it.
DropEncoder ==
    /\ stage = "idle"
    /\ Drop
    /\ stage' = "gone"
    /\ UNCHANGED <<frame, call, result, reported>>

\* The current call answers Ok, and the client may call again.
ReturnOk ==
    /\ stage' = "idle"
    /\ result' = "ok"
    /\ UNCHANGED <<call, reported>>

\* `?` leaves the current call.  A failed finish still consumes the encoder.
ReturnError ==
    /\ stage' = IF call = "finish" THEN "closing" ELSE "idle"
    /\ result' = "error"
    /\ reported' = TRUE
    /\ UNCHANGED call

------------------------------------------------------------------------------
(* write *)

\* One turn of the loop: fill the buffer as far as it goes.
Fill ==
    LET used == Len(buffer)
        take == IF todo < BlockSize - used THEN todo ELSE BlockSize - used
    IN
    /\ stage = "filling"
    /\ todo > 0
    /\ buffer' = buffer \o [i \in 1..take |-> hashed - todo + i]
    /\ todo' = todo - take
    /\ stage' = IF used + take = BlockSize THEN "submitting" ELSE "filling"
    /\ UNCHANGED <<stream, hashed, blocks, output, call, result, reported>>

WriteDone ==
    /\ stage = "filling"
    /\ todo = 0
    /\ ReturnOk
    /\ UNCHANGED <<stream, frame>>

------------------------------------------------------------------------------
(* submit_buffer and commit_next *)

\* After submit_buffer, write goes on with its loop and flush_blocks drains.
AfterSubmit == IF call = "write" THEN "filling" ELSE "draining"

NothingBuffered ==
    /\ stage = "submitting"
    /\ buffer = <<>>
    /\ stage' = AfterSubmit
    /\ UNCHANGED <<stream, frame, call, result, reported>>

SubmitBuffer ==
    /\ stage = "submitting"
    /\ buffer # <<>>
    /\ Submit(Reservation)
    /\ blocks' = Append(blocks, buffer)
    /\ buffer' = <<>>
    /\ stage' = AfterSubmit
    /\ UNCHANGED <<hashed, todo, output, call, result, reported>>

\* The loops that commit one result: until there is room, or until none is
\* pending.
MustCommit ==
    \/ stage = "submitting" /\ buffer # <<>> /\ ~CanSubmit(Reservation)
    \/ stage = "draining" /\ HasPending

CommitNext ==
    /\ MustCommit
    /\ CallTakeNext
    /\ UNCHANGED <<frame, control>>

ReceiveResult ==
    /\ Receive
    /\ UNCHANGED <<frame, control>>

\* take_next answers a block, and both writes of it succeed.
WriteBlock ==
    /\ TakeNext
    /\ wanted \notin panicked
    /\ output' = output \o blocks[wanted]
    /\ UNCHANGED <<hashed, todo, buffer, blocks, control>>

\* Mutant of LoseBlock: the error is not returned.
LoseBlockSilently ==
    /\ TakeNext
    /\ UNCHANGED <<frame, control>>

\* take_next answers an error, or the output refuses the block.  The block is
\* taken and will not be written.  The rest of the current write is not
\* copied either.
LoseBlock ==
    /\ TakeNext
    /\ todo' = 0
    /\ ReturnError
    /\ UNCHANGED <<hashed, buffer, blocks, output>>

------------------------------------------------------------------------------
(* The end of flush and finish *)

\* Nothing is pending: flush flushes the output, finish writes the trailer.
Drained ==
    /\ stage = "draining"
    /\ ~HasPending
    /\ IF call = "flush" THEN ReturnOk
       ELSE stage' = "closing" /\ result' = "ok" /\ UNCHANGED <<call, reported>>
    /\ UNCHANGED <<stream, frame>>

\* The output refuses the flush or the trailer.
EndFails ==
    /\ stage = "draining"
    /\ ~HasPending
    /\ ReturnError
    /\ UNCHANGED <<stream, frame>>

\* finish consumes the encoder, whether it answers Ok or an error.
Consume ==
    /\ stage = "closing"
    /\ Drop
    /\ stage' = "gone"
    /\ UNCHANGED <<frame, call, result, reported>>

Inside ==
    \/ Fill
    \/ WriteDone
    \/ NothingBuffered
    \/ SubmitBuffer
    \/ CommitNext
    \/ ReceiveResult
    \/ WriteBlock
    \/ LoseBlock
    \/ Drained
    \/ EndFails
    \/ Consume

Client ==
    \/ \E n \in 0..MaxWrite : CallWrite(n)
    \/ \E name \in {"flush", "finish"} : CallFlush(name)
    \/ DropEncoder

SpawnedJob(k) == Job(k) /\ UNCHANGED <<frame, control>>

EncoderNext ==
    \/ Client
    \/ Inside
    \/ \E k \in Submitted : SpawnedJob(k)

EncoderSpec == EncoderInit /\ [][EncoderNext]_encoder

(* The threads run, and the encoder goes on with the call it is in.  The    *)
(* client is free to stop calling.                                          *)
EncoderFairness ==
    /\ WF_encoder(Inside)
    /\ \A k \in 1..MaxInput : WF_encoder(SpawnedJob(k))

FairEncoderSpec == EncoderSpec /\ EncoderFairness

------------------------------------------------------------------------------
(* Properties. *)

\* Unless a call has answered an error, the blocks written decode to the
\* bytes given, in order, none missing and none twice; and when flush or
\* finish answers Ok, to all of them.
NoSilentLoss ==
    ~reported =>
        /\ output = Bytes1(Len(output))
        /\ (/\ call \in {"flush", "finish"}
            /\ stage \in {"idle", "closing", "gone"}
            /\ result = "ok") => output = Bytes1(hashed)

\* Every call ends, also when jobs panic or the output refuses.
CallsEnd == (stage \notin {"idle", "gone"}) ~> (stage \in {"idle", "gone"})

\* Dropping the encoder, or finishing it, leaves no job behind: queued jobs
\* see the flag, running ones end.
PoolQuiesces == cancelled ~> (queued \cup running = {})
==============================================================================
