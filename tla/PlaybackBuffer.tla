--------------------------- MODULE PlaybackBuffer ---------------------------
(***************************************************************************)
(* The buffer of decoded audio (src/src/Audio/PlaybackBuffer.cpp) and the  *)
(* SongDecoder that fills it (Audio/SongDecoder.cpp, Audio/AVPP.cpp), for  *)
(* one song: a decoder thread writes, the output thread constructs the     *)
(* buffer, waits for data, reads and destroys it, and the main thread      *)
(* seeks.  Positions count units of audio data.                            *)
(*                                                                         *)
(* mMtx protects setDuration(), seekToFrame(), writeDecodedAudio(), read() *)
(* and the check in waitForData(); abort(), decodedEOF() and seekTo() only *)
(* write atomics.  A step is what one of them does between two points      *)
(* where such a write, or a lost wake-up, can come in.                     *)
(***************************************************************************)
EXTENDS Naturals

CONSTANTS
  Durations,    \* the lengths the file's header may announce
  Lengths,      \* the amounts of audio that decoding may really give
  Skips,        \* the songs' skip-start positions, 0 when there is none
  MayFail,      \* whether the file may be impossible to open
  MaxSeeks,     \* bound: how often the user seeks
  Chunk,        \* bound: the largest write and read
  MaxOverrun    \* bound: how far behind the data a read still begins

ASSUME PlaybackBufferAssumption ==
  /\ Durations \subseteq Nat \ {0}
  /\ Lengths \subseteq Nat
  /\ Skips \subseteq Nat
  /\ MayFail \in BOOLEAN
  /\ MaxSeeks \in Nat
  /\ Chunk \in Nat \ {0}
  /\ MaxOverrun \in Nat

VARIABLES
  size,         \* the size of mAudioData, 0 until the duration is set
  limit,        \* mBufferLimit
  writePos,     \* mWritePos
  readPos,      \* mReadPos
  readPosInit,  \* mReadPosInit
  shouldAbort,  \* mShouldAbort
  hasError,     \* mHasError
  length,       \* the audio left to decode
  skip,         \* the song's skip-start
  terminations, \* the permits of the semaphore mTermination
  decPc,        \* where the decoder thread is
  readerPc,     \* where the output thread is
  count,        \* read()'s numBytesToRead
  copied,       \* the end of the data that the last read() copied
  seeks,        \* how often the user has sought
  crossed       \* history: whether the last seek came in the middle of a read()

positions == <<size, limit, writePos, readPos, readPosInit>>
flags == <<shouldAbort, hasError>>
song == <<length, skip>>
reading == <<count, copied, seeks, crossed>>
bufferVars == <<positions, flags, song, terminations, decPc, readerPc, reading>>

DecPcs == {"open", "failed", "aborting", "decode", "eof", "returned", "done"}

ReaderPcs == {"construct", "wait", "checked", "waiting", "playing", "copying", "copied",
           "failed", "destroying", "destroyed"}

BufferTypeOK ==
  /\ {size, readPos, readPosInit, length, skip, terminations, count, copied, seeks} \subseteq Nat
  /\ {limit, writePos} \subseteq 0..size
  /\ {shouldAbort, hasError, crossed} \subseteq BOOLEAN
  /\ decPc \in DecPcs
  /\ readerPc \in ReaderPcs

BufferInit ==
  /\ size = 0
  /\ limit = 0
  /\ writePos = 0
  /\ readPos = 0
  /\ readPosInit = 0
  /\ shouldAbort = FALSE
  /\ hasError = FALSE
  /\ length \in Lengths
  /\ skip \in Skips
  /\ terminations = 0
  /\ decPc = "open"
  /\ readerPc = "construct"
  /\ count = 0
  /\ copied = 0
  /\ seeks = 0
  /\ crossed = FALSE

Least(a, b) == IF a < b THEN a ELSE b

(* The output thread keeps the mutex from its check of the data until it waits. *)
MutexFree == readerPc \notin {"checked", "copying", "copied"}

(* wakeAll() on mCVHasData. *)
WakeOutput == readerPc' = IF readerPc = "waiting" THEN "wait" ELSE readerPc

-----------------------------------------------------------------------------
(* The decoder thread: SongDecoder::decodeInternal(). *)

(* createContext() failed, or there is no resampler for the first frame:   *)
(* abortWithError() sets mHasError ...                                     *)
DecoderFails ==
  /\ \/ decPc = "open"
     \/ decPc = "decode" /\ writePos = 0
  /\ MayFail
  /\ hasError' = TRUE
  /\ decPc' = "failed"
  /\ UNCHANGED <<positions, shouldAbort, song, terminations, readerPc, reading>>

(* ... then mShouldAbort ... *)
FlagAbort ==
  /\ decPc = "failed"
  /\ shouldAbort' = TRUE
  /\ decPc' = "aborting"
  /\ UNCHANGED <<positions, hasError, song, terminations, readerPc, reading>>

(* Mutant: a failed decoder ends without the release of mTermination. *)
WakeWithoutRelease ==
  /\ decPc = "aborting"
  /\ WakeOutput
  /\ decPc' = IF size = 0 THEN "done" ELSE "eof"
  /\ UNCHANGED <<positions, flags, song, terminations, reading>>

(* ... and wakes the output thread, without the mutex. *)
WakeAfterAbort ==
  /\ decPc = "aborting"
  /\ WakeOutput
  /\ decPc' = IF size = 0 THEN "returned" ELSE "eof"
  /\ UNCHANGED <<positions, flags, song, terminations, reading>>

(* routeAudioTo() finds no audio stream, which nobody looks at: decode()    *)
(* then reads the file to its end and gives no audio.  (In a build with    *)
(* assertions the program ends there; it ends too, in any build, if the    *)
(* stream is there and its codec cannot be opened: a null context is used.)*)
RouteFails ==
  /\ decPc = "open"
  /\ MayFail
  /\ decPc' = "eof"
  /\ UNCHANGED <<positions, flags, song, terminations, readerPc, reading>>

(* Mutant: the position stored by an early seekToFrame() is not looked at. *)
SetDurationOnly(d) ==
  /\ decPc = "open"
  /\ MutexFree
  /\ size' = d
  /\ limit' = d
  /\ decPc' = "decode"
  /\ UNCHANGED <<writePos, readPos, readPosInit, flags, song, terminations, readerPc, reading>>

(* routeAudioTo() finds the stream and opens its codec: setDuration(). *)
SetDuration(d) ==
  /\ decPc = "open"
  /\ MutexFree
  /\ size' = d
  /\ limit' = d
  /\ readPos' = Least(readPosInit, d)
  /\ decPc' = "decode"
  /\ UNCHANGED <<writePos, readPosInit, flags, song, terminations, readerPc, reading>>

(* decode(): a frame goes through writeDecodedAudio(). *)
Write(n) ==
  /\ decPc = "decode"
  /\ MutexFree
  /\ n <= length
  /\ length' = length - n
  /\ writePos' = writePos + Least(n, size - writePos)
  /\ IF writePos' > readPos THEN WakeOutput ELSE UNCHANGED readerPc
  /\ decPc' = IF shouldAbort THEN "eof" ELSE "decode"
  /\ UNCHANGED <<size, limit, readPos, readPosInit, flags, skip, terminations, reading>>

(* No more frames. *)
EndOfFile ==
  /\ decPc = "decode"
  /\ length = 0
  /\ decPc' = "eof"
  /\ UNCHANGED <<positions, flags, song, terminations, readerPc, reading>>

(* decodedEOF(). *)
DecodedEOF ==
  /\ decPc = "eof"
  /\ limit' = writePos
  /\ decPc' = "returned"
  /\ UNCHANGED <<size, writePos, readPos, readPosInit, flags, song, terminations, readerPc, reading>>

(* Back in decode(), the last that the thread does with the buffer. *)
ReleaseTermination ==
  /\ decPc = "returned"
  /\ terminations' = terminations + 1
  /\ decPc' = "done"
  /\ UNCHANGED <<positions, flags, song, readerPc, reading>>

Decoder ==
  \/ DecoderFails \/ FlagAbort \/ WakeAfterAbort
  \/ RouteFails \/ \E d \in Durations : SetDuration(d)
  \/ \E n \in 1..Chunk : Write(n)
  \/ EndOfFile \/ DecodedEOF \/ ReleaseTermination

-----------------------------------------------------------------------------
(* The output thread. *)

(* The constructor starts the decoder, then seeks to the skip-start. *)
SeekToFrame ==
  /\ readerPc = "construct"
  /\ IF skip = 0 THEN UNCHANGED <<readPos, readPosInit>>
     ELSE IF limit = 0 THEN readPosInit' = skip /\ UNCHANGED readPos
     ELSE readPos' = Least(skip, limit) /\ UNCHANGED readPosInit
  /\ readerPc' = "wait"
  /\ UNCHANGED <<size, limit, writePos, flags, song, terminations, decPc, reading>>

(* waitForData(): under the mutex, the data or a failure is there, or the wait is due ... *)
CheckData ==
  /\ readerPc = "wait"
  /\ readerPc' = IF writePos = 0 /\ ~hasError /\ ~shouldAbort THEN "checked"
              ELSE IF hasError THEN "failed" ELSE "playing"
  /\ UNCHANGED <<positions, flags, song, terminations, decPc, reading>>

(* ... and begins, which releases the mutex. *)
SleepForData ==
  /\ readerPc = "checked"
  /\ readerPc' = "waiting"
  /\ UNCHANGED <<positions, flags, song, terminations, decPc, reading>>

(* The number of bytes left is unsigned: from a position behind the data    *)
(* it wraps around to more than is ever asked for.                         *)
NumBytesToRead(n) == IF readPos <= size THEN Least(n, size - readPos) ELSE n

(* read(), up to the number of bytes to copy.  Behind the data, a build    *)
(* with assertions ends here ...                                           *)
ReadStart(n) ==
  /\ readerPc = "playing"
  /\ readPos <= size + MaxOverrun
  /\ count' = NumBytesToRead(n)
  /\ readerPc' = "copying"
  /\ UNCHANGED <<positions, flags, song, terminations, decPc, copied, seeks, crossed>>

(* ... the copy, from the position of that moment ... *)
ReadCopy ==
  /\ readerPc = "copying"
  /\ copied' = readPos + count
  /\ readerPc' = "copied"
  /\ UNCHANGED <<positions, flags, song, terminations, decPc, count, seeks, crossed>>

(* ... and the advance. *)
ReadEnd ==
  /\ readerPc = "copied"
  /\ readPos' = readPos + count
  /\ count' = 0
  /\ readerPc' = "playing"
  /\ UNCHANGED <<size, limit, writePos, readPosInit, flags, song, terminations, decPc, copied, seeks, crossed>>

(* ~SongDecoder(): abort() ... *)
Destroy ==
  /\ readerPc \in {"playing", "failed"}
  /\ shouldAbort' = TRUE
  /\ readerPc' = "destroying"
  /\ UNCHANGED <<positions, hasError, song, terminations, decPc, reading>>

(* ... then mTermination is acquired. *)
Destroyed ==
  /\ readerPc = "destroying"
  /\ terminations > 0
  /\ terminations' = terminations - 1
  /\ readerPc' = "destroyed"
  /\ UNCHANGED <<positions, flags, song, decPc, reading>>

Reader ==
  \/ SeekToFrame \/ CheckData \/ SleepForData
  \/ \E n \in 1..Chunk : ReadStart(n)
  \/ ReadCopy \/ ReadEnd
  \/ Destroy \/ Destroyed

(* The main thread: seekTo(), of a position within the track, while it plays. *)
Seek(p) ==
  /\ seeks < MaxSeeks
  /\ readerPc \in {"playing", "copying", "copied"}
  /\ readPos' = p
  /\ seeks' = seeks + 1
  /\ crossed' = (readerPc # "playing")
  /\ UNCHANGED <<size, limit, writePos, readPosInit, flags, song, terminations, decPc, readerPc, count, copied>>

BufferNext == Decoder \/ Reader \/ \E p \in 0..limit : Seek(p)

BufferSpec == BufferInit /\ [][BufferNext]_bufferVars

(* Both threads run; decoding ends.  Nobody must seek, read or destroy. *)
BufferFairness ==
  /\ WF_bufferVars(Decoder)
  /\ WF_bufferVars(SeekToFrame \/ CheckData \/ SleepForData \/ ReadCopy \/ ReadEnd \/ Destroyed)

BufferFairSpec == BufferSpec /\ BufferFairness
-----------------------------------------------------------------------------
(***************************************************************************)
(* The skip-start is applied whichever comes first, the constructor's      *)
(* seekToFrame() or the decoder's setDuration(): before the first read and *)
(* seek, the position is the skip-start, or the end of a shorter track (as *)
(* the header announced it, or as it was already found to be).             *)
(***************************************************************************)
SkipStartApplied ==
  seeks = 0 /\ size > 0 /\ copied = 0 /\ count = 0
    /\ readerPc \in {"wait", "checked", "waiting", "playing"}
    => readPos \in {Least(skip, size), Least(skip, limit)}

(* What ~SongDecoder() acquired was released by a decoder past its last access. *)
DecoderGoneFirst == readerPc = "destroyed" => decPc = "done"

(***************************************************************************)
(* The position is never behind the data, nor does a read copy anything    *)
(* from there, with any seeks between the reads.  The exception is a seek  *)
(* in the middle of a read, until the next one that comes between reads.   *)
(***************************************************************************)
ReadsStayInside ==
  ~crossed => /\ readPos <= size
              /\ readerPc = "copying" => readPos + count <= size
              /\ readerPc = "copied" => copied <= size

(***************************************************************************)
(* PlaybackBuffer.cpp:161, SongDecoder.cpp:16 and :30: each thread's       *)
(* accesses stay inside the buffer's bounds and its lifetime, unless a     *)
(* seek crosses a read, and reading begins at the skip-start, whichever    *)
(* thread comes first.                                                     *)
(***************************************************************************)
AccessesAreRight == BufferTypeOK /\ DecoderGoneFirst /\ ReadsStayInside /\ SkipStartApplied

(***************************************************************************)
(* PlaybackBuffer.cpp:161, the assertion in read(): no read begins behind  *)
(* the data.  The code breaks it: a seek crosses a read, whose advance is  *)
(* then added to the new position.                                         *)
(***************************************************************************)
ReadAssertionHolds == [][readerPc = "playing" /\ readerPc' = "copying" => readPos <= size]_bufferVars

(***************************************************************************)
(* waitForData() ends, for a file that can be decoded and has audio past   *)
(* its skip-start, although the writer only wakes it when it has passed    *)
(* the read position.  The destructor's wait for the decoder ends for any. *)
(***************************************************************************)
Waits == {"wait", "checked", "waiting"}
Undecodable == hasError \/ (decPc \in {"eof", "returned", "done"} /\ size = 0)
WaitEnds ==
  skip < length /\ [](~Undecodable /\ (size > 0 => skip < size))
    => (readerPc \in Waits ~> readerPc \notin Waits)
DestructionEnds == readerPc = "destroying" ~> readerPc = "destroyed"

(* PlaybackBuffer.cpp:107, SongDecoder.cpp:30: both of these waits end. *)
ThreadsEnd == WaitEnds /\ DestructionEnds
=============================================================================
