--------------------------- MODULE RangedTransfer ---------------------------
(***************************************************************************)
(* Plain and chunked downloads of one URL: download of                     *)
(* extensions/src/download.rs, download/chunked.rs and DownloadFile of     *)
(* download/store.rs, which both use.  One thread per call; one action per *)
(* request, per read of a body and per step of publishing.                 *)
(*                                                                         *)
(* The server may replace the object it serves, by a new version or, with  *)
(* MayReturn, by an earlier one.  Version v is Lengths[v] pieces <<v, 1>>, *)
(* <<v, 2>>, ...; a version in Tagged has a validator (its number, 0 is    *)
(* none), a version in Sized a known length.  The server may ignore Range, *)
(* but answers 206 to If-Range only for the version the validator names,   *)
(* unless the answer itself carries another validator.                     *)
(***************************************************************************)
EXTENDS StagedFile, FiniteSetsExt

CONSTANTS
    Lengths,       \* version -> number of pieces
    Tagged,        \* versions with an ETag or Last-Modified
    Sized,         \* versions whose total length the server tells
    ChunkSize,     \* pieces of a chunk
    Tries,         \* policy.max_attempts
    Modes,         \* kinds of call: [chunked, resume, persistent]
    MayReturn,     \* a replaced version may come back
    OtherSuccess,  \* a range may be answered by a 2xx other than 200 and 206
    MaxIgnored     \* bound on the ranges that the server ignores in a call

ASSUME RangedAssumption ==
    /\ Lengths \in Seq(Nat) /\ Lengths # <<>>
    /\ Tagged \subseteq DOMAIN Lengths /\ Sized \subseteq DOMAIN Lengths
    /\ ChunkSize \in Nat \ {0} /\ Tries \in Nat \ {0}
    /\ Modes \subseteq [chunked : BOOLEAN, resume : BOOLEAN,
                        persistent : BOOLEAN]
    /\ MayReturn \in BOOLEAN /\ OtherSuccess \in BOOLEAN

VARIABLES
    at,            \* position, "idle" between calls
    mode,          \* the options of the call
    server,        \* version the server has now
    state,         \* Checkpoint in memory: [validator, total] (bytes is
                   \* the length of the staging file)
    saved,         \* the checkpoint file: Unsaved or [validator, total, bytes]
    probe,         \* chunked: validator of the probe
    start, end,    \* chunked: the range of the chunk that is asked for
    attempt,       \* attempts of this loop
    ignored,       \* chunked: ranges the server ignored
    body           \* answer being read: [version, position, last, full]

loopVars == <<probe, ignored, start, end>>
rangedVars == <<at, mode, server, state, saved, loopVars, attempt, body>>
rangedAllVars == <<rangedVars, fileVars>>

Versions == DOMAIN Lengths
Whole(v) == [i \in 1..Lengths[v] |-> <<v, i>>]
Validator(v) == IF v \in Tagged THEN v ELSE 0
Total(v) == IF v \in Sized THEN Lengths[v] ELSE 0

Unsaved == [validator |-> 0, total |-> 0, bytes |-> 0]
Fresh == [validator |-> 0, total |-> 0]
NoBody == [version |-> 0, position |-> 0, last |-> 0, full |-> FALSE]
NoMode == [chunked |-> FALSE, resume |-> FALSE, persistent |-> FALSE]

RangedInit ==
    /\ at = "idle" /\ mode = NoMode
    /\ server = 1
    /\ state = Fresh /\ saved = Unsaved
    /\ probe = 0 /\ ignored = 0 /\ start = 0 /\ end = 0
    /\ attempt = 0
    /\ body = NoBody

\* The call returns, or dies: what it had in memory is gone.
Forget ==
    /\ at' = "idle" /\ mode' = NoMode
    /\ state' = Fresh
    /\ probe' = 0 /\ ignored' = 0 /\ start' = 0 /\ end' = 0
    /\ attempt' = 0
    /\ body' = NoBody

-----------------------------------------------------------------------------
(* DownloadFile.                                                           *)

Restorable(kept) == kept /\ saved # Unsaved

\* open: without a checkpoint the staging file is removed; with one it is cut
\* to the bytes it still has.
OpenFile(kept) ==
    LET bytes == IF Restorable(kept) THEN Min({saved.bytes, Len(partial)}) ELSE 0
    IN  /\ partial' = Prefix(partial, bytes)
        /\ synced' = IF Restorable(kept) THEN synced ELSE <<>>
        /\ saved' = IF Restorable(kept) THEN saved ELSE Unsaved
        /\ UNCHANGED target

\* checkpoint and save, when one is due: sync, then rename; either may fail.
Checkpointed(file, memory) ==
    \/ UNCHANGED <<synced, saved>>
    \/ /\ keep /\ memory.validator # 0 /\ file # <<>>
       /\ synced' = file
       /\ saved' \in {saved, [validator |-> memory.validator,
                             total |-> memory.total, bytes |-> Len(file)]}

\* restart: truncate, forget the validator, remove the checkpoint.
Restart ==
    /\ partial' = <<>>
    /\ saved' = Unsaved
    /\ UNCHANGED synced

-----------------------------------------------------------------------------
(* Plain downloads.                                                        *)

StartPlain(options) ==
    /\ at = "idle" /\ ~options.chunked
    /\ Enter("ranged", options.resume /\ options.persistent)
    /\ mode' = options
    /\ OpenFile(keep')
    /\ state' = [validator |-> saved'.validator, total |-> saved'.total]
    /\ attempt' = 1
    /\ at' = IF partial' # <<>> /\ saved'.total = Len(partial') THEN "publish"
             ELSE "request"
    /\ UNCHANGED <<server, loopVars, body>>

RangeFrom == IF mode.resume /\ state.validator # 0 THEN Len(partial) ELSE 0

\* A call that gives up keeps what the Drop of DownloadFile keeps.
GiveUp ==
    /\ at' = "drop"
    /\ UNCHANGED <<mode, server, state, saved, loopVars, attempt, body,
                   diskVars, callVars, crashes>>

\* Cancelled, the last attempt, a status that is not retried, or a range that
\* was not asked for.
PlainRefused ==
    /\ at = "request"
    /\ GiveUp

\* No connection, or a status that is retried; only the former restarts a
\* file that cannot be continued.
PlainRetry ==
    /\ at = "request" /\ attempt < Tries /\ ~cancelled
    /\ attempt' = attempt + 1
    /\ \E answered \in BOOLEAN :
          IF ~answered /\ partial # <<>> /\ (~mode.resume \/ state.validator = 0)
          THEN Restart /\ state' = [state EXCEPT !.validator = 0]
          ELSE UNCHANGED <<partial, synced, saved, state>>
    /\ UNCHANGED <<at, mode, server, loopVars, body, target, callVars,
                   crashes>>

\* 206 for the range that was asked for; another validator is an error.
PlainPartial ==
    /\ at = "request" /\ ~cancelled
    /\ RangeFrom > 0 /\ RangeFrom < Lengths[server]
    /\ Validator(server) # 0
    /\ IF Validator(server) # state.validator
       THEN GiveUp
       ELSE /\ at' = "body"
            /\ body' = [version |-> server, position |-> RangeFrom,
                        last |-> Lengths[server], full |-> FALSE]
            /\ state' = [state EXCEPT !.total = Lengths[server]]
            /\ UNCHANGED <<mode, server, saved, loopVars, attempt, diskVars,
                           callVars, crashes>>

\* Mutant: nothing is cut off.
PlainFullAppends ==
    /\ at = "request" /\ ~cancelled
    /\ at' = "body"
    /\ body' = [version |-> server, position |-> 0, last |-> Lengths[server],
                full |-> TRUE]
    /\ state' = [validator |-> Validator(server), total |-> Total(server)]
    /\ UNCHANGED <<mode, server, saved, loopVars, attempt, diskVars, callVars,
                   crashes>>

\* The whole object.  Only at 200 is what was staged cut off: any other 2xx
\* passes for the rest of it.
PlainFull ==
    /\ at = "request" /\ ~cancelled
    /\ at' = "body"
    /\ body' = [version |-> server, position |-> 0, last |-> Lengths[server],
                full |-> TRUE]
    /\ partial' \in {IF RangeFrom > 0 THEN <<>> ELSE partial}
                    \cup {file \in {partial} : OtherSuccess}
    /\ state' = [validator |-> IF Validator(server) # 0 THEN Validator(server)
                               ELSE state.validator,
                 total |-> Total(server)]
    /\ UNCHANGED <<mode, server, saved, loopVars, attempt, synced, target,
                   callVars, crashes>>

PlainRead ==
    /\ at = "body" /\ ~mode.chunked
    /\ body.position < body.last /\ ~cancelled
    /\ body' = [body EXCEPT !.position = @ + 1]
    /\ partial' = Append(partial, <<body.version, body.position + 1>>)
    /\ Checkpointed(partial', state)
    /\ UNCHANGED <<at, mode, server, state, loopVars, attempt, target,
                   callVars, crashes>>

\* write_all failed: the staging file stays as it is, nothing is saved.
WriteFailed ==
    /\ at = "body" /\ body.position < body.last
    /\ GiveUp

PlainEnd ==
    /\ at = "body" /\ ~mode.chunked
    /\ body.position = body.last /\ ~cancelled
    /\ state.total > 0 => Len(partial) = state.total
    /\ at' = IF partial = <<>> THEN "drop" ELSE "publish"
    /\ body' = NoBody
    /\ UNCHANGED <<mode, server, state, saved, loopVars, attempt, diskVars,
                   callVars, crashes>>

\* The read fails, or the body is not as long as announced: save, and either
\* give up or try again, from the start when there is no validator.
PlainBroken ==
    /\ at = "body" /\ ~mode.chunked
    /\ body' = NoBody
    /\ \/ /\ at' = "drop"
          /\ cancelled \/ attempt = Tries
          /\ Checkpointed(partial, state)
          /\ UNCHANGED <<partial, state, attempt>>
       \/ /\ at' = "request"
          /\ ~cancelled /\ attempt < Tries
          /\ attempt' = attempt + 1
          /\ IF mode.resume /\ state.validator # 0
             THEN Checkpointed(partial, state) /\ UNCHANGED <<partial, state>>
             ELSE Restart /\ state' = [state EXCEPT !.validator = 0]
    /\ UNCHANGED <<mode, server, loopVars, target, callVars, crashes>>

-----------------------------------------------------------------------------
(* Chunked downloads.                                                      *)

StartChunked(options) ==
    /\ at = "idle" /\ options.chunked
    /\ Enter("ranged", FALSE)
    /\ mode' = options
    /\ at' = "probe"
    /\ UNCHANGED <<server, state, saved, loopVars, attempt, body, diskVars>>

\* The probe failed for good: no file was opened.
ProbeRefused ==
    /\ at = "probe"
    /\ Forget
    /\ Leave
    /\ UNCHANGED <<server, saved, diskVars>>

\* Mutant: the checkpoint is continued whatever the probe says.
ProbeTrusting ==
    /\ at = "probe" /\ ~cancelled
    /\ keep' = (mode.persistent /\ Validator(server) # 0)
    /\ OpenFile(keep')
    /\ state' = [validator |-> Validator(server), total |-> Total(server)]
    /\ probe' = Validator(server)
    /\ at' = "chunk"
    /\ UNCHANGED <<mode, server, start, end, attempt, ignored, body, kind,
                   cancelled, calls, crashes>>

\* The probe's validator and length decide whether a checkpoint still fits.
ProbeAnswered ==
    /\ at = "probe" /\ ~cancelled
    /\ LET kept == mode.persistent /\ Validator(server) # 0
           fits == /\ saved.validator = Validator(server)
                   /\ saved.total > 0 /\ Total(server) > 0 =>
                          saved.total = Total(server)
       IN  /\ keep' = kept
           /\ IF Restorable(kept) /\ ~fits
              THEN Restart /\ UNCHANGED target
              ELSE OpenFile(kept)
    /\ state' = [validator |-> Validator(server), total |-> Total(server)]
    /\ probe' = Validator(server)
    /\ at' = "chunk"
    /\ UNCHANGED <<mode, server, start, end, attempt, ignored, body, kind,
                   cancelled, calls, crashes>>

\* The head of the loop over the chunks.
NextChunk ==
    /\ at = "chunk"
    /\ IF state.total = 0 \/ Len(partial) < state.total
       THEN /\ at' = "ask" /\ attempt' = 1
            /\ start' = Len(partial)
            /\ end' = IF state.total = 0 THEN start' + ChunkSize
                      ELSE Min({start' + ChunkSize, state.total})
       ELSE at' = "size" /\ UNCHANGED <<start, end, attempt>>
    /\ UNCHANGED <<mode, server, state, saved, probe, ignored, body, diskVars,
                   callVars, crashes>>

ChunkRetry ==
    /\ at = "ask" /\ attempt < Tries /\ ~cancelled
    /\ attempt' = attempt + 1
    /\ UNCHANGED <<at, mode, server, state, saved, loopVars, body, diskVars,
                   callVars, crashes>>

\* Cancelled, or an answer of another version: nothing is saved.
ChunkAborted ==
    /\ at = "ask"
    /\ \/ cancelled
       \/ Validator(server) # 0 /\ probe # 0 /\ Validator(server) # probe
    /\ GiveUp

\* The last attempt failed, or the status is not retried (416 at the end of
\* an object of unknown length, for one).
ChunkFailed ==
    /\ at = "ask"
    /\ at' = "drop"
    /\ Checkpointed(partial, state)
    /\ UNCHANGED <<mode, server, state, loopVars, attempt, body, partial,
                   target, callVars, crashes>>

ChunkAgrees == Validator(server) = 0 \/ probe = 0 \/ Validator(server) = probe

ChunkPartial ==
    /\ at = "ask" /\ ~cancelled /\ ChunkAgrees
    /\ Validator(server) = probe
    /\ start < Lengths[server]
    /\ at' = "body"
    /\ body' = [version |-> server, position |-> start,
                last |-> Min({end, Lengths[server]}),
                full |-> FALSE]
    /\ UNCHANGED <<mode, server, state, saved, loopVars, attempt, diskVars,
                   callVars, crashes>>

\* 200 to a range: the whole object from its start.
ChunkIgnored ==
    /\ at = "ask" /\ ~cancelled /\ ChunkAgrees
    /\ ignored < MaxIgnored
    /\ ignored' = ignored + 1
    /\ at' = "body"
    /\ body' = [version |-> server, position |-> 0, last |-> Lengths[server],
                full |-> TRUE]
    /\ IF start > 0
       THEN /\ Restart
            /\ state' = [validator |-> probe,
                         total |-> IF Total(server) > 0 THEN Total(server)
                                   ELSE state.total]
            /\ start' = 0
       ELSE UNCHANGED <<partial, synced, saved, state, start>>
    /\ UNCHANGED <<mode, server, probe, end, attempt, target, callVars,
                   crashes>>

ChunkRead ==
    /\ at = "body" /\ mode.chunked
    /\ body.position < body.last /\ ~cancelled
    /\ body' = [body EXCEPT !.position = @ + 1]
    /\ partial' = Append(partial, <<body.version, body.position + 1>>)
    /\ UNCHANGED <<at, mode, server, state, saved, loopVars, attempt, synced,
                   target, callVars, crashes>>

\* A complete chunk is saved when one is due.  The last chunk of an object of
\* unknown length is the short one.
ChunkEnd ==
    /\ at = "body" /\ mode.chunked
    /\ body.position = body.last /\ ~cancelled
    /\ at' = IF body.full \/ (state.total = 0 /\ Len(partial) - start < ChunkSize)
             THEN "size" ELSE "chunk"
    /\ body' = NoBody
    /\ Checkpointed(partial, state)
    /\ UNCHANGED <<mode, server, state, loopVars, attempt, partial, target,
                   callVars, crashes>>

\* An incomplete chunk is rolled back before anything is saved.
ChunkBroken ==
    /\ at = "body" /\ mode.chunked
    /\ partial' = Prefix(partial, start)
    /\ body' = NoBody
    /\ \/ /\ at' = "drop"
          /\ cancelled \/ attempt = Tries
          /\ Checkpointed(partial', state)
          /\ UNCHANGED attempt
       \/ /\ at' = "ask"
          /\ ~cancelled /\ attempt < Tries
          /\ attempt' = attempt + 1
          /\ UNCHANGED <<synced, saved>>
    /\ UNCHANGED <<mode, server, state, loopVars, target, callVars, crashes>>

\* The size is compared with the announced one before publishing.
ChunkSized ==
    /\ at = "size"
    /\ at' = IF partial = <<>> \/ (state.total > 0 /\ Len(partial) # state.total)
             THEN "drop" ELSE "publish"
    /\ UNCHANGED <<mode, server, state, saved, loopVars, attempt, body,
                   diskVars, callVars, crashes>>

-----------------------------------------------------------------------------
(* The end of a call, and what happens around it.                          *)

RangedPublishSync ==
    /\ at = "publish"
    /\ \/ SyncAll /\ at' = "promote"
       \/ UNCHANGED synced /\ at' = "drop"
    /\ UNCHANGED <<mode, server, state, saved, loopVars, attempt, body,
                   partial, target, callVars, crashes>>

RangedPublishRename ==
    /\ at = "promote"
    /\ \/ ~cancelled /\ Promote /\ at' = "clean"
       \/ UNCHANGED diskVars /\ at' = "drop"
    /\ UNCHANGED <<mode, server, state, saved, loopVars, attempt, body,
                   callVars, crashes>>

RangedPublishClean ==
    /\ at = "clean"
    /\ saved' = Unsaved
    /\ Forget
    /\ Leave
    /\ UNCHANGED <<server, diskVars>>

\* Drop for DownloadFile, for a file that was not published.
RangedDrop ==
    /\ at = "drop"
    /\ IF keep THEN UNCHANGED <<saved, partial, synced>>
       ELSE saved' = Unsaved /\ partial' = <<>> /\ synced' = <<>>
    /\ Forget
    /\ Leave
    /\ UNCHANGED <<server, target>>

RangedCancel ==
    /\ at # "idle"
    /\ CancelCall
    /\ UNCHANGED rangedVars

RangedCrash ==
    /\ kind = "ranged"
    /\ CrashFile
    /\ Forget
    /\ UNCHANGED <<server, saved>>

\* Another object under the same URL.  Chunks without any validator cannot be
\* told apart, so a chunked transfer of such an object assumes it stays.
ReplaceObject ==
    /\ kind = "ranged"
    /\ mode.chunked => at = "probe" \/ probe # 0
    /\ server' \in {v \in Versions \ {server} : v > server \/ MayReturn}
    /\ UNCHANGED <<at, mode, state, saved, loopVars, attempt, body, fileVars>>

RangedWork ==
    \/ PlainRefused \/ PlainRetry \/ PlainPartial \/ PlainFull
    \/ PlainRead \/ WriteFailed \/ PlainEnd \/ PlainBroken
    \/ ProbeRefused \/ ProbeAnswered \/ NextChunk
    \/ ChunkRetry \/ ChunkAborted \/ ChunkFailed \/ ChunkPartial
    \/ ChunkIgnored \/ ChunkRead \/ ChunkEnd \/ ChunkBroken \/ ChunkSized
    \/ RangedPublishSync \/ RangedPublishRename \/ RangedPublishClean
    \/ RangedDrop

RangedStep ==
    \/ \E options \in Modes : StartPlain(options) \/ StartChunked(options)
    \/ RangedWork
    \/ RangedCancel \/ RangedCrash \/ ReplaceObject

RangedFairness == WF_rangedAllVars(RangedWork)

-----------------------------------------------------------------------------
RangedTypeOK ==
    /\ at \in {"idle", "request", "body", "probe", "chunk", "ask", "size",
               "publish", "promote", "clean", "drop"}
    /\ mode \in Modes \cup {NoMode}
    /\ server \in Versions
    /\ state.validator \in Tagged \cup {0}
    /\ saved = Unsaved \/ (saved.validator \in Tagged /\ saved.bytes > 0)
    /\ probe \in Tagged \cup {0}
    /\ attempt \in 0..Tries

\* Bytes are only ever appended where they belong: a request is made from the
\* end of the staging file, so the body read next starts exactly there.  (A
\* server that answers a range with a 2xx of another kind breaks it.)
ContinuesWhereItStopped ==
    at = "body" => body.position = Len(partial)

\* If the server still has the version a checkpoint names, and would answer
\* with the rest of it, then what is staged really is the beginning of that
\* version, even though a replaced body is written over an older checkpoint's
\* data and a crash can come at any time.  (A version that comes back while
\* its checkpoint survived a 200 breaks it.)
ResumedRangeExact ==
    saved # Unsaved /\ saved.validator = Validator(server) =>
        LET bytes == Min({saved.bytes, Len(partial)})
        IN  at \in {"idle", "probe"} =>
              Prefix(partial, bytes) = Prefix(Whole(server), bytes)

\* "Data reaches stable storage before publishing its checkpoint pointer"
\* (store.rs:153): what a call would publish from a complete checkpoint
\* without asking the server is the version that the checkpoint names.
RestoredIsComplete ==
    at = "idle" /\ saved # Unsaved /\ saved.bytes = saved.total
        /\ Len(partial) >= saved.bytes =>
            Prefix(partial, saved.bytes) = Whole(saved.validator)

WholeVersions == {Whole(v) : v \in Versions}
=============================================================================
