------------------------------ MODULE DebugLog ------------------------------
(***************************************************************************)
(* Debug::Manager (debug/Debug.cpp): log entries are handed to the         *)
(* registered channels one after the other under logMutex. A channel's     *)
(* Write is an append; it does not log itself, which would lock logMutex a *)
(* second time. Levels are 0 (Info) to 3 (Error).                          *)
(***************************************************************************)
EXTENDS Integers, Sequences, FiniteSets, SequencesExt

CONSTANTS
  LogThreads, Channels,
  ChannelLevel   \* [Channels -> 0..3], set with SetLevel before registration

VARIABLES
  logMutex,     \* the thread that holds it, or Nobody
  logChannels,  \* the registered channels, in order
  minLogLevel,
  logging,      \* thread -> its Log call: [at, level, left, entry]
  entries,      \* number of entries so far, which names them
  written       \* channel -> entries written to it

logVars == <<logMutex, logChannels, minLogLevel, logging, entries, written>>

CONSTANT Nobody

ASSUME LogAssumption == IsFiniteSet(Channels) /\ Nobody \notin LogThreads

NotLogging == [at |-> "out", level |-> 0, left |-> <<>>, entry |-> 0]

LogInit ==
  /\ logMutex = Nobody /\ logChannels = SetToSeq(Channels) /\ minLogLevel = 0
  /\ logging = [th \in LogThreads |-> NotLogging]
  /\ entries = 0 /\ written = [c \in Channels |-> <<>>]

\* Part of the caller's step: thread th enters Log.
EnterLog(th, level) ==
  logging' = [logging EXCEPT ![th] = [at |-> "lock", level |-> level, left |-> <<>>, entry |-> 0]]

Logs(th) == logging[th].at # "out"

\* Mutant of LogLock: no lock_guard.
LogUnlocked(th) ==
  /\ logging[th].at = "lock"
  /\ entries' = entries + 1
  /\ logging' = [logging EXCEPT ![th].at = "write", ![th].entry = entries + 1,
                                ![th].left = SelectSeq(logChannels, LAMBDA c : ChannelLevel[c] <= logging[th].level)]
  /\ UNCHANGED <<logMutex, logChannels, minLogLevel, written>>

\* An entry below minLogLevel is dropped under the mutex.
LogLock(th) ==
  /\ logging[th].at = "lock" /\ logMutex = Nobody
  /\ IF logging[th].level < minLogLevel
       THEN logging' = [logging EXCEPT ![th] = NotLogging] /\ UNCHANGED <<logMutex, entries>>
       ELSE /\ logMutex' = th
            /\ entries' = entries + 1
            /\ logging' = [logging EXCEPT ![th].at = "write", ![th].entry = entries + 1,
                             ![th].left = SelectSeq(logChannels, LAMBDA c : ChannelLevel[c] <= logging[th].level)]
  /\ UNCHANGED <<logChannels, minLogLevel, written>>

\* channel->Write(entry), for one channel of the loop.
LogWrite(th) ==
  /\ logging[th].at = "write" /\ logging[th].left # <<>>
  /\ written' = [written EXCEPT ![Head(logging[th].left)] = Append(@, logging[th].entry)]
  /\ logging' = [logging EXCEPT ![th].left = Tail(@)]
  /\ UNCHANGED <<logMutex, logChannels, minLogLevel, entries>>

LogReturn(th) ==
  /\ logging[th].at = "write" /\ logging[th].left = <<>>
  /\ logging' = [logging EXCEPT ![th] = NotLogging]
  /\ logMutex' = IF logMutex = th THEN Nobody ELSE logMutex
  /\ UNCHANGED <<logChannels, minLogLevel, entries, written>>

LogStep(th) == LogLock(th) \/ LogWrite(th) \/ LogReturn(th)

-----------------------------------------------------------------------------
(* Configuration, each call under logMutex                                 *)

Configure(channels, level) ==
  /\ logMutex = Nobody
  /\ logChannels' = channels /\ minLogLevel' = level
  /\ UNCHANGED <<logMutex, logging, entries, written>>

\* push_back: a channel may be registered twice.
RegisterChannel(c) == Configure(Append(logChannels, c), minLogLevel)
SetConfig(level) == Configure(logChannels, level)
InitLog(level) == Configure(<<>>, level)
Shutdown == Configure(<<>>, minLogLevel)

-----------------------------------------------------------------------------
(* Property                                                                *)

\* Two channels that both received two entries received them in the same order,
\* whatever threads logged and however channels came and went.
ChannelsAgree ==
  \A c, d \in Channels : \A i, j \in DOMAIN written[c] : \A k, l \in DOMAIN written[d] :
    i < j /\ written[c][i] # written[c][j] /\ written[c][i] = written[d][k] /\ written[c][j] = written[d][l]
      => k < l
=============================================================================
