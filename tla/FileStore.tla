----------------------------- MODULE FileStore ------------------------------
(***************************************************************************)
(* The file system module: the asynchronous reads and writes of            *)
(* AsyncFileManager over ThreadPoolAsyncFileIO, and the save, load and     *)
(* remove of the synchronous FileManager over BinaryFileIO, all of them on *)
(* the same files. An operation is one call; its steps are the points at   *)
(* which another thread or process can come in between: the call, the      *)
(* first resumption of the lazy coroutine, the opening, the measuring, the *)
(* transfer, and the flush when the stream is closed. JsonFileIO differs   *)
(* from BinaryFileIO only in the mode letter, which POSIX ignores.         *)
(*                                                                         *)
(* A file is an inode, named after the operation that created it, so that  *)
(* a stream which is still open survives the removal of its name.          *)
(***************************************************************************)
EXTENDS Cipher, FiniteSets

CONSTANTS
  FileOps,      \* operations, each executed once
  FilePlans,    \* the assignments of [kind, path, data] to operations to look at
  Files,        \* paths
  Reused,       \* what a caller puts into its buffer after write() has returned
  AsyncKey,     \* the strategy given to AsyncFileManager
  Strategies,   \* the strategies given to FileManager::setEncryptionStrategy
  StreamBuffer, \* transfers longer than this bypass the stream's buffer
  IoWorkers,    \* threads of the pool
  MaxFaults     \* bound on injected I/O errors

ASSUME FileAssumption ==
  /\ IoWorkers \in Nat \ {0} /\ FileOps \subseteq Nat \ {0}
  /\ FilePlans \subseteq [FileOps -> [kind : {"read", "write", "load", "save", "remove"},
                                     path : Files, data : Seq(Byte)]]
  /\ Reused \in Seq(Byte)
  /\ AsyncKey \in Strategy /\ Strategies \subseteq Strategy

VARIABLES
  plan,       \* the operations of this behaviour, a member of FilePlans
  dir,        \* path -> inode or NoFile
  disk,       \* inode -> bytes
  at,         \* operation -> its next step
  caller,     \* operation -> the caller's buffer
  io,         \* operation -> its local variables and its result
  encryption, \* the synchronous manager's strategy
  faults,     \* I/O errors so far
  saved       \* history: path -> what the last undisturbed write was given, or Unknown

fileVars == <<plan, dir, disk, at, caller, io, encryption, faults, saved>>

NoFile == 0
Unknown == [known |-> FALSE, data |-> <<>>, with |-> NoEncryption]

Kind(o) == plan[o].kind
Path(o) == plan[o].path
Async(o) == Kind(o) \in {"read", "write"}
Reader(o) == Kind(o) \in {"read", "load"}
Writer(o) == Kind(o) \in {"write", "save"}

\* Operations between the opening and the closing of their stream.
Streaming(o) == at[o] \in {"opened", "sized", "flush"}

\* run_async jobs occupy a worker while they stream.
WorkerFree == Cardinality({o \in FileOps : Async(o) /\ Streaming(o)}) < IoWorkers

FilesInit ==
  /\ plan \in FilePlans
  /\ dir = [p \in Files |-> NoFile]
  /\ disk = [o \in FileOps |-> <<>>]
  /\ at = [o \in FileOps |-> "idle"]
  /\ caller = [o \in FileOps |-> plan[o].data]
  /\ io = [o \in FileOps |-> [file |-> NoFile, plain |-> <<>>, buf |-> <<>>, with |-> NoEncryption,
                              size |-> 0, data |-> <<>>, error |-> FALSE, calm |-> TRUE,
                              expect |-> Unknown]]
  /\ encryption = NoEncryption
  /\ faults = 0
  /\ saved = [p \in Files |-> Unknown]

-----------------------------------------------------------------------------
\* A step of o that fails: the error reaches the caller, or is swallowed.
Fault == faults < MaxFaults /\ faults' = faults + 1

\* History: o opens its stream or removes its name. It disturbs every stream
\* on the path if it writes, and a stream that writes disturbs it.
Meet(o) ==
  [q \in FileOps |->
     IF q = o THEN [io[o] EXCEPT !.expect = saved[Path(o)],
                                 !.calm = ~\E w \in FileOps \ {o} : Streaming(w) /\ Writer(w) /\ Path(w) = Path(o)]
     ELSE IF ~Reader(o) /\ Streaming(q) /\ Path(q) = Path(o) THEN [io[q] EXCEPT !.calm = FALSE]
     ELSE io[q]]

\* read() and write() only create a suspended coroutine.
CallAsync(o) ==
  /\ Async(o) /\ at[o] = "idle"
  /\ at' = [at EXCEPT ![o] = "lazy"]
  /\ UNCHANGED <<dir, disk, caller, io, encryption, faults, saved>>

CallerReusesBuffer(o) ==
  /\ Kind(o) = "write" /\ at[o] # "idle" /\ caller[o] # Reused
  /\ caller' = [caller EXCEPT ![o] = Reused]
  /\ UNCHANGED <<dir, disk, at, io, encryption, faults, saved>>

\* The first resumption copies and encrypts the caller's buffer as it is now,
\* then both coroutines run on until run_async has queued the job.
Resume(o) ==
  /\ at[o] = "lazy"
  /\ at' = [at EXCEPT ![o] = "queued"]
  /\ io' = IF Kind(o) = "write"
             THEN [io EXCEPT ![o].plain = caller[o], ![o].with = AsyncKey,
                             ![o].buf = encrypt(AsyncKey, caller[o])]
             ELSE io
  /\ UNCHANGED <<dir, disk, caller, encryption, faults, saved>>

\* The point at which o opens its file: a worker takes the job, or the
\* synchronous call is made.
Opens(o) == IF Async(o) THEN at[o] = "queued" /\ WorkerFree ELSE at[o] = "idle"

\* A missing file: an error code from read(), an empty vector from load().
OpenFails(o) ==
  /\ Opens(o) /\ Kind(o) # "remove"
  /\ \/ Reader(o) /\ dir[Path(o)] = NoFile /\ UNCHANGED faults
     \/ Fault
  /\ at' = [at EXCEPT ![o] = "done"]
  /\ io' = [io EXCEPT ![o].error = Kind(o) # "load", ![o].calm = FALSE]
  /\ UNCHANGED <<dir, disk, caller, encryption, saved>>

OpenRead(o) ==
  /\ Opens(o) /\ Reader(o) /\ dir[Path(o)] # NoFile
  /\ at' = [at EXCEPT ![o] = "opened"]
  /\ io' = [Meet(o) EXCEPT ![o].file = dir[Path(o)]]
  /\ UNCHANGED <<dir, disk, caller, encryption, faults, saved>>

\* Mutant of OpenWrite: without std::ios::trunc.
OpenKeep(o) ==
  /\ Opens(o) /\ Writer(o)
  /\ LET node == IF dir[Path(o)] = NoFile THEN o ELSE dir[Path(o)] IN
       /\ dir' = [dir EXCEPT ![Path(o)] = node]
       /\ io' = [Meet(o) EXCEPT ![o].file = node]
  /\ at' = [at EXCEPT ![o] = "opened"]
  /\ saved' = [saved EXCEPT ![Path(o)] = Unknown]
  /\ UNCHANGED <<disk, caller, encryption, faults>>

OpenWrite(o) ==
  /\ Opens(o) /\ Writer(o)
  /\ LET node == IF dir[Path(o)] = NoFile THEN o ELSE dir[Path(o)] IN
       /\ dir' = [dir EXCEPT ![Path(o)] = node]
       /\ disk' = [disk EXCEPT ![node] = <<>>]
       /\ io' = [Meet(o) EXCEPT ![o].file = node]
  /\ at' = [at EXCEPT ![o] = "opened"]
  /\ saved' = [saved EXCEPT ![Path(o)] = Unknown]
  /\ UNCHANGED <<caller, encryption, faults>>

-----------------------------------------------------------------------------
(* Reading                                                                 *)

\* seekg, tellg, seekg (fseek, ftell, fseek).
Measure(o) ==
  /\ Reader(o) /\ at[o] = "opened"
  /\ at' = [at EXCEPT ![o] = "sized"]
  /\ io' = [io EXCEPT ![o].size = Len(disk[io[o].file])]
  /\ UNCHANGED <<dir, disk, caller, encryption, faults, saved>>

\* The vector has the measured size; what the file no longer holds stays 0
\* and only sets eofbit.
Transferred(o) ==
  LET bytes == disk[io[o].file] IN
  [i \in 1..io[o].size |-> IF i <= Len(bytes) THEN bytes[i] ELSE Zero]

KeyOf(o) == IF Async(o) THEN AsyncKey ELSE encryption

\* AsyncFileManager::read and FileManager::readAll decrypt what was read.
Read(o) ==
  /\ Reader(o) /\ at[o] = "sized"
  /\ at' = [at EXCEPT ![o] = "done"]
  /\ io' = [io EXCEPT ![o].data = decrypt(KeyOf(o), Transferred(o)),
                      ![o].calm = @ /\ io[o].expect.known /\ io[o].expect.with = KeyOf(o)]
  /\ UNCHANGED <<dir, disk, caller, encryption, faults, saved>>

\* badbit: read() clears the data and reports; fread's result is ignored, and
\* load() decrypts the zeros of the vector.
ReadFails(o) ==
  /\ Reader(o) /\ at[o] = "sized" /\ io[o].size > 0
  /\ Fault
  /\ at' = [at EXCEPT ![o] = "done"]
  /\ io' = [io EXCEPT ![o].error = Async(o), ![o].calm = FALSE,
                      ![o].data = IF Async(o) THEN <<>>
                                  ELSE decrypt(encryption, [i \in 1..io[o].size |-> Zero])]
  /\ UNCHANGED <<dir, disk, caller, encryption, saved>>

-----------------------------------------------------------------------------
(* Writing                                                                 *)

\* Mutant of Overlay: the file is opened with std::ios::app.
Appended(bytes, content) == content \o bytes

\* Bytes written at offset 0 of an open file.
Overlay(bytes, content) == bytes \o SubSeq(content, Len(bytes) + 1, Len(content))

\* History: a writer is done; whether it left on disk what it was given, which
\* it cannot if the caller changed its buffer before the coroutine copied it.
Settle(o, whole) ==
  saved' = [saved EXCEPT ![Path(o)] =
    IF whole /\ io[o].calm /\ dir[Path(o)] = io[o].file /\ io'[o].plain = plan[o].data
      THEN [known |-> TRUE, data |-> plan[o].data, with |-> io'[o].with] ELSE Unknown]

\* The device takes all of the bytes, or fails after some of them.
Transfer(o, bytes) ==
  \/ disk' = [disk EXCEPT ![io[o].file] = Overlay(bytes, @)] /\ UNCHANGED faults
  \/ /\ Fault
     /\ \E n \in 0..(Len(bytes) - 1) :
          disk' = [disk EXCEPT ![io[o].file] = Overlay(SubSeq(bytes, 1, n), @)]

\* writeAll encrypts with the strategy of this moment; the coroutine has its
\* buffer already.
Filled(o) ==
  IF Async(o) THEN io
  ELSE [io EXCEPT ![o].plain = caller[o], ![o].with = encryption,
                  ![o].buf = encrypt(encryption, caller[o])]

\* file.write / fwrite of a short buffer: it stays in the stream until the
\* stream is closed.
WriteBuffered(o) ==
  /\ Writer(o) /\ at[o] = "opened"
  /\ io' = Filled(o)
  /\ Len(io'[o].buf) <= StreamBuffer
  /\ at' = [at EXCEPT ![o] = "flush"]
  /\ UNCHANGED <<dir, disk, caller, encryption, faults, saved>>

\* A long one goes to the file at once, and its failure is seen.
WriteThrough(o) ==
  /\ Writer(o) /\ at[o] = "opened"
  /\ LET filled == Filled(o) IN
       /\ Len(filled[o].buf) > StreamBuffer
       /\ Transfer(o, filled[o].buf)
       /\ io' = [filled EXCEPT ![o].error = faults' # faults]
  /\ at' = [at EXCEPT ![o] = "done"]
  /\ Settle(o, ~io'[o].error)
  /\ UNCHANGED <<dir, caller, encryption>>

\* ~ofstream and fclose write what is buffered and tell nobody if they fail.
Close(o) ==
  /\ at[o] = "flush"
  /\ Transfer(o, io[o].buf)
  /\ at' = [at EXCEPT ![o] = "done"]
  /\ UNCHANGED io
  /\ Settle(o, faults' = faults)
  /\ UNCHANGED <<dir, caller, encryption>>

-----------------------------------------------------------------------------
\* FileManager::remove.
RemoveFile(o) ==
  /\ Kind(o) = "remove" /\ at[o] = "idle"
  /\ dir' = [dir EXCEPT ![Path(o)] = NoFile]
  /\ at' = [at EXCEPT ![o] = "done"]
  /\ io' = [Meet(o) EXCEPT ![o].error = dir[Path(o)] = NoFile]
  /\ saved' = [saved EXCEPT ![Path(o)] = Unknown]
  /\ UNCHANGED <<disk, caller, encryption, faults>>

setEncryptionStrategy(c) ==
  /\ encryption # c
  /\ encryption' = c
  /\ UNCHANGED <<dir, disk, at, caller, io, faults, saved>>

FileProgress(o) ==
  \/ Resume(o) \/ OpenFails(o) \/ OpenRead(o) \/ OpenWrite(o) \/ Measure(o) \/ Read(o)
  \/ ReadFails(o) \/ WriteBuffered(o) \/ WriteThrough(o) \/ Close(o) \/ RemoveFile(o)

\* What the pool's threads, and callers inside a call, go on to do by themselves.
\* Nobody is obliged to make a call or to resume a lazy coroutine.
FileMustProgress(o) == at[o] \notin {"idle", "lazy"} /\ FileProgress(o) /\ UNCHANGED plan

FilesNext ==
  /\ \/ \E o \in FileOps : CallAsync(o) \/ CallerReusesBuffer(o) \/ FileProgress(o)
     \/ \E c \in Strategies : setEncryptionStrategy(c)
  /\ UNCHANGED plan

-----------------------------------------------------------------------------
(* Properties                                                              *)

\* A read or load that no writer of the path overlapped returns, decrypted, what
\* the last undisturbed write or save of the path was given, provided both used
\* the same strategy and the writer's caller left its buffer alone until the first
\* resumption (WritesWhatItWasGiven is about a caller that does not); when it
\* reports an error its data is empty (FileResult.h:37).
ReadsBackWhatWasWritten ==
  \A o \in FileOps : at[o] = "done" /\ Reader(o) =>
    /\ io[o].error => io[o].data = <<>>
    /\ ~io[o].error /\ io[o].calm => io[o].data = io[o].expect.data

\* "the data is copied before returning" (IAsyncFileIO.h:36): a write() that ended
\* without an error wrote what it was given, whatever the caller did with its buffer
\* once write() had returned. The code copies at the first resumption.
WritesWhatItWasGiven ==
  \A o \in FileOps : at[o] = "done" /\ Kind(o) = "write" /\ ~io[o].error =>
    io[o].plain = plan[o].data

\* However writers, readers and removals of one path overlap, the i-th byte of
\* every file is the i-th byte some writer of that file had: contents are blended
\* (the end of a longer buffer behind a shorter one) but never shifted.
BytesKeepTheirPlace ==
  \A n \in FileOps : \A i \in DOMAIN disk[n] :
    \E w \in FileOps : /\ Writer(w) /\ io[w].file = n
                       /\ i <= Len(io[w].buf) /\ disk[n][i] = io[w].buf[i]

\* Every operation that has been queued ends, whatever the others do and
\* however few threads the pool has.
QueuedOperationsEnd == \A o \in FileOps : at[o] = "queued" ~> at[o] = "done"
=============================================================================
