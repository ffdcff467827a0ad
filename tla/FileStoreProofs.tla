-------------------------- MODULE FileStoreProofs --------------------------
(***************************************************************************)
(* Proofs about the file system module. Cipher: AesEncryption::decrypt,    *)
(* which calls encrypt a second time, gives back the data, for every width *)
(* of a byte, every period of rotation, every key and iv and data of every *)
(* length. FileStore: what a read returns and where bytes end up on disk,  *)
(* for any number of operations, paths, pool threads and I/O errors.       *)
(***************************************************************************)
EXTENDS FileStore, TLAPS

\* The exclusive or of two bytes is a byte.
LEMMA XorByte ==
  ASSUME NEW a \in Byte, NEW b \in Byte PROVE Xor(a, b) \in Byte
<1> SUFFICES ASSUME NEW i \in 0..(Width - 1) PROVE (a[i] + b[i]) % 2 \in {0, 1}
  BY DEF Xor, Byte
<1>1. a[i] \in {0, 1} /\ b[i] \in {0, 1} BY DEF Byte
<1> QED BY <1>1

\* Applied twice it gives back the first operand.
LEMMA XorTwice ==
  ASSUME NEW a \in Byte, NEW b \in Byte PROVE Xor(Xor(a, b), b) = a
<1>1. ASSUME NEW i \in 0..(Width - 1) PROVE Xor(Xor(a, b), b)[i] = a[i]
  <2>1. a[i] \in {0, 1} /\ b[i] \in {0, 1} BY DEF Byte
  <2>2. (((a[i] + b[i]) % 2) + b[i]) % 2 = a[i] BY <2>1
  <2> QED BY <2>2 DEF Xor
<1>2. Xor(Xor(a, b), b) = [i \in 0..(Width - 1) |-> Xor(Xor(a, b), b)[i]] BY DEF Xor
<1>3. a = [i \in 0..(Width - 1) |-> a[i]] BY DEF Byte
<1> QED BY <1>1, <1>2, <1>3

\* Rotating a key byte keeps it a byte, however often.
LEMMA RotateByte ==
  ASSUME NEW b \in Byte, NEW n \in Nat PROVE RotateLeft(b, n) \in Byte
<1> SUFFICES ASSUME NEW i \in 0..(Width - 1) PROVE b[(i - n) % Width] \in {0, 1}
  BY DEF RotateLeft, Byte
<1>1. (i - n) % Width \in 0..(Width - 1) BY CipherAssumption
<1> QED BY <1>1 DEF Byte

\* s[i % s.size()] is never out of bounds, the remainder being less than the size.
LEMMA CyclicByte ==
  ASSUME NEW s \in Seq(Byte), s # <<>>, NEW i \in Nat PROVE Cyclic(s, i) \in Byte
<1>1. Len(s) \in Nat \ {0} OBVIOUS
<1>2. (i % Len(s)) + 1 \in 1..Len(s) BY <1>1
<1> QED BY <1>2 DEF Cyclic

\* What the data is combined with at every index is a byte.
LEMMA KeyStreamByte ==
  ASSUME NEW c \in Strategy, c.key # <<>>, NEW i \in Nat PROVE KeyStream(c, i) \in Byte
<1>1. c.key \in Seq(Byte) /\ c.iv \in Seq(Byte) BY DEF Strategy
<1>2. Zero \in Byte BY DEF Zero, Byte
<1>3. Rotations(i) \in Nat BY CipherAssumption DEF Rotations
<1>4. RotateLeft(Cyclic(c.key, i), Rotations(i)) \in Byte
  BY <1>1, <1>3, CyclicByte, RotateByte
<1>5. (IF c.iv = <<>> THEN Zero ELSE Cyclic(c.iv, i)) \in Byte BY <1>1, <1>2, CyclicByte
<1> QED BY <1>4, <1>5, XorByte DEF KeyStream

\* decrypt(encrypt(data)) = data for every strategy, NoEncryption included: the
\* second pass of AesEncryption replays the rotations and the iv from index 0.
THEOREM DecryptInvertsEncrypt ==
  ASSUME NEW c \in Strategy, NEW data \in Seq(Byte)
  PROVE  decrypt(c, encrypt(c, data)) = data
<1>1. CASE c.key = <<>> BY <1>1 DEF decrypt, encrypt
<1>2. CASE c.key # <<>>
  <2> DEFINE sent == [i \in 1..Len(data) |-> Xor(data[i], KeyStream(c, i - 1))]
  <2>1. encrypt(c, data) = sent BY <1>2 DEF encrypt
  <2>2. ASSUME NEW i \in 1..Len(data) PROVE data[i] \in Byte /\ KeyStream(c, i - 1) \in Byte
    <3>1. i - 1 \in Nat OBVIOUS
    <3> QED BY <1>2, <3>1, KeyStreamByte
  <2>3. sent \in Seq(Byte) /\ Len(sent) = Len(data)
    <3>1. Len(data) \in Nat OBVIOUS
    <3>2. ASSUME NEW i \in 1..Len(data) PROVE Xor(data[i], KeyStream(c, i - 1)) \in Byte
      BY <2>2, XorByte
    <3> QED BY <3>1, <3>2
  <2>4. decrypt(c, sent) = [i \in 1..Len(data) |-> Xor(sent[i], KeyStream(c, i - 1))]
    BY <1>2, <2>3 DEF decrypt, encrypt
  <2>5. ASSUME NEW i \in 1..Len(data) PROVE Xor(sent[i], KeyStream(c, i - 1)) = data[i]
    <3>1. sent[i] = Xor(data[i], KeyStream(c, i - 1)) OBVIOUS
    <3> QED BY <2>2, <3>1, XorTwice
  <2>6. data = [i \in 1..Len(data) |-> data[i]] OBVIOUS
  <2> QED BY <2>1, <2>4, <2>5, <2>6
<1> QED BY <1>1, <1>2

-----------------------------------------------------------------------------
(* The files.                                                              *)

Stages == {"idle", "lazy", "queued", "opened", "sized", "flush", "done"}
Snapshots == [known : BOOLEAN, data : Seq(Byte), with : Strategy]
Nodes == FileOps \cup {NoFile}
IoRecords == [file : Nodes, plain : Seq(Byte), buf : Seq(Byte), with : Strategy, size : Nat,
              data : Seq(Byte), error : BOOLEAN, calm : BOOLEAN, expect : Snapshots]

\* Types, and which stages the kinds of operations go through.
FileTypes ==
  /\ plan \in FilePlans
  /\ dir \in [Files -> Nodes]
  /\ disk \in [FileOps -> Seq(Byte)]
  /\ at \in [FileOps -> Stages]
  /\ caller \in [FileOps -> Seq(Byte)]
  /\ io \in [FileOps -> IoRecords]
  /\ encryption \in Strategy /\ faults \in Nat
  /\ saved \in [Files -> Snapshots]
StageFits(o) ==
  /\ at[o] \in {"lazy", "queued"} => Async(o)
  /\ at[o] = "sized" => Reader(o)
  /\ at[o] = "flush" => Writer(o)
  /\ at[o] = "opened" => Reader(o) \/ Writer(o)
  /\ Streaming(o) => io[o].file \in FileOps
StagesFit == \A o \in FileOps : StageFits(o)

\* An inode belongs to the path of the operation that created it.
NodeFits(o) == io[o].file # NoFile => Path(io[o].file) = Path(o)
NodesFit ==
  /\ \A p \in Files : dir[p] # NoFile => Path(dir[p]) = p
  /\ \A o \in FileOps : NodeFits(o)

FileInv == FileTypes /\ StagesFit /\ NodesFit

\* BytesKeepTheirPlace, with a writer that has finished.
PlaceInv ==
  \A n \in FileOps : \A i \in DOMAIN disk[n] :
    \E w \in FileOps : /\ at[w] = "done" /\ Writer(w) /\ io[w].file = n
                       /\ i <= Len(io[w].buf) /\ disk[n][i] = io[w].buf[i]

\* No writer streams to the path p.
Still(p) == \A w \in FileOps : Streaming(w) /\ Writer(w) => Path(w) # p

\* What a calm stream can rely on: nobody else writes to its path.
Calm(o) == \A w \in FileOps \ {o} : Streaming(w) /\ Writer(w) => Path(w) # Path(o)
\* A writer's buffer is the encryption of what it copied,
Encrypted(o) == Writer(o) /\ (at[o] = "flush" \/ (Async(o) /\ at[o] \in {"queued", "opened"}))
                  => io[o].buf = encrypt(io[o].with, io[o].plain)
\* its file is empty until it writes,
Empty(o) == Writer(o) => disk[io[o].file] = <<>>
\* and a reader finds on disk what was saved when it opened the file.
Found(o) == Reader(o) /\ io[o].expect.known =>
              /\ disk[io[o].file] = encrypt(io[o].expect.with, io[o].expect.data)
              /\ at[o] = "sized" => io[o].size = Len(disk[io[o].file])
CalmInv == \A o \in FileOps : Streaming(o) /\ io[o].calm => Calm(o) /\ Empty(o) /\ Found(o)
BufferInv == \A o \in FileOps : Encrypted(o)

\* A path is known to hold saved data only while no writer streams to it.
SavedInv == \A p \in Files : saved[p].known =>
              /\ dir[p] \in FileOps /\ Still(p)
              /\ disk[dir[p]] = encrypt(saved[p].with, saved[p].data)

\* A reader's result.
ResultInv == \A o \in FileOps : Reader(o) =>
  /\ at[o] # "done" => io[o].data = <<>> /\ ~io[o].error
  /\ at[o] = "done" => /\ io[o].error => io[o].data = <<>>
                       /\ ~io[o].error /\ io[o].calm => io[o].data = io[o].expect.data

-----------------------------------------------------------------------------
(* What the steps of an operation do to the local variables.               *)

\* An encrypted buffer is a sequence of bytes.
LEMMA EncryptBytes ==
  ASSUME NEW c \in Strategy, NEW data \in Seq(Byte) PROVE encrypt(c, data) \in Seq(Byte)
<1>1. CASE c.key = <<>> BY <1>1 DEF encrypt
<1>2. CASE c.key # <<>>
  <2>1. ASSUME NEW i \in 1..Len(data) PROVE Xor(data[i], KeyStream(c, i - 1)) \in Byte
    <3>1. i - 1 \in Nat /\ data[i] \in Byte OBVIOUS
    <3> QED BY <1>2, <3>1, KeyStreamByte, XorByte
  <2>2. Len(data) \in Nat OBVIOUS
  <2> QED BY <1>2, <2>1, <2>2 DEF encrypt
<1> QED BY <1>1, <1>2

\* The plan of an operation, which no step changes.
LEMMA PlanFields ==
  ASSUME plan \in FilePlans, NEW o \in FileOps
  PROVE  /\ Path(o) \in Files /\ plan[o].data \in Seq(Byte)
         /\ Kind(o) \in {"read", "write", "load", "save", "remove"}
BY FileAssumption DEF Path, Kind

\* The fields of the local variables.
LEMMA IoFields ==
  ASSUME FileTypes, NEW o \in FileOps
  PROVE  /\ io[o] \in IoRecords
         /\ io[o].file \in Nodes /\ io[o].plain \in Seq(Byte) /\ io[o].buf \in Seq(Byte)
         /\ io[o].with \in Strategy /\ io[o].size \in Nat /\ io[o].data \in Seq(Byte)
         /\ io[o].error \in BOOLEAN /\ io[o].calm \in BOOLEAN /\ io[o].expect \in Snapshots
         /\ NoFile \notin FileOps
BY FileAssumption DEF FileTypes, IoRecords, NoFile

\* No encryption is a strategy.
LEMMA NoEncryptionType == NoEncryption \in Strategy /\ Unknown \in Snapshots
BY DEF NoEncryption, Strategy, Unknown, Snapshots

\* The local variables of q but for calm, which is only ever lost.
Kept(q) ==
  /\ io'[q].file = io[q].file /\ io'[q].plain = io[q].plain /\ io'[q].buf = io[q].buf
  /\ io'[q].with = io[q].with /\ io'[q].size = io[q].size /\ io'[q].data = io[q].data
  /\ io'[q].error = io[q].error /\ io'[q].expect = io[q].expect
  /\ io'[q].calm => io[q].calm

\* A step of o is nobody else's.
Alone(o) == \A q \in FileOps \ {o} : at'[q] = at[q] /\ Kept(q)

\* Meet writes the history fields of o, and disturbs the streams on the path.
Met(o, r, q) ==
  /\ r.file = io[q].file /\ r.plain = io[q].plain /\ r.buf = io[q].buf /\ r.with = io[q].with
  /\ r.size = io[q].size /\ r.data = io[q].data /\ r.error = io[q].error
  /\ q = o => /\ r.expect = saved[Path(o)]
              /\ r.calm <=> Calm(o)
  /\ q # o => /\ r.expect = io[q].expect
              /\ r.calm => io[q].calm
              /\ r.calm /\ ~Reader(o) /\ Streaming(q) => Path(q) # Path(o)

\* Meet gives every operation a good record of that kind.
LEMMA MeetFields ==
  ASSUME FileTypes, NEW o \in FileOps, NEW q \in FileOps
  PROVE  Meet(o) \in [FileOps -> IoRecords] /\ Met(o, Meet(o)[q], q)
<1>1. Path(o) \in Files /\ saved[Path(o)] \in Snapshots
  BY PlanFields DEF FileTypes
<1> DEFINE calm == ~\E w \in FileOps \ {o} : Streaming(w) /\ Writer(w) /\ Path(w) = Path(o)
           R(x) == IF x = o THEN [io[o] EXCEPT !.expect = saved[Path(o)], !.calm = calm]
                   ELSE IF ~Reader(o) /\ Streaming(x) /\ Path(x) = Path(o) THEN [io[x] EXCEPT !.calm = FALSE]
                   ELSE io[x]
<1>2. calm \in BOOLEAN /\ (calm <=> Calm(o))
  BY DEF Calm
<1>3. Meet(o) = [x \in FileOps |-> R(x)]
  BY DEF Meet
<1> HIDE DEF calm
<1>4. \A x \in FileOps : R(x) \in IoRecords
  BY <1>1, <1>2, IoFields DEF IoRecords
<1>5. Met(o, R(q), q)
  <2>1. io[q] \in IoRecords /\ io[o] \in IoRecords
    BY IoFields
  <2>2. CASE q = o
    BY <1>1, <1>2, <2>1, <2>2 DEF Met, IoRecords
  <2>3. CASE q # o /\ ~Reader(o) /\ Streaming(q) /\ Path(q) = Path(o)
    BY <2>1, <2>3 DEF Met, IoRecords
  <2>4. CASE q # o /\ ~(~Reader(o) /\ Streaming(q) /\ Path(q) = Path(o))
    BY <2>1, <2>4 DEF Met, IoRecords
  <2> QED BY <2>2, <2>3, <2>4
<1> HIDE DEF R
<1> QED BY <1>3, <1>4, <1>5

\* A step of o that changes its own local variables only.
LEMMA OwnStep ==
  ASSUME FileTypes, NEW o \in FileOps, NEW r \in IoRecords, NEW a \in Stages,
         io' = [io EXCEPT ![o] = r], at' = [at EXCEPT ![o] = a]
  PROVE  /\ io' \in [FileOps -> IoRecords] /\ at' \in [FileOps -> Stages] /\ Alone(o)
         /\ io'[o] = r /\ at'[o] = a
BY DEF Alone, Kept, FileTypes

\* A step of o that meets the other operations on its path.
LEMMA MeetStep ==
  ASSUME FileTypes, NEW o \in FileOps, NEW r \in IoRecords, NEW a \in Stages,
         io' = [Meet(o) EXCEPT ![o] = r], at' = [at EXCEPT ![o] = a]
  PROVE  /\ io' \in [FileOps -> IoRecords] /\ at' \in [FileOps -> Stages] /\ Alone(o)
         /\ io'[o] = r /\ at'[o] = a
         /\ \A q \in FileOps \ {o} : Met(o, io'[q], q)
<1>1. Meet(o) \in [FileOps -> IoRecords] /\ \A q \in FileOps : Met(o, Meet(o)[q], q)
  BY MeetFields
<1>2. io' \in [FileOps -> IoRecords] /\ io'[o] = r /\ \A q \in FileOps \ {o} : io'[q] = Meet(o)[q]
  BY <1>1
<1>3. at' \in [FileOps -> Stages] /\ at'[o] = a /\ \A q \in FileOps \ {o} : at'[q] = at[q]
  BY DEF FileTypes
<1>4. \A q \in FileOps \ {o} : Met(o, io'[q], q)
  BY <1>1, <1>2
<1>5. \A q \in FileOps \ {o} : Kept(q)
  BY <1>4 DEF Met, Kept
<1> QED BY <1>2, <1>3, <1>4, <1>5 DEF Alone

\* The first resumption fills the buffer of a writer.
LEMMA ResumeFacts ==
  ASSUME FileTypes, NEW o \in FileOps, Resume(o)
  PROVE  /\ io' \in [FileOps -> IoRecords] /\ at' \in [FileOps -> Stages] /\ Alone(o)
         /\ at'[o] = "queued"
         /\ io'[o].file = io[o].file /\ io'[o].data = io[o].data /\ io'[o].error = io[o].error
         /\ Kind(o) = "write" => io'[o].buf = encrypt(io'[o].with, io'[o].plain)
<1>1. io[o] \in IoRecords /\ caller[o] \in Seq(Byte) /\ AsyncKey \in Strategy
      /\ encrypt(AsyncKey, caller[o]) \in Seq(Byte) /\ "queued" \in Stages
  BY IoFields, EncryptBytes, FileAssumption DEF FileTypes, Stages
<1>2. at' = [at EXCEPT ![o] = "queued"]
  BY DEF Resume
<1> DEFINE r == [io[o] EXCEPT !.plain = caller[o], !.with = AsyncKey, !.buf = encrypt(AsyncKey, caller[o])]
<1>3. /\ r \in IoRecords /\ r.file = io[o].file /\ r.data = io[o].data /\ r.error = io[o].error
      /\ r.buf = encrypt(r.with, r.plain)
  BY <1>1 DEF IoRecords
<1>4. io' = [io EXCEPT ![o] = io[o]] \/ io' = [io EXCEPT ![o] = r]
  BY DEF Resume, FileTypes
<1>5. Kind(o) = "write" => io' = [io EXCEPT ![o] = r]
  BY DEF Resume, FileTypes
<1> HIDE DEF r
<1> QED BY <1>1, <1>2, <1>3, <1>4, <1>5, OwnStep

\* A file that cannot be opened.
LEMMA OpenFailsFacts ==
  ASSUME FileTypes, NEW o \in FileOps, OpenFails(o)
  PROVE  /\ io' \in [FileOps -> IoRecords] /\ at' \in [FileOps -> Stages] /\ Alone(o)
         /\ at'[o] = "done" /\ ~io'[o].calm
         /\ io'[o].file = io[o].file /\ io'[o].data = io[o].data
<1>1. io[o] \in IoRecords /\ "done" \in Stages
  BY IoFields DEF Stages
<1>2. at' = [at EXCEPT ![o] = "done"]
  BY DEF OpenFails
<1> DEFINE r == [io[o] EXCEPT !.error = Kind(o) # "load", !.calm = FALSE]
<1>3. r \in IoRecords /\ r.file = io[o].file /\ r.data = io[o].data /\ ~r.calm
  BY <1>1 DEF IoRecords
<1>4. io' = [io EXCEPT ![o] = r]
  BY DEF OpenFails, FileTypes
<1> HIDE DEF r
<1> QED BY <1>1, <1>2, <1>3, <1>4, OwnStep

\* A reader opens the file its path names.
LEMMA OpenReadFacts ==
  ASSUME FileTypes, NEW o \in FileOps, OpenRead(o)
  PROVE  /\ io' \in [FileOps -> IoRecords] /\ at' \in [FileOps -> Stages] /\ Alone(o)
         /\ at'[o] = "opened" /\ io'[o].file = dir[Path(o)] /\ dir[Path(o)] \in FileOps
         /\ io'[o].data = io[o].data /\ io'[o].error = io[o].error
         /\ io'[o].expect = saved[Path(o)] /\ (io'[o].calm <=> Calm(o))
<1>1. "opened" \in Stages /\ dir[Path(o)] \in FileOps
  BY PlanFields DEF Stages, OpenRead, FileTypes, Nodes
<1>2. at' = [at EXCEPT ![o] = "opened"]
  BY DEF OpenRead
<1>3. Meet(o) \in [FileOps -> IoRecords] /\ Met(o, Meet(o)[o], o)
  BY MeetFields
<1> DEFINE r == [Meet(o)[o] EXCEPT !.file = dir[Path(o)]]
<1>4. /\ r \in IoRecords /\ r.file = dir[Path(o)] /\ r.data = io[o].data /\ r.error = io[o].error
      /\ r.expect = saved[Path(o)] /\ (r.calm <=> Calm(o))
  BY <1>1, <1>3 DEF IoRecords, Met, Nodes
<1>5. io' = [Meet(o) EXCEPT ![o] = r]
  BY <1>3 DEF OpenRead
<1> HIDE DEF r
<1> QED BY <1>1, <1>2, <1>4, <1>5, MeetStep

\* The inode a writer opens: the one its path names, or a new one.
Target(o) == IF dir[Path(o)] = NoFile THEN o ELSE dir[Path(o)]

\* A writer opens its file, truncates it and disturbs the streams on the path.
LEMMA OpenWriteFacts ==
  ASSUME FileTypes, NEW o \in FileOps, OpenWrite(o)
  PROVE  /\ io' \in [FileOps -> IoRecords] /\ at' \in [FileOps -> Stages] /\ Alone(o)
         /\ at'[o] = "opened" /\ io'[o].file = Target(o) /\ Target(o) \in FileOps
         /\ io'[o].buf = io[o].buf /\ io'[o].with = io[o].with /\ io'[o].plain = io[o].plain
         /\ io'[o].calm <=> Calm(o)
         /\ \A q \in FileOps \ {o} : io'[q].calm /\ Streaming(q) => Path(q) # Path(o)
         /\ dir' = [dir EXCEPT ![Path(o)] = Target(o)]
         /\ disk' = [disk EXCEPT ![Target(o)] = <<>>]
         /\ saved' = [saved EXCEPT ![Path(o)] = Unknown]
<1>1. "opened" \in Stages /\ Target(o) \in FileOps
  BY PlanFields DEF Stages, FileTypes, Nodes, Target
<1>2. at' = [at EXCEPT ![o] = "opened"] /\ ~Reader(o)
  BY DEF OpenWrite, Writer, Reader
<1>3. Meet(o) \in [FileOps -> IoRecords] /\ Met(o, Meet(o)[o], o)
  BY MeetFields
<1> DEFINE r == [Meet(o)[o] EXCEPT !.file = Target(o)]
<1>4. /\ r \in IoRecords /\ r.file = Target(o) /\ r.buf = io[o].buf /\ r.with = io[o].with
      /\ r.plain = io[o].plain /\ (r.calm <=> Calm(o))
  BY <1>1, <1>3 DEF IoRecords, Met, Nodes
<1>5. io' = [Meet(o) EXCEPT ![o] = r]
  BY <1>3 DEF OpenWrite, Target
<1>6. /\ dir' = [dir EXCEPT ![Path(o)] = Target(o)]
      /\ disk' = [disk EXCEPT ![Target(o)] = <<>>]
      /\ saved' = [saved EXCEPT ![Path(o)] = Unknown]
  BY DEF OpenWrite, Target
<1> HIDE DEF r
<1>7. \A q \in FileOps \ {o} : Met(o, io'[q], q)
  BY <1>1, <1>2, <1>4, <1>5, MeetStep
<1>8. \A q \in FileOps \ {o} : io'[q].calm /\ Streaming(q) => Path(q) # Path(o)
  BY <1>2, <1>7 DEF Met
<1> QED BY <1>1, <1>2, <1>4, <1>5, <1>6, <1>8, MeetStep

-----------------------------------------------------------------------------
(* Reading                                                                 *)

\* What is on disk at the inode of an open stream.
LEMMA OpenBytes ==
  ASSUME FileInv, NEW o \in FileOps, Streaming(o)
  PROVE  io[o].file \in FileOps /\ disk[io[o].file] \in Seq(Byte)
BY DEF FileInv, StagesFit, StageFits, FileTypes

\* The size of the file is measured.
LEMMA MeasureFacts ==
  ASSUME FileInv, NEW o \in FileOps, Measure(o)
  PROVE  /\ io' \in [FileOps -> IoRecords] /\ at' \in [FileOps -> Stages] /\ Alone(o)
         /\ at'[o] = "sized" /\ io'[o].size = Len(disk[io[o].file])
         /\ io'[o].file = io[o].file /\ io'[o].data = io[o].data /\ io'[o].error = io[o].error
         /\ io'[o].expect = io[o].expect /\ io'[o].calm = io[o].calm
<1>1. io[o] \in IoRecords /\ "sized" \in Stages /\ FileTypes
  BY IoFields DEF Stages, FileInv
<1>2. at' = [at EXCEPT ![o] = "sized"] /\ Streaming(o)
  BY DEF Measure, Streaming
<1>3. Len(disk[io[o].file]) \in Nat
  BY <1>2, OpenBytes
<1> DEFINE r == [io[o] EXCEPT !.size = Len(disk[io[o].file])]
<1>4. /\ r \in IoRecords /\ r.file = io[o].file /\ r.data = io[o].data /\ r.error = io[o].error
      /\ r.size = Len(disk[io[o].file]) /\ r.expect = io[o].expect /\ r.calm = io[o].calm
  BY <1>1, <1>3 DEF IoRecords
<1>5. io' = [io EXCEPT ![o] = r]
  BY <1>1 DEF Measure, FileTypes
<1> HIDE DEF r
<1> QED BY <1>1, <1>2, <1>4, <1>5, OwnStep

\* The bytes that arrive are bytes, and those of the file if its size is the one
\* that was measured.
LEMMA TransferredBytes ==
  ASSUME FileInv, NEW o \in FileOps, Streaming(o)
  PROVE  /\ Transferred(o) \in Seq(Byte)
         /\ io[o].size = Len(disk[io[o].file]) => Transferred(o) = disk[io[o].file]
<1> DEFINE bytes == disk[io[o].file]
           n == io[o].size
<1>1. bytes \in Seq(Byte) /\ n \in Nat /\ Zero \in Byte
  BY OpenBytes, IoFields DEF FileInv, Zero, Byte
<1>2. Transferred(o) = [i \in 1..n |-> IF i <= Len(bytes) THEN bytes[i] ELSE Zero]
  BY DEF Transferred
<1> HIDE DEF bytes, n
<1>3. Transferred(o) \in Seq(Byte)
  BY <1>1, <1>2
<1>4. ASSUME n = Len(bytes) PROVE Transferred(o) = bytes
  <2>1. Transferred(o) = [i \in 1..Len(bytes) |-> bytes[i]]
    BY <1>1, <1>2, <1>4
  <2>2. bytes = [i \in 1..Len(bytes) |-> bytes[i]]
    BY <1>1
  <2> QED BY <2>1, <2>2
<1> QED BY <1>3, <1>4 DEF bytes, n

\* The key of a reader.
LEMMA KeyType == ASSUME FileInv, NEW o \in FileOps PROVE KeyOf(o) \in Strategy
BY FileAssumption DEF FileInv, FileTypes, KeyOf

\* The bytes are read and decrypted.
LEMMA ReadFacts ==
  ASSUME FileInv, NEW o \in FileOps, Read(o)
  PROVE  /\ io' \in [FileOps -> IoRecords] /\ at' \in [FileOps -> Stages] /\ Alone(o)
         /\ at'[o] = "done" /\ io'[o].data = decrypt(KeyOf(o), Transferred(o))
         /\ io'[o].file = io[o].file /\ io'[o].error = io[o].error /\ io'[o].expect = io[o].expect
         /\ io'[o].calm => io[o].calm /\ io[o].expect.known /\ io[o].expect.with = KeyOf(o)
<1>1. io[o] \in IoRecords /\ "done" \in Stages /\ FileTypes
  BY IoFields DEF Stages, FileInv
<1>2. at' = [at EXCEPT ![o] = "done"] /\ Streaming(o)
  BY DEF Read, Streaming
<1>3. decrypt(KeyOf(o), Transferred(o)) \in Seq(Byte)
  BY <1>2, TransferredBytes, KeyType, EncryptBytes DEF decrypt
<1> DEFINE calm == io[o].calm /\ io[o].expect.known /\ io[o].expect.with = KeyOf(o)
           r == [io[o] EXCEPT !.data = decrypt(KeyOf(o), Transferred(o)), !.calm = calm]
<1>4. calm \in BOOLEAN
  OBVIOUS
<1>5. io' = [io EXCEPT ![o] = r]
  BY <1>1 DEF Read, FileTypes
<1> HIDE DEF calm
<1>6. /\ r \in IoRecords /\ r.file = io[o].file /\ r.error = io[o].error
      /\ r.data = decrypt(KeyOf(o), Transferred(o)) /\ r.expect = io[o].expect /\ r.calm = calm
  BY <1>1, <1>3, <1>4 DEF IoRecords
<1> HIDE DEF r
<1>7. io'[o] = r
  BY <1>1, <1>2, <1>5, <1>6, OwnStep
<1>8. io'[o].calm => io[o].calm /\ io[o].expect.known /\ io[o].expect.with = KeyOf(o)
  BY <1>6, <1>7 DEF calm
<1> QED BY <1>1, <1>2, <1>5, <1>6, <1>8, OwnStep

\* A read that fails leaves nothing to rely on.
LEMMA ReadFailsFacts ==
  ASSUME FileInv, NEW o \in FileOps, ReadFails(o)
  PROVE  /\ io' \in [FileOps -> IoRecords] /\ at' \in [FileOps -> Stages] /\ Alone(o)
         /\ at'[o] = "done" /\ io'[o].file = io[o].file
         /\ io'[o].error => io'[o].data = <<>>
         /\ ~io'[o].calm
<1>1. io[o] \in IoRecords /\ io[o].size \in Nat /\ "done" \in Stages /\ FileTypes /\ Zero \in Byte
  BY IoFields DEF Stages, FileInv, Zero, Byte
<1>2. at' = [at EXCEPT ![o] = "done"]
  BY DEF ReadFails
<1> DEFINE zeros == [i \in 1..io[o].size |-> Zero]
           d == IF Async(o) THEN <<>> ELSE decrypt(encryption, zeros)
           r == [io[o] EXCEPT !.error = Async(o), !.calm = FALSE, !.data = d]
<1>3. zeros \in Seq(Byte)
  BY <1>1
<1>4. d \in Seq(Byte) /\ (Async(o) => d = <<>>)
  BY <1>1, <1>3, EncryptBytes DEF FileTypes, decrypt
<1>5. io' = [io EXCEPT ![o] = r]
  BY <1>1 DEF ReadFails, FileTypes
<1> HIDE DEF zeros, d
<1>6. Async(o) \in BOOLEAN
  BY DEF Async
<1>7. r \in IoRecords /\ r.file = io[o].file /\ r.error = Async(o) /\ r.data = d /\ ~r.calm
  BY <1>1, <1>4, <1>6 DEF IoRecords
<1> HIDE DEF r
<1> QED BY <1>1, <1>2, <1>4, <1>5, <1>7, OwnStep

-----------------------------------------------------------------------------
(* Writing                                                                 *)

\* The local variables after the buffer has been filled: of o, its buffer is the
\* encryption of what it was given.
LEMMA FilledFacts ==
  ASSUME FileInv, BufferInv, NEW o \in FileOps, Writer(o), at[o] = "opened"
  PROVE  \E r \in IoRecords :
           /\ Filled(o) = [io EXCEPT ![o] = r]
           /\ r.buf = encrypt(r.with, r.plain)
           /\ r.file = io[o].file /\ r.calm = io[o].calm
<1>1. io[o] \in IoRecords /\ caller[o] \in Seq(Byte) /\ encryption \in Strategy /\ io \in [FileOps -> IoRecords]
  BY IoFields DEF FileInv, FileTypes
<1>2. CASE Async(o)
  <2>1. Filled(o) = [io EXCEPT ![o] = io[o]]
    BY <1>1, <1>2 DEF Filled
  <2>2. io[o].buf = encrypt(io[o].with, io[o].plain)
    BY <1>2 DEF BufferInv, Encrypted
  <2> QED BY <1>1, <2>1, <2>2
<1>3. CASE ~Async(o)
  <2> DEFINE r == [io[o] EXCEPT !.plain = caller[o], !.with = encryption, !.buf = encrypt(encryption, caller[o])]
  <2>1. encrypt(encryption, caller[o]) \in Seq(Byte)
    BY <1>1, EncryptBytes
  <2>2. /\ r \in IoRecords /\ r.buf = encrypt(r.with, r.plain)
        /\ r.file = io[o].file /\ r.calm = io[o].calm
    BY <1>1, <2>1 DEF IoRecords
  <2>3. Filled(o) = [io EXCEPT ![o] = r]
    BY <1>1, <1>3 DEF Filled
  <2> HIDE DEF r
  <2> QED BY <2>2, <2>3
<1> QED BY <1>2, <1>3

\* A short buffer stays in the stream.
LEMMA WriteBufferedFacts ==
  ASSUME FileInv, BufferInv, NEW o \in FileOps, WriteBuffered(o)
  PROVE  /\ io' \in [FileOps -> IoRecords] /\ at' \in [FileOps -> Stages] /\ Alone(o)
         /\ at'[o] = "flush" /\ io'[o].buf = encrypt(io'[o].with, io'[o].plain)
         /\ io'[o].file = io[o].file /\ io'[o].calm = io[o].calm
<1>1. PICK r \in IoRecords : /\ Filled(o) = [io EXCEPT ![o] = r]
                             /\ r.buf = encrypt(r.with, r.plain)
                             /\ r.file = io[o].file /\ r.calm = io[o].calm
  BY FilledFacts DEF WriteBuffered
<1>2. io' = [io EXCEPT ![o] = r] /\ at' = [at EXCEPT ![o] = "flush"]
  BY <1>1 DEF WriteBuffered
<1>3. FileTypes /\ "flush" \in Stages
  BY DEF FileInv, Stages
<1> QED BY <1>1, <1>2, <1>3, OwnStep

\* part is what the device takes of bytes.
Part(part, bytes) ==
  /\ part \in Seq(Byte) /\ Len(part) <= Len(bytes)
  /\ \A i \in 1..Len(part) : part[i] = bytes[i]

\* The device takes all of the bytes, or fails after some.
LEMMA TransferFacts ==
  ASSUME FileInv, NEW o \in FileOps, NEW bytes \in Seq(Byte), Transfer(o, bytes)
  PROVE  /\ faults' \in Nat
         /\ \E part : /\ Part(part, bytes)
                      /\ disk' = [disk EXCEPT ![io[o].file] = Overlay(part, @)]
                      /\ faults' = faults => part = bytes
<1>1. faults \in Nat
  BY DEF FileInv, FileTypes
<1>2. CASE disk' = [disk EXCEPT ![io[o].file] = Overlay(bytes, @)] /\ UNCHANGED faults
  <2>1. Part(bytes, bytes)
    BY DEF Part
  <2> QED BY <1>1, <1>2, <2>1
<1>3. ASSUME Fault, NEW n \in 0..(Len(bytes) - 1),
             disk' = [disk EXCEPT ![io[o].file] = Overlay(SubSeq(bytes, 1, n), @)]
      PROVE  /\ faults' \in Nat
             /\ \E part : /\ Part(part, bytes)
                          /\ disk' = [disk EXCEPT ![io[o].file] = Overlay(part, @)]
                          /\ faults' = faults => part = bytes
  <2>1. faults' \in Nat /\ faults' # faults
    BY <1>1, <1>3 DEF Fault
  <2>2. Part(SubSeq(bytes, 1, n), bytes)
    BY DEF Part
  <2> QED BY <1>3, <2>1, <2>2
<1> QED BY <1>2, <1>3 DEF Transfer

\* A writer has transferred its buffer or some of it, and says what it left.
Leaves(o, whole) ==
  IF whole /\ io[o].calm /\ dir[Path(o)] = io[o].file /\ io'[o].plain = plan[o].data
    THEN [known |-> TRUE, data |-> plan[o].data, with |-> io'[o].with] ELSE Unknown
Written(o, part, whole) ==
  /\ Part(part, io'[o].buf) /\ (whole => part = io'[o].buf)
  /\ disk' = [disk EXCEPT ![io[o].file] = Overlay(part, @)]
  /\ saved' = [saved EXCEPT ![Path(o)] = Leaves(o, whole)]

\* A long buffer is written at once.
LEMMA WriteThroughFacts ==
  ASSUME FileInv, BufferInv, NEW o \in FileOps, WriteThrough(o)
  PROVE  /\ io' \in [FileOps -> IoRecords] /\ at' \in [FileOps -> Stages] /\ Alone(o)
         /\ faults' \in Nat /\ UNCHANGED <<dir, caller, encryption>>
         /\ at'[o] = "done" /\ io'[o].buf = encrypt(io'[o].with, io'[o].plain)
         /\ io'[o].file = io[o].file /\ Streaming(o) /\ Writer(o)
         /\ \E part : \E whole \in BOOLEAN : Written(o, part, whole)
<1>1. PICK r \in IoRecords : /\ Filled(o) = [io EXCEPT ![o] = r]
                             /\ r.buf = encrypt(r.with, r.plain)
                             /\ r.file = io[o].file /\ r.calm = io[o].calm
  BY FilledFacts DEF WriteThrough
<1>2. FileTypes /\ "done" \in Stages /\ Writer(o) /\ Streaming(o)
  BY DEF FileInv, Stages, WriteThrough, Streaming
<1>3. Filled(o)[o] = r
  BY <1>1, <1>2 DEF FileTypes
<1>4. r.buf \in Seq(Byte) /\ Transfer(o, r.buf)
  BY <1>1, <1>3 DEF WriteThrough, IoRecords
<1> DEFINE failed == faults' # faults
           z == [r EXCEPT !.error = failed]
<1>5. failed \in BOOLEAN
  OBVIOUS
<1>6. io' = [Filled(o) EXCEPT ![o].error = failed] /\ at' = [at EXCEPT ![o] = "done"]
  BY DEF WriteThrough
<1>7. io' = [io EXCEPT ![o] = z]
  BY <1>1, <1>2, <1>6 DEF FileTypes
<1> HIDE DEF failed
<1>8. /\ z \in IoRecords /\ z.buf = r.buf /\ z.with = r.with /\ z.plain = r.plain /\ z.error = failed
      /\ z.file = io[o].file
  BY <1>1, <1>5 DEF IoRecords
<1> HIDE DEF z
<1>9. io' \in [FileOps -> IoRecords] /\ at' \in [FileOps -> Stages] /\ Alone(o) /\ io'[o] = z /\ at'[o] = "done"
  BY <1>2, <1>6, <1>7, <1>8, OwnStep
<1>10. /\ saved' = [saved EXCEPT ![Path(o)] = Leaves(o, ~io'[o].error)]
       /\ UNCHANGED <<dir, caller, encryption>>
  BY DEF WriteThrough, Settle, Leaves
<1>11. faults' \in Nat /\ \E part : /\ Part(part, r.buf)
                                    /\ disk' = [disk EXCEPT ![io[o].file] = Overlay(part, @)]
                                    /\ faults' = faults => part = r.buf
  BY <1>4, TransferFacts
<1>12. ~io'[o].error => faults' = faults
  BY <1>8, <1>9 DEF failed
<1>13. \E part : Written(o, part, ~io'[o].error)
  BY <1>8, <1>9, <1>10, <1>11, <1>12 DEF Written
<1>14. (~io'[o].error) \in BOOLEAN
  OBVIOUS
<1> QED BY <1>1, <1>2, <1>8, <1>9, <1>10, <1>11, <1>13, <1>14

\* Closing a stream writes what it holds.
LEMMA CloseFacts ==
  ASSUME FileInv, BufferInv, NEW o \in FileOps, Close(o)
  PROVE  /\ io' \in [FileOps -> IoRecords] /\ at' \in [FileOps -> Stages] /\ Alone(o)
         /\ faults' \in Nat /\ UNCHANGED <<dir, caller, encryption>>
         /\ at'[o] = "done" /\ io'[o].buf = encrypt(io'[o].with, io'[o].plain)
         /\ io'[o].file = io[o].file /\ Streaming(o) /\ Writer(o)
         /\ \E part : \E whole \in BOOLEAN : Written(o, part, whole)
<1>1. FileTypes /\ "done" \in Stages /\ Writer(o) /\ Streaming(o) /\ io[o] \in IoRecords
  BY IoFields DEF FileInv, StagesFit, StageFits, Stages, Close, Streaming
<1>2. io' = [io EXCEPT ![o] = io[o]] /\ at' = [at EXCEPT ![o] = "done"] /\ UNCHANGED io
  BY <1>1 DEF Close, FileTypes
<1>3. io[o].buf \in Seq(Byte) /\ Transfer(o, io[o].buf) /\ io[o].buf = encrypt(io[o].with, io[o].plain)
  BY <1>1, IoFields DEF Close, BufferInv, Encrypted
<1>4. io' \in [FileOps -> IoRecords] /\ at' \in [FileOps -> Stages] /\ Alone(o) /\ at'[o] = "done"
  BY <1>1, <1>2, OwnStep
<1>5. /\ saved' = [saved EXCEPT ![Path(o)] = Leaves(o, faults' = faults)]
      /\ UNCHANGED <<dir, caller, encryption>>
  BY DEF Close, Settle, Leaves
<1>6. faults' \in Nat /\ \E part : /\ Part(part, io[o].buf)
                                   /\ disk' = [disk EXCEPT ![io[o].file] = Overlay(part, @)]
                                   /\ faults' = faults => part = io[o].buf
  BY <1>3, TransferFacts
<1>7. \E part : Written(o, part, faults' = faults)
  BY <1>2, <1>5, <1>6 DEF Written
<1>8. (faults' = faults) \in BOOLEAN
  OBVIOUS
<1> QED BY <1>1, <1>2, <1>3, <1>4, <1>5, <1>6, <1>7, <1>8

\* Removing a name disturbs the streams on the path.
LEMMA RemoveFacts ==
  ASSUME FileTypes, NEW o \in FileOps, RemoveFile(o)
  PROVE  /\ io' \in [FileOps -> IoRecords] /\ at' \in [FileOps -> Stages] /\ Alone(o)
         /\ at'[o] = "done" /\ io'[o].file = io[o].file /\ ~Reader(o)
         /\ \A q \in FileOps \ {o} : io'[q].calm /\ Streaming(q) => Path(q) # Path(o)
<1>1. "done" \in Stages /\ at' = [at EXCEPT ![o] = "done"] /\ ~Reader(o)
  BY DEF Stages, RemoveFile, Reader
<1>2. Meet(o) \in [FileOps -> IoRecords] /\ Met(o, Meet(o)[o], o)
  BY MeetFields
<1> DEFINE missing == dir[Path(o)] = NoFile
           r == [Meet(o)[o] EXCEPT !.error = missing]
<1>3. io' = [Meet(o) EXCEPT ![o] = r]
  BY <1>2 DEF RemoveFile
<1>4. missing \in BOOLEAN
  OBVIOUS
<1> HIDE DEF missing
<1>5. r \in IoRecords /\ r.file = io[o].file
  BY <1>2, <1>4 DEF IoRecords, Met
<1> HIDE DEF r
<1>6. \A q \in FileOps \ {o} : Met(o, io'[q], q)
  BY <1>1, <1>3, <1>5, MeetStep
<1>7. \A q \in FileOps \ {o} : io'[q].calm /\ Streaming(q) => Path(q) # Path(o)
  BY <1>1, <1>6 DEF Met
<1> QED BY <1>1, <1>3, <1>5, <1>7, MeetStep

-----------------------------------------------------------------------------
(* Types, stages and inodes.                                               *)

\* No step changes the plan, hence the kinds and the paths.
LEMMA SamePlan ==
  ASSUME plan' = plan, NEW q
  PROVE  /\ Path(q)' = Path(q) /\ Kind(q)' = Kind(q)
         /\ Async(q)' <=> Async(q)
         /\ Reader(q)' <=> Reader(q)
         /\ Writer(q)' <=> Writer(q)
         /\ ~(Reader(q) /\ Writer(q))
         /\ (Kind(q) = "write" <=> Async(q) /\ Writer(q))
BY DEF Path, Kind, Async, Reader, Writer

\* Whoever takes no step keeps its stage, its inode and its buffer.
LEMMA OthersFit ==
  ASSUME FileInv, BufferInv, plan' = plan, NEW o \in FileOps, Alone(o), NEW q \in FileOps \ {o}
  PROVE  /\ StageFits(q)' /\ NodeFits(q)' /\ Encrypted(q)'
         /\ Streaming(q)' <=> Streaming(q)
<1>1. at'[q] = at[q] /\ Kept(q) /\ StageFits(q) /\ NodeFits(q) /\ Encrypted(q)
  BY DEF Alone, FileInv, StagesFit, NodesFit, BufferInv
<1>2. /\ Path(q)' = Path(q) /\ Path(io[q].file)' = Path(io'[q].file)
      /\ (Async(q)' <=> Async(q)) /\ (Reader(q)' <=> Reader(q)) /\ (Writer(q)' <=> Writer(q))
  BY SamePlan DEF Path
<1>3. Streaming(q)' <=> Streaming(q)
  BY <1>1 DEF Streaming
<1> QED BY <1>1, <1>2, <1>3 DEF StageFits, NodeFits, Encrypted, Kept

\* What o itself must see to.
OwnFit(o) == StageFits(o)' /\ NodeFits(o)' /\ Encrypted(o)'

\* A step that leaves directory, disk and history alone.
LEMMA QuietStep ==
  ASSUME FileInv, BufferInv, plan' = plan, NEW o \in FileOps,
         io' \in [FileOps -> IoRecords], at' \in [FileOps -> Stages], Alone(o),
         OwnFit(o), faults' \in Nat, UNCHANGED <<dir, disk, caller, encryption, saved>>
  PROVE  FileInv' /\ BufferInv'
<1>1. FileTypes'
  BY DEF FileInv, FileTypes
<1>2. StagesFit' /\ BufferInv' /\ \A q \in FileOps : NodeFits(q)'
  BY OthersFit DEF StagesFit, BufferInv, OwnFit
<1>3. NodesFit'
  BY <1>2, SamePlan DEF FileInv, NodesFit
<1> QED BY <1>1, <1>2, <1>3 DEF FileInv

\* The steps that read or prepare.
LEMMA QuietActions ==
  ASSUME FileInv, BufferInv, plan' = plan, NEW o \in FileOps,
         CallAsync(o) \/ Resume(o) \/ OpenFails(o) \/ OpenRead(o) \/ Measure(o) \/ Read(o)
           \/ ReadFails(o) \/ WriteBuffered(o)
  PROVE  FileInv' /\ BufferInv'
<1>1. /\ FileTypes /\ StageFits(o) /\ NodeFits(o) /\ Encrypted(o) /\ faults \in Nat
      /\ io[o] \in IoRecords /\ NoFile \notin FileOps
  BY IoFields DEF FileInv, FileTypes, StagesFit, NodesFit, BufferInv
<1>2. /\ Path(o)' = Path(o) /\ Path(io[o].file)' = Path(io'[o].file) /\ Kind(o)' = Kind(o)
      /\ (Async(o)' <=> Async(o)) /\ (Reader(o)' <=> Reader(o)) /\ (Writer(o)' <=> Writer(o))
      /\ ~(Reader(o) /\ Writer(o)) /\ (Kind(o) = "write" <=> Async(o) /\ Writer(o))
  BY SamePlan DEF Path
<1>3. CASE CallAsync(o)
  <2>1. at' = [at EXCEPT ![o] = "lazy"] /\ Async(o) /\ "lazy" \in Stages
        /\ UNCHANGED <<dir, disk, caller, io, encryption, faults, saved>>
    BY <1>3 DEF CallAsync, Stages
  <2>2. io' = [io EXCEPT ![o] = io[o]]
    BY <1>1, <2>1 DEF FileTypes
  <2>3. io' \in [FileOps -> IoRecords] /\ at' \in [FileOps -> Stages] /\ Alone(o) /\ at'[o] = "lazy"
    BY <1>1, <2>1, <2>2, OwnStep
  <2>4. OwnFit(o)
    BY <1>1, <1>2, <2>1, <2>3 DEF OwnFit, StageFits, NodeFits, Encrypted, Streaming
  <2> QED BY <1>1, <2>1, <2>3, <2>4, QuietStep
<1>4. CASE Resume(o)
  <2>1. /\ io' \in [FileOps -> IoRecords] /\ at' \in [FileOps -> Stages] /\ Alone(o)
        /\ at'[o] = "queued" /\ io'[o].file = io[o].file /\ at[o] = "lazy"
        /\ Kind(o) = "write" => io'[o].buf = encrypt(io'[o].with, io'[o].plain)
        /\ UNCHANGED <<dir, disk, caller, encryption, faults, saved>>
    BY <1>1, <1>4, ResumeFacts DEF Resume
  <2>2. OwnFit(o)
    BY <1>1, <1>2, <2>1 DEF OwnFit, StageFits, NodeFits, Encrypted, Streaming
  <2> QED BY <1>1, <2>1, <2>2, QuietStep
<1>5. CASE OpenFails(o)
  <2>1. /\ io' \in [FileOps -> IoRecords] /\ at' \in [FileOps -> Stages] /\ Alone(o)
        /\ at'[o] = "done" /\ io'[o].file = io[o].file
        /\ UNCHANGED <<dir, disk, caller, encryption, saved>>
    BY <1>1, <1>5, OpenFailsFacts DEF OpenFails
  <2>2. faults' \in Nat
    BY <1>1, <1>5 DEF OpenFails, Fault
  <2>3. OwnFit(o)
    BY <1>1, <1>2, <2>1 DEF OwnFit, StageFits, NodeFits, Encrypted, Streaming
  <2> QED BY <2>1, <2>2, <2>3, QuietStep
<1>6. CASE OpenRead(o)
  <2>1. /\ io' \in [FileOps -> IoRecords] /\ at' \in [FileOps -> Stages] /\ Alone(o)
        /\ at'[o] = "opened" /\ io'[o].file = dir[Path(o)] /\ dir[Path(o)] \in FileOps
        /\ Reader(o) /\ UNCHANGED <<dir, disk, caller, encryption, faults, saved>>
    BY <1>1, <1>6, OpenReadFacts DEF OpenRead
  <2>2. Path(io'[o].file) = Path(o)
    BY <1>1, <2>1, PlanFields DEF FileInv, NodesFit, FileTypes
  <2>3. OwnFit(o)
    BY <1>1, <1>2, <2>1, <2>2 DEF OwnFit, StageFits, NodeFits, Encrypted, Streaming
  <2> QED BY <1>1, <2>1, <2>3, QuietStep
<1>7. CASE Measure(o)
  <2>1. /\ io' \in [FileOps -> IoRecords] /\ at' \in [FileOps -> Stages] /\ Alone(o)
        /\ at'[o] = "sized" /\ io'[o].file = io[o].file /\ Reader(o) /\ at[o] = "opened"
        /\ UNCHANGED <<dir, disk, caller, encryption, faults, saved>>
    BY <1>7, MeasureFacts DEF Measure
  <2>2. OwnFit(o)
    BY <1>1, <1>2, <2>1 DEF OwnFit, StageFits, NodeFits, Encrypted, Streaming
  <2> QED BY <1>1, <2>1, <2>2, QuietStep
<1>8. CASE Read(o)
  <2>1. /\ io' \in [FileOps -> IoRecords] /\ at' \in [FileOps -> Stages] /\ Alone(o)
        /\ at'[o] = "done" /\ io'[o].file = io[o].file
        /\ UNCHANGED <<dir, disk, caller, encryption, faults, saved>>
    BY <1>8, ReadFacts DEF Read
  <2>2. OwnFit(o)
    BY <1>1, <1>2, <2>1 DEF OwnFit, StageFits, NodeFits, Encrypted, Streaming
  <2> QED BY <1>1, <2>1, <2>2, QuietStep
<1>9. CASE ReadFails(o)
  <2>1. /\ io' \in [FileOps -> IoRecords] /\ at' \in [FileOps -> Stages] /\ Alone(o)
        /\ at'[o] = "done" /\ io'[o].file = io[o].file
        /\ UNCHANGED <<dir, disk, caller, encryption, saved>>
    BY <1>9, ReadFailsFacts DEF ReadFails
  <2>2. faults' \in Nat
    BY <1>1, <1>9 DEF ReadFails, Fault
  <2>3. OwnFit(o)
    BY <1>1, <1>2, <2>1 DEF OwnFit, StageFits, NodeFits, Encrypted, Streaming
  <2> QED BY <2>1, <2>2, <2>3, QuietStep
<1>10. CASE WriteBuffered(o)
  <2>1. /\ io' \in [FileOps -> IoRecords] /\ at' \in [FileOps -> Stages] /\ Alone(o)
        /\ at'[o] = "flush" /\ io'[o].file = io[o].file /\ Writer(o) /\ at[o] = "opened"
        /\ io'[o].buf = encrypt(io'[o].with, io'[o].plain)
        /\ UNCHANGED <<dir, disk, caller, encryption, faults, saved>>
    BY <1>10, WriteBufferedFacts DEF WriteBuffered
  <2>2. OwnFit(o)
    BY <1>1, <1>2, <2>1 DEF OwnFit, StageFits, NodeFits, Encrypted, Streaming
  <2> QED BY <1>1, <2>1, <2>2, QuietStep
<1> QED BY <1>3, <1>4, <1>5, <1>6, <1>7, <1>8, <1>9, <1>10

\* What remains of a file behind the bytes that overwrite its beginning.
LEMMA OverlayBytes ==
  ASSUME NEW part \in Seq(Byte), NEW content \in Seq(Byte)
  PROVE  /\ Overlay(part, content) \in Seq(Byte)
         /\ content = <<>> => Overlay(part, content) = part
         /\ \A i \in DOMAIN Overlay(part, content) :
              \/ i \in 1..Len(part) /\ Overlay(part, content)[i] = part[i]
              \/ i \in DOMAIN content /\ Overlay(part, content)[i] = content[i]
<1> DEFINE rest == SubSeq(content, Len(part) + 1, Len(content))
<1>1. Len(part) \in Nat /\ Len(content) \in Nat
  OBVIOUS
<1>2. CASE Len(content) <= Len(part)
  <2>1. rest = <<>>
    BY <1>1, <1>2
  <2>2. Overlay(part, content) = part
    BY <2>1 DEF Overlay
  <2> QED BY <1>1, <2>2
<1>3. CASE Len(content) > Len(part)
  <2>1. /\ rest \in Seq(Byte) /\ Len(rest) = Len(content) - Len(part)
        /\ \A i \in 1..(Len(content) - Len(part)) : rest[i] = content[Len(part) + i]
    BY <1>1, <1>3
  <2>2. Overlay(part, content) = part \o rest
    BY DEF Overlay
  <2> HIDE DEF rest
  <2>3. /\ part \o rest \in Seq(Byte) /\ Len(part \o rest) = Len(content)
        /\ \A i \in 1..Len(content) :
             (part \o rest)[i] = IF i <= Len(part) THEN part[i] ELSE rest[i - Len(part)]
    BY <1>1, <1>3, <2>1
  <2>4. ASSUME NEW i \in 1..Len(content)
        PROVE  \/ i \in 1..Len(part) /\ (part \o rest)[i] = part[i]
               \/ i \in DOMAIN content /\ (part \o rest)[i] = content[i]
    <3>1. CASE i <= Len(part)
      BY <1>1, <2>3, <3>1
    <3>2. CASE ~(i <= Len(part))
      <4>1. i - Len(part) \in 1..(Len(content) - Len(part)) /\ Len(part) + (i - Len(part)) = i
        BY <1>1, <3>2
      <4>2. rest[i - Len(part)] = content[i]
        BY <2>1, <4>1
      <4> QED BY <1>1, <2>3, <3>2, <4>2
    <3> QED BY <3>1, <3>2
  <2>5. DOMAIN (part \o rest) = 1..Len(content) /\ content # <<>>
    BY <1>1, <1>3, <2>3
  <2> QED BY <2>2, <2>3, <2>4, <2>5
<1> QED BY <1>1, <1>2, <1>3

\* A writer opens its file.
LEMMA OpenWriteFits ==
  ASSUME FileInv, BufferInv, plan' = plan, NEW o \in FileOps, OpenWrite(o)
  PROVE  FileInv' /\ BufferInv'
<1>1. /\ FileTypes /\ StageFits(o) /\ Encrypted(o) /\ Path(o) \in Files /\ NoFile \notin FileOps
      /\ Writer(o) /\ (Async(o) => at[o] = "queued") /\ Unknown \in Snapshots
  BY IoFields, PlanFields, NoEncryptionType DEF FileInv, FileTypes, StagesFit, BufferInv, OpenWrite, Opens
<1>2. /\ Path(o)' = Path(o) /\ Path(io[o].file)' = Path(io'[o].file) /\ Kind(o)' = Kind(o)
      /\ (Async(o)' <=> Async(o)) /\ (Reader(o)' <=> Reader(o)) /\ (Writer(o)' <=> Writer(o))
      /\ ~(Reader(o) /\ Writer(o))
  BY SamePlan DEF Path
<1>3. /\ io' \in [FileOps -> IoRecords] /\ at' \in [FileOps -> Stages] /\ Alone(o)
      /\ at'[o] = "opened" /\ io'[o].file = Target(o) /\ Target(o) \in FileOps
      /\ io'[o].buf = io[o].buf /\ io'[o].with = io[o].with /\ io'[o].plain = io[o].plain
      /\ dir' = [dir EXCEPT ![Path(o)] = Target(o)]
      /\ disk' = [disk EXCEPT ![Target(o)] = <<>>]
      /\ saved' = [saved EXCEPT ![Path(o)] = Unknown]
      /\ UNCHANGED <<caller, encryption, faults>>
  BY <1>1, OpenWriteFacts DEF OpenWrite
<1>4. FileTypes'
  BY <1>1, <1>3 DEF FileTypes, Nodes
<1>5. Path(Target(o)) = Path(o)
  BY <1>1 DEF Target, FileInv, NodesFit
<1>6. OwnFit(o)
  BY <1>1, <1>2, <1>3, <1>5 DEF OwnFit, StageFits, NodeFits, Encrypted, Streaming
<1>7. StagesFit' /\ BufferInv' /\ \A q \in FileOps : NodeFits(q)'
  BY <1>3, <1>6, OthersFit DEF StagesFit, BufferInv, OwnFit
<1>8. \A p \in Files : dir'[p] # NoFile => Path(dir'[p]) = p
  BY <1>1, <1>3, <1>5 DEF FileInv, NodesFit, FileTypes
<1>9. NodesFit'
  BY <1>7, <1>8, SamePlan DEF NodesFit, Path
<1> QED BY <1>4, <1>7, <1>9 DEF FileInv

\* A writer transfers its bytes.
LEMMA WrittenFits ==
  ASSUME FileInv, BufferInv, plan' = plan, NEW o \in FileOps, WriteThrough(o) \/ Close(o)
  PROVE  FileInv' /\ BufferInv'
<1>1. /\ FileTypes /\ NodeFits(o) /\ Path(o) \in Files /\ Unknown \in Snapshots
  BY PlanFields, NoEncryptionType DEF FileInv, FileTypes, NodesFit
<1>2. /\ Path(o)' = Path(o) /\ Path(io[o].file)' = Path(io'[o].file)
  BY SamePlan DEF Path
<1>3. /\ io' \in [FileOps -> IoRecords] /\ at' \in [FileOps -> Stages] /\ Alone(o)
      /\ faults' \in Nat /\ UNCHANGED <<dir, caller, encryption>>
      /\ at'[o] = "done" /\ io'[o].file = io[o].file /\ Streaming(o)
      /\ \E part : \E whole \in BOOLEAN : Written(o, part, whole)
  BY WriteThroughFacts, CloseFacts
<1>0. PICK part : \E whole \in BOOLEAN : Written(o, part, whole)
  BY <1>3
<1>4. PICK whole \in BOOLEAN : Written(o, part, whole)
  BY <1>0
<1>5. io[o].file \in FileOps /\ disk[io[o].file] \in Seq(Byte) /\ part \in Seq(Byte)
  BY <1>3, <1>4, OpenBytes DEF Written, Part
<1>6. disk' \in [FileOps -> Seq(Byte)]
  BY <1>1, <1>4, <1>5, OverlayBytes DEF Written, FileTypes
<1>7. Leaves(o, whole) \in Snapshots
  <2>1. io'[o].plain \in Seq(Byte) /\ io'[o].with \in Strategy
    BY <1>3 DEF IoRecords
  <2> QED BY <1>1, <2>1 DEF Leaves, Snapshots
<1>8. saved' \in [Files -> Snapshots]
  BY <1>1, <1>4, <1>7 DEF Written, FileTypes
<1>9. FileTypes'
  BY <1>1, <1>3, <1>6, <1>8 DEF FileTypes
<1>10. OwnFit(o)
  BY <1>1, <1>2, <1>3 DEF OwnFit, StageFits, NodeFits, Encrypted, Streaming
<1>11. StagesFit' /\ BufferInv' /\ \A q \in FileOps : NodeFits(q)'
  BY <1>3, <1>10, OthersFit DEF StagesFit, BufferInv, OwnFit
<1>12. NodesFit'
  BY <1>3, <1>11, SamePlan DEF FileInv, NodesFit
<1> QED BY <1>9, <1>11, <1>12 DEF FileInv

\* A name is removed.
LEMMA RemoveFits ==
  ASSUME FileInv, BufferInv, plan' = plan, NEW o \in FileOps, RemoveFile(o)
  PROVE  FileInv' /\ BufferInv'
<1>1. /\ FileTypes /\ NodeFits(o) /\ Path(o) \in Files /\ Unknown \in Snapshots
  BY PlanFields, NoEncryptionType DEF FileInv, FileTypes, NodesFit
<1>2. /\ Path(o)' = Path(o) /\ Path(io[o].file)' = Path(io'[o].file)
  BY SamePlan DEF Path
<1>3. /\ io' \in [FileOps -> IoRecords] /\ at' \in [FileOps -> Stages] /\ Alone(o)
      /\ at'[o] = "done" /\ io'[o].file = io[o].file
      /\ dir' = [dir EXCEPT ![Path(o)] = NoFile]
      /\ saved' = [saved EXCEPT ![Path(o)] = Unknown]
      /\ UNCHANGED <<disk, caller, encryption, faults>>
  BY <1>1, RemoveFacts DEF RemoveFile
<1>4. FileTypes'
  BY <1>1, <1>3 DEF FileTypes, Nodes
<1>5. OwnFit(o)
  BY <1>1, <1>2, <1>3 DEF OwnFit, StageFits, NodeFits, Encrypted, Streaming
<1>6. StagesFit' /\ BufferInv' /\ \A q \in FileOps : NodeFits(q)'
  BY <1>3, <1>5, OthersFit DEF StagesFit, BufferInv, OwnFit
<1>7. \A p \in Files : dir'[p] # NoFile => Path(dir'[p]) = p
  BY <1>1, <1>3 DEF FileInv, NodesFit, FileTypes
<1>8. NodesFit'
  BY <1>6, <1>7, SamePlan DEF NodesFit, Path
<1> QED BY <1>4, <1>6, <1>8 DEF FileInv

\* Callers and the strategy change without the operations.
Outside ==
  /\ UNCHANGED <<plan, dir, disk, at, io, faults, saved>>
  /\ caller' \in [FileOps -> Seq(Byte)] /\ encryption' \in Strategy

\* Stuttering, the reuse of a caller's buffer and a change of the strategy.
LEMMA OutsideStep ==
  ASSUME FileInv,
         \/ UNCHANGED fileVars
         \/ plan' = plan /\ \E o \in FileOps : CallerReusesBuffer(o)
         \/ plan' = plan /\ \E c \in Strategies : setEncryptionStrategy(c)
  PROVE  Outside
<1>1. caller \in [FileOps -> Seq(Byte)] /\ encryption \in Strategy
  BY DEF FileInv, FileTypes
<1>2. CASE UNCHANGED fileVars
  BY <1>1, <1>2 DEF fileVars, Outside
<1>3. CASE plan' = plan /\ \E o \in FileOps : CallerReusesBuffer(o)
  BY <1>1, <1>3, FileAssumption DEF CallerReusesBuffer, Outside
<1>4. CASE plan' = plan /\ \E c \in Strategies : setEncryptionStrategy(c)
  BY <1>1, <1>4, FileAssumption DEF setEncryptionStrategy, Outside
<1> QED BY <1>2, <1>3, <1>4

\* The steps of the operations.
OpStep(o) == plan' = plan /\ (CallAsync(o) \/ FileProgress(o))

\* Types, stages, inodes and buffers.
LEMMA FilesStep == FileInv /\ BufferInv /\ [FilesNext]_fileVars => FileInv' /\ BufferInv'
<1> SUFFICES ASSUME FileInv, BufferInv, [FilesNext]_fileVars PROVE FileInv' /\ BufferInv'
  OBVIOUS
<1>1. CASE Outside
  <2>1. \A q : /\ Path(q)' = Path(q) /\ (Async(q)' <=> Async(q))
               /\ (Reader(q)' <=> Reader(q)) /\ (Writer(q)' <=> Writer(q))
    BY <1>1, SamePlan DEF Outside
  <2>2. FileTypes'
    BY <1>1 DEF Outside, FileInv, FileTypes
  <2>3. StagesFit' /\ NodesFit' /\ BufferInv'
    BY <1>1, <2>1 DEF Outside, FileInv, StagesFit, StageFits, NodesFit, NodeFits, BufferInv, Encrypted,
                      Streaming
  <2> QED BY <2>2, <2>3 DEF FileInv
<1>2. ASSUME NEW o \in FileOps, OpStep(o) PROVE FileInv' /\ BufferInv'
  BY <1>2, QuietActions, OpenWriteFits, WrittenFits, RemoveFits DEF OpStep, FileProgress
<1> QED BY <1>1, <1>2, OutsideStep DEF FilesNext, OpStep

\* At the start every operation is still to be called.
LEMMA FilesStart == FilesInit => FileInv /\ BufferInv
<1> SUFFICES ASSUME FilesInit PROVE FileInv /\ BufferInv
  OBVIOUS
<1>1. NoEncryption \in Strategy /\ Unknown \in Snapshots /\ <<>> \in Seq(Byte)
  BY NoEncryptionType
<1>2. \A o \in FileOps : plan[o].data \in Seq(Byte)
  BY PlanFields DEF FilesInit
<1>3. FileTypes
  BY <1>1, <1>2 DEF FilesInit, FileTypes, Stages, Nodes, IoRecords
<1>4. \A o \in FileOps : at[o] = "idle" /\ io[o].file = NoFile
  BY DEF FilesInit
<1>5. StagesFit /\ BufferInv /\ \A o \in FileOps : NodeFits(o)
  BY <1>4 DEF StagesFit, StageFits, BufferInv, Encrypted, NodeFits, Streaming
<1>6. NodesFit
  BY <1>5 DEF FilesInit, NodesFit
<1> QED BY <1>3, <1>5, <1>6 DEF FileInv

-----------------------------------------------------------------------------
(* Bytes keep their place.                                                 *)

\* A byte that w left at place i of inode n.
LeftBy(w, n, i) ==
  /\ at[w] = "done" /\ Writer(w) /\ io[w].file = n
  /\ i <= Len(io[w].buf) /\ disk[n][i] = io[w].buf[i]

\* An operation that is done takes no more steps.
LEMMA DoneStays ==
  ASSUME FileInv, BufferInv, NEW o \in FileOps, OpStep(o)
  PROVE  Alone(o) /\ at[o] # "done"
<1>1. Alone(o)
  <2>1. CASE CallAsync(o)
    <3>1. io' = [io EXCEPT ![o] = io[o]] /\ at' = [at EXCEPT ![o] = "lazy"] /\ "lazy" \in Stages
      BY <2>1 DEF CallAsync, FileInv, FileTypes, Stages
    <3> QED BY <3>1, OwnStep, IoFields DEF FileInv
  <2>2. CASE FileProgress(o)
    BY <2>2, ResumeFacts, OpenFailsFacts, OpenReadFacts, OpenWriteFacts, MeasureFacts, ReadFacts,
       ReadFailsFacts, WriteBufferedFacts, WriteThroughFacts, CloseFacts, RemoveFacts
       DEF FileProgress, FileInv
  <2> QED BY <2>1, <2>2 DEF OpStep
<1>2. at[o] # "done"
  BY DEF OpStep, CallAsync, FileProgress, Resume, OpenFails, OpenRead, OpenWrite, Opens, Measure, Read,
         ReadFails, WriteBuffered, WriteThrough, Close, RemoveFile
<1> QED BY <1>1, <1>2

\* What a writer left stays left by it, where the byte is not overwritten.
LEMMA LeftStays ==
  ASSUME FileInv, BufferInv, NEW o \in FileOps, OpStep(o),
         NEW w \in FileOps, NEW n, NEW i, LeftBy(w, n, i), disk'[n][i] = disk[n][i]
  PROVE  LeftBy(w, n, i)'
<1>1. w # o /\ at'[w] = at[w] /\ Kept(w)
  BY DoneStays DEF LeftBy, Alone
<1>2. Writer(w)' <=> Writer(w)
  BY SamePlan DEF OpStep
<1> QED BY <1>1, <1>2 DEF LeftBy, Kept

\* Every step leaves each byte where some finished writer put it.
LEMMA PlaceStep == FileInv /\ BufferInv /\ PlaceInv /\ [FilesNext]_fileVars => PlaceInv'
<1> SUFFICES ASSUME FileInv, BufferInv, PlaceInv, [FilesNext]_fileVars,
                    NEW n \in FileOps, NEW i \in DOMAIN disk'[n]
             PROVE  \E w \in FileOps : LeftBy(w, n, i)'
  BY DEF PlaceInv, LeftBy
<1>1. i \in DOMAIN disk[n] => \E w \in FileOps : LeftBy(w, n, i)
  BY DEF PlaceInv, LeftBy
<1>2. CASE Outside
  <2>1. PICK w \in FileOps : LeftBy(w, n, i)
    BY <1>1, <1>2 DEF Outside
  <2>2. Writer(w)' <=> Writer(w)
    BY <1>2, SamePlan DEF Outside
  <2> QED BY <1>2, <2>1, <2>2 DEF Outside, LeftBy
<1>3. ASSUME NEW o \in FileOps, OpStep(o) PROVE \E w \in FileOps : LeftBy(w, n, i)'
  <2>1. CASE i \in DOMAIN disk[n] /\ disk'[n][i] = disk[n][i]
    BY <1>1, <1>3, <2>1, LeftStays
  <2>2. CASE OpenWrite(o)
    <3>1. disk' = [disk EXCEPT ![Target(o)] = <<>>] /\ Target(o) \in FileOps
      BY <2>2, OpenWriteFacts DEF FileInv
    <3>2. n # Target(o) /\ disk'[n] = disk[n]
      BY <3>1 DEF FileInv, FileTypes
    <3> QED BY <2>1, <3>2
  <2>3. CASE WriteThrough(o) \/ Close(o)
    <3>1. /\ at'[o] = "done" /\ io'[o].file = io[o].file /\ Streaming(o) /\ Writer(o)
          /\ \E part : \E whole \in BOOLEAN : Written(o, part, whole)
      BY <2>3, WriteThroughFacts, CloseFacts
    <3>2. PICK part : \E whole \in BOOLEAN : Written(o, part, whole)
      BY <3>1
    <3>3. /\ part \in Seq(Byte) /\ Len(part) <= Len(io'[o].buf)
          /\ \A k \in 1..Len(part) : part[k] = io'[o].buf[k]
          /\ disk' = [disk EXCEPT ![io[o].file] = Overlay(part, @)]
      BY <3>2 DEF Written, Part
    <3>4. io[o].file \in FileOps /\ disk[io[o].file] \in Seq(Byte)
      BY <3>1, OpenBytes
    <3>5. CASE n # io[o].file
      <4>1. disk'[n] = disk[n]
        BY <3>3, <3>4, <3>5 DEF FileInv, FileTypes
      <4> QED BY <2>1, <4>1
    <3>6. CASE n = io[o].file
      <4>1. disk'[n] = Overlay(part, disk[n])
        BY <3>3, <3>4, <3>6 DEF FileInv, FileTypes
      <4>2. CASE i \in 1..Len(part) /\ disk'[n][i] = part[i]
        <5>1. i <= Len(io'[o].buf) /\ disk'[n][i] = io'[o].buf[i]
          <6>1. io'[o].buf \in Seq(Byte)
            BY <2>3, WriteThroughFacts, CloseFacts DEF IoRecords
          <6>2. Len(part) \in Nat /\ Len(io'[o].buf) \in Nat
            BY <3>3, <6>1
          <6> QED BY <3>3, <4>2, <6>2
        <5>2. Writer(o)'
          BY <1>3, <3>1, SamePlan DEF OpStep
        <5>3. LeftBy(o, n, i)'
          BY <3>1, <3>6, <5>1, <5>2 DEF LeftBy
        <5> QED BY <5>3
      <4>3. CASE i \in DOMAIN disk[n] /\ disk'[n][i] = disk[n][i]
        BY <2>1, <4>3
      <4> QED BY <3>3, <3>4, <3>6, <4>1, <4>2, <4>3, OverlayBytes
    <3> QED BY <3>5, <3>6
  <2>4. CASE ~OpenWrite(o) /\ ~WriteThrough(o) /\ ~Close(o)
    <3>1. disk' = disk
      BY <1>3, <2>4 DEF OpStep, CallAsync, FileProgress, Resume, OpenFails, OpenRead, Measure, Read,
                        ReadFails, WriteBuffered, RemoveFile
    <3> QED BY <2>1, <3>1
  <2> QED BY <2>2, <2>3, <2>4
<1> QED BY <1>2, <1>3, OutsideStep DEF FilesNext, OpStep

\* AsyncFileManager::write, FileManager::save and the streams below them: for any
\* number of operations that overlap on any paths, with any pool and with errors
\* after any byte, the i-th byte of every file is the i-th byte of the buffer of
\* some writer of that file.
THEOREM PlacesAlways == FilesInit /\ [][FilesNext]_fileVars => []BytesKeepTheirPlace
<1> DEFINE I == FileInv /\ BufferInv /\ PlaceInv
<1>1. FilesInit => I
  BY FilesStart DEF FilesInit, PlaceInv
<1>2. I /\ [FilesNext]_fileVars => I'
  BY FilesStep, PlaceStep
<1>3. I => BytesKeepTheirPlace
  BY DEF PlaceInv, BytesKeepTheirPlace
<1> QED BY <1>1, <1>2, <1>3, PTL

-----------------------------------------------------------------------------
(* Reads return what was written.                                          *)

\* What holds of a calm stream holds of it after a step of o, unless o starts to
\* write to its path or its file changes.
LEMMA OthersCalm ==
  ASSUME FileInv, BufferInv, CalmInv, NEW o \in FileOps, OpStep(o), NEW q \in FileOps \ {o},
         Streaming(q)', io'[q].calm,
         Streaming(o)' /\ Writer(o) => Path(q) # Path(o),
         disk'[io[q].file] = disk[io[q].file]
  PROVE  Calm(q)' /\ Empty(q)' /\ Found(q)'
<1>1. Alone(o) /\ plan' = plan
  BY DoneStays DEF OpStep
<1>2. \A x : /\ Path(x)' = Path(x) /\ (Reader(x)' <=> Reader(x)) /\ (Writer(x)' <=> Writer(x))
  BY <1>1, SamePlan
<1>3. \A x \in FileOps \ {o} : Streaming(x)' <=> Streaming(x)
  BY <1>1, OthersFit
<1>4. at'[q] = at[q] /\ Kept(q)
  BY <1>1 DEF Alone
<1>5. Streaming(q) /\ io[q].calm /\ Calm(q) /\ Empty(q) /\ Found(q)
  BY <1>3, <1>4 DEF CalmInv, Kept
<1>6. Calm(q)'
  BY <1>2, <1>3, <1>5 DEF Calm
<1>7. Empty(q)'
  BY <1>2, <1>4, <1>5 DEF Empty, Kept
<1>8. Found(q)'
  BY <1>2, <1>4, <1>5 DEF Found, Kept
<1> QED BY <1>6, <1>7, <1>8

\* The result of a reader that takes no step.
LEMMA OthersResult ==
  ASSUME FileInv, BufferInv, ResultInv, NEW o \in FileOps, OpStep(o), NEW q \in FileOps \ {o}, Reader(q)
  PROVE  /\ at'[q] # "done" => io'[q].data = <<>> /\ ~io'[q].error
         /\ at'[q] = "done" => /\ io'[q].error => io'[q].data = <<>>
                               /\ ~io'[q].error /\ io'[q].calm => io'[q].data = io'[q].expect.data
<1>1. at'[q] = at[q] /\ Kept(q)
  BY DoneStays DEF Alone
<1> QED BY <1>1 DEF Kept, ResultInv

\* The steps that open nothing and write nothing.
Idles(o) == CallAsync(o) \/ Resume(o) \/ OpenFails(o) \/ Measure(o) \/ Read(o) \/ ReadFails(o)
              \/ WriteBuffered(o)

\* They leave the files alone, and a stream that goes on keeps its inode.
LEMMA IdleFacts ==
  ASSUME FileInv, BufferInv, NEW o \in FileOps, OpStep(o), Idles(o)
  PROVE  /\ UNCHANGED <<dir, disk, saved>>
         /\ \A q \in FileOps : Streaming(q)' => Streaming(q)
         /\ Streaming(o)' => /\ io'[o].file = io[o].file
                             /\ io'[o].calm = io[o].calm
                             /\ Reader(o) => io'[o].expect = io[o].expect /\ io'[o].size = Len(disk[io[o].file])
<1>1. UNCHANGED <<dir, disk, saved>>
  BY DEF Idles, CallAsync, Resume, OpenFails, Measure, Read, ReadFails, WriteBuffered
<1>2. \A q \in FileOps \ {o} : Streaming(q)' <=> Streaming(q)
  BY DoneStays, OthersFit DEF OpStep
<1>3. CASE Measure(o)
  <2>1. /\ io'[o].size = Len(disk[io[o].file]) /\ io'[o].file = io[o].file
        /\ io'[o].expect = io[o].expect /\ io'[o].calm = io[o].calm
    BY <1>3, MeasureFacts
  <2>2. Streaming(o)
    BY <1>3 DEF Measure, Streaming
  <2> QED BY <1>1, <1>2, <2>1, <2>2
<1>4. CASE WriteBuffered(o)
  <2>1. io'[o].file = io[o].file /\ io'[o].calm = io[o].calm
    BY <1>4, WriteBufferedFacts
  <2>2. Streaming(o) /\ ~Reader(o)
    BY <1>4 DEF WriteBuffered, Streaming, Writer, Reader
  <2> QED BY <1>1, <1>2, <2>1, <2>2
<1>5. CASE CallAsync(o) \/ Resume(o) \/ OpenFails(o) \/ Read(o) \/ ReadFails(o)
  <2>1. at' = [at EXCEPT ![o] = "lazy"] \/ at' = [at EXCEPT ![o] = "queued"] \/ at' = [at EXCEPT ![o] = "done"]
    BY <1>5 DEF CallAsync, Resume, OpenFails, Read, ReadFails
  <2>2. ~Streaming(o)'
    BY <2>1 DEF FileInv, FileTypes, Streaming
  <2> QED BY <1>1, <1>2, <2>2
<1> QED BY <1>3, <1>4, <1>5 DEF Idles

\* They keep what calm streams and saved paths rely on.
LEMMA IdleCalm ==
  ASSUME FileInv, BufferInv, CalmInv, SavedInv, NEW o \in FileOps, OpStep(o), Idles(o)
  PROVE  CalmInv' /\ SavedInv'
<1>1. /\ UNCHANGED <<dir, disk, saved>>
      /\ \A q \in FileOps : Streaming(q)' => Streaming(q)
  BY IdleFacts
<1>2. \A x : /\ Path(x)' = Path(x) /\ (Reader(x)' <=> Reader(x)) /\ (Writer(x)' <=> Writer(x))
  BY SamePlan DEF OpStep
<1>3. ASSUME NEW q \in FileOps, Streaming(q)', io'[q].calm PROVE Calm(q)' /\ Empty(q)' /\ Found(q)'
  <2>1. CASE q # o
    <3>1. Kept(q)
      BY <2>1, DoneStays DEF Alone
    <3>2. Calm(q)
      BY <1>1, <1>3, <3>1 DEF CalmInv, Kept
    <3>3. Streaming(o)' /\ Writer(o) => Path(q) # Path(o)
      BY <1>1, <2>1, <3>2 DEF Calm
    <3> QED BY <1>1, <1>3, <2>1, <3>3, OthersCalm
  <2>2. CASE q = o
    <3>1. /\ io'[o].file = io[o].file /\ io[o].calm /\ Streaming(o)
          /\ Reader(o) => io'[o].expect = io[o].expect /\ io'[o].size = Len(disk[io[o].file])
      BY <1>1, <1>3, <2>2, IdleFacts
    <3>2. Calm(o) /\ Empty(o) /\ Found(o)
      BY <3>1 DEF CalmInv
    <3>3. Calm(o)'
      BY <1>1, <1>2, <3>2 DEF Calm
    <3>4. Empty(o)' /\ Found(o)'
      BY <1>1, <1>2, <3>1, <3>2 DEF Empty, Found
    <3> QED BY <2>2, <3>3, <3>4
  <2> QED BY <2>1, <2>2
<1>4. SavedInv'
  BY <1>1, <1>2 DEF SavedInv, Still
<1> QED BY <1>3, <1>4 DEF CalmInv

\* A reader opens a file whose contents are known.
LEMMA OpenReadCalm ==
  ASSUME FileInv, BufferInv, CalmInv, SavedInv, NEW o \in FileOps, OpStep(o), OpenRead(o)
  PROVE  CalmInv' /\ SavedInv'
<1>1. /\ at'[o] = "opened" /\ io'[o].file = dir[Path(o)]
      /\ io'[o].expect = saved[Path(o)] /\ (io'[o].calm <=> Calm(o))
      /\ Reader(o) /\ UNCHANGED <<dir, disk, saved>> /\ Path(o) \in Files
  BY OpenReadFacts, PlanFields DEF OpenRead, FileInv, FileTypes
<1>2. \A x : /\ Path(x)' = Path(x) /\ (Reader(x)' <=> Reader(x)) /\ (Writer(x)' <=> Writer(x))
  BY SamePlan DEF OpStep
<1>3. ~Writer(o) /\ \A x \in FileOps \ {o} : Streaming(x)' <=> Streaming(x)
  BY <1>1, DoneStays, OthersFit DEF OpStep, Reader, Writer
<1>4. ASSUME NEW q \in FileOps, Streaming(q)', io'[q].calm PROVE Calm(q)' /\ Empty(q)' /\ Found(q)'
  <2>1. CASE q # o
    BY <1>1, <1>3, <1>4, <2>1, OthersCalm
  <2>2. CASE q = o
    <3>1. Calm(o)'
      BY <1>1, <1>2, <1>3, <1>4, <2>2 DEF Calm
    <3>2. Empty(o)'
      BY <1>2, <1>3 DEF Empty
    <3>3. Found(o)'
      BY <1>1 DEF Found, SavedInv
    <3> QED BY <2>2, <3>1, <3>2, <3>3
  <2> QED BY <2>1, <2>2
<1>5. SavedInv'
  BY <1>1, <1>2, <1>3 DEF SavedInv, Still
<1> QED BY <1>4, <1>5 DEF CalmInv

\* A writer opens: whoever stays calm is on another path, hence on another inode.
LEMMA OpenWriteCalm ==
  ASSUME FileInv, BufferInv, CalmInv, SavedInv, NEW o \in FileOps, OpStep(o), OpenWrite(o)
  PROVE  CalmInv' /\ SavedInv'
<1>1. /\ at'[o] = "opened" /\ io'[o].file = Target(o) /\ Target(o) \in FileOps
      /\ io'[o].calm <=> Calm(o)
      /\ \A q \in FileOps \ {o} : io'[q].calm /\ Streaming(q) => Path(q) # Path(o)
      /\ dir' = [dir EXCEPT ![Path(o)] = Target(o)]
      /\ disk' = [disk EXCEPT ![Target(o)] = <<>>]
      /\ saved' = [saved EXCEPT ![Path(o)] = Unknown]
      /\ Writer(o) /\ Path(o) \in Files
  BY OpenWriteFacts, PlanFields DEF OpenWrite, FileInv, FileTypes
<1>2. \A x : /\ Path(x)' = Path(x) /\ (Reader(x)' <=> Reader(x)) /\ (Writer(x)' <=> Writer(x))
  BY SamePlan DEF OpStep
<1>3. ~Reader(o) /\ \A x \in FileOps \ {o} : Streaming(x)' <=> Streaming(x)
  BY <1>1, DoneStays, OthersFit DEF OpStep, Reader, Writer
<1>4. Path(Target(o)) = Path(o)
  BY <1>1 DEF Target, FileInv, NodesFit
<1>5. ASSUME NEW q \in FileOps, Streaming(q)', io'[q].calm PROVE Calm(q)' /\ Empty(q)' /\ Found(q)'
  <2>1. CASE q # o
    <3>1. Streaming(q) /\ Path(q) # Path(o)
      BY <1>1, <1>3, <1>5, <2>1
    <3>2. io[q].file \in FileOps /\ Path(io[q].file) = Path(q)
      BY <3>1, OpenBytes, IoFields DEF FileInv, NodesFit, NodeFits
    <3>3. disk'[io[q].file] = disk[io[q].file]
      BY <1>1, <1>4, <3>1, <3>2 DEF FileInv, FileTypes
    <3> QED BY <1>5, <2>1, <3>1, <3>3, OthersCalm
  <2>2. CASE q = o
    <3>1. Calm(o)'
      BY <1>1, <1>2, <1>3, <1>5, <2>2 DEF Calm
    <3>2. Empty(o)' /\ Found(o)'
      BY <1>1, <1>2, <1>3 DEF Empty, Found, FileInv, FileTypes
    <3> QED BY <2>2, <3>1, <3>2
  <2> QED BY <2>1, <2>2
<1>6. ASSUME NEW p \in Files, saved'[p].known
      PROVE  /\ dir'[p] \in FileOps /\ Still(p)'
             /\ disk'[dir'[p]] = encrypt(saved'[p].with, saved'[p].data)
  <2>1. p # Path(o) /\ saved'[p] = saved[p] /\ dir'[p] = dir[p]
    BY <1>1, <1>6 DEF FileInv, FileTypes, Unknown
  <2>2. dir[p] \in FileOps /\ Still(p) /\ disk[dir[p]] = encrypt(saved[p].with, saved[p].data)
    BY <1>6, <2>1 DEF SavedInv
  <2>3. dir[p] # Target(o)
    BY <1>4, <2>1, <2>2, IoFields DEF FileInv, NodesFit
  <2>4. disk'[dir[p]] = disk[dir[p]]
    BY <1>1, <2>2, <2>3 DEF FileInv, FileTypes
  <2>5. Still(p)'
    BY <1>2, <1>3, <2>1, <2>2 DEF Still
  <2> QED BY <2>1, <2>2, <2>4, <2>5
<1> QED BY <1>5, <1>6 DEF CalmInv, SavedInv

\* A writer is done: no calm stream is on its path, and what it left is known only
\* if it was calm itself, so that its file was empty when it wrote.
LEMMA WrittenCalm ==
  ASSUME FileInv, BufferInv, CalmInv, SavedInv, NEW o \in FileOps, OpStep(o), WriteThrough(o) \/ Close(o)
  PROVE  CalmInv' /\ SavedInv'
<1>1. /\ dir' = dir /\ at'[o] = "done" /\ io'[o].buf = encrypt(io'[o].with, io'[o].plain)
      /\ Streaming(o) /\ Writer(o) /\ Path(o) \in Files
      /\ \E part : \E whole \in BOOLEAN : Written(o, part, whole)
  BY WriteThroughFacts, CloseFacts, PlanFields DEF FileInv, FileTypes
<1>0. PICK part : \E whole \in BOOLEAN : Written(o, part, whole)
  BY <1>1
<1>2. PICK whole \in BOOLEAN : Written(o, part, whole)
  BY <1>0
<1>3. \A x : /\ Path(x)' = Path(x) /\ (Reader(x)' <=> Reader(x)) /\ (Writer(x)' <=> Writer(x))
  BY SamePlan DEF OpStep
<1>4. ~Streaming(o)' /\ \A x \in FileOps \ {o} : Streaming(x)' <=> Streaming(x)
  BY <1>1, DoneStays, OthersFit DEF OpStep, Streaming
<1>5. io[o].file \in FileOps /\ Path(io[o].file) = Path(o)
  BY <1>1, OpenBytes, IoFields DEF FileInv, NodesFit, NodeFits
<1>6. \A n \in FileOps : n # io[o].file => disk'[n] = disk[n]
  BY <1>2 DEF Written, FileInv, FileTypes
<1>7. ASSUME NEW q \in FileOps, Streaming(q)', io'[q].calm PROVE Calm(q)' /\ Empty(q)' /\ Found(q)'
  <2>1. q # o /\ Streaming(q)
    BY <1>4, <1>7
  <2>2. Kept(q)
    BY <2>1, DoneStays DEF Alone
  <2>3. Path(q) # Path(o)
    BY <1>1, <1>7, <2>1, <2>2 DEF CalmInv, Calm, Kept
  <2>4. io[q].file \in FileOps /\ Path(io[q].file) = Path(q)
    BY <2>1, OpenBytes, IoFields DEF FileInv, NodesFit, NodeFits
  <2>5. disk'[io[q].file] = disk[io[q].file]
    BY <1>5, <1>6, <2>3, <2>4
  <2> QED BY <1>7, <2>1, <2>3, <2>5, OthersCalm
<1>8. ASSUME NEW p \in Files, saved'[p].known
      PROVE  /\ dir'[p] \in FileOps /\ Still(p)'
             /\ disk'[dir'[p]] = encrypt(saved'[p].with, saved'[p].data)
  <2>1. saved' = [saved EXCEPT ![Path(o)] = Leaves(o, whole)]
    BY <1>2 DEF Written
  <2>2. CASE p # Path(o)
    <3>1. saved'[p] = saved[p]
      BY <2>1, <2>2 DEF FileInv, FileTypes
    <3>2. dir[p] \in FileOps /\ Still(p) /\ disk[dir[p]] = encrypt(saved[p].with, saved[p].data)
      BY <1>8, <3>1 DEF SavedInv
    <3>3. dir[p] # io[o].file
      BY <1>5, <2>2, <3>2, IoFields DEF FileInv, NodesFit
    <3>4. Still(p)'
      BY <1>3, <1>4, <3>2 DEF Still
    <3> QED BY <1>1, <1>6, <3>1, <3>2, <3>3, <3>4
  <2>3. CASE p = Path(o)
    <3>1. saved'[p] = Leaves(o, whole)
      BY <1>1, <2>1, <2>3 DEF FileInv, FileTypes
    <3>2. whole /\ io[o].calm /\ dir[p] = io[o].file /\ io'[o].plain = plan[o].data
      BY <1>8, <2>3, <3>1 DEF Leaves, Unknown
    <3>3. saved'[p].with = io'[o].with /\ saved'[p].data = io'[o].plain
      BY <2>3, <3>1, <3>2 DEF Leaves
    <3>4. Calm(o) /\ disk[io[o].file] = <<>>
      BY <1>1, <3>2 DEF CalmInv, Empty
    <3>5. part = io'[o].buf /\ part \in Seq(Byte)
          /\ disk' = [disk EXCEPT ![io[o].file] = Overlay(part, @)]
      BY <1>2, <3>2 DEF Written, Part
    <3>6. disk'[io[o].file] = Overlay(part, disk[io[o].file])
      BY <1>5, <3>5 DEF FileInv, FileTypes
    <3>7. disk'[io[o].file] = io'[o].buf
      <4>1. disk[io[o].file] \in Seq(Byte)
        BY <1>5 DEF FileInv, FileTypes
      <4>2. disk[io[o].file] = <<>> => Overlay(part, disk[io[o].file]) = part
        BY <3>5, <4>1, OverlayBytes
      <4> QED BY <3>4, <3>5, <3>6, <4>2
    <3>8. Still(p)'
      BY <1>3, <1>4, <2>3, <3>4 DEF Still, Calm
    <3> QED BY <1>1, <1>5, <3>2, <3>3, <3>7, <3>8
  <2> QED BY <2>2, <2>3
<1> QED BY <1>7, <1>8 DEF CalmInv, SavedInv

\* A removed path is not known to hold anything.
LEMMA RemoveCalm ==
  ASSUME FileInv, BufferInv, CalmInv, SavedInv, NEW o \in FileOps, OpStep(o), RemoveFile(o)
  PROVE  CalmInv' /\ SavedInv'
<1>1. /\ at'[o] = "done" /\ Path(o) \in Files /\ disk' = disk
      /\ dir' = [dir EXCEPT ![Path(o)] = NoFile]
      /\ saved' = [saved EXCEPT ![Path(o)] = Unknown]
  BY RemoveFacts, PlanFields DEF RemoveFile, FileInv, FileTypes
<1>2. \A x : /\ Path(x)' = Path(x) /\ (Reader(x)' <=> Reader(x)) /\ (Writer(x)' <=> Writer(x))
  BY SamePlan DEF OpStep
<1>3. ~Streaming(o)' /\ \A x \in FileOps \ {o} : Streaming(x)' <=> Streaming(x)
  BY <1>1, DoneStays, OthersFit DEF OpStep, Streaming
<1>4. ASSUME NEW q \in FileOps, Streaming(q)', io'[q].calm PROVE Calm(q)' /\ Empty(q)' /\ Found(q)'
  <2>1. q # o
    BY <1>3, <1>4
  <2> QED BY <1>1, <1>3, <1>4, <2>1, OthersCalm
<1>5. ASSUME NEW p \in Files, saved'[p].known
      PROVE  /\ dir'[p] \in FileOps /\ Still(p)'
             /\ disk'[dir'[p]] = encrypt(saved'[p].with, saved'[p].data)
  <2>1. p # Path(o) /\ saved'[p] = saved[p] /\ dir'[p] = dir[p]
    BY <1>1, <1>5 DEF FileInv, FileTypes, Unknown
  <2>2. dir[p] \in FileOps /\ Still(p) /\ disk[dir[p]] = encrypt(saved[p].with, saved[p].data)
    BY <1>5, <2>1 DEF SavedInv
  <2>3. Still(p)'
    BY <1>2, <1>3, <2>2 DEF Still
  <2> QED BY <1>1, <2>1, <2>2, <2>3
<1> QED BY <1>4, <1>5 DEF CalmInv, SavedInv

\* The result of the reader that takes a step.
LEMMA ResultStep ==
  ASSUME FileInv, BufferInv, CalmInv, ResultInv, NEW o \in FileOps, OpStep(o)
  PROVE  ResultInv'
<1>1. \A x : Reader(x)' <=> Reader(x)
  BY SamePlan DEF OpStep
<1>2. SUFFICES ASSUME Reader(o)
               PROVE  /\ at'[o] # "done" => io'[o].data = <<>> /\ ~io'[o].error
                      /\ at'[o] = "done" =>
                           /\ io'[o].error => io'[o].data = <<>>
                           /\ ~io'[o].error /\ io'[o].calm => io'[o].data = io'[o].expect.data
  BY <1>1, OthersResult DEF ResultInv
<1>3. io[o].data = <<>> /\ ~io[o].error /\ FileTypes
  BY <1>2, DoneStays DEF ResultInv, FileInv
<1>4. CASE CallAsync(o)
  BY <1>3, <1>4 DEF CallAsync, FileTypes
<1>5. CASE Resume(o)
  BY <1>3, <1>5, ResumeFacts
<1>6. CASE OpenFails(o)
  BY <1>3, <1>6, OpenFailsFacts
<1>7. CASE OpenRead(o)
  BY <1>3, <1>7, OpenReadFacts
<1>8. CASE Measure(o)
  BY <1>3, <1>8, MeasureFacts
<1>9. CASE ReadFails(o)
  BY <1>9, ReadFailsFacts
<1>10. CASE Read(o)
  <2>1. /\ at'[o] = "done" /\ io'[o].data = decrypt(KeyOf(o), Transferred(o))
        /\ io'[o].error = io[o].error /\ io'[o].expect = io[o].expect
        /\ io'[o].calm => io[o].calm /\ io[o].expect.known /\ io[o].expect.with = KeyOf(o)
    BY <1>10, ReadFacts
  <2>2. Streaming(o) /\ at[o] = "sized"
    BY <1>10 DEF Read, Streaming
  <2>3. ASSUME io'[o].calm PROVE io'[o].data = io[o].expect.data
    <3>1. /\ disk[io[o].file] = encrypt(KeyOf(o), io[o].expect.data)
          /\ io[o].size = Len(disk[io[o].file])
      BY <1>2, <2>1, <2>2, <2>3 DEF CalmInv, Found
    <3>2. Transferred(o) = encrypt(KeyOf(o), io[o].expect.data)
      BY <2>2, <3>1, TransferredBytes
    <3>3. io[o].expect.data \in Seq(Byte) /\ KeyOf(o) \in Strategy
      BY <1>3, IoFields, KeyType DEF Snapshots
    <3> QED BY <2>1, <3>2, <3>3, DecryptInvertsEncrypt
  <2> QED BY <1>3, <2>1, <2>3
<1>11. CASE OpenWrite(o) \/ WriteBuffered(o) \/ WriteThrough(o) \/ Close(o) \/ RemoveFile(o)
  <2>1. ~Reader(o)
    BY <1>11, CloseFacts DEF OpenWrite, WriteBuffered, WriteThrough, RemoveFile, Reader, Writer
  <2> QED BY <1>2, <2>1
<1> QED BY <1>4, <1>5, <1>6, <1>7, <1>8, <1>9, <1>10, <1>11 DEF OpStep, FileProgress

\* Every step keeps what readers rely on.
LEMMA ReadStep ==
  FileInv /\ BufferInv /\ CalmInv /\ SavedInv /\ ResultInv /\ [FilesNext]_fileVars
    => CalmInv' /\ SavedInv' /\ ResultInv'
<1> SUFFICES ASSUME FileInv, BufferInv, CalmInv, SavedInv, ResultInv, [FilesNext]_fileVars
             PROVE  CalmInv' /\ SavedInv' /\ ResultInv'
  OBVIOUS
<1>1. CASE Outside
  <2>1. \A x : /\ Path(x)' = Path(x) /\ (Reader(x)' <=> Reader(x)) /\ (Writer(x)' <=> Writer(x))
               /\ (Streaming(x)' <=> Streaming(x))
    BY <1>1, SamePlan DEF Outside, Streaming
  <2>2. \A x : (Calm(x)' <=> Calm(x)) /\ (Still(x)' <=> Still(x)) /\ (Empty(x)' <=> Empty(x))
               /\ (Found(x)' <=> Found(x))
    BY <1>1, <2>1 DEF Outside, Calm, Still, Empty, Found
  <2> QED BY <1>1, <2>1, <2>2 DEF Outside, CalmInv, SavedInv, ResultInv
<1>2. ASSUME NEW o \in FileOps, OpStep(o) PROVE CalmInv' /\ SavedInv' /\ ResultInv'
  <2>1. ResultInv'
    BY <1>2, ResultStep
  <2>2. CalmInv' /\ SavedInv'
    BY <1>2, IdleCalm, OpenReadCalm, OpenWriteCalm, WrittenCalm, RemoveCalm DEF OpStep, FileProgress, Idles
  <2> QED BY <2>1, <2>2
<1> QED BY <1>1, <1>2, OutsideStep DEF FilesNext, OpStep

\* AsyncFileManager::read against write, FileManager::load against save: for any
\* operations on any paths, in any interleaving and with any I/O errors, a reader
\* that no writer of its path overlapped returns, decrypted, what the last
\* undisturbed writer of the path was given, provided both used the same strategy
\* and the writer's caller left its buffer alone until the coroutine copied it; and
\* a reader that reports an error returns no data.
THEOREM ReadsAlways == FilesInit /\ [][FilesNext]_fileVars => []ReadsBackWhatWasWritten
<1> DEFINE I == FileInv /\ BufferInv /\ CalmInv /\ SavedInv /\ ResultInv
<1>1. FilesInit => I
  <2> SUFFICES ASSUME FilesInit PROVE I
    OBVIOUS
  <2>1. \A o \in FileOps : at[o] = "idle" /\ io[o].data = <<>> /\ ~io[o].error
    BY DEF FilesInit
  <2>2. \A p \in Files : ~saved[p].known
    BY DEF FilesInit, Unknown
  <2>3. CalmInv /\ SavedInv /\ ResultInv
    BY <2>1, <2>2 DEF CalmInv, SavedInv, ResultInv, Streaming
  <2> QED BY <2>3, FilesStart
<1>2. I /\ [FilesNext]_fileVars => I'
  BY FilesStep, ReadStep
<1>3. I => ReadsBackWhatWasWritten
  BY DEF ResultInv, ReadsBackWhatWasWritten
<1> QED BY <1>1, <1>2, <1>3, PTL
=============================================================================
