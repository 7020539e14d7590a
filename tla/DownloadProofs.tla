---------------------------- MODULE DownloadProofs ----------------------------
(***************************************************************************)
(* For every number of downloads to one destination, every length of the   *)
(* file and every capacity: what a download from a privilege-separated     *)
(* server leaves at the destination is the whole file, unless another      *)
(* download had it open, and a part file that is left belongs to a         *)
(* download that could not remove it.                                      *)
(***************************************************************************)
EXTENDS Download, TLAPS

\* The constants as the leaves below use them.
LEMMA ConstantsNat ==
  /\ RemoteLen \in Nat /\ QueueCap \in Nat /\ StreamCap \in Nat
  /\ QueueCap > 0 /\ StreamCap > 0
  /\ NoFile \notin Clients /\ OldFile \notin Clients /\ NoFile # OldFile
BY DownloadAssumption

\* One channel, from the reader to the status.  A status is sent only by a task
\* that drained the queue of a reader that has ended; a reader that was stopped
\* or killed never comes with the code zero.
Channel(c) ==
  /\ phase[c] = "idle" => /\ fd[c] = NoFile /\ offset[c] = 0 /\ forwarded[c] = 0
                          /\ read[c] = 0 /\ reader[c] = "none" /\ serve[c] = "none"
                          /\ exit[c] = "none" /\ exit_status[c] = "none"
  /\ phase[c] = "receiving" => fd[c] \in Clients
  /\ serve[c] # "none" => reader[c] # "none"
  /\ reader[c] = "ok" => read[c] = RemoteLen
  /\ reader[c] = "stopped" => serve[c] = "failed"
  /\ reader[c] = "killed" => peer = "privsep"
  /\ serve[c] \in {"drained", "status"} => reader[c] # "running" /\ forwarded[c] = read[c]
  /\ serve[c] = "finished" => reader[c] # "running"
  /\ exit[c] # "none" => serve[c] \in {"status", "finished"}
  /\ exit[c] = "zero" => reader[c] = "ok" \/ (peer = "dev" /\ reader[c] = "failed")
  /\ exit_status[c] # "none" => /\ exit_status[c] = exit[c] /\ serve[c] = "finished"
                                /\ forwarded[c] = read[c]

\* The names and the files.  A file is named after the download that created
\* it; a download whose file nobody else opened has written all it has taken,
\* and finds under the part name its own file, no file, or a contended one.
Directory ==
  /\ \A f \in Clients : f \in {part, final} => phase[f] # "idle"
  /\ \A c \in Clients : fd[c] \in Clients => phase[fd[c]] # "idle"
  /\ part # NoFile => part # final
  /\ \A c \in Clients : phase[c] = "receiving" =>
       /\ part \in {fd[c], NoFile} \cup contended
       /\ fd[c] \in contended \/ 1..offset[c] \subseteq content[fd[c]]
       /\ \A d \in Clients \ {c} :
            phase[d] = "receiving" /\ fd[d] = fd[c] => fd[c] \in contended

\* A dev server's read error, reported as the end of the file (session.rs:94, 611).
CutShort(f) ==
  peer = "dev" /\ \E c \in Clients : fd[c] = f /\ reader[c] = "failed"

\* What is at the destination, with either server: NoSilentSuccess for the
\* privilege-separated one.
Landed ==
  /\ \/ final \in {NoFile, OldFile} \/ Whole(final) \/ CutShort(final)
     \/ final \in contended
  /\ (\E c \in Clients : verdict[c] = "ok") => final \in Clients

DownloadInv ==
  /\ DownloadTypeOK
  /\ \A c \in Clients : Channel(c)
  /\ Directory
  /\ Landed
  /\ PartOwned

LEMMA DownloadInitial == DownloadInit => DownloadInv
BY ConstantsNat
   DEF DownloadInit, DownloadInv, DownloadTypeOK, Channel, Directory, Landed, PartOwned,
       LocalFiles, Chunks, ExitCodes

-----------------------------------------------------------------------------
(* The directory                                                           *)

\* What the directory's part of the invariant depends on.
DirectoryInv == Directory /\ Landed /\ PartOwned

\* A step of a reader or of a task, or one that only ends a client, keeps it:
\* nothing it reads of the readers is undone.
LEMMA DirectoryStutters ==
  ASSUME DownloadInv,
         UNCHANGED <<fd, offset, dir_vars, peer, verdict>>,
         \A c \in Clients : \/ phase'[c] = phase[c]
                            \/ phase[c] = "receiving" /\ phase'[c] = "killed",
         \A c \in Clients : reader[c] = "failed" => reader'[c] = "failed",
         \A c \in Clients : exit_status[c] = "zero" => exit_status'[c] = "zero"
  PROVE  DirectoryInv'
<1>1. Directory'
  BY DEF DownloadInv, Directory, dir_vars
<1>2. Landed'
  BY DEF DownloadInv, Landed, Whole, CutShort, dir_vars
<1>3. PartOwned'
  BY DEF DownloadInv, PartOwned, dir_vars
<1> QED
  BY <1>1, <1>2, <1>3 DEF DirectoryInv

-----------------------------------------------------------------------------
(* The steps                                                               *)

\* A step of the reader: the queue has room for what it adds.
LEMMA ReaderKeeps ==
  ASSUME DownloadInv, NEW c \in Clients,
         ReadChunk(c) \/ ReadEof(c) \/ OpenFails(c) \/ ReadFails(c)
  PROVE  DownloadInv'
<1>1. PICK s \in {"running", "stopped", "ok", "unopened", "failed"}, n \in 0..RemoteLen :
        /\ ReaderMoves(c, s, n)
        /\ n = read[c] \/ (s = "running" /\ n = read[c] + 1 /\ read[c] - forwarded[c] < QueueCap
                            /\ ~ReceiverDropped(c))
        /\ s = "ok" => n = RemoteLen
        /\ s = "stopped" => ReceiverDropped(c)
  BY ConstantsNat DEF ReadChunk, ReadEof, OpenFails, ReadFails, DownloadInv, DownloadTypeOK
<1>2. /\ reader[c] = "running"
      /\ reader' = [reader EXCEPT ![c] = s] /\ read' = [read EXCEPT ![c] = n]
      /\ UNCHANGED <<receive_vars, dir_vars, peer, serve_vars>>
  BY <1>1 DEF ReaderMoves
<1>3. DownloadTypeOK'
  BY <1>1, <1>2, ConstantsNat DEF DownloadInv, DownloadTypeOK, receive_vars, dir_vars, serve_vars
<1>4. ASSUME NEW d \in Clients PROVE Channel(d)'
  BY <1>1, <1>2, ConstantsNat
     DEF DownloadInv, DownloadTypeOK, Channel, ReceiverDropped, receive_vars, dir_vars, serve_vars
<1>5. DirectoryInv'
  BY <1>2, DirectoryStutters DEF DownloadInv, DownloadTypeOK, receive_vars, serve_vars
<1> QED
  BY <1>3, <1>4, <1>5 DEF DownloadInv, DirectoryInv

\* A step of the task: the stream has room for what it sends, and the status is
\* the code of a reader it has drained.
LEMMA TaskKeeps ==
  ASSUME DownloadInv, NEW c \in Clients, ServeStep(c)
  PROVE  DownloadInv'
<1>1. CASE SendChunk(c)
  <2>1. PICK s \in {"pump", "gone", "failed"}, n \in 0..RemoteLen :
          /\ serve' = [serve EXCEPT ![c] = s] /\ forwarded' = [forwarded EXCEPT ![c] = n]
          /\ n = forwarded[c] \/ (n = forwarded[c] + 1 /\ forwarded[c] - offset[c] < StreamCap)
    BY <1>1, ConstantsNat DEF SendChunk, ServeMoves, DownloadInv, DownloadTypeOK
  <2>2. /\ serve[c] = "pump" /\ forwarded[c] < read[c]
        /\ UNCHANGED <<receive_vars, dir_vars, reader_vars, exit, exit_status>>
    BY <1>1 DEF SendChunk, ServeMoves
  <2>3. DownloadTypeOK'
    BY <2>1, <2>2, ConstantsNat DEF DownloadInv, DownloadTypeOK, receive_vars, dir_vars, reader_vars
  <2>4. ASSUME NEW d \in Clients PROVE Channel(d)'
    BY <2>1, <2>2, ConstantsNat
       DEF DownloadInv, DownloadTypeOK, Channel, receive_vars, dir_vars, reader_vars
  <2>5. DirectoryInv'
    BY <2>2, DirectoryStutters DEF receive_vars, reader_vars
  <2> QED
    BY <2>3, <2>4, <2>5 DEF DownloadInv, DirectoryInv
<1>2. CASE Drained(c)
  <2>1. /\ serve[c] = "pump" /\ forwarded[c] = read[c] /\ reader[c] # "running"
        /\ serve' = [serve EXCEPT ![c] = "drained"]
        /\ forwarded' = [forwarded EXCEPT ![c] = forwarded[c]]
        /\ UNCHANGED <<receive_vars, dir_vars, reader_vars, exit, exit_status>>
    BY <1>2 DEF Drained, ServeMoves
  <2>2. forwarded' = forwarded
    BY <2>1 DEF DownloadInv, DownloadTypeOK
  <2>3. DownloadTypeOK'
    BY <2>1, <2>2 DEF DownloadInv, DownloadTypeOK, receive_vars, dir_vars, reader_vars
  <2>4. ASSUME NEW d \in Clients PROVE Channel(d)'
    BY <2>1, <2>2 DEF DownloadInv, DownloadTypeOK, Channel, receive_vars, dir_vars, reader_vars
  <2>5. DirectoryInv'
    BY <2>1, DirectoryStutters DEF receive_vars, reader_vars
  <2> QED
    BY <2>3, <2>4, <2>5 DEF DownloadInv, DirectoryInv
<1>3. CASE Collect(c)
  <2>1. /\ serve[c] \in {"drained", "gone"}
        /\ peer = "dev" => reader[c] # "running"
        /\ reader' = [reader EXCEPT ![c] = IF @ = "running" THEN "killed" ELSE @]
        /\ exit' = [exit EXCEPT ![c] = ReadCode(reader'[c])]
        /\ serve' = [serve EXCEPT ![c] = IF serve[c] = "drained" THEN "status" ELSE "finished"]
        /\ forwarded' = [forwarded EXCEPT ![c] = forwarded[c]]
        /\ UNCHANGED <<receive_vars, dir_vars, peer, read, exit_status>>
    BY <1>3 DEF Collect, ServeMoves
  <2>2. forwarded' = forwarded
    BY <2>1 DEF DownloadInv, DownloadTypeOK
  <2>3. DownloadTypeOK'
    BY <2>1, <2>2 DEF DownloadInv, DownloadTypeOK, ReadCode, ExitCodes, receive_vars, dir_vars
  <2>4. ASSUME NEW d \in Clients PROVE Channel(d)'
    BY <2>1, <2>2 DEF DownloadInv, DownloadTypeOK, Channel, ReadCode, receive_vars, dir_vars
  <2>5. DirectoryInv'
    BY <2>1, DirectoryStutters DEF DownloadInv, DownloadTypeOK, receive_vars
  <2> QED
    BY <2>3, <2>4, <2>5 DEF DownloadInv, DirectoryInv
<1>4. CASE SendStatus(c)
  <2>1. /\ serve[c] = "status"
        /\ exit_status' = exit_status \/ exit_status' = [exit_status EXCEPT ![c] = exit[c]]
        /\ serve' = [serve EXCEPT ![c] = "finished"]
        /\ forwarded' = [forwarded EXCEPT ![c] = forwarded[c]]
        /\ UNCHANGED <<receive_vars, dir_vars, reader_vars, exit>>
    BY <1>4 DEF SendStatus, ServeMoves
  <2>2. forwarded' = forwarded
    BY <2>1 DEF DownloadInv, DownloadTypeOK
  <2>3. DownloadTypeOK'
    BY <2>1, <2>2 DEF DownloadInv, DownloadTypeOK, ExitCodes, receive_vars, dir_vars, reader_vars
  <2>4. ASSUME NEW d \in Clients PROVE Channel(d)'
    <3>1. Channel(d)
      BY DEF DownloadInv
    <3>2. CASE d = c
      <4>1. serve'[d] = "finished" /\ exit_status'[d] \in {exit_status[d], exit[d]}
        BY <2>1, <3>2 DEF DownloadInv, DownloadTypeOK
      <4> QED
        BY <2>1, <2>2, <3>1, <3>2, <4>1 DEF Channel, receive_vars, reader_vars
    <3>3. CASE d # c
      <4>1. serve'[d] = serve[d] /\ exit_status'[d] = exit_status[d]
        BY <2>1, <3>3 DEF DownloadInv, DownloadTypeOK
      <4> QED
        BY <2>1, <2>2, <3>1, <4>1 DEF Channel, receive_vars, reader_vars
    <3> QED
      BY <3>2, <3>3
  <2>5. ASSUME NEW d \in Clients, exit_status[d] = "zero" PROVE exit_status'[d] = "zero"
    BY <2>1, <2>5 DEF DownloadInv, DownloadTypeOK, Channel
  <2>6. DirectoryInv'
    BY <2>1, <2>5, DirectoryStutters DEF receive_vars, reader_vars
  <2> QED
    BY <2>3, <2>4, <2>6 DEF DownloadInv, DirectoryInv
<1> QED
  BY <1>1, <1>2, <1>3, <1>4 DEF ServeStep

\* download_one starts: on a file of its own, or on the one under the part name,
\* which it empties and which is contended if another download is running.
LEMMA StartKeeps ==
  ASSUME DownloadInv, NEW c \in Clients, Start(c)
  PROVE  DownloadInv'
<1> DEFINE file == IF part = NoFile THEN c ELSE part
<1>1. /\ phase[c] = "idle" /\ part' = file /\ fd' = [fd EXCEPT ![c] = file]
      /\ content' = [content EXCEPT ![file] = {}]
      /\ contended' = IF \E d \in Clients : phase[d] = "receiving"
                      THEN contended \cup {file} ELSE contended
      /\ phase' = [phase EXCEPT ![c] = "receiving"]
      /\ serve' = [serve EXCEPT ![c] = "pump"] /\ reader' = [reader EXCEPT ![c] = "running"]
      /\ UNCHANGED <<verdict, offset, final, peer, read, forwarded, exit, exit_status>>
  BY DEF Start
<1>2. file \in Clients /\ file # final /\ (file = c \/ phase[file] # "idle")
  BY <1>1, ConstantsNat DEF DownloadInv, DownloadTypeOK, Directory
<1>3. \A d \in Clients : phase'[d] = IF d = c THEN "receiving" ELSE phase[d]
  BY <1>1 DEF DownloadInv, DownloadTypeOK
<1>4. \A d \in Clients : fd'[d] = IF d = c THEN file ELSE fd[d]
  BY <1>1 DEF DownloadInv, DownloadTypeOK
<1>5. \A f \in Clients : content'[f] = IF f = file THEN {} ELSE content[f]
  BY <1>1 DEF DownloadInv, DownloadTypeOK
<1>6. offset[c] = 0 /\ reader[c] = "none" /\ fd[c] = NoFile
  BY <1>1 DEF DownloadInv, Channel
<1> HIDE DEF file
<1>7. DownloadTypeOK'
  BY <1>1, <1>2, ConstantsNat DEF DownloadInv, DownloadTypeOK, LocalFiles
<1>8. ASSUME NEW d \in Clients PROVE Channel(d)'
  BY <1>1, <1>2, <1>3, <1>4 DEF DownloadInv, DownloadTypeOK, Channel
<1>9. Directory'
  <2>1. \A f \in Clients : f \in {part', final'} => phase'[f] # "idle"
    BY <1>1, <1>2, <1>3 DEF DownloadInv, Directory
  <2>2. \A d \in Clients : fd'[d] \in Clients => phase'[fd'[d]] # "idle"
    BY <1>2, <1>3, <1>4 DEF DownloadInv, Directory
  <2>3. part' # final'
    BY <1>1, <1>2
  <2>4. ASSUME NEW d \in Clients, phase'[d] = "receiving"
        PROVE  /\ part' \in {fd'[d], NoFile} \cup contended'
               /\ fd'[d] \in contended' \/ 1..offset'[d] \subseteq content'[fd'[d]]
               /\ \A e \in Clients \ {d} :
                    phase'[e] = "receiving" /\ fd'[e] = fd'[d] => fd'[d] \in contended'
    <3>1. CASE d = c
      <4>1. fd'[d] = file /\ part' = file /\ offset'[d] = 0
        BY <1>1, <1>4, <1>6, <3>1
      <4>2. 1..offset'[d] = {}
        BY <4>1
      <4>3. ASSUME NEW e \in Clients \ {d}, phase'[e] = "receiving" PROVE file \in contended'
        BY <1>1, <1>3, <3>1, <4>3
      <4> QED
        BY <4>1, <4>2, <4>3
    <3>2. CASE d # c
      <4>1. phase[d] = "receiving" /\ fd'[d] = fd[d] /\ fd[d] \in Clients
        BY <1>3, <1>4, <2>4, <3>2 DEF DownloadInv, Channel
      <4>2. contended' = contended \cup {file}
        BY <1>1, <4>1
      <4>3. fd'[d] \in contended' \/ 1..offset'[d] \subseteq content'[fd'[d]]
        BY <1>1, <1>5, <4>1, <4>2 DEF DownloadInv, Directory
      <4>4. ASSUME NEW e \in Clients \ {d}, phase'[e] = "receiving", fd'[e] = fd'[d]
            PROVE  fd'[d] \in contended'
        BY <1>3, <1>4, <4>1, <4>2, <4>4 DEF DownloadInv, Directory
      <4> QED
        BY <1>1, <4>2, <4>3, <4>4
    <3> QED
      BY <3>1, <3>2
  <2> QED
    BY <2>1, <2>2, <2>3, <2>4 DEF Directory
<1>10. Landed'
  <2>1. ASSUME Whole(final) PROVE Whole(final)'
    BY <1>1, <1>2, <1>5, <2>1 DEF Whole, Chunks
  <2>2. ASSUME CutShort(final) PROVE CutShort(final)'
    <3>1. PICK d \in Clients : fd[d] = final /\ reader[d] = "failed"
      BY <2>2 DEF CutShort
    <3>2. d # c
      BY <1>6, <3>1
    <3>3. fd'[d] = final' /\ reader'[d] = "failed"
      BY <1>1, <1>4, <3>1, <3>2 DEF DownloadInv, DownloadTypeOK
    <3> QED
      BY <1>1, <2>2, <3>3 DEF CutShort
  <2>3. contended \subseteq contended'
    BY <1>1
  <2> QED
    BY <1>1, <2>1, <2>2, <2>3 DEF DownloadInv, Landed
<1>11. PartOwned'
  BY <1>1, <1>3, <1>4 DEF PartOwned
<1> QED
  BY <1>7, <1>8, <1>9, <1>10, <1>11 DEF DownloadInv

\* A Data frame goes to the place of the next chunk in the download's own file.
LEMMA ReceiveKeeps ==
  ASSUME DownloadInv, NEW c \in Clients, ReceiveData(c)
  PROVE  DownloadInv'
<1>1. /\ phase[c] = "receiving" /\ offset[c] < forwarded[c]
      /\ offset' = [offset EXCEPT ![c] = @ + 1]
      /\ content' = [content EXCEPT ![fd[c]] = @ \cup {offset[c] + 1}]
      /\ UNCHANGED <<phase, verdict, fd, part, final, contended, reader_vars, serve_vars>>
  BY DEF ReceiveData
<1>2. fd[c] \in Clients /\ offset[c] \in Nat /\ offset[c] + 1 \in 1..RemoteLen
  BY <1>1, ConstantsNat DEF DownloadInv, DownloadTypeOK, Channel
<1>3. /\ \A d \in Clients \ {c} : offset'[d] = offset[d]
      /\ offset'[c] = offset[c] + 1
  BY <1>1 DEF DownloadInv, DownloadTypeOK
<1>4. /\ \A f \in Clients : content[f] \subseteq content'[f]
      /\ content'[fd[c]] = content[fd[c]] \cup {offset[c] + 1}
  BY <1>1, <1>2 DEF DownloadInv, DownloadTypeOK
<1>5. content' \in [Clients -> SUBSET Chunks]
  BY <1>1, <1>2 DEF DownloadInv, DownloadTypeOK, Chunks
<1>6. DownloadTypeOK'
  BY <1>1, <1>2, <1>3, <1>5, ConstantsNat DEF DownloadInv, DownloadTypeOK, reader_vars, serve_vars
<1>7. ASSUME NEW d \in Clients PROVE Channel(d)'
  BY <1>1, <1>3 DEF DownloadInv, Channel, reader_vars, serve_vars
<1>8. Directory'
  <2>1. ASSUME NEW d \in Clients, phase[d] = "receiving", fd[d] \notin contended
        PROVE  1..offset'[d] \subseteq content'[fd[d]]
    <3>1. 1..offset[d] \subseteq content[fd[d]] /\ fd[d] \in Clients
      BY <2>1 DEF DownloadInv, Directory, Channel
    <3>2. CASE d = c
      <4>1. 1..offset'[d] = 1..offset[d] \cup {offset[d] + 1}
        BY <1>2, <1>3, <3>2
      <4> QED
        BY <1>4, <3>1, <3>2, <4>1
    <3>3. CASE d # c
      BY <1>3, <1>4, <3>1, <3>3
    <3> QED
      BY <3>2, <3>3
  <2> QED
    BY <1>1, <2>1 DEF DownloadInv, Directory
<1>9. Landed'
  <2>1. ASSUME Whole(final) PROVE Whole(final)'
    BY <1>1, <1>4, <1>5, <2>1 DEF Whole, Chunks
  <2>2. CutShort(final) => CutShort(final)'
    BY <1>1 DEF CutShort, reader_vars
  <2> QED
    BY <1>1, <2>1, <2>2 DEF DownloadInv, Landed
<1>10. PartOwned'
  BY <1>1 DEF DownloadInv, PartOwned, serve_vars
<1> QED
  BY <1>6, <1>7, <1>8, <1>9, <1>10 DEF DownloadInv

\* download_one returns with the part name gone, or still there after a zero
\* status whose rename failed.
LEMMA EndKeeps ==
  ASSUME DownloadInv, NEW c \in Clients, phase[c] = "receiving",
         NEW r \in {"ok", "status", "error"}, Returns(c, r),
         \/ part' = NoFile
         \/ UNCHANGED part /\ r = "error" /\ exit_status[c] = "zero",
         \/ UNCHANGED final /\ r # "ok"
         \/ /\ final' = part /\ part \in Clients /\ part' = NoFile
            /\ HasStatus(c) /\ exit_status[c] = "zero"
  PROVE  DownloadInv'
<1>1. /\ phase' = [phase EXCEPT ![c] = "returned"] /\ verdict' = [verdict EXCEPT ![c] = r]
      /\ UNCHANGED <<fd, offset, content, contended, peer, reader, read, serve, forwarded, exit,
                     exit_status>>
  BY DEF Returns, reader_vars, serve_vars
<1>2. \A d \in Clients : phase'[d] = IF d = c THEN "returned" ELSE phase[d]
  BY <1>1 DEF DownloadInv, DownloadTypeOK
<1>3. \A d \in Clients : verdict'[d] = IF d = c THEN r ELSE verdict[d]
  BY <1>1 DEF DownloadInv, DownloadTypeOK
<1>4. DownloadTypeOK'
  BY <1>1, ConstantsNat DEF DownloadInv, DownloadTypeOK, LocalFiles
<1>5. ASSUME NEW d \in Clients PROVE Channel(d)'
  BY <1>1, <1>2 DEF DownloadInv, Channel
<1>6. Directory'
  <2>1. part' \in {part, NoFile} /\ final' \in {part, final}
    OBVIOUS
  <2>2. part' # NoFile => part' # final'
    BY DEF DownloadInv, Directory
  <2> QED
    BY <1>1, <1>2, <2>1, <2>2, ConstantsNat DEF DownloadInv, Directory
<1>7. Landed'
  <2>1. CASE UNCHANGED final /\ r # "ok"
    BY <1>1, <1>3, <2>1 DEF DownloadInv, Landed, Whole, CutShort
  <2>2. CASE final' = part /\ part \in Clients /\ HasStatus(c) /\ exit_status[c] = "zero"
    <3>1. CASE part \in contended
      BY <1>1, <2>2, <3>1 DEF Landed
    <3>2. CASE part \notin contended
      <4>1. part = fd[c] /\ 1..offset[c] \subseteq content[part]
        BY <2>2, <3>2, ConstantsNat DEF DownloadInv, Directory
      <4>2. offset[c] = read[c] /\ (reader[c] = "ok" \/ (peer = "dev" /\ reader[c] = "failed"))
        BY <2>2 DEF HasStatus, DownloadInv, Channel
      <4>3. CASE reader[c] = "ok"
        <5>1. offset[c] = RemoteLen
          BY <4>2, <4>3 DEF DownloadInv, Channel
        <5>2. content[part] = Chunks
          BY <2>2, <4>1, <5>1 DEF DownloadInv, DownloadTypeOK, Chunks
        <5>3. Whole(final)'
          BY <1>1, <2>2, <5>2 DEF Whole, Chunks
        <5> QED
          BY <2>2, <5>3 DEF Landed
      <4>4. CASE peer = "dev" /\ reader[c] = "failed"
        <5>1. CutShort(final)'
          BY <1>1, <2>2, <4>1, <4>4 DEF CutShort
        <5> QED
          BY <2>2, <5>1 DEF Landed
      <4> QED
        BY <4>2, <4>3, <4>4
    <3> QED
      BY <3>1, <3>2
  <2> QED
    BY <2>1, <2>2
<1>8. PartOwned'
  <2>1. CASE part' = NoFile
    BY <2>1 DEF PartOwned
  <2>2. CASE UNCHANGED part /\ r = "error" /\ exit_status[c] = "zero"
    <3>1. SUFFICES ASSUME part # NoFile PROVE PartOwned'
      BY <2>2 DEF PartOwned
    <3>2. PICK d \in Clients :
            /\ fd[d] = part
            /\ \/ phase[d] \in {"receiving", "killed"}
               \/ verdict[d] = "error" /\ exit_status[d] = "zero"
      BY <3>1 DEF DownloadInv, PartOwned
    <3>3. /\ fd'[d] = part'
          /\ \/ phase'[d] \in {"receiving", "killed"}
             \/ verdict'[d] = "error" /\ exit_status'[d] = "zero"
      BY <1>1, <1>2, <1>3, <2>2, <3>2
    <3> QED
      BY <3>3 DEF PartOwned
  <2> QED
    BY <2>1, <2>2
<1> QED
  BY <1>4, <1>5, <1>6, <1>7, <1>8 DEF DownloadInv

\* download_one returns before it has a file, or its process is killed.
LEMMA LostKeeps ==
  ASSUME DownloadInv, NEW c \in Clients, CreateFails(c) \/ Killed(c)
  PROVE  DownloadInv'
<1>1. CASE CreateFails(c)
  <2>1. /\ phase[c] = "idle" /\ phase' = [phase EXCEPT ![c] = "returned"]
        /\ verdict' = [verdict EXCEPT ![c] = "error"] /\ serve' = [serve EXCEPT ![c] = "pump"]
        /\ reader' = [reader EXCEPT ![c] = "running"]
        /\ UNCHANGED <<fd, offset, dir_vars, peer, read, forwarded, exit, exit_status>>
    BY <1>1 DEF CreateFails
  <2>2. DownloadTypeOK'
    BY <2>1 DEF DownloadInv, DownloadTypeOK, dir_vars
  <2>3. ASSUME NEW d \in Clients PROVE Channel(d)'
    BY <2>1 DEF DownloadInv, DownloadTypeOK, Channel, dir_vars
  <2>4. \A d \in Clients : phase'[d] = IF d = c THEN "returned" ELSE phase[d]
    BY <2>1 DEF DownloadInv, DownloadTypeOK
  <2>5. Directory'
    BY <2>1, <2>4 DEF DownloadInv, Directory, dir_vars
  <2>6. Landed'
    <3>1. CutShort(final) => CutShort(final)'
      BY <2>1 DEF CutShort, DownloadInv, DownloadTypeOK, Channel, dir_vars
    <3>2. \A d \in Clients : verdict'[d] = "ok" => verdict[d] = "ok"
      BY <2>1 DEF DownloadInv, DownloadTypeOK
    <3> QED
      BY <2>1, <3>1, <3>2 DEF DownloadInv, Landed, Whole, dir_vars
  <2>7. PartOwned'
    <3>1. fd[c] = NoFile
      BY <2>1 DEF DownloadInv, Channel
    <3>2. \A d \in Clients \ {c} : verdict'[d] = verdict[d]
      BY <2>1 DEF DownloadInv, DownloadTypeOK
    <3> QED
      BY <2>1, <2>4, <3>1, <3>2 DEF DownloadInv, PartOwned, dir_vars
  <2> QED
    BY <2>2, <2>3, <2>5, <2>6, <2>7 DEF DownloadInv
<1>2. CASE Killed(c)
  <2>1. /\ phase[c] = "receiving" /\ phase' = [phase EXCEPT ![c] = "killed"]
        /\ UNCHANGED <<verdict, fd, offset, dir_vars, reader_vars, serve_vars>>
    BY <1>2 DEF Killed
  <2>2. DownloadTypeOK'
    BY <2>1 DEF DownloadInv, DownloadTypeOK, dir_vars, reader_vars, serve_vars
  <2>3. ASSUME NEW d \in Clients PROVE Channel(d)'
    BY <2>1 DEF DownloadInv, DownloadTypeOK, Channel, reader_vars, serve_vars
  <2>4. \A d \in Clients : phase'[d] = IF d = c THEN "killed" ELSE phase[d]
    BY <2>1 DEF DownloadInv, DownloadTypeOK
  <2>5. DirectoryInv'
    BY <2>1, <2>4, DirectoryStutters DEF reader_vars, serve_vars
  <2> QED
    BY <2>2, <2>3, <2>5 DEF DownloadInv, DirectoryInv
<1> QED
  BY <1>1, <1>2

LEMMA DownloadUnchanged ==
  ASSUME DownloadInv, UNCHANGED download_vars
  PROVE  DownloadInv'
<1>1. DownloadTypeOK'
  BY DEF DownloadInv, DownloadTypeOK, download_vars, receive_vars, dir_vars, reader_vars, serve_vars
<1>2. ASSUME NEW d \in Clients PROVE Channel(d)'
  BY DEF DownloadInv, Channel, download_vars, receive_vars, reader_vars, serve_vars
<1>3. DirectoryInv'
  BY DirectoryStutters DEF download_vars, receive_vars, reader_vars, serve_vars
<1> QED
  BY <1>1, <1>2, <1>3 DEF DownloadInv, DirectoryInv

LEMMA DownloadStepKeeps ==
  ASSUME DownloadInv, [DownloadNext]_download_vars
  PROVE  DownloadInv'
<1>1. ASSUME NEW c \in Clients, TransportFails(c) PROVE DownloadInv'
  BY <1>1, EndKeeps DEF TransportFails, RemovePart
<1>2. ASSUME NEW c \in Clients, ReceiveNonzero(c) PROVE DownloadInv'
  BY <1>2, EndKeeps DEF ReceiveNonzero, RemovePart, HasStatus
<1>3. ASSUME NEW c \in Clients, ReceiveZero(c) PROVE DownloadInv'
  <2>1. HasStatus(c) /\ exit_status[c] = "zero" /\ phase[c] = "receiving"
    BY <1>3 DEF ReceiveZero, HasStatus
  <2>2. CASE part # NoFile /\ final' = part /\ part' = NoFile /\ Returns(c, "ok")
    <3>1. part \in Clients
      BY <2>2 DEF DownloadInv, DownloadTypeOK
    <3> QED
      BY <2>1, <2>2, <3>1, EndKeeps
  <2>3. CASE UNCHANGED <<part, final>> /\ Returns(c, "error")
    BY <2>1, <2>3, EndKeeps
  <2> QED
    BY <1>3, <2>2, <2>3 DEF ReceiveZero
<1>4. CASE UNCHANGED download_vars
  BY <1>4, DownloadUnchanged
<1> QED
  BY <1>1, <1>2, <1>3, <1>4, StartKeeps, ReceiveKeeps, LostKeeps, ReaderKeeps, TaskKeeps
     DEF DownloadNext, ReceiveStep, ReaderStep

-----------------------------------------------------------------------------
LEMMA DownloadInductive == DownloadSpec => []DownloadInv
<1>1. DownloadInv /\ [DownloadNext]_download_vars => DownloadInv'
  BY DownloadStepKeeps
<1> QED
  BY <1>1, DownloadInitial, PTL DEF DownloadSpec

\* The files, the counters of each stage and the queues keep their types and
\* their bounds (download_one, run_transfer, read_loop).
THEOREM DownloadTyped == DownloadSpec => []DownloadTypeOK
<1>1. DownloadInv => DownloadTypeOK
  BY DEF DownloadInv
<1> QED
  BY <1>1, DownloadInductive, PTL

\* With a privilege-separated server download_one is "never a silent success": a
\* file that no other download had open is renamed to the destination whole.
THEOREM NoSilentSuccessHolds == DownloadSpec => []NoSilentSuccess
<1>1. DownloadInv => NoSilentSuccess
  BY DEF DownloadInv, Landed, CutShort, NoSilentSuccess
<1> QED
  BY <1>1, DownloadInductive, PTL

\* download_one removes its part file on every way out but a kill and a failed
\* rename.
THEOREM PartOwnedHolds == DownloadSpec => []PartOwned
<1>1. DownloadInv => PartOwned
  BY DEF DownloadInv
<1> QED
  BY <1>1, DownloadInductive, PTL
=============================================================================
