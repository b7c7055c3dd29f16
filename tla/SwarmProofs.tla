----------------------------- MODULE SwarmProofs -----------------------------
(* Proofs about module Swarm, for any clients and owners, any number of    *)
(* chunks, and any bounds on the commands and mishaps.                     *)
EXTENDS Swarm, TLAPS

(* No copy is longer than the file.                                        *)
CopiesFit == \A c \in DOMAIN disk : Len(disk[c]) <= Size

(* A chunk is fetched only while there are peers for it, chunk 0 before    *)
(* ufile and the others after it.                                          *)
JobsFit ==
  \A c \in Clients, k \in Chunks : transfer[c][k] # NoTransfer =>
    chunktomap[c][k] # {} /\ stage[c] \in Fetching(k)

TypeInvariant == TypeOK /\ CopiesFit /\ JobsFit

-----------------------------------------------------------------------------
(* Types: TypeOK by the parts of the state, and JobsFit.                   *)
EntryType == [kind : {"none", "null", "file"}, filepath : Clients \cup {Nowhere}, chunks : 0..Size]
TransferType == [peer : Clients \cup {Nowhere}, filepath : Clients \cup {Nowhere}, sends : BOOLEAN]

ClientTypes == /\ alive \subseteq Clients
               /\ filetomap \in [Clients -> EntryType]
               /\ flaws \in [Clients -> SUBSET {"cut", "missed", "stopped"}]
WorldTypes == /\ listed \subseteq Clients
              /\ IsMap(disk, Clients, Seq({"hole", "data"}))
              /\ restarted \subseteq Clients /\ removed \subseteq Clients
              /\ commands \in 0..MaxCommands /\ mishaps \in 0..MaxMishaps
JobTypes == /\ stage \in [Clients -> {"idle", "asking", "seed", "ufile", "upload", "pieces"}]
            /\ toask \in [Clients -> SUBSET Clients]
            /\ chunktomap \in [Clients -> [Chunks -> SUBSET Clients]]
            /\ transfer \in [Clients -> [Chunks -> TransferType]]

Types == ClientTypes /\ WorldTypes /\ JobTypes

LEMMA TypesSplit == TypeInvariant <=> Types /\ CopiesFit /\ JobsFit
  BY DEF TypeInvariant, TypeOK, JobsFit, Types, ClientTypes, WorldTypes, JobTypes,
         EntryType, TransferType

-----------------------------------------------------------------------------
(* The clients' copies *)

LEMMA ChunkFacts == /\ 0 \in Chunks
                    /\ \A k \in Chunks : k \in Nat /\ k + 1 \in 1..Size
  BY SwarmAssumption DEF Chunks

(* A chunk that is written is in its place, and the others stay in theirs. *)
LEMMA WrittenFacts ==
  ASSUME NEW c \in Clients, NEW k \in Chunks, NEW block \in {"hole", "data"},
         IsMap(disk, Clients, Seq({"hole", "data"})), CopiesFit,
         disk' = Written(c, k, block)
  PROVE  /\ IsMap(disk, Clients, Seq({"hole", "data"}))'
         /\ CopiesFit'
         /\ DOMAIN disk' = DOMAIN disk \cup {c}
         /\ \A d \in DOMAIN disk \ {c} : disk'[d] = disk[d]
         /\ c \in DOMAIN disk => /\ Len(disk[c]) <= Len(disk'[c])
                                 /\ \A i \in 1..Len(disk[c]) : i # k + 1 => disk'[c][i] = disk[c][i]
         /\ k + 1 <= Len(disk'[c]) /\ disk'[c][k + 1] = block
<1> DEFINE old == IF c \in DOMAIN disk THEN disk[c] ELSE <<>>
           n == IF Len(old) > k THEN Len(old) ELSE k + 1
           new == [i \in 1..n |-> IF i = k + 1 THEN block ELSE IF i <= Len(old) THEN old[i] ELSE "hole"]
<1>1. old \in Seq({"hole", "data"}) /\ Len(old) \in Nat /\ Len(old) <= Size
  BY SwarmAssumption DEF IsMap, CopiesFit
<1>2. n \in Nat /\ n <= Size /\ k + 1 <= n /\ k + 1 \in 1..n /\ Len(old) <= n
  BY <1>1, ChunkFacts, SwarmAssumption
<1>3. new \in Seq({"hole", "data"}) /\ Len(new) = n
  BY <1>1, <1>2
<1>4. disk' = Put(disk, c, new)
  BY DEF Written
<1>5. /\ DOMAIN disk' = DOMAIN disk \cup {c}
      /\ disk'[c] = new
      /\ \A d \in DOMAIN disk \ {c} : disk'[d] = disk[d]
  BY <1>4 DEF Put
<1> HIDE DEF n, new
<1>6. IsMap(disk, Clients, Seq({"hole", "data"}))'
  BY <1>3, <1>4, <1>5 DEF Put, IsMap
<1>7. CopiesFit'
  BY <1>2, <1>3, <1>5 DEF CopiesFit
<1>8. disk'[c][k + 1] = block
  BY <1>2, <1>5 DEF new
<1>9. \A i \in 1..Len(old) : i # k + 1 => new[i] = old[i]
  BY <1>1, <1>2 DEF new
<1> QED BY <1>2, <1>3, <1>5, <1>6, <1>7, <1>8, <1>9

(* A copy that is opened for nothing stays as it is. *)
LEMMA TouchedFacts ==
  ASSUME NEW c \in Clients, IsMap(disk, Clients, Seq({"hole", "data"})), CopiesFit,
         disk' = Touched(c)
  PROVE  /\ IsMap(disk, Clients, Seq({"hole", "data"}))'
         /\ CopiesFit'
         /\ DOMAIN disk' = DOMAIN disk \cup {c}
         /\ \A d \in DOMAIN disk : disk'[d] = disk[d]
  BY SwarmAssumption DEF Touched, Put, IsMap, CopiesFit

(* What a chunk that arrives does to the copies. *)
LEMMA ReceiveFacts ==
  ASSUME NEW c \in Clients, NEW k \in Chunks, NEW block \in {"hole", "data", "nothing"},
         Types, CopiesFit, Receive(c, k, block)
  PROVE  /\ IsMap(disk, Clients, Seq({"hole", "data"}))'
         /\ CopiesFit'
         /\ DOMAIN disk' = DOMAIN disk \cup {c}
         /\ \A d \in DOMAIN disk \ {c} : disk'[d] = disk[d]
         /\ c \in DOMAIN disk => /\ Len(disk[c]) <= Len(disk'[c])
                                 /\ \A i \in 1..Len(disk[c]) : i # k + 1 => disk'[c][i] = disk[c][i]
         /\ block = "data" => k + 1 <= Len(disk'[c]) /\ disk'[c][k + 1] = "data"
<1>1. IsMap(disk, Clients, Seq({"hole", "data"}))
  BY DEF Types, WorldTypes
<1>2. CASE block = "nothing"
  <2>1. c \in DOMAIN disk => Len(disk[c]) \in Nat
    BY <1>1 DEF IsMap
  <2>2. disk' = Touched(c)
    BY <1>2 DEF Receive
  <2>3. /\ IsMap(disk, Clients, Seq({"hole", "data"}))' /\ CopiesFit'
        /\ DOMAIN disk' = DOMAIN disk \cup {c}
        /\ \A d \in DOMAIN disk : disk'[d] = disk[d]
    BY <1>1, <2>2, TouchedFacts
  <2> QED BY <1>2, <2>1, <2>3
<1>3. CASE block # "nothing"
  <2>1. disk' = Written(c, k, block) /\ block \in {"hole", "data"}
    BY <1>3 DEF Receive
  <2> QED BY <1>1, <2>1, WrittenFacts
<1> QED BY <1>2, <1>3

(* From now on c's entry leads to where its chunk came from. *)
LEMMA AdoptFacts ==
  ASSUME NEW c \in Clients, NEW path \in Clients \cup {Nowhere}, Types,
         IsMap(disk, Clients, Seq({"hole", "data"}))', CopiesFit', Adopt(c, path)
  PROVE  /\ \A d \in Clients \ {c} : filetomap'[d] = filetomap[d]
         /\ filetomap[c].kind # "file" => filetomap'[c] = filetomap[c]
         /\ filetomap[c].kind = "file" =>
              filetomap'[c] = FileStr(path, IF path \in DOMAIN disk' THEN Len(disk'[path]) ELSE 0)
         /\ filetomap' \in [Clients -> EntryType]
<1> DEFINE n == IF path \in DOMAIN disk' THEN Len(disk'[path]) ELSE 0
<1>1. n \in 0..Size
  BY SwarmAssumption DEF IsMap, CopiesFit
<1>2. filetomap \in [Clients -> EntryType]
  BY DEF Types, ClientTypes
<1>3. filetomap' = [filetomap EXCEPT ![c] = IF @.kind = "file" THEN FileStr(path, n) ELSE @]
  BY DEF Adopt
<1>4. FileStr(path, n) \in EntryType
  BY <1>1 DEF FileStr, EntryType
<1> HIDE DEF n
<1>5. /\ \A d \in Clients \ {c} : filetomap'[d] = filetomap[d]
      /\ filetomap'[c] = IF filetomap[c].kind = "file" THEN FileStr(path, n) ELSE filetomap[c]
      /\ DOMAIN filetomap' = Clients
      /\ filetomap' = [d \in Clients |-> filetomap'[d]]
  BY <1>2, <1>3
<1>6. filetomap' \in [Clients -> EntryType]
  BY <1>2, <1>4, <1>5
<1> QED BY <1>5, <1>6 DEF n

-----------------------------------------------------------------------------
(* Each step keeps the types. *)
LEMMA JobStep ==
  ASSUME Types, JobsFit, [Next]_vars
  PROVE  JobTypes' /\ JobsFit'
<1> USE SwarmAssumption DEF JobTypes, JobsFit, Types, ClientTypes
<1>1. /\ NoPeers \in [Chunks -> SUBSET Clients] /\ NoTransfer \in TransferType
      /\ \A k \in Chunks : NoPeers[k] = {}
  BY DEF NoPeers, NoTransfer, Transfer, TransferType
<1>2. ASSUME NEW c \in Clients, upload_file(c) PROVE JobTypes' /\ JobsFit'
  BY <1>1, <1>2 DEF upload_file, AtRest, Fetching, Goto, jobVars
<1>3. ASSUME NEW c \in Clients, ufile(c) PROVE JobTypes' /\ JobsFit'
  <2>1. \A k \in Chunks : transfer[c][k] = NoTransfer
    BY <1>3, ChunkFacts DEF ufile, Fetching
  <2>2. CASE /\ \E s \in {"ufile", "pieces"} : stage' = [stage EXCEPT ![c] = s]
             /\ UNCHANGED chunktomap
    BY <1>3, <2>1, <2>2 DEF ufile
  <2>3. CASE /\ stage' = [stage EXCEPT ![c] = "idle"]
             /\ chunktomap' = [chunktomap EXCEPT ![c] = NoPeers]
    BY <1>1, <1>3, <2>1, <2>3 DEF ufile
  <2> QED BY <1>3, <2>2, <2>3 DEF ufile, NotUploaded, Goto
<1>4. ASSUME NEW c \in Clients, Recorded(c) PROVE JobTypes' /\ JobsFit'
  <2>1. \A k \in Chunks : transfer[c][k] = NoTransfer
    BY <1>4 DEF Recorded, Fetching
  <2>2. UNCHANGED <<toask, chunktomap, transfer>>
    BY <1>4 DEF Recorded, jobVars
  <2>3. \/ stage[c] = "upload" /\ stage' = [stage EXCEPT ![c] = "idle"]
        \/ stage[c] = "ufile" /\ stage' = [stage EXCEPT ![c] = "pieces"]
    BY <1>4 DEF Recorded, Goto
  <2>4. JobTypes'
    BY <2>2, <2>3
  <2>5. \A d \in Clients \ {c} : stage'[d] = stage[d]
    BY <2>3
  <2> QED BY <2>1, <2>2, <2>4, <2>5
<1>5. ASSUME NEW c \in Clients, download_file(c) PROVE JobTypes' /\ JobsFit'
  BY <1>5, <1>1 DEF download_file, AtRest, Goto, WorldTypes
<1>6. ASSUME NEW c \in Clients, Asked(c) PROVE JobTypes' /\ JobsFit'
  BY <1>6, <1>1 DEF Asked, Fetching, Goto, jobVars
<1>7. ASSUME NEW c \in Clients, Finish(c) PROVE JobTypes' /\ JobsFit'
  BY <1>7, <1>1 DEF Finish, Fetching, Goto, jobVars
<1>8. ASSUME NEW c \in Clients, getchunks(c) PROVE JobTypes' /\ JobsFit'
  <2>1. stage[c] = "asking" /\ UNCHANGED <<stage, transfer>>
    BY <1>8 DEF getchunks
  <2>2. PICK p \in toask[c] : IF p \in alive THEN Answer(c, p)
                             ELSE /\ toask' = [toask EXCEPT ![c] = {}]
                                  /\ UNCHANGED <<alive, chunktomap, flaws>>
    BY <1>8 DEF getchunks
  <2>3. toask' \in [Clients -> SUBSET Clients]
    <3>1. \/ toask' = [toask EXCEPT ![c] = @ \ {p}]
          \/ toask' = [toask EXCEPT ![c] = {}]
      BY <2>2 DEF Answer
    <3>2. toask[c] \ {p} \in SUBSET Clients /\ {} \in SUBSET Clients
      OBVIOUS
    <3>3. PICK rest \in SUBSET Clients : toask' = [toask EXCEPT ![c] = rest]
      BY <3>1, <3>2
    <3> QED BY <3>3
  <2>4. PICK offers \in [Chunks -> SUBSET Clients] :
          chunktomap' = [chunktomap EXCEPT ![c] = offers]
    <3>1. CASE UNCHANGED chunktomap
      <4>1. chunktomap' = [chunktomap EXCEPT ![c] = chunktomap[c]]
        BY <3>1
      <4> QED BY <4>1
    <3>2. CASE chunktomap' = [chunktomap EXCEPT ![c] =
                                [k \in Chunks |-> @[k] \cup {q \in {p} : k \in Offered(q)}]]
      <4> DEFINE offers == [k \in Chunks |-> chunktomap[c][k] \cup {q \in {p} : k \in Offered(q)}]
      <4>1. offers \in [Chunks -> SUBSET Clients]
        BY <1>8
      <4>2. chunktomap' = [chunktomap EXCEPT ![c] = offers]
        BY <3>2
      <4> QED BY <4>1, <4>2
    <3> QED BY <2>2, <3>1, <3>2 DEF Answer
  <2>5. \A k \in Chunks : transfer[c][k] = NoTransfer
    BY <2>1 DEF Fetching
  <2>6. /\ chunktomap' \in [Clients -> [Chunks -> SUBSET Clients]]
        /\ \A d \in Clients \ {c} : chunktomap'[d] = chunktomap[d]
    <3>1. chunktomap \in [Clients -> [Chunks -> SUBSET Clients]]
      OBVIOUS
    <3> HIDE DEF JobTypes, JobsFit, Types, ClientTypes
    <3> QED BY <2>4, <3>1
  <2>7. JobTypes'
    BY <2>1, <2>3, <2>6
  <2>8. ASSUME NEW d \in Clients, NEW k \in Chunks, transfer'[d][k] # NoTransfer
        PROVE  chunktomap'[d][k] # {} /\ stage'[d] \in Fetching(k)
    BY <2>1, <2>5, <2>6, <2>8
  <2> QED BY <2>7, <2>8
<1>9. ASSUME NEW c \in Clients, NEW k \in Chunks, NEW p \in chunktomap[c][k], download(c, k, p)
      PROVE  JobTypes' /\ JobsFit'
  <2>1. UNCHANGED <<stage, toask, chunktomap>> /\ chunktomap[c][k] # {}
    BY <1>9 DEF download
  <2>2. stage[c] \in Fetching(k)
    BY <1>9 DEF download, Fetchable
  <2>3. PICK answer \in TransferType : transfer' = [transfer EXCEPT ![c][k] = answer]
    <3>1. p \in Clients
      BY <1>9
    <3>2. CASE filetomap[p].kind = "file"
      <4>1. filetomap[p].filepath \in Clients \cup {Nowhere}
        BY <3>1 DEF EntryType
      <4>2. PICK path \in {filetomap[p].filepath, Nowhere} :
              transfer' = [transfer EXCEPT ![c][k] =
                 Transfer(p, path, k < Length(filetomap[p].filepath))]
        BY <1>9, <3>2 DEF download
      <4>3. Transfer(p, path, k < Length(filetomap[p].filepath)) \in TransferType
        BY <3>1, <4>1 DEF Transfer, TransferType
      <4> QED BY <4>2, <4>3
    <3>3. CASE filetomap[p].kind # "file"
      <4>1. Transfer(p, Nowhere, FALSE) \in TransferType
        BY <3>1 DEF Transfer, TransferType
      <4> QED BY <1>9, <3>3, <4>1 DEF download
    <3> QED BY <3>2, <3>3
  <2> QED BY <2>1, <2>2, <2>3
<1>10. ASSUME NEW c \in Clients, NEW k \in Chunks, GiveUp(c, k) \/ LeaveBehind(c, k)
      PROVE  JobTypes' /\ JobsFit'
  <2>1. /\ transfer[c][k] = NoTransfer /\ UNCHANGED <<stage, toask, transfer>>
        /\ chunktomap' = [chunktomap EXCEPT ![c][k] = {}]
    BY <1>10 DEF GiveUp, LeaveBehind, Fetchable
  <2>2. /\ chunktomap' \in [Clients -> [Chunks -> SUBSET Clients]]
        /\ \A d \in Clients, i \in Chunks : d # c \/ i # k => chunktomap'[d][i] = chunktomap[d][i]
    BY <2>1
  <2> QED BY <2>1, <2>2
<1>11. ASSUME NEW c \in Clients, NEW k \in Chunks, Arrive(c, k) PROVE JobTypes' /\ JobsFit'
  BY <1>1, <1>11 DEF Arrive
<1>12. ASSUME NEW c \in Clients, Start(c) PROVE JobTypes' /\ JobsFit'
  BY <1>1, <1>12 DEF Start, Goto
<1>13. CASE UNCHANGED <<stage, toask, chunktomap, transfer>>
  BY <1>13
<1>14. ASSUME NEW c \in alive, Command(c) PROVE JobTypes' /\ JobsFit'
  <2>1. c \in Clients
    BY DEF ClientTypes
  <2>2. ASSUME handle_connection(c) PROVE JobTypes' /\ JobsFit'
    BY <1>8, <1>9, <2>1, <2>2 DEF handle_connection
  <2>3. ASSUME NEW k \in Chunks, GiveUp(c, k) \/ Arrive(c, k) \/ LeaveBehind(c, k)
        PROVE  JobTypes' /\ JobsFit'
    BY <1>10, <1>11, <2>1, <2>3
  <2>4. CASE Stop(c)
    BY <1>13, <2>4 DEF Stop, jobVars
  <2> QED BY <1>2, <1>3, <1>4, <1>5, <1>6, <1>7, <1>14, <2>1, <2>2, <2>3, <2>4 DEF Command
<1>15. ASSUME NEW c \in alive, RemoveCopy(c) PROVE JobTypes' /\ JobsFit'
  BY <1>13, <1>15 DEF RemoveCopy, jobVars
<1>16. CASE UNCHANGED vars
  BY <1>13, <1>16 DEF vars, jobVars
<1> QED BY <1>12, <1>14, <1>15, <1>16 DEF Next

(* Every step, taken apart once for the proofs that follow. *)
LEMMA Steps ==
  ASSUME ClientTypes, [Next]_vars
  PROVE  \/ \E c \in Clients :
              \/ upload_file(c) \/ ufile(c) \/ Recorded(c)
              \/ download_file(c) \/ Asked(c) \/ Finish(c) \/ getchunks(c)
              \/ \E k \in Chunks : \/ \E p \in Clients : download(c, k, p)
                                   \/ GiveUp(c, k) \/ Arrive(c, k) \/ LeaveBehind(c, k)
              \/ Stop(c) \/ RemoveCopy(c) \/ Start(c)
         \/ UNCHANGED vars
<1> USE DEF ClientTypes
<1>1. ASSUME NEW c \in Clients, NEW k \in Chunks, NEW p \in chunktomap[c][k], download(c, k, p)
      PROVE  p \in Clients
  BY <1>1 DEF download
<1>2. ASSUME NEW c \in alive, handle_connection(c)
      PROVE  getchunks(c) \/ \E k \in Chunks : \E p \in Clients : download(c, k, p)
  BY <1>1, <1>2 DEF handle_connection
<1>3. ASSUME NEW c \in alive, Command(c) \/ RemoveCopy(c)
      PROVE  \/ upload_file(c) \/ ufile(c) \/ Recorded(c)
             \/ download_file(c) \/ Asked(c) \/ Finish(c) \/ getchunks(c)
             \/ \E k \in Chunks : \/ \E p \in Clients : download(c, k, p)
                                  \/ GiveUp(c, k) \/ Arrive(c, k) \/ LeaveBehind(c, k)
             \/ Stop(c) \/ RemoveCopy(c)
  BY <1>2, <1>3 DEF Command
<1> QED BY <1>3 DEF Next

(* What is fetched is read from a path of some client or from nowhere. *)
LEMMA ArriveFacts ==
  ASSUME Types, NEW c \in Clients, NEW k \in Chunks, Arrive(c, k)
  PROVE  /\ transfer[c][k].filepath \in Clients \cup {Nowhere}
         /\ \E block \in {"hole", "data", "nothing"} : Receive(c, k, block)
         /\ Adopt(c, transfer[c][k].filepath)
<1> DEFINE path == transfer[c][k].filepath
<1>1. path \in Clients \cup {Nowhere}
  BY DEF Types, JobTypes, TransferType
<1>2. Adopt(c, path)
  BY DEF Arrive
<1>3. CASE k < Length(path) /\ Receive(c, k, disk[path][k + 1])
  <2>1. path \in DOMAIN disk /\ k < Len(disk[path])
    BY <1>3, ChunkFacts DEF Length
  <2>2. disk[path] \in Seq({"hole", "data"})
    BY <2>1 DEF Types, WorldTypes, IsMap
  <2>3. disk[path][k + 1] \in {"hole", "data"}
    BY <2>1, <2>2, ChunkFacts
  <2> QED BY <1>1, <1>2, <1>3, <2>3
<1>4. CASE Receive(c, k, "nothing")
  BY <1>1, <1>2, <1>4
<1>5. (k < Length(path) /\ Receive(c, k, disk[path][k + 1])) \/ Receive(c, k, "nothing")
  BY DEF Arrive
<1> QED BY <1>3, <1>4, <1>5

LEMMA WorldStep ==
  ASSUME Types, CopiesFit, [Next]_vars
  PROVE  WorldTypes' /\ CopiesFit'
<1> USE DEF WorldTypes
<1>1. WorldTypes /\ ClientTypes
  BY DEF Types
<1>2. ASSUME NEW c \in Clients, NEW k \in Chunks, Arrive(c, k) PROVE WorldTypes' /\ CopiesFit'
  <2>1. PICK block \in {"hole", "data", "nothing"} : Receive(c, k, block)
    BY <1>2, ArriveFacts
  <2>2. IsMap(disk, Clients, Seq({"hole", "data"}))' /\ CopiesFit'
    BY <2>1, ReceiveFacts
  <2>3. UNCHANGED <<listed, restarted, removed, commands, mishaps>>
    BY <1>2 DEF Arrive, historyVars
  <2> QED BY <1>1, <2>2, <2>3
<1>3. ASSUME NEW c \in Clients, RemoveCopy(c) PROVE WorldTypes' /\ CopiesFit'
  BY <1>1, <1>3, SwarmAssumption DEF RemoveCopy, Mishap, Erase, IsMap, CopiesFit
<1>4. ASSUME NEW c \in Clients, Start(c) PROVE WorldTypes' /\ CopiesFit'
  BY <1>1, <1>4 DEF Start, CopiesFit
<1>5. ASSUME NEW c \in Clients,
             upload_file(c) \/ ufile(c) \/ download_file(c) \/ Stop(c)
      PROVE  WorldTypes' /\ CopiesFit'
  <2>1. listed' \in {listed, listed \cup {c}}
    BY <1>5 DEF upload_file, ufile, download_file, Stop
  <2>2. commands' \in 0..MaxCommands /\ mishaps' \in 0..MaxMishaps
    BY <1>1, <1>5, SwarmAssumption
       DEF upload_file, ufile, download_file, Stop, Given, Mishap, historyVars
  <2>3. UNCHANGED <<disk, restarted, removed>>
    BY <1>5 DEF upload_file, ufile, download_file, Stop, historyVars
  <2> QED BY <1>1, <2>1, <2>2, <2>3 DEF CopiesFit
<1>6. CASE UNCHANGED <<listed, disk, historyVars>>
  BY <1>1, <1>6 DEF historyVars, CopiesFit
<1>7. ASSUME NEW c \in Clients, NEW k \in Chunks,
             (\E p \in Clients : download(c, k, p)) \/ GiveUp(c, k) \/ LeaveBehind(c, k)
      PROVE  WorldTypes' /\ CopiesFit'
  BY <1>6, <1>7 DEF download, GiveUp, LeaveBehind
<1>8. ASSUME NEW c \in Clients, Recorded(c) \/ Asked(c) \/ Finish(c) \/ getchunks(c)
      PROVE  WorldTypes' /\ CopiesFit'
  BY <1>6, <1>8 DEF Recorded, Asked, Finish, getchunks
<1>9. CASE UNCHANGED vars
  BY <1>6, <1>9 DEF vars
<1> QED BY <1>1, <1>2, <1>3, <1>4, <1>5, <1>7, <1>8, <1>9, Steps

LEMMA ClientStep ==
  ASSUME Types, CopiesFit, [Next]_vars
  PROVE  ClientTypes'
<1> USE DEF ClientTypes
<1>1. WorldTypes /\ ClientTypes /\ WorldTypes' /\ CopiesFit'
  BY WorldStep DEF Types
<1>2. NoEntry \in EntryType /\ NullEntry \in EntryType
  BY SwarmAssumption DEF NoEntry, NullEntry, EntryType
<1>3. ASSUME NEW c \in Clients, Lookup(c) PROVE filetomap' \in [Clients -> EntryType]
  BY <1>1, <1>2, <1>3 DEF Lookup
<1>4. ASSUME NEW c \in Clients, NEW k \in Chunks, Arrive(c, k) PROVE ClientTypes'
  <2>1. PICK block \in {"hole", "data", "nothing"} : Receive(c, k, block)
    BY <1>4, ArriveFacts
  <2>2. filetomap' \in [Clients -> EntryType]
    BY <1>1, <1>4, ArriveFacts, AdoptFacts DEF WorldTypes
  <2>3. UNCHANGED alive
    BY <1>4 DEF Arrive
  <2>4. flaws' \in [Clients -> SUBSET {"cut", "missed", "stopped"}]
    BY <1>1, <2>1 DEF Receive
  <2> QED BY <1>1, <2>2, <2>3, <2>4
<1>5. ASSUME NEW c \in Clients, Recorded(c) PROVE ClientTypes'
  <2>1. FileStr(c, Length(c)) \in EntryType
    BY <1>1, SwarmAssumption DEF FileStr, Length, EntryType, WorldTypes, IsMap, CopiesFit, Types
  <2>2. UNCHANGED <<alive, flaws>>
    BY <1>5 DEF Recorded, jobVars
  <2> QED BY <1>1, <1>5, <2>1, <2>2 DEF Recorded, Record
<1>6. ASSUME NEW c \in Clients, Asked(c) PROVE ClientTypes'
  BY <1>1, <1>3, <1>6 DEF Asked, jobVars
<1>7. ASSUME NEW c \in Clients, NEW k \in Chunks, NEW p \in Clients, download(c, k, p)
      PROVE  ClientTypes'
  BY <1>1, <1>3, <1>7 DEF download
<1>8. ASSUME NEW c \in Clients, getchunks(c) PROVE ClientTypes'
  <2>1. alive' \subseteq alive /\ UNCHANGED filetomap
    BY <1>8 DEF getchunks, Answer
  <2>2. \/ UNCHANGED flaws
        \/ flaws' = [flaws EXCEPT ![c] = flaws[c]]
        \/ flaws' = [flaws EXCEPT ![c] = flaws[c] \ {"cut"}]
    BY <1>8 DEF getchunks, Answer
  <2> QED BY <1>1, <2>1, <2>2
<1>9. ASSUME NEW c \in Clients, NEW k \in Chunks, GiveUp(c, k) \/ LeaveBehind(c, k)
      PROVE  ClientTypes'
  BY <1>1, <1>9 DEF GiveUp, LeaveBehind
<1>10. ASSUME NEW c \in Clients, Start(c) PROVE ClientTypes'
  BY <1>1, <1>2, <1>10 DEF Start
<1>11. ASSUME NEW c \in Clients, download_file(c) \/ ufile(c) \/ Stop(c) PROVE ClientTypes'
  BY <1>1, <1>11 DEF download_file, ufile, Stop, jobVars
<1>12. CASE UNCHANGED <<alive, filetomap, flaws>>
  BY <1>1, <1>12
<1>13. ASSUME NEW c \in Clients, upload_file(c) \/ Finish(c) \/ RemoveCopy(c) PROVE ClientTypes'
  BY <1>12, <1>13 DEF upload_file, Finish, RemoveCopy, jobVars
<1>14. CASE UNCHANGED vars
  BY <1>12, <1>14 DEF vars, jobVars
<1> QED BY <1>1, <1>4, <1>5, <1>6, <1>7, <1>8, <1>9, <1>10, <1>11, <1>13, <1>14, Steps

LEMMA TypesAlways == Spec => [](Types /\ CopiesFit /\ JobsFit)
<1>1. ASSUME Init PROVE Types /\ CopiesFit /\ JobsFit
  <2> DEFINE file == [i \in 1..Size |-> "data"]
  <2>1. file \in Seq({"hole", "data"}) /\ Len(file) = Size
    BY SwarmAssumption
  <2>2. WorldTypes /\ CopiesFit
    BY <1>1, <2>1, SwarmAssumption DEF Init, WorldTypes, IsMap, CopiesFit
  <2>3. NoEntry \in EntryType /\ NoTransfer \in TransferType /\ NoPeers \in [Chunks -> SUBSET Clients]
    BY SwarmAssumption DEF NoEntry, EntryType, NoTransfer, Transfer, TransferType, NoPeers
  <2>4. ClientTypes
    BY <1>1, <2>3 DEF Init, ClientTypes
  <2>5. JobTypes /\ JobsFit
    BY <1>1, <2>3 DEF Init, JobTypes, JobsFit
  <2> QED BY <2>2, <2>4, <2>5 DEF Types
<1>2. ASSUME Types, CopiesFit, JobsFit, [Next]_vars PROVE (Types /\ CopiesFit /\ JobsFit)'
  BY <1>2, JobStep, WorldStep, ClientStep DEF Types
<1> QED BY <1>1, <1>2, PTL DEF Spec

(* The state of the swarm stays well-typed, and a chunk is fetched only    *)
(* while peers are known that offer it: chunk 0 before ufile, the others   *)
(* after it, also when the user has been told that the download is over.   *)
THEOREM TypeCorrect == Spec => []TypeOK
<1>1. Types /\ CopiesFit /\ JobsFit => TypeOK
  BY TypesSplit DEF TypeInvariant
<1> QED BY <1>1, TypesAlways, PTL

-----------------------------------------------------------------------------
(* Whoever is listed has recorded its file, is about to, or has forgotten  *)
(* it by ending; whether the client runs does not matter.                  *)
ListedKnow ==
  \A c \in listed : filetomap[c].kind = "file" \/ stage[c] \in {"upload", "ufile"} \/ c \in restarted

(* A look never takes an entry away. *)
LEMMA LookupKeeps ==
  ASSUME Types, NEW c \in Clients, Lookup(c)
  PROVE  \A d \in Clients : /\ filetomap[d].kind = "file" => filetomap'[d] = filetomap[d]
                            /\ filetomap'[d] = filetomap[d] \/ filetomap'[d] = NullEntry
<1>1. filetomap \in [Clients -> EntryType]
  BY DEF Types, ClientTypes
<1>2. NoEntry.kind # "file"
  BY DEF NoEntry
<1> QED BY <1>1, <1>2 DEF Lookup

LEMMA ListedKnowStep ==
  ASSUME Types, CopiesFit, ListedKnow, [Next]_vars, Types', CopiesFit'
  PROVE  ListedKnow'
<1>1. /\ listed \subseteq Clients /\ filetomap \in [Clients -> EntryType]
      /\ DOMAIN stage = Clients
  BY DEF Types, ClientTypes, WorldTypes, JobTypes
<1>2. ASSUME NEW c \in Clients, upload_file(c) PROVE ListedKnow'
  BY <1>1, <1>2 DEF upload_file, Goto, ListedKnow
<1>3. ASSUME NEW c \in Clients, ufile(c) PROVE ListedKnow'
  BY <1>1, <1>3 DEF ufile, NotUploaded, Goto, ListedKnow, historyVars
<1>4. ASSUME NEW c \in Clients, Recorded(c) PROVE ListedKnow'
  <2>1. /\ UNCHANGED <<listed, restarted>>
        /\ filetomap' = [filetomap EXCEPT ![c] = FileStr(c, Length(c))]
        /\ \E s \in {"idle", "pieces"} : stage' = [stage EXCEPT ![c] = s]
    BY <1>4 DEF Recorded, Record, Goto, historyVars
  <2>2. filetomap'[c].kind = "file"
    BY <1>1, <2>1 DEF FileStr
  <2>3. \A d \in Clients \ {c} : filetomap'[d] = filetomap[d] /\ stage'[d] = stage[d]
    BY <1>1, <2>1
  <2> QED BY <1>1, <2>1, <2>2, <2>3 DEF ListedKnow
<1>5. ASSUME NEW c \in Clients, download_file(c) \/ Finish(c) PROVE ListedKnow'
  BY <1>1, <1>5 DEF download_file, AtRest, Finish, Goto, ListedKnow, historyVars
<1>6. ASSUME NEW c \in Clients, Asked(c) PROVE ListedKnow'
  <2>1. /\ UNCHANGED <<listed, restarted>> /\ stage[c] = "asking"
        /\ \E s \in {"idle", "seed"} : stage' = [stage EXCEPT ![c] = s]
        /\ Lookup(c) \/ UNCHANGED filetomap
    BY <1>6 DEF Asked, Goto, historyVars
  <2>2. \A d \in Clients : filetomap[d].kind = "file" => filetomap'[d].kind = "file"
    BY <2>1, LookupKeeps
  <2>3. \A d \in Clients : stage[d] \in {"upload", "ufile"} => stage'[d] = stage[d]
    BY <1>1, <2>1
  <2> QED BY <1>1, <2>1, <2>2, <2>3 DEF ListedKnow
<1>7. ASSUME NEW c \in Clients, NEW k \in Chunks, NEW p \in Clients, download(c, k, p)
      PROVE  ListedKnow'
  BY <1>1, <1>7, LookupKeeps DEF download, ListedKnow, historyVars
<1>8. ASSUME NEW c \in Clients, NEW k \in Chunks, Arrive(c, k) PROVE ListedKnow'
  <2>1. \A d \in Clients : filetomap[d].kind = "file" => filetomap'[d].kind = "file"
    <3>1. IsMap(disk, Clients, Seq({"hole", "data"}))'
      BY DEF Types, WorldTypes
    <3>2. PICK path \in Clients \cup {Nowhere} : Adopt(c, path)
      BY <1>8, ArriveFacts
    <3>3. \A d \in Clients \ {c} : filetomap'[d] = filetomap[d]
      BY <3>1, <3>2, AdoptFacts
    <3>4. filetomap[c].kind = "file" => filetomap'[c].kind = "file"
      <4>1. filetomap[c].kind = "file" => \E n : filetomap'[c] = FileStr(path, n)
        BY <3>1, <3>2, AdoptFacts
      <4>2. \A n : FileStr(path, n).kind = "file"
        BY DEF FileStr
      <4> QED BY <4>1, <4>2
    <3> QED BY <3>3, <3>4
  <2> QED BY <1>1, <1>8, <2>1 DEF Arrive, ListedKnow, historyVars
<1>9. ASSUME NEW c \in Clients, Start(c) PROVE ListedKnow'
  BY <1>1, <1>9 DEF Start, Goto, ListedKnow
<1>10. CASE UNCHANGED <<listed, filetomap, stage, restarted>>
  BY <1>10 DEF ListedKnow
<1>11. ASSUME NEW c \in Clients, \/ getchunks(c) \/ Stop(c) \/ RemoveCopy(c)
                                 \/ \E k \in Chunks : GiveUp(c, k) \/ LeaveBehind(c, k)
       PROVE  ListedKnow'
  BY <1>10, <1>11 DEF getchunks, Stop, RemoveCopy, GiveUp, LeaveBehind, historyVars
<1>12. CASE UNCHANGED vars
  BY <1>10, <1>12 DEF vars, historyVars
<1> QED BY <1>2, <1>3, <1>4, <1>5, <1>6, <1>7, <1>8, <1>9, <1>11, <1>12, Steps DEF Types

(* Whom the tracker names can answer for the file: no downloader's request *)
(* ends a client that has run since it was listed.                         *)
THEOREM ListedAnswer == Spec => []ListedCanAnswer
<1>1. Init => ListedKnow
  BY DEF Init, ListedKnow
<1>2. ListedKnow => ListedCanAnswer
  BY DEF ListedKnow, ListedCanAnswer
<1> QED BY <1>1, <1>2, ListedKnowStep, TypesAlways, PTL DEF Spec

-----------------------------------------------------------------------------
(* A path is backed when a listed client's copy with that many chunks is   *)
(* there, or was, or when it is no path at all.                            *)
Backed(path, n) == \/ path = Nowhere /\ n = 0
                   \/ path \in removed
                   \/ path \in listed /\ path \in DOMAIN disk /\ n <= Len(disk[path])

EntriesBacked == \A c \in Clients : Backed(filetomap[c].filepath, filetomap[c].chunks)
TransfersBacked == \A c \in Clients, k \in Chunks : Backed(transfer[c][k].filepath, 0)
SharersBacked == \A c \in Clients : stage[c] \in {"upload", "ufile"} => Backed(c, 0)

AllBacked == EntriesBacked /\ TransfersBacked /\ SharersBacked

(* No copy gets shorter, none goes unless it is removed, and the tracker   *)
(* forgets nobody.                                                         *)
Grows == /\ listed \subseteq listed' /\ removed \subseteq removed'
         /\ \A c \in DOMAIN disk : c \in removed' \/ (c \in DOMAIN disk' /\ Len(disk[c]) <= Len(disk'[c]))

LEMMA GrowsStep ==
  ASSUME Types, CopiesFit, [Next]_vars
  PROVE  Grows
<1>1. \A c \in DOMAIN disk : Len(disk[c]) \in Nat
  BY DEF Types, WorldTypes, IsMap
<1>2. ASSUME NEW c \in Clients, NEW k \in Chunks, Arrive(c, k) PROVE Grows
  <2>1. PICK block \in {"hole", "data", "nothing"} : Receive(c, k, block)
    BY <1>2, ArriveFacts
  <2>2. /\ DOMAIN disk' = DOMAIN disk \cup {c}
        /\ \A d \in DOMAIN disk \ {c} : disk'[d] = disk[d]
        /\ c \in DOMAIN disk => Len(disk[c]) <= Len(disk'[c])
    BY <2>1, ReceiveFacts
  <2>3. UNCHANGED <<listed, removed>>
    BY <1>2 DEF Arrive, historyVars
  <2> QED BY <1>1, <2>2, <2>3 DEF Grows
<1>3. ASSUME NEW c \in Clients, RemoveCopy(c) PROVE Grows
  BY <1>1, <1>3 DEF RemoveCopy, Erase, Grows
<1>4. CASE UNCHANGED <<disk, removed>> /\ listed \subseteq listed'
  BY <1>1, <1>4 DEF Grows
<1>5. ASSUME NEW c \in Clients, \/ upload_file(c) \/ ufile(c) \/ download_file(c)
                                \/ Stop(c) \/ Start(c)
      PROVE  Grows
  BY <1>4, <1>5 DEF upload_file, ufile, download_file, Stop, Start, historyVars
<1>6. ASSUME NEW c \in Clients, \/ Recorded(c) \/ Asked(c) \/ Finish(c) \/ getchunks(c)
                                \/ \E k \in Chunks : \/ GiveUp(c, k) \/ LeaveBehind(c, k)
                                                     \/ \E p \in Clients : download(c, k, p)
      PROVE  Grows
  BY <1>4, <1>6 DEF Recorded, Asked, Finish, getchunks, GiveUp, LeaveBehind, download, historyVars
<1>7. CASE UNCHANGED vars
  BY <1>4, <1>7 DEF vars, historyVars
<1> QED BY <1>2, <1>3, <1>5, <1>6, <1>7, Steps DEF Types

LEMMA BackedStays ==
  ASSUME Types, CopiesFit', Types', Grows, NEW path \in Clients \cup {Nowhere}, NEW n \in 0..Size,
         Backed(path, n)
  PROVE  Backed(path, n)'
<1>1. /\ \A c \in DOMAIN disk : Len(disk[c]) \in Nat
      /\ \A c \in DOMAIN disk' : Len(disk'[c]) \in Nat
  BY DEF Types, WorldTypes, IsMap
<1> QED BY <1>1, SwarmAssumption DEF Backed, Grows

(* So it is enough to look at the entries and the transfers that a step    *)
(* changes.                                                                *)
LEMMA EntriesStay ==
  ASSUME Types, CopiesFit', Types', Grows, EntriesBacked,
         \A c \in Clients : \/ filetomap'[c] = filetomap[c]
                            \/ Backed(filetomap[c].filepath, filetomap[c].chunks)'
  PROVE  EntriesBacked'
<1> SUFFICES ASSUME NEW c \in Clients, filetomap'[c] = filetomap[c]
             PROVE  Backed(filetomap[c].filepath, filetomap[c].chunks)'
  BY DEF EntriesBacked
<1>1. PICK path \in Clients \cup {Nowhere}, n \in 0..Size :
        path = filetomap[c].filepath /\ n = filetomap[c].chunks
  BY DEF Types, ClientTypes, EntryType
<1>2. Backed(path, n)
  BY <1>1 DEF EntriesBacked
<1>3. Backed(path, n)'
  BY <1>2, BackedStays
<1> QED BY <1>1, <1>3

LEMMA TransfersStay ==
  ASSUME Types, CopiesFit', Types', Grows, TransfersBacked,
         \A c \in Clients, k \in Chunks : \/ transfer'[c][k] = transfer[c][k]
                                          \/ Backed(transfer[c][k].filepath, 0)'
  PROVE  TransfersBacked'
<1> SUFFICES ASSUME NEW c \in Clients, NEW k \in Chunks, transfer'[c][k] = transfer[c][k]
             PROVE  Backed(transfer[c][k].filepath, 0)'
  BY DEF TransfersBacked
<1>1. PICK path \in Clients \cup {Nowhere} : path = transfer[c][k].filepath
  BY DEF Types, JobTypes, TransferType
<1>2. Backed(path, 0)
  BY <1>1 DEF TransfersBacked
<1>3. Backed(path, 0)'
  BY <1>2, BackedStays, SwarmAssumption
<1> QED BY <1>1, <1>3

LEMMA SharersStay ==
  ASSUME Types, CopiesFit', Types', Grows, SharersBacked,
         \A c \in Clients : stage'[c] \in {"upload", "ufile"} =>
           stage[c] \in {"upload", "ufile"} \/ Backed(c, 0)'
  PROVE  SharersBacked'
<1>1. \A c \in Clients : Backed(c, 0) => Backed(c, 0)'
  BY BackedStays, SwarmAssumption
<1> QED BY <1>1 DEF SharersBacked

LEMMA BackedStep ==
  ASSUME Types, CopiesFit, AllBacked, [Next]_vars, Types', CopiesFit'
  PROVE  AllBacked'
<1> USE DEF AllBacked
<1>1. /\ Grows
      /\ filetomap \in [Clients -> EntryType]
      /\ DOMAIN stage = Clients
      /\ transfer \in [Clients -> [Chunks -> TransferType]]
  BY GrowsStep DEF Types, ClientTypes, JobTypes
<1>2. UNCHANGED filetomap => EntriesBacked'
  BY <1>1, EntriesStay
<1>3. UNCHANGED transfer => TransfersBacked'
  BY <1>1, TransfersStay
<1>4. UNCHANGED stage => SharersBacked'
  BY <1>1, SharersStay
<1>5. ASSUME NEW p \in Clients, Lookup(p) PROVE EntriesBacked'
  <2>1. \A d \in Clients : \/ filetomap'[d] = filetomap[d]
                           \/ filetomap'[d].filepath = Nowhere /\ filetomap'[d].chunks = 0
    <3>1. NullEntry.filepath = Nowhere /\ NullEntry.chunks = 0
      BY DEF NullEntry
    <3> QED BY <1>5, <3>1, LookupKeeps
  <2>2. \A d \in Clients : \/ filetomap'[d] = filetomap[d]
                           \/ Backed(filetomap[d].filepath, filetomap[d].chunks)'
    BY <2>1 DEF Backed
  <2> QED BY <1>1, <2>2, EntriesStay
<1>6. ASSUME NEW c \in Clients, upload_file(c) \/ ufile(c) PROVE AllBacked'
  <2>1. \/ /\ c \in DOMAIN disk /\ UNCHANGED disk /\ listed' = listed \cup {c}
           /\ \E s \in {"upload", "ufile"} : stage' = [stage EXCEPT ![c] = s]
        \/ \E s \in {"idle", "pieces"} : stage' = [stage EXCEPT ![c] = s]
    BY <1>6 DEF upload_file, ufile, NotUploaded, Goto
  <2>2. UNCHANGED <<filetomap, transfer>>
    BY <1>6 DEF upload_file, ufile, jobVars
  <2>3. stage'[c] \in {"upload", "ufile"} => Backed(c, 0)'
    <3>1. c \in DOMAIN disk => Len(disk[c]) \in Nat
      BY DEF Types, WorldTypes, IsMap
    <3> QED BY <1>1, <2>1, <3>1 DEF Backed
  <2>4. \A d \in Clients \ {c} : stage'[d] = stage[d]
    BY <1>1, <2>1
  <2> QED BY <1>1, <1>2, <1>3, <2>2, <2>3, <2>4, SharersStay
<1>7. ASSUME NEW c \in Clients, NEW s, stage' = [stage EXCEPT ![c] = s], s \notin {"upload", "ufile"}
      PROVE  SharersBacked'
  BY <1>1, <1>7, SharersStay
<1>8. ASSUME NEW c \in Clients, Recorded(c) PROVE AllBacked'
  <2>1. /\ stage[c] \in {"upload", "ufile"}
        /\ UNCHANGED <<listed, disk, removed, transfer>>
        /\ filetomap' = [filetomap EXCEPT ![c] = FileStr(c, Length(c))]
        /\ \E s \in {"idle", "pieces"} : stage' = [stage EXCEPT ![c] = s]
    BY <1>8 DEF Recorded, Record, Goto, historyVars, jobVars
  <2>2. Backed(c, Length(c))
    <3>1. Backed(c, 0)
      BY <2>1 DEF SharersBacked
    <3>2. c \in DOMAIN disk => Len(disk[c]) \in Nat
      BY DEF Types, WorldTypes, IsMap
    <3>3. c \in removed \/ (c \in listed /\ c \in DOMAIN disk)
      BY <3>1, SwarmAssumption DEF Backed, Nowhere
    <3> QED BY <3>2, <3>3 DEF Backed, Length
  <2>3. /\ filetomap'[c].filepath = c /\ filetomap'[c].chunks = Length(c)
        /\ \A d \in Clients \ {c} : filetomap'[d] = filetomap[d]
    BY <1>1, <2>1 DEF FileStr
  <2>4. Backed(filetomap[c].filepath, filetomap[c].chunks)'
    BY <2>1, <2>2, <2>3 DEF Backed
  <2>5. EntriesBacked'
    BY <1>1, <2>3, <2>4, EntriesStay
  <2> QED BY <1>3, <1>7, <2>1, <2>5
<1>9. ASSUME NEW c \in Clients, download_file(c) \/ Finish(c) PROVE AllBacked'
  <2>1. /\ \E s \in {"idle", "asking"} : stage' = [stage EXCEPT ![c] = s]
        /\ UNCHANGED <<filetomap, transfer>>
    BY <1>9 DEF download_file, Finish, Goto, jobVars
  <2> QED BY <1>2, <1>3, <1>7, <2>1
<1>10. ASSUME NEW c \in Clients, Asked(c) PROVE AllBacked'
  <2>1. /\ \E s \in {"idle", "seed"} : stage' = [stage EXCEPT ![c] = s]
        /\ Lookup(c) \/ UNCHANGED filetomap
        /\ UNCHANGED transfer
    BY <1>10 DEF Asked, Goto, jobVars
  <2> QED BY <1>2, <1>3, <1>5, <1>7, <2>1
<1>11. ASSUME NEW c \in Clients, NEW k \in Chunks, NEW t, transfer' = [transfer EXCEPT ![c][k] = t],
              Backed(t.filepath, 0)'
       PROVE  TransfersBacked'
  <2>1. /\ transfer'[c][k].filepath = t.filepath
        /\ \A d \in Clients, i \in Chunks : (d # c \/ i # k) => transfer'[d][i] = transfer[d][i]
    BY <1>1, <1>11
  <2>2. Backed(transfer[c][k].filepath, 0)'
    BY <1>11, <2>1 DEF Backed
  <2> QED BY <1>1, <2>1, <2>2, TransfersStay
<1>12. \A p, b : Transfer(p, Nowhere, b).filepath = Nowhere /\ NoTransfer.filepath = Nowhere
  BY DEF Transfer, NoTransfer
<1>13. ASSUME NEW c \in Clients, NEW k \in Chunks, NEW p \in Clients, download(c, k, p)
       PROVE  AllBacked'
  <2>1. Lookup(p) /\ UNCHANGED <<listed, disk, stage, removed>>
    BY <1>13 DEF download, historyVars
  <2>2. PICK path \in {filetomap[p].filepath, Nowhere}, b \in BOOLEAN :
          transfer' = [transfer EXCEPT ![c][k] = Transfer(p, path, b)]
    <3>1. CASE filetomap[p].kind = "file"
      <4>1. (k < Length(filetomap[p].filepath)) \in BOOLEAN
        OBVIOUS
      <4>2. PICK path \in {filetomap[p].filepath, Nowhere} :
              transfer' = [transfer EXCEPT ![c][k] =
                             Transfer(p, path, k < Length(filetomap[p].filepath))]
        BY <1>13, <3>1 DEF download
      <4> QED BY <4>1, <4>2
    <3>2. CASE filetomap[p].kind # "file"
      <4>1. transfer' = [transfer EXCEPT ![c][k] = Transfer(p, Nowhere, FALSE)]
        BY <1>13, <3>2 DEF download
      <4> QED BY <4>1
    <3> QED BY <3>1, <3>2
  <2>3. Backed(path, 0)
    <3>1. Backed(filetomap[p].filepath, filetomap[p].chunks) /\ filetomap[p].chunks \in 0..Size
      BY <1>1 DEF EntriesBacked, EntryType
    <3>2. \A q \in DOMAIN disk : Len(disk[q]) \in Nat
      BY DEF Types, WorldTypes, IsMap
    <3> QED BY <2>2, <3>1, <3>2, SwarmAssumption DEF Backed
  <2>4. Transfer(p, path, b).filepath = path
    BY DEF Transfer
  <2>5. Backed(Transfer(p, path, b).filepath, 0)'
    BY <2>1, <2>3, <2>4 DEF Backed
  <2> QED BY <1>4, <1>5, <1>11, <2>1, <2>2, <2>5
<1>14. ASSUME NEW c \in Clients, NEW k \in Chunks, Arrive(c, k) PROVE AllBacked'
  <2> DEFINE path == transfer[c][k].filepath
             n == IF path \in DOMAIN disk' THEN Len(disk'[path]) ELSE 0
  <2>1. /\ UNCHANGED <<listed, stage, removed>>
        /\ transfer' = [transfer EXCEPT ![c][k] = NoTransfer]
    BY <1>14 DEF Arrive, historyVars
  <2>2. path \in Clients \cup {Nowhere} /\ Adopt(c, path)
    BY <1>14, ArriveFacts
  <2>3. IsMap(disk, Clients, Seq({"hole", "data"}))'
    BY DEF Types, WorldTypes
  <2>4. /\ \A d \in Clients \ {c} : filetomap'[d] = filetomap[d]
        /\ filetomap'[c] = filetomap[c] \/ filetomap'[c] = FileStr(path, n)
    BY <2>2, <2>3, AdoptFacts
  <2>5. path \in removed' \/ path = Nowhere \/ (path \in listed' /\ path \in DOMAIN disk')
    <3>1. path \in removed \/ path = Nowhere \/ (path \in listed /\ path \in DOMAIN disk)
      BY DEF TransfersBacked, Backed
    <3> QED BY <3>1, <1>1, <2>2 DEF Grows
  <2>6. FileStr(path, n).filepath = path /\ FileStr(path, n).chunks = n
    BY DEF FileStr
  <2>7. path \in removed' \/ (path \in listed' /\ path \in DOMAIN disk') \/ (path = Nowhere /\ n = 0)
    BY <2>3, <2>5, SwarmAssumption DEF IsMap, Nowhere
  <2>8. path \in DOMAIN disk' => n <= Len(disk'[path])
    BY <2>3 DEF IsMap
  <2> HIDE DEF n, path
  <2>9. filetomap'[c] = filetomap[c] \/ Backed(filetomap[c].filepath, filetomap[c].chunks)'
    BY <2>4, <2>6, <2>7, <2>8 DEF Backed
  <2>10. EntriesBacked'
    BY <1>1, <2>4, <2>9, EntriesStay
  <2>11. Backed(NoTransfer.filepath, 0)'
    BY <1>12 DEF Backed
  <2> QED BY <1>4, <1>11, <2>1, <2>10, <2>11
<1>15. ASSUME NEW c \in Clients, Start(c) PROVE AllBacked'
  <2>1. /\ stage' = [stage EXCEPT ![c] = "idle"]
        /\ filetomap' = [filetomap EXCEPT ![c] = NoEntry]
        /\ transfer' = [transfer EXCEPT ![c] = [k \in Chunks |-> NoTransfer]]
    BY <1>15 DEF Start, Goto
  <2>2. NoEntry.filepath = Nowhere /\ NoEntry.chunks = 0
    BY DEF NoEntry
  <2>3. Backed(filetomap[c].filepath, filetomap[c].chunks)'
    BY <1>1, <2>1, <2>2 DEF Backed
  <2>4. \A k \in Chunks : transfer'[c][k] = NoTransfer
    BY <1>1, <2>1
  <2>5. \A k \in Chunks : Backed(transfer[c][k].filepath, 0)'
    BY <1>12, <2>4 DEF Backed
  <2>6. \A d \in Clients \ {c} : filetomap'[d] = filetomap[d] /\ transfer'[d] = transfer[d]
    BY <1>1, <2>1
  <2>7. EntriesBacked'
    BY <1>1, <2>3, <2>6, EntriesStay
  <2>8. TransfersBacked'
    BY <1>1, <2>5, <2>6, TransfersStay
  <2> QED BY <1>7, <2>1, <2>7, <2>8
<1>16. CASE UNCHANGED <<filetomap, stage, transfer>>
  BY <1>2, <1>3, <1>4, <1>16
<1>17. ASSUME NEW c \in Clients, \/ getchunks(c) \/ Stop(c) \/ RemoveCopy(c)
                                 \/ \E k \in Chunks : GiveUp(c, k) \/ LeaveBehind(c, k)
       PROVE  AllBacked'
  BY <1>16, <1>17 DEF getchunks, Stop, RemoveCopy, GiveUp, LeaveBehind, jobVars
<1>18. CASE UNCHANGED vars
  BY <1>16, <1>18 DEF vars, jobVars
<1> QED BY <1>6, <1>8, <1>9, <1>10, <1>13, <1>14, <1>15, <1>17, <1>18, Steps DEF Types

(* What a client offers is there, or was removed: also when its entry      *)
(* leads to another client's copy, taken over with a chunk.                *)
THEOREM Offers == Spec => []OfferedExist
<1>1. ASSUME Init PROVE AllBacked
  <2>1. NoEntry.filepath = Nowhere /\ NoEntry.chunks = 0 /\ NoTransfer.filepath = Nowhere
    BY DEF NoEntry, NoTransfer, Transfer
  <2> QED BY <1>1, <2>1 DEF Init, AllBacked, EntriesBacked, TransfersBacked, SharersBacked, Backed
<1>2. AllBacked => OfferedExist
  BY DEF AllBacked, EntriesBacked, Backed, OfferedExist
<1> QED BY <1>1, <1>2, BackedStep, TypesAlways, PTL DEF Spec

-----------------------------------------------------------------------------
(* What a download without a flaw lacks it still has peers for; so it      *)
(* lacks nothing when nothing is fetched any more.                         *)
HasChunk(copy, k) == k + 1 <= Len(copy) /\ copy[k + 1] = "data"
Has(c, k) == c \in DOMAIN disk /\ HasChunk(disk[c], k)

Supplied(c) == \A k \in Chunks : chunktomap[c][k] # {} \/ Has(c, k)

Sound(c) == flaws[c] = {} =>
              \/ Supplied(c)
              \/ /\ stage[c] \in {"idle", "upload"} /\ chunktomap[c] = NoPeers
                 /\ c \in DOMAIN disk => Whole(c)

AllSound == \A c \in Clients : Sound(c)

(* A copy that has every chunk is whole. *)
LEMMA HasAll ==
  ASSUME Types, CopiesFit, NEW c \in Clients, Supplied(c), chunktomap[c] = NoPeers
  PROVE  Whole(c)
<1>1. \A k \in Chunks : Has(c, k)
  BY DEF Supplied, NoPeers
<1>2. c \in DOMAIN disk /\ disk[c] \in Seq({"hole", "data"}) /\ Len(disk[c]) \in Nat
  BY <1>1, ChunkFacts DEF Has, Types, WorldTypes, IsMap
<1>3. Size - 1 \in Chunks /\ \A i \in 1..Size : i - 1 \in Chunks /\ (i - 1) + 1 = i
  BY SwarmAssumption DEF Chunks
<1>4. Len(disk[c]) = Size
  <2>1. Size <= Len(disk[c])
    BY <1>1, <1>2, <1>3, SwarmAssumption DEF Has, HasChunk
  <2> QED BY <1>2, <2>1, SwarmAssumption DEF CopiesFit
<1>5. \A i \in 1..Size : disk[c][i] = "data"
  BY <1>1, <1>3 DEF Has, HasChunk
<1>6. disk[c] = [i \in 1..Size |-> disk[c][i]]
  BY <1>2, <1>4
<1>7. disk[c] = [i \in 1..Size |-> "data"]
  BY <1>5, <1>6
<1> QED BY <1>2, <1>7 DEF Whole

(* It is enough to look at the client that takes the step. *)
LEMMA OthersSound ==
  ASSUME AllSound, NEW c \in Clients, Sound(c)',
         \A d \in Clients \ {c} :
           /\ stage'[d] = stage[d] /\ chunktomap'[d] = chunktomap[d] /\ flaws'[d] = flaws[d]
           /\ d \in DOMAIN disk' <=> d \in DOMAIN disk
           /\ d \in DOMAIN disk => disk'[d] = disk[d]
  PROVE  AllSound'
<1> SUFFICES ASSUME NEW d \in Clients \ {c} PROVE Sound(d)'
  BY DEF AllSound
<1>1. Sound(d)
  BY DEF AllSound
<1>2. Whole(d) => Whole(d)' \/ d \notin DOMAIN disk
  BY DEF Whole
<1>3. \A k \in Chunks : Has(d, k) => Has(d, k)'
  BY DEF Has
<1>4. Supplied(d) => Supplied(d)'
  BY <1>3 DEF Supplied
<1> QED BY <1>1, <1>2, <1>4 DEF Sound

LEMMA SoundStep ==
  ASSUME Types, CopiesFit, JobsFit, AllSound, [Next]_vars
  PROVE  AllSound'
<1>1. /\ DOMAIN stage = Clients /\ chunktomap \in [Clients -> [Chunks -> SUBSET Clients]]
      /\ flaws \in [Clients -> SUBSET {"cut", "missed", "stopped"}]
      /\ \A c \in Clients : Sound(c)
      /\ DOMAIN transfer = Clients
  BY DEF Types, JobTypes, ClientTypes, AllSound
<1>2. UNCHANGED disk => \A c \in Clients : UNCHANGED chunktomap[c] =>
        (Supplied(c) => Supplied(c)') /\ (Whole(c) => Whole(c)')
  BY DEF Supplied, Has, HasChunk, Whole
<1>3. ASSUME NEW c \in Clients, upload_file(c) PROVE AllSound'
  <2>1. /\ stage[c] = "idle" /\ stage' = [stage EXCEPT ![c] = "upload"]
        /\ UNCHANGED <<disk, chunktomap, flaws>>
    BY <1>3 DEF upload_file, AtRest, Goto, jobVars
  <2>2. Sound(c)'
    BY <1>1, <1>2, <2>1 DEF Sound
  <2> QED BY <1>1, <2>1, <2>2, OthersSound
<1>4. ASSUME NEW c \in Clients, ufile(c) PROVE AllSound'
  <2>1. stage[c] = "seed" /\ UNCHANGED <<disk, flaws>>
    BY <1>4 DEF ufile
  <2>2. CASE /\ \E s \in {"ufile", "pieces"} : stage' = [stage EXCEPT ![c] = s]
             /\ UNCHANGED chunktomap
    <3>1. Sound(c)'
      BY <1>1, <1>2, <2>1, <2>2 DEF Sound
    <3> QED BY <1>1, <2>1, <2>2, <3>1, OthersSound
  <2>3. CASE /\ c \notin DOMAIN disk /\ stage' = [stage EXCEPT ![c] = "idle"]
             /\ chunktomap' = [chunktomap EXCEPT ![c] = NoPeers]
    <3>1. Sound(c)'
      BY <1>1, <2>1, <2>3 DEF Sound
    <3> QED BY <1>1, <2>1, <2>3, <3>1, OthersSound
  <2> QED BY <1>4, <2>2, <2>3 DEF ufile, NotUploaded, Goto
<1>5. ASSUME NEW c \in Clients, Recorded(c) PROVE AllSound'
  <2>1. /\ UNCHANGED <<disk, chunktomap, flaws>>
        /\ \/ stage[c] = "upload" /\ stage' = [stage EXCEPT ![c] = "idle"]
           \/ stage[c] = "ufile" /\ stage' = [stage EXCEPT ![c] = "pieces"]
    BY <1>5 DEF Recorded, Goto, jobVars
  <2>2. Sound(c)'
    BY <1>1, <1>2, <2>1 DEF Sound
  <2> QED BY <1>1, <2>1, <2>2, OthersSound
<1>6. ASSUME NEW c \in Clients, download_file(c) PROVE AllSound'
  <2>1. flaws' = [flaws EXCEPT ![c] = {"cut"}] /\ stage' = [stage EXCEPT ![c] = "asking"]
        /\ UNCHANGED <<disk, chunktomap>>
    BY <1>6 DEF download_file, Goto
  <2>2. Sound(c)'
    BY <1>1, <2>1 DEF Sound
  <2> QED BY <1>1, <2>1, <2>2, OthersSound
<1>7. ASSUME NEW c \in Clients, stage[c] \notin {"idle", "upload"}, NEW place,
             stage' = [stage EXCEPT ![c] = place], UNCHANGED <<disk, chunktomap, flaws>>
      PROVE  AllSound'
  <2>1. Sound(c)'
    BY <1>1, <1>2, <1>7 DEF Sound
  <2> QED BY <1>1, <1>7, <2>1, OthersSound
<1>8. ASSUME NEW c \in Clients, Asked(c) PROVE AllSound'
  BY <1>7, <1>8 DEF Asked, Goto, jobVars
<1>9. ASSUME NEW c \in Clients, Finish(c) PROVE AllSound'
  BY <1>7, <1>9 DEF Finish, Goto, jobVars
<1>10. ASSUME NEW c \in Clients, getchunks(c) PROVE AllSound'
  <2>1. stage[c] = "asking" /\ UNCHANGED <<disk, stage>>
    BY <1>10 DEF getchunks
  <2>2. PICK p \in Clients : Answer(c, p) \/ UNCHANGED <<chunktomap, flaws>>
    BY <1>10 DEF getchunks, Types, JobTypes
  <2>3. CASE UNCHANGED <<chunktomap, flaws>>
    BY <1>1, <1>2, <2>1, <2>3 DEF AllSound, Sound
  <2>4. CASE /\ chunktomap' = [chunktomap EXCEPT ![c] =
                                 [k \in Chunks |-> @[k] \cup {q \in {p} : k \in Offered(q)}]]
             /\ flaws' = [flaws EXCEPT ![c] =
                            IF filetomap[p].chunks = Size /\ Whole(filetomap[p].filepath)
                            THEN @ \ {"cut"} ELSE @]
    <3>1. \A k \in Chunks : chunktomap'[c][k] = chunktomap[c][k] \cup {q \in {p} : k \in Offered(q)}
      BY <1>1, <2>4
    <3>2. CASE filetomap[p].chunks = Size
      <4>1. \A k \in Chunks : k \in Offered(p)
        BY <3>2, SwarmAssumption DEF Offered, Chunks
      <4>2. \A k \in Chunks : chunktomap'[c][k] # {}
        BY <3>1, <4>1
      <4>3. Sound(c)'
        BY <2>1, <4>2 DEF Sound, Supplied
      <4> QED BY <1>1, <2>1, <2>4, <4>3, OthersSound
    <3>3. CASE filetomap[p].chunks # Size
      <4>1. flaws'[c] = flaws[c]
        BY <1>1, <2>4, <3>3
      <4>2. Sound(c)'
        BY <1>1, <2>1, <3>1, <4>1 DEF Sound, Supplied, Has
      <4> QED BY <1>1, <2>1, <2>4, <4>2, OthersSound
    <3> QED BY <3>2, <3>3
  <2> QED BY <2>2, <2>3, <2>4 DEF Answer
<1>11. ASSUME NEW c \in Clients, NEW k \in Chunks, GiveUp(c, k) \/ LeaveBehind(c, k)
      PROVE  AllSound'
  <2>1. /\ UNCHANGED <<disk, stage>>
        /\ chunktomap' = [chunktomap EXCEPT ![c][k] = {}]
        /\ flaws' = [flaws EXCEPT ![c] = @ \cup {"missed"}]
    BY <1>11 DEF GiveUp, LeaveBehind
  <2>2. Sound(c)'
    BY <1>1, <2>1 DEF Sound
  <2> QED BY <1>1, <2>1, <2>2, OthersSound
<1>12. ASSUME NEW c \in Clients, NEW k \in Chunks, Arrive(c, k) PROVE AllSound'
  <2>1. /\ UNCHANGED stage
        /\ chunktomap' = [chunktomap EXCEPT ![c][k] = {}]
    BY <1>12 DEF Arrive
  <2>2. chunktomap[c] # NoPeers
    BY <1>12 DEF Arrive, JobsFit, NoPeers
  <2>3. PICK block \in {"hole", "data", "nothing"} : Receive(c, k, block)
    BY <1>12, ArriveFacts
  <2>4. /\ DOMAIN disk' = DOMAIN disk \cup {c}
        /\ \A d \in DOMAIN disk \ {c} : disk'[d] = disk[d]
        /\ c \in DOMAIN disk => /\ Len(disk[c]) <= Len(disk'[c])
                                /\ \A i \in 1..Len(disk[c]) : i # k + 1 => disk'[c][i] = disk[c][i]
        /\ block = "data" => k + 1 <= Len(disk'[c]) /\ disk'[c][k + 1] = "data"
    BY <2>3, ReceiveFacts
  <2>5. flaws' = [flaws EXCEPT ![c] = IF block = "data" THEN @ ELSE @ \cup {"missed"}]
    BY <2>3 DEF Receive
  <2>6. Sound(c)'
    <3>1. SUFFICES ASSUME block = "data", flaws[c] = {}, NEW i \in Chunks
                   PROVE  chunktomap'[c][i] # {} \/ Has(c, i)'
      BY <1>1, <2>5 DEF Sound, Supplied
    <3>2. CASE i = k
      BY <2>4, <3>1, <3>2 DEF Has, HasChunk
    <3>3. CASE i # k
      <4>1. chunktomap'[c][i] = chunktomap[c][i]
        BY <1>1, <2>1, <3>3
      <4>2. chunktomap[c][i] # {} \/ Has(c, i)
        BY <1>1, <2>2, <3>1 DEF Sound, Supplied
      <4>3. Has(c, i) => Has(c, i)'
        <5>1. /\ i + 1 \in Nat \ {0} /\ i + 1 # k + 1
              /\ c \in DOMAIN disk => Len(disk[c]) \in Nat
          BY <3>3, ChunkFacts DEF Types, WorldTypes, IsMap
        <5>2. IsMap(disk, Clients, Seq({"hole", "data"}))'
          BY <2>3, ReceiveFacts
        <5>3. c \in DOMAIN disk' => Len(disk'[c]) \in Nat
          BY <5>2 DEF IsMap
        <5> QED BY <2>4, <5>1, <5>3 DEF Has, HasChunk
      <4> QED BY <4>1, <4>2, <4>3
    <3> QED BY <3>2, <3>3
  <2>7. \A d \in Clients \ {c} : /\ chunktomap'[d] = chunktomap[d] /\ flaws'[d] = flaws[d]
                                 /\ d \in DOMAIN disk' <=> d \in DOMAIN disk
                                 /\ d \in DOMAIN disk => disk'[d] = disk[d]
    BY <1>1, <2>1, <2>4, <2>5
  <2> QED BY <2>1, <2>6, <2>7, OthersSound
<1>13. ASSUME NEW c \in Clients, Start(c) PROVE AllSound'
  <2>1. /\ stage' = [stage EXCEPT ![c] = "idle"]
        /\ flaws' = [flaws EXCEPT ![c] =
                       IF stage[c] \in {"idle", "upload"} /\ chunktomap[c] = NoPeers
                       THEN @ ELSE @ \cup {"stopped"}]
        /\ chunktomap' = [chunktomap EXCEPT ![c] = NoPeers]
        /\ UNCHANGED disk
    BY <1>13 DEF Start, Goto
  <2>2. Sound(c)'
    BY <1>1, <1>2, <2>1 DEF Sound
  <2> QED BY <1>1, <2>1, <2>2, OthersSound
<1>14. ASSUME NEW c \in Clients, RemoveCopy(c) PROVE AllSound'
  <2>1. /\ disk' = Erase(disk, c) /\ stage[c] = "idle" /\ chunktomap[c] = NoPeers
        /\ UNCHANGED <<stage, chunktomap, flaws>>
    BY <1>14 DEF RemoveCopy, AtRest, jobVars
  <2>2. c \notin DOMAIN disk'
    BY <2>1 DEF Erase
  <2>3. \A d \in Clients \ {c} : /\ d \in DOMAIN disk' <=> d \in DOMAIN disk
                                 /\ d \in DOMAIN disk => disk'[d] = disk[d]
    BY <2>1 DEF Erase
  <2>4. Sound(c)'
    BY <1>1, <2>1, <2>2 DEF Sound
  <2> QED BY <1>1, <2>1, <2>3, <2>4, OthersSound
<1>15. CASE UNCHANGED <<disk, stage, chunktomap, flaws>>
  BY <1>2, <1>15 DEF AllSound, Sound
<1>16. ASSUME NEW c \in Clients, Stop(c) \/ \E k \in Chunks, p \in Clients : download(c, k, p)
       PROVE  AllSound'
  BY <1>15, <1>16 DEF Stop, download, jobVars
<1>17. CASE UNCHANGED vars
  BY <1>15, <1>17 DEF vars, jobVars
<1> QED BY <1>3, <1>4, <1>5, <1>6, <1>8, <1>9, <1>10, <1>11, <1>12, <1>13, <1>14, <1>16, <1>17, Steps
        DEF Types

(* A copy that nothing is fetched for any more is whole unless its own     *)
(* download has a flaw: partial copies, which are offered like whole ones, *)
(* spoil no others unnoticed.                                              *)
THEOREM CopiesWhole == Spec => []WholeUnlessFlawed
<1>1. ASSUME Init PROVE AllSound
  <2>1. \A c \in DOMAIN disk : Whole(c)
    BY <1>1 DEF Init, Whole
  <2> QED BY <1>1, <2>1 DEF Init, AllSound, Sound
<1>2. ASSUME Types, CopiesFit, AllSound PROVE WholeUnlessFlawed
  <2> SUFFICES ASSUME NEW c \in DOMAIN disk, AtRest(c), flaws[c] = {}
               PROVE  Whole(c)
    BY DEF WholeUnlessFlawed
  <2>1. c \in Clients
    BY <1>2 DEF Types, WorldTypes, IsMap
  <2>2. Supplied(c) \/ Whole(c)
    BY <1>2, <2>1 DEF AllSound, Sound
  <2> QED BY <1>2, <2>1, <2>2, HasAll DEF AtRest
<1> QED BY <1>1, <1>2, SoundStep, TypesAlways, PTL DEF Spec

=============================================================================
