-------------------------------- MODULE Swarm --------------------------------
(***************************************************************************)
(* One shared file among several clients: who the tracker names as a       *)
(* sharer, what each client's filetomap says of the file, what a client    *)
(* asks of its peers, and what arrives in its copy.                        *)
(*                                                                         *)
(* The clients run on one machine, as the code has them (peers are         *)
(* connected to at INADDR_ANY, and the size of the file at a peer's path   *)
(* is looked up by the downloader itself); each has a copy at a path of    *)
(* its own, which is named after it.  Each piece has a thread.             *)
(*                                                                         *)
(* Left out: login (all who share are logged in), stop_share, two commands *)
(* of one client at a time, the pieces that a download leaves to its       *)
(* workers included (so also a piece in the queue that the workers of the  *)
(* next download take), a copy removed while it is read or written.        *)
(* MaxCommands bounds how often commands are given, MaxMishaps how often   *)
(* clients end and copies are removed.  A definition X_Y is X with the     *)
(* slip Y.                                                                 *)
(***************************************************************************)
EXTENDS Integers, Sequences, FiniteSets, Maps

CONSTANTS Clients,
          Owners,         \* the clients that have the whole file at first
          Size,           \* its chunks
          MaxCommands, MaxMishaps

ASSUME SwarmAssumption == /\ Owners \subseteq Clients
                          /\ Size \in Nat \ {0}
                          /\ MaxCommands \in Nat /\ MaxMishaps \in Nat
                          /\ "nowhere" \notin Clients

VARIABLES listed,         \* the clients that the tracker names
          disk,           \* the copies there are: their chunks, holes or data
          alive,          \* the clients that run
          filetomap,      \* what each client has under the file's name
          stage,          \* where each client is in its command
          toask,          \* the peers userschunkmapinfo has not asked yet
          chunktomap,     \* for each chunk not fetched yet, the peers that offer it
          transfer,       \* for each chunk being fetched, the answer of the peer
          flaws,          \* what went wrong with each copy's download
          restarted,      \* the clients that ended while listed
          removed,        \* the clients whose copy was removed
          commands,       \* how many commands there were
          mishaps         \* how many ends and removals

jobVars == <<toask, chunktomap, transfer, flaws>>
historyVars == <<restarted, removed, commands, mishaps>>
vars == <<listed, disk, alive, filetomap, stage, jobVars, historyVars>>

Chunks == 0..(Size - 1)
Nowhere == "nowhere"      \* a path at which there is nothing

NoEntry == [kind |-> "none", filepath |-> Nowhere, chunks |-> 0]
NullEntry == [kind |-> "null", filepath |-> Nowhere, chunks |-> 0]
FileStr(path, n) == [kind |-> "file", filepath |-> path, chunks |-> n]

Transfer(p, path, sends) == [peer |-> p, filepath |-> path, sends |-> sends]
NoTransfer == Transfer(Nowhere, Nowhere, FALSE)

Length(path) == IF path \in DOMAIN disk THEN Len(disk[path]) ELSE 0

Whole(path) == path \in DOMAIN disk /\ disk[path] = [i \in 1..Size |-> "data"]

NoPeers == [k \in Chunks |-> {}]

(* Chunk 0 is fetched before ufile, the others by the workers, who go on   *)
(* when the download is over.                                              *)
Fetching(k) == IF k = 0 THEN {"seed"} ELSE {"pieces", "idle"}

(* A client that neither downloads nor has workers at it. *)
AtRest(c) == stage[c] = "idle" /\ chunktomap[c] = NoPeers

TypeOK == /\ listed \subseteq Clients
          /\ IsMap(disk, Clients, Seq({"hole", "data"}))
          /\ alive \subseteq Clients
          /\ filetomap \in [Clients -> [kind : {"none", "null", "file"},
                                        filepath : Clients \cup {Nowhere}, chunks : 0..Size]]
          /\ stage \in [Clients -> {"idle", "asking", "seed", "ufile", "upload", "pieces"}]
          /\ toask \in [Clients -> SUBSET Clients]
          /\ chunktomap \in [Clients -> [Chunks -> SUBSET Clients]]
          /\ transfer \in [Clients -> [Chunks -> [peer : Clients \cup {Nowhere},
                                                  filepath : Clients \cup {Nowhere},
                                                  sends : BOOLEAN]]]
          /\ flaws \in [Clients -> SUBSET {"cut", "missed", "stopped"}]
          /\ restarted \subseteq Clients /\ removed \subseteq Clients
          /\ commands \in 0..MaxCommands /\ mishaps \in 0..MaxMishaps
          /\ \A c \in Clients, k \in Chunks : transfer[c][k] # NoTransfer =>
               chunktomap[c][k] # {} /\ stage[c] \in Fetching(k)

Init == /\ listed = {} /\ alive = Clients
        /\ disk = [c \in Owners |-> [i \in 1..Size |-> "data"]]
        /\ filetomap = [c \in Clients |-> NoEntry]
        /\ stage = [c \in Clients |-> "idle"]
        /\ toask = [c \in Clients |-> {}]
        /\ chunktomap = [c \in Clients |-> NoPeers]
        /\ transfer = [c \in Clients |-> [k \in Chunks |-> NoTransfer]]
        /\ flaws = [c \in Clients |-> {}]
        /\ restarted = {} /\ removed = {} /\ commands = 0 /\ mishaps = 0

Given == commands < MaxCommands /\ commands' = commands + 1 /\ UNCHANGED mishaps
Mishap == mishaps < MaxMishaps /\ mishaps' = mishaps + 1 /\ UNCHANGED commands

Goto(c, place) == stage' = [stage EXCEPT ![c] = place]

(* operator[] puts a null pointer under a name that is not there. *)
Lookup(c) == filetomap' = [filetomap EXCEPT ![c] = IF @ = NoEntry THEN NullEntry ELSE @]

-----------------------------------------------------------------------------
(* Sharing: upload_file, or ufile from downloadstart.  The tracker answers *)
(* before the client has the file in its filetomap.                        *)

upload_file(c) == /\ AtRest(c)
                  /\ Given
                  /\ c \in DOMAIN disk
                  /\ listed' = listed \cup {c}
                  /\ Goto(c, "upload")
                  /\ UNCHANGED <<disk, alive, filetomap, jobVars, restarted, removed>>

(* Without a copy there is no file to upload.  The download goes on with   *)
(* an entry from before, and stops at the null entry.                      *)
NotUploaded(c) == \/ /\ filetomap[c].kind = "file"
                     /\ Goto(c, "pieces")
                     /\ UNCHANGED chunktomap
                  \/ /\ filetomap[c].kind # "file"
                     /\ Goto(c, "idle")
                     /\ chunktomap' = [chunktomap EXCEPT ![c] = NoPeers]

ufile(c) == /\ stage[c] = "seed"
            /\ chunktomap[c][0] = {} /\ transfer[c][0] = NoTransfer
            /\ \/ /\ c \in DOMAIN disk
                  /\ listed' = listed \cup {c}
                  /\ Goto(c, "ufile")
                  /\ UNCHANGED chunktomap
               \/ /\ c \notin DOMAIN disk
                  /\ NotUploaded(c)
                  /\ UNCHANGED listed
            /\ UNCHANGED <<flaws, disk, alive, filetomap, toask, transfer, historyVars>>

(* The entry promises all the chunks there are going to be. *)
Record_AllChunks(c) == filetomap' = [filetomap EXCEPT ![c] = FileStr(c, Size)]

(* insert alone, which leaves the null entry that downloadexec made. *)
Record_InsertOnly(c) ==
  filetomap' = [filetomap EXCEPT ![c] = IF @ = NoEntry THEN FileStr(c, Length(c)) ELSE @]

(* The number of chunks is rounded up even when nothing is left over. *)
Record_OneMore(c) == filetomap' = [filetomap EXCEPT ![c] = FileStr(c, Length(c) + 1)]

Record(c) == filetomap' = [filetomap EXCEPT ![c] = FileStr(c, Length(c))]

Recorded(c) == /\ \/ stage[c] = "upload" /\ Goto(c, "idle")
                  \/ stage[c] = "ufile" /\ Goto(c, "pieces")
               /\ Record(c)
               /\ UNCHANGED <<listed, disk, alive, jobVars, historyVars>>

-----------------------------------------------------------------------------
(* Asking who has what *)

download_file(c) == /\ AtRest(c)
                    /\ Given
                    /\ listed # {}
                    /\ Goto(c, "asking")
                    /\ toask' = [toask EXCEPT ![c] = listed]
                    /\ flaws' = [flaws EXCEPT ![c] = {"cut"}]
                    /\ UNCHANGED <<listed, disk, alive, filetomap, chunktomap, transfer,
                                   restarted, removed>>

(* The last chunk is not offered. *)
Offered_OneShort(p) == {k \in Chunks : k < filetomap[p].chunks - 1}

Offered(p) == {k \in Chunks : k < filetomap[p].chunks}

(* A null entry ends the peer that is asked.  Who hears of a peer that has *)
(* a whole file, and knows that it has, is not cut off from any of it.     *)
Answer(c, p) ==
  /\ toask' = [toask EXCEPT ![c] = @ \ {p}]
  /\ IF filetomap[p].kind = "null"
     THEN alive' = alive \ {p} /\ UNCHANGED <<chunktomap, flaws>>
     ELSE /\ chunktomap' = [chunktomap EXCEPT ![c] =
                              [k \in Chunks |-> @[k] \cup {q \in {p} : k \in Offered(q)}]]
          /\ flaws' = [flaws EXCEPT ![c] =
                         IF filetomap[p].chunks = Size /\ Whole(filetomap[p].filepath)
                         THEN @ \ {"cut"} ELSE @]
          /\ UNCHANGED alive

(* Asking ends at the first peer that cannot be reached. *)
getchunks(c) == /\ stage[c] = "asking"
                /\ \E p \in toask[c] :
                     IF p \in alive THEN Answer(c, p)
                     ELSE /\ toask' = [toask EXCEPT ![c] = {}]
                          /\ UNCHANGED <<alive, chunktomap, flaws>>
                /\ UNCHANGED <<listed, disk, filetomap, stage, transfer, historyVars>>

Asked(c) == /\ stage[c] = "asking"
            /\ toask[c] = {}
            /\ IF chunktomap[c] = NoPeers
               THEN Goto(c, "idle") /\ UNCHANGED filetomap
               ELSE Goto(c, "seed") /\ Lookup(c)
            /\ UNCHANGED <<listed, disk, alive, jobVars, historyVars>>

-----------------------------------------------------------------------------
(* Fetching a chunk: first 0, the others after ufile *)

Fetchable(c, k) == stage[c] \in Fetching(k) /\ transfer[c][k] = NoTransfer

(* The peer's answer: its path of the file, and whether it is going to     *)
(* send the chunk.  What is behind the answer in the buffer may spoil the  *)
(* path.  A peer without the file ends, and its answer is empty.           *)
download(c, k, p) ==
  /\ Fetchable(c, k) /\ p \in chunktomap[c][k] /\ p \in alive
  /\ Lookup(p)
  /\ LET entry == filetomap[p]
     IN IF entry.kind = "file"
        THEN /\ \E path \in {entry.filepath, Nowhere} :
                  transfer' = [transfer EXCEPT ![c][k] =
                    Transfer(p, path, k < Length(entry.filepath))]
             /\ UNCHANGED alive
        ELSE /\ transfer' = [transfer EXCEPT ![c][k] = Transfer(p, Nowhere, FALSE)]
             /\ alive' \in {alive \ {p}, alive \ {p, c}}
  /\ UNCHANGED <<listed, disk, stage, toask, chunktomap, flaws, historyVars>>

(* Five attempts fell on peers that have ended. *)
GiveUp(c, k) == /\ Fetchable(c, k)
                /\ chunktomap[c][k] \ alive # {}
                /\ chunktomap' = [chunktomap EXCEPT ![c][k] = {}]
                /\ flaws' = [flaws EXCEPT ![c] = @ \cup {"missed"}]
                /\ UNCHANGED <<listed, disk, alive, filetomap, stage, toask, transfer, historyVars>>

(* The chunk is written, behind a hole where the file was shorter; an      *)
(* empty file is made where nothing is read.                               *)
Written(c, k, block) ==
  LET old == IF c \in DOMAIN disk THEN disk[c] ELSE <<>>
  IN Put(disk, c, [i \in 1..(IF Len(old) > k THEN Len(old) ELSE k + 1) |->
                     IF i = k + 1 THEN block ELSE IF i <= Len(old) THEN old[i] ELSE "hole"])

Touched(c) == Put(disk, c, IF c \in DOMAIN disk THEN disk[c] ELSE <<>>)

(* From now on the client serves what it got the chunk from. *)
Adopt(c, path) ==
  filetomap' = [filetomap EXCEPT ![c] =
    IF @.kind = "file" THEN FileStr(path, IF path \in DOMAIN disk' THEN Len(disk'[path]) ELSE 0)
    ELSE @]

(* What is read for chunk k: the block, or nothing. *)
Receive(c, k, block) ==
  /\ disk' = IF block = "nothing" THEN Touched(c) ELSE Written(c, k, block)
  /\ flaws' = [flaws EXCEPT ![c] = IF block = "data" THEN @ ELSE @ \cup {"missed"}]

(* The downloader waits for what it expects by the size that the file has  *)
(* now, until the peer ends.                                               *)
Arrive(c, k) ==
  LET t == transfer[c][k]
      expects == k < Length(t.filepath)
  IN /\ t # NoTransfer
     /\ \/ expects /\ t.sends /\ Receive(c, k, disk[t.filepath][k + 1])
        \/ ~expects /\ Receive(c, k, "nothing")
        \/ expects /\ t.peer \notin alive /\ Receive(c, k, "nothing")
     /\ Adopt(c, t.filepath)
     /\ transfer' = [transfer EXCEPT ![c][k] = NoTransfer]
     /\ chunktomap' = [chunktomap EXCEPT ![c][k] = {}]
     /\ UNCHANGED <<listed, alive, stage, toask, historyVars>>

(* The pieces are in the queue; nobody waits for the workers. *)
Finish(c) == /\ stage[c] = "pieces"
             /\ Goto(c, "idle")
             /\ UNCHANGED <<listed, disk, alive, filetomap, jobVars, historyVars>>

(* A piece stays in the queue: the workers have gone, or passed it over. *)
LeaveBehind(c, k) ==
  /\ stage[c] = "idle"
  /\ chunktomap[c][k] # {} /\ transfer[c][k] = NoTransfer
  /\ chunktomap' = [chunktomap EXCEPT ![c][k] = {}]
  /\ flaws' = [flaws EXCEPT ![c] = @ \cup {"missed"}]
  /\ UNCHANGED <<listed, disk, alive, filetomap, stage, toask, transfer, historyVars>>

-----------------------------------------------------------------------------
(* Ends and starts of clients *)

Stop(c) == /\ Mishap
           /\ alive' = alive \ {c}
           /\ UNCHANGED <<listed, disk, filetomap, stage, jobVars, restarted, removed>>

(* The sharer starts its client again at the same address. *)
Start(c) == /\ alive' = alive \cup {c}
            /\ filetomap' = [filetomap EXCEPT ![c] = NoEntry]
            /\ flaws' = [flaws EXCEPT ![c] =
                           IF stage[c] \in {"idle", "upload"} /\ chunktomap[c] = NoPeers
                           THEN @ ELSE @ \cup {"stopped"}]
            /\ Goto(c, "idle")
            /\ toask' = [toask EXCEPT ![c] = {}]
            /\ chunktomap' = [chunktomap EXCEPT ![c] = NoPeers]
            /\ transfer' = [transfer EXCEPT ![c] = [k \in Chunks |-> NoTransfer]]
            /\ restarted' = IF c \in listed THEN restarted \cup {c} ELSE restarted
            /\ UNCHANGED <<listed, disk, removed, commands, mishaps>>

(* The user deletes the copy. *)
RemoveCopy(c) == /\ AtRest(c)
                 /\ Mishap
                 /\ c \in DOMAIN disk
                 /\ \A d \in Clients, k \in Chunks : transfer[d][k].filepath # c
                 /\ disk' = Erase(disk, c)
                 /\ removed' = removed \cup {c}
                 /\ UNCHANGED <<listed, alive, filetomap, stage, jobVars, restarted>>

handle_connection(c) == \/ getchunks(c)
                        \/ \E k \in Chunks : \E p \in chunktomap[c][k] : download(c, k, p)

Command(c) == \/ upload_file(c) \/ ufile(c) \/ Recorded(c)
              \/ download_file(c) \/ Asked(c) \/ Finish(c)
              \/ handle_connection(c)
              \/ \E k \in Chunks : GiveUp(c, k) \/ Arrive(c, k) \/ LeaveBehind(c, k)
              \/ Stop(c)

Next == \/ \E c \in alive : Command(c) \/ RemoveCopy(c)
        \/ \E c \in Clients \ alive : Start(c)

Spec == Init /\ [][Next]_vars

-----------------------------------------------------------------------------
(* Whom the tracker names can answer for the file: a client that runs and  *)
(* has not ended since has an entry that getchunks and download can        *)
(* follow, but for the moment between the tracker's answer and its own     *)
(* filetomap, in which a request does end it.                              *)
ListedCanAnswer ==
  \A c \in listed \cap alive :
    filetomap[c].kind = "file" \/ stage[c] \in {"upload", "ufile"} \/ c \in restarted

(* What a client offers is there: the path in its entry is that of some    *)
(* listed client's copy, and that copy has the chunks offered, unless it   *)
(* was removed; also when the path is another client's, taken over with a  *)
(* chunk.                                                                  *)
OfferedExist ==
  \A c \in Clients :
    LET path == filetomap[c].filepath
    IN \/ path = Nowhere /\ filetomap[c].chunks = 0
       \/ path \in removed
       \/ path \in listed /\ path \in DOMAIN disk /\ filetomap[c].chunks <= Len(disk[path])

(* A copy that nothing is fetched for any more is whole unless its own     *)
(* download ended early, gave a chunk up, left one in the queue, met a     *)
(* hole, or heard of the whole file from nobody: partial copies, which are *)
(* offered like whole ones, spoil no others unnoticed.                     *)
WholeUnlessFlawed ==
  \A c \in DOMAIN disk : AtRest(c) /\ flaws[c] = {} => Whole(c)
=============================================================================
